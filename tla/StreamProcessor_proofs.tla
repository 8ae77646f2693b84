------------------------ MODULE StreamProcessor_proofs ------------------------
(***************************************************************************)
(* Proofs about StreamProcessor for every topic, number of workers, queue  *)
(* and batch size, and any number of signals, crashes and failures.        *)
(***************************************************************************)
EXTENDS StreamProcessor, TLAPS, SequenceTheorems, FiniteSetTheorems

Stage == {"serving", "join", "flush", "flushProducer", "close", "closePool",
          "closeProducer", "leave", "gone"}

Step == {"out", "check", "insert", "clear"}

Place == {"loop", "get", "validate", "extract", "publish", "done", "exited"}

(* A worker holds a message exactly between get and task_done, and calls   *)
(* the writer only with one.                                               *)
Shape ==
    /\ \A w \in Workers : msg[w] = NoMsg <=> at[w] \in {"loop", "get", "exited"}
    /\ consumer = "put" => position - 1 \in Offset
    /\ \A w \in Workers : call[w] # "out" => at[w] \in {"extract", "publish"}

TypeInv == TypeOK /\ Shape

ProcessorInv == TypeInv /\ TaskAccounting

LEMMA LogLength == Len(Log) \in Nat /\ Offset \subseteq Nat /\ NoMsg \notin Offset
  BY ProcessorAssumption, LenProperties DEF Offset, NoMsg

LEMMA WorkersAreThreads == Workers \subseteq Thread /\ "main" \in Thread /\ "writer" \in Thread
                           /\ "main" \notin Workers /\ "writer" \notin Workers
  BY ProcessorAssumption DEF Thread

LEMMA AppendElements ==
    ASSUME NEW S, NEW q \in Seq(S), NEW x \in S
    PROVE  /\ Append(q, x) \in Seq(S)
           /\ Len(Append(q, x)) = Len(q) + 1
           /\ Elements(Append(q, x)) = Elements(q) \cup {x}
  <1> DEFINE n == Len(q)
             new == Append(q, x)
  <1>1. /\ n \in Nat /\ Len(new) = n + 1 /\ new \in Seq(S)
        /\ \A k \in 1 .. n : new[k] = q[k]
        /\ new[n + 1] = x
    BY LenProperties
  <1>2. 1 .. n + 1 = (1 .. n) \cup {n + 1}
    BY <1>1
  <1>3. {new[k] : k \in 1 .. n + 1} = {new[k] : k \in 1 .. n} \cup {new[n + 1]}
    BY <1>2
  <1>4. {new[k] : k \in 1 .. n} = {q[k] : k \in 1 .. n}
    BY <1>1
  <1>. HIDE DEF n, new
  <1>. QED BY <1>1, <1>3, <1>4 DEF Elements, n, new

LEMMA TailElements ==
    ASSUME NEW S, NEW q \in Seq(S), q # <<>>
    PROVE  /\ Head(q) \in S
           /\ Tail(q) \in Seq(S)
           /\ Len(Tail(q)) = Len(q) - 1
           /\ Len(q) \in Nat \ {0}
           /\ Elements(q) = Elements(Tail(q)) \cup {Head(q)}
  <1>1. /\ Head(q) \in S /\ Tail(q) \in Seq(S)
        /\ Len(Tail(q)) = Len(q) - 1
        /\ \A k \in 1 .. Len(Tail(q)) : Tail(q)[k] = q[k + 1]
        /\ Head(q) = q[1]
    BY HeadTailProperties
  <1>2. Len(q) \in Nat \ {0}
    BY EmptySeq
  <1>3. \A k \in 1 .. Len(q) : k = 1 \/ k - 1 \in 1 .. Len(Tail(q))
    BY <1>1, <1>2
  <1>4. \A k \in 1 .. Len(Tail(q)) : k + 1 \in 1 .. Len(q)
    BY <1>1, <1>2
  <1>5. ASSUME NEW e \in Elements(q) PROVE e \in Elements(Tail(q)) \cup {Head(q)}
    <2>1. PICK k \in 1 .. Len(q) : e = q[k]
      BY DEF Elements
    <2>2. CASE k = 1
      BY <1>1, <2>1, <2>2
    <2>3. CASE k # 1
      <3>1. k - 1 \in 1 .. Len(Tail(q)) /\ (k - 1) + 1 = k
        BY <1>2, <1>3, <2>3
      <3>2. e = Tail(q)[k - 1]
        BY <1>1, <2>1, <3>1
      <3>. QED BY <3>1, <3>2 DEF Elements
    <2>. QED BY <2>2, <2>3
  <1>6. ASSUME NEW e \in Elements(Tail(q)) \cup {Head(q)} PROVE e \in Elements(q)
    <2>1. CASE e = Head(q)
      BY <1>1, <1>2, <2>1 DEF Elements
    <2>2. CASE e \in Elements(Tail(q))
      <3>1. PICK k \in 1 .. Len(Tail(q)) : e = Tail(q)[k]
        BY <2>2 DEF Elements
      <3>. QED BY <1>1, <1>4, <3>1 DEF Elements
    <2>. QED BY <2>1, <2>2
  <1>. QED BY <1>1, <1>2, <1>5, <1>6

-------------------------------------------------------------------------------
(* The set of busy workers *)

LEMMA BusyFinite ==
    ASSUME TypeInv
    PROVE  /\ IsFiniteSet(Busy) /\ Cardinality(Busy) \in Nat
           /\ \A w \in Busy : /\ Cardinality(Busy \ {w}) = Cardinality(Busy) - 1
                              /\ Cardinality(Busy) >= 1
           /\ \A w \in Workers \ Busy : Cardinality(Busy \cup {w}) = Cardinality(Busy) + 1
  <1>1. IsFiniteSet(Busy)
    BY ProcessorAssumption, FS_Subset DEF Busy
  <1>2. Cardinality(Busy) \in Nat
    BY <1>1, FS_CardinalityType
  <1>3. ASSUME NEW w \in Busy
        PROVE  Cardinality(Busy \ {w}) = Cardinality(Busy) - 1 /\ Cardinality(Busy) >= 1
    <2>1. Cardinality(Busy \ {w}) = Cardinality(Busy) - 1
      BY <1>1, FS_RemoveElement
    <2>2. Cardinality(Busy \ {w}) \in Nat
      BY <1>1, FS_Subset, FS_CardinalityType
    <2>. QED BY <1>2, <2>1, <2>2
  <1>4. \A w \in Workers \ Busy : Cardinality(Busy \cup {w}) = Cardinality(Busy) + 1
    BY <1>1, FS_AddElement
  <1>. QED BY <1>1, <1>2, <1>3, <1>4

LEMMA InitInv == Init => ProcessorInv
  <1> SUFFICES ASSUME Init PROVE ProcessorInv
    OBVIOUS
  <1>1. Len(Log) \in Nat /\ NoMsg \notin Offset
    BY LogLength
  <1>2. TypeOK
    BY <1>1, ProcessorAssumption DEF Init, TypeOK, Idle, Free, Out, None, Table
  <1>3. Shape
    BY WorkersAreThreads DEF Init, Shape, Idle, Free, Out
  <1>4. Busy = {}
    BY DEF Init, Busy, Free
  <1>5. TaskAccounting
    <2>1. Cardinality({}) = 0 /\ Len(<<>>) = 0
      BY FS_EmptySet
    <2>. QED BY <1>4, <2>1 DEF Init, TaskAccounting
  <1>. QED BY <1>2, <1>3, <1>5 DEF ProcessorInv, TypeInv

-------------------------------------------------------------------------------
(* Steps of the consumer *)

LEMMA PollInv ==
    ASSUME ProcessorInv, Poll
    PROVE  ProcessorInv'
  <1>1. position + 1 \in 1 .. Len(Log) + 1 /\ (position + 1) - 1 \in Offset
    BY LogLength DEF Poll, Offset
  <1>2. TypeInv'
    BY <1>1 DEF Poll, ProcessorInv, TypeInv, TypeOK, Shape, queueVars, workerVars, mainVars,
                tableVars, history
  <1>. QED
    BY <1>2 DEF Poll, ProcessorInv, TaskAccounting, Busy, queueVars, workerVars

LEMMA PutInv ==
    ASSUME ProcessorInv, NEW up \in BOOLEAN, Put(up)
    PROVE  ProcessorInv'
  <1>1. /\ inputQueue \in Seq(Offset) /\ position - 1 \in Offset
        /\ Len(inputQueue) < QueueSize /\ Len(inputQueue) \in Nat
        /\ inputQueue' = Append(inputQueue, position - 1)
        /\ unfinished' = unfinished + 1
    BY LenProperties DEF Put, ProcessorInv, TypeInv, TypeOK, Shape
  <1>2. inputQueue' \in Seq(Offset) /\ Len(inputQueue') = Len(inputQueue) + 1
    BY <1>1, AppendElements
  <1>3. Len(inputQueue') <= QueueSize
    BY <1>1, <1>2, ProcessorAssumption
  <1>4. committed' \in 1 .. Len(Log) + 1 /\ sinceCommit' \in Nat
    BY DEF Put, ProcessorInv, TypeInv, TypeOK
  <1>5. unfinished' \in Nat
    BY <1>1 DEF ProcessorInv, TypeInv, TypeOK
  <1>6. TypeInv'
    BY <1>2, <1>3, <1>4, <1>5
    DEF Put, ProcessorInv, TypeInv, TypeOK, Shape, workerVars, mainVars, tableVars, history
  <1>7. TaskAccounting'
    <2>1. Cardinality(Busy) \in Nat /\ Busy' = Busy
      BY BusyFinite DEF Put, ProcessorInv, Busy, workerVars
    <2>2. unfinished \in Nat /\ unfinished = Len(inputQueue) + Cardinality(Busy)
      BY DEF ProcessorInv, TypeInv, TypeOK, TaskAccounting
    <2>3. unfinished' = Len(inputQueue') + Cardinality(Busy)
      BY <1>1, <1>2, <2>1, <2>2
    <2>. QED BY <2>1, <2>3 DEF TaskAccounting
  <1>. QED BY <1>6, <1>7 DEF ProcessorInv

LEMMA ConsumerEndsInv ==
    ASSUME ProcessorInv, NEW kafkaError \in BOOLEAN, ConsumerEnds(kafkaError)
    PROVE  ProcessorInv'
  <1>1. TypeInv'
    BY DEF ConsumerEnds, ProcessorInv, TypeInv, TypeOK, Shape, queueVars, workerVars, mainVars,
           tableVars, history
  <1>. QED
    BY <1>1 DEF ConsumerEnds, ProcessorInv, TaskAccounting, Busy, queueVars, workerVars
-------------------------------------------------------------------------------
(* The tables *)

LEMMA AddCopiesType ==
    ASSUME TypeOK, NEW tb \in Table, NEW rows
    PROVE  AddCopies(tb, rows) \in [Offset -> Nat]
  <1>1. stored[tb] \in [Offset -> Nat]
    BY DEF TypeOK
  <1>. QED BY <1>1 DEF AddCopies

LEMMA AppendRowType ==
    ASSUME TypeOK, NEW t \in Thread, NEW tb \in Table, NEW i \in Offset, AppendRow(t, tb, i)
    PROVE  /\ call' \in [Thread -> Step] /\ list' \in [Thread -> Table]
           /\ pending' \in [Table -> SUBSET Offset] /\ late' \in [Table -> SUBSET Offset]
  <1>1. call' \in [Thread -> Step] /\ list' \in [Thread -> Table]
    BY DEF AppendRow, TypeOK, Step
  <1>2. pending' \in [Table -> SUBSET Offset]
    BY DEF AppendRow, TypeOK
  <1>3. late' \in [Table -> SUBSET Offset]
    BY DEF AppendRow, TypeOK
  <1>. QED BY <1>1, <1>2, <1>3

LEMMA FlushEndsType ==
    ASSUME TypeOK, NEW t \in Thread, FlushEnds(t) \/ Returns(t) \/ FlushAll(t)
    PROVE  /\ call' \in [Thread -> Step] /\ list' \in [Thread -> Table]
           /\ \A u \in Thread : u # t => call'[u] = call[u] /\ list'[u] = list[u]
  BY DEF FlushEnds, Returns, FlushAll, TypeOK, Step, Table

LEMMA InsertRowsType ==
    ASSUME TypeOK, NEW tb \in Table, InsertRows(tb)
    PROVE  /\ stored' \in [Table -> [Offset -> Nat]]
           /\ here' \in [Table -> SUBSET Offset]
  <1>1. AddCopies(tb, pending[tb]) \in [Offset -> Nat]
    BY AddCopiesType
  <1>2. stored' \in [Table -> [Offset -> Nat]]
    BY <1>1 DEF InsertRows, TypeOK
  <1>3. here' \in [Table -> SUBSET Offset]
    BY DEF InsertRows, TypeOK
  <1>. QED BY <1>2, <1>3

-------------------------------------------------------------------------------
(* Steps of a worker *)

Away == {"loop", "get", "exited"}

(* A worker's step that neither takes a message nor gives it up. *)
LEMMA WorkerMove ==
    ASSUME ProcessorInv, NEW w \in Workers, NEW where \in Place,
           at' = [at EXCEPT ![w] = where], where \in Away <=> at[w] \in Away,
           \/ call' = call /\ call[w] = "out"
           \/ where \in {"extract", "publish"} /\ \E c : call' = [call EXCEPT ![w] = c],
           UNCHANGED <<position, consumer, queueVars, msg>>
    PROVE  /\ at' \in [Workers -> Place]
           /\ Shape'
           /\ TaskAccounting'
  <1>1. at' \in [Workers -> Place]
    BY DEF ProcessorInv, TypeInv, TypeOK, Place
  <1>2. Shape'
    <2>1. \A u \in Workers : msg'[u] = NoMsg <=> at'[u] \in {"loop", "get", "exited"}
      BY DEF ProcessorInv, TypeInv, TypeOK, Shape, Away
    <2>2. \A u \in Workers : call'[u] # "out" => at'[u] \in {"extract", "publish"}
      BY WorkersAreThreads DEF ProcessorInv, TypeInv, TypeOK, Shape
    <2>. QED BY <2>1, <2>2 DEF ProcessorInv, TypeInv, Shape
  <1>3. TaskAccounting'
    BY DEF ProcessorInv, TaskAccounting, Busy, queueVars
  <1>. QED BY <1>1, <1>2, <1>3

LEMMA HoldsMessage ==
    ASSUME ProcessorInv, NEW w \in Workers, at[w] \notin Away
    PROVE  msg[w] \in Offset
  BY DEF ProcessorInv, TypeInv, TypeOK, Shape, Away

(* The steps of a worker that change nothing but its place. *)
LEMMA QuietWorkerInv ==
    ASSUME ProcessorInv, NEW w \in Workers,
           \/ CheckRunning(w) \/ GetTimesOut(w) \/ Reject(w) \/ NoFeatures(w)
    PROVE  ProcessorInv'
  <1>1. \E where \in Place : /\ at' = [at EXCEPT ![w] = where]
                             /\ where \in Away <=> at[w] \in Away
    BY DEF CheckRunning, GetTimesOut, Reject, NoFeatures, Goto, Place, Away
  <1>2. UNCHANGED <<kafkaVars, queueVars, msg, writer, mainVars, tableVars, poolOpen,
                   producer, published, handled, history, crashes, faults>>
    BY DEF CheckRunning, GetTimesOut, Reject, NoFeatures
  <1>3. call' = call /\ call[w] = "out"
    BY DEF CheckRunning, GetTimesOut, Reject, NoFeatures, tableVars, ProcessorInv, TypeInv, Shape
  <1>4. at' \in [Workers -> Place] /\ Shape' /\ TaskAccounting'
    BY <1>1, <1>2, <1>3, WorkerMove DEF kafkaVars
  <1>. QED
    BY <1>2, <1>4
    DEF ProcessorInv, TypeInv, TypeOK, Place, kafkaVars, queueVars, mainVars, tableVars, history

LEMMA ExtractFailsInv ==
    ASSUME ProcessorInv, NEW w \in Workers, ExtractFails(w)
    PROVE  ProcessorInv'
  <1>1. at' \in [Workers -> Place] /\ Shape' /\ TaskAccounting'
    BY WorkerMove DEF ExtractFails, Goto, Place, Away, kafkaVars, tableVars
  <1>2. faults' \in Nat
    BY DEF ExtractFails, ProcessorInv, TypeInv, TypeOK
  <1>. QED
    BY <1>1, <1>2
    DEF ExtractFails, ProcessorInv, TypeInv, TypeOK, Place, kafkaVars, queueVars, mainVars,
        tableVars, history

LEMMA WriteInv ==
    ASSUME ProcessorInv, NEW w \in Workers, WriteReading(w) \/ WriteFeatures(w)
    PROVE  ProcessorInv'
  <1>1. at[w] \notin Away
    BY DEF WriteReading, WriteFeatures, Away
  <1>2. msg[w] \in Offset /\ w \in Thread
    BY <1>1, HoldsMessage, WorkersAreThreads
  <1>3. \E tb \in Table : AppendRow(w, tb, msg[w])
    BY DEF WriteReading, WriteFeatures, Table
  <1>4. /\ call' \in [Thread -> Step] /\ list' \in [Thread -> Table]
        /\ pending' \in [Table -> SUBSET Offset] /\ late' \in [Table -> SUBSET Offset]
        /\ UNCHANGED <<stored, here, uncleared>>
        /\ \E c : call' = [call EXCEPT ![w] = c]
    BY <1>2, <1>3, AppendRowType DEF ProcessorInv, TypeInv, AppendRow
  <1>5. \E where \in {"extract", "publish"} : at' = [at EXCEPT ![w] = where]
    BY DEF WriteReading, WriteFeatures, Goto
  <1>6. UNCHANGED <<kafkaVars, queueVars, msg, writer, mainVars, poolOpen, producer,
                   published, handled, history, crashes, faults>>
    BY DEF WriteReading, WriteFeatures
  <1>7. at' \in [Workers -> Place] /\ Shape' /\ TaskAccounting'
    BY <1>1, <1>4, <1>5, <1>6, WorkerMove DEF kafkaVars, Place, Away
  <1>. QED
    BY <1>4, <1>6, <1>7
    DEF ProcessorInv, TypeInv, TypeOK, Place, Step, kafkaVars, queueVars, mainVars, history

LEMMA PublishInv ==
    ASSUME ProcessorInv, NEW w \in Workers, Publish(w)
    PROVE  ProcessorInv'
  <1>1. at' \in [Workers -> Place] /\ Shape' /\ TaskAccounting'
    BY WorkerMove DEF Publish, Goto, Place, Away, kafkaVars, tableVars
  <1>2. msg[w] \in Offset
    BY HoldsMessage DEF Publish, Away
  <1>3. published' \in SUBSET Offset
    BY <1>2 DEF Publish, ProcessorInv, TypeInv, TypeOK
  <1>. QED
    BY <1>1, <1>3
    DEF Publish, ProcessorInv, TypeInv, TypeOK, Place, kafkaVars, queueVars, mainVars,
        tableVars, history

LEMMA TakeInv ==
    ASSUME ProcessorInv, NEW w \in Workers, Take(w)
    PROVE  ProcessorInv'
  <1>1. /\ Head(inputQueue) \in Offset /\ Tail(inputQueue) \in Seq(Offset)
        /\ Len(Tail(inputQueue)) = Len(inputQueue) - 1
        /\ Len(inputQueue) \in Nat \ {0}
    BY TailElements DEF Take, ProcessorInv, TypeInv, TypeOK
  <1>2. /\ msg' = [msg EXCEPT ![w] = Head(inputQueue)]
        /\ at' = [at EXCEPT ![w] = "validate"] /\ at[w] = "get"
        /\ inputQueue' = Tail(inputQueue) /\ unfinished' = unfinished
        /\ UNCHANGED <<position, consumer>>
    BY DEF Take, Goto, kafkaVars
  <1>3. Len(inputQueue') <= QueueSize
    BY <1>1, <1>2, ProcessorAssumption DEF ProcessorInv, TypeInv, TypeOK
  <1>4. /\ msg' \in [Workers -> Offset \cup {NoMsg}]
        /\ at' \in [Workers -> Place]
    BY <1>1, <1>2 DEF ProcessorInv, TypeInv, TypeOK, Place
  <1>5. Shape'
    <2>1. \A u \in Workers : u # w => msg'[u] = msg[u] /\ at'[u] = at[u]
      BY <1>2 DEF ProcessorInv, TypeInv, TypeOK
    <2>2. msg'[w] # NoMsg /\ at'[w] = "validate"
      BY <1>1, <1>2, LogLength DEF ProcessorInv, TypeInv, TypeOK
    <2>3. call' = call /\ call[w] = "out"
      BY <1>2 DEF Take, tableVars, ProcessorInv, TypeInv, Shape
    <2>. QED BY <1>2, <2>1, <2>2, <2>3 DEF ProcessorInv, TypeInv, Shape
  <1>6. w \in Workers \ Busy /\ Busy' = Busy \cup {w}
    BY <1>1, <1>2, LogLength DEF ProcessorInv, TypeInv, TypeOK, Shape, Busy
  <1>7. TaskAccounting'
    <2>1. Cardinality(Busy') = Cardinality(Busy) + 1 /\ Cardinality(Busy) \in Nat
      BY <1>6, BusyFinite DEF ProcessorInv
    <2>2. unfinished = Len(inputQueue) + Cardinality(Busy)
      BY DEF ProcessorInv, TaskAccounting
    <2>3. unfinished' = Len(inputQueue') + Cardinality(Busy')
      BY <1>1, <1>2, <2>1, <2>2
    <2>. QED BY <2>3 DEF TaskAccounting, Busy
  <1>. QED
    BY <1>1, <1>2, <1>3, <1>4, <1>5, <1>7
    DEF Take, ProcessorInv, TypeInv, TypeOK, Place, kafkaVars, mainVars, tableVars, history

LEMMA TaskDoneInv ==
    ASSUME ProcessorInv, NEW w \in Workers, TaskDone(w)
    PROVE  ProcessorInv'
  <1>1. /\ msg' = [msg EXCEPT ![w] = NoMsg]
        /\ at' = [at EXCEPT ![w] = "loop"] /\ at[w] = "done"
        /\ inputQueue' = inputQueue /\ unfinished' = unfinished - 1
        /\ UNCHANGED <<position, consumer>>
    BY DEF TaskDone, Goto, kafkaVars
  <1>2. msg[w] \in Offset
    BY <1>1, HoldsMessage DEF Away
  <1>3. /\ msg' \in [Workers -> Offset \cup {NoMsg}]
        /\ at' \in [Workers -> Place]
        /\ handled' \in SUBSET Offset
    BY <1>1, <1>2 DEF TaskDone, ProcessorInv, TypeInv, TypeOK, Place
  <1>4. Shape'
    <2>1. \A u \in Workers : u # w => msg'[u] = msg[u] /\ at'[u] = at[u]
      BY <1>1 DEF ProcessorInv, TypeInv, TypeOK
    <2>2. msg'[w] = NoMsg /\ at'[w] = "loop"
      BY <1>1 DEF ProcessorInv, TypeInv, TypeOK
    <2>3. call' = call /\ call[w] = "out"
      BY <1>1 DEF TaskDone, tableVars, ProcessorInv, TypeInv, Shape
    <2>. QED BY <1>1, <2>1, <2>2, <2>3 DEF ProcessorInv, TypeInv, Shape
  <1>5. w \in Busy /\ Busy' = Busy \ {w}
    BY <1>1, <1>2, LogLength DEF ProcessorInv, TypeInv, TypeOK, Busy
  <1>6. TaskAccounting' /\ unfinished' \in Nat
    <2>1. /\ Cardinality(Busy') = Cardinality(Busy) - 1
          /\ Cardinality(Busy) \in Nat /\ Cardinality(Busy) >= 1
      BY <1>5, BusyFinite DEF ProcessorInv
    <2>2. unfinished = Len(inputQueue) + Cardinality(Busy) /\ Len(inputQueue) \in Nat
      BY LenProperties DEF ProcessorInv, TypeInv, TypeOK, TaskAccounting
    <2>3. unfinished' = Len(inputQueue') + Cardinality(Busy') /\ unfinished' \in Nat
      BY <1>1, <2>1, <2>2
    <2>. QED BY <2>3 DEF TaskAccounting, Busy
  <1>. QED
    BY <1>1, <1>3, <1>4, <1>6
    DEF TaskDone, ProcessorInv, TypeInv, TypeOK, Place, kafkaVars, mainVars, tableVars, history
-------------------------------------------------------------------------------
(* Steps of the other threads *)

(* A step that touches neither the queue nor the workers nor the consumer. *)
LEMMA AccountsKept ==
    ASSUME ProcessorInv, UNCHANGED <<position, consumer, queueVars, workerVars>>,
           \A w \in Workers : call'[w] \in {call[w], "out"}
    PROVE  Shape' /\ TaskAccounting'
  BY DEF ProcessorInv, TypeInv, Shape, TaskAccounting, Busy, queueVars, workerVars

(* What a step within a call does to the places of the threads. *)
LEMMA CallMoves ==
    ASSUME ProcessorInv, NEW t \in Thread, CallStep(t)
    PROVE  /\ call[t] # "out"
           /\ call' \in [Thread -> Step] /\ list' \in [Thread -> Table]
           /\ \A u \in Thread : u # t => call'[u] = call[u] /\ list'[u] = list[u]
           /\ UNCHANGED <<kafkaVars, queueVars, msg, writer, running, drained, signals, late,
                          poolOpen, producer, published, handled, history, crashes>>
           /\ \/ UNCHANGED <<at, main>>
              \/ call'[t] = "out" /\ CallerCatches(t)
  <1>0. TypeOK
    BY DEF ProcessorInv, TypeInv
  <1>1. CASE Check(t)
    <2>1. /\ call[t] = "check"
          /\ UNCHANGED <<kafkaVars, queueVars, msg, writer, running, drained, signals, late,
                         poolOpen, producer, published, handled, history, crashes, at, main>>
          /\ (call' = [call EXCEPT ![t] = "insert"] /\ list' = list) \/ FlushEnds(t)
      BY <1>1 DEF Check, workerVars, mainVars, rowVars
    <2>2. CASE call' = [call EXCEPT ![t] = "insert"] /\ list' = list
      BY <1>0, <2>1, <2>2 DEF TypeOK, Step
    <2>3. CASE FlushEnds(t)
      BY <1>0, <2>1, <2>3, FlushEndsType
    <2>. QED BY <2>1, <2>2, <2>3
  <1>2. CASE Insert(t)
    BY <1>0, <1>2 DEF Insert, workerVars, mainVars, TypeOK, Step
  <1>3. CASE Clear(t)
    BY <1>0, <1>3, FlushEndsType DEF Clear, workerVars, mainVars
  <1>4. ASSUME NEW applied \in BOOLEAN, NEW raises \in BOOLEAN, InsertFails(t, applied, raises)
        PROVE  /\ call[t] # "out"
               /\ call' \in [Thread -> Step] /\ list' \in [Thread -> Table]
               /\ \A u \in Thread : u # t => call'[u] = call[u] /\ list'[u] = list[u]
               /\ UNCHANGED <<kafkaVars, queueVars, msg, writer, running, drained, signals, late,
                              poolOpen, producer, published, handled, history, crashes>>
               /\ \/ UNCHANGED <<at, main>>
                  \/ call'[t] = "out" /\ CallerCatches(t)
    <2>1. /\ call[t] = "insert"
          /\ UNCHANGED <<kafkaVars, queueVars, msg, writer, running, drained, signals, late,
                         poolOpen, producer, published, handled, history, crashes>>
          /\ \/ Returns(t) /\ CallerCatches(t)
             \/ FlushEnds(t) /\ UNCHANGED <<at, main>>
      BY <1>4 DEF InsertFails
    <2>2. CASE Returns(t) /\ CallerCatches(t)
      <3>1. call'[t] = "out"
        BY <1>0, <2>2 DEF Returns, TypeOK
      <3>. QED BY <1>0, <2>1, <2>2, <3>1, FlushEndsType
    <2>3. CASE FlushEnds(t) /\ UNCHANGED <<at, main>>
      BY <1>0, <2>1, <2>3, FlushEndsType
    <2>. QED BY <2>1, <2>2, <2>3
  <1>. QED BY <1>1, <1>2, <1>3, <1>4 DEF CallStep

(* What it does to the rows. *)
LEMMA CallRows ==
    ASSUME ProcessorInv, NEW t \in Thread, CallStep(t)
    PROVE  /\ pending' \in [Table -> SUBSET Offset] /\ stored' \in [Table -> [Offset -> Nat]]
           /\ here' \in [Table -> SUBSET Offset] /\ uncleared' \in [Table -> SUBSET Offset]
           /\ faults' \in Nat /\ (faults' = 0 => faults = 0)
  <1>0. TypeOK /\ list[t] \in Table
    BY DEF ProcessorInv, TypeInv, TypeOK
  <1>1. CASE Check(t)
    BY <1>0, <1>1 DEF Check, rowVars, TypeOK
  <1>2. CASE Insert(t)
    BY <1>0, <1>2, InsertRowsType DEF Insert, TypeOK
  <1>3. CASE Clear(t)
    BY <1>0, <1>3 DEF Clear, TypeOK
  <1>4. ASSUME NEW applied \in BOOLEAN, NEW raises \in BOOLEAN, InsertFails(t, applied, raises)
        PROVE  /\ pending' \in [Table -> SUBSET Offset] /\ stored' \in [Table -> [Offset -> Nat]]
               /\ here' \in [Table -> SUBSET Offset] /\ uncleared' \in [Table -> SUBSET Offset]
               /\ faults' \in Nat /\ (faults' = 0 => faults = 0)
    <2>1. /\ pending' = pending /\ faults' \in {faults, faults + 1}
          /\ \/ UNCHANGED <<stored, here, uncleared>>
             \/ /\ InsertRows(list[t])
                /\ uncleared' = [uncleared EXCEPT ![list[t]] = @ \cup pending[list[t]]]
      BY <1>4 DEF InsertFails
    <2>2. faults' \in Nat /\ (faults' = 0 => faults = 0)
      BY <1>0, <2>1 DEF TypeOK
    <2>3. uncleared' \in [Table -> SUBSET Offset]
      <3>1. uncleared \in [Table -> SUBSET Offset] /\ pending[list[t]] \in SUBSET Offset
        BY <1>0 DEF TypeOK
      <3>2. CASE UNCHANGED <<stored, here, uncleared>>
        BY <3>1, <3>2
      <3>3. CASE uncleared' = [uncleared EXCEPT ![list[t]] = @ \cup pending[list[t]]]
        BY <1>0, <3>1, <3>3
      <3>. QED BY <2>1, <3>2, <3>3
    <2>. QED BY <1>0, <2>1, <2>2, <2>3, InsertRowsType DEF TypeOK
  <1>. QED BY <1>1, <1>2, <1>3, <1>4 DEF CallStep

LEMMA CallInv ==
    ASSUME ProcessorInv, NEW t \in Thread, CallStep(t)
    PROVE  ProcessorInv'
  <1>1. /\ call[t] # "out"
        /\ call' \in [Thread -> Step] /\ list' \in [Thread -> Table]
        /\ \A u \in Thread : u # t => call'[u] = call[u]
        /\ UNCHANGED <<kafkaVars, queueVars, msg, writer, running, drained, signals, late,
                       poolOpen, producer, published, handled, history, crashes>>
        /\ \/ UNCHANGED <<at, main>>
           \/ call'[t] = "out" /\ CallerCatches(t)
    BY CallMoves
  <1>2. /\ pending' \in [Table -> SUBSET Offset] /\ stored' \in [Table -> [Offset -> Nat]]
        /\ here' \in [Table -> SUBSET Offset] /\ uncleared' \in [Table -> SUBSET Offset]
        /\ faults' \in Nat
    BY CallRows
  <1>3. at' \in [Workers -> Place] /\ main' \in Stage
    <2>1. at \in [Workers -> Place] /\ main \in Stage
      BY DEF ProcessorInv, TypeInv, TypeOK, Place, Stage
    <2>2. at' \in [Workers -> Place]
      <3>1. at' = at \/ at' = [at EXCEPT ![t] = "done"]
        BY <1>1 DEF CallerCatches
      <3>. QED BY <2>1, <3>1 DEF Place
    <2>3. main' \in Stage
      <3>1. main' = main \/ main' \in {"closeProducer", "leave"}
        BY <1>1 DEF CallerCatches
      <3>. QED BY <2>1, <3>1 DEF Stage
    <2>. QED BY <2>2, <2>3
  <1>4. t \in Workers => at[t] \in {"extract", "publish"}
    BY <1>1 DEF ProcessorInv, TypeInv, Shape
  <1>5. Shape'
    <2>1. \A u \in Workers : \/ at'[u] = at[u] /\ u # t
                             \/ at'[u] = at[u] /\ u = t
                             \/ at'[u] = "done" /\ u = t /\ call'[u] = "out"
      <3>1. at \in [Workers -> Place]
        BY DEF ProcessorInv, TypeInv, TypeOK, Place
      <3>2. CASE at' = at
        BY <3>2
      <3>3. CASE at' # at
        <4>1. call'[t] = "out" /\ t \in Workers /\ at' = [at EXCEPT ![t] = "done"]
          BY <1>1, <3>3 DEF CallerCatches
        <4>. QED BY <3>1, <4>1
      <3>. QED BY <3>2, <3>3
    <2>2. \A u \in Workers : msg'[u] = NoMsg <=> at'[u] \in {"loop", "get", "exited"}
      BY <1>1, <1>4, <2>1 DEF ProcessorInv, TypeInv, Shape
    <2>3. \A u \in Workers : call'[u] # "out" => at'[u] \in {"extract", "publish"}
      BY <1>1, <1>4, <2>1, WorkersAreThreads DEF ProcessorInv, TypeInv, Shape
    <2>. QED BY <1>1, <2>2, <2>3 DEF ProcessorInv, TypeInv, Shape, kafkaVars
  <1>6. TaskAccounting'
    BY <1>1 DEF ProcessorInv, TaskAccounting, Busy, queueVars
  <1>. QED
    BY <1>1, <1>2, <1>3, <1>5, <1>6
    DEF ProcessorInv, TypeInv, TypeOK, kafkaVars, queueVars, history, Stage, Place, Step

(* The steps that set off flush_all. *)
LEMMA FlushInv ==
    ASSUME ProcessorInv, WriterFlushes \/ FinalFlush \/ CloseWriter
    PROVE  ProcessorInv'
  <1>1. PICK t \in {"writer", "main"} : FlushAll(t)
    BY DEF WriterFlushes, FinalFlush, CloseWriter
  <1>2. /\ t \in Thread /\ t \notin Workers
        /\ call' \in [Thread -> Step] /\ list' \in [Thread -> Table]
        /\ \A u \in Thread : u # t => call'[u] = call[u]
        /\ UNCHANGED rowVars
    BY <1>1, WorkersAreThreads, FlushEndsType DEF FlushAll, ProcessorInv, TypeInv
  <1>3. UNCHANGED <<kafkaVars, queueVars, workerVars, running, drained, signals, poolOpen,
                   producer, published, handled, history, crashes, faults>>
    BY DEF WriterFlushes, FinalFlush, CloseWriter, mainVars
  <1>4. writer' \in {"loop", "sleep", "exited"} /\ main' \in Stage
    BY DEF WriterFlushes, FinalFlush, CloseWriter, ProcessorInv, TypeInv, TypeOK, mainVars, Stage
  <1>5. Shape' /\ TaskAccounting'
    BY <1>2, <1>3, AccountsKept, WorkersAreThreads DEF kafkaVars
  <1>. QED
    BY <1>2, <1>3, <1>4, <1>5
    DEF ProcessorInv, TypeInv, TypeOK, kafkaVars, queueVars, workerVars, rowVars, history, Stage, Step

LEMMA MainInv ==
    ASSUME ProcessorInv, WriterChecks \/ Signal \/ ClosePool \/ Leave
    PROVE  ProcessorInv'
  <1>1. UNCHANGED <<kafkaVars, queueVars, workerVars, drained, tableVars,
                   producer, published, handled, history, crashes, faults>>
    BY DEF WriterChecks, Signal, ClosePool, Leave, mainVars
  <1>2. /\ writer' \in {"loop", "sleep", "exited"}
        /\ main' \in Stage
        /\ running' \in BOOLEAN
        /\ signals' \in Nat
        /\ poolOpen' \in BOOLEAN
    <2>1. CASE WriterChecks
      BY <2>1 DEF WriterChecks, ProcessorInv, TypeInv, TypeOK, mainVars, Stage
    <2>2. CASE Leave \/ ClosePool
      BY <2>2 DEF Leave, ClosePool, ProcessorInv, TypeInv, TypeOK, Stage
    <2>3. CASE Signal
      <3>1. main' = "join" /\ running' = FALSE /\ signals' = signals + 1
            /\ UNCHANGED <<writer, poolOpen>>
        BY <2>3 DEF Signal
      <3>2. signals \in Nat /\ poolOpen \in BOOLEAN /\ writer \in {"loop", "sleep", "exited"}
        BY DEF ProcessorInv, TypeInv, TypeOK
      <3>3. signals' \in Nat /\ main' \in Stage /\ writer' \in {"loop", "sleep", "exited"}
        BY <3>1, <3>2, SMTT(30) DEF Stage
      <3>. QED BY <3>1, <3>2, <3>3
    <2>. QED BY <2>1, <2>2, <2>3
  <1>3. Shape' /\ TaskAccounting'
    BY <1>1, AccountsKept DEF kafkaVars, tableVars
  <1>. QED
    BY <1>1, <1>2, <1>3
    DEF ProcessorInv, TypeInv, TypeOK, kafkaVars, queueVars, workerVars, tableVars, history, Stage

LEMMA SecondSignalInv ==
    ASSUME ProcessorInv, SecondSignal
    PROVE  ProcessorInv'
  <1>1. /\ UNCHANGED <<kafkaVars, queueVars, workerVars, writer, running, drained, pending,
                       stored, late, here, poolOpen, producer, published, handled, history,
                       crashes, faults>>
        /\ Returns("main") /\ main' = "leave" /\ signals' \in Nat
    BY DEF SecondSignal, ProcessorInv, TypeInv, TypeOK
  <1>2. /\ call' \in [Thread -> Step] /\ list' \in [Thread -> Table]
        /\ \A u \in Thread : u # "main" => call'[u] = call[u]
    BY <1>1, WorkersAreThreads, FlushEndsType DEF ProcessorInv, TypeInv
  <1>3. uncleared' \in [Table -> SUBSET Offset]
    <2>1. list["main"] \in Table
      BY WorkersAreThreads DEF ProcessorInv, TypeInv, TypeOK
    <2>. QED BY <2>1 DEF SecondSignal, ProcessorInv, TypeInv, TypeOK
  <1>4. Shape' /\ TaskAccounting'
    BY <1>1, <1>2, AccountsKept, WorkersAreThreads DEF kafkaVars
  <1>. QED
    BY <1>1, <1>2, <1>3, <1>4
    DEF ProcessorInv, TypeInv, TypeOK, kafkaVars, queueVars, workerVars, history, Step

LEMMA ProducerInv ==
    ASSUME ProcessorInv, NEW fails \in BOOLEAN, FlushProducer(fails) \/ CloseProducer(fails)
    PROVE  ProcessorInv'
  <1>1. UNCHANGED <<kafkaVars, queueVars, workerVars, writer, running, drained, signals,
                   tableVars, poolOpen, published, handled, history, crashes>>
    BY DEF FlushProducer, CloseProducer
  <1>2. main' \in Stage /\ producer' \in {"open", "closed", "none"} /\ faults' \in Nat
    BY DEF FlushProducer, CloseProducer, ProducerMayFail, Stage, ProcessorInv, TypeInv, TypeOK
  <1>3. Shape' /\ TaskAccounting'
    BY <1>1, AccountsKept DEF kafkaVars, tableVars
  <1>. QED
    BY <1>1, <1>2, <1>3
    DEF ProcessorInv, TypeInv, TypeOK, kafkaVars, queueVars, workerVars, tableVars, history, Stage

LEMMA JoinInv ==
    ASSUME ProcessorInv, Join
    PROVE  ProcessorInv'
  <1>1. drained' \in SUBSET Offset
    <2>1. position \in 1 .. Len(Log) + 1 /\ startAt \in 1 .. Len(Log) + 1
      BY DEF ProcessorInv, TypeInv, TypeOK
    <2>2. startAt .. position - 1 \subseteq Offset
      BY <2>1, LogLength DEF Offset
    <2>. QED BY <2>2 DEF Join, Taken
  <1>2. Shape' /\ TaskAccounting'
    BY AccountsKept DEF Join, kafkaVars, tableVars
  <1>. QED
    BY <1>1, <1>2
    DEF Join, ProcessorInv, TypeInv, TypeOK, kafkaVars, queueVars, workerVars, tableVars, history

LEMMA RestartInv ==
    ASSUME ProcessorInv, Restart
    PROVE  ProcessorInv'
  <1>1. /\ position' \in 1 .. Len(Log) + 1 /\ startAt' \in 1 .. Len(Log) + 1
        /\ committed' \in 1 .. Len(Log) + 1
        /\ sinceCommit' \in Nat /\ consumer' \in {"poll", "closed"}
        /\ earlier' \in SUBSET Offset /\ handled' \in SUBSET Offset /\ drained' \in SUBSET Offset
        /\ signals' \in Nat /\ crashes' \in Nat /\ faults' \in Nat
        /\ stored' \in [Table -> [Offset -> Nat]] /\ published' \in SUBSET Offset
    BY DEF Restart, ProcessorInv, TypeInv, TypeOK
  <1>2. /\ inputQueue' = <<>> /\ unfinished' = 0
        /\ at' = Idle /\ msg' = Free
        /\ writer' = "loop" /\ main' = "serving" /\ running' = TRUE /\ poolOpen' = TRUE
        /\ producer' \in {"open", "none"}
        /\ call' = Out /\ list' = [t \in Thread |-> "sensor_readings"]
        /\ pending' = None /\ late' = None /\ here' = None /\ uncleared' = None
    BY DEF Restart
  <1>3. TypeOK'
    <2>1. /\ inputQueue' \in Seq(Offset) /\ Len(inputQueue') <= QueueSize
          /\ unfinished' \in Nat
      BY <1>2, ProcessorAssumption
    <2>2. /\ at' \in [Workers -> Place]
          /\ msg' \in [Workers -> Offset \cup {NoMsg}]
          /\ call' \in [Thread -> Step] /\ list' \in [Thread -> Table]
          /\ None \in [Table -> SUBSET Offset]
      BY <1>2 DEF Idle, Free, Place, Out, None, Step, Table
    <2>. QED BY <1>1, <1>2, <2>1, <2>2 DEF TypeOK, Place, Step
  <1>4. Shape'
    BY <1>1, <1>2, WorkersAreThreads DEF Shape, Idle, Free, Out
  <1>5. Busy' = {}
    BY <1>2 DEF Busy, Free
  <1>6. TaskAccounting'
    <2>1. Cardinality({}) = 0 /\ Len(<<>>) = 0
      BY FS_EmptySet
    <2>. QED BY <1>2, <1>5, <2>1 DEF TaskAccounting
  <1>. QED BY <1>3, <1>4, <1>6 DEF ProcessorInv, TypeInv

LEMMA ProcessorStep ==
    ASSUME ProcessorInv, [Next]_vars
    PROVE  ProcessorInv'
  <1>1. CASE UNCHANGED vars
    BY <1>1 DEF ProcessorInv, TypeInv, TypeOK, Shape, TaskAccounting, Busy, vars, kafkaVars,
                queueVars, workerVars, mainVars, tableVars, history
  <1>2. CASE ConsumerStep \/ ConsumerEnds(TRUE)
    BY <1>2, PollInv, PutInv, ConsumerEndsInv DEF ConsumerStep
  <1>3. ASSUME NEW w \in Workers, WorkerStep(w) PROVE ProcessorInv'
    BY <1>3, QuietWorkerInv, ExtractFailsInv, WriteInv, PublishInv, TakeInv, TaskDoneInv, CallInv,
       WorkersAreThreads
    DEF WorkerStep
  <1>4. CASE WriterStep \/ MainStep
    BY <1>4, FlushInv, MainInv, JoinInv, ProducerInv, CallInv, WorkersAreThreads
    DEF WriterStep, MainStep
  <1>5. CASE Signal \/ SecondSignal \/ Restart
    BY <1>5, MainInv, SecondSignalInv, RestartInv
  <1>. QED
    BY <1>1, <1>2, <1>3, <1>4, <1>5 DEF Next

LEMMA AlwaysProcessorInv == Spec => []ProcessorInv
  BY InitInv, ProcessorStep, PTL DEF Spec

(* Every variable keeps its type and the queue its bound. *)
THEOREM TypeCorrect == Spec => []TypeOK
  <1>1. ProcessorInv => TypeOK
    BY DEF ProcessorInv, TypeInv
  <1>. QED BY AlwaysProcessorInv, <1>1, PTL

(* What the join of stop() waits for is exactly the work in progress. *)
THEOREM TasksAccounted == Spec => []TaskAccounting
  <1>1. ProcessorInv => TaskAccounting
    BY DEF ProcessorInv
  <1>. QED BY AlwaysProcessorInv, <1>1, PTL


-------------------------------------------------------------------------------
(* What the writer thread and the main thread leave alone. *)
LEMMA OthersQuiet ==
    ASSUME ProcessorInv, UNCHANGED vars \/ WriterStep \/ MainStep \/ Signal \/ SecondSignal
    PROVE  UNCHANGED <<kafkaVars, queueVars, workerVars, published, handled, history, crashes>>
  <1>1. CASE UNCHANGED vars \/ WriterChecks \/ WriterFlushes \/ Signal \/ SecondSignal
    BY <1>1 DEF WriterChecks, WriterFlushes, Signal, SecondSignal, vars
  <1>2. CASE Join \/ FinalFlush \/ CloseWriter \/ ClosePool \/ Leave
             \/ \E fails \in BOOLEAN : FlushProducer(fails) \/ CloseProducer(fails)
    BY <1>2 DEF Join, FinalFlush, CloseWriter, ClosePool, FlushProducer, CloseProducer, Leave
  <1>3. ASSUME NEW t \in {"writer", "main"}, CallStep(t)
        PROVE  UNCHANGED <<kafkaVars, queueVars, workerVars, published, handled, history, crashes>>
    <2>1. t \in Thread /\ t \notin Workers
      BY WorkersAreThreads
    <2>2. UNCHANGED <<kafkaVars, queueVars, msg, published, handled, history, crashes>>
          /\ (at' = at \/ CallerCatches(t))
      BY <1>3, <2>1, CallMoves
    <2>. QED BY <2>1, <2>2 DEF CallerCatches, workerVars
  <1>. QED BY <1>1, <1>2, <1>3 DEF WriterStep, MainStep

(* The steps of a worker but for taking a message, giving it up and       *)
(* publishing.                                                             *)
LEMMA WorkerQuiet ==
    ASSUME ProcessorInv, NEW w \in Workers, WorkerStep(w)
    PROVE  /\ UNCHANGED <<kafkaVars, history, crashes>>
           /\ Take(w) \/ TaskDone(w) \/ UNCHANGED <<queueVars, msg, handled>>
           /\ handled \subseteq handled'
  <1>1. CASE CallStep(w)
    BY <1>1, WorkersAreThreads, CallMoves
  <1>2. CASE ~CallStep(w)
    BY <1>2 DEF WorkerStep, CheckRunning, Take, GetTimesOut, Reject, WriteReading, ExtractFails,
                NoFeatures, WriteFeatures, Publish, TaskDone
  <1>. QED BY <1>1, <1>2

-------------------------------------------------------------------------------
(* Every message read is in flight or handled *)

LEMMA InitDropped == Init => NoMessageDropped
  BY DEF Init, NoMessageDropped

(* A step after which the same messages are in flight and handled. *)
LEMMA FlightKept ==
    ASSUME NoMessageDropped,
           UNCHANGED <<position, startAt, consumer, inputQueue, msg, handled>>
    PROVE  NoMessageDropped'
  BY DEF NoMessageDropped, InFlight, InHand, Elements

LEMMA WorkerDropped ==
    ASSUME ProcessorInv, NoMessageDropped, NEW w \in Workers, WorkerStep(w)
    PROVE  NoMessageDropped'
  <1>1. CASE Take(w)
    <2>1. /\ inputQueue \in Seq(Offset) /\ inputQueue # <<>>
          /\ msg' = [msg EXCEPT ![w] = Head(inputQueue)] /\ msg[w] = NoMsg
          /\ inputQueue' = Tail(inputQueue)
          /\ UNCHANGED <<position, startAt, consumer, handled>>
      BY <1>1 DEF Take, ProcessorInv, TypeInv, TypeOK, Shape, kafkaVars, history
    <2>2. Elements(inputQueue) = Elements(Tail(inputQueue)) \cup {Head(inputQueue)}
      BY <2>1, TailElements
    <2>3. msg'[w] = Head(inputQueue) /\ \A u \in Workers : u # w => msg'[u] = msg[u]
      BY <2>1 DEF ProcessorInv, TypeInv, TypeOK
    <2>4. ASSUME NEW i \in startAt .. position - 1, InFlight(i) PROVE InFlight(i)'
      <3>1. InHand(i)' <=> InHand(i)
        BY <2>1 DEF InHand
      <3>2. CASE i = Head(inputQueue)
        BY <2>3, <3>2 DEF InFlight
      <3>3. CASE i \in Elements(Tail(inputQueue))
        BY <2>1, <3>3 DEF InFlight, Elements
      <3>4. ASSUME NEW u \in Workers, msg[u] = i PROVE InFlight(i)'
        <4>1. i # NoMsg
          BY LogLength DEF ProcessorInv, TypeInv, TypeOK, NoMsg
        <4>. QED BY <2>1, <2>3, <3>4, <4>1 DEF InFlight
      <3>. QED BY <2>2, <2>4, <3>1, <3>2, <3>3, <3>4 DEF InFlight
    <2>. QED BY <2>1, <2>4 DEF NoMessageDropped
  <1>2. CASE TaskDone(w)
    <2>1. /\ msg' = [msg EXCEPT ![w] = NoMsg]
          /\ handled' = handled \cup {msg[w]}
          /\ UNCHANGED <<position, startAt, consumer, inputQueue>>
      BY <1>2 DEF TaskDone, kafkaVars, history
    <2>2. \A u \in Workers : u # w => msg'[u] = msg[u]
      BY <2>1 DEF ProcessorInv, TypeInv, TypeOK
    <2>3. ASSUME NEW i \in startAt .. position - 1, InFlight(i)
          PROVE  InFlight(i)' \/ i = msg[w]
      BY <2>1, <2>2, <2>3 DEF InFlight, InHand, Elements
    <2>. QED BY <2>1, <2>3 DEF NoMessageDropped
  <1>3. CASE ~Take(w) /\ ~TaskDone(w)
    <2>1. UNCHANGED <<position, startAt, consumer, inputQueue, msg, handled>>
      BY <1>3, WorkerQuiet DEF kafkaVars, queueVars, history
    <2>. QED BY <2>1, FlightKept
  <1>. QED BY <1>1, <1>2, <1>3

LEMMA ConsumerDropped ==
    ASSUME ProcessorInv, NoMessageDropped, ConsumerStep \/ ConsumerEnds(TRUE)
    PROVE  NoMessageDropped'
  <1>1. CASE Poll
    <2>1. /\ position' = position + 1 /\ consumer' = "put" /\ consumer = "poll"
          /\ UNCHANGED <<startAt, inputQueue, msg, handled>>
          /\ position \in Nat /\ startAt \in Nat
      BY <1>1, LogLength
      DEF Poll, queueVars, workerVars, history, ProcessorInv, TypeInv, TypeOK
    <2>2. ASSUME NEW i \in startAt .. position' - 1
          PROVE  InFlight(i)' \/ i \in handled'
      <3>1. CASE i = position
        BY <2>1, <3>1 DEF InFlight, InHand
      <3>2. CASE i # position
        <4>1. i \in startAt .. position - 1
          BY <2>1, <3>2
        <4>2. InFlight(i) \/ i \in handled
          BY <4>1 DEF NoMessageDropped
        <4>. QED BY <2>1, <4>2 DEF InFlight, InHand, Elements
      <3>. QED BY <3>1, <3>2
    <2>. QED BY <2>1, <2>2 DEF NoMessageDropped
  <1>2. CASE \E up \in BOOLEAN : Put(up)
    <2>1. /\ inputQueue' = Append(inputQueue, position - 1) /\ consumer = "put"
          /\ inputQueue \in Seq(Offset) /\ position - 1 \in Offset
          /\ UNCHANGED <<position, startAt, msg, handled>>
      BY <1>2 DEF Put, workerVars, history, ProcessorInv, TypeInv, TypeOK, Shape
    <2>2. Elements(inputQueue') = Elements(inputQueue) \cup {position - 1}
      BY <2>1, AppendElements
    <2>3. \A i \in startAt .. position - 1 : InFlight(i) => InFlight(i)'
      BY <2>1, <2>2 DEF InFlight, InHand, Elements
    <2>. QED BY <2>1, <2>3 DEF NoMessageDropped
  <1>3. CASE \E kafkaError \in BOOLEAN : ConsumerEnds(kafkaError)
    BY <1>3 DEF ConsumerEnds, NoMessageDropped, InFlight, InHand, Elements, queueVars,
                workerVars, history
  <1>. QED BY <1>1, <1>2, <1>3 DEF ConsumerStep

LEMMA DroppedStep ==
    ASSUME ProcessorInv, NoMessageDropped, [Next]_vars
    PROVE  NoMessageDropped'
  <1>1. CASE UNCHANGED vars \/ WriterStep \/ MainStep \/ Signal \/ SecondSignal
    <2>1. UNCHANGED <<position, startAt, consumer, inputQueue, msg, handled>>
      BY <1>1, OthersQuiet DEF kafkaVars, queueVars, workerVars, history
    <2>. QED BY <2>1, FlightKept
  <1>2. CASE Restart
    <2>1. /\ position' = committed /\ startAt' = committed /\ committed \in Nat
      BY <1>2, LogLength DEF Restart, ProcessorInv, TypeInv, TypeOK
    <2>2. startAt' .. position' - 1 = {}
      BY <2>1
    <2>. QED BY <2>2 DEF NoMessageDropped
  <1>. QED
    BY <1>1, <1>2, WorkerDropped, ConsumerDropped DEF Next

(* No message read from Kafka leaves the process unhandled while it runs or stops. *)
THEOREM NothingDropped == Spec => []NoMessageDropped
  BY AlwaysProcessorInv, InitDropped, DroppedStep, PTL DEF Spec
-------------------------------------------------------------------------------
(* What is committed while a process consumes *)

LEMMA CommittedStep ==
    ASSUME ProcessorInv, NothingCommittedInLoop, [Next]_vars
    PROVE  NothingCommittedInLoop'
  <1>1. CASE UNCHANGED vars \/ WriterStep \/ MainStep \/ Signal \/ SecondSignal
    <2>1. UNCHANGED <<consumer, sinceCommit, committed, startAt>>
      BY <1>1, OthersQuiet DEF kafkaVars, history
    <2>. QED BY <2>1 DEF NothingCommittedInLoop
  <1>2. ASSUME NEW w \in Workers, WorkerStep(w) PROVE NothingCommittedInLoop'
    <2>1. UNCHANGED <<consumer, sinceCommit, committed, startAt>>
      BY <1>2, WorkerQuiet DEF kafkaVars, history
    <2>. QED BY <2>1 DEF NothingCommittedInLoop
  <1>3. CASE Poll
    BY <1>3 DEF Poll, history, NothingCommittedInLoop
  <1>4. CASE \E up \in BOOLEAN : Put(up)
    BY <1>4 DEF Put, CallbackReturns, history, NothingCommittedInLoop
  <1>5. CASE \E kafkaError \in BOOLEAN : ConsumerEnds(kafkaError)
    BY <1>5 DEF ConsumerEnds, NothingCommittedInLoop
  <1>6. CASE Restart
    BY <1>6 DEF Restart, NothingCommittedInLoop
  <1>. QED
    BY <1>1, <1>2, <1>3, <1>4, <1>5, <1>6 DEF Next, ConsumerStep

(* While a process consumes, its committed offset is the one it started    *)
(* from: the callback returns nothing, so consume counts no message.       *)
THEOREM NeverCommittedInLoop == Spec => []NothingCommittedInLoop
  <1>1. Init => NothingCommittedInLoop
    BY DEF Init, NothingCommittedInLoop
  <1>. QED BY <1>1, AlwaysProcessorInv, CommittedStep, PTL DEF Spec
-------------------------------------------------------------------------------
(* What a crash loses.  A process has only messages in flight that it read *)
(* itself, from the committed offset it started at, and commits no further *)
(* than it read.                                                           *)

FlightOwn ==
    /\ startAt <= committed /\ committed <= position
    /\ \A i \in Offset : InFlight(i) => startAt <= i

SkipInv == ProcessorInv /\ NoMessageDropped /\ NothingCommittedInLoop /\ FlightOwn

(* Only Poll brings a message into flight. *)
LEMMA FlightOnlyLeaves ==
    ASSUME ProcessorInv, [Next]_vars, NEW i \in Offset, InFlight(i)'
    PROVE  InFlight(i) \/ (Poll /\ i = position)
  <1>1. /\ position \in Nat /\ i \in Nat /\ i # NoMsg
        /\ inputQueue \in Seq(Offset) /\ msg \in [Workers -> Offset \cup {NoMsg}]
    BY LogLength DEF ProcessorInv, TypeInv, TypeOK
  <1>2. CASE UNCHANGED <<position, consumer, inputQueue, msg>>
    BY <1>2 DEF InFlight, InHand, Elements
  <1>3. CASE UNCHANGED vars \/ WriterStep \/ MainStep \/ Signal \/ SecondSignal
    <2>1. UNCHANGED <<position, consumer, inputQueue, msg>>
      BY <1>3, OthersQuiet DEF kafkaVars, queueVars, workerVars
    <2>. QED BY <1>2, <2>1
  <1>4. ASSUME NEW w \in Workers, WorkerStep(w) PROVE InFlight(i)
    <2>1. CASE Take(w)
      <3>1. /\ inputQueue # <<>> /\ inputQueue' = Tail(inputQueue)
            /\ msg' = [msg EXCEPT ![w] = Head(inputQueue)]
            /\ UNCHANGED <<position, consumer>>
        BY <2>1 DEF Take, kafkaVars
      <3>2. Elements(inputQueue) = Elements(inputQueue)' \cup {Head(inputQueue)}
        <4>1. Elements(inputQueue) = Elements(Tail(inputQueue)) \cup {Head(inputQueue)}
          BY <1>1, <3>1, TailElements
        <4>. QED BY <3>1, <4>1 DEF Elements
      <3>3. \A u \in Workers : msg'[u] \in {msg[u], Head(inputQueue)}
        BY <1>1, <3>1
      <3>. QED BY <3>1, <3>2, <3>3 DEF InFlight, InHand
    <2>2. CASE TaskDone(w)
      <3>1. msg' = [msg EXCEPT ![w] = NoMsg] /\ UNCHANGED <<position, consumer, inputQueue>>
        BY <2>2 DEF TaskDone, kafkaVars
      <3>2. \A u \in Workers : msg'[u] \in {msg[u], NoMsg}
        BY <1>1, <3>1
      <3>. QED BY <1>1, <3>1, <3>2 DEF InFlight, InHand, Elements
    <2>3. CASE ~Take(w) /\ ~TaskDone(w)
      <3>1. UNCHANGED <<position, consumer, inputQueue, msg>>
        BY <1>4, <2>3, WorkerQuiet DEF kafkaVars, queueVars
      <3>. QED BY <3>1 DEF InFlight, InHand, Elements
    <2>. QED BY <2>1, <2>2, <2>3
  <1>5. CASE Poll
    <2>1. /\ position' = position + 1 /\ UNCHANGED <<inputQueue, msg>>
      BY <1>5 DEF Poll, queueVars, workerVars
    <2>. QED BY <1>1, <1>5, <2>1 DEF InFlight, InHand, Elements
  <1>6. CASE \E up \in BOOLEAN : Put(up)
    <2>1. /\ inputQueue' = Append(inputQueue, position - 1) /\ consumer = "put"
          /\ consumer' = "poll" /\ UNCHANGED <<position, msg>> /\ position - 1 \in Offset
      BY <1>6 DEF Put, workerVars, ProcessorInv, TypeInv, Shape
    <2>2. Elements(inputQueue)' = Elements(inputQueue) \cup {position - 1}
      BY <1>1, <2>1, AppendElements DEF Elements
    <2>. QED BY <2>1, <2>2 DEF InFlight, InHand
  <1>7. CASE \E kafkaError \in BOOLEAN : ConsumerEnds(kafkaError)
    BY <1>7 DEF ConsumerEnds, InFlight, InHand, Elements, queueVars, workerVars
  <1>8. CASE Restart
    BY <1>1, <1>8 DEF Restart, InFlight, InHand, Elements, Free
  <1>. QED
    BY <1>3, <1>4, <1>5, <1>6, <1>7, <1>8 DEF Next, ConsumerStep

(* A process commits what it read, and only Restart moves its start. *)
LEMMA CommitsWhatItRead ==
    ASSUME ProcessorInv, startAt <= committed, committed <= position, [Next]_vars
    PROVE  /\ startAt' <= committed' /\ committed' <= position'
           /\ startAt' = startAt \/ Restart
           /\ position' = position \/ Poll \/ Restart
  <1>1. position \in Nat /\ committed \in Nat /\ startAt \in Nat
    BY LogLength DEF ProcessorInv, TypeInv, TypeOK
  <1>2. CASE Poll
    BY <1>1, <1>2 DEF Poll, history
  <1>3. CASE (\E up \in BOOLEAN : Put(up)) \/ \E kafkaError \in BOOLEAN : ConsumerEnds(kafkaError)
    <2>1. committed' \in {committed, position} /\ UNCHANGED <<position, startAt>>
      BY <1>3 DEF Put, ConsumerEnds, history
    <2>. QED BY <1>1, <2>1
  <1>4. CASE Restart
    BY <1>1, <1>4 DEF Restart
  <1>5. CASE UNCHANGED vars \/ WriterStep \/ MainStep \/ Signal \/ SecondSignal
             \/ \E w \in Workers : WorkerStep(w)
    <2>1. UNCHANGED <<position, committed, startAt>>
      BY <1>5, OthersQuiet, WorkerQuiet DEF kafkaVars, history
    <2>. QED BY <2>1
  <1>. QED BY <1>2, <1>3, <1>4, <1>5 DEF Next, ConsumerStep

LEMMA SkipStep ==
    ASSUME SkipInv, [Next]_vars
    PROVE  SkipInv'
  <1>1. ProcessorInv' /\ NoMessageDropped' /\ NothingCommittedInLoop'
    BY ProcessorStep, DroppedStep, CommittedStep DEF SkipInv
  <1>2. /\ startAt' <= committed' /\ committed' <= position'
        /\ startAt' = startAt \/ Restart
    BY CommitsWhatItRead DEF SkipInv, FlightOwn
  <1>3. ASSUME NEW i \in Offset, InFlight(i)' PROVE startAt' <= i
    <2>1. startAt \in Nat /\ committed \in Nat /\ position \in Nat /\ i \in Nat
      BY LogLength DEF SkipInv, ProcessorInv, TypeInv, TypeOK
    <2>2. CASE Restart
      BY <1>3, <2>2, LogLength DEF Restart, InFlight, InHand, Elements, Free
    <2>3. CASE ~Restart
      <3>1. InFlight(i) \/ i = position
        BY <1>3, FlightOnlyLeaves DEF SkipInv
      <3>. QED BY <1>2, <2>1, <2>3, <3>1 DEF SkipInv, FlightOwn
    <2>. QED BY <2>2, <2>3
  <1>. QED BY <1>1, <1>2, <1>3 DEF SkipInv, FlightOwn

(* Within a process what was handled stays so. *)
LEMMA HandledStays ==
    ASSUME ProcessorInv, [Next]_vars, ~Restart
    PROVE  handled \cup earlier \subseteq (handled \cup earlier)'
  <1>1. CASE ConsumerStep \/ ConsumerEnds(TRUE)
    BY <1>1 DEF ConsumerStep, Poll, Put, ConsumerEnds, history
  <1>. QED BY <1>1, OthersQuiet, WorkerQuiet DEF Next, history

LEMMA SkippedByCrash ==
    ASSUME SkipInv, [Next]_vars, NEW i \in Offset, ~Skipped(i), Skipped(i)'
    PROVE  crashes' = crashes + 1 /\ consumer = "closed"
  <1>1. /\ startAt \in Nat /\ committed \in Nat /\ position \in Nat /\ i \in Nat
        /\ position' \in Nat /\ committed' \in Nat /\ startAt' \in Nat
    BY LogLength, ProcessorStep, SMTT(30) DEF SkipInv, ProcessorInv, TypeInv, TypeOK
  <1>2. SkipInv'
    BY SkipStep
  <1>3. CASE Restart
    <2>1. /\ committed' = committed /\ handled' \cup earlier' = earlier \cup handled
          /\ crashes' = crashes + 1
      BY <1>3 DEF Restart
    <2>2. InFlight(i) /\ i < committed
      BY <2>1 DEF Skipped
    <2>3. startAt <= i
      BY <2>2 DEF SkipInv, FlightOwn
    <2>4. committed # startAt
      BY <1>1, <2>2, <2>3
    <2>. QED BY <2>1, <2>4 DEF SkipInv, NothingCommittedInLoop
  <1>4. CASE ~Restart
    <2>1. /\ startAt' = startAt /\ i < position'
          /\ startAt <= committed
      BY <1>1, <1>2, <1>4, CommitsWhatItRead DEF SkipInv, FlightOwn, Skipped
    <2>2. i < startAt
      <3>1. i \notin startAt' .. position' - 1
        BY <1>2 DEF SkipInv, NoMessageDropped, Skipped
      <3>2. \A first, next \in Nat : i \notin first .. next - 1 /\ i < next => i < first
        BY <1>1
      <3>. QED BY <1>1, <2>1, <3>1, <3>2
    <2>3. ~InFlight(i)
      BY <1>1, <2>2 DEF SkipInv, FlightOwn
    <2>4. i \in handled \cup earlier
      BY <1>1, <2>1, <2>2, <2>3 DEF Skipped
    <2>. QED BY <1>4, <2>4, HandledStays DEF SkipInv, Skipped
  <1>. QED BY <1>3, <1>4

(* A committed message that was never handled was lost by a crash after    *)
(* the loop of consume had ended: its finally block commits what is still  *)
(* in the queue or with the workers.                                       *)
THEOREM SkippedAlwaysByCrash == Spec => SkippedOnlyAfterLoopEnded
  <1>1. Init => SkipInv
    <2> SUFFICES ASSUME Init PROVE NothingCommittedInLoop /\ FlightOwn
      BY InitInv, InitDropped DEF SkipInv
    <2>1. NothingCommittedInLoop
      BY DEF Init, NothingCommittedInLoop
    <2>2. \A i \in Offset : ~InFlight(i)
      BY LogLength DEF Init, InFlight, InHand, Elements, Free
    <2>. QED BY <2>1, <2>2 DEF Init, FlightOwn
  <1>2. SkipInv /\ [Next]_vars =>
          [\A i \in Offset :
              ~Skipped(i) /\ Skipped(i)' => crashes' = crashes + 1 /\ consumer = "closed"]_vars
    BY SkippedByCrash
  <1>. QED BY <1>1, <1>2, SkipStep, PTL DEF Spec, SkippedOnlyAfterLoopEnded
-------------------------------------------------------------------------------
(* What a clean stop leaves behind.  As long as nothing failed, a message  *)
(* has a row waiting, stored or late for every table its worker has        *)
(* passed; what was drained before the join is handled; and a list the     *)
(* flush of close() has passed holds no row of it that is not stored.      *)

Kept(tb, i)    == stored[tb][i] > 0 \/ i \in late[tb]
InTable(tb, i) == i \in pending[tb] \/ Kept(tb, i)

ReadingIn(i)  == Log[i] # "incomplete" => InTable("sensor_readings", i)
FeaturesIn(i) == Log[i] = "reading" => InTable("engineered_features", i)
SentOn(i)     == Log[i] = "reading" /\ producer = "open" => i \in published

StageOK(w) ==
    /\ at[w] \in {"extract", "publish", "done"} => ReadingIn(msg[w])
    /\ at[w] \in {"publish", "done"} => FeaturesIn(msg[w])
    /\ at[w] = "done" => SentOn(msg[w])

HandledOK == \A i \in handled : ReadingIn(i) /\ FeaturesIn(i) /\ SentOn(i)

(* The flush of close() is past its insert of this list. *)
Passed(tb) ==
    /\ main = "closePool"
    /\ \/ call["main"] = "out"
       \/ tb = "sensor_readings" /\ list["main"] = "engineered_features"
       \/ tb = list["main"] /\ call["main"] = "clear"

DrainedOK ==
    \A i \in drained :
        /\ ReadingIn(i) /\ FeaturesIn(i)
        /\ Log[i] = "reading" /\ producer # "none" => i \in published
        /\ Log[i] # "incomplete" /\ (~poolOpen \/ Passed("sensor_readings"))
             => Kept("sensor_readings", i)
        /\ Log[i] = "reading" /\ (~poolOpen \/ Passed("engineered_features"))
             => Kept("engineered_features", i)

(* What clear() is about to drop is in the table, but for the late rows. *)
ClearOK == \A tb \in Table : Clearing(tb) => \A i \in pending[tb] : Kept(tb, i)

BeforeClose    == {"serving", "join", "flush", "flushProducer", "close", "closePool"}
BeforeProducer == BeforeClose \cup {"closeProducer"}

StoresOK ==
    /\ main \in BeforeClose => poolOpen
    /\ main \in BeforeProducer => producer # "closed"
    /\ ClearOK
    /\ faults = 0 /\ poolOpen => (\A w \in Workers : StageOK(w)) /\ HandledOK
    /\ faults = 0 => DrainedOK

StopInv == ProcessorInv /\ NoMessageDropped /\ StoresOK

(* What the tables hold or wait for, they go on holding or waiting for. *)
Keeps ==
    \A tb \in Table : \A i \in Offset :
        (InTable(tb, i) => InTable(tb, i)') /\ (Kept(tb, i) => Kept(tb, i)')

LEMMA CopiesKept ==
    ASSUME TypeOK, NEW tb \in Table, NEW rows, NEW i \in Offset
    PROVE  /\ AddCopies(tb, rows)[i] \in Nat
           /\ stored[tb][i] > 0 => AddCopies(tb, rows)[i] > 0
           /\ i \in rows => AddCopies(tb, rows)[i] > 0
  <1>1. stored[tb][i] \in Nat
    BY DEF TypeOK
  <1>2. AddCopies(tb, rows)[i] = IF i \in rows THEN stored[tb][i] + 1 ELSE stored[tb][i]
    BY DEF AddCopies
  <1>. QED BY <1>1, <1>2

(* Nobody comes to clear() but by an insert, and a row that joins a list   *)
(* about to be cleared is late.                                            *)
LEMMA ClearKept ==
    ASSUME ClearOK, Keeps,
           \A tb \in Table :
               /\ pending'[tb] \subseteq Offset
               /\ Clearing(tb)' => \/ Clearing(tb) /\ pending'[tb] \subseteq pending[tb] \cup late'[tb]
                                  \/ \A i \in pending'[tb] : Kept(tb, i)'
    PROVE  ClearOK'
  <1> SUFFICES ASSUME NEW tb \in Table, Clearing(tb)', NEW i \in pending'[tb]
               PROVE  Kept(tb, i)'
    BY DEF ClearOK
  <1>1. i \in Offset
    OBVIOUS
  <1>2. CASE i \in late'[tb]
    BY <1>2 DEF Kept
  <1>3. CASE Clearing(tb) /\ i \in pending[tb]
    BY <1>1, <1>3 DEF ClearOK, Keeps
  <1>. QED BY <1>2, <1>3

LEMMA AppendKeeps ==
    ASSUME ProcessorInv, ClearOK, NEW t \in Thread, NEW tb \in Table, NEW i \in Offset,
           AppendRow(t, tb, i)
    PROVE  Keeps /\ ClearOK' /\ InTable(tb, i)'
  <1>1. /\ pending' = [pending EXCEPT ![tb] = @ \cup {i}] /\ stored' = stored
        /\ late' = IF Clearing(tb) THEN [late EXCEPT ![tb] = @ \cup {i}] ELSE late
        /\ pending \in [Table -> SUBSET Offset] /\ late \in [Table -> SUBSET Offset]
    BY DEF AppendRow, ProcessorInv, TypeInv, TypeOK
  <1>2. \A x \in Table : /\ pending'[x] = IF x = tb THEN pending[x] \cup {i} ELSE pending[x]
                         /\ late'[x] = IF x = tb /\ Clearing(tb) THEN late[x] \cup {i} ELSE late[x]
    BY <1>1
  <1>3. Keeps /\ InTable(tb, i)'
    BY <1>1, <1>2 DEF Keeps, InTable, Kept
  <1>4. \A u \in Thread : call'[u] = "clear" => call[u] = "clear" /\ list'[u] = list[u]
    BY DEF AppendRow, ProcessorInv, TypeInv, TypeOK
  <1>5. \A x \in Table : /\ pending'[x] \subseteq Offset
                         /\ Clearing(x)' => Clearing(x)
                         /\ Clearing(x) => pending'[x] \subseteq pending[x] \cup late'[x]
    BY <1>1, <1>2, <1>4 DEF Clearing
  <1>. QED BY <1>3, <1>4, <1>5, ClearKept

LEMMA InsertKeeps ==
    ASSUME TypeOK, NEW tb \in Table, InsertRows(tb), UNCHANGED <<pending, late>>
    PROVE  Keeps /\ \A i \in pending'[tb] : Kept(tb, i)'
  <1>1. /\ stored \in [Table -> [Offset -> Nat]] /\ pending[tb] \subseteq Offset
        /\ stored' = [stored EXCEPT ![tb] = AddCopies(tb, pending[tb])]
    BY DEF InsertRows, TypeOK
  <1>2. \A x \in Table, i \in Offset :
            /\ stored[x][i] > 0 => stored'[x][i] > 0
            /\ x = tb /\ i \in pending[tb] => stored'[x][i] > 0
    BY <1>1, CopiesKept
  <1>. QED BY <1>1, <1>2 DEF Keeps, InTable, Kept

LEMMA CallKeeps ==
    ASSUME ProcessorInv, ClearOK, NEW t \in Thread, CallStep(t)
    PROVE  Keeps /\ ClearOK'
  <1>0. /\ TypeOK /\ list[t] \in Table /\ call \in [Thread -> Step] /\ list \in [Thread -> Table]
        /\ pending \in [Table -> SUBSET Offset]
        /\ \A u \in Thread : u # t => call'[u] = call[u] /\ list'[u] = list[u]
        /\ \A tb \in Table : pending[tb] \subseteq Offset
    BY CallMoves DEF ProcessorInv, TypeInv, TypeOK, Step
  <1>5. call'[t] # "clear" => \A tb \in Table : Clearing(tb)' => Clearing(tb)
    BY <1>0 DEF Clearing
  <1>1. CASE Check(t)
    <2>1. UNCHANGED <<pending, stored, late>> /\ call'[t] # "clear"
      BY <1>0, <1>1 DEF Check, rowVars, FlushEnds, Returns
    <2>2. Keeps
      BY <2>1 DEF Keeps, InTable, Kept
    <2>. QED BY <1>0, <1>5, <2>1, <2>2, ClearKept
  <1>2. CASE Insert(t)
    <2>1. /\ UNCHANGED <<pending, late, list>> /\ InsertRows(list[t])
      BY <1>2 DEF Insert
    <2>2. Keeps /\ \A tb \in Table : tb = list[t] => \A i \in pending'[tb] : Kept(tb, i)'
      BY <1>0, <2>1, InsertKeeps
    <2>3. \A tb \in Table : Clearing(tb)' => Clearing(tb) \/ tb = list[t]
      BY <1>0, <2>1 DEF Clearing
    <2>. QED BY <1>0, <2>1, <2>2, <2>3, ClearKept
  <1>3. CASE Clear(t)
    <2>1. /\ UNCHANGED <<stored, late>> /\ call[t] = "clear" /\ call'[t] # "clear"
          /\ pending' = [pending EXCEPT ![list[t]] = {}]
      BY <1>0, <1>3 DEF Clear, FlushEnds, Returns
    <2>2. \A tb \in Table : pending'[tb] = IF tb = list[t] THEN {} ELSE pending[tb]
      BY <1>0, <2>1
    <2>3. \A i \in pending[list[t]] : Kept(list[t], i)
      BY <1>0, <2>1 DEF ClearOK, Clearing
    <2>4. Keeps
      BY <2>1, <2>2, <2>3 DEF Keeps, InTable, Kept
    <2>. QED BY <1>0, <1>5, <2>1, <2>2, <2>4, ClearKept
  <1>4. ASSUME NEW applied \in BOOLEAN, NEW raises \in BOOLEAN, InsertFails(t, applied, raises)
        PROVE  Keeps /\ ClearOK'
    <2>1. /\ UNCHANGED <<pending, late>> /\ call'[t] # "clear"
          /\ stored' = stored \/ InsertRows(list[t])
      BY <1>0, <1>4 DEF InsertFails, FlushEnds, Returns
    <2>2. Keeps
      <3>1. CASE stored' = stored
        BY <2>1, <3>1 DEF Keeps, InTable, Kept
      <3>2. CASE InsertRows(list[t])
        BY <1>0, <2>1, <3>2, InsertKeeps
      <3>. QED BY <2>1, <3>1, <3>2
    <2>. QED BY <1>0, <1>5, <2>1, <2>2, ClearKept
  <1>. QED BY <1>1, <1>2, <1>3, <1>4 DEF CallStep

(* A step that hands nothing over and flushes nothing. *)
LEMMA RowsUnchanged ==
    ASSUME ProcessorInv, ClearOK, UNCHANGED <<pending, stored, late>>,
           \A t \in Thread : call'[t] = "clear" => call[t] = "clear" /\ list'[t] = list[t]
    PROVE  Keeps /\ ClearOK'
  <1>1. Keeps
    BY DEF Keeps, InTable, Kept
  <1>2. \A tb \in Table : pending[tb] \subseteq Offset /\ (Clearing(tb)' => Clearing(tb))
    BY DEF ProcessorInv, TypeInv, TypeOK, Clearing
  <1>. QED BY <1>1, <1>2, ClearKept

(* A step that goes on with the shutdown closes only what it has come to. *)
ShutdownKept ==
    /\ producer' = producer \/ (producer' = "closed" /\ producer = "open")
    /\ main' \in BeforeClose => main \in BeforeClose
    /\ main' \in BeforeProducer => main \in BeforeProducer /\ producer' = producer

LEMMA MainUnchanged == ASSUME UNCHANGED <<main, producer>> PROVE ShutdownKept
  BY DEF ShutdownKept

(* The flush of close() passes a list only when its rows are kept. *)
PassesKept ==
    faults' = 0 => \A tb \in Table :
        Passed(tb)' => Passed(tb) \/ \A i \in Offset : InTable(tb, i) => Kept(tb, i)'

LEMMA NothingPasses ==
    ASSUME UNCHANGED main, call'["main"] = call["main"], list'["main"] = list["main"]
    PROVE  PassesKept
  BY DEF PassesKept, Passed

LEMMA NotClosing == ASSUME main' # "closePool" PROVE PassesKept
  BY DEF PassesKept, Passed

(* A step that keeps the tables' rows keeps what was said of one message. *)
LEMMA MessageKept ==
    ASSUME Keeps, NEW i \in Offset, published \subseteq published',
           producer' = "open" => producer = "open"
    PROVE  /\ ReadingIn(i) => ReadingIn(i)'
           /\ FeaturesIn(i) => FeaturesIn(i)'
           /\ SentOn(i) => SentOn(i)'
  <1>1. "sensor_readings" \in Table /\ "engineered_features" \in Table
    BY DEF Table
  <1>. QED
    BY <1>1 DEF Keeps, ReadingIn, FeaturesIn, SentOn

(* A step in which nobody gets further with a message, nothing is drained  *)
(* and the pool stays as it is.                                            *)
LEMMA StoresKept ==
    ASSUME StopInv, ProcessorInv', Keeps, ClearOK', faults' = 0 => faults = 0,
           published \subseteq published',
           poolOpen' = poolOpen, drained' = drained, handled' = handled,
           ShutdownKept, PassesKept,
           \A w \in Workers : \/ msg'[w] = msg[w] /\ at'[w] = at[w]
                              \/ (faults' = 0 /\ poolOpen => StageOK(w)')
    PROVE  StoresOK'
  <1>1. /\ handled \in SUBSET Offset /\ drained \in SUBSET Offset
    BY DEF StopInv, ProcessorInv, TypeInv, TypeOK
  <1>2. ASSUME faults' = 0, poolOpen PROVE (\A w \in Workers : StageOK(w)') /\ HandledOK'
    <2>1. (\A w \in Workers : StageOK(w)) /\ HandledOK
      BY <1>2 DEF StopInv, StoresOK
    <2>2. ASSUME NEW w \in Workers PROVE StageOK(w)'
      <3>1. CASE msg'[w] = msg[w] /\ at'[w] = at[w]
        <4>1. at[w] \in {"extract", "publish", "done"} => msg[w] \in Offset
          BY HoldsMessage DEF StopInv, Away
        <4>2. at[w] \in {"extract", "publish", "done"} =>
                 /\ ReadingIn(msg[w]) => ReadingIn(msg[w])'
                 /\ FeaturesIn(msg[w]) => FeaturesIn(msg[w])'
                 /\ SentOn(msg[w]) => SentOn(msg[w])'
          <5>1. ASSUME NEW i \in Offset, i = msg[w], i = msg'[w]
                PROVE  /\ ReadingIn(i) => ReadingIn(i)'
                       /\ FeaturesIn(i) => FeaturesIn(i)'
                       /\ SentOn(i) => SentOn(i)'
            BY <5>1, MessageKept DEF ShutdownKept
          <5>. QED
            BY <3>1, <4>1, <5>1 DEF ReadingIn, FeaturesIn, SentOn, InTable, Kept
        <4>. QED
          BY <2>1, <3>1, <4>2 DEF StageOK, ReadingIn, FeaturesIn, SentOn, InTable, Kept
      <3>2. CASE ~(msg'[w] = msg[w] /\ at'[w] = at[w])
        BY <1>2, <3>2
      <3>. QED BY <3>1, <3>2
    <2>3. HandledOK'
      BY <1>1, <2>1, MessageKept DEF HandledOK, ShutdownKept
    <2>. QED BY <2>2, <2>3
  <1>3. ASSUME faults' = 0 PROVE DrainedOK'
    <2>1. "sensor_readings" \in Table /\ "engineered_features" \in Table
      BY DEF Table
    <2>2. producer' # "none" => producer # "none"
      BY DEF ShutdownKept
    <2>3. DrainedOK
      BY <1>3 DEF StopInv, StoresOK
    <2>4. ASSUME NEW i \in drained PROVE (ReadingIn(i) /\ FeaturesIn(i))'
      BY <1>1, <2>3, <2>4, MessageKept DEF DrainedOK, ShutdownKept
    <2>5. ASSUME NEW i \in drained, NEW tb \in Table, InTable(tb, i),
                 ~poolOpen \/ Passed(tb) => Kept(tb, i), ~poolOpen' \/ Passed(tb)'
          PROVE  Kept(tb, i)'
      BY <1>1, <1>3, <2>5 DEF PassesKept, Keeps
    <2>. QED
      BY <2>1, <2>2, <2>3, <2>4, <2>5 DEF DrainedOK, ReadingIn, FeaturesIn
  <1>. QED BY <1>2, <1>3 DEF StopInv, StoresOK, ShutdownKept

-------------------------------------------------------------------------------
(* The steps of the workers *)

LEMMA TaskDoneStores ==
    ASSUME StopInv, ProcessorInv', NEW w \in Workers, TaskDone(w)
    PROVE  StoresOK'
  <1>1. /\ at[w] = "done" /\ at' = [at EXCEPT ![w] = "loop"]
        /\ msg' = [msg EXCEPT ![w] = NoMsg]
        /\ handled' = handled \cup {msg[w]}
        /\ UNCHANGED <<main, drained, call, list, pending, stored, late, poolOpen, producer,
                       published, faults>>
    BY DEF TaskDone, Goto, mainVars, tableVars
  <1>2. at'[w] = "loop" /\ \A u \in Workers : u # w => at'[u] = at[u] /\ msg'[u] = msg[u]
    BY <1>1 DEF StopInv, ProcessorInv, TypeInv, TypeOK
  <1>3. \A u \in Workers : StageOK(u) => StageOK(u)'
    BY <1>1, <1>2 DEF StageOK, ReadingIn, FeaturesIn, SentOn, InTable, Kept
  <1>4. HandledOK /\ StageOK(w) => HandledOK'
    BY <1>1 DEF HandledOK, StageOK, ReadingIn, FeaturesIn, SentOn, InTable, Kept
  <1>5. DrainedOK => DrainedOK'
    BY <1>1 DEF DrainedOK, ReadingIn, FeaturesIn, InTable, Kept, Passed
  <1>6. ClearOK => ClearOK'
    BY <1>1 DEF ClearOK, Clearing, Kept
  <1>. QED BY <1>1, <1>3, <1>4, <1>5, <1>6 DEF StopInv, StoresOK

LEMMA WriteStores ==
    ASSUME StopInv, ProcessorInv', NEW w \in Workers, WriteReading(w) \/ WriteFeatures(w)
    PROVE  StoresOK'
  <1> DEFINE i == msg[w]
  <1>1. i \in Offset /\ TypeOK /\ w \in Thread /\ ProcessorInv /\ ClearOK /\ "main" # w
    BY HoldsMessage, WorkersAreThreads
    DEF WriteReading, WriteFeatures, StopInv, StoresOK, ProcessorInv, TypeInv, TypeOK, Away
  <1>2. /\ UNCHANGED <<msg, main, drained, handled, poolOpen, producer, published, faults>>
        /\ \A u \in Workers : u # w => at'[u] = at[u]
    BY <1>1 DEF WriteReading, WriteFeatures, Goto, mainVars, TypeOK
  <1>3. \E tb \in Table : AppendRow(w, tb, i)
    BY DEF WriteReading, WriteFeatures, Table
  <1>4. Keeps /\ ClearOK'
    BY <1>1, <1>3, AppendKeeps
  <1>5. call'["main"] = call["main"] /\ list'["main"] = list["main"]
    BY <1>1, <1>3, WorkersAreThreads DEF AppendRow, TypeOK
  <1>6. ASSUME faults' = 0, poolOpen PROVE StageOK(w)'
    <2>1. CASE WriteReading(w)
      <3>1. at'[w] = "extract"
        BY <1>1, <2>1 DEF WriteReading, Goto, TypeOK
      <3>2. InTable("sensor_readings", i)'
        BY <1>1, <2>1, AppendKeeps DEF WriteReading, Table
      <3>. QED BY <1>2, <3>1, <3>2 DEF StageOK, ReadingIn, InTable, Kept
    <2>2. CASE WriteFeatures(w)
      <3>1. at'[w] = "publish" /\ at[w] = "extract"
        BY <1>1, <2>2 DEF WriteFeatures, Goto, TypeOK
      <3>2. InTable("engineered_features", i)'
        BY <1>1, <2>2, AppendKeeps DEF WriteFeatures, Table
      <3>3. ReadingIn(i)
        BY <1>2, <1>6, <3>1 DEF StopInv, StoresOK, StageOK
      <3>4. ReadingIn(i)'
        BY <1>1, <1>2, <1>4, <3>3 DEF Keeps, ReadingIn, Table
      <3>. QED BY <1>2, <3>1, <3>2, <3>4 DEF StageOK, ReadingIn, FeaturesIn, InTable, Kept
    <2>. QED BY <2>1, <2>2
  <1>. HIDE DEF i
  <1>7. ShutdownKept /\ PassesKept
    BY <1>2, <1>5, MainUnchanged, NothingPasses
  <1>. QED BY <1>2, <1>4, <1>6, <1>7, StoresKept

LEMMA PublishStores ==
    ASSUME StopInv, ProcessorInv', NEW w \in Workers, Publish(w)
    PROVE  StoresOK'
  <1>1. /\ UNCHANGED <<msg, main, drained, handled, poolOpen, producer, tableVars, faults>>
        /\ \A u \in Workers : u # w => at'[u] = at[u]
        /\ at[w] = "publish" /\ at'[w] = "done"
        /\ published \subseteq published'
        /\ producer = "open" => msg[w] \in published'
    BY DEF Publish, Goto, mainVars, StopInv, ProcessorInv, TypeInv, TypeOK
  <1>2. ASSUME faults' = 0, poolOpen PROVE StageOK(w)'
    <2>1. ReadingIn(msg[w]) /\ FeaturesIn(msg[w])
      BY <1>1, <1>2 DEF StopInv, StoresOK, StageOK
    <2>. QED
      BY <1>1, <2>1 DEF StageOK, ReadingIn, FeaturesIn, SentOn, InTable, Kept, tableVars
  <1>3. Keeps /\ ClearOK' /\ ShutdownKept /\ PassesKept
    BY <1>1, RowsUnchanged, MainUnchanged, NothingPasses DEF tableVars, StopInv, StoresOK
  <1>. QED BY <1>1, <1>2, <1>3, StoresKept

(* The steps of a worker that hand nothing over. *)
LEMMA QuietWorkerStores ==
    ASSUME StopInv, ProcessorInv', NEW w \in Workers,
           \/ CheckRunning(w) \/ Take(w) \/ GetTimesOut(w) \/ Reject(w)
           \/ ExtractFails(w) \/ NoFeatures(w)
    PROVE  StoresOK'
  <1>0. at \in [Workers -> Place] /\ msg \in [Workers -> Offset \cup {NoMsg}] /\ faults \in Nat
    BY DEF StopInv, ProcessorInv, TypeInv, TypeOK, Place
  <1>1. /\ UNCHANGED <<main, drained, handled, poolOpen, producer, published, tableVars>>
        /\ \A u \in Workers : u # w => at'[u] = at[u] /\ msg'[u] = msg[u]
        /\ faults' = 0 => faults = 0
    <2>1. CASE CheckRunning(w) \/ GetTimesOut(w) \/ Reject(w) \/ NoFeatures(w)
      BY <1>0, <2>1 DEF CheckRunning, GetTimesOut, Reject, NoFeatures, Goto, mainVars
    <2>2. CASE Take(w)
      BY <1>0, <2>2 DEF Take, Goto, mainVars
    <2>3. CASE ExtractFails(w)
      BY <1>0, <2>3 DEF ExtractFails, Goto, mainVars
    <2>. QED BY <2>1, <2>2, <2>3
  <1>2. ASSUME faults' = 0, poolOpen PROVE StageOK(w)'
    <2>1. CASE CheckRunning(w) \/ Take(w) \/ GetTimesOut(w)
      <3>1. at'[w] \notin {"extract", "publish", "done"}
        BY <1>0, <2>1 DEF CheckRunning, Take, GetTimesOut, Goto
      <3>. QED BY <3>1 DEF StageOK
    <2>2. CASE Reject(w)
      <3>1. msg' = msg /\ Log[msg[w]] = "incomplete"
        BY <2>2 DEF Reject
      <3>. QED BY <3>1 DEF StageOK, ReadingIn, FeaturesIn, SentOn
    <2>3. CASE NoFeatures(w)
      <3>1. /\ msg' = msg /\ Log[msg[w]] = "featureless" /\ at[w] = "extract" /\ faults = 0
            /\ UNCHANGED <<pending, stored, late>>
        BY <1>1, <1>2, <2>3 DEF NoFeatures, tableVars
      <3>2. ReadingIn(msg[w])
        BY <1>2, <3>1 DEF StopInv, StoresOK, StageOK
      <3>. QED BY <3>1, <3>2 DEF StageOK, ReadingIn, FeaturesIn, SentOn, InTable, Kept
    <2>4. CASE ExtractFails(w)
      BY <1>0, <1>2, <2>4 DEF ExtractFails
    <2>. QED BY <2>1, <2>2, <2>3, <2>4
  <1>3. Keeps /\ ClearOK' /\ ShutdownKept /\ PassesKept
    BY <1>1, RowsUnchanged, MainUnchanged, NothingPasses DEF tableVars, StopInv, StoresOK
  <1>. QED BY <1>1, <1>2, <1>3, StoresKept

-------------------------------------------------------------------------------
(* Calls of the writer *)

(* The flush of close() leaves a list behind only empty or inserted. *)
LEMMA CallPasses ==
    ASSUME StopInv, NEW t \in Thread, CallStep(t)
    PROVE  PassesKept
  <1> SUFFICES ASSUME faults' = 0, NEW tb \in Table, Passed(tb)', ~Passed(tb), NEW i \in Offset,
                      InTable(tb, i)
               PROVE  Kept(tb, i)'
    BY DEF PassesKept
  <1>0. /\ ProcessorInv /\ TypeOK /\ list["main"] \in Table /\ call["main"] \in Step
        /\ "main" \in Thread /\ "main" \notin Workers
        /\ Keeps /\ faults \in Nat
    BY WorkersAreThreads, CallKeeps DEF StopInv, StoresOK, ProcessorInv, TypeInv, TypeOK, Step
  <1>1. t = "main" /\ main = "closePool" /\ main' = "closePool" /\ poolOpen
    <2>1. main' = "closePool"
      BY DEF Passed
    <2>2. main = "closePool"
      BY <1>0, <2>1, CallMoves DEF CallerCatches
    <2>3. t = "main"
      BY <1>0, <2>1, <2>2, CallMoves DEF Passed
    <2>. QED BY <2>1, <2>2, <2>3 DEF StopInv, StoresOK, BeforeClose
  <1>2. CASE Check("main")
    <2>1. call["main"] = "check" /\ UNCHANGED <<pending, stored, late>>
      BY <1>2 DEF Check, rowVars
    <2>2. tb = list["main"] /\ pending[tb] = {}
      <3>1. CASE ToFlush("main")
        BY <1>0, <1>1, <1>2, <2>1, <3>1 DEF Check, Passed, TypeOK
      <3>2. CASE ~ToFlush("main")
        <4>1. FlushEnds("main") /\ pending[list["main"]] = {}
          BY <1>0, <1>2, <3>2 DEF Check, ToFlush
        <4>. QED BY <1>0, <1>1, <2>1, <4>1 DEF FlushEnds, Returns, Passed, TypeOK, Table
      <3>. QED BY <3>1, <3>2
    <2>. QED BY <2>1, <2>2 DEF InTable, Kept
  <1>3. CASE Insert("main")
    <2>1. /\ call["main"] = "insert" /\ InsertRows(list["main"])
          /\ call' = [call EXCEPT !["main"] = "clear"] /\ UNCHANGED <<pending, late, list>>
      BY <1>3 DEF Insert
    <2>2. tb = list["main"]
      BY <1>0, <1>1, <2>1 DEF Passed, TypeOK
    <2>3. /\ Keeps /\ \A x \in Table : x = list["main"] => \A k \in pending'[x] : Kept(x, k)'
      BY <1>0, <2>1, InsertKeeps
    <2>4. CASE i \in pending[tb]
      BY <2>1, <2>2, <2>3, <2>4
    <2>5. CASE i \notin pending[tb]
      BY <2>3, <2>5 DEF InTable, Keeps
    <2>. QED BY <2>4, <2>5
  <1>4. CASE Clear("main")
    <2>1. call["main"] = "clear" /\ FlushEnds("main")
      BY <1>4 DEF Clear
    <2>. QED BY <1>0, <1>1, <2>1 DEF FlushEnds, Returns, Passed, TypeOK, Table
  <1>5. ASSUME NEW applied \in BOOLEAN, NEW raises \in BOOLEAN, InsertFails("main", applied, raises)
        PROVE  FALSE
    BY <1>0, <1>1, <1>5 DEF InsertFails
  <1>. QED BY <1>1, <1>2, <1>3, <1>4, <1>5 DEF CallStep

LEMMA CallStores ==
    ASSUME StopInv, ProcessorInv', NEW t \in Thread, CallStep(t)
    PROVE  StoresOK'
  <1>0. ProcessorInv /\ ClearOK /\ faults \in Nat /\ at \in [Workers -> Place]
    BY DEF StopInv, StoresOK, ProcessorInv, TypeInv, TypeOK, Place
  <1>1. /\ UNCHANGED <<msg, drained, handled, poolOpen, producer, published>>
        /\ UNCHANGED <<at, main>> \/ CallerCatches(t)
    BY <1>0, CallMoves
  <1>2. Keeps /\ ClearOK' /\ PassesKept /\ (faults' = 0 => faults = 0)
    BY <1>0, CallKeeps, CallPasses, CallRows
  <1>3. ShutdownKept
    <2>1. CASE UNCHANGED <<at, main>>
      BY <1>1, <2>1, MainUnchanged
    <2>2. CASE CallerCatches(t)
      <3>1. main' = main \/ main' = "leave" \/ (main = "closePool" /\ main' = "closeProducer")
        BY <2>2 DEF CallerCatches
      <3>. QED BY <1>1, <3>1 DEF ShutdownKept, BeforeClose, BeforeProducer
    <2>. QED BY <1>1, <2>1, <2>2
  <1>4. faults' = 0 /\ poolOpen => at' = at
    <2>1. CASE \E applied, raises \in BOOLEAN : InsertFails(t, applied, raises)
      BY <1>0, <2>1 DEF InsertFails
    <2>2. CASE Check(t) \/ Insert(t) \/ Clear(t)
      BY <2>2 DEF Check, Insert, Clear, workerVars
    <2>. QED BY <2>1, <2>2 DEF CallStep
  <1>5. \A w \in Workers : \/ msg'[w] = msg[w] /\ at'[w] = at[w]
                           \/ (faults' = 0 /\ poolOpen => StageOK(w)')
    BY <1>1, <1>4
  <1>. QED BY <1>1, <1>2, <1>3, <1>5, StoresKept

-------------------------------------------------------------------------------
(* The writer thread and the main thread *)

LEMMA FlushStores ==
    ASSUME StopInv, ProcessorInv', WriterFlushes \/ FinalFlush \/ CloseWriter
    PROVE  StoresOK'
  <1>0. ProcessorInv /\ ClearOK /\ TypeOK
    BY DEF StopInv, StoresOK, ProcessorInv, TypeInv
  <1>1. PICK t \in {"writer", "main"} :
            /\ FlushAll(t)
            /\ t = "writer" => main' = main
            /\ t = "main" => \/ main = "flush" /\ main' = "flushProducer"
                             \/ main = "close" /\ main' = "closePool"
    BY DEF WriterFlushes, FinalFlush, CloseWriter, mainVars
  <1>2. /\ UNCHANGED <<at, msg, drained, handled, poolOpen, producer, published, faults>>
        /\ UNCHANGED <<pending, stored, late>>
    BY <1>1 DEF WriterFlushes, FinalFlush, CloseWriter, workerVars, mainVars, FlushAll, rowVars
  <1>3. Keeps /\ ClearOK'
    <2>1. \A u \in Thread : call'[u] = "clear" => call[u] = "clear" /\ list'[u] = list[u]
      BY <1>0, <1>1, WorkersAreThreads DEF FlushAll, TypeOK
    <2>. QED BY <1>0, <1>2, <2>1, RowsUnchanged
  <1>4. ShutdownKept
    BY <1>1, <1>2 DEF ShutdownKept, BeforeClose, BeforeProducer
  <1>5. PassesKept
    <2>1. CASE t = "writer"
      <3>1. call'["main"] = call["main"] /\ list'["main"] = list["main"]
        BY <1>0, <1>1, <2>1, WorkersAreThreads DEF FlushAll, TypeOK
      <3>. QED BY <1>1, <2>1, <3>1, NothingPasses
    <2>2. CASE t = "main"
      <3>1. call'["main"] = "check" /\ list'["main"] = "sensor_readings"
        BY <1>0, <1>1, <2>2, WorkersAreThreads DEF FlushAll, TypeOK
      <3>. QED BY <3>1 DEF PassesKept, Passed
    <2>. QED BY <2>1, <2>2
  <1>. QED BY <1>2, <1>3, <1>4, <1>5, StoresKept

LEMMA ProducerStores ==
    ASSUME StopInv, ProcessorInv', NEW fails \in BOOLEAN,
           FlushProducer(fails) \/ CloseProducer(fails)
    PROVE  StoresOK'
  <1>1. /\ UNCHANGED <<at, msg, drained, handled, poolOpen, published, tableVars>>
        /\ main' # "closePool"
        /\ ShutdownKept
    <2>1. CASE FlushProducer(fails)
      BY <2>1 DEF FlushProducer, workerVars, ShutdownKept, BeforeClose, BeforeProducer
    <2>2. CASE CloseProducer(fails)
      <3>1. /\ producer' = producer \/ (producer' = "closed" /\ producer = "open")
            /\ main' = "leave"
        BY <2>2 DEF CloseProducer
      <3>2. ShutdownKept
        BY <3>1 DEF ShutdownKept, BeforeClose, BeforeProducer
      <3>. QED BY <2>2, <3>1, <3>2 DEF CloseProducer, workerVars
    <2>. QED BY <2>1, <2>2
  <1>2. faults' = 0 => faults = 0
    BY DEF FlushProducer, CloseProducer, ProducerMayFail, StopInv, ProcessorInv, TypeInv, TypeOK
  <1>3. Keeps /\ ClearOK' /\ PassesKept
    BY <1>1, RowsUnchanged, NotClosing DEF tableVars, StopInv, StoresOK
  <1>. QED BY <1>1, <1>2, <1>3, StoresKept

LEMMA ClosePoolStores ==
    ASSUME StopInv, ProcessorInv', ClosePool
    PROVE  StoresOK'
  <1>1. /\ UNCHANGED <<drained, tableVars, producer, published, faults>>
        /\ main = "closePool" /\ call["main"] = "out" /\ main' = "closeProducer" /\ ~poolOpen'
    BY DEF ClosePool
  <1>2. Passed("sensor_readings") /\ Passed("engineered_features")
    BY <1>1 DEF Passed
  <1>3. ClearOK'
    BY <1>1 DEF StopInv, StoresOK, ClearOK, Clearing, Kept, tableVars
  <1>4. ASSUME faults' = 0 PROVE DrainedOK'
    <2>1. DrainedOK
      BY <1>1, <1>4 DEF StopInv, StoresOK
    <2>. QED BY <1>1, <1>2, <2>1 DEF DrainedOK, ReadingIn, FeaturesIn, InTable, Kept, tableVars
  <1>. QED BY <1>1, <1>3, <1>4 DEF StopInv, StoresOK, BeforeClose, BeforeProducer

LEMMA JoinStores ==
    ASSUME StopInv, ProcessorInv', Join
    PROVE  StoresOK'
  <1>1. /\ UNCHANGED <<at, msg, handled, tableVars, poolOpen, producer, published, faults>>
        /\ main = "join" /\ main' = "flush" /\ drained' = Taken /\ unfinished = 0
    BY DEF Join, workerVars
  <1>2. poolOpen /\ producer # "closed"
    BY <1>1 DEF StopInv, StoresOK, BeforeClose, BeforeProducer
  <1>3. Elements(inputQueue) = {} /\ Busy = {}
    <2>1. /\ Cardinality(Busy) \in Nat /\ IsFiniteSet(Busy) /\ Len(inputQueue) \in Nat
      BY BusyFinite, LenProperties DEF StopInv, ProcessorInv, TypeInv, TypeOK
    <2>2. Cardinality(Busy) = 0 /\ Len(inputQueue) = 0
      BY <1>1, <2>1 DEF StopInv, ProcessorInv, TaskAccounting
    <2>. QED BY <2>1, <2>2, FS_EmptySet DEF Elements
  <1>4. ASSUME NEW i \in Taken PROVE i \in handled
    <2>1. i \in startAt .. position - 1 /\ ~InHand(i)
      BY DEF Taken, InHand
    <2>2. i # NoMsg
      <3>1. position \in 1 .. Len(Log) + 1 /\ startAt \in 1 .. Len(Log) + 1
        BY DEF StopInv, ProcessorInv, TypeInv, TypeOK
      <3>2. startAt >= 1 /\ i >= startAt
        BY <2>1, <3>1, LogLength
      <3>. QED BY <2>1, <3>1, <3>2, LogLength DEF NoMsg
    <2>3. ~InFlight(i)
      BY <1>3, <2>1, <2>2 DEF InFlight, Busy
    <2>. QED BY <2>1, <2>3 DEF StopInv, NoMessageDropped
  <1>5. ClearOK'
    BY <1>1 DEF StopInv, StoresOK, ClearOK, Clearing, Kept, tableVars
  <1> SUFFICES ASSUME faults' = 0
               PROVE  (\A w \in Workers : StageOK(w)') /\ HandledOK' /\ DrainedOK'
    BY <1>1, <1>2, <1>5 DEF StoresOK
  <1>6. (\A w \in Workers : StageOK(w)) /\ HandledOK
    BY <1>1, <1>2 DEF StopInv, StoresOK
  <1>7. (\A w \in Workers : StageOK(w)') /\ HandledOK'
    BY <1>1, <1>6 DEF StageOK, HandledOK, ReadingIn, FeaturesIn, SentOn, InTable, Kept, tableVars
  <1>8. DrainedOK'
    <2>1. \A i \in drained' : ReadingIn(i)' /\ FeaturesIn(i)' /\ SentOn(i)
      <3>1. \A i \in drained' : ReadingIn(i) /\ FeaturesIn(i) /\ SentOn(i)
        BY <1>1, <1>4, <1>6 DEF HandledOK
      <3>. QED BY <1>1, <3>1 DEF ReadingIn, FeaturesIn, InTable, Kept, tableVars
    <2>2. producer \in {"open", "none"}
      BY <1>2 DEF StopInv, ProcessorInv, TypeInv, TypeOK
    <2>3. ~Passed("sensor_readings")' /\ ~Passed("engineered_features")'
      BY <1>1 DEF Passed
    <2>. QED BY <1>1, <1>2, <2>1, <2>2, <2>3 DEF DrainedOK, SentOn
  <1>. QED BY <1>7, <1>8

LEMMA RestartStores ==
    ASSUME StopInv, Restart
    PROVE  StoresOK'
  <1>1. /\ at' = Idle /\ handled' = {} /\ drained' = {} /\ poolOpen' = TRUE
        /\ producer' # "closed" /\ call' = Out
    BY DEF Restart
  <1>2. \A w \in Workers : StageOK(w)'
    BY <1>1 DEF StageOK, Idle
  <1>3. ClearOK'
    BY <1>1 DEF ClearOK, Clearing, Out
  <1>. QED BY <1>1, <1>2, <1>3 DEF StoresOK, HandledOK, DrainedOK

(* The steps that go on with the shutdown without a flush, and the consumer's. *)
LEMMA OtherStores ==
    ASSUME StopInv, ProcessorInv',
           ConsumerStep \/ ConsumerEnds(TRUE) \/ WriterChecks \/ Signal \/ SecondSignal \/ Leave
    PROVE  StoresOK'
  <1>0. ProcessorInv /\ ClearOK /\ TypeOK
    BY DEF StopInv, StoresOK, ProcessorInv, TypeInv
  <1>1. CASE ConsumerStep \/ ConsumerEnds(TRUE) \/ WriterChecks
    <2>1. UNCHANGED <<workerVars, tableVars, main, drained, handled, poolOpen, producer, published>>
      BY <1>1 DEF ConsumerStep, Poll, Put, ConsumerEnds, WriterChecks, mainVars
    <2>2. faults' = 0 => faults = 0
      BY <1>0, <1>1 DEF ConsumerStep, Poll, Put, ConsumerEnds, WriterChecks, TypeOK
    <2>3. Keeps /\ ClearOK' /\ ShutdownKept /\ PassesKept
      BY <1>0, <2>1, RowsUnchanged, MainUnchanged, NothingPasses DEF tableVars
    <2>. QED BY <2>1, <2>2, <2>3, StoresKept DEF workerVars
  <1>2. CASE Signal \/ SecondSignal \/ Leave
    <2>1. /\ UNCHANGED <<workerVars, pending, stored, late, drained, handled, poolOpen, producer,
                         published, faults>>
          /\ main' \in {"leave", "gone"} \/ (main = "serving" /\ main' = "join")
      BY <1>2 DEF Signal, SecondSignal, Leave, tableVars
    <2>2. \A u \in Thread : call'[u] = "clear" => call[u] = "clear" /\ list'[u] = list[u]
      <3>1. CASE Signal \/ Leave
        BY <3>1 DEF Signal, Leave, tableVars
      <3>2. CASE SecondSignal
        BY <1>0, <3>2, WorkersAreThreads DEF SecondSignal, Returns, TypeOK
      <3>. QED BY <1>2, <3>1, <3>2
    <2>3. Keeps /\ ClearOK'
      BY <1>0, <2>1, <2>2, RowsUnchanged
    <2>4. ShutdownKept /\ PassesKept
      <3>1. ShutdownKept
        BY <2>1 DEF ShutdownKept, BeforeClose, BeforeProducer
      <3>. QED BY <2>1, <3>1, NotClosing
    <2>. QED BY <2>1, <2>3, <2>4, StoresKept DEF workerVars
  <1>. QED BY <1>1, <1>2

LEMMA StopStep ==
    ASSUME StopInv, [Next]_vars
    PROVE  StopInv'
  <1>1. ProcessorInv' /\ NoMessageDropped'
    BY ProcessorStep, DroppedStep DEF StopInv
  <1>2. CASE UNCHANGED vars
    <2>1. UNCHANGED <<workerVars, tableVars, main, drained, handled, poolOpen, producer, published,
                      faults>>
      BY <1>2 DEF vars, mainVars
    <2>2. Keeps /\ ClearOK' /\ ShutdownKept /\ PassesKept
      BY <2>1, RowsUnchanged, MainUnchanged, NothingPasses DEF tableVars, StopInv, StoresOK
    <2>3. StoresOK'
      BY <1>1, <2>1, <2>2, StoresKept DEF workerVars
    <2>. QED BY <1>1, <2>3 DEF StopInv
  <1>3. ASSUME ConsumerStep \/ ConsumerEnds(TRUE) \/ Signal \/ SecondSignal PROVE StoresOK'
    BY <1>1, <1>3, OtherStores
  <1>4. ASSUME NEW w \in Workers, WorkerStep(w) PROVE StoresOK'
    BY <1>1, <1>4, QuietWorkerStores, WriteStores, PublishStores, TaskDoneStores, CallStores,
       WorkersAreThreads
    DEF WorkerStep
  <1>5. ASSUME WriterStep PROVE StoresOK'
    BY <1>1, <1>5, OtherStores, FlushStores, CallStores, WorkersAreThreads DEF WriterStep
  <1>6. ASSUME MainStep PROVE StoresOK'
    BY <1>1, <1>6, JoinStores, FlushStores, ClosePoolStores, ProducerStores, OtherStores,
       CallStores, WorkersAreThreads
    DEF MainStep
  <1>7. CASE Restart
    BY <1>1, <1>7, RestartStores DEF StopInv
  <1>. QED
    BY <1>1, <1>2, <1>3, <1>4, <1>5, <1>6, <1>7 DEF Next, StopInv

(* After a stop that closed the writer without a failure, every message    *)
(* that was taken from Kafka before the join returned is stored and sent,  *)
(* but for the rows a worker appended to a list about to be cleared.       *)
THEOREM CleanStopAlwaysStores == Spec => []CleanStopStores
  <1>1. Init => StopInv
    <2> SUFFICES ASSUME Init PROVE StoresOK
      BY InitInv, InitDropped DEF StopInv
    <2>1. at = Idle /\ handled = {} /\ drained = {} /\ poolOpen /\ producer # "closed" /\ call = Out
      BY DEF Init
    <2>2. \A w \in Workers : StageOK(w)
      BY <2>1 DEF StageOK, Idle
    <2>3. ClearOK
      BY <2>1 DEF ClearOK, Clearing, Out
    <2>. QED BY <2>1, <2>2, <2>3 DEF StoresOK, HandledOK, DrainedOK
  <1>2. StopInv => CleanStopStores
    BY DEF StopInv, StoresOK, DrainedOK, CleanStopStores, Kept
  <1>. QED BY <1>1, <1>2, StopStep, PTL DEF Spec
-------------------------------------------------------------------------------
(* How often a message is stored.  A message is in one place at a time, so *)
(* that what a table still has to get of it has no row there yet, and a    *)
(* row still in its list after it was stored is about to be cleared or was *)
(* stored by a flush that never came to clear it.                          *)

OnePlace ==
    /\ \A j, k \in 1 .. Len(inputQueue) : inputQueue[j] = inputQueue[k] => j = k
    /\ \A i \in Elements(inputQueue) :
          i < position /\ ~InHand(i) /\ \A w \in Workers : msg[w] # i
    /\ \A w \in Workers : msg[w] # NoMsg =>
          /\ msg[w] < position /\ ~InHand(msg[w])
          /\ \A u \in Workers : msg[u] = msg[w] => u = w

(* Where a worker is before it hands its message to a table. *)
Before(tb) == IF tb = "sensor_readings" THEN {"validate"} ELSE {"validate", "extract"}

Ahead(tb, i) ==
    \/ i >= position \/ InHand(i) \/ i \in Elements(inputQueue)
    \/ \E w \in Workers : msg[w] = i /\ at[w] \in Before(tb)

RowsOK ==
    \A tb \in Table : \A i \in Offset :
        /\ i \in pending[tb] /\ i \in here[tb] => i \in uncleared[tb] \/ Clearing(tb)
        /\ Ahead(tb, i) => i \notin pending[tb] /\ i \notin here[tb] /\ i \notin late[tb]
        /\ crashes = 0 /\ i \notin here[tb] => stored[tb][i] = 0

(* The writer thread and the main thread are in a call of the writer only  *)
(* at the place that waits for it to return.                               *)
CallsOK ==
    /\ writer # "loop" => call["writer"] = "out"
    /\ main \notin {"flushProducer", "closePool"} => call["main"] = "out"

OnceInv == ProcessorInv /\ OnePlace /\ CallsOK /\ RowsOK

LEMMA CallsStep ==
    ASSUME ProcessorInv, CallsOK, [Next]_vars
    PROVE  CallsOK'
  <1>0. /\ TypeOK /\ "main" \in Thread /\ "writer" \in Thread
        /\ "main" \notin Workers /\ "writer" \notin Workers
    BY WorkersAreThreads DEF ProcessorInv, TypeInv
  <1>1. CASE \/ UNCHANGED vars \/ ConsumerStep \/ ConsumerEnds(TRUE) \/ WriterChecks
             \/ Join \/ ClosePool \/ Leave \/ Signal
             \/ \E fails \in BOOLEAN : FlushProducer(fails) \/ CloseProducer(fails)
    BY <1>1 DEF CallsOK, vars, ConsumerStep, Poll, Put, ConsumerEnds, WriterChecks, Join, ClosePool,
                Leave, Signal, FlushProducer, CloseProducer, mainVars, tableVars
  <1>2. CASE WriterFlushes
    BY <1>0, <1>2 DEF CallsOK, WriterFlushes, FlushAll, mainVars, TypeOK
  <1>3. CASE FinalFlush \/ CloseWriter
    BY <1>0, <1>3 DEF CallsOK, FinalFlush, CloseWriter, FlushAll, TypeOK
  <1>4. CASE SecondSignal
    BY <1>0, <1>4 DEF CallsOK, SecondSignal, Returns, TypeOK
  <1>5. CASE Restart
    BY <1>0, <1>5 DEF CallsOK, Restart, Out
  <1>6. ASSUME NEW t \in Thread, CallStep(t) PROVE CallsOK'
    <2>1. /\ call[t] # "out" /\ writer' = writer
          /\ \A u \in Thread : u # t => call'[u] = call[u]
          /\ main' = main \/ (t = "main" /\ call'[t] = "out")
      <3>1. writer' = writer
        BY <1>6 DEF CallStep, Check, Insert, Clear, InsertFails
      <3>. QED BY <1>6, <3>1, CallMoves DEF CallerCatches
    <2>. QED BY <1>0, <2>1 DEF CallsOK
  <1>7. ASSUME NEW w \in Workers, WorkerStep(w) PROVE CallsOK'
    <2>1. CASE CallStep(w)
      BY <1>6, <2>1, WorkersAreThreads
    <2>2. CASE WriteReading(w) \/ WriteFeatures(w)
      BY <1>0, <2>2 DEF CallsOK, WriteReading, WriteFeatures, AppendRow, mainVars, TypeOK
    <2>3. CASE ~CallStep(w) /\ ~WriteReading(w) /\ ~WriteFeatures(w)
      BY <1>7, <2>3 DEF CallsOK, WorkerStep, CheckRunning, Take, GetTimesOut, Reject, ExtractFails,
                        NoFeatures, Publish, TaskDone, mainVars, tableVars
    <2>. QED BY <2>1, <2>2, <2>3
  <1>. QED
    BY <1>0, <1>1, <1>2, <1>3, <1>4, <1>5, <1>6, <1>7 DEF Next, WriterStep, MainStep

LEMMA InitOnce == Init => OnceInv
  <1> SUFFICES ASSUME Init PROVE OnePlace /\ CallsOK /\ RowsOK
    BY InitInv DEF OnceInv
  <1>1. OnePlace
    BY DEF Init, OnePlace, Elements, Free
  <1>2. RowsOK
    BY DEF Init, RowsOK, None
  <1>3. CallsOK
    BY WorkersAreThreads DEF Init, CallsOK, Out
  <1>. QED BY <1>1, <1>2, <1>3

(* A step that moves no message. *)
LEMMA PlaceKept ==
    ASSUME OnePlace, UNCHANGED <<position, consumer, inputQueue, msg>>
    PROVE  OnePlace'
  BY DEF OnePlace, Elements, InHand

LEMMA AheadKept ==
    ASSUME UNCHANGED <<position, consumer, inputQueue, msg>>,
           \A w \in Workers : at'[w] = at[w] \/ at'[w] \notin {"validate", "extract"},
           NEW tb \in Table, NEW i \in Offset, Ahead(tb, i)'
    PROVE  Ahead(tb, i)
  BY DEF Ahead, Before, Elements, InHand

(* A step that touches no table and brings no message back. *)
LEMMA RowsStay ==
    ASSUME RowsOK, UNCHANGED <<tableVars, crashes>>,
           \A tb \in Table, i \in Offset : Ahead(tb, i)' => Ahead(tb, i)
    PROVE  RowsOK'
  BY DEF RowsOK, Clearing, tableVars

LEMMA ConsumerOnce ==
    ASSUME OnceInv, ConsumerStep \/ ConsumerEnds(TRUE)
    PROVE  OnePlace' /\ RowsOK'
  <1>1. /\ position \in Nat /\ Offset \subseteq Nat /\ inputQueue \in Seq(Offset)
        /\ msg \in [Workers -> Offset \cup {NoMsg}] /\ NoMsg \in Nat
        /\ Elements(inputQueue) \subseteq Offset
    BY LogLength, ElementOfSeq
    DEF OnceInv, ProcessorInv, TypeInv, TypeOK, Elements, NoMsg
  <1>2. UNCHANGED <<tableVars, crashes, at, msg>>
    BY DEF ConsumerStep, Poll, Put, ConsumerEnds, workerVars
  <1>3. CASE Poll
    <2>1. /\ position' = position + 1 /\ consumer' = "put" /\ consumer = "poll"
          /\ inputQueue' = inputQueue
      BY <1>3 DEF Poll, queueVars
    <2>2. \A i : InHand(i)' <=> i = position
      BY <1>1, <2>1 DEF InHand
    <2>3. OnePlace'
      <3>1. Elements(inputQueue)' = Elements(inputQueue) /\ inputQueue' = inputQueue /\ msg' = msg
        BY <1>2, <2>1 DEF Elements
      <3>2. \A i \in Nat : i < position => i < position' /\ ~InHand(i)'
        BY <1>1, <2>1, <2>2
      <3>3. \A w \in Workers : msg[w] \in Nat
        BY <1>1
      <3>4. \A i \in Elements(inputQueue) : i \in Nat
        BY <1>1
      <3>5. \A i \in Elements(inputQueue)' :
               i < position' /\ ~InHand(i)' /\ \A w \in Workers : msg'[w] # i
        BY <3>1, <3>2, <3>4 DEF OnceInv, OnePlace
      <3>6. \A w \in Workers : msg'[w] # NoMsg =>
               /\ msg'[w] < position' /\ ~InHand(msg[w])'
               /\ \A u \in Workers : msg'[u] = msg'[w] => u = w
        BY <3>1, <3>2, <3>3 DEF OnceInv, OnePlace
      <3>. QED BY <3>1, <3>5, <3>6, <2>1, <2>2 DEF OnceInv, OnePlace, InHand
    <2>4. ASSUME NEW tb \in Table, NEW i \in Offset, Ahead(tb, i)' PROVE Ahead(tb, i)
      <3>1. i \in Nat /\ (i >= position' => i >= position) /\ (InHand(i)' => i >= position)
        BY <1>1, <2>1, <2>2
      <3>. QED BY <1>2, <2>1, <2>4, <3>1 DEF Ahead, Elements
    <2>. QED BY <1>2, <2>3, <2>4, RowsStay DEF OnceInv
  <1>4. CASE \E up \in BOOLEAN : Put(up)
    <2>1. /\ inputQueue' = Append(inputQueue, position - 1) /\ consumer = "put"
          /\ consumer' = "poll" /\ position' = position /\ position - 1 \in Offset
      BY <1>4 DEF Put, OnceInv, ProcessorInv, TypeInv, Shape
    <2>2. Elements(inputQueue') = Elements(inputQueue) \cup {position - 1}
      BY <1>1, <2>1, AppendElements
    <2>3. /\ \A i : ~InHand(i)' /\ (InHand(i) <=> i = position - 1)
      BY <2>1 DEF InHand
    <2>4. /\ position - 1 \notin Elements(inputQueue) /\ position - 1 < position
          /\ \A w \in Workers : msg[w] # position - 1
      <3>1. position - 1 # NoMsg
        BY <2>1, LogLength
      <3>. QED BY <1>1, <2>3, <3>1 DEF OnceInv, OnePlace
    <2>5. \A j, k \in 1 .. Len(inputQueue') : inputQueue'[j] = inputQueue'[k] => j = k
      <3>1. /\ Len(inputQueue) \in Nat /\ Len(inputQueue') = Len(inputQueue) + 1
            /\ inputQueue'[Len(inputQueue) + 1] = position - 1
            /\ \A k \in 1 .. Len(inputQueue) :
                  inputQueue'[k] = inputQueue[k] /\ inputQueue[k] # position - 1
        BY <1>1, <2>1, <2>4, LenProperties, AppendProperties DEF Elements
      <3>. QED BY <3>1 DEF OnceInv, OnePlace
    <2>6. \A i \in Elements(inputQueue)' : i < position /\ \A w \in Workers : msg[w] # i
      BY <2>2, <2>4 DEF OnceInv, OnePlace, Elements
    <2>7. OnePlace'
      BY <1>2, <2>1, <2>3, <2>5, <2>6 DEF OnceInv, OnePlace
    <2>8. \A tb \in Table, i \in Offset : Ahead(tb, i)' => Ahead(tb, i)
      BY <1>2, <2>1, <2>2, <2>3 DEF Ahead, Elements
    <2>. QED BY <1>2, <2>7, <2>8, RowsStay DEF OnceInv
  <1>5. CASE \E kafkaError \in BOOLEAN : ConsumerEnds(kafkaError)
    <2>1. UNCHANGED <<position, inputQueue>> /\ consumer = "poll" /\ consumer' = "closed"
      BY <1>5 DEF ConsumerEnds, queueVars
    <2>2. OnePlace'
      BY <1>2, <2>1 DEF OnceInv, OnePlace, Elements, InHand
    <2>3. \A tb \in Table, i \in Offset : Ahead(tb, i)' => Ahead(tb, i)
      BY <1>2, <2>1 DEF Ahead, Elements, InHand
    <2>. QED BY <1>2, <2>2, <2>3, RowsStay DEF OnceInv
  <1>. QED BY <1>3, <1>4, <1>5 DEF ConsumerStep
LEMMA TakeOnce ==
    ASSUME OnceInv, NEW w \in Workers, Take(w)
    PROVE  OnePlace' /\ RowsOK'
  <1> DEFINE q == inputQueue
             h == Head(q)
  <1>1. /\ q \in Seq(Offset) /\ q # <<>> /\ q' = Tail(q)
        /\ msg' = [msg EXCEPT ![w] = h] /\ at' = [at EXCEPT ![w] = "validate"]
        /\ UNCHANGED <<position, consumer, tableVars, crashes>>
        /\ msg \in [Workers -> Offset \cup {NoMsg}] /\ at \in [Workers -> Place]
    BY DEF Take, Goto, OnceInv, ProcessorInv, TypeInv, TypeOK, Place, kafkaVars, tableVars
  <1>2. /\ h \in Offset /\ Len(q) \in Nat \ {0} /\ Len(q') = Len(q) - 1 /\ h = q[1]
        /\ Elements(q) = Elements(Tail(q)) \cup {h}
        /\ \A k \in 1 .. Len(q') : q'[k] = q[k + 1]
    BY <1>1, TailElements, HeadTailProperties
  <1>3. /\ msg'[w] = h /\ at'[w] = "validate"
        /\ \A u \in Workers : u # w => msg'[u] = msg[u] /\ at'[u] = at[u]
    BY <1>1
  <1>4. Elements(q)' = Elements(Tail(q))
    BY <1>1 DEF Elements
  <1>5. \A k \in 1 .. Len(q') : q'[k] # h
    <2>1. \A k \in 1 .. Len(q') : k + 1 \in 1 .. Len(q) /\ k + 1 # 1 /\ 1 \in 1 .. Len(q)
      BY <1>2
    <2>. QED BY <1>2, <2>1 DEF OnceInv, OnePlace
  <1>6. h \notin Elements(q)'
    BY <1>5 DEF Elements
  <1>7. h < position /\ ~InHand(h) /\ \A u \in Workers : msg[u] # h
    BY <1>2 DEF OnceInv, OnePlace
  <1>8. h # NoMsg
    BY <1>2, LogLength
  <1>9. \A j, k \in 1 .. Len(q') : q'[j] = q'[k] => j = k
    <2>1. \A k \in 1 .. Len(q') : k + 1 \in 1 .. Len(q)
      BY <1>2
    <2>. QED BY <1>2, <2>1 DEF OnceInv, OnePlace
  <1>10. \A i : InHand(i)' <=> InHand(i)
    BY <1>1 DEF InHand
  <1>. HIDE DEF q, h
  <1>11. \A i \in Elements(q)' :
            i < position' /\ ~InHand(i)' /\ \A u \in Workers : msg'[u] # i
    BY <1>1, <1>2, <1>3, <1>4, <1>6, <1>10 DEF OnceInv, OnePlace, q
  <1>12. ASSUME NEW u \in Workers, msg'[u] # NoMsg
         PROVE  /\ msg'[u] < position' /\ ~InHand(msg[u])'
                /\ \A v \in Workers : msg'[v] = msg'[u] => v = u
    <2>1. CASE u = w
      BY <1>1, <1>3, <1>7, <2>1 DEF InHand
    <2>2. CASE u # w
      <3>1. msg[u] # NoMsg /\ msg'[u] = msg[u] /\ msg[u] # h
        BY <1>3, <1>7, <1>12, <2>2
      <3>2. /\ msg[u] < position /\ ~InHand(msg[u])
            /\ \A v \in Workers : msg[v] = msg[u] => v = u
        BY <3>1 DEF OnceInv, OnePlace
      <3>. QED BY <1>1, <1>3, <3>1, <3>2 DEF InHand
    <2>. QED BY <2>1, <2>2
  <1>13. OnePlace'
    BY <1>9, <1>11, <1>12 DEF OnePlace, q
  <1>14. ASSUME NEW tb \in Table, NEW i \in Offset, Ahead(tb, i)' PROVE Ahead(tb, i)
    <2>1. CASE i >= position' \/ InHand(i)' \/ i \in Elements(q)'
      BY <1>1, <1>2, <1>4, <1>10, <2>1 DEF Ahead, q
    <2>2. ASSUME NEW u \in Workers, msg'[u] = i, at'[u] \in Before(tb) PROVE Ahead(tb, i)
      BY <1>2, <1>3, <2>2 DEF Ahead, q
    <2>. QED BY <1>14, <2>1, <2>2 DEF Ahead, Before, q
  <1>. QED BY <1>1, <1>13, <1>14, RowsStay DEF OnceInv

LEMMA TaskDoneOnce ==
    ASSUME OnceInv, NEW w \in Workers, TaskDone(w)
    PROVE  OnePlace' /\ RowsOK'
  <1>1. /\ msg' = [msg EXCEPT ![w] = NoMsg] /\ at' = [at EXCEPT ![w] = "loop"]
        /\ UNCHANGED <<position, consumer, inputQueue, tableVars, crashes>>
        /\ msg \in [Workers -> Offset \cup {NoMsg}] /\ at \in [Workers -> Place]
        /\ inputQueue \in Seq(Offset)
    BY DEF TaskDone, Goto, OnceInv, ProcessorInv, TypeInv, TypeOK, Place, kafkaVars, tableVars
  <1>2. /\ msg'[w] = NoMsg /\ at'[w] = "loop"
        /\ \A u \in Workers : u # w => msg'[u] = msg[u] /\ at'[u] = at[u]
    BY <1>1
  <1>3. Elements(inputQueue) \subseteq Offset /\ NoMsg \notin Offset
    BY <1>1, LogLength, ElementOfSeq DEF Elements
  <1>4. OnePlace'
    BY <1>1, <1>2, <1>3 DEF OnceInv, OnePlace, Elements, InHand
  <1>5. ASSUME NEW tb \in Table, NEW i \in Offset, Ahead(tb, i)' PROVE Ahead(tb, i)
    BY <1>1, <1>2, <1>3, <1>5 DEF Ahead, Elements, InHand, Before
  <1>. QED BY <1>1, <1>4, <1>5, RowsStay DEF OnceInv

(* A worker's step that hands no row over. *)
LEMMA QuietWorkerOnce ==
    ASSUME OnceInv, NEW w \in Workers,
           \/ CheckRunning(w) \/ GetTimesOut(w) \/ Reject(w)
           \/ ExtractFails(w) \/ NoFeatures(w) \/ Publish(w)
    PROVE  OnePlace' /\ RowsOK'
  <1>1. /\ UNCHANGED <<position, consumer, inputQueue, msg, tableVars, crashes>>
        /\ \E where \in {"get", "loop", "exited", "done"} : at' = [at EXCEPT ![w] = where]
        /\ at \in [Workers -> Place]
    BY DEF CheckRunning, GetTimesOut, Reject, ExtractFails, NoFeatures, Publish, Goto, OnceInv,
           ProcessorInv, TypeInv, TypeOK, Place, kafkaVars, queueVars, tableVars
  <1>2. \A u \in Workers : at'[u] = at[u] \/ at'[u] \in {"get", "loop", "exited", "done"}
    BY <1>1
  <1>3. OnePlace'
    BY <1>1, PlaceKept DEF OnceInv
  <1>4. ASSUME NEW tb \in Table, NEW i \in Offset, Ahead(tb, i)' PROVE Ahead(tb, i)
    BY <1>1, <1>2, <1>4 DEF Ahead, Elements, InHand, Before
  <1>. QED BY <1>1, <1>3, <1>4, RowsStay DEF OnceInv

LEMMA WriteOnce ==
    ASSUME OnceInv, NEW w \in Workers, WriteReading(w) \/ WriteFeatures(w)
    PROVE  /\ OnePlace' /\ RowsOK'
           /\ \A tb \in Table : \A i \in pending'[tb] \ pending[tb] :
                 /\ i \in Offset /\ i \notin here[tb] /\ i \notin late[tb]
                 /\ pending'[tb] = pending[tb] \cup {i} /\ stored' = stored
  <1> DEFINE tb == IF at[w] = "validate" THEN "sensor_readings" ELSE "engineered_features"
             i == msg[w]
  <1>1. /\ UNCHANGED <<position, consumer, inputQueue, msg, crashes>>
        /\ AppendRow(w, tb, i)
        /\ \/ at[w] = "validate" /\ at' = [at EXCEPT ![w] = "extract"]
           \/ at[w] = "extract" /\ at' = [at EXCEPT ![w] = "publish"]
        /\ at \in [Workers -> Place]
    BY DEF WriteReading, WriteFeatures, Goto, OnceInv, ProcessorInv, TypeInv, TypeOK, Place,
           kafkaVars, queueVars
  <1>2. i \in Offset /\ i # NoMsg /\ tb \in Table /\ TypeOK /\ w \in Thread
    BY <1>1, HoldsMessage, LogLength, WorkersAreThreads
    DEF OnceInv, Away, ProcessorInv, TypeInv, TypeOK, Table
  <1>3. OnePlace'
    BY <1>1, PlaceKept DEF OnceInv
  <1>4. \A u \in Workers : u # w => at'[u] = at[u] /\ msg[u] # i
    BY <1>1, <1>2 DEF OnceInv, OnePlace
  <1>5. at[w] \in Before(tb) /\ at'[w] \notin Before(tb)
    BY <1>1 DEF Before
  <1>6. ASSUME NEW x \in Table, NEW k \in Offset, Ahead(x, k)'
        PROVE  Ahead(x, k) /\ ~(x = tb /\ k = i)
    <2>1. i < position /\ ~InHand(i) /\ i \notin Elements(inputQueue)
      BY <1>2 DEF OnceInv, OnePlace
    <2>2. /\ Elements(inputQueue)' = Elements(inputQueue) /\ position' = position /\ msg' = msg
          /\ (InHand(k)' <=> InHand(k))
      BY <1>1 DEF Elements, InHand
    <2>3. position \in Nat /\ k \in Nat /\ i \in Nat
      <3>1. position \in 1 .. Len(Log) + 1
        BY <1>2 DEF TypeOK
      <3>2. position \in Nat
        BY <3>1, LogLength
      <3>3. k \in Nat /\ i \in Nat
        BY <1>2, LogLength
      <3>. QED BY <3>2, <3>3
    <2>4. CASE k >= position \/ InHand(k) \/ k \in Elements(inputQueue)
      BY <2>1, <2>2, <2>3, <2>4 DEF Ahead
    <2>5. ASSUME NEW u \in Workers, msg[u] = k, at'[u] \in Before(x) PROVE Ahead(x, k) /\ ~(x = tb /\ k = i)
      <3>1. CASE u # w
        BY <1>4, <2>5, <3>1 DEF Ahead
      <3>2. CASE u = w
        <4>1. at[w] \in Before(x)
          BY <1>1, <2>5, <3>2 DEF Before
        <4>. QED BY <1>5, <2>5, <3>2, <4>1 DEF Ahead
      <3>. QED BY <3>1, <3>2
    <2>. QED BY <1>6, <2>2, <2>4, <2>5 DEF Ahead, Before
  <1>. HIDE DEF tb, i
  <1>7. i \notin pending[tb] /\ i \notin here[tb] /\ i \notin late[tb]
    <2>1. Ahead(tb, i)
      BY <1>5 DEF Ahead, i
    <2>. QED BY <1>2, <2>1 DEF OnceInv, RowsOK
  <1>8. /\ UNCHANGED <<stored, here, uncleared>>
        /\ pending'[tb] = pending[tb] \cup {i}
        /\ \A x \in Table : x # tb => pending'[x] = pending[x] /\ late'[x] = late[x]
        /\ late'[tb] \subseteq late[tb] \cup {i}
        /\ \A x \in Table : Clearing(x) => Clearing(x)'
    <2>1. /\ UNCHANGED <<stored, here, uncleared>>
          /\ pending' = [pending EXCEPT ![tb] = @ \cup {i}]
          /\ late' = late \/ late' = [late EXCEPT ![tb] = @ \cup {i}]
      BY <1>1 DEF AppendRow
    <2>2. pending \in [Table -> SUBSET Offset] /\ late \in [Table -> SUBSET Offset]
      BY <1>2 DEF TypeOK
    <2>3. /\ pending'[tb] = pending[tb] \cup {i}
          /\ \A x \in Table : x # tb => pending'[x] = pending[x]
      BY <1>2, <2>1, <2>2
    <2>4. /\ \A x \in Table : x # tb => late'[x] = late[x]
          /\ late'[tb] \subseteq late[tb] \cup {i}
      BY <1>2, <2>1, <2>2
    <2>5. call[w] # "clear"
      BY DEF WriteReading, WriteFeatures, OnceInv, ProcessorInv, TypeInv, Shape
    <2>6. \A u \in Thread : u # w => call'[u] = call[u] /\ list'[u] = list[u]
      BY <1>1, <1>2 DEF AppendRow, TypeOK
    <2>7. \A x \in Table : Clearing(x) => Clearing(x)'
      BY <2>5, <2>6 DEF Clearing
    <2>. QED BY <2>1, <2>3, <2>4, <2>7
  <1>9. RowsOK'
    <2> SUFFICES ASSUME NEW x \in Table, NEW k \in Offset
                 PROVE  /\ k \in pending'[x] /\ k \in here'[x] => k \in uncleared'[x] \/ Clearing(x)'
                        /\ Ahead(x, k)' => k \notin pending'[x] /\ k \notin here'[x] /\ k \notin late'[x]
                        /\ crashes' = 0 /\ k \notin here'[x] => stored'[x][k] = 0
      BY DEF RowsOK
    <2>1. /\ k \in pending[x] /\ k \in here[x] => k \in uncleared[x] \/ Clearing(x)
          /\ Ahead(x, k) => k \notin pending[x] /\ k \notin here[x] /\ k \notin late[x]
          /\ crashes = 0 /\ k \notin here[x] => stored[x][k] = 0
      BY DEF OnceInv, RowsOK
    <2>2. here'[x] = here[x] /\ uncleared'[x] = uncleared[x] /\ stored'[x][k] = stored[x][k]
          /\ crashes' = crashes /\ (Clearing(x) => Clearing(x)')
      BY <1>1, <1>8
    <2>3. CASE x = tb /\ k = i
      BY <1>6, <1>7, <2>1, <2>2, <2>3
    <2>4. CASE ~(x = tb /\ k = i)
      <3>1. (k \in pending'[x] => k \in pending[x]) /\ (k \in late'[x] => k \in late[x])
        <4>1. CASE x = tb
          BY <1>8, <2>4, <4>1
        <4>2. CASE x # tb
          BY <1>8, <4>2
        <4>. QED BY <4>1, <4>2
      <3>. QED BY <1>6, <2>1, <2>2, <3>1
    <2>. QED BY <2>3, <2>4
  <1>10. ASSUME NEW x \in Table, NEW k \in pending'[x] \ pending[x]
         PROVE  /\ k \in Offset /\ k \notin here[x] /\ k \notin late[x]
                /\ pending'[x] = pending[x] \cup {k} /\ stored' = stored
    <2>1. x = tb
      BY <1>8, <1>10
    <2>2. k = i
      BY <1>8, <1>10, <2>1
    <2>. QED BY <1>2, <1>7, <1>8, <2>1, <2>2
  <1>. QED BY <1>3, <1>9, <1>10

(* A step within a call of the writer. *)
LEMMA CallOnce ==
    ASSUME OnceInv, NEW t \in Thread, CallStep(t)
    PROVE  /\ OnePlace' /\ RowsOK'
           /\ \A tb \in Table : pending'[tb] \subseteq pending[tb]
           /\ \A tb \in Table : \A i \in here[tb] :
                 stored'[tb][i] > stored[tb][i] => i \in uncleared[tb] \/ Clearing(tb)
  <1>0. /\ ProcessorInv /\ TypeOK /\ list[t] \in Table /\ here \in [Table -> SUBSET Offset]
        /\ pending \in [Table -> SUBSET Offset] /\ stored \in [Table -> [Offset -> Nat]]
        /\ uncleared \in [Table -> SUBSET Offset]
        /\ call \in [Thread -> Step] /\ list \in [Thread -> Table]
    BY DEF OnceInv, ProcessorInv, TypeInv, TypeOK, Step
  <1>1. /\ UNCHANGED <<position, consumer, inputQueue, msg, crashes, late>>
        /\ \A u \in Thread : u # t => call'[u] = call[u] /\ list'[u] = list[u]
        /\ UNCHANGED <<at, main>> \/ CallerCatches(t)
    BY <1>0, CallMoves DEF kafkaVars, queueVars
  <1>2. OnePlace' /\ \A tb \in Table, i \in Offset : Ahead(tb, i)' => Ahead(tb, i)
    <2>1. at' = at \/ at' = [at EXCEPT ![t] = "done"]
      BY <1>1 DEF CallerCatches
    <2>2. \A u \in Workers : at'[u] = at[u] \/ at'[u] \notin {"validate", "extract"}
      BY <1>0, <2>1 DEF TypeOK
    <2>. QED BY <1>1, <2>2, PlaceKept, AheadKept DEF OnceInv
  <1>3. \A tb \in Table :
            \/ /\ pending'[tb] = pending[tb] /\ stored'[tb] = stored[tb] /\ here'[tb] = here[tb]
               /\ uncleared'[tb] = uncleared[tb] /\ (Clearing(tb) => Clearing(tb)')
            \/ /\ pending'[tb] = {} /\ stored'[tb] = stored[tb] /\ here'[tb] = here[tb]
            \/ /\ pending'[tb] = pending[tb] /\ here'[tb] = here[tb] \cup pending[tb]
               /\ stored'[tb] = AddCopies(tb, pending[tb])
               /\ Clearing(tb)' \/ uncleared'[tb] = uncleared[tb] \cup pending[tb]
    <2>1. CASE Check(t)
      <3>1. UNCHANGED rowVars /\ call[t] = "check"
        BY <2>1 DEF Check
      <3>. QED BY <1>1, <3>1 DEF Clearing, rowVars
    <2>2. CASE Insert(t)
      <3>1. /\ call[t] = "insert" /\ InsertRows(list[t]) /\ call' = [call EXCEPT ![t] = "clear"]
            /\ UNCHANGED <<list, pending, uncleared>>
        BY <2>2 DEF Insert
      <3>2. Clearing(list[t])' /\ \A tb \in Table : Clearing(tb) => Clearing(tb)'
        BY <1>0, <1>1, <3>1 DEF Clearing
      <3>3. \A tb \in Table : tb = list[t] => Clearing(tb)'
        BY <1>0, <3>1 DEF Clearing
      <3>. QED BY <1>0, <3>1, <3>2, <3>3 DEF InsertRows
    <2>3. CASE Clear(t)
      <3>1. /\ pending' = [pending EXCEPT ![list[t]] = {}] /\ UNCHANGED <<stored, here, uncleared>>
        BY <2>3 DEF Clear
      <3>2. \A tb \in Table : tb # list[t] /\ Clearing(tb) => Clearing(tb)'
        BY <1>1 DEF Clearing
      <3>. QED BY <1>0, <3>1, <3>2
    <2>4. ASSUME NEW applied \in BOOLEAN, NEW raises \in BOOLEAN, InsertFails(t, applied, raises),
                 NEW tb \in Table
          PROVE  \/ /\ pending'[tb] = pending[tb] /\ stored'[tb] = stored[tb] /\ here'[tb] = here[tb]
                    /\ uncleared'[tb] = uncleared[tb] /\ (Clearing(tb) => Clearing(tb)')
                 \/ /\ pending'[tb] = pending[tb] /\ here'[tb] = here[tb] \cup pending[tb]
                    /\ stored'[tb] = AddCopies(tb, pending[tb])
                    /\ uncleared'[tb] = uncleared[tb] \cup pending[tb]
      <3>1. /\ call[t] = "insert" /\ pending' = pending
            /\ \/ UNCHANGED <<stored, here, uncleared>>
               \/ /\ InsertRows(list[t])
                  /\ uncleared' = [uncleared EXCEPT ![list[t]] = @ \cup pending[list[t]]]
        BY <2>4 DEF InsertFails
      <3>2. Clearing(tb) => Clearing(tb)'
        BY <1>1, <3>1 DEF Clearing
      <3>. QED BY <1>0, <3>1, <3>2 DEF InsertRows
    <2>. QED BY <2>1, <2>2, <2>3, <2>4 DEF CallStep
  <1>4. ASSUME NEW tb \in Table, NEW i \in Offset
        PROVE  /\ i \in pending'[tb] /\ i \in here'[tb] => i \in uncleared'[tb] \/ Clearing(tb)'
               /\ Ahead(tb, i)' => i \notin pending'[tb] /\ i \notin here'[tb] /\ i \notin late'[tb]
               /\ crashes' = 0 /\ i \notin here'[tb] => stored'[tb][i] = 0
               /\ i \in here[tb] /\ stored'[tb][i] > stored[tb][i] => i \in uncleared[tb] \/ Clearing(tb)
    <2>1. /\ i \in pending[tb] /\ i \in here[tb] => i \in uncleared[tb] \/ Clearing(tb)
          /\ Ahead(tb, i) => i \notin pending[tb] /\ i \notin here[tb] /\ i \notin late[tb]
          /\ crashes = 0 /\ i \notin here[tb] => stored[tb][i] = 0
          /\ stored[tb][i] \in Nat
      BY <1>0 DEF OnceInv, RowsOK
    <2>2. AddCopies(tb, pending[tb])[i] = IF i \in pending[tb] THEN stored[tb][i] + 1 ELSE stored[tb][i]
      BY DEF AddCopies
    <2>. QED BY <1>1, <1>2, <1>3, <2>1, <2>2
  <1>5. RowsOK'
    BY <1>4 DEF RowsOK
  <1>6. \A tb \in Table : pending'[tb] \subseteq pending[tb]
    BY <1>3
  <1>. QED BY <1>0, <1>2, <1>4, <1>5, <1>6

(* The steps that set off flush_all, and the one that breaks it off. *)
LEMMA FlushOnce ==
    ASSUME OnceInv, WriterFlushes \/ FinalFlush \/ CloseWriter \/ SecondSignal
    PROVE  OnePlace' /\ RowsOK' /\ pending' = pending /\ stored' = stored
  <1>0. /\ TypeOK /\ "main" \in Thread /\ "writer" \in Thread /\ list["main"] \in Table
        /\ pending \in [Table -> SUBSET Offset] /\ uncleared \in [Table -> SUBSET Offset]
    BY WorkersAreThreads DEF OnceInv, ProcessorInv, TypeInv, TypeOK
  <1>1. /\ UNCHANGED <<position, consumer, inputQueue, msg, at, crashes>>
        /\ UNCHANGED <<pending, stored, late, here>>
    BY DEF WriterFlushes, FinalFlush, CloseWriter, SecondSignal, FlushAll, rowVars, kafkaVars,
           queueVars, workerVars
  <1>2. OnePlace' /\ \A tb \in Table, i \in Offset : Ahead(tb, i)' => Ahead(tb, i)
    BY <1>1, PlaceKept, AheadKept DEF OnceInv
  <1>3. ASSUME NEW tb \in Table, NEW i \in pending[tb], i \in uncleared[tb] \/ Clearing(tb)
        PROVE  i \in uncleared'[tb] \/ Clearing(tb)'
    <2>1. CASE SecondSignal
      <3>1. /\ \A u \in Thread : u # "main" => call'[u] = call[u] /\ list'[u] = list[u]
            /\ uncleared' = IF call["main"] = "clear"
                            THEN [uncleared EXCEPT ![list["main"]] = @ \cup pending[list["main"]]]
                            ELSE uncleared
        BY <1>0, <2>1 DEF SecondSignal, Returns, TypeOK
      <3>. QED BY <1>0, <1>3, <3>1 DEF Clearing
    <2>2. CASE WriterFlushes \/ FinalFlush \/ CloseWriter
      <3>1. PICK t \in {"writer", "main"} : FlushAll(t) /\ call[t] # "clear"
        BY <2>2 DEF WriterFlushes, FinalFlush, CloseWriter, OnceInv, CallsOK
      <3>2. uncleared' = uncleared /\ \A u \in Thread : u # t => call'[u] = call[u] /\ list'[u] = list[u]
        BY <1>0, <3>1 DEF FlushAll, rowVars, TypeOK
      <3>. QED BY <1>3, <3>1, <3>2 DEF Clearing
    <2>. QED BY <2>1, <2>2
  <1>4. RowsOK'
    BY <1>0, <1>1, <1>2, <1>3 DEF OnceInv, RowsOK
  <1>. QED BY <1>1, <1>2, <1>4

LEMMA RestartOnce ==
    ASSUME OnceInv, Restart
    PROVE  OnePlace' /\ RowsOK' /\ stored' = stored /\ \A tb \in Table : pending'[tb] = {}
  <1>1. OnePlace'
    BY DEF Restart, OnePlace, Elements, Free
  <1>2. /\ \A tb \in Table : pending'[tb] = {} /\ here'[tb] = {} /\ late'[tb] = {}
        /\ stored' = stored /\ crashes' = crashes + 1 /\ crashes \in Nat
    BY DEF Restart, None, OnceInv, ProcessorInv, TypeInv, TypeOK
  <1>3. RowsOK'
    BY <1>2 DEF RowsOK
  <1>. QED BY <1>1, <1>2, <1>3

(* A worker's step that is no call of the writer. *)
LEMMA WorkerOnce ==
    ASSUME OnceInv, NEW w \in Workers,
           \/ CheckRunning(w) \/ Take(w) \/ GetTimesOut(w) \/ Reject(w) \/ ExtractFails(w)
           \/ NoFeatures(w) \/ Publish(w) \/ TaskDone(w)
    PROVE  OnePlace' /\ RowsOK' /\ UNCHANGED tableVars
  <1>1. UNCHANGED tableVars
    BY DEF CheckRunning, Take, GetTimesOut, Reject, ExtractFails, NoFeatures, Publish, TaskDone
  <1>. QED BY <1>1, TakeOnce, TaskDoneOnce, QuietWorkerOnce

(* What a step does to the rows: it keeps the invariant, stores again only *)
(* what was not cleared, and appends only rows this process did not store. *)
Repeats(tb) ==
    \A i \in here[tb] : stored'[tb][i] > stored[tb][i] => i \in uncleared[tb] \/ Clearing(tb)

Accepts(tb) ==
    \A i \in pending'[tb] \ pending[tb] :
        /\ i \in Offset /\ i \notin here[tb] /\ i \notin late[tb]
        /\ pending'[tb] = pending[tb] \cup {i} /\ stored' = stored

LEMMA NothingMoved ==
    ASSUME OnceInv, stored' = stored, NEW tb \in Table, pending'[tb] \subseteq pending[tb]
    PROVE  Repeats(tb) /\ Accepts(tb)
  <1>1. \A i \in here[tb] : stored[tb][i] \in Nat
    BY DEF OnceInv, ProcessorInv, TypeInv, TypeOK
  <1>. QED BY <1>1 DEF Repeats, Accepts

LEMMA OnceStep ==
    ASSUME OnceInv, [Next]_vars
    PROVE  OnceInv' /\ \A tb \in Table : Repeats(tb) /\ Accepts(tb)
  <1>1. ProcessorInv' /\ CallsOK'
    BY ProcessorStep, CallsStep DEF OnceInv
  <1> DEFINE Good == OnePlace' /\ RowsOK' /\ \A tb \in Table : Repeats(tb) /\ Accepts(tb)
  <1> SUFFICES Good
    BY <1>1 DEF OnceInv
  <1>2. CASE \/ UNCHANGED vars \/ WriterChecks \/ Signal \/ Join \/ ClosePool \/ Leave
             \/ \E fails \in BOOLEAN : FlushProducer(fails) \/ CloseProducer(fails)
    <2>1. UNCHANGED <<position, consumer, inputQueue, msg, at, tableVars, crashes>>
      BY <1>2 DEF vars, WriterChecks, Signal, Join, ClosePool, Leave, FlushProducer, CloseProducer,
                  kafkaVars, queueVars, workerVars
    <2>2. \A tb \in Table, i \in Offset : Ahead(tb, i)' => Ahead(tb, i)
      BY <2>1, AheadKept
    <2>3. OnePlace' /\ RowsOK'
      BY <2>1, <2>2, PlaceKept, RowsStay DEF OnceInv
    <2>. QED BY <2>1, <2>3, NothingMoved DEF tableVars
  <1>3. CASE ConsumerStep \/ ConsumerEnds(TRUE)
    <2>1. UNCHANGED tableVars
      BY <1>3 DEF ConsumerStep, Poll, Put, ConsumerEnds
    <2>. QED BY <1>3, <2>1, ConsumerOnce, NothingMoved DEF tableVars
  <1>4. ASSUME NEW t \in Thread, CallStep(t) PROVE Good
    <2>1. /\ OnePlace' /\ RowsOK' /\ \A tb \in Table : Repeats(tb)
          /\ \A tb \in Table : pending'[tb] \subseteq pending[tb]
      BY <1>4, CallOnce DEF Repeats
    <2>2. \A tb \in Table : Accepts(tb)
      BY <2>1 DEF Accepts
    <2>. QED BY <2>1, <2>2
  <1>5. ASSUME NEW w \in Workers, WriteReading(w) \/ WriteFeatures(w) PROVE Good
    <2>1. OnePlace' /\ RowsOK' /\ \A tb \in Table : Accepts(tb)
      BY <1>5, WriteOnce DEF Accepts
    <2>2. stored' = stored
      BY <1>5 DEF WriteReading, WriteFeatures, AppendRow
    <2>3. \A tb \in Table : \A i \in here[tb] : stored[tb][i] \in Nat
      BY DEF OnceInv, ProcessorInv, TypeInv, TypeOK
    <2>4. \A tb \in Table : Repeats(tb)
      BY <2>2, <2>3 DEF Repeats
    <2>. QED BY <2>1, <2>4
  <1>6. ASSUME NEW w \in Workers, WorkerStep(w) PROVE Good
    <2>1. CASE CallStep(w) \/ WriteReading(w) \/ WriteFeatures(w)
      BY <1>4, <1>5, <2>1, WorkersAreThreads
    <2>2. CASE ~(CallStep(w) \/ WriteReading(w) \/ WriteFeatures(w))
      <3>1. OnePlace' /\ RowsOK' /\ UNCHANGED tableVars
        BY <1>6, <2>2, WorkerOnce DEF WorkerStep
      <3>. QED BY <3>1, NothingMoved DEF tableVars
    <2>. QED BY <2>1, <2>2
  <1>7. CASE WriterFlushes \/ FinalFlush \/ CloseWriter \/ SecondSignal
    BY <1>7, FlushOnce, NothingMoved
  <1>8. CASE Restart
    BY <1>8, RestartOnce, NothingMoved
  <1>. HIDE DEF Good
  <1>. QED
    BY <1>2, <1>3, <1>4, <1>6, <1>7, <1>8, WorkersAreThreads DEF Next, WriterStep, MainStep

(* Within a process a row is stored once more only by a flush that         *)
(* overlaps another of its list, or after a flush that stored it but never *)
(* came to clear it: nothing else in the workers, the queue or the         *)
(* shutdown repeats a row.                                                 *)
THEOREM StoredAgainAlwaysUncleared == Spec => StoredAgainOnlyUncleared
  <1>1. OnceInv /\ [Next]_vars =>
          [\A tb \in Table : \A i \in here[tb] :
              stored'[tb][i] > stored[tb][i] => i \in uncleared[tb] \/ Clearing(tb)]_vars
    BY OnceStep DEF Repeats
  <1>2. OnceInv /\ [Next]_vars => OnceInv'
    BY OnceStep
  <1>. QED BY <1>1, <1>2, InitOnce, PTL DEF Spec, StoredAgainOnlyUncleared

-------------------------------------------------------------------------------
(* The processor as a caller of the batch writer.  BatchStore promises     *)
(* each row once to a caller that hands no row over twice; the workers are *)
(* such a caller until the first restart brings messages back.             *)

Store(tb) == INSTANCE BatchStore WITH Row <- Offset, pending <- pending[tb], stored <- stored[tb]

(* A row joins a list only if this process neither stored it nor had it    *)
(* dropped, whichever worker has it and however the flushes fail; before   *)
(* the first restart that is an Accept of BatchStore, on which what        *)
(* TimescaleWriter promises its callers rests.                             *)
THEOREM CallsAsStoreExpects ==
    Spec => /\ \A tb \in Table : Store(tb)!Init
            /\ [][\A tb \in Table : \A i \in pending'[tb] \ pending[tb] :
                      /\ i \notin here[tb] /\ i \notin late[tb]
                      /\ crashes = 0 => Store(tb)!Accept(i)]_vars
  <1>1. Init => \A tb \in Table : Store(tb)!Init
    BY DEF Init, None, Store!Init
  <1>2. ASSUME OnceInv, [Next]_vars, NEW tb \in Table, NEW i \in pending'[tb] \ pending[tb]
        PROVE  /\ i \notin here[tb] /\ i \notin late[tb]
               /\ crashes = 0 => Store(tb)!Accept(i)
    <2>1. Accepts(tb)
      BY <1>2, OnceStep
    <2>2. /\ i \in Offset /\ i \notin here[tb] /\ i \notin late[tb] /\ i \notin pending[tb]
          /\ pending'[tb] = pending[tb] \cup {i} /\ stored' = stored
      BY <1>2, <2>1 DEF Accepts
    <2>3. crashes = 0 => stored[tb][i] = 0
      BY <1>2, <2>2 DEF OnceInv, RowsOK
    <2>. QED BY <2>2, <2>3 DEF Store!Accept
  <1>3. OnceInv /\ [Next]_vars =>
          [\A tb \in Table : \A i \in pending'[tb] \ pending[tb] :
              /\ i \notin here[tb] /\ i \notin late[tb]
              /\ crashes = 0 => Store(tb)!Accept(i)]_vars
    BY <1>2
  <1>4. OnceInv /\ [Next]_vars => OnceInv'
    BY OnceStep
  <1>. QED BY <1>1, <1>3, <1>4, InitOnce, PTL DEF Spec
===============================================================================
