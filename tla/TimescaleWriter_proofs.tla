------------------------- MODULE TimescaleWriter_proofs -------------------------
(***************************************************************************)
(* Proofs about TimescaleWriter for every set of threads, batch size, pool *)
(* size and number of rows and failures.                                   *)
(***************************************************************************)
EXTENDS TimescaleWriter, TLAPS, SequenceTheorems, FiniteSetTheorems

Step(t) ==
    \/ t \in Workers /\ \E tb \in Table : WriteRow(t, tb)
    \/ t \in Flushers /\ (FlushAll(t) \/ Close(t))
    \/ Continue(t)

LEMMA NextIsStep == ASSUME Next PROVE \E t \in Thread : Step(t)
  BY DEF Next, Step, Thread

(* Head and Tail of a non-empty sequence, as NextFlush and Rollback use them. *)
LEMMA HeadTail ==
    ASSUME NEW S, NEW s \in Seq(S), s # <<>>
    PROVE  /\ Head(s) \in S
           /\ Tail(s) \in Seq(S)
           /\ Len(s) = 1 <=> Tail(s) = <<>>
           /\ <<Head(s)>> \in Seq(S)
           /\ <<Head(s)>> # <<>>
           /\ Head(<<Head(s)>>) = Head(s)
  <1>1. /\ Head(s) \in S
        /\ Tail(s) \in Seq(S)
        /\ Len(Tail(s)) = Len(s) - 1
    BY HeadTailProperties
  <1>2. Len(s) \in Nat \ {0}
    BY EmptySeq
  <1>3. Len(s) = 1 <=> Tail(s) = <<>>
    <2>1. Tail(s) # <<>> => Len(Tail(s)) \in Nat \ {0}
      BY <1>1, EmptySeq
    <2>2. Len(<<>>) = 0
      OBVIOUS
    <2>. QED BY <1>1, <1>2, <2>1, <2>2
  <1>4. <<Head(s)>> \in Seq(S) /\ <<Head(s)>> # <<>>
    BY <1>1
  <1>5. \A h : Head(<<h>>) = h
    OBVIOUS
  <1>. QED
    BY <1>1, <1>3, <1>4, <1>5

-------------------------------------------------------------------------------
(* A call's remaining flushes fit the thread's place. *)
CallOK ==
    \A t \in Thread :
        /\ pc[t] = "idle" <=> todo[t] = <<>>
        /\ pc[t] \notin {"idle", "test"} => Current(t) \in Table

TypeInv == TypeOK /\ CallOK

Place == {"idle", "room", "test", "connect", "insert", "commit", "clear",
          "rollback", "release"}

LEMMA InitType == Init => TypeInv
  BY WriterAssumption DEF Init, TypeInv, TypeOK, CallOK, Table, Row

LEMMA NextFlushType ==
    ASSUME TypeInv, NEW t \in Thread, pc[t] # "idle", NextFlush(t)
    PROVE  /\ pc' \in [Thread -> Place]
           /\ todo' \in [Thread -> Seq(Table \cup {"closeall"})]
           /\ cursor' \in [Thread -> Nat]
           /\ txn' \in [Thread -> SUBSET Row]
           /\ seen' \in [Thread -> 0 .. MaxRows]
           /\ CallOK'
  <1>1. /\ todo[t] \in Seq(Table \cup {"closeall"})
        /\ todo[t] # <<>>
    BY DEF TypeInv, TypeOK, CallOK
  <1>2. /\ Tail(todo[t]) \in Seq(Table \cup {"closeall"})
        /\ Len(todo[t]) = 1 <=> Tail(todo[t]) = <<>>
    BY <1>1, HeadTail
  <1>3. /\ todo' = [todo EXCEPT ![t] = Tail(todo[t])]
        /\ pc' = [pc EXCEPT ![t] = IF Len(todo[t]) = 1 THEN "idle" ELSE "test"]
    BY DEF NextFlush, Goto
  <1>4. /\ cursor' \in [Thread -> Nat]
        /\ txn' \in [Thread -> SUBSET Row]
        /\ seen' \in [Thread -> 0 .. MaxRows]
    BY WriterAssumption DEF NextFlush, TypeInv, TypeOK
  <1>5. /\ pc' \in [Thread -> Place]
        /\ todo' \in [Thread -> Seq(Table \cup {"closeall"})]
    BY <1>2, <1>3 DEF TypeInv, TypeOK, Place
  <1>6. CallOK'
    <2> SUFFICES ASSUME NEW u \in Thread
                 PROVE  /\ pc'[u] = "idle" <=> todo'[u] = <<>>
                        /\ pc'[u] \notin {"idle", "test"} => Head(todo'[u]) \in Table
      BY DEF CallOK, Current
    <2>1. CASE u = t
      BY <2>1, <1>2, <1>3 DEF TypeInv, TypeOK
    <2>2. CASE u # t
      BY <2>2, <1>3 DEF TypeInv, TypeOK, CallOK, Current
    <2>. QED BY <2>1, <2>2
  <1>. QED BY <1>4, <1>5, <1>6

(* What one thread's move of pc and todo must satisfy to keep CallOK. *)
LEMMA CallOKKept ==
    ASSUME TypeInv, NEW t \in Thread,
           NEW where \in Place, NEW rest \in Seq(Table \cup {"closeall"}),
           pc' = [pc EXCEPT ![t] = where],
           todo' = [todo EXCEPT ![t] = rest],
           where = "idle" <=> rest = <<>>,
           where \notin {"idle", "test"} => Head(rest) \in Table
    PROVE  /\ pc' \in [Thread -> Place]
           /\ todo' \in [Thread -> Seq(Table \cup {"closeall"})]
           /\ CallOK'
  <1>1. pc' \in [Thread -> Place] /\ todo' \in [Thread -> Seq(Table \cup {"closeall"})]
    BY DEF TypeInv, TypeOK, Place
  <1>2. ASSUME NEW u \in Thread
        PROVE  /\ pc'[u] = "idle" <=> todo'[u] = <<>>
               /\ pc'[u] \notin {"idle", "test"} => Head(todo'[u]) \in Table
    <2>1. CASE u = t
      BY <2>1 DEF TypeInv, TypeOK
    <2>2. CASE u # t
      BY <2>2 DEF TypeInv, TypeOK, CallOK, Current
    <2>. QED BY <2>1, <2>2
  <1>. QED BY <1>1, <1>2 DEF CallOK, Current

LEMMA TodoFacts ==
    ASSUME TypeInv, NEW t \in Thread, pc[t] # "idle"
    PROVE  /\ todo[t] \in Seq(Table \cup {"closeall"})
           /\ todo[t] # <<>>
           /\ todo = [todo EXCEPT ![t] = todo[t]]
           /\ pc[t] # "test" => Current(t) \in Table
           /\ <<Head(todo[t])>> \in Seq(Table \cup {"closeall"})
           /\ <<Head(todo[t])>> # <<>>
           /\ Head(<<Head(todo[t])>>) = Current(t)
  <1>1. /\ todo[t] \in Seq(Table \cup {"closeall"})
        /\ todo[t] # <<>>
        /\ todo = [todo EXCEPT ![t] = todo[t]]
        /\ pc[t] # "test" => Current(t) \in Table
    BY DEF TypeInv, TypeOK, CallOK
  <1>2. /\ <<Head(todo[t])>> \in Seq(Table \cup {"closeall"})
        /\ <<Head(todo[t])>> # <<>>
        /\ Head(<<Head(todo[t])>>) = Current(t)
    BY <1>1, HeadTail DEF Current
  <1>. QED BY <1>1, <1>2

LEMMA WriteRowType ==
    ASSUME TypeInv, NEW t \in Thread, NEW tb \in Table, WriteRow(t, tb)
    PROVE  TypeInv'
  <1>1. pc' \in [Thread -> Place] /\ todo' \in [Thread -> Seq(Table \cup {"closeall"})] /\ CallOK'
    <2>1. /\ <<tb>> \in Seq(Table \cup {"closeall"}) /\ <<tb>> # <<>> /\ Head(<<tb>>) \in Table
          /\ "room" \in Place
      BY DEF Place
    <2>. QED BY <2>1, CallOKKept DEF WriteRow, Goto
  <1>2. /\ written[tb] + 1 \in Row
        /\ written[tb] + 1 \in 0 .. MaxRows
    <2>1. /\ written["sensor_readings"] \in Nat
          /\ written["engineered_features"] \in Nat
          /\ tb \in {"sensor_readings", "engineered_features"}
      BY WriterAssumption DEF TypeInv, TypeOK, Table
    <2>2. /\ written["sensor_readings"] + written["engineered_features"] < MaxRows
          /\ MaxRows \in Nat
      BY WriterAssumption DEF WriteRow
    <2>. QED BY <2>1, <2>2 DEF Row
  <1>3. buffer' \in [Table -> Seq(Row)]
    BY <1>2 DEF WriteRow, TypeInv, TypeOK
  <1>4. written' \in [Table -> 0 .. MaxRows]
    BY <1>2 DEF WriteRow, TypeInv, TypeOK
  <1>5. disturbed' \in SUBSET Table
    BY DEF WriteRow, Disturb, TypeInv, TypeOK
  <1>. QED
    BY <1>1, <1>3, <1>4, <1>5
    DEF WriteRow, TypeInv, TypeOK, poolVars, Place

LEMMA EnterType ==
    ASSUME TypeInv, NEW t \in Thread, FlushAll(t) \/ Close(t)
    PROVE  TypeInv'
  <1>1. /\ FlushOrder \in Seq(Table \cup {"closeall"}) /\ FlushOrder # <<>>
        /\ Append(FlushOrder, "closeall") \in Seq(Table \cup {"closeall"})
        /\ Append(FlushOrder, "closeall") # <<>>
        /\ "test" \in Place
    BY DEF FlushOrder, Table, Place
  <1>2. pc' \in [Thread -> Place] /\ todo' \in [Thread -> Seq(Table \cup {"closeall"})] /\ CallOK'
    BY <1>1, CallOKKept DEF FlushAll, Close, Goto
  <1>. QED
    BY <1>2 DEF FlushAll, Close, TypeInv, TypeOK, tableVars, poolVars, Place

LEMMA TestRoomType ==
    ASSUME TypeInv, NEW t \in Thread, TestRoom(t)
    PROVE  TypeInv'
  <1>1. pc' \in [Thread -> Place] /\ todo' \in [Thread -> Seq(Table \cup {"closeall"})] /\ CallOK'
    <2>1. CASE Len(buffer[Current(t)]) >= BatchSize
      <3>1. /\ pc' = [pc EXCEPT ![t] = "test"]
            /\ todo' = [todo EXCEPT ![t] = todo[t]]
        BY <2>1, TodoFacts DEF TestRoom, Goto
      <3>. QED
        BY <3>1, TodoFacts, CallOKKept DEF TestRoom, Place
    <2>2. CASE ~ Len(buffer[Current(t)]) >= BatchSize
      <3>1. /\ pc' = [pc EXCEPT ![t] = "idle"]
            /\ todo' = [todo EXCEPT ![t] = <<>>]
            /\ <<>> \in Seq(Table \cup {"closeall"})
        BY <2>2 DEF TestRoom, Goto
      <3>. QED
        BY <3>1, CallOKKept DEF Place
    <2>. QED BY <2>1, <2>2
  <1>. QED
    BY <1>1 DEF TestRoom, TypeInv, TypeOK, tableVars, poolVars, Place

(* A step of t that moves only pc, and not to "idle", keeps CallOK. *)
LEMMA MoveType ==
    ASSUME TypeInv, NEW t \in Thread, pc[t] # "idle", NEW where \in Place \ {"idle"},
           where = "test" \/ Current(t) \in Table,
           pc' = [pc EXCEPT ![t] = where], UNCHANGED todo
    PROVE  /\ pc' \in [Thread -> Place]
           /\ todo' \in [Thread -> Seq(Table \cup {"closeall"})]
           /\ CallOK'
  <1>1. todo' = [todo EXCEPT ![t] = todo[t]]
    BY TodoFacts
  <1>. QED
    BY <1>1, TodoFacts, CallOKKept DEF Current

LEMMA TestEmptyType ==
    ASSUME TypeInv, NEW t \in Thread, TestEmpty(t)
    PROVE  TypeInv'
  <1>1. CASE buffer[Current(t)] = <<>>
    BY <1>1, NextFlushType DEF TestEmpty, TypeInv, TypeOK, tableVars, poolVars, Place
  <1>2. CASE buffer[Current(t)] # <<>>
    <2>1. /\ pc' \in [Thread -> Place]
          /\ todo' \in [Thread -> Seq(Table \cup {"closeall"})]
          /\ CallOK'
      BY <1>2, MoveType DEF TestEmpty, Goto, Place
    <2>2. seen' \in [Thread -> 0 .. MaxRows]
      BY <1>2 DEF TestEmpty, TypeInv, TypeOK
    <2>3. disturbed' \in SUBSET Table
      BY <1>2 DEF TestEmpty, Disturb, TypeInv, TypeOK
    <2>. QED
      BY <1>2, <2>1, <2>2, <2>3 DEF TestEmpty, TypeInv, TypeOK, tableVars, poolVars, Place
  <1>. QED BY <1>1, <1>2

LEMMA ConnectType ==
    ASSUME TypeInv, NEW t \in Thread, Connect(t)
    PROVE  TypeInv'
  <1>1. CASE poolOpen /\ free > 0
    <2>1. /\ pc' \in [Thread -> Place]
          /\ todo' \in [Thread -> Seq(Table \cup {"closeall"})]
          /\ CallOK'
      BY <1>1, MoveType, TodoFacts DEF Connect, Goto, Place
    <2>2. free' \in 0 .. MaxConn
      BY <1>1, WriterAssumption DEF Connect, TypeInv, TypeOK
    <2>. QED
      BY <1>1, <2>1, <2>2 DEF Connect, TypeInv, TypeOK, tableVars, Place
  <1>2. CASE ~(poolOpen /\ free > 0)
    BY <1>2, NextFlushType DEF Connect, TypeInv, TypeOK, tableVars, Place
  <1>. QED BY <1>1, <1>2

(* A page lies within the list and has at most BatchSize rows. *)
LEMMA PageFacts ==
    ASSUME TypeInv, NEW t \in Thread, pc[t] = "insert"
    PROVE  /\ PageSize(t) \in 0 .. BatchSize
           /\ Len(buffer[Current(t)]) \in Nat
           /\ cursor[t] \in Nat
           /\ PageSize(t) # BatchSize =>
                  cursor[t] + PageSize(t) >= Len(buffer[Current(t)])
           /\ PageSize(t) > 0 => cursor[t] + PageSize(t) <= Len(buffer[Current(t)])
           /\ Page(t) \in SUBSET Row
  <1>1. /\ buffer[Current(t)] \in Seq(Row)
        /\ Len(buffer[Current(t)]) \in Nat
        /\ cursor[t] \in Nat
    <2>1. Current(t) \in Table
      BY TodoFacts
    <2>2. buffer[Current(t)] \in Seq(Row) /\ cursor[t] \in Nat
      BY <2>1 DEF TypeInv, TypeOK
    <2>. QED BY <2>2, LenProperties
  <1>2. /\ PageSize(t) \in 0 .. BatchSize
        /\ PageSize(t) # BatchSize =>
               cursor[t] + PageSize(t) >= Len(buffer[Current(t)])
        /\ PageSize(t) > 0 => cursor[t] + PageSize(t) <= Len(buffer[Current(t)])
    BY <1>1, WriterAssumption DEF PageSize
  <1>3. \A i \in cursor[t] + 1 .. cursor[t] + PageSize(t) : i \in 1 .. Len(buffer[Current(t)])
    BY <1>1, <1>2
  <1>4. Page(t) \in SUBSET Row
    BY <1>1, <1>3 DEF Page
  <1>. QED BY <1>1, <1>2, <1>4

LEMMA InsertPageType ==
    ASSUME TypeInv, NEW t \in Thread, InsertPage(t)
    PROVE  TypeInv'
  <1>1. /\ pc' \in [Thread -> Place]
        /\ todo' \in [Thread -> Seq(Table \cup {"closeall"})]
        /\ CallOK'
    BY MoveType, TodoFacts DEF InsertPage, Goto, Place
  <1>2. /\ cursor' \in [Thread -> Nat]
        /\ txn' \in [Thread -> SUBSET Row]
    BY PageFacts DEF InsertPage, TypeInv, TypeOK
  <1>. QED
    BY <1>1, <1>2 DEF InsertPage, TypeInv, TypeOK, tableVars, poolVars, Place

(* Committing a transaction only adds copies to one table. *)
LEMMA CommittedType ==
    ASSUME TypeInv, NEW t \in Thread, pc[t] = "commit"
    PROVE  Committed(t) \in [Table -> [Row -> Nat]]
  <1>1. Current(t) \in Table
    BY TodoFacts
  <1>2. [r \in Row |-> IF r \in txn[t] THEN db[Current(t)][r] + 1 ELSE db[Current(t)][r]]
            \in [Row -> Nat]
    BY <1>1 DEF TypeInv, TypeOK
  <1>. QED
    BY <1>2 DEF Committed, TypeInv, TypeOK

LEMMA CommitType ==
    ASSUME TypeInv, NEW t \in Thread, Commit(t)
    PROVE  TypeInv'
  <1>1. /\ pc' \in [Thread -> Place]
        /\ todo' \in [Thread -> Seq(Table \cup {"closeall"})]
        /\ CallOK'
    BY MoveType, TodoFacts DEF Commit, Goto, Place
  <1>. QED
    BY <1>1, CommittedType DEF Commit, TypeInv, TypeOK, poolVars, Place

LEMMA ClearType ==
    ASSUME TypeInv, NEW t \in Thread, Clear(t)
    PROVE  TypeInv'
  <1>1. /\ pc' \in [Thread -> Place]
        /\ todo' \in [Thread -> Seq(Table \cup {"closeall"})]
        /\ CallOK'
    BY MoveType, TodoFacts DEF Clear, Goto, Place
  <1>2. buffer' \in [Table -> Seq(Row)]
    <2>1. <<>> \in Seq(Row)
      OBVIOUS
    <2>. QED BY <2>1 DEF Clear, TypeInv, TypeOK
  <1>. QED
    BY <1>1, <1>2 DEF Clear, TypeInv, TypeOK, poolVars, Place

LEMMA DatabaseFailsType ==
    ASSUME TypeInv, NEW t \in Thread, NEW applied \in BOOLEAN, DatabaseFails(t, applied)
    PROVE  TypeInv'
  <1>1. /\ pc' \in [Thread -> Place]
        /\ todo' \in [Thread -> Seq(Table \cup {"closeall"})]
        /\ CallOK'
    BY MoveType, TodoFacts DEF DatabaseFails, Goto, Place
  <1>2. /\ db' \in [Table -> [Row -> Nat]]
        /\ disturbed' \in SUBSET Table
        /\ faults' \in Nat
    <2>1. applied => pc[t] = "commit"
      BY DEF DatabaseFails
    <2>2. applied => Committed(t) \in [Table -> [Row -> Nat]]
      BY <2>1, CommittedType
    <2>3. Current(t) \in Table
      BY TodoFacts DEF DatabaseFails
    <2>. QED BY <2>2, <2>3 DEF DatabaseFails, TypeInv, TypeOK
  <1>. QED
    BY <1>1, <1>2 DEF DatabaseFails, TypeInv, TypeOK, poolVars, Place

LEMMA RollbackType ==
    ASSUME TypeInv, NEW t \in Thread, NEW raises \in BOOLEAN, Rollback(t, raises)
    PROVE  TypeInv'
  <1>1. /\ pc' \in [Thread -> Place]
        /\ todo' \in [Thread -> Seq(Table \cup {"closeall"})]
        /\ CallOK'
    <2>1. CASE raises
      <3>1. todo' = [todo EXCEPT ![t] = <<Head(todo[t])>>]
        BY <2>1 DEF Rollback
      <3>2. /\ pc[t] = "rollback"
            /\ pc' = [pc EXCEPT ![t] = "release"]
            /\ "release" \in Place
        BY DEF Rollback, Goto, Place
      <3>3. /\ <<Head(todo[t])>> \in Seq(Table \cup {"closeall"})
            /\ <<Head(todo[t])>> # <<>>
            /\ Head(<<Head(todo[t])>>) \in Table
        BY <3>2, TodoFacts
      <3>. QED
        BY <3>1, <3>2, <3>3, CallOKKept
    <2>2. CASE ~raises
      BY <2>2, MoveType, TodoFacts DEF Rollback, Goto, Place
    <2>. QED BY <2>1, <2>2
  <1>. QED
    BY <1>1 DEF Rollback, TypeInv, TypeOK, tableVars, poolVars, Place

LEMMA CloseAllType ==
    ASSUME TypeInv, NEW t \in Thread, CloseAll(t)
    PROVE  TypeInv'
  BY NextFlushType DEF CloseAll, TypeInv, TypeOK, tableVars, Place

-------------------------------------------------------------------------------
(* Connections.  That the pool never holds more than MaxConn of them is    *)
(* itself a consequence of the accounting, so types and accounting are     *)
(* shown together.                                                         *)

HolderPlace == {"insert", "commit", "clear", "rollback", "release"}

LEMMA HoldersFinite ==
    ASSUME TypeInv
    PROVE  /\ IsFiniteSet(Holders)
           /\ Cardinality(Holders) \in Nat
           /\ \A t \in Holders : Cardinality(Holders \ {t}) = Cardinality(Holders) - 1
           /\ \A t \in Holders : Cardinality(Holders) >= 1
           /\ \A t \in Thread \ Holders : Cardinality(Holders \cup {t}) = Cardinality(Holders) + 1
  <1>1. IsFiniteSet(Thread)
    BY WriterAssumption, FS_Union DEF Thread
  <1>2. Holders \subseteq Thread
    BY DEF Holders
  <1>3. IsFiniteSet(Holders)
    BY <1>1, <1>2, FS_Subset
  <1>4. Cardinality(Holders) \in Nat
    BY <1>3, FS_CardinalityType
  <1>5. ASSUME NEW t \in Holders
        PROVE  Cardinality(Holders \ {t}) = Cardinality(Holders) - 1 /\ Cardinality(Holders) >= 1
    <2>1. Cardinality(Holders \ {t}) = Cardinality(Holders) - 1
      BY <1>3, FS_RemoveElement
    <2>2. Cardinality(Holders \ {t}) \in Nat
      BY <1>3, FS_Subset, FS_CardinalityType
    <2>. QED BY <1>4, <2>1, <2>2
  <1>6. \A t \in Thread \ Holders : Cardinality(Holders \cup {t}) = Cardinality(Holders) + 1
    BY <1>3, FS_AddElement
  <1>. QED BY <1>3, <1>4, <1>5, <1>6

LEMMA ReleaseType ==
    ASSUME TypeInv, PoolAccounting, NEW t \in Thread, Release(t)
    PROVE  TypeInv'
  <1>1. free' \in 0 .. MaxConn
    <2>1. CASE poolOpen
      <3>1. t \in Holders
        BY DEF Release, Holders
      <3>2. free + Cardinality(Holders) = MaxConn
        BY <2>1 DEF PoolAccounting
      <3>3. free' = free + 1 /\ free \in Nat
        BY <2>1 DEF Release, TypeInv, TypeOK
      <3>. QED BY <3>1, <3>2, <3>3, HoldersFinite, WriterAssumption
    <2>2. CASE ~poolOpen
      BY <2>2 DEF Release, TypeInv, TypeOK
    <2>. QED BY <2>1, <2>2
  <1>. QED
    BY <1>1, NextFlushType DEF Release, TypeInv, TypeOK, tableVars, Place

(* A step that takes one thread into or out of no connection leaves the set *)
(* of holders as it is.                                                     *)
LEMMA HoldersKept ==
    ASSUME TypeInv, NEW t \in Thread, NEW where,
           pc' = [pc EXCEPT ![t] = where],
           where \in HolderPlace <=> pc[t] \in HolderPlace
    PROVE  Holders' = Holders
  BY DEF Holders, HolderPlace, TypeInv, TypeOK

(* Every step but Connect, Release and CloseAll leaves the accounting alone. *)
LEMMA PoolKept ==
    ASSUME TypeInv, PoolAccounting, NEW t \in Thread, NEW where,
           pc' = [pc EXCEPT ![t] = where],
           where \in HolderPlace <=> pc[t] \in HolderPlace,
           UNCHANGED poolVars
    PROVE  PoolAccounting'
  BY HoldersKept DEF PoolAccounting, poolVars

LEMMA NextFlushHolders ==
    ASSUME TypeInv, NEW t \in Thread, NextFlush(t)
    PROVE  Holders' = Holders \ {t}
  BY DEF NextFlush, Goto, Holders, TypeInv, TypeOK

LEMMA ConnectPool ==
    ASSUME TypeInv, PoolAccounting, NEW t \in Thread, Connect(t)
    PROVE  PoolAccounting'
  <1>1. t \notin Holders
    BY DEF Connect, Holders
  <1>2. CASE poolOpen /\ free > 0
    <2>1. Holders' = Holders \cup {t}
      BY <1>2 DEF Connect, Goto, Holders, TypeInv, TypeOK
    <2>2. free' = free - 1 /\ free \in Nat /\ MaxConn \in Nat
      BY <1>2, WriterAssumption DEF Connect, TypeInv, TypeOK
    <2>. QED
      BY <1>1, <1>2, <2>1, <2>2, HoldersFinite DEF PoolAccounting, Connect
  <1>3. CASE ~(poolOpen /\ free > 0)
    BY <1>1, <1>3, NextFlushHolders DEF Connect, PoolAccounting
  <1>. QED BY <1>2, <1>3

LEMMA ReleasePool ==
    ASSUME TypeInv, PoolAccounting, NEW t \in Thread, Release(t)
    PROVE  PoolAccounting'
  <1>1. t \in Holders /\ Holders' = Holders \ {t}
    BY NextFlushHolders DEF Release, Holders
  <1>2. free \in Nat /\ MaxConn \in Nat
    BY WriterAssumption DEF TypeInv, TypeOK
  <1>. QED
    BY <1>1, <1>2, HoldersFinite DEF Release, PoolAccounting

SafeInv == TypeInv /\ PoolAccounting

LEMMA InitSafe == Init => SafeInv
  <1>1. ASSUME Init PROVE Holders = {}
    BY <1>1 DEF Init, Holders
  <1>2. Cardinality({}) = 0
    BY FS_EmptySet
  <1>3. ASSUME Init PROVE free + 0 = MaxConn
    BY <1>3, WriterAssumption DEF Init
  <1>. QED BY InitType, <1>1, <1>2, <1>3 DEF SafeInv, PoolAccounting

LEMMA SafeStep ==
    ASSUME SafeInv, [Next]_vars
    PROVE  SafeInv'
  <1>. USE DEF SafeInv
  <1>1. CASE UNCHANGED vars
    BY <1>1 DEF vars, tableVars, poolVars, threadVars, TypeInv, TypeOK, CallOK, Current,
                PoolAccounting, Holders
  <1>2. CASE Next
    <2>1. PICK t \in Thread : Step(t)
      BY <1>2, NextIsStep
    <2>2. CASE \E tb \in Table : WriteRow(t, tb)
      BY <2>2, WriteRowType, PoolKept DEF WriteRow, Goto, HolderPlace
    <2>3. CASE FlushAll(t) \/ Close(t)
      BY <2>3, EnterType, PoolKept DEF FlushAll, Close, Goto, HolderPlace
    <2>4. CASE TestRoom(t)
      BY <2>4, TestRoomType, PoolKept DEF TestRoom, Goto, HolderPlace
    <2>5. CASE TestEmpty(t)
      BY <2>5, TestEmptyType, PoolKept DEF TestEmpty, NextFlush, Goto, HolderPlace
    <2>6. CASE Connect(t)
      BY <2>6, ConnectType, ConnectPool
    <2>7. CASE InsertPage(t)
      BY <2>7, InsertPageType, PoolKept DEF InsertPage, Goto, HolderPlace
    <2>8. CASE Commit(t)
      BY <2>8, CommitType, PoolKept DEF Commit, Goto, HolderPlace
    <2>9. CASE Clear(t)
      BY <2>9, ClearType, PoolKept DEF Clear, Goto, HolderPlace
    <2>10. CASE \E applied \in BOOLEAN : DatabaseFails(t, applied)
      BY <2>10, DatabaseFailsType, PoolKept DEF DatabaseFails, Goto, HolderPlace
    <2>11. CASE \E raises \in BOOLEAN : Rollback(t, raises)
      BY <2>11, RollbackType, PoolKept DEF Rollback, Goto, HolderPlace
    <2>12. CASE Release(t)
      BY <2>12, ReleaseType, ReleasePool
    <2>13. CASE CloseAll(t)
      BY <2>13, CloseAllType DEF CloseAll, PoolAccounting
    <2>. QED
      BY <2>1, <2>2, <2>3, <2>4, <2>5, <2>6, <2>7, <2>8, <2>9, <2>10, <2>11, <2>12, <2>13
      DEF Step, Continue
  <1>. QED BY <1>1, <1>2

LEMMA AlwaysSafe == Spec => []SafeInv
  <1>. QED BY InitSafe, SafeStep, PTL DEF Spec

(* Every variable keeps its type, for any threads, batch and pool size. *)
THEOREM TypeCorrect == Spec => []TypeOK
  <1>1. SafeInv => TypeOK
    BY DEF SafeInv, TypeInv
  <1>. QED BY AlwaysSafe, <1>1, PTL

(* No path through a flush leaks a connection or returns one twice. *)
THEOREM PoolAccounted == Spec => []PoolAccounting
  <1>1. SafeInv => PoolAccounting
    BY DEF SafeInv
  <1>. QED BY AlwaysSafe, <1>1, PTL

-------------------------------------------------------------------------------
(* What a flush keeps: rows it found in the list when it tested it.  It    *)
(* has read those among them that its iterator has passed, it has inserted *)
(* all of them when it commits, and they are in the table when it clears.  *)

FlushPlace == {"connect", "insert", "commit", "clear"}

Reads(t) ==
    /\ pc[t] = "insert" =>
           \A i \in 1 .. Len(buffer[Current(t)]) :
               i <= cursor[t] /\ buffer[Current(t)][i] <= seen[t]
                   => buffer[Current(t)][i] \in txn[t]
    /\ pc[t] = "commit" =>
           \A i \in 1 .. Len(buffer[Current(t)]) :
               buffer[Current(t)][i] <= seen[t] => buffer[Current(t)][i] \in txn[t]
    /\ pc[t] = "clear" =>
           \A i \in 1 .. Len(buffer[Current(t)]) :
               buffer[Current(t)][i] <= seen[t] => db[Current(t)][buffer[Current(t)][i]] > 0

SeenAt(t) == pc[t] \in FlushPlace => seen[t] <= written[Current(t)] /\ Reads(t)

FreshAt(t) == pc[t] \notin HolderPlace => cursor[t] = 0 /\ txn[t] = {}

SeenInv == \A t \in Thread : SeenAt(t) /\ FreshAt(t)

(* What any step may do to a table: append new rows or clear the list, and add copies. *)
Grows ==
    \A tb \in Table :
        /\ written[tb] <= written'[tb]
        /\ \A r \in Row : db[tb][r] <= db'[tb][r]
        /\ \A i \in 1 .. Len(buffer'[tb]) :
               \/ i \in 1 .. Len(buffer[tb]) /\ buffer'[tb][i] = buffer[tb][i]
               \/ buffer'[tb][i] > written[tb]

Same(u) == /\ pc'[u] = pc[u] /\ todo'[u] = todo[u] /\ cursor'[u] = cursor[u]
           /\ txn'[u] = txn[u] /\ seen'[u] = seen[u]

LEMMA OthersSame ==
    ASSUME SafeInv, NEW t \in Thread, Step(t), NEW u \in Thread, u # t
    PROVE  Same(u)
  <1>. USE DEF SafeInv, TypeInv, TypeOK, Same, Goto
  <1>1. CASE \E tb \in Table : WriteRow(t, tb)
    BY <1>1 DEF WriteRow
  <1>2. CASE FlushAll(t) \/ Close(t)
    BY <1>2 DEF FlushAll, Close
  <1>3. CASE TestRoom(t)
    BY <1>3 DEF TestRoom
  <1>4. CASE TestEmpty(t)
    BY <1>4 DEF TestEmpty, NextFlush
  <1>5. CASE Connect(t)
    BY <1>5 DEF Connect, NextFlush
  <1>6. CASE InsertPage(t)
    BY <1>6 DEF InsertPage
  <1>7. CASE Commit(t)
    BY <1>7 DEF Commit
  <1>8. CASE Clear(t)
    BY <1>8 DEF Clear
  <1>9. CASE \E applied \in BOOLEAN : DatabaseFails(t, applied)
    BY <1>9 DEF DatabaseFails
  <1>10. CASE \E raises \in BOOLEAN : Rollback(t, raises)
    BY <1>10 DEF Rollback
  <1>11. CASE Release(t)
    BY <1>11 DEF Release, NextFlush
  <1>12. CASE CloseAll(t)
    BY <1>12 DEF CloseAll, NextFlush
  <1>. QED
    BY <1>1, <1>2, <1>3, <1>4, <1>5, <1>6, <1>7, <1>8, <1>9, <1>10, <1>11, <1>12
    DEF Step, Continue

LEMMA UnchangedGrows ==
    ASSUME SafeInv, UNCHANGED tableVars
    PROVE  Grows
  <1>1. \A tb \in Table : written[tb] \in Int /\ \A r \in Row : db[tb][r] \in Int
    BY WriterAssumption DEF SafeInv, TypeInv, TypeOK
  <1>. QED BY <1>1 DEF Grows, tableVars

LEMMA CommittedGrows ==
    ASSUME SafeInv, NEW t \in Thread, pc[t] = "commit",
           db' = Committed(t), UNCHANGED <<buffer, written>>
    PROVE  Grows
  <1>1. \A tb \in Table : written[tb] \in Int /\ \A r \in Row : db[tb][r] \in Int
    BY WriterAssumption DEF SafeInv, TypeInv, TypeOK
  <1>2. \A tb \in Table, r \in Row : db[tb][r] <= db'[tb][r]
    BY <1>1 DEF Committed, SafeInv, TypeInv, TypeOK
  <1>. QED BY <1>1, <1>2 DEF Grows

LEMMA WriteRowGrows ==
    ASSUME SafeInv, NEW t \in Thread, NEW tb \in Table, WriteRow(t, tb)
    PROVE  Grows
  <1>1. \A x \in Table : /\ written[x] \in Int
                         /\ buffer[x] \in Seq(Row) /\ Len(buffer[x]) \in Nat
                         /\ \A r \in Row : db[x][r] \in Int
    BY WriterAssumption, LenProperties DEF SafeInv, TypeInv, TypeOK
  <1>2. /\ written' = [written EXCEPT ![tb] = written[tb] + 1]
        /\ buffer' = [buffer EXCEPT ![tb] = Append(buffer[tb], written[tb] + 1)]
        /\ db' = db
    BY DEF WriteRow
  <1>3. /\ Len(Append(buffer[tb], written[tb] + 1)) = Len(buffer[tb]) + 1
        /\ \A i \in 1 .. Len(buffer[tb]) :
               Append(buffer[tb], written[tb] + 1)[i] = buffer[tb][i]
        /\ Append(buffer[tb], written[tb] + 1)[Len(buffer[tb]) + 1] = written[tb] + 1
    BY <1>1
  <1>4. \A x \in Table : written[x] <= written'[x]
    BY <1>1, <1>2 DEF SafeInv, TypeInv, TypeOK
  <1>5. ASSUME NEW x \in Table, NEW i \in 1 .. Len(buffer'[x])
        PROVE  \/ i \in 1 .. Len(buffer[x]) /\ buffer'[x][i] = buffer[x][i]
               \/ buffer'[x][i] > written[x]
    <2>1. CASE x = tb
      <3>1. buffer'[x] = Append(buffer[tb], written[tb] + 1)
        BY <1>2, <2>1 DEF SafeInv, TypeInv, TypeOK
      <3>2. i \in 1 .. Len(buffer[tb]) \/ i = Len(buffer[tb]) + 1
        BY <3>1, <1>1, <1>3
      <3>. QED BY <3>1, <3>2, <1>1, <1>3, <2>1
    <2>2. CASE x # tb
      BY <1>2, <2>2 DEF SafeInv, TypeInv, TypeOK
    <2>. QED BY <2>1, <2>2
  <1>. QED BY <1>1, <1>2, <1>4, <1>5 DEF Grows

LEMMA ClearGrows ==
    ASSUME SafeInv, NEW t \in Thread, Clear(t)
    PROVE  Grows
  <1>1. \A x \in Table : written[x] \in Int /\ \A r \in Row : db[x][r] \in Int
    BY WriterAssumption DEF SafeInv, TypeInv, TypeOK
  <1>2. buffer' = [buffer EXCEPT ![Current(t)] = <<>>] /\ db' = db /\ written' = written
    BY DEF Clear
  <1>3. ASSUME NEW x \in Table, NEW i \in 1 .. Len(buffer'[x])
        PROVE  i \in 1 .. Len(buffer[x]) /\ buffer'[x][i] = buffer[x][i]
    <2>1. buffer'[x] = buffer[x] \/ buffer'[x] = <<>>
      BY <1>2 DEF SafeInv, TypeInv, TypeOK
    <2>2. Len(<<>>) = 0
      OBVIOUS
    <2>. QED BY <2>1, <2>2
  <1>. QED BY <1>1, <1>2, <1>3 DEF Grows

LEMMA AlwaysGrows ==
    ASSUME SafeInv, NEW t \in Thread, Step(t)
    PROVE  Grows
  <1>1. CASE \E tb \in Table : WriteRow(t, tb)
    BY <1>1, WriteRowGrows
  <1>2. CASE Commit(t)
    BY <1>2, CommittedGrows DEF Commit
  <1>3. CASE Clear(t)
    BY <1>3, ClearGrows
  <1>4. CASE \E applied \in BOOLEAN : DatabaseFails(t, applied)
    BY <1>4, CommittedGrows, UnchangedGrows DEF DatabaseFails, tableVars
  <1>5. CASE \/ FlushAll(t) \/ Close(t) \/ TestRoom(t) \/ TestEmpty(t) \/ Connect(t)
             \/ InsertPage(t) \/ (\E raises \in BOOLEAN : Rollback(t, raises))
             \/ Release(t) \/ CloseAll(t)
    <2>1. UNCHANGED tableVars
      BY <1>5 DEF FlushAll, Close, TestRoom, TestEmpty, Connect, InsertPage, Rollback,
                  Release, CloseAll, tableVars
    <2>. QED BY <2>1, UnchangedGrows
  <1>. QED
    BY <1>1, <1>2, <1>3, <1>4, <1>5 DEF Step, Continue

(* A thread that did not move keeps what it had read: the rows that joined *)
(* the list meanwhile are newer than those it saw.                         *)
LEMMA OtherKeepsSeen ==
    ASSUME SafeInv, Grows, NEW u \in Thread, Same(u), SeenAt(u), FreshAt(u),
           TypeInv'
    PROVE  SeenAt(u)' /\ FreshAt(u)'
  <1>1. FreshAt(u)'
    BY DEF FreshAt, Same
  <1>2. ASSUME pc[u] \in FlushPlace
        PROVE  seen'[u] <= written'[Current(u)] /\ Reads(u)'
    <2> DEFINE tb == Current(u)
    <2>1. /\ tb \in Table /\ pc[u] # "idle"
      BY <1>2, TodoFacts DEF SafeInv, FlushPlace
    <2>2. Current(u)' = tb
      BY DEF Current, Same
    <2>3. /\ written[tb] \in Int /\ written'[tb] \in Int
          /\ seen[u] \in Int /\ seen'[u] = seen[u]
          /\ seen[u] <= written[tb] /\ written[tb] <= written'[tb]
      BY <1>2, <2>1, WriterAssumption DEF SafeInv, TypeInv, TypeOK, SeenAt, Grows, Same
    <2>4. /\ buffer[tb] \in Seq(Row) /\ buffer'[tb] \in Seq(Row)
          /\ \A r \in Row : r \in Int /\ db[tb][r] \in Int /\ db'[tb][r] \in Int
      <3>1. buffer[tb] \in Seq(Row) /\ db[tb] \in [Row -> Nat]
        BY <2>1 DEF SafeInv, TypeInv, TypeOK
      <3>2. buffer'[tb] \in Seq(Row) /\ db'[tb] \in [Row -> Nat]
        BY <2>1 DEF TypeInv, TypeOK
      <3>3. \A r \in Row : r \in Int
        BY WriterAssumption DEF Row
      <3>4. \A r \in Row : db[tb][r] \in Int /\ db'[tb][r] \in Int
        BY <3>1, <3>2
      <3>. QED BY <3>1, <3>2, <3>3, <3>4
    <2>5. ASSUME NEW i \in 1 .. Len(buffer'[tb]), buffer'[tb][i] <= seen[u]
          PROVE  /\ i \in 1 .. Len(buffer[tb])
                 /\ buffer'[tb][i] = buffer[tb][i]
                 /\ buffer[tb][i] \in Row
      <3>1. buffer'[tb][i] \in Int
        BY <2>4
      <3>2. ~(buffer'[tb][i] > written[tb])
        BY <2>3, <2>5, <3>1
      <3>3. i \in 1 .. Len(buffer[tb]) /\ buffer'[tb][i] = buffer[tb][i]
        BY <2>1, <3>2 DEF Grows
      <3>. QED BY <3>3, <2>4
    <2>6. Reads(u)
      BY <1>2 DEF SeenAt
    <2>7. Reads(u)'
      <3>1. ASSUME pc[u] = "insert", NEW i \in 1 .. Len(buffer'[tb]),
                   i <= cursor[u], buffer'[tb][i] <= seen[u]
            PROVE  buffer'[tb][i] \in txn[u]
        BY <2>5, <2>6, <3>1 DEF Reads
      <3>2. ASSUME pc[u] = "commit", NEW i \in 1 .. Len(buffer'[tb]), buffer'[tb][i] <= seen[u]
            PROVE  buffer'[tb][i] \in txn[u]
        BY <2>5, <2>6, <3>2 DEF Reads
      <3>3. ASSUME pc[u] = "clear", NEW i \in 1 .. Len(buffer'[tb]), buffer'[tb][i] <= seen[u]
            PROVE  db'[tb][buffer'[tb][i]] > 0
        <4>1. db[tb][buffer[tb][i]] > 0
          BY <2>5, <2>6, <3>3 DEF Reads
        <4>2. db[tb][buffer[tb][i]] <= db'[tb][buffer[tb][i]]
          BY <2>1, <2>5, <3>3 DEF Grows
        <4>3. /\ buffer'[tb][i] = buffer[tb][i] /\ buffer[tb][i] \in Row
          BY <2>5, <3>3
        <4>4. db[tb][buffer[tb][i]] \in Int /\ db'[tb][buffer[tb][i]] \in Int
          BY <4>3, <2>4
        <4>. QED BY <4>1, <4>2, <4>3, <4>4
      <3>. QED
        BY <2>2, <3>1, <3>2, <3>3 DEF Reads, Same
    <2>. QED BY <2>2, <2>3, <2>7
  <1>3. SeenAt(u)'
    BY <1>2 DEF SeenAt, Same, Current
  <1>. QED BY <1>1, <1>3

LEMMA InsertPageSeen ==
    ASSUME SafeInv, NEW t \in Thread, SeenAt(t), InsertPage(t), TypeInv'
    PROVE  SeenAt(t)'
  <1> DEFINE tb == Current(t)
             list == buffer[tb]
  <1>1. /\ pc[t] = "insert" /\ pc[t] \in FlushPlace /\ tb \in Table
        /\ cursor[t] \in Nat /\ Len(list) \in Nat /\ PageSize(t) \in Nat
        /\ PageSize(t) # BatchSize => cursor[t] + PageSize(t) >= Len(list)
    <2>1. pc[t] = "insert" /\ pc[t] \in FlushPlace
      BY DEF InsertPage, FlushPlace
    <2>2. tb \in Table
      BY <2>1, TodoFacts DEF SafeInv
    <2>. QED BY <2>1, <2>2, PageFacts, WriterAssumption DEF SafeInv
  <1>2. /\ cursor'[t] = cursor[t] + PageSize(t)
        /\ txn'[t] = txn[t] \cup Page(t)
        /\ pc'[t] = IF PageSize(t) = BatchSize THEN "insert" ELSE "commit"
        /\ todo' = todo /\ buffer' = buffer /\ written' = written /\ seen' = seen /\ db' = db
    BY DEF InsertPage, Goto, tableVars, SafeInv, TypeInv, TypeOK
  <1>3. seen[t] <= written[tb] /\ Reads(t)
    BY <1>1 DEF SeenAt
  <1>4. ASSUME NEW i \in 1 .. Len(list), i <= cursor[t] + PageSize(t), list[i] <= seen[t]
        PROVE  list[i] \in txn'[t]
    <2>1. CASE i <= cursor[t]
      BY <1>1, <1>2, <1>3, <1>4, <2>1 DEF Reads
    <2>2. CASE ~ i <= cursor[t]
      <3>1. i \in cursor[t] + 1 .. cursor[t] + PageSize(t)
        BY <1>1, <1>4, <2>2
      <3>. QED BY <3>1, <1>2 DEF Page
    <2>. QED BY <2>1, <2>2
  <1>5. Reads(t)'
    <2>1. CASE PageSize(t) = BatchSize
      BY <1>2, <1>4, <2>1 DEF Reads, Current
    <2>2. CASE PageSize(t) # BatchSize
      <3>1. \A i \in 1 .. Len(list) : i <= cursor[t] + PageSize(t)
        BY <1>1, <2>2
      <3>. QED BY <3>1, <1>2, <1>4, <2>2 DEF Reads, Current
    <2>. QED BY <2>1, <2>2
  <1>. QED BY <1>2, <1>3, <1>5 DEF SeenAt, Current

LEMMA CommitSeen ==
    ASSUME SafeInv, NEW t \in Thread, SeenAt(t), Commit(t), TypeInv'
    PROVE  SeenAt(t)'
  <1> DEFINE tb == Current(t)
             list == buffer[tb]
  <1>1. /\ pc[t] = "commit" /\ pc[t] \in FlushPlace /\ tb \in Table
        /\ list \in Seq(Row) /\ db[tb] \in [Row -> Nat]
    <2>1. pc[t] = "commit" /\ pc[t] \in FlushPlace
      BY DEF Commit, FlushPlace
    <2>2. tb \in Table
      BY <2>1, TodoFacts DEF SafeInv
    <2>. QED BY <2>1, <2>2 DEF SafeInv, TypeInv, TypeOK
  <1>2. /\ pc'[t] = "clear"
        /\ todo' = todo /\ buffer' = buffer /\ written' = written /\ seen' = seen
        /\ db' = Committed(t)
    BY DEF Commit, Goto, SafeInv, TypeInv, TypeOK
  <1>3. seen[t] <= written[tb] /\ Reads(t)
    BY <1>1 DEF SeenAt
  <1>4. \A r \in Row : r \in txn[t] => db'[tb][r] = db[tb][r] + 1
    BY <1>1, <1>2 DEF Committed, SafeInv, TypeInv, TypeOK
  <1>5. ASSUME NEW i \in 1 .. Len(list), list[i] <= seen[t]
        PROVE  db'[tb][list[i]] > 0
    <2>1. list[i] \in txn[t] /\ list[i] \in Row
      BY <1>1, <1>3, <1>5 DEF Reads
    <2>2. db'[tb][list[i]] = db[tb][list[i]] + 1 /\ db[tb][list[i]] \in Nat
      BY <2>1, <1>1, <1>4
    <2>. QED BY <2>2
  <1>. QED BY <1>2, <1>3, <1>5 DEF SeenAt, Reads, Current

(* Every other step takes the thread to a place where it has read nothing. *)
LEMMA OwnStepSeen ==
    ASSUME SafeInv, NEW t \in Thread, SeenAt(t), FreshAt(t), Step(t), TypeInv'
    PROVE  SeenAt(t)' /\ FreshAt(t)'
  <1>. USE DEF SafeInv, TypeInv, TypeOK, Goto
  <1>1. CASE \E tb \in Table : WriteRow(t, tb)
    BY <1>1 DEF WriteRow, SeenAt, FreshAt, FlushPlace, HolderPlace
  <1>2. CASE FlushAll(t) \/ Close(t)
    BY <1>2 DEF FlushAll, Close, SeenAt, FreshAt, FlushPlace, HolderPlace
  <1>3. CASE TestRoom(t)
    BY <1>3 DEF TestRoom, SeenAt, FreshAt, FlushPlace, HolderPlace
  <1>4. CASE TestEmpty(t)
    <2>1. CASE buffer[Current(t)] = <<>>
      BY <1>4, <2>1 DEF TestEmpty, NextFlush, SeenAt, FreshAt, FlushPlace, HolderPlace
    <2>2. CASE buffer[Current(t)] # <<>>
      <3>1. /\ pc'[t] = "connect" /\ todo' = todo /\ written' = written
            /\ seen'[t] = written[Current(t)] /\ written[Current(t)] \in Int
            /\ cursor' = cursor /\ txn' = txn /\ pc[t] = "test"
        BY <1>4, <2>2, WriterAssumption DEF TestEmpty, tableVars
      <3>2. FreshAt(t)'
        BY <3>1 DEF FreshAt, HolderPlace
      <3>3. Reads(t)' /\ seen'[t] <= written'[Current(t)]
        BY <3>1 DEF Reads
      <3>. QED BY <3>1, <3>2, <3>3 DEF SeenAt, Current
    <2>. QED BY <2>1, <2>2
  <1>5. CASE Connect(t)
    <2>1. CASE poolOpen /\ free > 0
      <3>1. /\ pc'[t] = "insert" /\ todo' = todo /\ written' = written /\ seen' = seen
            /\ cursor' = cursor /\ txn' = txn /\ buffer' = buffer /\ pc[t] = "connect"
        BY <1>5, <2>1 DEF Connect, tableVars
      <3>2. cursor'[t] = 0 /\ FreshAt(t)'
        BY <3>1 DEF FreshAt, HolderPlace
      <3>3. Reads(t)'
        BY <3>1, <3>2 DEF Reads, Current
      <3>. QED BY <3>1, <3>2, <3>3 DEF SeenAt, Current, FlushPlace
    <2>2. CASE ~(poolOpen /\ free > 0)
      BY <1>5, <2>2 DEF Connect, NextFlush, SeenAt, FreshAt, FlushPlace, HolderPlace
    <2>. QED BY <2>1, <2>2
  <1>6. CASE InsertPage(t)
    <2>1. FreshAt(t)'
      BY <1>6 DEF InsertPage, FreshAt, HolderPlace
    <2>. QED BY <1>6, <2>1, InsertPageSeen
  <1>7. CASE Commit(t)
    <2>1. FreshAt(t)'
      BY <1>7 DEF Commit, FreshAt, HolderPlace
    <2>. QED BY <1>7, <2>1, CommitSeen
  <1>8. CASE Clear(t)
    BY <1>8 DEF Clear, SeenAt, FreshAt, FlushPlace, HolderPlace
  <1>9. CASE \E applied \in BOOLEAN : DatabaseFails(t, applied)
    BY <1>9 DEF DatabaseFails, SeenAt, FreshAt, FlushPlace, HolderPlace
  <1>10. CASE \E raises \in BOOLEAN : Rollback(t, raises)
    BY <1>10 DEF Rollback, SeenAt, FreshAt, FlushPlace, HolderPlace
  <1>11. CASE Release(t)
    BY <1>11 DEF Release, NextFlush, SeenAt, FreshAt, FlushPlace, HolderPlace
  <1>12. CASE CloseAll(t)
    BY <1>12 DEF CloseAll, NextFlush, SeenAt, FreshAt, FlushPlace, HolderPlace
  <1>. QED
    BY <1>1, <1>2, <1>3, <1>4, <1>5, <1>6, <1>7, <1>8, <1>9, <1>10, <1>11, <1>12
    DEF Step, Continue

LEMMA InitSeen == Init => SeenInv
  BY DEF Init, SeenInv, SeenAt, FreshAt, FlushPlace, HolderPlace

LEMMA SeenStep ==
    ASSUME SafeInv, SeenInv, [Next]_vars
    PROVE  SeenInv'
  <1>1. CASE UNCHANGED vars
    BY <1>1 DEF vars, tableVars, poolVars, threadVars, SeenInv, SeenAt, FreshAt, Reads, Current
  <1>2. CASE Next
    <2>1. PICK t \in Thread : Step(t)
      BY <1>2, NextIsStep
    <2>2. Grows /\ TypeInv'
      BY <2>1, AlwaysGrows, SafeStep DEF SafeInv
    <2>3. ASSUME NEW u \in Thread PROVE SeenAt(u)' /\ FreshAt(u)'
      <3>1. CASE u = t
        BY <2>1, <2>2, <3>1, OwnStepSeen DEF SeenInv
      <3>2. CASE u # t
        BY <2>1, <2>2, <3>2, OthersSame, OtherKeepsSeen DEF SeenInv
      <3>. QED BY <3>1, <3>2
    <2>. QED BY <2>3 DEF SeenInv
  <1>. QED BY <1>1, <1>2

LEMMA ClearLosesOnlyUnseen ==
    ASSUME SafeInv, SeenInv, [Next]_vars, NEW tb \in Table,
           NEW r \in Rows(buffer[tb]) \ Rows(buffer'[tb])
    PROVE  \/ db[tb][r] > 0
           \/ \E t \in Thread : /\ pc[t] = "clear" /\ pc'[t] = "release"
                                /\ Current(t) = tb
                                /\ r > seen[t]
  <1>1. buffer'[tb] # buffer[tb]
    BY DEF Rows
  <1>2. PICK i \in 1 .. Len(buffer[tb]) : r = buffer[tb][i]
    BY DEF Rows
  <1>3. buffer[tb] \in Seq(Row)
    BY DEF SafeInv, TypeInv, TypeOK
  <1>4. PICK t \in Thread : Step(t)
    BY <1>1, NextIsStep DEF vars, tableVars
  <1>5. CASE \E x \in Table : WriteRow(t, x)
    <2>0. PICK x \in Table : WriteRow(t, x)
      BY <1>5
    <2>1. buffer'[tb] = Append(buffer[tb], written[tb] + 1)
      <3>1. buffer' = [buffer EXCEPT ![x] = Append(@, written[x] + 1)]
        BY <2>0 DEF WriteRow
      <3>2. buffer \in [Table -> Seq(Row)] /\ tb \in Table
        BY DEF SafeInv, TypeInv, TypeOK
      <3>3. x = tb
        BY <1>1, <3>1, <3>2
      <3>. QED BY <3>1, <3>2, <3>3
    <2>2. i \in 1 .. Len(buffer'[tb]) /\ buffer'[tb][i] = r
      BY <1>2, <1>3, <2>1
    <2>3. r \in Rows(buffer'[tb])
      BY <2>2 DEF Rows
    <2>. QED BY <2>3
  <1>6. CASE Clear(t)
    <2>1. Current(t) = tb /\ pc[t] = "clear" /\ pc'[t] = "release"
      BY <1>1, <1>6 DEF Clear, Goto, SafeInv, TypeInv, TypeOK
    <2>2. r <= seen[t] => db[tb][r] > 0
      BY <1>2, <2>1 DEF SeenInv, SeenAt, Reads, FlushPlace
    <2>3. r \in Int /\ seen[t] \in Int
      BY <1>2, <1>3, WriterAssumption, SMTT(30) DEF SafeInv, TypeInv, TypeOK, Row
    <2>. QED BY <2>1, <2>2, <2>3
  <1>. QED
    BY <1>1, <1>4, <1>5, <1>6
    DEF Step, Continue, FlushAll, Close, TestRoom, TestEmpty, Connect, InsertPage, Commit,
        DatabaseFails, Rollback, Release, CloseAll, tableVars

(* A clear drops no row that its flush had found in the list and that is   *)
(* not committed, whatever the other threads did while the flush ran.      *)
THEOREM LossNeedsOverlapAlways == Spec => LossNeedsOverlap
  <1>1. Spec => []SeenInv
    <2>1. SafeInv /\ SeenInv /\ [Next]_vars => SeenInv'
      BY SeenStep
    <2>. QED BY AlwaysSafe, InitSeen, <2>1, PTL DEF Spec
  <1>2. SafeInv /\ SeenInv /\ [Next]_vars
          => [\A tb \in Table : \A r \in Rows(buffer[tb]) \ Rows(buffer'[tb]) :
                 \/ db[tb][r] > 0
                 \/ \E t \in Thread : /\ pc[t] = "clear" /\ pc'[t] = "release"
                                      /\ Current(t) = tb
                                      /\ r > seen[t]]_vars
    BY ClearLosesOnlyUnseen
  <1>. QED BY AlwaysSafe, <1>1, <1>2, PTL DEF Spec, LossNeedsOverlap

-------------------------------------------------------------------------------
(* A table no flush of which was disturbed: at most one thread flushes it, *)
(* with the whole list in its transaction when it commits, so the copies   *)
(* in the table are exactly the rows that no longer wait.                  *)

Copied(t, tb) ==
    Flushing(t, tb) =>
        /\ pc[t] = "insert" =>
               /\ cursor[t] <= Len(buffer[tb])
               /\ txn[t] = {buffer[tb][i] : i \in 1 .. cursor[t]}
        /\ pc[t] = "commit" => txn[t] = Rows(buffer[tb])

Single(tb) == \A t, u \in Thread : Flushing(t, tb) /\ Flushing(u, tb) => t = u

Listed(tb) == Rows(buffer[tb]) \subseteq 1 .. written[tb]

Counted(tb) ==
    \A r \in Row :
        db[tb][r] = IF r \in 1 .. written[tb] /\ r \notin Waiting(tb) THEN 1 ELSE 0

Alone(tb) ==
    /\ Single(tb)
    /\ \A t \in Thread : Copied(t, tb)
    /\ Listed(tb)
    /\ Counted(tb)

AloneInv == \A tb \in Table \ disturbed : Alone(tb)

SameTable(tb) == /\ buffer'[tb] = buffer[tb]
                 /\ written'[tb] = written[tb]
                 /\ db'[tb] = db[tb]

LEMMA SameFlushing ==
    ASSUME NEW u \in Thread, Same(u), NEW tb \in Table
    PROVE  /\ Flushing(u, tb)' <=> Flushing(u, tb)
           /\ Current(u)' = Current(u)
  BY DEF Same, Flushing, Current

(* A step of t that leaves the table as it is and neither starts nor ends  *)
(* a clear of it.                                                          *)
LEMMA QuietStep ==
    ASSUME NEW tb \in Table, Alone(tb), NEW t \in Thread,
           \A u \in Thread \ {t} : Same(u),
           SameTable(tb),
           pc[t] = "clear" => Current(t) # tb,
           pc'[t] = "clear" => Current(t)' # tb,
           Flushing(t, tb)' => \/ Flushing(t, tb)
                               \/ \A u \in Thread \ {t} : ~Flushing(u, tb),
           Copied(t, tb)'
    PROVE  Alone(tb)' /\ Waiting(tb)' = Waiting(tb)
  <1>1. \A u \in Thread \ {t} : /\ Flushing(u, tb)' <=> Flushing(u, tb)
                                /\ Current(u)' = Current(u)
    BY SameFlushing
  <1>2. Single(tb)'
    BY <1>1 DEF Alone, Single
  <1>3. ASSUME NEW u \in Thread PROVE Copied(u, tb)'
    BY <1>1 DEF Alone, Copied, Same, SameTable
  <1>4. Waiting(tb)' = Waiting(tb)
    <2>1. Clearing(tb)' <=> Clearing(tb)
      BY <1>1 DEF Clearing, Same
    <2>. QED BY <2>1 DEF Waiting, SameTable, Rows
  <1>5. Listed(tb)' /\ Counted(tb)'
    BY <1>4 DEF Alone, Listed, Counted, SameTable, Rows
  <1>. QED BY <1>2, <1>3, <1>4, <1>5 DEF Alone

LEMMA WriteRowAlone ==
    ASSUME SafeInv, NEW t \in Thread, NEW tb \in Table, Alone(tb),
           WriteRow(t, tb), tb \notin disturbed',
           \A u \in Thread \ {t} : Same(u)
    PROVE  /\ Alone(tb)'
           /\ \E r \in Row : Store(tb)!Accept(r)
  <1>1. /\ pc[t] = "idle" /\ pc'[t] = "room"
        /\ buffer'[tb] = Append(buffer[tb], written[tb] + 1)
        /\ written'[tb] = written[tb] + 1
        /\ db' = db
    BY DEF WriteRow, Goto, SafeInv, TypeInv, TypeOK
  <1>2. \A u \in Thread : ~Flushing(u, tb) /\ ~Flushing(u, tb)'
    <2>1. \A u \in Thread \ {t} : ~Flushing(u, tb)
      BY DEF WriteRow, Disturb
    <2>. QED BY <1>1, <2>1, SameFlushing DEF Flushing
  <1>3. ~Clearing(tb) /\ ~Clearing(tb)'
    BY <1>2 DEF Clearing, Flushing
  <1>4. buffer[tb] \in Seq(Row) /\ written[tb] \in Nat
    BY WriterAssumption DEF SafeInv, TypeInv, TypeOK
  <1>5. Rows(buffer'[tb]) = Rows(buffer[tb]) \cup {written[tb] + 1}
    <2> DEFINE n == Len(buffer[tb])
               new == Append(buffer[tb], written[tb] + 1)
    <2>1. /\ n \in Nat /\ Len(new) = n + 1
          /\ \A i \in 1 .. n : new[i] = buffer[tb][i]
          /\ new[n + 1] = written[tb] + 1
      BY <1>4, LenProperties
    <2>2. 1 .. n + 1 = (1 .. n) \cup {n + 1}
      BY <2>1
    <2>3. {new[i] : i \in 1 .. n + 1} = {new[i] : i \in 1 .. n} \cup {new[n + 1]}
      BY <2>2
    <2>4. {new[i] : i \in 1 .. n} = {buffer[tb][i] : i \in 1 .. n}
      BY <2>1
    <2>. HIDE DEF n, new
    <2>. QED BY <2>1, <2>3, <2>4, <1>1 DEF Rows, n, new
  <1>6. Listed(tb)'
    <2>1. Rows(buffer[tb]) \subseteq 1 .. written[tb]
      BY DEF Alone, Listed
    <2>2. 1 .. written[tb] + 1 = (1 .. written[tb]) \cup {written[tb] + 1}
      BY <1>4
    <2>. QED BY <2>1, <2>2, <1>1, <1>5 DEF Listed, Rows
  <1>7. Waiting(tb) = Rows(buffer[tb]) /\ Waiting(tb)' = Rows(buffer'[tb])
    BY <1>3 DEF Waiting, Rows
  <1>8. ASSUME NEW r \in Row
        PROVE  r \in 1 .. written[tb] /\ r \notin Rows(buffer[tb])
                 <=> r \in 1 .. written'[tb] /\ r \notin Rows(buffer'[tb])
    <2>1. 1 .. written[tb] + 1 = (1 .. written[tb]) \cup {written[tb] + 1}
      BY <1>4
    <2>2. written[tb] + 1 \notin 1 .. written[tb]
      BY <1>4
    <2>. QED BY <2>1, <2>2, <1>1, <1>5
  <1>9. Counted(tb)'
    BY <1>1, <1>7, <1>8 DEF Alone, Counted
  <1>10. Alone(tb)'
    BY <1>2, <1>6, <1>9 DEF Alone, Single, Copied
  <1>11. \E r \in Row : Store(tb)!Accept(r)
    <2> DEFINE r == written[tb] + 1
    <2>1. r \in Row
      <3>1. Len(buffer'[tb]) = Len(buffer[tb]) + 1 /\ Len(buffer[tb]) \in Nat
        BY <1>1, <1>4, LenProperties
      <3>2. buffer'[tb][Len(buffer'[tb])] = r /\ Len(buffer'[tb]) \in 1 .. Len(buffer'[tb])
        BY <1>1, <1>4, <3>1
      <3>3. buffer'[tb] \in Seq(Row)
        BY SafeStep, WriteRowType DEF SafeInv, TypeInv, TypeOK
      <3>. QED BY <3>1, <3>2, <3>3
    <2>2. r \notin 1 .. written[tb]
      BY <1>4
    <2>3. r \notin Waiting(tb) /\ db[tb][r] = 0
      <3>1. r \notin Waiting(tb)
        BY <1>7, <2>2 DEF Alone, Listed
      <3>. QED BY <3>1, <2>1, <2>2 DEF Alone, Counted
    <2>4. Waiting(tb)' = Waiting(tb) \cup {r} /\ db'[tb] = db[tb]
      BY <1>1, <1>5, <1>7
    <2>. HIDE DEF r
    <2>. QED BY <2>1, <2>3, <2>4 DEF Store!Accept
  <1>. QED BY <1>10, <1>11

LEMMA CommitAlone ==
    ASSUME SafeInv, NEW t \in Thread, NEW tb \in Table, Alone(tb),
           Commit(t), Current(t) = tb,
           \A u \in Thread \ {t} : Same(u)
    PROVE  /\ Alone(tb)'
           /\ \/ Store(tb)!Flush
              \/ Waiting(tb)' = Waiting(tb) /\ db'[tb] = db[tb]
  <1>1. /\ pc[t] = "commit" /\ pc'[t] = "clear" /\ todo' = todo
        /\ buffer' = buffer /\ written' = written /\ db' = Committed(t)
    BY DEF Commit, Goto, SafeInv, TypeInv, TypeOK
  <1>2. /\ Flushing(t, tb) /\ Flushing(t, tb)'
        /\ \A u \in Thread \ {t} : ~Flushing(u, tb) /\ ~Flushing(u, tb)'
    <2>1. Flushing(t, tb) /\ Flushing(t, tb)'
      BY <1>1 DEF Flushing, Current
    <2>. QED BY <2>1, SameFlushing DEF Alone, Single
  <1>3. txn[t] = Rows(buffer[tb])
    BY <1>1, <1>2 DEF Alone, Copied
  <1>4. ~Clearing(tb) /\ Clearing(tb)'
    BY <1>1, <1>2 DEF Clearing, Flushing, Current
  <1>5. Waiting(tb) = Rows(buffer[tb]) /\ Waiting(tb)' = {}
    BY <1>4 DEF Waiting
  <1>6. ASSUME NEW r \in Row
        PROVE  db'[tb][r] = IF r \in Rows(buffer[tb]) THEN db[tb][r] + 1 ELSE db[tb][r]
    BY <1>1, <1>3 DEF Committed, SafeInv, TypeInv, TypeOK
  <1>7. Rows(buffer[tb]) \subseteq 1 .. written[tb]
    BY DEF Alone, Listed
  <1>8. Counted(tb)'
    <2> SUFFICES ASSUME NEW r \in Row
                 PROVE  db'[tb][r] = IF r \in 1 .. written[tb] THEN 1 ELSE 0
      BY <1>1, <1>5 DEF Counted
    <2>1. db[tb][r] = IF r \in 1 .. written[tb] /\ r \notin Rows(buffer[tb]) THEN 1 ELSE 0
      BY <1>5 DEF Alone, Counted
    <2>2. CASE r \in Rows(buffer[tb])
      BY <1>6, <1>7, <2>1, <2>2
    <2>3. CASE r \notin Rows(buffer[tb])
      BY <1>6, <2>1, <2>3
    <2>. QED BY <2>2, <2>3
  <1>9. Single(tb)' /\ \A u \in Thread : Copied(u, tb)'
    BY <1>1, <1>2 DEF Single, Copied
  <1>10. Alone(tb)'
    BY <1>1, <1>7, <1>8, <1>9 DEF Alone, Listed
  <1>11. db[tb] \in [Row -> Nat] /\ db'[tb] \in [Row -> Nat]
    <2>1. tb \in Table
      OBVIOUS
    <2>2. db' \in [Table -> [Row -> Nat]]
      BY CommitType DEF SafeInv, TypeInv, TypeOK
    <2>. QED BY <2>1, <2>2 DEF SafeInv, TypeInv, TypeOK
  <1>12. CASE Rows(buffer[tb]) = {}
    <2>1. db'[tb] = db[tb]
      BY <1>6, <1>11, <1>12
    <2>. QED BY <1>5, <1>10, <1>12, <2>1
  <1>13. CASE Rows(buffer[tb]) # {}
    <2>1. db'[tb] = [r \in Row |-> IF r \in Waiting(tb) THEN db[tb][r] + 1 ELSE db[tb][r]]
      BY <1>5, <1>6, <1>11
    <2>2. Store(tb)!Flush
      BY <1>5, <1>13, <2>1 DEF Store!Flush
    <2>. QED BY <1>10, <2>2
  <1>. QED BY <1>12, <1>13

LEMMA ClearAlone ==
    ASSUME SafeInv, NEW t \in Thread, NEW tb \in Table, Alone(tb),
           Clear(t), Current(t) = tb,
           \A u \in Thread \ {t} : Same(u)
    PROVE  /\ Alone(tb)'
           /\ Waiting(tb)' = Waiting(tb) /\ db' = db
  <1>1. /\ pc[t] = "clear" /\ pc'[t] = "release"
        /\ buffer'[tb] = <<>> /\ written' = written /\ db' = db
    BY DEF Clear, Goto, SafeInv, TypeInv, TypeOK
  <1>2. /\ ~Flushing(t, tb)'
        /\ \A u \in Thread \ {t} : ~Flushing(u, tb) /\ ~Flushing(u, tb)'
    <2>1. Flushing(t, tb) /\ ~Flushing(t, tb)'
      BY <1>1 DEF Flushing
    <2>. QED BY <2>1, SameFlushing DEF Alone, Single
  <1>3. Rows(buffer'[tb]) = {}
    BY <1>1 DEF Rows
  <1>4. Waiting(tb) = {} /\ Waiting(tb)' = {}
    BY <1>1, <1>3 DEF Waiting, Clearing, Rows
  <1>. QED
    BY <1>1, <1>2, <1>3, <1>4 DEF Alone, Single, Copied, Listed, Counted, Rows

(* The step a thread takes inside its own flush of an undisturbed table. *)
LEMMA OwnQuietStep ==
    ASSUME SafeInv, SeenInv, NEW tb \in Table, Alone(tb), NEW t \in Thread,
           \A u \in Thread \ {t} : Same(u),
           \/ FlushAll(t) \/ Close(t) \/ TestRoom(t) \/ TestEmpty(t) \/ Connect(t)
           \/ InsertPage(t) \/ (\E raises \in BOOLEAN : Rollback(t, raises))
           \/ (\E applied \in BOOLEAN : DatabaseFails(t, applied))
           \/ Release(t) \/ CloseAll(t),
           tb \notin disturbed'
    PROVE  Alone(tb)' /\ Waiting(tb)' = Waiting(tb) /\ db'[tb] = db[tb]
  <1>. USE DEF SafeInv, TypeInv, TypeOK, Goto
  <1>1. CASE TestEmpty(t) /\ Current(t) = tb /\ buffer[Current(t)] # <<>>
    <2>1. /\ pc[t] = "test" /\ pc'[t] = "connect" /\ SameTable(tb)
          /\ \A u \in Thread \ {t} : ~Flushing(u, tb)
      BY <1>1 DEF TestEmpty, Disturb, tableVars, SameTable
    <2>2. Copied(t, tb)'
      BY <2>1 DEF Copied
    <2>. QED BY <2>1, <2>2, QuietStep DEF SameTable
  <1>2. CASE Connect(t) /\ Current(t) = tb /\ poolOpen /\ free > 0
    <2>1. /\ pc[t] = "connect" /\ pc'[t] = "insert" /\ todo' = todo /\ SameTable(tb)
          /\ cursor' = cursor /\ txn' = txn
      BY <1>2 DEF Connect, tableVars, SameTable
    <2>2. cursor[t] = 0 /\ txn[t] = {}
      BY <2>1 DEF SeenInv, FreshAt, HolderPlace
    <2>3. Len(buffer[tb]) \in Nat
      BY LenProperties
    <2>4. Copied(t, tb)'
      BY <2>1, <2>2, <2>3 DEF Copied, SameTable
    <2>5. Flushing(t, tb)
      BY <1>2, <2>1 DEF Flushing
    <2>. QED BY <2>1, <2>4, <2>5, QuietStep DEF SameTable
  <1>3. CASE InsertPage(t) /\ Current(t) = tb
    <2> DEFINE n == PageSize(t)
    <2>1. /\ pc[t] = "insert" /\ todo' = todo /\ SameTable(tb)
          /\ pc'[t] = IF n = BatchSize THEN "insert" ELSE "commit"
          /\ cursor'[t] = cursor[t] + n
          /\ txn'[t] = txn[t] \cup Page(t)
      BY <1>3 DEF InsertPage, tableVars, SameTable
    <2>2. /\ n \in 0 .. BatchSize /\ Len(buffer[tb]) \in Nat /\ cursor[t] \in Nat
          /\ n # BatchSize => cursor[t] + n >= Len(buffer[tb])
          /\ n > 0 => cursor[t] + n <= Len(buffer[tb])
      BY <1>3, <2>1, PageFacts
    <2>3. /\ Flushing(t, tb)
          /\ cursor[t] <= Len(buffer[tb])
          /\ txn[t] = {buffer[tb][i] : i \in 1 .. cursor[t]}
      BY <1>3, <2>1 DEF Flushing, Alone, Copied
    <2>4. cursor[t] + n <= Len(buffer[tb])
      BY <2>2, <2>3, WriterAssumption
    <2>5. 1 .. cursor[t] + n = (1 .. cursor[t]) \cup (cursor[t] + 1 .. cursor[t] + n)
      BY <2>2, WriterAssumption
    <2>6. txn'[t] = {buffer[tb][i] : i \in 1 .. cursor[t] + n}
      <3>1. txn'[t] = {buffer[tb][i] : i \in 1 .. cursor[t]}
                          \cup {buffer[tb][i] : i \in cursor[t] + 1 .. cursor[t] + n}
        BY <1>3, <2>1, <2>3 DEF Page
      <3>. HIDE DEF n
      <3>. QED BY <2>5, <3>1
    <2>7. n # BatchSize => cursor[t] + n = Len(buffer[tb])
      BY <2>2, <2>4, WriterAssumption
    <2>8. Copied(t, tb)'
      <3>1. n # BatchSize => txn'[t] = Rows(buffer[tb])
        BY <2>6, <2>7 DEF Rows
      <3>. HIDE DEF n
      <3>. QED BY <2>1, <2>4, <2>6, <3>1 DEF Copied, SameTable, Rows
    <2>9. pc'[t] # "clear" /\ pc[t] # "clear"
      BY <2>1
    <2>. QED BY <2>1, <2>3, <2>8, <2>9, QuietStep DEF SameTable
  <1>4. CASE /\ ~Flushing(t, tb)'
             /\ SameTable(tb)
             /\ pc[t] # "clear"
    <2>1. Copied(t, tb)'
      BY <1>4 DEF Copied
    <2>2. pc'[t] = "clear" => Current(t)' # tb
      BY <1>4 DEF Flushing
    <2>. QED BY <1>4, <2>1, <2>2, QuietStep DEF SameTable
  <1>5. CASE FlushAll(t) \/ Close(t)
    BY <1>4, <1>5 DEF FlushAll, Close, Flushing, tableVars, SameTable
  <1>6. CASE TestRoom(t)
    BY <1>4, <1>6 DEF TestRoom, Flushing, tableVars, SameTable
  <1>7. CASE TestEmpty(t)
    <2>1. CASE buffer[Current(t)] = <<>>
      BY <1>4, <1>7, <2>1 DEF TestEmpty, NextFlush, Flushing, tableVars, SameTable
    <2>2. CASE buffer[Current(t)] # <<>> /\ Current(t) # tb
      BY <1>4, <1>7, <2>2 DEF TestEmpty, Flushing, Current, tableVars, SameTable
    <2>. QED BY <1>1, <1>7, <2>1, <2>2
  <1>8. CASE Connect(t)
    <2>1. CASE ~(poolOpen /\ free > 0)
      BY <1>4, <1>8, <2>1 DEF Connect, NextFlush, Flushing, tableVars, SameTable
    <2>2. CASE poolOpen /\ free > 0 /\ Current(t) # tb
      BY <1>4, <1>8, <2>2 DEF Connect, Flushing, Current, tableVars, SameTable
    <2>. QED BY <1>2, <1>8, <2>1, <2>2
  <1>9. CASE InsertPage(t)
    <2>1. CASE Current(t) # tb
      BY <1>4, <1>9, <2>1 DEF InsertPage, Flushing, Current, tableVars, SameTable
    <2>. QED BY <1>3, <1>9, <2>1
  <1>10. CASE \E raises \in BOOLEAN : Rollback(t, raises)
    BY <1>4, <1>10 DEF Rollback, Flushing, tableVars, SameTable
  <1>11. CASE \E applied \in BOOLEAN : DatabaseFails(t, applied)
    <2>1. PICK applied \in BOOLEAN : DatabaseFails(t, applied)
      BY <1>11
    <2>2. db'[tb] = db[tb]
      <3>1. CASE applied
        <4>1. Current(t) # tb
          BY <2>1, <3>1 DEF DatabaseFails
        <4>. QED BY <2>1, <3>1, <4>1 DEF DatabaseFails, Committed
      <3>2. CASE ~applied
        BY <2>1, <3>2 DEF DatabaseFails
      <3>. QED BY <3>1, <3>2
    <2>. QED BY <1>4, <2>1, <2>2 DEF DatabaseFails, Flushing, SameTable
  <1>12. CASE Release(t)
    BY <1>4, <1>12 DEF Release, NextFlush, Flushing, tableVars, SameTable
  <1>13. CASE CloseAll(t)
    BY <1>4, <1>13 DEF CloseAll, NextFlush, Flushing, tableVars, SameTable
  <1>. QED
    BY <1>5, <1>6, <1>7, <1>8, <1>9, <1>10, <1>11, <1>12, <1>13

(* A step on the other table. *)
LEMMA OtherTableStep ==
    ASSUME SafeInv, NEW tb \in Table, Alone(tb), NEW t \in Thread,
           \A u \in Thread \ {t} : Same(u),
           \/ \E x \in Table \ {tb} : WriteRow(t, x)
           \/ (Commit(t) \/ Clear(t)) /\ Current(t) # tb
    PROVE  Alone(tb)' /\ Waiting(tb)' = Waiting(tb) /\ db'[tb] = db[tb]
  <1>. USE DEF SafeInv, TypeInv, TypeOK, Goto
  <1>1. CASE \E x \in Table \ {tb} : WriteRow(t, x)
    <2>1. SameTable(tb) /\ ~Flushing(t, tb)' /\ pc[t] = "idle" /\ pc'[t] = "room"
      BY <1>1 DEF WriteRow, SameTable, Flushing
    <2>2. Copied(t, tb)'
      BY <2>1 DEF Copied
    <2>. QED BY <2>1, <2>2, QuietStep DEF SameTable
  <1>2. CASE (Commit(t) \/ Clear(t)) /\ Current(t) # tb
    <2>1. SameTable(tb) /\ Current(t)' # tb
      BY <1>2 DEF Commit, Clear, SameTable, Committed, Current
    <2>2. ~Flushing(t, tb)'
      BY <2>1 DEF Flushing
    <2>3. Copied(t, tb)'
      BY <2>2 DEF Copied
    <2>. QED BY <1>2, <2>1, <2>2, <2>3, QuietStep DEF SameTable
  <1>. QED BY <1>1, <1>2

LEMMA AloneStep ==
    ASSUME SafeInv, SeenInv, NEW tb \in Table, Alone(tb), Next, tb \notin disturbed'
    PROVE  Alone(tb)' /\ KeepsPromise(tb)
  <1>1. PICK t \in Thread : Step(t)
    BY NextIsStep
  <1>2. \A u \in Thread \ {t} : Same(u)
    BY <1>1, OthersSame
  <1>3. CASE WriteRow(t, tb)
    BY <1>2, <1>3, WriteRowAlone DEF KeepsPromise, Store!Next
  <1>4. CASE Commit(t) /\ Current(t) = tb
    BY <1>2, <1>4, CommitAlone DEF KeepsPromise, Store!Next
  <1>5. CASE Clear(t) /\ Current(t) = tb
    BY <1>2, <1>5, ClearAlone DEF KeepsPromise
  <1>6. CASE \/ \E x \in Table \ {tb} : WriteRow(t, x)
             \/ (Commit(t) \/ Clear(t)) /\ Current(t) # tb
    BY <1>2, <1>6, OtherTableStep DEF KeepsPromise
  <1>7. CASE \/ FlushAll(t) \/ Close(t) \/ TestRoom(t) \/ TestEmpty(t) \/ Connect(t)
             \/ InsertPage(t) \/ (\E raises \in BOOLEAN : Rollback(t, raises))
             \/ (\E applied \in BOOLEAN : DatabaseFails(t, applied))
             \/ Release(t) \/ CloseAll(t)
    BY <1>2, <1>7, OwnQuietStep DEF KeepsPromise
  <1>. QED
    BY <1>1, <1>3, <1>4, <1>5, <1>6, <1>7 DEF Step, Continue

WriterInv == SafeInv /\ SeenInv /\ AloneInv

LEMMA InitAlone == Init => AloneInv
  <1> SUFFICES ASSUME Init, NEW tb \in Table PROVE Alone(tb)
    BY DEF AloneInv
  <1>1. \A t \in Thread : ~Flushing(t, tb)
    BY DEF Init, Flushing
  <1>2. /\ buffer[tb] = <<>> /\ written[tb] = 0
        /\ \A r \in Row : db[tb][r] = 0
    BY DEF Init
  <1>3. Rows(buffer[tb]) = {}
    BY <1>2 DEF Rows
  <1>. QED
    BY <1>1, <1>2, <1>3 DEF Alone, Single, Copied, Listed, Counted

LEMMA DisturbedGrows ==
    ASSUME SafeInv, [Next]_vars
    PROVE  disturbed \subseteq disturbed'
  <1>1. CASE UNCHANGED vars
    BY <1>1 DEF vars
  <1>2. CASE Next
    <2>1. PICK t \in Thread : Step(t)
      BY <1>2, NextIsStep
    <2>. QED
      BY <2>1 DEF Step, Continue, WriteRow, FlushAll, Close, TestRoom, TestEmpty, Connect,
             InsertPage, Commit, Clear, DatabaseFails, Rollback, Release, CloseAll, Disturb
  <1>. QED BY <1>1, <1>2

LEMMA WriterStep ==
    ASSUME WriterInv, [Next]_vars
    PROVE  AloneInv' /\ \A tb \in Table : UNCHANGED vars \/ KeepsPromise(tb)
  <1>1. CASE UNCHANGED vars
    BY <1>1 DEF WriterInv, AloneInv, Alone, Single, Copied, Listed, Counted, Waiting, Clearing,
                Flushing, Current, Rows, vars, tableVars, threadVars
  <1>2. CASE Next
    <2>1. ASSUME NEW tb \in Table, tb \notin disturbed'
          PROVE  Alone(tb)' /\ KeepsPromise(tb)
      <3>1. Alone(tb)
        BY <2>1, <1>2, DisturbedGrows DEF WriterInv, AloneInv
      <3>. QED BY <1>2, <2>1, <3>1, AloneStep DEF WriterInv
    <2>. QED BY <2>1 DEF AloneInv, KeepsPromise
  <1>. QED BY <1>1, <1>2

LEMMA AlwaysWriterInv == Spec => []WriterInv
  <1>1. Init => WriterInv
    BY InitSafe, InitSeen, InitAlone DEF WriterInv
  <1>2. WriterInv /\ [Next]_vars => WriterInv'
    BY SafeStep, SeenStep, WriterStep DEF WriterInv
  <1>. QED BY <1>1, <1>2, PTL DEF Spec

(* Until a flush of a table is disturbed, every row handed over for it is  *)
(* either waiting or in the table exactly once, whatever fails meanwhile.  *)
THEOREM ExactlyOnceAlways == Spec => []ExactlyOnceUndisturbed
  <1>1. WriterInv => ExactlyOnceUndisturbed
    <2> SUFFICES ASSUME WriterInv, NEW tb \in Table \ disturbed, NEW r \in 1 .. written[tb]
                 PROVE  db[tb][r] = IF r \in Waiting(tb) THEN 0 ELSE 1
      BY DEF ExactlyOnceUndisturbed
    <2>1. written[tb] \in 0 .. MaxRows
      BY DEF WriterInv, SafeInv, TypeInv, TypeOK
    <2>2. r \in Row
      BY <2>1, WriterAssumption DEF Row
    <2>. QED BY <2>2 DEF WriterInv, AloneInv, Alone, Counted
  <1>. QED BY AlwaysWriterInv, <1>1, PTL

(* Until then every step of the real writer is a step of BatchStore, which *)
(* has neither threads nor pages nor failures, or leaves it where it is.   *)
THEOREM ImplementsBatchStore == Spec => StoreUndisturbed
  <1>1. Init => \A tb \in Table : Store(tb)!Init
    <2> SUFFICES ASSUME Init, NEW tb \in Table PROVE Store(tb)!Init
      OBVIOUS
    <2>1. buffer[tb] = <<>> /\ db[tb] = [r \in Row |-> 0]
      BY DEF Init
    <2>2. Waiting(tb) = {}
      BY <2>1 DEF Waiting, Rows
    <2>. QED BY <2>1, <2>2 DEF Store!Init
  <1>2. WriterInv /\ [Next]_vars => [\A tb \in Table : KeepsPromise(tb)]_vars
    BY WriterStep
  <1>. QED BY AlwaysWriterInv, <1>1, <1>2, PTL DEF Spec, StoreUndisturbed
=================================================================================
