-------------------------- MODULE AlertEngine_proofs --------------------------
(***************************************************************************)
(* Proofs about AlertEngine for every equipment, configuration of rules    *)
(* and windows, and any number of predictions, requests and failures.      *)
(***************************************************************************)
EXTENDS AlertEngine, TLAPS, SequenceTheorems, FiniteSetTheorems, WellFoundedInduction

Place == {"idle", "check", "trigger", "buffer", "notify", "insert", "update"}

(* What the place of a thread says about its variables. *)
Shape ==
    /\ pc["consumer"] # "update"
    /\ \A t \in Thread :
         /\ pc[t] \in {"check", "trigger", "buffer"} => job[t].equipment \in Equipment
         /\ pc[t] = "trigger" => rule[t] \in Rule
         /\ pc[t] = "buffer" => found[t] # <<>>
         /\ pc[t] = "notify" => sending[t] # 0
         /\ Writing(t) => record[t] \in [id : Id, status : Status]
         /\ pc[t] \notin {"check", "trigger", "buffer"} => found[t] = <<>>

Typed == TypeOK /\ Shape

(* last_triggered is at least as late as every alert it has led to, and a  *)
(* rule about to trigger is past the cooldown of the alerts it saw.        *)
Timed ==
    /\ \A r \in Rule, e \in Equipment : lastTriggered[r][e] <= now
    /\ \A k \in DOMAIN alerts :
         alerts[k].time <= lastTriggered[alerts[k].rule][alerts[k].equipment]
    /\ \A t \in Thread : pc[t] = "trigger" => job[t].seen <= Len(alerts)
    /\ \A t \in Thread : pc[t] = "trigger" =>
         \A j \in DOMAIN alerts :
            /\ j <= job[t].seen
            /\ alerts[j].rule = rule[t] /\ alerts[j].equipment = job[t].equipment
            => now - alerts[j].time >= Cooldown[rule[t]]

(* An alert is in one place only ... *)
Apart ==
    /\ \A t, u \in Thread : \A p \in DOMAIN found[t], q \in DOMAIN found[u] :
         found[t][p] = found[u][q] => t = u /\ p = q
    /\ \A d, e \in Equipment : \A p \in DOMAIN buffer[d], q \in DOMAIN buffer[e] :
         buffer[d][p] = buffer[e][q] => d = e /\ p = q
    /\ \A t \in Thread, e \in Equipment : \A p \in DOMAIN found[t], q \in DOMAIN buffer[e] :
         found[t][p] # buffer[e][q]
    /\ \A t \in Thread : \A p \in DOMAIN found[t] : found[t][p] \notin covered
    /\ \A e \in Equipment : \A p \in DOMAIN buffer[e] : buffer[e][p] \notin covered

WithCall(k)   == \E t \in Thread : \E p \in DOMAIN found[t] : found[t][p] = k
WithBuffer(k) == \E e \in Equipment : \E p \in DOMAIN buffer[e] : buffer[e][p] = k

(* ... it is in one, and the calls and buffers keep equipment apart.       *)
Placed ==
    /\ \A k \in DOMAIN alerts : k \in covered \/ WithCall(k) \/ WithBuffer(k)
    /\ \A t \in Thread : \A p \in DOMAIN found[t] :
         alerts[found[t][p]].equipment = job[t].equipment
    /\ \A e \in Equipment : \A p \in DOMAIN buffer[e] : alerts[buffer[e][p]].equipment = e

Has(i)  == \E k \in DOMAIN alerts : AlertId(alerts[k]) = i
Sole(k) == \A j \in DOMAIN alerts : AlertId(alerts[j]) = AlertId(alerts[k]) => j = k

(* What is written has the status of its alert, unless that changed since. *)
Written ==
    /\ \A i \in Id : row[i] # "absent" => Has(i)
    /\ \A t \in Thread : Writing(t) => Has(record[t].id)
    /\ \A t \in Thread, k \in DOMAIN alerts :
         /\ Writing(t) /\ Sole(k) /\ record[t].id = AlertId(alerts[k])
         /\ pc[t] = "insert" => record[t].id \notin stale
         => record[t].status = alerts[k].status
    /\ \A k \in DOMAIN alerts :
         /\ Sole(k) /\ row[AlertId(alerts[k])] # "absent" /\ AlertId(alerts[k]) \notin stale
         /\ \A t \in Thread : pc[t] = "update" => record[t].id # AlertId(alerts[k])
         => row[AlertId(alerts[k])] = alerts[k].status
AlertRecord == [rule : Rule, equipment : Equipment, time : Time, status : Status, seen : Nat]

LEMMA LeastExists ==
    ASSUME NEW S \in SUBSET Nat, S # {}
    PROVE  \E k \in S : \A j \in S : k <= j
  <1> DEFINE Lt == {pair \in Nat \X Nat : pair[1] < pair[2]}
  <1>1. IsWellFoundedOn(Lt, Nat)
    BY NatLessThanWellFounded, SMT DEF OpToRel
  <1>2. PICK k \in S : \A j \in S : <<j, k>> \notin Lt
    <2>. HIDE DEF Lt
    <2>. QED BY <1>1, WFMin
  <1>3. \A j \in S : j \in Nat /\ k \in Nat /\ ~(j < k)
    BY <1>2
  <1>4. \A j \in S : k <= j
    BY <1>3
  <1>. QED BY <1>4

LEMMA Appended ==
    ASSUME NEW S, NEW q \in Seq(S), NEW x \in S
    PROVE  /\ Append(q, x) \in Seq(S)
           /\ Len(q) \in Nat /\ DOMAIN q = 1 .. Len(q)
           /\ DOMAIN Append(q, x) = DOMAIN q \cup {Len(q) + 1}
           /\ \A k \in DOMAIN q : Append(q, x)[k] = q[k] /\ q[k] \in S
           /\ Append(q, x)[Len(q) + 1] = x
           /\ Len(q) + 1 \notin DOMAIN q
  <1>1. /\ Append(q, x) \in Seq(S) /\ Len(Append(q, x)) = Len(q) + 1
        /\ \A k \in 1 .. Len(q) : Append(q, x)[k] = q[k]
        /\ Append(q, x)[Len(q) + 1] = x
    BY AppendProperties
  <1>2. Len(q) \in Nat /\ DOMAIN q = 1 .. Len(q) /\ DOMAIN Append(q, x) = 1 .. Len(q) + 1
    BY <1>1, LenProperties
  <1>3. \A k \in 1 .. Len(q) : q[k] \in S
    BY ElementOfSeq
  <1>. QED BY <1>1, <1>2, <1>3

LEMMA Joined ==
    ASSUME NEW S, NEW q \in Seq(S), NEW s \in Seq(S)
    PROVE  /\ q \o s \in Seq(S)
           /\ Len(q) \in Nat /\ DOMAIN q = 1 .. Len(q) /\ DOMAIN s = 1 .. Len(s)
           /\ DOMAIN (q \o s) = 1 .. Len(q) + Len(s)
           /\ \A k \in DOMAIN q : k \in DOMAIN (q \o s) /\ (q \o s)[k] = q[k]
           /\ \A k \in DOMAIN s : /\ k + Len(q) \in DOMAIN (q \o s)
                                  /\ (q \o s)[k + Len(q)] = s[k]
           /\ \A k \in DOMAIN (q \o s) :
                k \in DOMAIN q \/ \E j \in DOMAIN s : k = j + Len(q)
  <1>1. /\ q \o s \in Seq(S) /\ Len(q \o s) = Len(q) + Len(s)
        /\ \A k \in 1 .. Len(q) + Len(s) :
             (q \o s)[k] = IF k <= Len(q) THEN q[k] ELSE s[k - Len(q)]
    BY ConcatProperties
  <1>2. /\ Len(q) \in Nat /\ DOMAIN q = 1 .. Len(q)
        /\ Len(s) \in Nat /\ DOMAIN s = 1 .. Len(s)
        /\ DOMAIN (q \o s) = 1 .. Len(q) + Len(s)
    BY <1>1, LenProperties
  <1>3. ASSUME NEW k \in DOMAIN s
        PROVE  k + Len(q) \in DOMAIN (q \o s) /\ (q \o s)[k + Len(q)] = s[k]
    <2>1. k + Len(q) \in 1 .. Len(q) + Len(s) /\ ~(k + Len(q) <= Len(q)) /\ (k + Len(q)) - Len(q) = k
      BY <1>2
    <2>. QED BY <1>1, <1>2, <2>1
  <1>4. ASSUME NEW k \in DOMAIN (q \o s), k \notin DOMAIN q
        PROVE  \E j \in DOMAIN s : k = j + Len(q)
    <2>1. k - Len(q) \in DOMAIN s /\ k = (k - Len(q)) + Len(q)
      BY <1>2, <1>4
    <2>. QED BY <2>1
  <1>. QED BY <1>1, <1>2, <1>3, <1>4

(* Among the alerts of a group one is the first of the gravest.            *)
LEMMA RepresentativeIn ==
    ASSUME TypeOK, NEW group \in Seq(DOMAIN alerts), group # <<>>
    PROVE  Representative(group) \in DOMAIN group
  <1> DEFINE rankOf(i) == Rank(Severity[alerts[group[i]].rule])
             Ranked(n) == {i \in DOMAIN group : rankOf(i) = n}
  <1>1. DOMAIN group \subseteq Nat /\ DOMAIN group # {}
    <2>1. Len(group) \in Nat \ {0}
      BY EmptySeq
    <2>2. DOMAIN group = 1 .. Len(group)
      BY LenProperties
    <2>3. 1 \in 1 .. Len(group) /\ 1 .. Len(group) \subseteq Nat
      BY <2>1
    <2>. QED BY <2>2, <2>3, Zenon
  <1>2. \A i \in DOMAIN group : rankOf(i) \in {1, 2, 3}
    BY DEF Rank
  <1>3. ASSUME NEW n \in {1, 2, 3}, Ranked(n) # {}, \A m \in {1, 2, 3} : m > n => Ranked(m) = {}
        PROVE  \E k \in DOMAIN group :
                  \A j \in DOMAIN group : /\ rankOf(k) >= rankOf(j)
                                          /\ j < k => rankOf(k) > rankOf(j)
    <2> HIDE DEF rankOf
    <2>1. PICK k \in Ranked(n) : \A j \in Ranked(n) : k <= j
      BY <1>1, <1>3, LeastExists
    <2>2. \A j \in DOMAIN group : rankOf(j) <= n
      BY <1>2, <1>3
    <2>3. \A j \in DOMAIN group : j < k => rankOf(j) # n
      BY <1>1, <2>1
    <2>4. k \in DOMAIN group /\ rankOf(k) = n
      BY <2>1
    <2>5. ASSUME NEW j \in DOMAIN group
          PROVE  rankOf(k) >= rankOf(j) /\ (j < k => rankOf(k) > rankOf(j))
      <3>1. rankOf(j) \in Int /\ rankOf(j) <= n /\ n \in Int /\ (j < k => rankOf(j) # n)
        BY <1>2, <1>3, <2>2, <2>3
      <3>. HIDE DEF Ranked
      <3>. QED BY <2>4, <3>1
    <2>. QED BY <2>4, <2>5
  <1>4. \E n \in {1, 2, 3} : Ranked(n) # {} /\ \A m \in {1, 2, 3} : m > n => Ranked(m) = {}
    <2> HIDE DEF rankOf
    <2>. QED BY <1>1, <1>2
  <1>5. \E k \in DOMAIN group :
           \A j \in DOMAIN group : /\ rankOf(k) >= rankOf(j)
                                   /\ j < k => rankOf(k) > rankOf(j)
    <2> HIDE DEF rankOf, Ranked
    <2>. QED BY <1>3, <1>4
  <1>. QED BY <1>5, Zenon DEF Representative
-------------------------------------------------------------------------------
(* Types *)

LEMMA RuleFacts == Rule = 1 .. Len(Severity) /\ Len(Severity) \in Nat
  BY EngineAssumption, LenProperties DEF Rule

LEMMA AlertFields ==
    ASSUME TypeOK
    PROVE  /\ alerts \in Seq(AlertRecord) /\ Len(alerts) \in Nat
           /\ DOMAIN alerts = 1 .. Len(alerts)
           /\ \A k \in DOMAIN alerts :
                /\ alerts[k] \in AlertRecord
                /\ alerts[k].rule \in Rule /\ alerts[k].equipment \in Equipment
                /\ alerts[k].time \in Time /\ alerts[k].status \in Status
                /\ alerts[k].seen \in Nat
                /\ AlertId(alerts[k]) \in Id
  <1>1. alerts \in Seq(AlertRecord)
    BY DEF TypeOK, AlertRecord
  <1>2. Len(alerts) \in Nat /\ DOMAIN alerts = 1 .. Len(alerts)
    BY <1>1, LenProperties
  <1>3. \A k \in DOMAIN alerts : alerts[k] \in AlertRecord
    BY <1>1, <1>2, ElementOfSeq
  <1>4. \A a \in AlertRecord :
          /\ a.rule \in Rule /\ a.equipment \in Equipment /\ a.time \in Time
          /\ a.status \in Status /\ a.seen \in Nat /\ AlertId(a) \in Id
    BY DEF AlertRecord, AlertId, Id
  <1>. QED BY <1>1, <1>2, <1>3, <1>4

LEMMA TypedInit == Init => Typed
  <1> SUFFICES ASSUME Init PROVE Typed
    OBVIOUS
  <1>1. 1 \in 1 .. Len(Severity) + 1
    BY RuleFacts
  <1>2. 1 \in Time /\ 1 \in 1 .. Attempts
    BY EngineAssumption DEF Time
  <1>3. TypeOK
    BY <1>1, <1>2 DEF Init, TypeOK, NoJob, Status
  <1>4. Shape
    BY DEF Init, Shape, Writing, Thread
  <1>. QED BY <1>3, <1>4 DEF Typed

LEMMA TypedTick == Typed /\ Tick => Typed'
  <1> SUFFICES ASSUME Typed, Tick PROVE Typed'
    OBVIOUS
  <1>1. now' \in Time
    BY EngineAssumption DEF Typed, TypeOK, Tick, Time
  <1>. QED BY <1>1 DEF Typed, TypeOK, Shape, Writing, Tick, engineVars, bufferVars, callVars,
                      dbVars, history, counters

LEMMA TypedReceive ==
    ASSUME Typed, NEW t \in Thread, NEW e \in Equipment, NEW holds \in SUBSET Rule,
           Receive(t, e, holds)
    PROVE  Typed'
  <1>1. 1 \in 1 .. Len(Severity) + 1
    BY RuleFacts
  <1>2. /\ pc' = [pc EXCEPT ![t] = "check"]
        /\ job' = [job EXCEPT ![t] = [equipment |-> e, holds |-> holds, seen |-> 0]]
        /\ rule' = [rule EXCEPT ![t] = 1] /\ found' = [found EXCEPT ![t] = <<>>]
        /\ predictions' = predictions + 1
        /\ UNCHANGED <<now, lastTriggered, alerts, buffer, windowStart, lock, sending, row,
                       record, attempt, covered, lastFlush, stale, requests, faults>>
    BY DEF Receive, Goto, engineVars, bufferVars, dbVars, history
  <1>4. /\ pc' \in [Thread -> Place]
        /\ job' \in [Thread -> [equipment : Equipment \cup {NoOne}, holds : SUBSET Rule, seen : Nat]]
        /\ rule' \in [Thread -> 1 .. Len(Severity) + 1]
        /\ found' \in [Thread -> Seq(DOMAIN alerts)]
        /\ predictions' \in Nat
        /\ \A u \in Thread : pc'[u] \in {"notify", "insert"} => pc'[u] = pc[u]
    BY <1>1, <1>2 DEF Typed, TypeOK, Place
  <1>5. TypeOK'
    BY <1>2, <1>4 DEF Typed, TypeOK, Place
  <1>3. Shape'
    BY DEF Typed, TypeOK, Shape, Writing, Receive, Goto, engineVars, bufferVars, dbVars, history
  <1>. QED BY <1>5, <1>3 DEF Typed

LEMMA TypedCheck ==
    ASSUME Typed, NEW t \in Thread, CheckRule(t)
    PROVE  Typed'
  <1>1. rule[t] \in Rule /\ rule[t] + 1 \in 1 .. Len(Severity) + 1
    BY RuleFacts DEF CheckRule
  <1>2. Len(alerts) \in Nat
    BY LenProperties DEF Typed, TypeOK
  <1>3. UNCHANGED <<now, lastTriggered, alerts, buffer, windowStart, lock, found, sending, row,
                   record, attempt, covered, lastFlush, stale, predictions, requests, faults>>
    BY DEF CheckRule, engineVars, bufferVars, dbVars, history, counters
  <1>4. CASE rule' = [rule EXCEPT ![t] = @ + 1] /\ UNCHANGED <<pc, job>>
    <2>1. rule' \in [Thread -> 1 .. Len(Severity) + 1]
      BY <1>1, <1>4 DEF Typed, TypeOK
    <2>2. TypeOK'
      BY <1>3, <1>4, <2>1 DEF Typed, TypeOK
    <2>3. Shape'
      BY <1>3, <1>4 DEF Typed, TypeOK, Shape, Writing, CheckRule
    <2>. QED BY <2>2, <2>3 DEF Typed
  <1>5. CASE /\ job' = [job EXCEPT ![t].seen = Len(alerts)]
             /\ pc' = [pc EXCEPT ![t] = "trigger"] /\ UNCHANGED rule
    <2>1. /\ pc' \in [Thread -> Place]
          /\ job' \in [Thread -> [equipment : Equipment \cup {NoOne}, holds : SUBSET Rule, seen : Nat]]
          /\ \A u \in Thread : job'[u].equipment = job[u].equipment
          /\ \A u \in Thread : pc'[u] \in {"notify", "insert"} => pc'[u] = pc[u]
      <3> DEFINE JobRecord == [equipment : Equipment \cup {NoOne}, holds : SUBSET Rule, seen : Nat]
             Having(x) == [x EXCEPT !.seen = Len(alerts)]
      <3>1. job \in [Thread -> JobRecord] /\ pc \in [Thread -> Place]
        BY DEF Typed, TypeOK, Place
      <3>2. \A x \in JobRecord : Having(x) \in JobRecord /\ Having(x).equipment = x.equipment
        BY <1>2
      <3>3. /\ job'[t] = Having(job[t])
            /\ \A u \in Thread : u # t => job'[u] = job[u]
            /\ DOMAIN job' = Thread /\ job' = [u \in Thread |-> job'[u]]
        BY <1>5, <3>1
      <3>4. \A u \in Thread : job'[u] \in JobRecord /\ job'[u].equipment = job[u].equipment
        <4>. HIDE DEF JobRecord, Having
        <4>. QED BY <3>1, <3>2, <3>3
      <3>5. job' \in [Thread -> JobRecord]
        <4>. HIDE DEF JobRecord
        <4>. QED BY <3>3, <3>4
      <3>6. /\ pc' \in [Thread -> Place]
            /\ \A u \in Thread : pc'[u] \in {"notify", "insert"} => pc'[u] = pc[u]
        BY <1>5, <3>1 DEF Place
      <3>. QED BY <3>4, <3>5, <3>6
    <2>2. TypeOK'
      BY <1>3, <1>5, <2>1 DEF Typed, TypeOK, Place
    <2>3. Shape'
      BY <1>1, <1>3, <1>5, <2>1, SMTT(30) DEF Typed, TypeOK, Shape, Writing, CheckRule
    <2>. QED BY <2>2, <2>3 DEF Typed
  <1>. QED BY <1>4, <1>5 DEF CheckRule, Goto

(* What Trigger does to the alerts. *)
LEMMA Triggered ==
    ASSUME Typed, NEW t \in Thread, Trigger(t), ~UNCHANGED <<alerts, found>>
    PROVE  /\ NewAlert(t) \in AlertRecord
           /\ alerts \in Seq(AlertRecord) /\ alerts' \in Seq(AlertRecord)
           /\ Len(alerts) \in Nat /\ DOMAIN alerts = 1 .. Len(alerts)
           /\ DOMAIN alerts' = DOMAIN alerts \cup {Len(alerts) + 1}
           /\ \A k \in DOMAIN alerts : alerts'[k] = alerts[k]
           /\ alerts'[Len(alerts) + 1] = NewAlert(t)
           /\ Len(alerts) + 1 \notin DOMAIN alerts
  <1>1. job[t].equipment \in Equipment /\ rule[t] \in Rule /\ job[t].seen \in Nat
    BY DEF Typed, TypeOK, Shape, Trigger
  <1>2. NewAlert(t) \in AlertRecord
    BY <1>1 DEF Typed, TypeOK, NewAlert, AlertRecord, Status
  <1>3. alerts \in Seq(AlertRecord)
    BY DEF Typed, TypeOK, AlertRecord
  <1>4. alerts' = Append(alerts, NewAlert(t))
    BY DEF Trigger
  <1>. QED BY <1>2, <1>3, <1>4, Appended

LEMMA Wider ==
    ASSUME NEW S, NEW T, S \subseteq T, NEW q \in Seq(S)
    PROVE  q \in Seq(T)
  OBVIOUS

LEMMA TypedTrigger ==
    ASSUME Typed, NEW t \in Thread, Trigger(t)
    PROVE  Typed'
  <1>1. rule[t] \in Rule /\ rule[t] + 1 \in 1 .. Len(Severity) + 1
    BY RuleFacts DEF Typed, Shape, Trigger
  <1>2. lastTriggered' \in [Rule -> [Equipment -> Time \cup {Never}]]
    BY <1>1 DEF Typed, TypeOK, Trigger
  <1>3. /\ alerts' \in Seq(AlertRecord) /\ DOMAIN alerts \subseteq DOMAIN alerts'
        /\ found' \in [Thread -> Seq(DOMAIN alerts')]
        /\ \A u \in Thread : u # t => found'[u] = found[u]
    <2>1. CASE UNCHANGED <<alerts, found>>
      BY <2>1 DEF Typed, TypeOK, AlertRecord, Trigger
    <2>2. CASE ~UNCHANGED <<alerts, found>>
      <3>1. /\ alerts' \in Seq(AlertRecord) /\ DOMAIN alerts \subseteq DOMAIN alerts'
            /\ Len(alerts) + 1 \in DOMAIN alerts'
        BY <2>2, Triggered
      <3>2. \A u \in Thread : found[u] \in Seq(DOMAIN alerts')
        BY <3>1, Wider DEF Typed, TypeOK
      <3>3. Append(found[t], Len(alerts) + 1) \in Seq(DOMAIN alerts')
        BY <3>1, <3>2, AppendProperties
      <3>4. found' = [found EXCEPT ![t] = Append(@, Len(alerts) + 1)]
        BY <2>2 DEF Trigger
      <3>. QED BY <3>1, <3>2, <3>3, <3>4 DEF Typed, TypeOK
    <2>. QED BY <2>1, <2>2
  <1>4. buffer' \in [Equipment -> Seq(DOMAIN alerts')]
    BY <1>3, Wider DEF Typed, TypeOK, Trigger, bufferVars
  <1>5. TypeOK'
    <2>1. faults' \in Nat
      BY DEF Typed, TypeOK, Trigger
    <2>2. /\ UNCHANGED <<now, windowStart, lock, row, job, sending, record, attempt, covered,
                         lastFlush, stale, predictions, requests>>
          /\ pc' = [pc EXCEPT ![t] = "check"] /\ rule' = [rule EXCEPT ![t] = @ + 1]
      BY DEF Trigger, Goto, bufferVars, dbVars, history
    <2>. QED BY <1>1, <1>2, <1>3, <1>4, <2>1, <2>2 DEF Typed, TypeOK, AlertRecord
  <1>6. Shape'
    <2>1. pc' = [pc EXCEPT ![t] = "check"] /\ UNCHANGED <<job, sending, record>>
      BY DEF Trigger, Goto, dbVars
    <2>2. \A u \in Thread : u # t => /\ pc'[u] = pc[u] /\ rule'[u] = rule[u]
                                     /\ found'[u] = found[u]
      BY <1>3, <2>1 DEF Trigger
    <2>3. pc[t] = "trigger" /\ pc'[t] = "check"
      BY <2>1 DEF Trigger, Typed, TypeOK
    <2>. QED BY <2>1, <2>2, <2>3 DEF Typed, Shape, Writing, Thread
  <1>. QED BY <1>5, <1>6 DEF Typed

LEMMA TypedEnd ==
    ASSUME Typed, NEW t \in Thread, EndEvaluation(t)
    PROVE  Typed'
  <1>1. 1 \in 1 .. Len(Severity) + 1
    BY RuleFacts
  <1>2. /\ rule' = [rule EXCEPT ![t] = 1]
        /\ UNCHANGED <<now, lastTriggered, alerts, buffer, windowStart, lock, found, sending, row,
                       record, attempt, covered, lastFlush, stale, predictions, requests, faults>>
    BY DEF EndEvaluation, engineVars, bufferVars, dbVars, history, counters
  <1>3. \/ /\ found[t] = <<>> /\ pc' = [pc EXCEPT ![t] = "idle"]
           /\ job' = [job EXCEPT ![t] = NoJob]
        \/ found[t] # <<>> /\ pc' = [pc EXCEPT ![t] = "buffer"] /\ job' = job
    BY DEF EndEvaluation, Goto
  <1>4. /\ pc' \in [Thread -> Place]
        /\ job' \in [Thread -> [equipment : Equipment \cup {NoOne}, holds : SUBSET Rule, seen : Nat]]
        /\ rule' \in [Thread -> 1 .. Len(Severity) + 1]
        /\ \A u \in Thread : pc'[u] \in {"notify", "insert"} => pc'[u] = pc[u]
    <2> DEFINE JobRecord == [equipment : Equipment \cup {NoOne}, holds : SUBSET Rule, seen : Nat]
    <2>1. NoJob \in JobRecord
      BY DEF NoJob
    <2>2. job \in [Thread -> JobRecord] /\ pc \in [Thread -> Place]
      BY DEF Typed, TypeOK, Place
    <2>3. job' \in [Thread -> JobRecord]
      <3>. HIDE DEF JobRecord
      <3>. QED BY <1>3, <2>1, <2>2
    <2>4. /\ pc' \in [Thread -> Place]
          /\ \A u \in Thread : pc'[u] \in {"notify", "insert"} => pc'[u] = pc[u]
      BY <1>3, <2>2 DEF Place
    <2>. QED BY <1>1, <1>2, <2>3, <2>4 DEF Typed, TypeOK
  <1>5. TypeOK'
    BY <1>2, <1>4 DEF Typed, TypeOK, Place
  <1>6. Shape'
    <2>1. pc[t] = "check" /\ job[t].equipment \in Equipment /\ pc \in [Thread -> Place]
      BY DEF EndEvaluation, Typed, TypeOK, Shape, Place
    <2>2. CASE found[t] = <<>> /\ pc' = [pc EXCEPT ![t] = "idle"] /\ job' = [job EXCEPT ![t] = NoJob]
      <3>1. \A u \in Thread : u # t => pc'[u] = pc[u] /\ job'[u] = job[u] /\ rule'[u] = rule[u]
        BY <1>2, <2>2
      <3>2. pc'[t] = "idle"
        BY <2>1, <2>2
      <3>. QED BY <1>2, <2>1, <2>2, <3>1, <3>2 DEF Typed, Shape, Writing
    <2>3. CASE found[t] # <<>> /\ pc' = [pc EXCEPT ![t] = "buffer"] /\ job' = job
      <3>1. \A u \in Thread : u # t => pc'[u] = pc[u] /\ rule'[u] = rule[u]
        BY <1>2, <2>3
      <3>2. pc'[t] = "buffer"
        BY <2>1, <2>3
      <3>. QED BY <1>2, <2>1, <2>3, <3>1, <3>2 DEF Typed, Shape, Writing
    <2>. QED BY <1>3, <2>2, <2>3
  <1>. QED BY <1>5, <1>6 DEF Typed
(* What BufferAlerts leaves alone, and the two things it may do. *)
LEMMA Buffering ==
    ASSUME Typed, NEW t \in Thread, BufferAlerts(t)
    PROVE  LET e == job[t].equipment  group == buffer[e] \o found[t]
           IN  /\ e \in Equipment /\ group \in Seq(DOMAIN alerts)
               /\ pc[t] = "buffer" /\ lock = NoOne
               /\ found' = [found EXCEPT ![t] = <<>>] /\ job' = [job EXCEPT ![t] = NoJob]
               /\ UNCHANGED <<now, lastTriggered, alerts, rule, row, record, attempt, stale,
                              predictions, requests, faults>>
               /\ \/ /\ buffer' = [buffer EXCEPT ![e] = group]
                     /\ windowStart' \in [Equipment -> Time \cup {Never}]
                     /\ pc' = [pc EXCEPT ![t] = "idle"]
                     /\ UNCHANGED <<lock, sending, covered, lastFlush>>
                  \/ /\ buffer' = [buffer EXCEPT ![e] = <<>>]
                     /\ windowStart' \in [Equipment -> Time \cup {Never}]
                     /\ pc' = [pc EXCEPT ![t] = "notify"]
                     /\ lock' = t
                     /\ sending' = [sending EXCEPT ![t] = group[Representative(group)]]
                     /\ covered' = covered \cup AlertsOf(group)
                     /\ lastFlush' = [lastFlush EXCEPT ![e] = now]
  <1> DEFINE e == job[t].equipment
             group == buffer[e] \o found[t]
  <1>1. pc[t] = "buffer" /\ e \in Equipment
    BY DEF BufferAlerts, Typed, Shape
  <1>2. group \in Seq(DOMAIN alerts)
    BY <1>1, ConcatProperties DEF Typed, TypeOK
  <1>3. /\ UNCHANGED <<now, lastTriggered, alerts, rule, row, record, attempt, stale,
                       predictions, requests, faults>>
        /\ found' = [found EXCEPT ![t] = <<>>] /\ job' = [job EXCEPT ![t] = NoJob]
        /\ lock = NoOne
    BY DEF BufferAlerts, engineVars, dbVars, counters
  <1>4. CASE /\ ~Expired(e) /\ Hold(e, group) /\ Goto(t, "idle")
             /\ UNCHANGED <<lock, sending, covered, lastFlush>>
    <2>1. windowStart' \in [Equipment -> Time \cup {Never}]
      BY <1>1, <1>4 DEF Hold, Typed, TypeOK
    <2>. QED BY <1>1, <1>2, <1>3, <1>4, <2>1 DEF Hold, Goto
  <1>5. CASE /\ Expired(e) /\ FlushBuffer(t, e, group)
             /\ buffer' = [buffer EXCEPT ![e] = <<>>]
             /\ windowStart' = [windowStart EXCEPT ![e] = Never]
    <2>1. windowStart' \in [Equipment -> Time \cup {Never}]
      BY <1>1, <1>5 DEF Typed, TypeOK
    <2>. QED BY <1>1, <1>2, <1>3, <1>5, <2>1 DEF FlushBuffer, Goto
  <1>. QED BY <1>4, <1>5 DEF BufferAlerts

LEMMA TypedBuffer ==
    ASSUME Typed, NEW t \in Thread, BufferAlerts(t)
    PROVE  Typed'
  <1> DEFINE e == job[t].equipment
             group == buffer[e] \o found[t]
             JobRecord == [equipment : Equipment \cup {NoOne}, holds : SUBSET Rule, seen : Nat]
  <1>1. /\ e \in Equipment /\ group \in Seq(DOMAIN alerts)
        /\ pc[t] = "buffer" /\ lock = NoOne
        /\ found' = [found EXCEPT ![t] = <<>>] /\ job' = [job EXCEPT ![t] = NoJob]
        /\ UNCHANGED <<now, lastTriggered, alerts, rule, row, record, attempt, stale,
                       predictions, requests, faults>>
    BY Buffering
  <1>2. found' \in [Thread -> Seq(DOMAIN alerts)]
    BY <1>1 DEF Typed, TypeOK
  <1>3. job' \in [Thread -> JobRecord]
    <2>1. NoJob \in JobRecord
      BY DEF NoJob
    <2>. HIDE DEF JobRecord
    <2>2. job \in [Thread -> JobRecord]
      BY DEF Typed, TypeOK, JobRecord
    <2>. QED BY <1>1, <2>1, <2>2
  <1>4. /\ \A u \in Thread : u # t => /\ pc[u] \notin {"notify", "insert"}
                                      /\ job'[u] = job[u] /\ found'[u] = found[u]
        /\ pc \in [Thread -> Place] /\ found'[t] = <<>>
    <2>1. NoOne \notin Thread
      BY DEF NoOne, Thread
    <2>. QED BY <1>1, <2>1 DEF Typed, TypeOK, Place
  <1>5. CASE /\ buffer' = [buffer EXCEPT ![e] = group]
             /\ windowStart' \in [Equipment -> Time \cup {Never}]
             /\ pc' = [pc EXCEPT ![t] = "idle"]
             /\ UNCHANGED <<lock, sending, covered, lastFlush>>
    <2>1. /\ buffer' \in [Equipment -> Seq(DOMAIN alerts)]
          /\ pc' \in [Thread -> Place] /\ pc'[t] = "idle"
          /\ \A u \in Thread : u # t => pc'[u] = pc[u]
      <3>. HIDE DEF e, group
      <3>. QED BY <1>1, <1>4, <1>5 DEF Typed, TypeOK, Place
    <2>2. TypeOK'
      BY <1>1, <1>2, <1>3, <1>4, <1>5, <2>1 DEF Typed, TypeOK, Place
    <2>3. Shape'
      BY <1>1, <1>4, <1>5, <2>1 DEF Typed, Shape, Writing
    <2>. QED BY <2>2, <2>3 DEF Typed
  <1>6. CASE /\ buffer' = [buffer EXCEPT ![e] = <<>>]
             /\ windowStart' \in [Equipment -> Time \cup {Never}]
             /\ pc' = [pc EXCEPT ![t] = "notify"]
             /\ lock' = t
             /\ sending' = [sending EXCEPT ![t] = group[Representative(group)]]
             /\ covered' = covered \cup AlertsOf(group)
             /\ lastFlush' = [lastFlush EXCEPT ![e] = now]
    <2>1. group # <<>>
      <3>1. buffer[e] \in Seq(DOMAIN alerts) /\ found[t] \in Seq(DOMAIN alerts) /\ found[t] # <<>>
        BY <1>1 DEF Typed, TypeOK, Shape
      <3>2. 1 \in DOMAIN found[t]
        <4>1. Len(found[t]) \in Nat \ {0} /\ DOMAIN found[t] = 1 .. Len(found[t])
          BY <3>1, EmptySeq, LenProperties
        <4>. QED BY <4>1
      <3>3. 1 + Len(buffer[e]) \in DOMAIN group
        BY <3>1, <3>2, Joined
      <3>4. DOMAIN <<>> = {}
        OBVIOUS
      <3>. HIDE DEF group
      <3>. QED BY <3>3, <3>4
    <2>2. group[Representative(group)] \in DOMAIN alerts /\ AlertsOf(group) \subseteq DOMAIN alerts
      <3>1. Representative(group) \in DOMAIN group
        BY <1>1, <2>1, RepresentativeIn DEF Typed
      <3>2. \A k \in DOMAIN group : group[k] \in DOMAIN alerts
        <4>. HIDE DEF group
        <4>. QED BY <1>1, ElementOfSeq, LenProperties
      <3>. QED BY <3>1, <3>2 DEF AlertsOf
    <2>3. 0 \notin DOMAIN alerts
      BY LenProperties DEF Typed, TypeOK
    <2>4. /\ buffer' \in [Equipment -> Seq(DOMAIN alerts)]
          /\ pc' \in [Thread -> Place] /\ pc'[t] = "notify"
          /\ \A u \in Thread : u # t => pc'[u] = pc[u] /\ sending'[u] = sending[u]
          /\ sending' \in [Thread -> {0} \cup DOMAIN alerts] /\ sending'[t] # 0
          /\ lastFlush' \in [Equipment -> Time \cup {Never}]
          /\ covered' \subseteq DOMAIN alerts
      <3> DEFINE first == group[Representative(group)]
      <3>. HIDE DEF e, group, first
      <3>1. buffer' \in [Equipment -> Seq(DOMAIN alerts)]
        BY <1>1, <1>6 DEF Typed, TypeOK
      <3>2. /\ pc' \in [Thread -> Place] /\ pc'[t] = "notify"
            /\ \A u \in Thread : u # t => pc'[u] = pc[u]
        BY <1>4, <1>6 DEF Place
      <3>3. first \in DOMAIN alerts /\ first # 0 /\ sending' = [sending EXCEPT ![t] = first]
        BY <1>6, <2>2, <2>3 DEF first
      <3>4. /\ sending' \in [Thread -> {0} \cup DOMAIN alerts] /\ sending'[t] # 0
            /\ \A u \in Thread : u # t => sending'[u] = sending[u]
        BY <3>3 DEF Typed, TypeOK
      <3>5. /\ lastFlush' \in [Equipment -> Time \cup {Never}]
            /\ covered' \subseteq DOMAIN alerts
        BY <1>1, <1>6, <2>2 DEF Typed, TypeOK
      <3>. QED BY <3>1, <3>2, <3>4, <3>5
    <2>5. TypeOK'
      BY <1>1, <1>2, <1>3, <1>4, <1>6, <2>4 DEF Typed, TypeOK, Place
    <2>6. Shape'
      <3>1. \A u \in Thread : u # t => /\ pc'[u] = pc[u] /\ job'[u] = job[u] /\ rule'[u] = rule[u]
                                       /\ found'[u] = found[u] /\ sending'[u] = sending[u]
                                       /\ record'[u] = record[u]
        BY <1>1, <1>4, <2>4
      <3>2. pc'[t] = "notify" /\ found'[t] = <<>> /\ sending'[t] # 0
        BY <1>4, <2>4
      <3>. QED BY <1>1, <1>4, <3>1, <3>2 DEF Typed, Shape, Writing, Thread
    <2>. QED BY <2>5, <2>6 DEF Typed
  <1>. QED BY <1>5, <1>6, Buffering
LEMMA TypedSnapshot ==
    ASSUME Typed, NEW t \in Thread, Snapshot(t)
    PROVE  Typed'
  <1> DEFINE k == sending[t]
             new == [id |-> AlertId(alerts[k]), status |-> alerts[k].status]
  <1>1. k \in DOMAIN alerts /\ pc[t] = "notify" /\ pc \in [Thread -> Place]
    BY DEF Snapshot, Typed, TypeOK, Shape, Place
  <1>2. new \in [id : Id, status : Status]
    <2>1. alerts[k] \in AlertRecord
      BY <1>1, AlertFields DEF Typed
    <2>. QED BY <2>1 DEF AlertId, Id, AlertRecord
  <1>3. /\ record' = [record EXCEPT ![t] = new] /\ attempt' = [attempt EXCEPT ![t] = 1]
        /\ pc' = [pc EXCEPT ![t] = "insert"]
        /\ UNCHANGED <<now, lastTriggered, alerts, buffer, windowStart, lock, job, rule, found,
                       sending, row, covered, lastFlush, stale, predictions, requests, faults>>
    BY DEF Snapshot, Goto, engineVars, bufferVars, callVars, history, counters
  <1>4. /\ record' \in [Thread -> [id : Id, status : Status] \cup {NoRecord}]
        /\ record'[t] \in [id : Id, status : Status]
        /\ \A u \in Thread : u # t => pc'[u] = pc[u] /\ record'[u] = record[u]
        /\ pc'[t] = "insert" /\ pc' \in [Thread -> Place]
        /\ attempt' \in [Thread -> 1 .. Attempts]
    <2>. HIDE DEF new
    <2>. QED BY <1>1, <1>2, <1>3, EngineAssumption DEF Typed, TypeOK, Place
  <1>5. TypeOK'
    <2>1. \A u \in Thread : pc'[u] \in {"notify", "insert"} => lock' = u
      BY <1>1, <1>3, <1>4 DEF Typed, TypeOK
    <2>. QED BY <1>3, <1>4, <2>1 DEF Typed, TypeOK, Place
  <1>6. Shape'
    BY <1>1, <1>3, <1>4 DEF Typed, Shape, Writing, Thread
  <1>. QED BY <1>5, <1>6 DEF Typed

LEMMA Applied ==
    ASSUME Typed, NEW t \in Thread, Writing(t), Apply(t)
    PROVE  /\ row' \in [Id -> Status \cup {"absent"}]
           /\ record[t] \in [id : Id, status : Status]
           /\ \A i \in Id : i # record[t].id => row'[i] = row[i]
           /\ row'[record[t].id] = IF pc[t] = "update" /\ row[record[t].id] = "absent"
                                   THEN "absent" ELSE record[t].status
  <1>1. record[t] \in [id : Id, status : Status] /\ row \in [Id -> Status \cup {"absent"}]
    BY DEF Typed, TypeOK, Shape
  <1>2. record[t].id \in Id /\ record[t].status \in Status
    BY <1>1
  <1>. QED BY <1>1, <1>2 DEF Apply

(* A call that returns leaves only its place behind. *)
LEMMA TypedReturn ==
    ASSUME Typed, NEW t \in Thread, Writing(t), Return(t),
           row' \in [Id -> Status \cup {"absent"}],
           stale' \subseteq Id, faults' \in Nat,
           UNCHANGED <<now, lastTriggered, alerts, buffer, windowStart, job, rule, found,
                       covered, lastFlush, predictions, requests>>
    PROVE  Typed'
  <1>1. pc' = [pc EXCEPT ![t] = "idle"] /\ pc \in [Thread -> Place]
    BY DEF Return, Goto, Typed, TypeOK, Place
  <1>2. /\ record' \in [Thread -> [id : Id, status : Status] \cup {NoRecord}]
        /\ sending' \in [Thread -> {0} \cup DOMAIN alerts]
        /\ attempt' \in [Thread -> 1 .. Attempts]
        /\ \A u \in Thread : u # t => /\ pc'[u] = pc[u] /\ record'[u] = record[u]
                                      /\ sending'[u] = sending[u]
        /\ pc'[t] = "idle" /\ pc' \in [Thread -> Place]
    <2>1. NoRecord \in [id : Id, status : Status] \cup {NoRecord} /\ 1 \in 1 .. Attempts
      BY EngineAssumption
    <2>. QED BY <1>1, <2>1 DEF Return, Typed, TypeOK, Place
  <1>3. lock' \in Thread \cup {NoOne} /\ \A u \in Thread : u # t /\ lock = u => lock' = u
    BY DEF Return, Unlock, Typed, TypeOK
  <1>4. TypeOK'
    <2>1. \A u \in Thread : pc'[u] \in {"notify", "insert"} => lock' = u
      BY <1>2, <1>3 DEF Typed, TypeOK
    <2>. QED BY <1>2, <1>3, <2>1 DEF Typed, TypeOK, Place
  <1>5. found[t] = <<>> /\ pc["consumer"] # "update"
    BY DEF Writing, Typed, Shape
  <1>6. Shape'
    BY <1>2, <1>5 DEF Typed, Shape, Writing, Thread
  <1>. QED BY <1>4, <1>6 DEF Typed

LEMMA TypedExecute ==
    ASSUME Typed, NEW t \in Thread, Execute(t)
    PROVE  Typed'
  <1>1. Writing(t) /\ Apply(t) /\ Return(t)
    BY DEF Execute
  <1>2. row' \in [Id -> Status \cup {"absent"}] /\ stale' \subseteq Id /\ faults' \in Nat
    BY <1>1, Applied DEF Execute, history, counters, Typed, TypeOK
  <1>. QED BY <1>1, <1>2, TypedReturn DEF Execute, engineVars, history, counters

LEMMA TypedGiveUp ==
    ASSUME Typed, NEW t \in Thread, NEW applied \in BOOLEAN, GiveUp(t, applied)
    PROVE  Typed'
  <1>1. Writing(t) /\ Return(t) /\ (IF applied THEN Apply(t) ELSE UNCHANGED row)
    BY DEF GiveUp
  <1>2. row' \in [Id -> Status \cup {"absent"}]
    BY <1>1, Applied DEF Typed, TypeOK
  <1>3. stale' \subseteq Id /\ faults' \in Nat
    <2>1. record[t].id \in Id
      BY <1>1 DEF Typed, Shape
    <2>. QED BY <2>1 DEF GiveUp, Typed, TypeOK
  <1>. QED BY <1>1, <1>2, <1>3, TypedReturn DEF GiveUp, engineVars

LEMMA TypedRetry ==
    ASSUME Typed, NEW t \in Thread, NEW applied \in BOOLEAN, Retry(t, applied)
    PROVE  Typed'
  <1>1. /\ Writing(t) /\ (IF applied THEN Apply(t) ELSE UNCHANGED row)
        /\ attempt' = [attempt EXCEPT ![t] = @ + 1] /\ attempt[t] < Attempts
        /\ faults' = faults + 1
        /\ UNCHANGED <<now, lastTriggered, alerts, buffer, windowStart, lock, job, rule, found,
                       sending, record, pc, covered, lastFlush, stale, predictions, requests>>
    BY DEF Retry, engineVars, bufferVars, callVars, history
  <1>2. row' \in [Id -> Status \cup {"absent"}]
    BY <1>1, Applied DEF Typed, TypeOK
  <1>3. attempt' \in [Thread -> 1 .. Attempts] /\ faults' \in Nat
    BY <1>1, EngineAssumption DEF Typed, TypeOK
  <1>. QED BY <1>1, <1>2, <1>3 DEF Typed, TypeOK, Shape, Writing

(* What a request does to the alerts: one of those with its id changes its *)
(* status.                                                                 *)
LEMMA StatusSet ==
    ASSUME Typed, NEW i, ActiveWith(i) # {}, NEW status \in Status, SetStatus(i, status)
    PROVE  \E k \in ActiveWith(i) :
             /\ \A j \in ActiveWith(i) : k <= j
             /\ k \in DOMAIN alerts /\ AlertId(alerts[k]) = i /\ i \in Id
             /\ alerts' \in Seq(AlertRecord) /\ DOMAIN alerts' = DOMAIN alerts
             /\ Len(alerts') = Len(alerts)
             /\ \A j \in DOMAIN alerts :
                  /\ alerts'[j].rule = alerts[j].rule
                  /\ alerts'[j].equipment = alerts[j].equipment
                  /\ alerts'[j].time = alerts[j].time
                  /\ alerts'[j].seen = alerts[j].seen
                  /\ alerts'[j].status = IF j = k THEN status ELSE alerts[j].status
  <1> DEFINE k == CHOOSE k \in ActiveWith(i) : \A j \in ActiveWith(i) : k <= j
  <1>1. ActiveWith(i) \in SUBSET Nat
    BY LenProperties, SMTT(30) DEF ActiveWith, Typed, TypeOK
  <1>2. k \in ActiveWith(i) /\ \A j \in ActiveWith(i) : k <= j
    <2>1. \E n \in ActiveWith(i) : \A j \in ActiveWith(i) : n <= j
      BY <1>1, LeastExists
    <2>. QED BY <2>1, Zenon
  <1>3. alerts' = [alerts EXCEPT ![k].status = status]
    BY DEF SetStatus
  <1>. HIDE DEF k
  <1>4. k \in DOMAIN alerts /\ AlertId(alerts[k]) = i
    BY <1>2 DEF ActiveWith
  <1>5. alerts \in Seq(AlertRecord) /\ alerts[k] \in AlertRecord
    BY <1>4, AlertFields DEF Typed
  <1>6. i \in Id
    BY <1>4, <1>5 DEF AlertId, Id, AlertRecord
  <1> DEFINE changed == [alerts[k] EXCEPT !.status = status]
  <1>7. /\ changed \in AlertRecord /\ changed.status = status
        /\ changed.rule = alerts[k].rule /\ changed.equipment = alerts[k].equipment
        /\ changed.time = alerts[k].time /\ changed.seen = alerts[k].seen
    BY <1>5 DEF AlertRecord
  <1>8. alerts' = [alerts EXCEPT ![k] = changed]
    BY <1>3
  <1>9. /\ alerts' \in Seq(AlertRecord) /\ DOMAIN alerts' = DOMAIN alerts
        /\ Len(alerts') = Len(alerts)
    <2>. HIDE DEF changed
    <2>. QED BY <1>4, <1>5, <1>7, <1>8, ExceptSeq, LenProperties
  <1>10. \A j \in DOMAIN alerts : alerts'[j] = IF j = k THEN changed ELSE alerts[j]
    <2>. HIDE DEF changed
    <2>. QED BY <1>8
  <1>. QED BY <1>2, <1>4, <1>6, <1>7, <1>9, <1>10
LEMMA TypedRequest ==
    ASSUME Typed, NEW i, ActiveWith(i) # {}, NEW status \in Status, SetStatus(i, status)
    PROVE  Typed'
  <1>1. /\ i \in Id /\ alerts' \in Seq(AlertRecord) /\ DOMAIN alerts' = DOMAIN alerts
        /\ Len(alerts') = Len(alerts)
    BY StatusSet
  <1> DEFINE new == [id |-> i, status |-> status]
  <1>2. /\ pc["api"] = "idle" /\ requests' = requests + 1
        /\ record' = [record EXCEPT !["api"] = new]
        /\ pc' = [pc EXCEPT !["api"] = "update"]
        /\ stale' \subseteq stale \cup {i}
        /\ UNCHANGED <<now, lastTriggered, buffer, windowStart, lock, job, rule, found, sending,
                       row, attempt, covered, lastFlush, predictions, faults>>
    BY DEF SetStatus, Goto, bufferVars, callVars
  <1>3. new \in [id : Id, status : Status] /\ "api" \in Thread /\ "api" # "consumer"
    BY <1>1 DEF Thread
  <1>4. /\ record' \in [Thread -> [id : Id, status : Status] \cup {NoRecord}]
        /\ record'["api"] \in [id : Id, status : Status]
        /\ pc' \in [Thread -> Place] /\ pc'["api"] = "update"
        /\ \A u \in Thread : u # "api" => pc'[u] = pc[u] /\ record'[u] = record[u]
    <2>. HIDE DEF new
    <2>. QED BY <1>2, <1>3 DEF Typed, TypeOK, Place
  <1>5. TypeOK'
    <2>1. requests' \in Nat /\ stale' \subseteq Id
      BY <1>1, <1>2 DEF Typed, TypeOK
    <2>2. \A u \in Thread : pc'[u] \in {"notify", "insert"} => lock' = u
      BY <1>2, <1>4 DEF Typed, TypeOK
    <2>. QED BY <1>1, <1>2, <1>4, <2>1, <2>2 DEF Typed, TypeOK, AlertRecord, Place
  <1>6. Shape'
    BY <1>2, <1>3, <1>4 DEF Typed, Shape, Writing
  <1>. QED BY <1>5, <1>6 DEF Typed

LEMMA TypedStep == Typed /\ [Next]_vars => Typed'
  <1> SUFFICES ASSUME Typed, [Next]_vars PROVE Typed'
    OBVIOUS
  <1>1. CASE Tick
    BY <1>1, TypedTick
  <1>2. ASSUME NEW t \in Thread, ThreadStep(t) PROVE Typed'
    BY <1>2, TypedCheck, TypedTrigger, TypedEnd, TypedBuffer, TypedSnapshot, TypedExecute,
       TypedRetry, TypedGiveUp DEF ThreadStep
  <1>3. ASSUME NEW t \in Thread, NEW e \in Equipment, NEW holds \in SUBSET Rule \ {{}},
               Receive(t, e, holds)
        PROVE  Typed'
    BY <1>3, TypedReceive
  <1>4. ASSUME NEW k \in DOMAIN alerts, NEW status \in Status,
               SetStatus(AlertId(alerts[k]), status)
        PROVE  Typed'
    BY <1>4, TypedRequest DEF ActiveWith
  <1>5. CASE UNCHANGED vars
    BY <1>5 DEF vars, engineVars, bufferVars, callVars, dbVars, history, counters, Typed, TypeOK,
                Shape, Writing
  <1>. QED BY <1>1, <1>2, <1>3, <1>4, <1>5 DEF Next, Acknowledge, Resolve, Status

LEMMA AlwaysTyped == Spec => []Typed
  BY TypedInit, TypedStep, PTL DEF Spec

(* Every variable of the engine keeps its type, and a thread that sends    *)
(* holds the lock.                                                         *)
THEOREM EngineTypeCorrect == Spec => []TypeOK
  <1>1. Typed => TypeOK
    BY DEF Typed
  <1>. QED BY <1>1, AlwaysTyped, PTL

-------------------------------------------------------------------------------
(* Cooldowns *)

(* Every step but Tick, CheckRule and Trigger leaves these alone, a        *)
(* request only changes a status.                                          *)
TimesKept ==
    /\ UNCHANGED <<now, lastTriggered>> /\ DOMAIN alerts' = DOMAIN alerts
    /\ Len(alerts') = Len(alerts)
    /\ \A k \in DOMAIN alerts : /\ alerts'[k].rule = alerts[k].rule
                                /\ alerts'[k].equipment = alerts[k].equipment
                                /\ alerts'[k].time = alerts[k].time
                                /\ alerts'[k].seen = alerts[k].seen
    /\ \A t \in Thread : pc'[t] = "trigger" => /\ pc[t] = "trigger"
                                               /\ job'[t] = job[t] /\ rule'[t] = rule[t]

CooldownInv == Typed /\ Timed /\ CooldownNeedsOverlap

LEMMA KeptTimes ==
    ASSUME CooldownInv, TimesKept
    PROVE  Timed' /\ CooldownNeedsOverlap'
  BY DEF CooldownInv, Timed, CooldownNeedsOverlap, TimesKept

LEMMA OthersKeepTimes ==
    ASSUME Typed, NEW t \in Thread,
           \/ EndEvaluation(t) \/ BufferAlerts(t) \/ Snapshot(t) \/ Execute(t)
           \/ \E applied \in BOOLEAN : Retry(t, applied) \/ GiveUp(t, applied)
           \/ \E e \in Equipment, holds \in SUBSET Rule : Receive(t, e, holds)
    PROVE  TimesKept
  <1>1. pc \in [Thread -> Place]
    BY DEF Typed, TypeOK, Place
  <1>2. CASE EndEvaluation(t)
    <2>1. UNCHANGED <<now, lastTriggered, alerts>> /\ rule' = [rule EXCEPT ![t] = 1]
      BY <1>2 DEF EndEvaluation, engineVars
    <2>2. pc'[t] # "trigger" /\ \A u \in Thread : u # t => pc'[u] = pc[u] /\ job'[u] = job[u]
      BY <1>1, <1>2 DEF EndEvaluation, Goto, Typed, TypeOK
    <2>3. \A u \in Thread : u # t => rule'[u] = rule[u]
      BY <2>1 DEF Typed, TypeOK
    <2>. QED BY <2>1, <2>2, <2>3 DEF TimesKept
  <1>3. CASE BufferAlerts(t)
    <2>1. UNCHANGED <<now, lastTriggered, alerts, rule>> /\ job' = [job EXCEPT ![t] = NoJob]
      BY <1>3, Buffering
    <2>2. pc'[t] # "trigger" /\ \A u \in Thread : u # t => pc'[u] = pc[u]
      BY <1>1, <1>3, Buffering
    <2>3. \A u \in Thread : u # t => job'[u] = job[u]
      BY <2>1 DEF Typed, TypeOK
    <2>. QED BY <2>1, <2>2, <2>3 DEF TimesKept
  <1>4. CASE Snapshot(t)
    BY <1>1, <1>4 DEF Snapshot, Goto, TimesKept, engineVars, callVars
  <1>5. CASE Execute(t)
    BY <1>1, <1>5 DEF Execute, Return, Goto, TimesKept, engineVars
  <1>6. CASE \E applied \in BOOLEAN : Retry(t, applied)
    BY <1>1, <1>6 DEF Retry, TimesKept, engineVars, callVars
  <1>7. CASE \E applied \in BOOLEAN : GiveUp(t, applied)
    BY <1>1, <1>7 DEF GiveUp, Return, Goto, TimesKept, engineVars
  <1>8. CASE \E e \in Equipment, holds \in SUBSET Rule : Receive(t, e, holds)
    BY <1>1, <1>8 DEF Receive, Goto, TimesKept, engineVars
  <1>. QED BY <1>2, <1>3, <1>4, <1>5, <1>6, <1>7, <1>8

LEMMA RequestKeepsTimes ==
    ASSUME Typed, NEW i, ActiveWith(i) # {}, NEW status \in Status, SetStatus(i, status)
    PROVE  TimesKept
  <1>1. UNCHANGED <<now, lastTriggered, job, rule>>
        /\ pc' = [pc EXCEPT !["api"] = "update"] /\ pc \in [Thread -> Place]
    BY DEF SetStatus, Goto, callVars, Typed, TypeOK, Place
  <1>. QED BY <1>1, StatusSet DEF TimesKept

LEMMA CheckKeepsTimes ==
    ASSUME CooldownInv, NEW t \in Thread, CheckRule(t)
    PROVE  Timed' /\ CooldownNeedsOverlap'
  <1>1. UNCHANGED <<now, lastTriggered, alerts>>
    BY DEF CheckRule, engineVars
  <1>2. CASE UNCHANGED <<pc, job>>
    <2>1. pc[t] = "check" /\ \A u \in Thread : u # t => rule'[u] = rule[u]
      BY DEF CheckRule, CooldownInv, Typed, TypeOK
    <2>2. TimesKept
      BY <1>1, <1>2, <2>1 DEF TimesKept
    <2>. QED BY <2>2, KeptTimes
  <1>3. CASE /\ ~CoolingDown(rule[t], job[t].equipment) /\ UNCHANGED rule
             /\ job' = [job EXCEPT ![t].seen = Len(alerts)]
             /\ pc' = [pc EXCEPT ![t] = "trigger"]
    <2>1. /\ rule[t] \in Rule /\ job[t].equipment \in Equipment /\ Cooldown[rule[t]] \in Nat
          /\ lastTriggered[rule[t]][job[t].equipment] \in Int /\ now \in Int
      BY EngineAssumption, SMTT(30) DEF CheckRule, CooldownInv, Typed, TypeOK, Shape, Rule, Time, Never
    <2>2. \A u \in Thread : u # t => job'[u] = job[u] /\ pc'[u] = pc[u]
      BY <1>3 DEF CooldownInv, Typed, TypeOK
    <2>3. job'[t].equipment = job[t].equipment
      BY <1>3 DEF CooldownInv, Typed, TypeOK
    <2>4. ASSUME NEW j \in DOMAIN alerts,
                 alerts[j].rule = rule[t], alerts[j].equipment = job[t].equipment
          PROVE  now - alerts[j].time >= Cooldown[rule[t]]
      <3>1. /\ alerts[j].time <= lastTriggered[rule[t]][job[t].equipment]
            /\ alerts[j].time \in Time
        BY <2>4, AlertFields DEF CooldownInv, Typed, Timed
      <3>. QED BY <1>3, <2>1, <3>1 DEF CoolingDown, Time, Never
    <2>5. Timed'
      <3>1. Len(alerts) \in Nat /\ \A k \in DOMAIN alerts : k <= Len(alerts)
        BY AlertFields DEF CooldownInv, Typed
      <3>2. job'[t].seen = Len(alerts)
        BY <1>3 DEF CooldownInv, Typed, TypeOK
      <3>3. \A u \in Thread : pc'[u] = "trigger" => job'[u].seen <= Len(alerts)
        BY <2>2, <3>1, <3>2 DEF CooldownInv, Timed
      <3>4. \A u \in Thread : pc'[u] = "trigger" =>
              \A j \in DOMAIN alerts :
                 /\ j <= job'[u].seen
                 /\ alerts[j].rule = rule'[u] /\ alerts[j].equipment = job'[u].equipment
                 => now - alerts[j].time >= Cooldown[rule'[u]]
        BY <1>3, <2>2, <2>3, <2>4 DEF CooldownInv, Timed
      <3>. QED BY <1>1, <3>3, <3>4 DEF CooldownInv, Timed
    <2>. QED BY <1>1, <2>5 DEF CooldownInv, CooldownNeedsOverlap
  <1>. QED BY <1>2, <1>3 DEF CheckRule, Goto

LEMMA TickKeepsTimes ==
    ASSUME CooldownInv, Tick
    PROVE  Timed' /\ CooldownNeedsOverlap'
  <1>1. now' = now + 1 /\ UNCHANGED <<lastTriggered, alerts, pc, job, rule>>
    BY DEF Tick, engineVars, callVars
  <1>2. now \in Int /\ \A k \in DOMAIN alerts : alerts[k].time \in Int
    BY AlertFields, SMTT(30) DEF CooldownInv, Typed, TypeOK, Time
  <1>3. \A r \in Rule, e \in Equipment : lastTriggered[r][e] \in Int
    BY DEF CooldownInv, Typed, TypeOK, Time, Never
  <1>4. \A t \in Thread : pc[t] = "trigger" => Cooldown[rule[t]] \in Int
    BY EngineAssumption DEF CooldownInv, Typed, Shape, Rule
  <1>5. Timed'
    BY <1>1, <1>2, <1>3, <1>4 DEF CooldownInv, Timed
  <1>. QED BY <1>1, <1>5 DEF CooldownInv, CooldownNeedsOverlap
LEMMA TriggerKeepsTimes ==
    ASSUME CooldownInv, NEW t \in Thread, Trigger(t)
    PROVE  Timed' /\ CooldownNeedsOverlap'
  <1> DEFINE r == rule[t]
             e == job[t].equipment
  <1>1. /\ r \in Rule /\ e \in Equipment /\ Cooldown[r] \in Nat /\ job[t].seen \in Nat
        /\ pc[t] = "trigger" /\ now \in Int
    <2>1. pc[t] = "trigger"
      BY DEF Trigger
    <2>2. r \in Rule /\ e \in Equipment /\ job[t].seen \in Nat /\ now \in Int
      BY <2>1 DEF CooldownInv, Typed, TypeOK, Shape, Time
    <2>3. \A s \in Rule : Cooldown[s] \in Nat
      BY EngineAssumption DEF Rule
    <2>. QED BY <2>1, <2>2, <2>3
  <1>2. /\ now' = now /\ job' = job /\ lastTriggered' = [lastTriggered EXCEPT ![r][e] = now]
        /\ pc' = [pc EXCEPT ![t] = "check"]
        /\ rule' = [rule EXCEPT ![t] = @ + 1]
    BY DEF Trigger, Goto
  <1>3. \A u \in Thread : /\ pc'[u] = "trigger" => u # t /\ pc[u] = "trigger"
                          /\ u # t => rule'[u] = rule[u]
    BY <1>2 DEF CooldownInv, Typed, TypeOK
  <1>4. \A s \in Rule, d \in Equipment :
           /\ lastTriggered[s][d] \in Int
           /\ lastTriggered'[s][d] = IF s = r /\ d = e THEN now ELSE lastTriggered[s][d]
    BY <1>1, <1>2 DEF CooldownInv, Typed, TypeOK, Time, Never
  <1>5. \A s \in Rule, d \in Equipment : /\ lastTriggered'[s][d] <= now
                                         /\ lastTriggered[s][d] <= lastTriggered'[s][d]
    BY <1>1, <1>4 DEF CooldownInv, Timed
  <1>6. \A k \in DOMAIN alerts :
          /\ alerts[k].time \in Int /\ alerts[k].rule \in Rule /\ alerts[k].equipment \in Equipment
    BY AlertFields DEF CooldownInv, Typed, Time
  <1>7. CASE UNCHANGED <<alerts, found>>
    <2>1. alerts' = alerts
      BY <1>7 DEF Trigger
    <2>2. Timed'
      BY <1>1, <1>2, <1>3, <1>4, <1>5, <1>6, <2>1 DEF CooldownInv, Timed
    <2>. QED BY <2>1, <2>2 DEF CooldownInv, CooldownNeedsOverlap
  <1>8. CASE ~UNCHANGED <<alerts, found>>
    <2> DEFINE new == Len(alerts) + 1
    <2>1. /\ Len(alerts) \in Nat /\ DOMAIN alerts = 1 .. Len(alerts)
          /\ DOMAIN alerts' = DOMAIN alerts \cup {new}
          /\ \A k \in DOMAIN alerts : alerts'[k] = alerts[k]
          /\ alerts'[new] = NewAlert(t)
      BY <1>8, Triggered DEF CooldownInv
    <2>2. /\ NewAlert(t).rule = r /\ NewAlert(t).equipment = e /\ NewAlert(t).time = now
          /\ NewAlert(t).seen = job[t].seen
      BY DEF NewAlert
    <2>3. \A u \in Thread : pc[u] = "trigger" =>
             \A j \in DOMAIN alerts' : j <= job[u].seen => j \in DOMAIN alerts
      BY <1>1, <2>1 DEF CooldownInv, Typed, TypeOK, Timed
    <2>4. Timed'
      <3>1. \A k \in DOMAIN alerts' :
              alerts'[k].time <= lastTriggered'[alerts'[k].rule][alerts'[k].equipment]
        BY <1>1, <1>4, <1>5, <1>6, <2>1, <2>2, SMTT(30) DEF CooldownInv, Timed
      <3>2. \A u \in Thread : pc'[u] = "trigger" => job'[u].seen <= Len(alerts')
        <4>1. Len(alerts') = Len(alerts) + 1
          BY <1>8, AlertFields, AppendProperties, Triggered DEF CooldownInv, Typed, Trigger
        <4>2. \A u \in Thread : job[u].seen \in Nat
          BY DEF CooldownInv, Typed, TypeOK
        <4>. QED BY <1>2, <1>3, <2>1, <4>1, <4>2 DEF CooldownInv, Timed
      <3>3. \A u \in Thread : pc'[u] = "trigger" =>
              \A j \in DOMAIN alerts' :
                 /\ j <= job'[u].seen
                 /\ alerts'[j].rule = rule'[u] /\ alerts'[j].equipment = job'[u].equipment
                 => now' - alerts'[j].time >= Cooldown[rule'[u]]
        BY <1>2, <1>3, <2>1, <2>3 DEF CooldownInv, Timed
      <3>. QED BY <1>2, <1>5, <3>1, <3>2, <3>3 DEF Timed
    <2>5. CooldownNeedsOverlap'
      <3>1. ASSUME NEW j \in DOMAIN alerts, alerts[j].rule = r, alerts[j].equipment = e,
                   now - alerts[j].time < Cooldown[r]
            PROVE  job[t].seen < j
        <4>1. j <= job[t].seen => now - alerts[j].time >= Cooldown[r]
          BY <1>1, <3>1 DEF CooldownInv, Timed
        <4>2. /\ j \in Nat /\ job[t].seen \in Nat /\ now \in Int /\ alerts[j].time \in Int
              /\ Cooldown[r] \in Nat
          BY <1>1, <1>6, <2>1
        <4>. QED BY <3>1, <4>1, <4>2
      <3>2. \A j, k \in DOMAIN alerts' : j < k => j \in DOMAIN alerts
        BY <2>1
      <3>. QED BY <2>1, <2>2, <3>1, <3>2 DEF CooldownInv, CooldownNeedsOverlap
    <2>. QED BY <2>4, <2>5
  <1>. QED BY <1>7, <1>8

LEMMA CooldownStep == CooldownInv /\ [Next]_vars => CooldownInv'
  <1> SUFFICES ASSUME CooldownInv, [Next]_vars PROVE CooldownInv'
    OBVIOUS
  <1>1. Typed /\ Typed'
    BY TypedStep DEF CooldownInv
  <1>2. CASE Tick
    BY <1>1, <1>2, TickKeepsTimes DEF CooldownInv
  <1>3. ASSUME NEW t \in Thread, CheckRule(t) \/ Trigger(t) PROVE CooldownInv'
    BY <1>1, <1>3, CheckKeepsTimes, TriggerKeepsTimes DEF CooldownInv
  <1>4. ASSUME TimesKept PROVE CooldownInv'
    BY <1>1, <1>4, KeptTimes DEF CooldownInv
  <1>5. ASSUME NEW t \in Thread,
               \/ EndEvaluation(t) \/ BufferAlerts(t) \/ Snapshot(t) \/ Execute(t)
               \/ \E applied \in BOOLEAN : Retry(t, applied) \/ GiveUp(t, applied)
               \/ \E e \in Equipment, holds \in SUBSET Rule : Receive(t, e, holds)
        PROVE  CooldownInv'
    BY <1>1, <1>4, <1>5, OthersKeepTimes
  <1>6. ASSUME NEW k \in DOMAIN alerts, NEW status \in Status,
               SetStatus(AlertId(alerts[k]), status)
        PROVE  CooldownInv'
    <2>1. ActiveWith(AlertId(alerts[k])) # {}
      BY DEF ActiveWith
    <2>. QED BY <1>1, <1>4, <1>6, <2>1, RequestKeepsTimes
  <1>7. CASE UNCHANGED vars
    <2>1. TimesKept
      BY <1>7 DEF TimesKept, vars, engineVars, callVars
    <2>. QED BY <1>4, <2>1
  <1>8. ASSUME NEW t \in Thread, ThreadStep(t) PROVE CooldownInv'
    BY <1>3, <1>5, <1>8 DEF ThreadStep
  <1>9. ASSUME NEW t \in Thread, NEW e \in Equipment, NEW holds \in SUBSET Rule \ {{}},
               Receive(t, e, holds)
        PROVE  CooldownInv'
    BY <1>5, <1>9
  <1>. QED BY <1>2, <1>6, <1>7, <1>8, <1>9 DEF Next, Acknowledge, Resolve, Status

(* An alert inside the cooldown of an earlier one comes only from a thread *)
(* that had checked the rule before that one: CooldownNeedsOverlap.        *)
THEOREM CooldownAlwaysNeedsOverlap == Spec => []CooldownNeedsOverlap
  <1>1. Init => CooldownInv
    <2> SUFFICES ASSUME Init PROVE CooldownInv
      OBVIOUS
    <2>1. DOMAIN alerts = {}
      BY DEF Init
    <2>2. Timed
      BY <2>1 DEF Init, Timed, Never
    <2>. QED BY <2>1, <2>2, TypedInit DEF CooldownInv, CooldownNeedsOverlap
  <1>2. CooldownInv => CooldownNeedsOverlap
    BY DEF CooldownInv
  <1>. QED BY <1>1, <1>2, CooldownStep, PTL DEF Spec
-------------------------------------------------------------------------------
(* The place of an alert *)

(* Every step but Trigger and BufferAlerts leaves the places alone.        *)
PlacesKept ==
    /\ UNCHANGED <<buffer, covered>> /\ DOMAIN alerts' = DOMAIN alerts
    /\ \A k \in DOMAIN alerts : alerts'[k].equipment = alerts[k].equipment
    /\ \A t \in Thread : /\ found'[t] = found[t]
                         /\ found[t] # <<>> => job'[t].equipment = job[t].equipment

PlaceInv == Typed /\ Apart /\ Placed

LEMMA Inside ==
    ASSUME TypeOK
    PROVE  /\ \A t \in Thread : \A p \in DOMAIN found[t] :
                 found[t][p] \in DOMAIN alerts /\ found[t] # <<>>
           /\ \A e \in Equipment : \A p \in DOMAIN buffer[e] : buffer[e][p] \in DOMAIN alerts
           /\ covered \subseteq DOMAIN alerts
  <1>1. \A q \in Seq(DOMAIN alerts) : \A p \in DOMAIN q : q[p] \in DOMAIN alerts
    BY ElementOfSeq, LenProperties
  <1>2. DOMAIN <<>> = {}
    OBVIOUS
  <1>. QED BY <1>1, <1>2 DEF TypeOK

LEMMA KeptPlaces == PlaceInv /\ PlacesKept => Apart' /\ Placed'
  <1> SUFFICES ASSUME PlaceInv, PlacesKept PROVE Apart' /\ Placed'
    OBVIOUS
  <1>1. Apart'
    BY DEF PlaceInv, Apart, PlacesKept
  <1>2. Placed'
    BY Inside DEF PlaceInv, Typed, Placed, WithCall, WithBuffer, PlacesKept
  <1>. QED BY <1>1, <1>2

LEMMA OthersKeepPlaces ==
    ASSUME Typed, NEW t \in Thread,
           \/ CheckRule(t) \/ EndEvaluation(t) \/ Snapshot(t) \/ Execute(t)
           \/ \E applied \in BOOLEAN : Retry(t, applied) \/ GiveUp(t, applied)
           \/ \E e \in Equipment, holds \in SUBSET Rule : Receive(t, e, holds)
    PROVE  PlacesKept
  <1>1. /\ job = [u \in Thread |-> job[u]] /\ found = [u \in Thread |-> found[u]]
        /\ job[t] \in [equipment : Equipment \cup {NoOne}, holds : SUBSET Rule, seen : Nat]
    BY DEF Typed, TypeOK
  <1>2. CASE CheckRule(t)
    <2>1. UNCHANGED <<buffer, covered, alerts, found>>
      BY <1>2 DEF CheckRule, engineVars, bufferVars, history
    <2>2. job' = job \/ job' = [job EXCEPT ![t].seen = Len(alerts)]
      BY <1>2 DEF CheckRule
    <2>3. \A u \in Thread : job'[u].equipment = job[u].equipment
      BY <1>1, <2>2
    <2>. QED BY <2>1, <2>3 DEF PlacesKept
  <1>3. CASE EndEvaluation(t)
    <2>1. UNCHANGED <<buffer, covered, alerts, found>>
      BY <1>3 DEF EndEvaluation, engineVars, bufferVars, history
    <2>2. \/ found[t] = <<>> /\ job' = [job EXCEPT ![t] = NoJob]
          \/ job' = job
      BY <1>3 DEF EndEvaluation
    <2>3. \A u \in Thread : found[u] # <<>> => job'[u].equipment = job[u].equipment
      BY <1>1, <2>2
    <2>. QED BY <2>1, <2>3 DEF PlacesKept
  <1>4. CASE Snapshot(t)
    BY <1>4 DEF Snapshot, PlacesKept, engineVars, bufferVars, callVars, history
  <1>5. CASE Execute(t)
    BY <1>5 DEF Execute, PlacesKept, engineVars, history
  <1>6. CASE \E applied \in BOOLEAN : Retry(t, applied)
    BY <1>6 DEF Retry, PlacesKept, engineVars, bufferVars, callVars, history
  <1>7. CASE \E applied \in BOOLEAN : GiveUp(t, applied)
    BY <1>7 DEF GiveUp, PlacesKept, engineVars
  <1>8. ASSUME NEW e \in Equipment, NEW holds \in SUBSET Rule, Receive(t, e, holds)
        PROVE  PlacesKept
    <2>1. UNCHANGED <<buffer, covered, alerts>> /\ pc[t] = "idle"
          /\ found' = [found EXCEPT ![t] = <<>>]
          /\ job' = [job EXCEPT ![t] = [equipment |-> e, holds |-> holds, seen |-> 0]]
      BY <1>8 DEF Receive, engineVars, bufferVars, history
    <2>2. found[t] = <<>>
      BY <2>1 DEF Typed, Shape
    <2>3. \A u \in Thread : /\ found'[u] = found[u]
                            /\ found[u] # <<>> => job'[u] = job[u]
      BY <1>1, <2>1, <2>2
    <2>. QED BY <2>1, <2>3 DEF PlacesKept
  <1>. QED BY <1>2, <1>3, <1>4, <1>5, <1>6, <1>7, <1>8

LEMMA TriggerKeepsPlaces ==
    ASSUME PlaceInv, NEW t \in Thread, Trigger(t)
    PROVE  Apart' /\ Placed'
  <1>1. UNCHANGED <<buffer, covered, job>>
    BY DEF Trigger, bufferVars, history
  <1>2. CASE UNCHANGED <<alerts, found>>
    <2>1. PlacesKept
      BY <1>1, <1>2 DEF Trigger, PlacesKept
    <2>. QED BY <2>1, KeptPlaces
  <1>3. CASE ~UNCHANGED <<alerts, found>>
    <2> DEFINE new == Len(alerts) + 1
               f == found[t]
               last == Len(f) + 1
    <2>1. /\ new \notin DOMAIN alerts /\ DOMAIN alerts' = DOMAIN alerts \cup {new}
          /\ \A k \in DOMAIN alerts : alerts'[k] = alerts[k]
          /\ alerts'[new].equipment = job[t].equipment
      <3>1. NewAlert(t).equipment = job[t].equipment
        BY DEF NewAlert
      <3>. QED BY <1>3, <3>1, Triggered DEF PlaceInv
    <2>2. /\ found' = [found EXCEPT ![t] = Append(f, new)]
          /\ f \in Seq(DOMAIN alerts) /\ f \in Seq(DOMAIN alerts \cup {new})
      BY <1>3, Wider DEF Trigger, PlaceInv, Typed, TypeOK
    <2>3. /\ DOMAIN Append(f, new) = DOMAIN f \cup {last} /\ last \notin DOMAIN f
          /\ \A p \in DOMAIN f : Append(f, new)[p] = f[p]
          /\ Append(f, new)[last] = new
      <3>. HIDE DEF f, new
      <3>. QED BY <2>2, Appended
    <2>4. /\ \A u \in Thread : u # t => found'[u] = found[u]
          /\ DOMAIN found'[t] = DOMAIN f \cup {last}
          /\ \A p \in DOMAIN f : found'[t][p] = f[p]
          /\ found'[t][last] = new
      <3>. HIDE DEF f, new, last
      <3>. QED BY <2>2, <2>3 DEF PlaceInv, Typed, TypeOK
    <2>5. /\ \A u \in Thread : \A p \in DOMAIN found[u] : found[u][p] # new
          /\ \A e \in Equipment : \A p \in DOMAIN buffer[e] : buffer[e][p] # new
          /\ new \notin covered
      BY <2>1, Inside DEF PlaceInv, Typed
    <2>. HIDE DEF new, last
    <2>6. Apart'
      <3>1. ASSUME NEW u \in Thread, NEW v \in Thread, NEW p \in DOMAIN found'[u],
                   NEW q \in DOMAIN found'[v], found'[u][p] = found'[v][q]
            PROVE  u = v /\ p = q
        BY <2>3, <2>4, <2>5, <3>1 DEF PlaceInv, Apart
      <3>2. ASSUME NEW u \in Thread, NEW p \in DOMAIN found'[u]
            PROVE  /\ found'[u][p] \notin covered'
                   /\ \A e \in Equipment : \A q \in DOMAIN buffer'[e] :
                        found'[u][p] # buffer'[e][q]
        BY <1>1, <2>4, <2>5 DEF PlaceInv, Apart
      <3>. QED BY <1>1, <3>1, <3>2 DEF PlaceInv, Apart
    <2>7. Placed'
      <3>1. ASSUME NEW k \in DOMAIN alerts'
            PROVE  k \in covered' \/ WithCall(k)' \/ WithBuffer(k)'
        BY <1>1, <2>1, <2>4 DEF PlaceInv, Placed, WithCall, WithBuffer
      <3>2. ASSUME NEW u \in Thread, NEW p \in DOMAIN found'[u]
            PROVE  alerts'[found'[u][p]].equipment = job'[u].equipment
        BY <1>1, <2>1, <2>4, Inside DEF PlaceInv, Typed, Placed
      <3>3. ASSUME NEW e \in Equipment, NEW p \in DOMAIN buffer'[e]
            PROVE  alerts'[buffer'[e][p]].equipment = e
        BY <1>1, <2>1, Inside DEF PlaceInv, Typed, Placed
      <3>. QED BY <3>1, <3>2, <3>3 DEF Placed
    <2>. QED BY <2>6, <2>7
  <1>. QED BY <1>2, <1>3

(* The group of a call and a buffer: its alerts are theirs, each once.     *)
LEMMA Grouped ==
    ASSUME PlaceInv, NEW t \in Thread, NEW e \in Equipment, job[t].equipment = e
    PROVE  LET group == buffer[e] \o found[t]
           IN  /\ \A k : (\E q \in DOMAIN group : group[q] = k) <=>
                            \/ \E q \in DOMAIN buffer[e] : buffer[e][q] = k
                            \/ \E p \in DOMAIN found[t] : found[t][p] = k
               /\ \A q, r \in DOMAIN group : group[q] = group[r] => q = r
  <1> DEFINE b == buffer[e]
             f == found[t]
             group == b \o f
  <1>1. b \in Seq(DOMAIN alerts) /\ f \in Seq(DOMAIN alerts)
    BY DEF PlaceInv, Typed, TypeOK
  <1>2. /\ \A k \in DOMAIN b : k \in DOMAIN group /\ group[k] = b[k]
        /\ \A k \in DOMAIN f : k + Len(b) \in DOMAIN group /\ group[k + Len(b)] = f[k]
        /\ \A k \in DOMAIN group : k \in DOMAIN b \/ \E j \in DOMAIN f : k = j + Len(b)
    <2>. HIDE DEF b, f
    <2>. QED BY <1>1, Joined
  <1>3. /\ \A p, q \in DOMAIN f : f[p] = f[q] => p = q
        /\ \A p, q \in DOMAIN b : b[p] = b[q] => p = q
        /\ \A p \in DOMAIN f, q \in DOMAIN b : f[p] # b[q]
    BY DEF PlaceInv, Apart
  <1>. HIDE DEF b, f, group
  <1>4. \A q, r \in DOMAIN group : group[q] = group[r] => q = r
    BY <1>2, <1>3
  <1>5. ASSUME NEW k
        PROVE  (\E q \in DOMAIN group : group[q] = k) <=>
                  (\E q \in DOMAIN b : b[q] = k) \/ (\E p \in DOMAIN f : f[p] = k)
    BY <1>2
  <1>. QED BY <1>4, <1>5 DEF b, f, group
LEMMA BufferKeepsPlaces ==
    ASSUME PlaceInv, NEW t \in Thread, BufferAlerts(t)
    PROVE  Apart' /\ Placed'
  <1> DEFINE e == job[t].equipment
             group == buffer[e] \o found[t]
  <1>1. /\ e \in Equipment
        /\ found' = [found EXCEPT ![t] = <<>>] /\ job' = [job EXCEPT ![t] = NoJob]
        /\ alerts' = alerts
        /\ \/ buffer' = [buffer EXCEPT ![e] = group] /\ covered' = covered
           \/ /\ buffer' = [buffer EXCEPT ![e] = <<>>]
              /\ covered' = covered \cup AlertsOf(group)
    BY Buffering DEF PlaceInv
  <1>2. /\ \A k : (\E q \in DOMAIN group : group[q] = k) <=>
                     \/ \E q \in DOMAIN buffer[e] : buffer[e][q] = k
                     \/ \E p \in DOMAIN found[t] : found[t][p] = k
        /\ \A q, r \in DOMAIN group : group[q] = group[r] => q = r
    BY <1>1, Grouped
  <1>3. /\ \A u \in Thread : u # t => found'[u] = found[u] /\ job'[u] = job[u]
        /\ DOMAIN found'[t] = {}
    <2>1. found'[t] = <<>> /\ \A u \in Thread : u # t => found'[u] = found[u] /\ job'[u] = job[u]
      BY <1>1 DEF PlaceInv, Typed, TypeOK
    <2>2. DOMAIN <<>> = {}
      OBVIOUS
    <2>. QED BY <2>1, <2>2
  <1>4. \A p \in DOMAIN found[t] : alerts[found[t][p]].equipment = e
    BY DEF PlaceInv, Placed
  <1>. HIDE DEF e, group
  <1>5. \A u \in Thread : \A p : p \in DOMAIN found'[u] =>
           u # t /\ p \in DOMAIN found[u] /\ found'[u][p] = found[u][p]
    BY <1>3
  <1>6. CASE buffer' = [buffer EXCEPT ![e] = group] /\ covered' = covered
    <2>1. /\ buffer'[e] = group
          /\ \A d \in Equipment : d # e => buffer'[d] = buffer[d]
      BY <1>1, <1>6 DEF PlaceInv, Typed, TypeOK
    <2>2. ASSUME NEW d \in Equipment, NEW q \in DOMAIN buffer'[d]
          PROVE  \/ \E r \in DOMAIN buffer[d] : buffer[d][r] = buffer'[d][q]
                 \/ d = e /\ \E p \in DOMAIN found[t] : found[t][p] = buffer'[d][q]
      BY <1>2, <2>1
    <2>3. Apart'
      <3>1. ASSUME NEW c \in Equipment, NEW d \in Equipment, NEW p \in DOMAIN buffer'[c],
                   NEW q \in DOMAIN buffer'[d], buffer'[c][p] = buffer'[d][q]
            PROVE  c = d /\ p = q
        <4>1. c = d
          BY <2>2, <3>1 DEF PlaceInv, Apart
        <4>2. CASE d = e
          BY <1>2, <2>1, <3>1, <4>1, <4>2
        <4>3. CASE d # e
          BY <2>1, <3>1, <4>1, <4>3 DEF PlaceInv, Apart
        <4>. QED BY <4>1, <4>2, <4>3
      <3>2. ASSUME NEW u \in Thread, NEW p \in DOMAIN found'[u], NEW d \in Equipment,
                   NEW q \in DOMAIN buffer'[d]
            PROVE  found'[u][p] # buffer'[d][q]
        BY <1>5, <2>2 DEF PlaceInv, Apart
      <3>3. ASSUME NEW d \in Equipment, NEW q \in DOMAIN buffer'[d]
            PROVE  buffer'[d][q] \notin covered'
        BY <1>6, <2>2 DEF PlaceInv, Apart
      <3>4. ASSUME NEW u \in Thread, NEW v \in Thread, NEW p \in DOMAIN found'[u],
                   NEW q \in DOMAIN found'[v], found'[u][p] = found'[v][q]
            PROVE  u = v /\ p = q
        BY <1>5, <3>4 DEF PlaceInv, Apart
      <3>5. ASSUME NEW u \in Thread, NEW p \in DOMAIN found'[u]
            PROVE  found'[u][p] \notin covered'
        BY <1>5, <1>6 DEF PlaceInv, Apart
      <3>. QED BY <3>1, <3>2, <3>3, <3>4, <3>5 DEF Apart
    <2>4. Placed'
      <3>1. ASSUME NEW k \in DOMAIN alerts
            PROVE  k \in covered' \/ WithCall(k)' \/ WithBuffer(k)'
        <4>1. WithCall(k) => WithCall(k)' \/ WithBuffer(k)'
          BY <1>1, <1>2, <1>3, <2>1 DEF WithCall, WithBuffer
        <4>2. WithBuffer(k) => WithBuffer(k)'
          <5>1. ASSUME NEW d \in Equipment, NEW q \in DOMAIN buffer[d], buffer[d][q] = k
                PROVE  WithBuffer(k)'
            <6>1. CASE d = e
              BY <1>1, <1>2, <2>1, <5>1, <6>1 DEF WithBuffer
            <6>2. CASE d # e
              BY <2>1, <5>1, <6>2 DEF WithBuffer
            <6>. QED BY <6>1, <6>2
          <5>. QED BY <5>1 DEF WithBuffer
        <4>. QED BY <1>6, <4>1, <4>2 DEF PlaceInv, Placed
      <3>2. ASSUME NEW u \in Thread, NEW p \in DOMAIN found'[u]
            PROVE  alerts'[found'[u][p]].equipment = job'[u].equipment
        BY <1>1, <1>3, <1>5 DEF PlaceInv, Placed
      <3>3. ASSUME NEW d \in Equipment, NEW q \in DOMAIN buffer'[d]
            PROVE  alerts'[buffer'[d][q]].equipment = d
        BY <1>1, <1>4, <2>2 DEF PlaceInv, Placed
      <3>. QED BY <1>1, <3>1, <3>2, <3>3 DEF Placed
    <2>. QED BY <2>3, <2>4
  <1>7. CASE /\ buffer' = [buffer EXCEPT ![e] = <<>>]
             /\ covered' = covered \cup AlertsOf(group)
    <2>1. /\ DOMAIN buffer'[e] = {}
          /\ \A d \in Equipment : d # e => buffer'[d] = buffer[d]
      <3>1. buffer'[e] = <<>> /\ \A d \in Equipment : d # e => buffer'[d] = buffer[d]
        BY <1>1, <1>7 DEF PlaceInv, Typed, TypeOK
      <3>2. DOMAIN <<>> = {}
        OBVIOUS
      <3>. QED BY <3>1, <3>2
    <2>2. \A k : k \in covered' <=> \/ k \in covered
                                    \/ \E q \in DOMAIN buffer[e] : buffer[e][q] = k
                                    \/ \E p \in DOMAIN found[t] : found[t][p] = k
      BY <1>2, <1>7 DEF AlertsOf
    <2>3. \A d \in Equipment : \A q : q \in DOMAIN buffer'[d] =>
             d # e /\ q \in DOMAIN buffer[d] /\ buffer'[d][q] = buffer[d][q]
      BY <2>1
    <2>4. Apart'
      <3>1. ASSUME NEW d \in Equipment, NEW q \in DOMAIN buffer'[d]
            PROVE  buffer'[d][q] \notin covered'
        BY <1>1, <2>2, <2>3 DEF PlaceInv, Apart
      <3>2. ASSUME NEW u \in Thread, NEW p \in DOMAIN found'[u]
            PROVE  found'[u][p] \notin covered'
        BY <1>1, <1>5, <2>2 DEF PlaceInv, Apart
      <3>. QED BY <1>5, <2>3, <3>1, <3>2 DEF PlaceInv, Apart
    <2>5. Placed'
      <3>1. ASSUME NEW k \in DOMAIN alerts
            PROVE  k \in covered' \/ WithCall(k)' \/ WithBuffer(k)'
        <4>1. WithCall(k) => k \in covered' \/ WithCall(k)'
          BY <1>3, <2>2 DEF WithCall
        <4>2. WithBuffer(k) => k \in covered' \/ WithBuffer(k)'
          BY <2>1, <2>2 DEF WithBuffer
        <4>. QED BY <2>2, <4>1, <4>2 DEF PlaceInv, Placed
      <3>2. ASSUME NEW u \in Thread, NEW p \in DOMAIN found'[u]
            PROVE  alerts'[found'[u][p]].equipment = job'[u].equipment
        BY <1>1, <1>3, <1>5 DEF PlaceInv, Placed
      <3>3. ASSUME NEW d \in Equipment, NEW q \in DOMAIN buffer'[d]
            PROVE  alerts'[buffer'[d][q]].equipment = d
        BY <1>1, <2>3 DEF PlaceInv, Placed
      <3>. QED BY <1>1, <3>1, <3>2, <3>3 DEF Placed
    <2>. QED BY <2>4, <2>5
  <1>. QED BY <1>1, <1>6, <1>7

LEMMA PlaceStep == PlaceInv /\ [Next]_vars => PlaceInv'
  <1> SUFFICES ASSUME PlaceInv, [Next]_vars PROVE PlaceInv'
    OBVIOUS
  <1>1. Typed /\ Typed'
    BY TypedStep DEF PlaceInv
  <1>2. ASSUME NEW t \in Thread, Trigger(t) \/ BufferAlerts(t) PROVE PlaceInv'
    BY <1>1, <1>2, TriggerKeepsPlaces, BufferKeepsPlaces DEF PlaceInv
  <1>3. ASSUME PlacesKept PROVE PlaceInv'
    BY <1>1, <1>3, KeptPlaces DEF PlaceInv
  <1>4. ASSUME NEW t \in Thread,
               \/ CheckRule(t) \/ EndEvaluation(t) \/ Snapshot(t) \/ Execute(t)
               \/ \E applied \in BOOLEAN : Retry(t, applied) \/ GiveUp(t, applied)
               \/ \E e \in Equipment, holds \in SUBSET Rule : Receive(t, e, holds)
        PROVE  PlaceInv'
    BY <1>1, <1>3, <1>4, OthersKeepPlaces
  <1>5. ASSUME NEW k \in DOMAIN alerts, NEW status \in Status,
               SetStatus(AlertId(alerts[k]), status)
        PROVE  PlaceInv'
    <2>1. ActiveWith(AlertId(alerts[k])) # {}
      BY DEF ActiveWith
    <2>2. PlacesKept
      BY <1>1, <1>5, <2>1, StatusSet DEF SetStatus, PlacesKept, bufferVars, callVars
    <2>. QED BY <1>3, <2>2
  <1>6. CASE Tick \/ UNCHANGED vars
    <2>1. PlacesKept
      BY <1>6 DEF Tick, PlacesKept, vars, engineVars, bufferVars, callVars, history
    <2>. QED BY <1>3, <2>1
  <1>7. ASSUME NEW t \in Thread, ThreadStep(t) PROVE PlaceInv'
    BY <1>2, <1>4, <1>7 DEF ThreadStep
  <1>8. ASSUME NEW t \in Thread, NEW e \in Equipment, NEW holds \in SUBSET Rule \ {{}},
               Receive(t, e, holds)
        PROVE  PlaceInv'
    BY <1>4, <1>8
  <1>. QED BY <1>5, <1>6, <1>7, <1>8 DEF Next, Acknowledge, Resolve, Status

LEMMA PlacedOnce == PlaceInv => AlertConserved
  <1> DEFINE Calls(k) == UNION {{t} \X {p \in DOMAIN found[t] : found[t][p] = k} : t \in Thread}
             Buffers(k) == UNION {{e} \X {p \in DOMAIN buffer[e] : buffer[e][p] = k} : e \in Equipment}
  <1> SUFFICES ASSUME PlaceInv, NEW k \in DOMAIN alerts
               PROVE  /\ Cardinality(Calls(k)) + Cardinality(Buffers(k))
                             + (IF k \in covered THEN 1 ELSE 0) = 1
                      /\ \A b \in Buffers(k) : b[1] = alerts[k].equipment
    BY DEF AlertConserved
  <1>1. \A c : c \in Calls(k) <=> \E t \in Thread : \E p \in DOMAIN found[t] :
                                    found[t][p] = k /\ c = <<t, p>>
    OBVIOUS
  <1>2. \A b : b \in Buffers(k) <=> \E e \in Equipment : \E p \in DOMAIN buffer[e] :
                                      buffer[e][p] = k /\ b = <<e, p>>
    OBVIOUS
  <1>. HIDE DEF Calls, Buffers
  <1>3. \A b \in Buffers(k) : b[1] = alerts[k].equipment
    BY <1>2 DEF PlaceInv, Placed
  <1>4. Cardinality(Calls(k)) = IF WithCall(k) THEN 1 ELSE 0
    <2>1. CASE WithCall(k)
      <3>0. PICK t \in Thread : \E p \in DOMAIN found[t] : found[t][p] = k
        BY <2>1 DEF WithCall
      <3>1. PICK p \in DOMAIN found[t] : found[t][p] = k
        BY <3>0
      <3>2. Calls(k) = {<<t, p>>}
        BY <1>1, <3>1 DEF PlaceInv, Apart
      <3>. QED BY <2>1, <3>2, FS_Singleton
    <2>2. CASE ~WithCall(k)
      <3>1. Calls(k) = {}
        BY <1>1, <2>2 DEF WithCall
      <3>. QED BY <2>2, <3>1, FS_EmptySet
    <2>. QED BY <2>1, <2>2
  <1>5. Cardinality(Buffers(k)) = IF WithBuffer(k) THEN 1 ELSE 0
    <2>1. CASE WithBuffer(k)
      <3>0. PICK e \in Equipment : \E p \in DOMAIN buffer[e] : buffer[e][p] = k
        BY <2>1 DEF WithBuffer
      <3>1. PICK p \in DOMAIN buffer[e] : buffer[e][p] = k
        BY <3>0
      <3>2. Buffers(k) = {<<e, p>>}
        BY <1>2, <3>1 DEF PlaceInv, Apart
      <3>. QED BY <2>1, <3>2, FS_Singleton
    <2>2. CASE ~WithBuffer(k)
      <3>1. Buffers(k) = {}
        BY <1>2, <2>2 DEF WithBuffer
      <3>. QED BY <2>2, <3>1, FS_EmptySet
    <2>. QED BY <2>1, <2>2
  <1>6. /\ k \in covered \/ WithCall(k) \/ WithBuffer(k)
        /\ ~(WithCall(k) /\ WithBuffer(k))
        /\ k \in covered => ~WithCall(k) /\ ~WithBuffer(k)
    BY DEF PlaceInv, Apart, Placed, WithCall, WithBuffer
  <1>. QED BY <1>3, <1>4, <1>5, <1>6

LEMMA PlaceInitially == Init => PlaceInv
  <1> SUFFICES ASSUME Init PROVE PlaceInv
    OBVIOUS
  <1>1. /\ DOMAIN alerts = {} /\ \A t \in Thread : DOMAIN found[t] = {}
        /\ \A e \in Equipment : DOMAIN buffer[e] = {}
    <2>1. DOMAIN <<>> = {}
      OBVIOUS
    <2>. QED BY <2>1 DEF Init
  <1>2. Apart /\ Placed
    BY <1>1 DEF Apart, Placed
  <1>. QED BY <1>2, TypedInit DEF PlaceInv

(* No alert is lost or doubled between the call that found it, the buffers *)
(* and the flush that covers it: AlertConserved.                           *)
THEOREM AlertsAlwaysConserved == Spec => []AlertConserved
  BY PlaceInitially, PlaceStep, PlacedOnce, PTL DEF Spec

-------------------------------------------------------------------------------
(* Rows and alerts *)

RowInv == Typed /\ Written

(* A step that neither writes nor changes an alert. *)
RowsKept ==
    /\ UNCHANGED <<alerts, row, record, stale>>
    /\ \A t \in Thread : pc'[t] \in {"insert", "update"} \/ Writing(t) => pc'[t] = pc[t]

(* Some alert has this id after the step; k is then the only one with its. *)
HasNext(i)  == \E k \in DOMAIN alerts' : AlertId(alerts'[k]) = i
SoleNext(k) == \A j \in DOMAIN alerts' : AlertId(alerts'[j]) = AlertId(alerts'[k]) => j = k

LEMMA KeptRows == RowInv /\ RowsKept => Written'
  <1> SUFFICES ASSUME RowInv, RowsKept PROVE Written'
    OBVIOUS
  <1>1. \A t \in Thread : (Writing(t)' <=> Writing(t)) /\ (Writing(t) => pc'[t] = pc[t])
    BY DEF RowsKept, Writing
  <1>2. \A t \in Thread : pc'[t] = "update" <=> pc[t] = "update"
    BY DEF RowsKept, Writing
  <1>3. /\ \A i : HasNext(i) <=> Has(i)
        /\ \A k : Sole(k)' <=> Sole(k)
    BY DEF RowsKept, Has, HasNext, Sole, AlertId
  <1>. QED BY <1>1, <1>2, <1>3 DEF RowInv, Written, RowsKept, AlertId, Has, HasNext

LEMMA OthersKeepRows ==
    ASSUME Typed, NEW t \in Thread,
           \/ CheckRule(t) \/ EndEvaluation(t) \/ BufferAlerts(t)
           \/ \E e \in Equipment, holds \in SUBSET Rule : Receive(t, e, holds)
    PROVE  RowsKept
  <1>1. pc \in [Thread -> Place]
    BY DEF Typed, TypeOK, Place
  <1>2. CASE CheckRule(t)
    BY <1>1, <1>2 DEF CheckRule, Goto, RowsKept, Writing, engineVars, dbVars, history
  <1>3. CASE EndEvaluation(t)
    BY <1>1, <1>3 DEF EndEvaluation, Goto, RowsKept, Writing, engineVars, dbVars, history
  <1>4. CASE BufferAlerts(t)
    <2>1. UNCHANGED <<alerts, row, record, stale>> /\ pc[t] = "buffer"
      BY <1>4, Buffering
    <2>2. pc'[t] \in {"idle", "notify"} /\ \A u \in Thread : u # t => pc'[u] = pc[u]
      BY <1>1, <1>4, Buffering
    <2>. QED BY <2>1, <2>2 DEF RowsKept, Writing
  <1>5. CASE \E e \in Equipment, holds \in SUBSET Rule : Receive(t, e, holds)
    BY <1>1, <1>5 DEF Receive, Goto, RowsKept, Writing, engineVars, dbVars, history
  <1>. QED BY <1>2, <1>3, <1>4, <1>5

LEMMA TriggerKeepsRows ==
    ASSUME RowInv, NEW t \in Thread, Trigger(t)
    PROVE  Written'
  <1>1. /\ UNCHANGED <<row, record, stale>> /\ pc[t] = "trigger"
        /\ pc' = [pc EXCEPT ![t] = "check"]
    BY DEF Trigger, Goto, dbVars, history
  <1>2. \A u \in Thread : /\ Writing(u)' <=> Writing(u)
                          /\ pc'[u] = "update" <=> pc[u] = "update"
                          /\ Writing(u) => pc'[u] = pc[u]
    BY <1>1 DEF RowInv, Typed, TypeOK, Writing
  <1>3. CASE UNCHANGED <<alerts, found>>
    <2>1. RowsKept
      BY <1>1, <1>2, <1>3 DEF Trigger, RowsKept, Writing
    <2>. QED BY <2>1, KeptRows
  <1>4. CASE ~UNCHANGED <<alerts, found>>
    <2> DEFINE new == Len(alerts) + 1
               i == AlertId(alerts'[new])
    <2>1. /\ new \notin DOMAIN alerts /\ DOMAIN alerts' = DOMAIN alerts \cup {new}
          /\ \A k \in DOMAIN alerts : alerts'[k] = alerts[k]
          /\ alerts'[new] \in AlertRecord
      BY <1>4, Triggered DEF RowInv
    <2>. HIDE DEF new
    <2>2. i \in Id
      BY <2>1 DEF AlertId, Id, AlertRecord
    <2>3. /\ \A j : Has(j) => HasNext(j)
          /\ \A k \in DOMAIN alerts : SoleNext(k) => Sole(k)
          /\ SoleNext(new) => ~Has(i)
      <3>1. \A j : Has(j) => HasNext(j)
        BY <2>1 DEF Has, HasNext
      <3>2. \A k \in DOMAIN alerts : SoleNext(k) => Sole(k)
        BY <2>1 DEF Sole, SoleNext
      <3>3. SoleNext(new) => ~Has(i)
        BY <2>1 DEF Has, SoleNext
      <3>. QED BY <3>1, <3>2, <3>3
    <2>4. \A k \in DOMAIN alerts : AlertId(alerts'[k]) = AlertId(alerts[k])
      BY <2>1
    <2>. HIDE DEF i
    <2>5. SoleNext(new) => /\ row[i] = "absent"
                        /\ \A u \in Thread : Writing(u) => record[u].id # i
      BY <2>2, <2>3 DEF RowInv, Written
    <2>6. ASSUME NEW u \in Thread, NEW k \in DOMAIN alerts', Writing(u)', SoleNext(k),
                 record'[u].id = AlertId(alerts'[k]),
                 pc'[u] = "insert" => record'[u].id \notin stale'
          PROVE  record'[u].status = alerts'[k].status
      <3>1. k # new
        BY <1>1, <1>2, <2>5, <2>6 DEF i
      <3>. QED BY <1>1, <1>2, <2>1, <2>3, <2>4, <2>6, <3>1 DEF RowInv, Written
    <2>7. ASSUME NEW k \in DOMAIN alerts', SoleNext(k), row'[AlertId(alerts'[k])] # "absent",
                 AlertId(alerts'[k]) \notin stale',
                 \A u \in Thread : pc'[u] = "update" => record'[u].id # AlertId(alerts'[k])
          PROVE  row'[AlertId(alerts'[k])] = alerts'[k].status
      <3>1. k # new
        BY <1>1, <2>5, <2>7 DEF i
      <3>. QED BY <1>1, <1>2, <2>1, <2>3, <2>4, <2>7, <3>1 DEF RowInv, Written
    <2>8. /\ \A j \in Id : row'[j] # "absent" => HasNext(j)
          /\ \A u \in Thread : Writing(u)' => HasNext(record'[u].id)
      <3>1. /\ \A j \in Id : row[j] # "absent" => Has(j)
            /\ \A u \in Thread : Writing(u) => Has(record[u].id)
        BY DEF RowInv, Written
      <3>2. \A u \in Thread : Writing(u) => HasNext(record[u].id)
        BY <2>3, <3>1
      <3>. QED BY <1>1, <1>2, <2>3, <3>1, <3>2
    <2>. QED BY <2>6, <2>7, <2>8 DEF Written, Has, HasNext, Sole, SoleNext
  <1>. QED BY <1>3, <1>4

LEMMA SnapshotKeepsRows ==
    ASSUME RowInv, NEW t \in Thread, Snapshot(t)
    PROVE  Written'
  <1> DEFINE s == sending[t]
  <1>1. /\ UNCHANGED <<alerts, row, stale>> /\ pc[t] = "notify"
        /\ pc' = [pc EXCEPT ![t] = "insert"]
        /\ record' = [record EXCEPT ![t] = [id |-> AlertId(alerts[s]), status |-> alerts[s].status]]
    BY DEF Snapshot, Goto, engineVars, history
  <1>2. s \in DOMAIN alerts
    BY <1>1 DEF RowInv, Typed, TypeOK, Shape
  <1>3. /\ \A u \in Thread : u # t => /\ pc'[u] = pc[u] /\ record'[u] = record[u]
                                      /\ Writing(u)' <=> Writing(u)
        /\ pc'[t] = "insert" /\ ~Writing(t)
        /\ record'[t].id = AlertId(alerts[s]) /\ record'[t].status = alerts[s].status
    BY <1>1 DEF RowInv, Typed, TypeOK, Writing
  <1>4. /\ \A i : HasNext(i) <=> Has(i)
        /\ \A k : Sole(k)' <=> Sole(k)
        /\ Has(AlertId(alerts[s]))
        /\ \A k \in DOMAIN alerts :
             AlertId(alerts'[k]) = AlertId(alerts[k]) /\ alerts'[k].status = alerts[k].status
    BY <1>1, <1>2 DEF Has, HasNext, Sole, AlertId
  <1>5. \A u \in Thread : Writing(u)' => HasNext(record'[u].id)
    BY <1>3, <1>4 DEF RowInv, Written
  <1>6. ASSUME NEW u \in Thread, NEW k \in DOMAIN alerts, Writing(u)', Sole(k),
               record'[u].id = AlertId(alerts[k]),
               pc'[u] = "insert" => record'[u].id \notin stale
        PROVE  record'[u].status = alerts[k].status
    <2>1. CASE u = t
      BY <1>2, <1>3, <1>6, <2>1 DEF Sole
    <2>2. CASE u # t
      BY <1>3, <1>6, <2>2 DEF RowInv, Written
    <2>. QED BY <2>1, <2>2
  <1>7. \A u \in Thread : pc[u] = "update" => pc'[u] = "update" /\ record'[u] = record[u]
    BY <1>1, <1>3
  <1>8. ASSUME NEW k \in DOMAIN alerts, Sole(k), row[AlertId(alerts[k])] # "absent",
               AlertId(alerts[k]) \notin stale,
               \A u \in Thread : pc'[u] = "update" => record'[u].id # AlertId(alerts[k])
        PROVE  row[AlertId(alerts[k])] = alerts[k].status
    BY <1>7, <1>8 DEF RowInv, Written
  <1>9. \A i \in Id : row'[i] # "absent" => HasNext(i)
    BY <1>1, <1>4 DEF RowInv, Written
  <1>. QED BY <1>1, <1>4, <1>5, <1>6, <1>8, <1>9 DEF Written, Has, HasNext

(* An attempt, whatever becomes of it: the row changes as Apply says or    *)
(* not at all, and only a last attempt that updates makes its id stale.    *)
LEMMA AttemptKeepsRows ==
    ASSUME RowInv, NEW t \in Thread, Writing(t),
           Apply(t) \/ row' = row, alerts' = alerts, stale \subseteq stale',
           \A u \in Thread : u # t => pc'[u] = pc[u] /\ record'[u] = record[u],
           \/ pc'[t] = pc[t] /\ record'[t] = record[t]
           \/ /\ pc'[t] = "idle"
              /\ pc[t] = "update" => record[t].id \in stale' \/ Apply(t)
    PROVE  Written'
  <1> DEFINE i == record[t].id
  <1>1. \/ row' = row
        \/ /\ \A j \in Id : j # i => row'[j] = row[j]
           /\ row'[i] = IF pc[t] = "update" /\ row[i] = "absent" THEN "absent" ELSE record[t].status
    BY Applied DEF RowInv
  <1>2. /\ \A j : HasNext(j) <=> Has(j)
        /\ \A k : Sole(k)' <=> Sole(k)
        /\ \A k : AlertId(alerts'[k]) = AlertId(alerts[k]) /\ alerts'[k].status = alerts[k].status
    BY DEF Has, HasNext, Sole, AlertId
  <1>3. \A u \in Thread : Writing(u)' =>
           Writing(u) /\ pc'[u] = pc[u] /\ record'[u] = record[u]
    BY DEF Writing
  <1>4. \A j \in Id : row'[j] # "absent" => HasNext(j)
    BY <1>1, <1>2 DEF RowInv, Written
  <1>5. \A u \in Thread : Writing(u)' => HasNext(record'[u].id)
    BY <1>2, <1>3 DEF RowInv, Written
  <1>6. ASSUME NEW u \in Thread, NEW k \in DOMAIN alerts, Writing(u)', Sole(k),
               record'[u].id = AlertId(alerts[k]),
               pc'[u] = "insert" => record'[u].id \notin stale'
        PROVE  record'[u].status = alerts[k].status
    BY <1>3, <1>6 DEF RowInv, Written
  <1>7. ASSUME NEW k \in DOMAIN alerts, Sole(k), row'[AlertId(alerts[k])] # "absent",
               AlertId(alerts[k]) \notin stale',
               \A u \in Thread : pc'[u] = "update" => record'[u].id # AlertId(alerts[k])
        PROVE  row'[AlertId(alerts[k])] = alerts[k].status
    <2> DEFINE j == AlertId(alerts[k])
    <2>1. j \in Id /\ j \notin stale
      BY <1>7, AlertFields DEF RowInv, Typed
    <2>2. \A u \in Thread : u # t /\ pc[u] = "update" => record[u].id # j
      BY <1>7
    <2>. HIDE DEF j
    <2>3. CASE j # i
      <3>1. row'[j] = row[j]
        BY <1>1, <2>1, <2>3
      <3>2. \A u \in Thread : pc[u] = "update" => record[u].id # j
        BY <2>2, <2>3
      <3>. QED BY <1>7, <2>1, <3>1, <3>2 DEF RowInv, Written, j
    <2>4. CASE j = i /\ pc[t] = "insert"
      <3>1. record[t].status = alerts[k].status
        BY <1>7, <2>1, <2>4 DEF RowInv, Written, j
      <3>2. \A u \in Thread : pc[u] = "update" => record[u].id # j
        BY <2>2, <2>4
      <3>3. row' = row => row[j] = alerts[k].status
        BY <1>7, <2>1, <3>2 DEF RowInv, Written, j
      <3>. QED BY <1>1, <2>4, <3>1, <3>3 DEF j
    <2>5. CASE j = i /\ pc[t] = "update"
      <3>1. record[t].status = alerts[k].status
        BY <1>7, <2>5 DEF RowInv, Written, j
      <3>2. pc'[t] = "idle" /\ Apply(t)
        BY <1>7, <2>5 DEF j
      <3>3. row'[i] = IF row[i] = "absent" THEN "absent" ELSE record[t].status
        BY <2>5, <3>2, Applied DEF RowInv
      <3>. QED BY <1>7, <2>5, <3>1, <3>3 DEF j
    <2>. QED BY <2>3, <2>4, <2>5 DEF Writing
  <1>. QED BY <1>2, <1>4, <1>5, <1>6, <1>7 DEF Written, Has, HasNext

LEMMA WritingKeepsRows ==
    ASSUME RowInv, NEW t \in Thread,
           Execute(t) \/ \E applied \in BOOLEAN : Retry(t, applied) \/ GiveUp(t, applied)
    PROVE  Written'
  <1>1. pc \in [Thread -> Place] /\ record = [u \in Thread |-> record[u]]
    BY DEF RowInv, Typed, TypeOK, Place
  <1>2. CASE Execute(t)
    <2>1. /\ Writing(t) /\ Apply(t) /\ alerts' = alerts /\ stale' = stale
          /\ pc' = [pc EXCEPT ![t] = "idle"] /\ record' = [record EXCEPT ![t] = NoRecord]
      BY <1>2 DEF Execute, Return, Goto, engineVars, history
    <2>2. pc'[t] = "idle" /\ \A u \in Thread : u # t => pc'[u] = pc[u] /\ record'[u] = record[u]
      BY <1>1, <2>1
    <2>. QED BY <2>1, <2>2, AttemptKeepsRows
  <1>3. ASSUME NEW applied \in BOOLEAN, Retry(t, applied) PROVE Written'
    <2>1. /\ Writing(t) /\ (Apply(t) \/ row' = row)
          /\ UNCHANGED <<alerts, stale, pc, record>>
      BY <1>3 DEF Retry, engineVars, history
    <2>. QED BY <2>1, AttemptKeepsRows
  <1>4. ASSUME NEW applied \in BOOLEAN, GiveUp(t, applied) PROVE Written'
    <2>1. /\ Writing(t) /\ (Apply(t) \/ row' = row) /\ alerts' = alerts
          /\ stale' = IF pc[t] = "update" THEN stale \cup {record[t].id} ELSE stale
          /\ pc' = [pc EXCEPT ![t] = "idle"] /\ record' = [record EXCEPT ![t] = NoRecord]
      BY <1>4 DEF GiveUp, Return, Goto, engineVars
    <2>2. pc'[t] = "idle" /\ \A u \in Thread : u # t => pc'[u] = pc[u] /\ record'[u] = record[u]
      BY <1>1, <2>1
    <2>3. stale \subseteq stale' /\ (pc[t] = "update" => record[t].id \in stale')
      BY <2>1
    <2>. QED BY <2>1, <2>2, <2>3, AttemptKeepsRows
  <1>. QED BY <1>2, <1>3, <1>4

LEMMA RequestKeepsRows ==
    ASSUME RowInv, NEW i, ActiveWith(i) # {}, NEW status \in Status, SetStatus(i, status)
    PROVE  Written'
  <1>1. PICK k \in ActiveWith(i) :
             /\ k \in DOMAIN alerts /\ AlertId(alerts[k]) = i /\ i \in Id
             /\ DOMAIN alerts' = DOMAIN alerts
             /\ \A j \in DOMAIN alerts :
                  /\ alerts'[j].rule = alerts[j].rule
                  /\ alerts'[j].equipment = alerts[j].equipment
                  /\ alerts'[j].time = alerts[j].time
                  /\ alerts'[j].status = IF j = k THEN status ELSE alerts[j].status
    BY StatusSet DEF RowInv
  <1>2. /\ pc["api"] = "idle" /\ row' = row
        /\ record' = [record EXCEPT !["api"] = [id |-> i, status |-> status]]
        /\ pc' = [pc EXCEPT !["api"] = "update"]
        /\ stale' = IF \E t \in Thread : pc[t] = "insert" /\ record[t].id = i
                    THEN stale \cup {i} ELSE stale
    BY DEF SetStatus, Goto
  <1>3. /\ "api" \in Thread /\ pc'["api"] = "update"
        /\ record'["api"].id = i /\ record'["api"].status = status
        /\ \A u \in Thread : u # "api" => /\ pc'[u] = pc[u] /\ record'[u] = record[u]
                                          /\ pc[u] # "update"
                                          /\ Writing(u)' <=> Writing(u)
    BY <1>2 DEF RowInv, Typed, TypeOK, Shape, Thread, Writing
  <1>4. \A j \in DOMAIN alerts : AlertId(alerts'[j]) = AlertId(alerts[j])
    BY <1>1 DEF AlertId
  <1>5. /\ \A j : HasNext(j) <=> Has(j)
        /\ \A j \in DOMAIN alerts : Sole(j)' <=> Sole(j)
    BY <1>1, <1>4 DEF Has, HasNext, Sole
  <1>6. Has(i)
    BY <1>1 DEF Has
  <1>7. \A u \in Thread : Writing(u)' => HasNext(record'[u].id)
    BY <1>3, <1>5, <1>6 DEF RowInv, Written
  <1>8. ASSUME NEW u \in Thread, NEW j \in DOMAIN alerts, Writing(u)', Sole(j),
               record'[u].id = AlertId(alerts[j]),
               pc'[u] = "insert" => record'[u].id \notin stale'
        PROVE  record'[u].status = alerts'[j].status
    <2>1. CASE u = "api"
      BY <1>1, <1>3, <1>8, <2>1 DEF Sole
    <2>2. CASE u # "api"
      <3>1. Writing(u) /\ pc[u] = "insert" /\ record'[u] = record[u] /\ pc'[u] = "insert"
        BY <1>3, <1>8, <2>2 DEF Writing
      <3>2. record[u].id # i /\ record[u].id \notin stale
        BY <1>2, <1>8, <3>1
      <3>3. j # k
        BY <1>1, <1>8, <3>1, <3>2
      <3>. QED BY <1>1, <1>8, <3>1, <3>2, <3>3 DEF RowInv, Written
    <2>. QED BY <2>1, <2>2
  <1>9. ASSUME NEW j \in DOMAIN alerts, Sole(j), row[AlertId(alerts[j])] # "absent",
               AlertId(alerts[j]) \notin stale',
               \A u \in Thread : pc'[u] = "update" => record'[u].id # AlertId(alerts[j])
        PROVE  row[AlertId(alerts[j])] = alerts'[j].status
    <2>1. AlertId(alerts[j]) # i
      BY <1>3, <1>9
    <2>2. j # k
      BY <1>1, <2>1
    <2>3. AlertId(alerts[j]) \notin stale
      BY <1>2, <1>9
    <2>4. \A u \in Thread : pc[u] # "update"
      BY <1>2, <1>3
    <2>. QED BY <1>1, <1>9, <2>2, <2>3, <2>4 DEF RowInv, Written
  <1>10. \A j \in Id : row'[j] # "absent" => HasNext(j)
    BY <1>2, <1>5 DEF RowInv, Written
  <1>. QED BY <1>1, <1>2, <1>4, <1>5, <1>7, <1>8, <1>9, <1>10 DEF Written, Has, HasNext

LEMMA RowStep == RowInv /\ [Next]_vars => RowInv'
  <1> SUFFICES ASSUME RowInv, [Next]_vars PROVE RowInv'
    OBVIOUS
  <1>1. Typed /\ Typed'
    BY TypedStep DEF RowInv
  <1>2. ASSUME RowsKept PROVE RowInv'
    BY <1>1, <1>2, KeptRows DEF RowInv
  <1>3. ASSUME NEW t \in Thread, ThreadStep(t) PROVE RowInv'
    BY <1>1, <1>2, <1>3, OthersKeepRows, TriggerKeepsRows, SnapshotKeepsRows, WritingKeepsRows
       DEF ThreadStep, RowInv
  <1>4. ASSUME NEW t \in Thread, NEW e \in Equipment, NEW holds \in SUBSET Rule \ {{}},
               Receive(t, e, holds)
        PROVE  RowInv'
    BY <1>1, <1>2, <1>4, OthersKeepRows
  <1>5. ASSUME NEW k \in DOMAIN alerts, NEW status \in Status,
               SetStatus(AlertId(alerts[k]), status)
        PROVE  RowInv'
    <2>1. ActiveWith(AlertId(alerts[k])) # {}
      BY DEF ActiveWith
    <2>. QED BY <1>1, <1>5, <2>1, RequestKeepsRows DEF RowInv
  <1>6. CASE Tick \/ UNCHANGED vars
    <2>1. RowsKept
      BY <1>6 DEF Tick, RowsKept, Writing, vars, engineVars, dbVars, history
    <2>. QED BY <1>2, <2>1
  <1>. QED BY <1>3, <1>4, <1>5, <1>6 DEF Next, Acknowledge, Resolve, Status

(* The row of an alert has its status, but for the cases RowFollowsAlert   *)
(* names, whatever statements fail or are repeated.                        *)
THEOREM RowAlwaysFollowsAlert == Spec => []RowFollowsAlert
  <1>1. Init => RowInv
    <2> SUFFICES ASSUME Init PROVE RowInv
      OBVIOUS
    <2>1. DOMAIN alerts = {} /\ \A i \in Id : row[i] = "absent"
      BY DEF Init
    <2>2. \A t \in Thread : ~Writing(t)
      BY DEF Init, Writing
    <2>. QED BY <2>1, <2>2, TypedInit DEF RowInv, Written
  <1>2. RowInv => RowFollowsAlert
    <2> SUFFICES ASSUME RowInv, NEW k \in DOMAIN alerts, ActiveWith(AlertId(alerts[k])) = {k}
                 PROVE  Sole(k)
      BY DEF RowInv, Written, RowFollowsAlert
    <2>. QED BY DEF ActiveWith, Sole
  <1>. QED BY <1>1, <1>2, RowStep, PTL DEF Spec
-------------------------------------------------------------------------------
(* The windows of the aggregation *)

(* A window opens no earlier than the flush before it.                     *)
Spaced ==
    \A e \in Equipment : /\ lastFlush[e] <= now
                         /\ windowStart[e] # Never => lastFlush[e] <= windowStart[e]

SpaceInv == PlaceInv /\ Spaced

WindowsKept == UNCHANGED <<windowStart, lastFlush, covered>> /\ now <= now'

LEMMA OthersKeepWindows ==
    ASSUME Typed,
           \/ Tick \/ UNCHANGED vars
           \/ \E t \in Thread :
                 \/ CheckRule(t) \/ Trigger(t) \/ EndEvaluation(t) \/ Snapshot(t) \/ Execute(t)
                 \/ \E applied \in BOOLEAN : Retry(t, applied) \/ GiveUp(t, applied)
                 \/ \E e \in Equipment, holds \in SUBSET Rule : Receive(t, e, holds)
           \/ \E i, status : SetStatus(i, status)
    PROVE  WindowsKept
  <1>1. now \in Int
    BY DEF Typed, TypeOK, Time
  <1>2. UNCHANGED <<windowStart, lastFlush, covered>>
    BY DEF Tick, CheckRule, Trigger, EndEvaluation, Snapshot, Execute, Retry, GiveUp, Receive,
           SetStatus, vars, bufferVars, history
  <1>3. now' = now \/ now' = now + 1
    BY DEF Tick, CheckRule, Trigger, EndEvaluation, Snapshot, Execute, Retry, GiveUp, Receive,
           SetStatus, vars
  <1>. QED BY <1>1, <1>2, <1>3 DEF WindowsKept

LEMMA BufferSpaces ==
    ASSUME SpaceInv, NEW t \in Thread, BufferAlerts(t)
    PROVE  /\ Spaced'
           /\ \A k \in covered' \ covered :
                LET e == alerts[k].equipment
                IN  lastFlush[e] # Never => now - lastFlush[e] >= Window
  <1> DEFINE e == job[t].equipment
             group == buffer[e] \o found[t]
  <1>1. e \in Equipment /\ now' = now
    BY Buffering DEF SpaceInv, PlaceInv
  <1>2. /\ now \in Int /\ Window \in Int /\ Never \in Int
        /\ windowStart = [d \in Equipment |-> windowStart[d]]
        /\ lastFlush = [d \in Equipment |-> lastFlush[d]]
        /\ \A d \in Equipment : windowStart[d] \in Int /\ lastFlush[d] \in Int
    BY EngineAssumption DEF SpaceInv, PlaceInv, Typed, TypeOK, Time, Never
  <1>3. CASE Hold(e, group) /\ UNCHANGED <<covered, lastFlush>>
    <2>1. windowStart' = [windowStart EXCEPT ![e] = IF @ = Never THEN now ELSE @]
      BY <1>3 DEF Hold
    <2>2. \A d \in Equipment : /\ d # e => windowStart'[d] = windowStart[d]
                               /\ windowStart'[d] \in {windowStart[d], now}
      BY <1>1, <1>2, <2>1
    <2>3. Spaced'
      BY <1>1, <1>3, <2>2 DEF SpaceInv, Spaced
    <2>. QED BY <1>3, <2>3
  <1>4. CASE /\ Expired(e) /\ FlushBuffer(t, e, group)
             /\ windowStart' = [windowStart EXCEPT ![e] = Never]
    <2>1. /\ covered' = covered \cup AlertsOf(group)
          /\ lastFlush' = [lastFlush EXCEPT ![e] = now]
      BY <1>4 DEF FlushBuffer
    <2>2. \A d \in Equipment :
             /\ lastFlush'[d] = IF d = e THEN now ELSE lastFlush[d]
             /\ windowStart'[d] = IF d = e THEN Never ELSE windowStart[d]
      BY <1>1, <1>2, <1>4, <2>1
    <2>3. Spaced'
      BY <1>1, <1>2, <2>2 DEF SpaceInv, Spaced
    <2>4. lastFlush[e] # Never => now - lastFlush[e] >= Window
      BY <1>1, <1>2, <1>4 DEF Expired, SpaceInv, Spaced
    <2>5. \A k \in AlertsOf(group) : alerts[k].equipment = e
      <3>1. \A k : (\E q \in DOMAIN group : group[q] = k) <=>
                      \/ \E q \in DOMAIN buffer[e] : buffer[e][q] = k
                      \/ \E p \in DOMAIN found[t] : found[t][p] = k
        BY <1>1, Grouped DEF SpaceInv
      <3>2. \A p \in DOMAIN found[t] : alerts[found[t][p]].equipment = e
        BY DEF SpaceInv, PlaceInv, Placed
      <3>3. \A q \in DOMAIN buffer[e] : alerts[buffer[e][q]].equipment = e
        BY <1>1 DEF SpaceInv, PlaceInv, Placed
      <3>. HIDE DEF e, group
      <3>. QED BY <3>1, <3>2, <3>3 DEF AlertsOf
    <2>. QED BY <2>1, <2>3, <2>4, <2>5
  <1>. QED BY <1>3, <1>4 DEF BufferAlerts

LEMMA SpaceStep ==
    SpaceInv /\ [Next]_vars =>
        /\ SpaceInv'
        /\ \A k \in covered' \ covered :
              LET e == alerts[k].equipment
              IN  lastFlush[e] # Never => now - lastFlush[e] >= Window
  <1> SUFFICES ASSUME SpaceInv, [Next]_vars
               PROVE  /\ Spaced'
                      /\ \A k \in covered' \ covered :
                            LET e == alerts[k].equipment
                            IN  lastFlush[e] # Never => now - lastFlush[e] >= Window
    BY PlaceStep DEF SpaceInv
  <1>1. ASSUME NEW t \in Thread, BufferAlerts(t)
        PROVE  /\ Spaced'
               /\ \A k \in covered' \ covered :
                     LET e == alerts[k].equipment
                     IN  lastFlush[e] # Never => now - lastFlush[e] >= Window
    BY <1>1, BufferSpaces
  <1>2. CASE WindowsKept
    <2>1. \A e \in Equipment : lastFlush[e] \in Int
      BY DEF SpaceInv, PlaceInv, Typed, TypeOK, Time, Never
    <2>2. now \in Int /\ now' \in Int
      BY TypedStep DEF SpaceInv, PlaceInv, Typed, TypeOK, Time
    <2>3. Spaced'
      BY <1>2, <2>1, <2>2 DEF SpaceInv, Spaced, WindowsKept
    <2>. QED BY <1>2, <2>3 DEF WindowsKept
  <1>3. WindowsKept \/ \E t \in Thread : BufferAlerts(t)
    BY OthersKeepWindows DEF SpaceInv, PlaceInv, Next, ThreadStep, Acknowledge, Resolve
  <1>. QED BY <1>1, <1>2, <1>3

(* Two flushes of an equipment are at least a window apart:                *)
(* NotificationsSpaced.                                                    *)
THEOREM NotificationsAlwaysSpaced == Spec => NotificationsSpaced
  <1>1. Init => SpaceInv
    <2> SUFFICES ASSUME Init PROVE SpaceInv
      OBVIOUS
    <2>1. Spaced
      BY DEF Init, Spaced, Never
    <2>. QED BY <2>1, PlaceInitially DEF SpaceInv
  <1>2. SpaceInv /\ [Next]_vars =>
          [\A k \in covered' \ covered :
              LET e == alerts[k].equipment
              IN  lastFlush[e] # Never => now - lastFlush[e] >= Window]_vars
    BY SpaceStep
  <1>3. SpaceInv /\ [Next]_vars => SpaceInv'
    BY SpaceStep
  <1>. QED BY <1>1, <1>2, <1>3, PTL DEF Spec, NotificationsSpaced
===============================================================================
