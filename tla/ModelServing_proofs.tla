-------------------------- MODULE ModelServing_proofs --------------------------
(***************************************************************************)
(* Proofs about ModelServing for every layout of keys, any number of       *)
(* deployers and versions, and any number of reloads, predictions and      *)
(* failed calls.                                                           *)
(***************************************************************************)
EXTENDS ModelServing, ModelRegistry_proofs

(* A thread that is past the load of a registry model holds one. *)
Carries == \A t \in Thread : pc[t] \in {"lookup", "setModel", "setMeta"} => loaded[t] # Nothing

TypeInv == TypeOK /\ RegistryInv /\ Carries

servingVars == <<slotVars, loadVars, predictVars, settings, pc, reloads, torn>>

LEMMA KeysInKey == ConfigKey \in Key /\ LocalKey \in Key /\ RequestKey \in Key
  BY DEF Key

LEMMA KeysFixed ==
    ASSUME UNCHANGED settings
    PROVE  /\ keys' = keys /\ localFile' = localFile
           /\ ConfigKey' = ConfigKey /\ LocalKey' = LocalKey /\ RequestKey' = RequestKey
           /\ Key' = Key
  BY DEF settings, ConfigKey, LocalKey, RequestKey, Key

(* A failed call of the service to the registry disturbs no deployer. *)
LEMMA RegistryInvUnless ==
    ASSUME RegistryInv, UNCHANGED <<stage, deployerVars, rollbacks, past>>, outages' \in Nat
    PROVE  RegistryInv'
  <1>1. \A s : In(s)' = In(s)
    BY DEF In
  <1>2. RegistryTypeOK' /\ KnownRegistered'
    BY DEF RegistryInv, RegistryTypeOK, KnownRegistered, deployerVars, past
  <1>3. Registering' = Registering /\ Production' = Production
    BY <1>1 DEF Registering, deployerVars, Production
  <1>4. Room'
    BY <1>1, <1>3, RoomUnless DEF RegistryInv
  <1>5. Single' /\ GapNeedsPromotion'
    BY <1>3 DEF RegistryInv, Single, GapNeedsPromotion, deployerVars, past
  <1>. QED BY <1>2, <1>4, <1>5 DEF RegistryInv

LEMMA LatestServed ==
    ASSUME NEW s
    PROVE  /\ Latest(s) \in Version \cup {Nothing}
           /\ In(s) # {} => Latest(s) \in Version
           /\ Nothing \notin Version /\ LocalModel # Nothing
  BY LatestIsOne, RegistryAssumption DEF In, Nothing, Version, LocalModel

LEMMA ServingInit == Init => TypeInv
  <1> SUFFICES ASSUME Init PROVE TypeInv
    OBVIOUS
  <1>1. RegistryInv
    BY InitHolds DEF Init
  <1>2. TypeOK /\ Carries
    BY <1>1 DEF Init, TypeOK, Carries, Absent, RegistryInv, Thread, Model
  <1>. QED BY <1>1, <1>2 DEF TypeInv

-------------------------------------------------------------------------------

LEMMA RegistryInvKept ==
    ASSUME TypeInv, [Next]_vars
    PROVE  RegistryInv'
  <1>1. CASE RegistryNext
    BY <1>1, TypeKept, RoomKept, SingleKept, GapKept DEF TypeInv, RegistryInv
  <1>2. CASE UNCHANGED registryVars
    BY <1>2, TypeKept, RoomKept, SingleKept, GapKept DEF TypeInv, RegistryInv
  <1>3. ASSUME NEW t \in Thread, LoadFails(t) PROVE RegistryInv'
    BY <1>3, RegistryInvUnless
    DEF LoadFails, Outage, TypeInv, RegistryInv, RegistryTypeOK
  <1>. QED
    BY <1>1, <1>2, <1>3
    DEF Next, ServingNext, Loading, LoadModel, Lookup, SetModel, SetMeta, LoadLocal, LocalMeta,
        Poll, Reload, Predict, Answer, vars

LEMMA ServingTypeKept ==
    ASSUME TypeInv, [Next]_vars
    PROVE  TypeInv'
  <1>. USE DEF TypeOK, Carries
  <1>0. RegistryInv' /\ RegistryTypeOK'
    BY RegistryInvKept DEF RegistryInv
  <1> SUFFICES TypeOK' /\ Carries'
    BY <1>0 DEF TypeInv
  <1>. USE <1>0 DEF TypeInv
  <1>1. ASSUME NEW t \in Thread, LoadModel(t) PROVE TypeOK' /\ Carries'
    <2>1. Latest("Production") \in Version /\ Latest("Production") # Nothing
      BY <1>1, LatestServed DEF LoadModel, Production
    <2>. QED BY <1>1, <2>1, KeysFixed DEF LoadModel, Goto, slotVars, predictVars
  <1>2. ASSUME NEW t \in Thread, LoadFails(t) PROVE TypeOK' /\ Carries'
    <2>1. UNCHANGED <<slotVars, predictVars, settings, reloads, torn>>
      BY <1>2 DEF LoadFails
    <2>2. pc[t] # "predict" /\ (IF t = "poller" THEN Done(t) ELSE Goto(t, "local") /\ UNCHANGED loadVars)
      BY <1>2 DEF LoadFails
    <2>3. CASE t = "poller"
      BY <2>1, <2>2, <2>3, KeysFixed DEF Done, Goto, slotVars, predictVars
    <2>4. CASE t # "poller"
      BY <2>1, <2>2, <2>4, KeysFixed DEF Goto, slotVars, predictVars, loadVars
    <2>. QED BY <2>3, <2>4
  <1>3. ASSUME NEW t \in Thread, Lookup(t) PROVE TypeOK' /\ Carries'
    <2>1. Latest("Production") \in Version \cup {Nothing}
      BY LatestServed
    <2>. QED BY <1>3, <2>1, KeysFixed DEF Lookup, Goto, slotVars, predictVars
  <1>4. ASSUME NEW t \in Thread, SetModel(t) PROVE TypeOK' /\ Carries'
    BY <1>4, KeysFixed, KeysInKey DEF SetModel, Goto, Seen, loadVars, Model
  <1>5. ASSUME NEW t \in Thread, SetMeta(t) PROVE TypeOK' /\ Carries'
    BY <1>5, KeysFixed, KeysInKey DEF SetMeta, Done, Goto, Seen, Model
  <1>6. ASSUME NEW t \in Thread, LoadLocal(t) PROVE TypeOK' /\ Carries'
    <2>1. CASE localFile
      <3>1. /\ models' = [models EXCEPT ![LocalKey] = LocalModel]
            /\ Seen(LocalKey) /\ torn' \in BOOLEAN /\ Goto(t, "localMeta")
            /\ UNCHANGED <<meta, loadVars, used, predictions, settings, reloads>>
            /\ pc[t] # "predict"
        BY <1>6, <2>1 DEF LoadLocal
      <3>2. models' \in [Key -> Model \cup {Nothing}] /\ overlap' \in [Thread -> BOOLEAN]
        BY <3>1, KeysInKey DEF Seen, Model
      <3>. QED BY <3>1, <3>2, KeysFixed DEF Goto, loadVars
    <2>2. CASE ~localFile
      <3>1. Failed \in [version : Model \cup {Nothing},
                        source : {"absent", "mlflow", "local", "failed"}]
        BY DEF Failed, Model
      <3>2. meta' \in [Key -> [version : Model \cup {Nothing},
                               source : {"absent", "mlflow", "local", "failed"}]]
        BY <1>6, <2>2, <3>1 DEF LoadLocal
      <3>. QED BY <1>6, <2>2, <3>2, KeysFixed DEF LoadLocal, Done, Goto
    <2>. QED BY <2>1, <2>2
  <1>7. ASSUME NEW t \in Thread, LocalMeta(t) PROVE TypeOK' /\ Carries'
    BY <1>7, KeysFixed, KeysInKey DEF LocalMeta, Done, Goto, Seen, Model
  <1>8. CASE Poll
    BY <1>8, KeysFixed DEF Poll, Goto, Thread, slotVars, loadVars, predictVars
  <1>9. ASSUME NEW k \in Key, Reload(k) PROVE TypeOK' /\ Carries'
    BY <1>9, KeysFixed DEF Reload, Goto, Thread, slotVars, loadVars, predictVars
  <1>10. ASSUME NEW t \in {"api", "kafka"}, Predict(t) PROVE TypeOK' /\ Carries'
    BY <1>10, KeysFixed, KeysInKey DEF Predict, Goto, Thread, slotVars, loadVars
  <1>11. ASSUME NEW t \in Thread, Answer(t) PROVE TypeOK' /\ Carries'
    BY <1>11, KeysFixed DEF Answer, Goto, slotVars, loadVars
  <1>12. CASE UNCHANGED servingVars
    BY <1>12, KeysFixed DEF servingVars, slotVars, loadVars, predictVars
  <1>. QED
    BY <1>1, <1>2, <1>3, <1>4, <1>5, <1>6, <1>7, <1>8, <1>9, <1>10, <1>11, <1>12
    DEF Next, ServingNext, Loading, vars, servingVars

-------------------------------------------------------------------------------
(* Models and their metadata *)

Agree(k) == models[k] # Nothing /\ Named(k) => meta[k].version = models[k]

(* Thread t has written the model of key k and not yet its metadata. *)
Writes(t, k) ==
    \/ pc[t] = "setMeta" /\ k = ConfigKey
    \/ pc[t] = "localMeta" /\ k = LocalKey

OneWriter    == \A t, u \in Thread : BetweenWrites(t) /\ BetweenWrites(u) => t = u
WroteModel   == \A t \in Thread : /\ pc[t] = "setMeta" => models[ConfigKey] = loaded[t]
                                  /\ pc[t] = "localMeta" => models[LocalKey] = LocalModel
KeysAgree    == \A k \in Key : (\A t \in Thread : ~Writes(t, k)) => Agree(k)
UsesPresent  == \A t \in Thread : pc[t] = "predict" /\ ~overlap[t] =>
                    used[t] = models[RequestKey] /\ \A u \in Thread : ~Writes(u, RequestKey)

AgreeInv == ~torn => OneWriter /\ WroteModel /\ KeysAgree /\ UsesPresent

Busy == {"setMeta", "localMeta", "predict"}

LEMMA AgreeInit == Init => AgreeInv
  <1> SUFFICES ASSUME Init PROVE AgreeInv
    OBVIOUS
  <1>1. \A t \in Thread : pc[t] \notin Busy
    BY DEF Init, Busy
  <1>2. \A k \in Key : models[k] = Nothing
    BY DEF Init
  <1>. QED
    BY <1>1, <1>2
    DEF AgreeInv, OneWriter, WroteModel, KeysAgree, UsesPresent, Busy, BetweenWrites, Agree

(* A step that writes nothing and neither begins nor ends a busy place. *)
LEMMA AgreeUnless ==
    ASSUME AgreeInv, UNCHANGED <<slotVars, settings, torn, used, overlap>>,
           \A t \in Thread : pc[t] \in Busy \/ pc'[t] \in Busy => pc'[t] = pc[t],
           \A t \in Thread : pc[t] = "setMeta" => loaded'[t] = loaded[t]
    PROVE  AgreeInv'
  <1>1. models' = models /\ meta' = meta /\ torn' = torn /\ used' = used /\ overlap' = overlap
    BY DEF slotVars
  <1>2. \A t \in Thread : \A p \in Busy : pc'[t] = p <=> pc[t] = p
    OBVIOUS
  <1>3. \A t \in Thread : /\ pc'[t] = "setMeta" <=> pc[t] = "setMeta"
                          /\ pc'[t] = "localMeta" <=> pc[t] = "localMeta"
                          /\ pc'[t] = "predict" <=> pc[t] = "predict"
    BY <1>2 DEF Busy
  <1>4. \A k : Agree(k)' <=> Agree(k)
    BY <1>1 DEF Agree, Named
  <1>5. \A t \in Thread : \A k : Writes(t, k)' <=> Writes(t, k)
    BY <1>3, KeysFixed DEF Writes
  <1>6. OneWriter => OneWriter'
    BY <1>3 DEF OneWriter, BetweenWrites
  <1>7. WroteModel => WroteModel'
    BY <1>1, <1>3, KeysFixed DEF WroteModel
  <1>8. KeysAgree => KeysAgree'
    BY <1>4, <1>5, KeysFixed DEF KeysAgree
  <1>9. UsesPresent => UsesPresent'
    BY <1>1, <1>3, <1>5, KeysFixed DEF UsesPresent
  <1>. QED BY <1>1, <1>6, <1>7, <1>8, <1>9 DEF AgreeInv

WrittenKey(p) == IF p = "setMeta" THEN ConfigKey ELSE LocalKey

(* The first write of a load: SetModel, LoadLocal. *)
LEMMA ModelWritten ==
    ASSUME TypeInv, AgreeInv, NEW t \in Thread, NEW p \in {"setMeta", "localMeta"}, NEW m,
           m = IF p = "setMeta" THEN loaded[t] ELSE LocalModel,
           pc[t] \notin Busy, pc' = [pc EXCEPT ![t] = p],
           models' = [models EXCEPT ![WrittenKey(p)] = m],
           Seen(WrittenKey(p)),
           torn' = (torn \/ \E u \in Thread \ {t} : BetweenWrites(u)),
           UNCHANGED <<meta, loaded, used, settings>>
    PROVE  AgreeInv'
  <1>. DEFINE k == WrittenKey(p)
  <1> SUFFICES ASSUME ~torn' PROVE (OneWriter /\ WroteModel /\ KeysAgree /\ UsesPresent)'
    BY DEF AgreeInv
  <1>. USE DEF TypeInv, TypeOK
  <1>1. ~torn /\ OneWriter /\ WroteModel /\ KeysAgree /\ UsesPresent
    BY DEF AgreeInv
  <1>2. \A u \in Thread \ {t} : ~BetweenWrites(u) /\ pc'[u] = pc[u]
    OBVIOUS
  <1>3. pc'[t] = p /\ k \in Key
    BY KeysInKey DEF WrittenKey
  <1>4. models'[k] = m /\ \A j \in Key \ {k} : models'[j] = models[j]
    BY <1>3
  <1>5. \A u \in Thread \ {t} : ~BetweenWrites(u)'
    BY <1>2 DEF BetweenWrites
  <1>6. OneWriter'
    BY <1>5 DEF OneWriter
  <1>7. WroteModel'
    BY <1>3, <1>4, <1>5, KeysFixed DEF WroteModel, BetweenWrites, WrittenKey
  <1>8. \A j : Writes(t, j)' <=> j = k
    BY <1>3, KeysFixed DEF Writes, WrittenKey
  <1>9. \A u \in Thread : \A j : Writes(u, j) => Writes(u, j)' /\ u # t
    BY <1>2 DEF Writes, BetweenWrites, Busy
  <1>10. ASSUME NEW j \in Key, \A u \in Thread : ~Writes(u, j)'
         PROVE  Agree(j)'
    <2>1. j # k /\ \A u \in Thread : ~Writes(u, j)
      BY <1>8, <1>9, <1>10
    <2>. QED BY <1>1, <1>4, <2>1 DEF KeysAgree, Agree, Named
  <1>11. KeysAgree'
    BY <1>10, KeysFixed DEF KeysAgree
  <1>12. ASSUME NEW u \in Thread, pc'[u] = "predict", ~overlap'[u]
         PROVE  used'[u] = models'[RequestKey] /\ \A w \in Thread : ~Writes(w, RequestKey)'
    <2>1. u # t /\ pc[u] = "predict"
      BY <1>2, <1>3, <1>12
    <2>2. ~overlap[u] /\ k # RequestKey
      BY <1>12, <2>1 DEF Seen
    <2>3. used[u] = models[RequestKey]
      BY <1>1, <2>1, <2>2 DEF UsesPresent
    <2>4. ASSUME NEW w \in Thread PROVE ~Writes(w, RequestKey)'
      <3>1. CASE w = t
        BY <3>1, <1>8, <2>2, KeysFixed
      <3>2. CASE w # t
        BY <3>2, <1>5 DEF Writes, BetweenWrites
      <3>. QED BY <3>1, <3>2
    <2>. QED BY <1>4, <2>2, <2>3, <2>4, KeysInKey
  <1>13. UsesPresent'
    BY <1>12, KeysFixed DEF UsesPresent
  <1>. QED BY <1>6, <1>7, <1>11, <1>13

(* The second write of a load: SetMeta, LocalMeta. *)
LEMMA MetaWritten ==
    ASSUME TypeInv, AgreeInv, NEW t \in Thread, BetweenWrites(t),
           pc' = [pc EXCEPT ![t] = "idle"],
           NEW record, meta' = [meta EXCEPT ![WrittenKey(pc[t])] = record],
           ~torn' => ~torn /\ record.version = models[WrittenKey(pc[t])],
           Seen(WrittenKey(pc[t])),
           \A u \in Thread \ {t} : loaded'[u] = loaded[u],
           UNCHANGED <<models, used, settings>>
    PROVE  AgreeInv'
  <1>. DEFINE k == WrittenKey(pc[t])
  <1> SUFFICES ASSUME ~torn' PROVE (OneWriter /\ WroteModel /\ KeysAgree /\ UsesPresent)'
    BY DEF AgreeInv
  <1>. USE DEF TypeInv, TypeOK
  <1>1. ~torn /\ OneWriter /\ WroteModel /\ KeysAgree /\ UsesPresent
    BY DEF AgreeInv
  <1>2. pc'[t] = "idle" /\ \A u \in Thread \ {t} : pc'[u] = pc[u] /\ ~BetweenWrites(u)
    BY <1>1 DEF OneWriter
  <1>3. \A u \in Thread : ~BetweenWrites(u)'
    BY <1>2 DEF BetweenWrites
  <1>4. OneWriter' /\ WroteModel'
    BY <1>3 DEF OneWriter, WroteModel, BetweenWrites
  <1>5. k \in Key /\ \A j \in Key : Writes(t, j) <=> j = k
    BY KeysInKey DEF WrittenKey, Writes, BetweenWrites
  <1>6. \A u \in Thread \ {t} : \A j : ~Writes(u, j)
    BY <1>2 DEF Writes, BetweenWrites
  <1>7. ASSUME NEW j \in Key PROVE Agree(j)'
    <2>1. CASE j = k
      BY <2>1, <1>5 DEF Agree
    <2>2. CASE j # k
      <3>1. Agree(j)
        BY <2>2, <1>1, <1>5, <1>6 DEF KeysAgree
      <3>2. meta'[j] = meta[j]
        BY <2>2
      <3>. QED BY <3>1, <3>2 DEF Agree, Named
    <2>. QED BY <2>1, <2>2
  <1>8. KeysAgree'
    BY <1>7, KeysFixed DEF KeysAgree
  <1>9. ASSUME NEW u \in Thread, pc'[u] = "predict", ~overlap'[u]
        PROVE  used'[u] = models'[RequestKey] /\ \A w \in Thread : ~Writes(w, RequestKey)'
    <2>1. pc[u] = "predict" /\ ~overlap[u]
      BY <1>2, <1>9 DEF Seen
    <2>2. \A w \in Thread : ~Writes(w, RequestKey)'
      BY <1>3 DEF Writes, BetweenWrites
    <2>. QED BY <1>1, <2>1, <2>2 DEF UsesPresent
  <1>10. UsesPresent'
    BY <1>9, KeysFixed DEF UsesPresent
  <1>. QED BY <1>4, <1>8, <1>10

LEMMA AgreeKept ==
    ASSUME TypeInv, AgreeInv, [Next]_vars
    PROVE  AgreeInv'
  <1>. USE DEF TypeInv, TypeOK
  <1>1. ASSUME NEW t \in Thread, LoadModel(t) \/ LoadFails(t) \/ Lookup(t)
        PROVE  AgreeInv'
    <2>1. UNCHANGED <<slotVars, settings, torn, used, overlap>>
      BY <1>1 DEF LoadModel, LoadFails, Lookup, predictVars
    <2>2. \A u \in Thread : pc[u] \in Busy \/ pc'[u] \in Busy => pc'[u] = pc[u]
      BY <1>1 DEF LoadModel, LoadFails, Lookup, Goto, Done, Busy
    <2>3. \A u \in Thread : pc[u] = "setMeta" => loaded'[u] = loaded[u]
      BY <1>1 DEF LoadModel, LoadFails, Lookup, Done, loadVars
    <2>. QED BY <2>1, <2>2, <2>3, AgreeUnless
  <1>2. ASSUME Poll \/ \E k \in Key : Reload(k)
        PROVE  AgreeInv'
    <2>1. UNCHANGED <<slotVars, settings, torn, used, overlap>> /\ loaded' = loaded
      BY <1>2 DEF Poll, Reload, predictVars, loadVars
    <2>2. \A u \in Thread : pc[u] \in Busy \/ pc'[u] \in Busy => pc'[u] = pc[u]
      BY <1>2 DEF Poll, Reload, Goto, Busy
    <2>. QED BY <2>1, <2>2, AgreeUnless
  <1>3. ASSUME NEW t \in Thread, SetModel(t)
        PROVE  AgreeInv'
    <2>1. pc[t] \notin Busy /\ WrittenKey("setMeta") = ConfigKey
      BY <1>3 DEF SetModel, Busy, WrittenKey
    <2>2. UNCHANGED <<meta, loaded, used, settings>> /\ pc' = [pc EXCEPT ![t] = "setMeta"]
      BY <1>3 DEF SetModel, loadVars, Goto
    <2>3. /\ models' = [models EXCEPT ![ConfigKey] = loaded[t]] /\ Seen(ConfigKey)
          /\ torn' = (torn \/ \E u \in Thread \ {t} : BetweenWrites(u))
      BY <1>3 DEF SetModel
    <2>. QED BY <2>1, <2>2, <2>3, ModelWritten
  <1>4. ASSUME NEW t \in Thread, SetMeta(t)
        PROVE  AgreeInv'
    <2>. DEFINE record == [version |-> looked[t], source |-> "mlflow"]
    <2>1. WrittenKey(pc[t]) = ConfigKey /\ BetweenWrites(t)
      BY <1>4 DEF SetMeta, WrittenKey, BetweenWrites
    <2>2. ~torn' => ~torn /\ record.version = models[ConfigKey]
      BY <1>4 DEF SetMeta, AgreeInv, WroteModel
    <2>3. /\ meta' = [meta EXCEPT ![ConfigKey] = record] /\ Seen(ConfigKey)
          /\ pc' = [pc EXCEPT ![t] = "idle"] /\ UNCHANGED <<models, used, settings>>
      BY <1>4 DEF SetMeta, Done, Goto
    <2>4. \A u \in Thread \ {t} : loaded'[u] = loaded[u]
      BY <1>4 DEF SetMeta, Done
    <2>. HIDE DEF record
    <2>. QED BY <2>1, <2>2, <2>3, <2>4, MetaWritten
  <1>5. ASSUME NEW t \in Thread, LocalMeta(t)
        PROVE  AgreeInv'
    <2>. DEFINE record == [version |-> LocalModel, source |-> "local"]
    <2>1. WrittenKey(pc[t]) = LocalKey /\ BetweenWrites(t)
      BY <1>5 DEF LocalMeta, WrittenKey, BetweenWrites
    <2>2. ~torn' => ~torn /\ record.version = models[LocalKey]
      BY <1>5 DEF LocalMeta, AgreeInv, WroteModel
    <2>3. /\ meta' = [meta EXCEPT ![LocalKey] = record] /\ Seen(LocalKey)
          /\ pc' = [pc EXCEPT ![t] = "idle"] /\ UNCHANGED <<models, used, settings>>
      BY <1>5 DEF LocalMeta, Done, Goto
    <2>4. \A u \in Thread \ {t} : loaded'[u] = loaded[u]
      BY <1>5 DEF LocalMeta, Done
    <2>. HIDE DEF record
    <2>. QED BY <2>1, <2>2, <2>3, <2>4, MetaWritten
  <1>6. ASSUME NEW t \in Thread, LoadLocal(t), localFile
        PROVE  AgreeInv'
    <2>1. pc[t] \notin Busy /\ WrittenKey("localMeta") = LocalKey
      BY <1>6 DEF LoadLocal, Busy, WrittenKey
    <2>2. UNCHANGED <<meta, loaded, used, settings>> /\ pc' = [pc EXCEPT ![t] = "localMeta"]
      BY <1>6 DEF LoadLocal, loadVars, Goto
    <2>3. /\ models' = [models EXCEPT ![LocalKey] = LocalModel] /\ Seen(LocalKey)
          /\ torn' = (torn \/ \E u \in Thread \ {t} : BetweenWrites(u))
      BY <1>6 DEF LoadLocal
    <2>. QED BY <2>1, <2>2, <2>3, ModelWritten
  <1>7. ASSUME NEW t \in Thread, LoadLocal(t), ~localFile
        PROVE  AgreeInv'
    <2>1. /\ UNCHANGED <<models, settings, torn, used, overlap>>
          /\ \A u \in Thread \ {t} : pc'[u] = pc[u] /\ loaded'[u] = loaded[u]
          /\ pc[t] \notin Busy /\ pc'[t] = "idle"
      BY <1>7 DEF LoadLocal, Done, Goto, Busy
    <2>2. \A k \in Key : meta'[k] = meta[k] \/ meta'[k] = Failed
      BY <1>7 DEF LoadLocal
    <2>3. \A k \in Key : Agree(k) => Agree(k)'
      BY <2>1, <2>2 DEF Agree, Named, Failed
    <2>4. \A u \in Thread : \A p \in Busy : pc'[u] = p <=> pc[u] = p
      BY <2>1 DEF Busy
    <2>5. \A u \in Thread : /\ pc'[u] = "setMeta" <=> pc[u] = "setMeta"
                            /\ pc'[u] = "localMeta" <=> pc[u] = "localMeta"
                            /\ pc'[u] = "predict" <=> pc[u] = "predict"
      BY <2>4 DEF Busy
    <2>6. \A u \in Thread : \A k : Writes(u, k)' <=> Writes(u, k)
      BY <2>1, <2>5, KeysFixed DEF Writes
    <2>7. OneWriter => OneWriter'
      BY <2>5 DEF OneWriter, BetweenWrites
    <2>8. WroteModel => WroteModel'
      BY <2>1, <2>5, KeysFixed DEF WroteModel, Busy
    <2>9. KeysAgree => KeysAgree'
      BY <2>1, <2>3, <2>6, KeysFixed DEF KeysAgree
    <2>10. UsesPresent => UsesPresent'
      BY <2>1, <2>5, <2>6, KeysFixed DEF UsesPresent
    <2>. QED BY <2>1, <2>7, <2>8, <2>9, <2>10 DEF AgreeInv
  <1>8. ASSUME NEW t \in Thread, Predict(t) \/ Answer(t)
        PROVE  AgreeInv'
    <2>1. /\ UNCHANGED <<slotVars, settings, torn>> /\ loaded' = loaded
          /\ \A u \in Thread \ {t} : pc'[u] = pc[u] /\ used'[u] = used[u] /\ overlap'[u] = overlap[u]
          /\ pc[t] \in {"idle", "predict"} /\ pc'[t] \in {"idle", "predict"}
      BY <1>8 DEF Predict, Answer, loadVars, Goto
    <2>2. \A u \in Thread : /\ pc'[u] = "setMeta" <=> pc[u] = "setMeta"
                            /\ pc'[u] = "localMeta" <=> pc[u] = "localMeta"
      BY <2>1
    <2>3. \A u \in Thread : \A k : Writes(u, k)' <=> Writes(u, k)
      BY <2>1, <2>2, KeysFixed DEF Writes
    <2>4. OneWriter => OneWriter'
      BY <2>2 DEF OneWriter, BetweenWrites
    <2>5. WroteModel => WroteModel'
      BY <2>1, <2>2, KeysFixed DEF WroteModel, slotVars
    <2>6. \A k : Agree(k)' <=> Agree(k)
      BY <2>1 DEF Agree, Named, slotVars
    <2>7. KeysAgree => KeysAgree'
      BY <2>1, <2>3, <2>6, KeysFixed DEF KeysAgree
    <2>8. ASSUME pc'[t] = "predict", ~overlap'[t]
          PROVE  used'[t] = models[RequestKey] /\ \A u \in Thread : ~Writes(u, RequestKey)
      <3>1. Predict(t)
        BY <1>8, <2>8 DEF Answer, Goto
      <3>2. used'[t] = models[RequestKey] /\ ~(\E u \in Thread : BetweenWrites(u))
        BY <2>8, <3>1 DEF Predict
      <3>. QED BY <3>2 DEF Writes, BetweenWrites
    <2>9. UsesPresent => UsesPresent'
      BY <2>1, <2>3, <2>8, KeysFixed DEF UsesPresent, slotVars
    <2>. QED BY <2>1, <2>4, <2>5, <2>7, <2>9 DEF AgreeInv
  <1>9. CASE UNCHANGED servingVars
    <2>1. UNCHANGED <<slotVars, settings, torn, used, overlap>> /\ pc' = pc /\ loaded' = loaded
      BY <1>9 DEF servingVars, predictVars, loadVars
    <2>. QED BY <2>1, AgreeUnless
  <1>. QED
    BY <1>1, <1>2, <1>3, <1>4, <1>5, <1>6, <1>7, <1>8, <1>9
    DEF Next, ServingNext, Loading, vars, servingVars, Thread
-------------------------------------------------------------------------------

ServingInv == TypeInv /\ AgreeInv

LEMMA ServingInvariant == Spec => []ServingInv
  <1>1. Init => ServingInv
    BY ServingInit, AgreeInit DEF ServingInv
  <1>2. ServingInv /\ [Next]_vars => ServingInv'
    BY ServingTypeKept, AgreeKept DEF ServingInv
  <1>. QED BY <1>1, <1>2, PTL DEF Spec

(* Every variable of the service has its type: TypeOK. *)
THEOREM ServingTypeCorrect == Spec => []TypeOK
  <1>1. ServingInv => TypeOK
    BY DEF ServingInv, TypeInv
  <1>. QED BY <1>1, ServingInvariant, PTL

(* The metadata of a key names the model under it, unless two loads        *)
(* overlapped or the registry moved during one: MetadataNamesModel.        *)
THEOREM MetadataAlwaysNamesModel == Spec => []MetadataNamesModel
  <1>1. ServingInv => MetadataNamesModel
    BY DEF ServingInv, AgreeInv, KeysAgree, Agree, Writes, BetweenWrites, MetadataNamesModel
  <1>. QED BY <1>1, ServingInvariant, PTL

(* A prediction reports the version of the model that made it, unless a    *)
(* load wrote between its two reads: PredictionNamesModel.                 *)
THEOREM PredictionAlwaysNamesModel == Spec => PredictionNamesModel
  <1>1. ASSUME ServingInv, NEW t \in Thread,
               pc[t] = "predict", ~overlap[t], ~torn, Named(RequestKey)
        PROVE  used[t] = meta[RequestKey].version
    <2>1. used[t] = models[RequestKey] /\ Agree(RequestKey)
      BY <1>1, KeysInKey DEF ServingInv, AgreeInv, KeysAgree, UsesPresent
    <2>2. used[t] # Nothing
      BY <1>1 DEF ServingInv, TypeInv, TypeOK
    <2>. QED BY <1>1, <2>1, <2>2 DEF Agree
  <1>2. ServingInv =>
          [\A t \in Thread :
             pc[t] = "predict" /\ pc'[t] = "idle" /\ ~overlap[t] /\ ~torn /\ Named(RequestKey)
                 => used[t] = meta[RequestKey].version]_vars
    BY <1>1
  <1>. QED BY <1>2, ServingInvariant, PTL DEF PredictionNamesModel

(* No reload, fallback or failure takes a model away from requests:        *)
(* KeepsServing.                                                           *)
THEOREM AlwaysKeepsServing == Spec => KeepsServing
  <1>1. ASSUME ServingInv, [Next]_vars, NEW k \in Key, models[k] # Nothing
        PROVE  models'[k] # Nothing
    <2>. USE DEF ServingInv, TypeInv
    <2>1. ASSUME NEW t \in Thread, SetModel(t) PROVE models'[k] # Nothing
      <3>1. loaded[t] # Nothing
        BY <2>1, <1>1 DEF SetModel, Carries
      <3>. QED BY <1>1, <2>1, <3>1 DEF SetModel, TypeOK
    <2>2. ASSUME NEW t \in Thread, LoadLocal(t) PROVE models'[k] # Nothing
      BY <1>1, <2>2 DEF LoadLocal, TypeOK, LocalModel, Nothing
    <2>3. CASE UNCHANGED models
      BY <1>1, <2>3
    <2>. QED
      BY <1>1, <2>1, <2>2, <2>3
      DEF Next, ServingNext, Loading, LoadModel, LoadFails, Lookup, SetMeta, LocalMeta,
          Poll, Reload, Predict, Answer, vars, slotVars, Thread
  <1>2. ServingInv /\ [Next]_vars =>
          [\A k \in Key : models[k] # Nothing => models'[k] # Nothing]_vars
    BY <1>1
  <1>. QED BY <1>2, ServingInvariant, PTL DEF KeepsServing, Spec

(* At most one version is in Production while the service runs beside the  *)
(* deployers: OneProduction.                                               *)
THEOREM OneProductionBesideService == Spec => []OneProduction
  <1>1. ServingInv => OneProduction
    BY SingleProduction DEF ServingInv, TypeInv, RegistryInv
  <1>. QED BY <1>1, ServingInvariant, PTL

(* The service only reads the registry: but for the failures it meets, it  *)
(* sees a registry that moves as ModelRegistry says.                       *)
THEOREM ServiceOnlyReads ==
    Spec => RegistryInit /\ [][RegistryNext]_<<stage, deployerVars, rollbacks, past>>
  <1>1. Init => RegistryInit
    BY DEF Init
  <1>2. [Next]_vars => [RegistryNext]_<<stage, deployerVars, rollbacks, past>>
    <2>1. ServingNext \/ UNCHANGED vars => UNCHANGED <<stage, deployerVars, rollbacks, past>>
      BY DEF ServingNext, Loading, LoadModel, LoadFails, Lookup, SetModel, SetMeta, LoadLocal,
             LocalMeta, Poll, Reload, Predict, Answer, vars, registryVars, bounds
    <2>. QED BY <2>1 DEF Next
  <1>. QED BY <1>1, <1>2, PTL DEF Spec
===============================================================================
