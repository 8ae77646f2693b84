------------------------- MODULE ModelRegistry_proofs --------------------------
(***************************************************************************)
(* Proofs about ModelRegistry for any number of deployers and versions,    *)
(* and any number of rollbacks and failed calls.                           *)
(***************************************************************************)
EXTENDS ModelRegistry, TLAPS, WellFoundedInduction, FiniteSetTheorems

LEMMA LeastNumber ==
    ASSUME NEW S, S \subseteq Nat, S # {}
    PROVE  \E m \in S : \A n \in S : m <= n
  <1> DEFINE R == {p \in Nat \X Nat : p[1] < p[2]}
  <1>1. IsWellFoundedOn(R, Nat)
    BY NatLessThanWellFounded DEF OpToRel
  <1>2. PICK m \in S : \A n \in S : <<n, m>> \notin R
    BY <1>1, WFMin
  <1>3. \A n \in S : ~ (n < m)
    BY <1>2
  <1>. QED BY <1>2, <1>3

LEMMA GreatestVersion ==
    ASSUME NEW S, S \subseteq Version, S # {}
    PROVE  \E m \in S : \A n \in S : n <= m
  <1> DEFINE Mirror == {MaxVersions - n : n \in S}
  <1>1. MaxVersions \in Nat /\ \A n \in S : n \in Nat /\ n <= MaxVersions
    BY RegistryAssumption DEF Version
  <1>2. Mirror \subseteq Nat /\ Mirror # {}
    BY <1>1
  <1>3. PICK k \in Mirror : \A n \in Mirror : k <= n
    BY <1>2, LeastNumber
  <1>4. PICK m \in S : k = MaxVersions - m
    BY <1>3
  <1>5. ASSUME NEW n \in S PROVE n <= m
    <2>1. MaxVersions - n \in Mirror
      OBVIOUS
    <2>. HIDE DEF Mirror
    <2>2. MaxVersions - m <= MaxVersions - n
      BY <2>1, <1>3, <1>4
    <2>. QED BY <2>2, <1>1, <1>4
  <1>. QED BY <1>5

LEMMA LatestIsOne ==
    ASSUME NEW s
    PROVE  Latest(s) \in In(s) \/ (Latest(s) = Nothing /\ In(s) = {})
  <1>1. In(s) \subseteq Version
    BY DEF In
  <1>2. CASE In(s) # {}
    BY <1>1, <1>2, GreatestVersion DEF Latest
  <1>. QED BY <1>2 DEF Latest

LEMMA NextIsOne ==
    ASSUME In("unregistered") # {}
    PROVE  NextVersion \in In("unregistered")
  <1>1. In("unregistered") \subseteq Nat
    BY RegistryAssumption DEF In, Version
  <1>2. \E m \in In("unregistered") : \A n \in In("unregistered") : m <= n
    BY <1>1, LeastNumber
  <1>. QED BY <1>2 DEF NextVersion

Registering == {d \in Deployer : at[d] = "register"}

(* A deployer only knows versions that are registered. *)
KnownRegistered ==
    \A d \in Deployer :
        /\ previous[d] # Nothing => stage[previous[d]] # "unregistered"
        /\ candidate[d] # Nothing => stage[candidate[d]] # "unregistered"

(* Every promotion that is about to register finds a version left. *)
Room == Cardinality(Registering) <= Cardinality(In("unregistered"))

Single == \A u, v \in Production : u = v

RegistryInv == RegistryTypeOK /\ KnownRegistered /\ Room /\ Single /\ GapNeedsPromotion

LEMMA Finite ==
    /\ IsFiniteSet(Registering) /\ Cardinality(Registering) \in Nat
    /\ \A s : IsFiniteSet(In(s)) /\ Cardinality(In(s)) \in Nat
  <1>1. IsFiniteSet(Registering)
    BY RegistryAssumption, FS_Subset DEF Registering
  <1>2. IsFiniteSet(Version)
    BY RegistryAssumption, FS_Interval DEF Version
  <1>3. ASSUME NEW s PROVE IsFiniteSet(In(s))
    BY <1>2, FS_Subset DEF In
  <1>. QED BY <1>1, <1>3, FS_CardinalityType

(* The promotion whose turn it is finds a version to register. *)
LEMMA RoomToRegister ==
    ASSUME Room, NEW d \in Deployer, at[d] = "register"
    PROVE  NextVersion \in In("unregistered")
  <1>1. Registering # {}
    BY DEF Registering
  <1>2. Cardinality(Registering) # 0
    BY <1>1, Finite, FS_EmptySet
  <1>3. Cardinality(In("unregistered")) # 0
    BY <1>2, Finite DEF Room
  <1>4. In("unregistered") # {}
    BY <1>3, FS_EmptySet
  <1>. QED BY <1>4, NextIsOne

LEMMA InitHolds == RegistryInit => RegistryInv
  <1> SUFFICES ASSUME RegistryInit PROVE RegistryInv
    OBVIOUS
  <1>1. RegistryTypeOK
    BY DEF RegistryInit, RegistryTypeOK
  <1>2. KnownRegistered
    BY DEF RegistryInit, KnownRegistered
  <1>3. Room
    <2>1. Registering = {}
      BY DEF RegistryInit, Registering
    <2>. QED BY <2>1, Finite, FS_EmptySet DEF Room
  <1>4. Single /\ GapNeedsPromotion
    BY DEF RegistryInit, Single, GapNeedsPromotion, Production, In
  <1>. QED BY <1>1, <1>2, <1>3, <1>4 DEF RegistryInv

-------------------------------------------------------------------------------

LEMMA TypeKept ==
    ASSUME RegistryInv, [RegistryNext]_registryVars
    PROVE  RegistryTypeOK' /\ KnownRegistered'
  <1>. USE DEF RegistryInv, RegistryTypeOK, KnownRegistered
  <1>0. Nothing \notin Version /\ \A s : Latest(s) \in Version \cup {Nothing}
    BY LatestIsOne DEF Nothing, Version, In
  <1>1. ASSUME NEW d \in Deployer, NEW fails \in BOOLEAN, BeginPromotion(d, fails)
        PROVE  RegistryTypeOK' /\ KnownRegistered'
    <2>1. Latest("Production") # Nothing => stage[Latest("Production")] # "unregistered"
      BY LatestIsOne DEF In
    <2>. QED BY <1>0, <1>1, <2>1 DEF BeginPromotion, Outage, Move, past
  <1>2. ASSUME NEW d \in Deployer, BeginRollback(d)
        PROVE  RegistryTypeOK' /\ KnownRegistered'
    BY <1>2 DEF BeginRollback, Move, past
  <1>3. ASSUME NEW d \in Deployer, Register(d)
        PROVE  RegistryTypeOK' /\ KnownRegistered'
    <2>1. NextVersion \in Version
      BY <1>3, RoomToRegister DEF Register, In
    <2>. QED BY <1>0, <1>3, <2>1 DEF Register, Outage, Move, past
  <1>4. ASSUME NEW d \in Deployer, RegisterFails(d)
        PROVE  RegistryTypeOK' /\ KnownRegistered'
    BY <1>4 DEF RegisterFails, Outage, Report, Move, past
  <1>5. ASSUME NEW d \in Deployer, NEW applied \in BOOLEAN, Archive(d, applied)
        PROVE  RegistryTypeOK' /\ KnownRegistered'
    BY <1>5 DEF Archive, Outage, Move, past
  <1>6. ASSUME NEW d \in Deployer, Transition(d)
        PROVE  RegistryTypeOK' /\ KnownRegistered'
    <2>1. candidate[d] \in Version
      BY <1>6 DEF Transition
    <2>2. stage' \in [Version -> {"unregistered", "None", "Production", "Archived"}]
      BY <1>6 DEF Transition, TransitionTo
    <2>3. \A v \in Version : stage[v] # "unregistered" => stage'[v] # "unregistered"
      BY <1>6 DEF Transition, TransitionTo
    <2>. HIDE DEF RegistryInv
    <2>4. RegistryTypeOK'
      BY <1>6, <2>1, <2>2 DEF Transition, Outage, Report, Move, RegistryInv
    <2>. QED BY <1>6, <2>3, <2>4 DEF Transition, Report, Move, RegistryInv
  <1>7. ASSUME NEW d \in Deployer, TransitionFails(d)
        PROVE  RegistryTypeOK' /\ KnownRegistered'
    BY <1>7 DEF TransitionFails, Outage, Report, Move
  <1>8. ASSUME NEW d \in Deployer, PickArchived(d)
        PROVE  RegistryTypeOK' /\ KnownRegistered'
    <2>1. Latest("Archived") # Nothing => stage[Latest("Archived")] # "unregistered"
      BY LatestIsOne DEF In
    <2>. QED BY <1>0, <1>8, <2>1 DEF PickArchived, Report, Move, past
  <1>9. ASSUME NEW d \in Deployer, PickFails(d)
        PROVE  RegistryTypeOK' /\ KnownRegistered'
    BY <1>9 DEF PickFails, Outage, Report, Move, past
  <1>10. CASE UNCHANGED registryVars
    BY <1>10 DEF registryVars, deployerVars, bounds, past
  <1>. QED
    BY <1>1, <1>2, <1>3, <1>4, <1>5, <1>6, <1>7, <1>8, <1>9, <1>10
    DEF RegistryNext, DeployerStep
(* A step that moves no version in or out of "unregistered" and no         *)
(* deployer to "register" leaves the room.                                 *)
LEMMA RoomUnless ==
    ASSUME Room, Registering' \subseteq Registering,
           In("unregistered")' = In("unregistered")
    PROVE  Room'
  <1>1. /\ Cardinality(Registering') \in Nat
        /\ Cardinality(Registering') <= Cardinality(Registering)
    BY Finite, FS_Subset, FS_CardinalityType
  <1>. QED BY <1>1, Finite DEF Room

LEMMA RoomKept ==
    ASSUME RegistryInv, [RegistryNext]_registryVars
    PROVE  Room'
  <1>. USE DEF RegistryInv, RegistryTypeOK
  <1>1. ASSUME NEW d \in Deployer, NEW fails \in BOOLEAN, BeginPromotion(d, fails)
        PROVE  Room'
    <2>1. Registering' = Registering \cup {d} /\ d \notin Registering
      BY <1>1 DEF BeginPromotion, Move, Registering
    <2>2. Cardinality(Registering') = Cardinality(Registering) + 1
      BY <2>1, Finite, FS_AddElement
    <2>3. In("unregistered")' = In("unregistered")
      BY <1>1 DEF BeginPromotion, In
    <2>4. Cardinality(Registering) < Cardinality(In("unregistered"))
      BY <1>1 DEF BeginPromotion, Registering
    <2>. QED BY <2>2, <2>3, <2>4, Finite DEF Room
  <1>2. ASSUME NEW d \in Deployer, Register(d)
        PROVE  Room'
    <2>1. Registering' = Registering \ {d} /\ d \in Registering
      BY <1>2 DEF Register, Move, Registering
    <2>2. NextVersion \in In("unregistered")
      BY <1>2, RoomToRegister DEF Register
    <2>3. In("unregistered")' = In("unregistered") \ {NextVersion}
      BY <1>2, <2>2 DEF Register, In
    <2>4. Cardinality(Registering') = Cardinality(Registering) - 1
      BY <2>1, Finite, FS_RemoveElement
    <2>5. Cardinality(In("unregistered")') = Cardinality(In("unregistered")) - 1
      BY <2>2, <2>3, Finite, FS_RemoveElement
    <2>. QED BY <2>4, <2>5, Finite DEF Room
  <1>3. ASSUME NEW d \in Deployer, NEW applied \in BOOLEAN, Archive(d, applied)
        PROVE  Room'
    <2>1. In("unregistered")' = In("unregistered")
      BY <1>3 DEF Archive, In, KnownRegistered
    <2>2. Registering' \subseteq Registering
      BY <1>3 DEF Archive, Move, Registering
    <2>. QED BY <2>1, <2>2, RoomUnless
  <1>4. ASSUME NEW d \in Deployer, Transition(d)
        PROVE  Room'
    <2>1. candidate[d] \in Version /\ stage[candidate[d]] # "unregistered"
      BY <1>4 DEF Transition, KnownRegistered
    <2>2. In("unregistered")' = In("unregistered")
      BY <1>4, <2>1 DEF Transition, TransitionTo, In
    <2>3. Registering' \subseteq Registering
      BY <1>4 DEF Transition, Report, Move, Registering
    <2>. QED BY <2>2, <2>3, RoomUnless
  <1>5. ASSUME NEW d \in Deployer,
               \/ RegisterFails(d) \/ TransitionFails(d) \/ BeginRollback(d)
               \/ PickArchived(d) \/ PickFails(d)
        PROVE  Room'
    <2>1. In("unregistered")' = In("unregistered")
      BY <1>5 DEF RegisterFails, TransitionFails, BeginRollback, PickArchived, PickFails, In
    <2>2. Registering' \subseteq Registering
      BY <1>5 DEF RegisterFails, TransitionFails, BeginRollback, PickArchived, PickFails,
                  Report, Move, Registering
    <2>. QED BY <2>1, <2>2, RoomUnless
  <1>6. CASE UNCHANGED registryVars
    <2>1. In("unregistered")' = In("unregistered") /\ Registering' = Registering
      BY <1>6 DEF registryVars, deployerVars, In, Registering
    <2>. QED BY <2>1, RoomUnless
  <1>. QED BY <1>1, <1>2, <1>3, <1>4, <1>5, <1>6 DEF RegistryNext, DeployerStep

LEMMA SingleKept ==
    ASSUME RegistryInv, [RegistryNext]_registryVars
    PROVE  Single'
  <1>. USE DEF RegistryInv, RegistryTypeOK, Single
  <1>1. ASSUME NEW d \in Deployer, Transition(d)
        PROVE  Single'
    <2>1. Production' = {candidate[d]}
      BY <1>1 DEF Transition, TransitionTo, Production, In
    <2>. QED BY <2>1
  <1>2. ASSUME NEW d \in Deployer, Register(d)
        PROVE  Single'
    <2>1. NextVersion \in Version
      BY <1>2, RoomToRegister DEF Register, In
    <2>2. Production' \subseteq Production
      BY <1>2, <2>1 DEF Register, Production, In
    <2>. QED BY <2>2
  <1>3. ASSUME NEW d \in Deployer, NEW applied \in BOOLEAN, Archive(d, applied)
        PROVE  Single'
    <2>1. Production' \subseteq Production
      BY <1>3 DEF Archive, Production, In
    <2>. QED BY <2>1
  <1>4. CASE UNCHANGED stage
    BY <1>4 DEF Production, In
  <1>. QED
    BY <1>1, <1>2, <1>3, <1>4
    DEF RegistryNext, DeployerStep, BeginPromotion, BeginRollback, RegisterFails,
        TransitionFails, PickArchived, PickFails, registryVars

LEMMA GapKept ==
    ASSUME RegistryInv, [RegistryNext]_registryVars
    PROVE  GapNeedsPromotion'
  <1>. USE DEF RegistryInv, RegistryTypeOK, GapNeedsPromotion
  <1>1. ASSUME NEW d \in Deployer, NEW applied \in BOOLEAN, Archive(d, applied)
        PROVE  GapNeedsPromotion'
    BY <1>1 DEF Archive, Move
  <1>2. ASSUME NEW d \in Deployer, Transition(d)
        PROVE  GapNeedsPromotion'
    <2>1. candidate[d] \in Production'
      BY <1>2 DEF Transition, TransitionTo, Production, In
    <2>. QED BY <2>1
  <1>3. ASSUME NEW d \in Deployer, TransitionFails(d)
        PROVE  GapNeedsPromotion'
    BY <1>3 DEF TransitionFails, Report, Move, Production, In
  <1>4. ASSUME NEW d \in Deployer, Register(d)
        PROVE  GapNeedsPromotion'
    <2>1. NextVersion \in Version /\ stage[NextVersion] = "unregistered"
      BY <1>4, RoomToRegister DEF Register, In
    <2>2. Production' = Production
      BY <1>4, <2>1 DEF Register, Production, In
    <2>. QED BY <1>4, <2>2 DEF Register, Move, past
  <1>5. ASSUME NEW d \in Deployer,
               \/ \E fails \in BOOLEAN : BeginPromotion(d, fails)
               \/ BeginRollback(d) \/ RegisterFails(d) \/ PickArchived(d) \/ PickFails(d)
        PROVE  GapNeedsPromotion'
    <2>1. Production' = Production /\ UNCHANGED past
      BY <1>5 DEF BeginPromotion, BeginRollback, RegisterFails, PickArchived, PickFails,
                  Production, In
    <2>2. \A u \in Deployer : at[u] = "transition" => at'[u] = "transition"
      BY <1>5 DEF BeginPromotion, BeginRollback, RegisterFails, PickArchived, PickFails,
                  Report, Move
    <2>. QED BY <2>1, <2>2 DEF past
  <1>6. CASE UNCHANGED registryVars
    BY <1>6 DEF registryVars, deployerVars, past, Production, In
  <1>. QED BY <1>1, <1>2, <1>3, <1>4, <1>5, <1>6 DEF RegistryNext, DeployerStep

-------------------------------------------------------------------------------

LEMMA RegistryInvariant == RegistrySpec => []RegistryInv
  <1>1. RegistryInv /\ [RegistryNext]_registryVars => RegistryInv'
    BY TypeKept, RoomKept, SingleKept, GapKept DEF RegistryInv
  <1>. QED BY InitHolds, <1>1, PTL DEF RegistrySpec

LEMMA SingleProduction == Single => OneProduction
  <1> SUFFICES ASSUME Single PROVE OneProduction
    OBVIOUS
  <1>1. CASE Production = {}
    BY <1>1, FS_EmptySet DEF OneProduction
  <1>2. ASSUME NEW v, Production = {v} PROVE OneProduction
    <2>1. Cardinality(Production) = 1
      BY <1>2, FS_Singleton
    <2>. QED BY <2>1 DEF OneProduction
  <1>3. Production = {} \/ \E v : Production = {v}
    BY DEF Single
  <1>. QED BY <1>1, <1>2, <1>3

(* Every variable of the registry and of its deployers has its type, and a *)
(* deployer that is about to move a version knows one: RegistryTypeOK.     *)
THEOREM RegistryTypeCorrect == RegistrySpec => []RegistryTypeOK
  <1>1. RegistryInv => RegistryTypeOK
    BY DEF RegistryInv
  <1>. QED BY <1>1, RegistryInvariant, PTL

(* Promotions and rollbacks of any number of deployers, failing anywhere,  *)
(* never put two versions in Production: OneProduction.                    *)
THEOREM OneProductionAlways == RegistrySpec => []OneProduction
  <1>1. RegistryInv => OneProduction
    BY SingleProduction DEF RegistryInv
  <1>. QED BY <1>1, RegistryInvariant, PTL

(* Production becomes empty again only between the two registry calls of a *)
(* promotion, or after one that failed there: GapNeedsPromotion.           *)
THEOREM GapAlwaysNeedsPromotion == RegistrySpec => []GapNeedsPromotion
  <1>1. RegistryInv => GapNeedsPromotion
    BY DEF RegistryInv
  <1>. QED BY <1>1, RegistryInvariant, PTL
===============================================================================
