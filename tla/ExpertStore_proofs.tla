-------------------------- MODULE ExpertStore_proofs --------------------------
(***************************************************************************)
(* Proofs about ExpertStore, for every number of clients, layers and       *)
(* experts, every budget and every parameter of the promotion policy.      *)
(***************************************************************************)
EXTENDS ExpertStore, FiniteSetTheorems, TLAPS

LEMMA ModBound ==
  ASSUME NEW a \in Int, NEW b \in Int, b > 0
  PROVE  a % b \in 0..(b - 1)
  BY SMT

USE DEF Layers, Ids, NoSlot

LEMMA KeyTyped == NoKey \in Key
<1>1. PICK e \in Experts : TRUE
  BY LayersAssumption
<1>2. [layer |-> 0, expert |-> e] \in Key
  BY <1>1, LayersAssumption DEF Key
<1> QED  BY <1>2 DEF NoKey

\* The counters of a layer stay below Wrap.
LEMMA BumpTyped ==
  ASSUME TypeOK, NEW k \in Key, Bump(k)
  PROVE  /\ heat' \in [Layers -> [Experts -> 0..Wrap - 1]]
         /\ last' \in [Layers -> [Experts -> 0..Wrap - 1]]
         /\ clock' \in [Layers -> 0..Wrap - 1]
<1> DEFINE now  == (clock[k.layer] + 1) % Wrap
           cool == [e \in Experts |-> IF now % DecayEvery = 0
                                 THEN heat[k.layer][e] \div 2 ELSE heat[k.layer][e]]
           up   == IF cool[k.expert] < Wrap - 1 THEN cool[k.expert] + 1 ELSE cool[k.expert]
<1>0. k.layer \in Layers /\ k.expert \in Experts
  BY DEF Key
<1>1. now \in 0..Wrap - 1
  <2>1. clock[k.layer] + 1 \in Int
    BY <1>0, TierAssumption DEF TypeOK
  <2>2. Wrap \in Int /\ Wrap > 0
    BY TierAssumption
  <2> QED  BY <2>1, <2>2, ModBound
<1>2. cool \in [Experts -> 0..Wrap - 1]
  <2>1. \A e \in Experts : heat[k.layer][e] \in 0..Wrap - 1
    BY <1>0 DEF TypeOK
  <2>2. \A n \in 0..Wrap - 1 : n \div 2 \in 0..Wrap - 1
    BY TierAssumption
  <2> HIDE DEF now
  <2> QED  BY <2>1, <2>2
<1>3. up \in 0..Wrap - 1
  <2> HIDE DEF cool, now
  <2> QED  BY <1>0, <1>2, TierAssumption
<1>4. /\ clock' = [clock EXCEPT ![k.layer] = now]
      /\ heat' = [heat EXCEPT ![k.layer] = [cool EXCEPT ![k.expert] = up]]
      /\ last' = [last EXCEPT ![k.layer][k.expert] = now]
  BY DEF Bump
<1> HIDE DEF now, cool, up
<1>5. [cool EXCEPT ![k.expert] = up] \in [Experts -> 0..Wrap - 1]
  BY <1>2, <1>3
<1> QED
  BY <1>0, <1>1, <1>4, <1>5 DEF TypeOK

LEMMA LayerBudgetTyped == ASSUME NEW l \in Layers PROVE LayerBudget(l) \in Int
  BY BudgetAssumption, LayersAssumption DEF LayerBudget

\* An admission evicts nothing or one slot of the layer that has no lease.
LEMMA EvictionsUnleased ==
  ASSUME NEW k \in Key, NEW out \in Evictions(k)
  PROVE  /\ ExpertBytes <= LayerBudget(k.layer)
         /\ \/ out = {} /\ Used(k.layer) <= LayerBudget(k.layer)
            \/ \E v \in slots : out = {v} /\ v.layer = k.layer /\ leases[v.id] = 0
<1>1. CASE ExpertBytes > LayerBudget(k.layer)
  BY <1>1 DEF Evictions
<1>2. CASE ~(ExpertBytes > LayerBudget(k.layer)) /\ Used(k.layer) <= LayerBudget(k.layer)
  BY <1>2, BudgetAssumption, LayerBudgetTyped DEF Evictions, Key
<1>3. CASE ~(ExpertBytes > LayerBudget(k.layer)) /\ ~(Used(k.layer) <= LayerBudget(k.layer))
  <2>1. PICK v \in Coldest(k.layer) : out = {v}
    BY <1>3 DEF Evictions
  <2>2. v \in slots /\ v.layer = k.layer /\ leases[v.id] = 0
    BY <2>1 DEF Coldest, SlotsOf
  <2> QED  BY <1>3, <2>1, <2>2, LayerBudgetTyped, BudgetAssumption DEF Key
<1> QED  BY <1>1, <1>2, <1>3

-----------------------------------------------------------------------------
(* The inductive invariant.                                                *)

\* Slot identities are handed out in order, and no lease exists on one that is
\* still to come.
IdsInOrder ==
  /\ \A s \in slots : s.id <= loads
  /\ \A s, t \in slots : s.id = t.id => s = t
  /\ \A i \in Ids : i > loads => leases[i] = 0
  /\ \A c \in Clients : client[c].slot <= loads

\* Only a client that runs an expert holds a slot.
HoldersRun == \A c \in Clients : client[c].pc # "use" => client[c].slot = NoSlot

FiniteSlots == IsFiniteSet(slots)

IInv == /\ TypeOK /\ IdsInOrder /\ HoldersRun /\ FiniteSlots
        /\ OneSlotPerExpert /\ WithinBudget /\ LeasedStays /\ LeasesCountViews

-----------------------------------------------------------------------------
(* What an admission does to the slots.                                    *)

LEMMA AdmitTyped ==
  ASSUME IInv, NEW k \in Key, NEW held \in Nat, Admit(k, held)
  PROVE  /\ slots' \subseteq Slot /\ leases' \in [Ids -> Nat] /\ loads' \in 0..MaxLoads
         /\ loads' = loads + 1 /\ loads' \in Ids
         /\ leases' = [leases EXCEPT ![loads'] = held]
<1>1. PICK out \in Evictions(k) :
        slots' = (slots \ out) \cup {[layer |-> k.layer, expert |-> k.expert, id |-> loads + 1]}
  BY DEF Admit
<1>2. loads + 1 \in Ids /\ loads' = loads + 1 /\ loads' \in 0..MaxLoads
  BY RequestsAssumption DEF Admit, IInv, TypeOK
<1>3. [layer |-> k.layer, expert |-> k.expert, id |-> loads + 1] \in Slot
  BY <1>2 DEF Key, Slot
<1>4. slots' \subseteq Slot
  BY <1>1, <1>3 DEF IInv, TypeOK
<1>5. leases' = [leases EXCEPT ![loads'] = held] /\ leases' \in [Ids -> Nat]
  BY <1>2 DEF Admit, IInv, TypeOK
<1> QED  BY <1>2, <1>4, <1>5

\* The slot of a view has a lease, so it is not among those evicted.
LEMMA ViewsKeepTheirSlot ==
  ASSUME IInv, NEW v \in slots, leases[v.id] = 0, NEW c \in Clients, client[c].pc = "use"
  PROVE  client[c].slot # v.id
<1>1. SUFFICES ASSUME client[c].slot = v.id PROVE FALSE
  OBVIOUS
<1>2. v.id \in Ids
  BY DEF IInv, TypeOK, Slot
<1>3. Cardinality(Views(v.id)) = 0
  BY <1>2 DEF IInv, LeasesCountViews
<1>4. IsFiniteSet(Views(v.id))
  BY ClientsAssumption, FS_Subset DEF Views
<1>5. Views(v.id) = {}
  BY <1>3, <1>4, FS_EmptySet
<1> QED  BY <1>1, <1>5 DEF Views

LEMMA AdmitSlots ==
  ASSUME IInv, NEW k \in Key, NEW held \in Nat, Admit(k, held), Find(k) = {}
  PROVE  /\ FiniteSlots' /\ OneSlotPerExpert' /\ WithinBudget'
         /\ [layer |-> k.layer, expert |-> k.expert, id |-> loads'] \in slots'
         /\ \A s \in slots' : s.id <= loads'
         /\ \A s, t \in slots' : s.id = t.id => s = t
         /\ \A s \in slots : s \notin slots' => leases[s.id] = 0
<1> DEFINE new == [layer |-> k.layer, expert |-> k.expert, id |-> loads + 1]
<1>1. PICK out \in Evictions(k) : slots' = (slots \ out) \cup {new}
  BY DEF Admit
<1>2. /\ loads \in Nat /\ loads' = loads + 1 /\ k.layer \in Layers /\ new \in Slot
      /\ new.layer = k.layer /\ new.expert = k.expert /\ new.id = loads'
  <2>1. loads' = loads + 1 /\ loads' \in Ids
    BY AdmitTyped
  <2>2. k.layer \in Layers /\ k.expert \in Experts
    BY DEF Key
  <2>3. loads \in Nat
    BY RequestsAssumption DEF IInv, TypeOK
  <2>4. new \in Slot
    BY <2>1, <2>2 DEF Slot
  <2> QED  BY <2>1, <2>2, <2>3, <2>4
<1>3. \A s \in slots : s.id \in Nat /\ s.id <= loads /\ s.layer \in Layers
  BY DEF IInv, IdsInOrder, TypeOK, Slot
<1>4. new \notin slots /\ \A s \in slots : s.id # new.id
  BY <1>2, <1>3
<1>5. \A s \in slots : ~(s.layer = new.layer /\ s.expert = new.expert)
  BY <1>2 DEF Find
<1> HIDE DEF new
<1>6. FiniteSlots'
  BY <1>1, FS_Subset, FS_AddElement DEF FiniteSlots, IInv
<1>7. OneSlotPerExpert'
  BY <1>1, <1>5 DEF OneSlotPerExpert, IInv
<1>8. \A s \in slots : s \notin slots' => leases[s.id] = 0
  BY <1>1, EvictionsUnleased
<1>9. WithinBudget'
  <2> SUFFICES ASSUME NEW l \in Layers
               PROVE  Cardinality(SlotsOf(l)') * ExpertBytes <= LayerBudget(l)
    BY DEF WithinBudget, LayerBudget
  <2>1. \A m \in Layers : IsFiniteSet(SlotsOf(m))
    BY FS_Subset DEF SlotsOf, IInv, FiniteSlots
  <2>2. CASE l # k.layer
    <3>1. SlotsOf(l)' \subseteq SlotsOf(l)
      BY <1>1, <1>2, <2>2 DEF SlotsOf
    <3>2. SlotsOf(l) \subseteq SlotsOf(l)'
      BY <1>1, <2>2, EvictionsUnleased DEF SlotsOf
    <3>3. SlotsOf(l)' = SlotsOf(l)
      BY <3>1, <3>2
    <3> QED  BY <3>3 DEF IInv, WithinBudget
  <2>3. CASE l = k.layer
    <3>1. CASE out = {} /\ Used(k.layer) <= LayerBudget(k.layer)
      <4>1. SlotsOf(l)' = SlotsOf(l) \cup {new} /\ new \notin SlotsOf(l)
        BY <1>1, <1>2, <1>4, <2>3, <3>1 DEF SlotsOf
      <4>2. Cardinality(SlotsOf(l)') = Cardinality(SlotsOf(l)) + 1
        BY <2>1, <4>1, FS_AddElement
      <4> QED  BY <2>3, <3>1, <4>2 DEF Used
    <3>2. ASSUME NEW v \in slots, out = {v}, v.layer = k.layer
          PROVE  Cardinality(SlotsOf(l)') = Cardinality(SlotsOf(l))
      <4>1. SlotsOf(l)' = (SlotsOf(l) \ {v}) \cup {new} /\ new \notin SlotsOf(l) /\ v \in SlotsOf(l)
        BY <1>1, <1>2, <1>4, <2>3, <3>2 DEF SlotsOf
      <4>2. /\ IsFiniteSet(SlotsOf(l) \ {v})
            /\ Cardinality(SlotsOf(l) \ {v}) = Cardinality(SlotsOf(l)) - 1
        BY <2>1, <4>1, FS_RemoveElement
      <4>3. Cardinality(SlotsOf(l)') = Cardinality(SlotsOf(l) \ {v}) + 1
        BY <4>1, <4>2, FS_AddElement
      <4>4. Cardinality(SlotsOf(l)) \in Nat
        BY <2>1, FS_CardinalityType
      <4> QED  BY <4>2, <4>3, <4>4
    <3> QED  BY <3>1, <3>2, EvictionsUnleased DEF IInv, WithinBudget
  <2> QED  BY <2>2, <2>3
<1>10. \A s \in slots' : s.id <= loads'
  BY <1>1, <1>2, <1>3
<1>11. \A s, t \in slots' : s.id = t.id => s = t
  BY <1>1, <1>4 DEF IInv, IdsInOrder
<1>12. new \in slots' /\ new = [layer |-> k.layer, expert |-> k.expert, id |-> loads']
  BY <1>1, <1>2 DEF new
<1> QED  BY <1>6, <1>7, <1>8, <1>9, <1>10, <1>11, <1>12

-----------------------------------------------------------------------------
(* The steps.                                                              *)

LEMMA InitIInv == Init => IInv
<1> SUFFICES ASSUME Init PROVE IInv
  OBVIOUS
<1>1. TypeOK
  BY KeyTyped, TierAssumption, RequestsAssumption DEF Init, TypeOK, Slot, Resting
<1>2. IdsInOrder /\ HoldersRun /\ FiniteSlots /\ OneSlotPerExpert /\ LeasedStays
  BY RequestsAssumption, FS_EmptySet
     DEF Init, IdsInOrder, HoldersRun, FiniteSlots, OneSlotPerExpert, LeasedStays, Resting
<1>3. WithinBudget
  <2>1. \A l \in Layers : SlotsOf(l) = {}
    BY DEF Init, SlotsOf
  <2>2. \A l \in Layers : LayerBudget(l) >= 0
    BY BudgetAssumption, LayersAssumption DEF LayerBudget
  <2> QED  BY <2>1, <2>2, FS_EmptySet, BudgetAssumption DEF WithinBudget
<1>4. LeasesCountViews
  <2>1. \A i \in Ids : Views(i) = {}
    BY DEF Init, Views, Resting
  <2> QED  BY <2>1, FS_EmptySet DEF LeasesCountViews, Init
<1> QED  BY <1>1, <1>2, <1>3, <1>4 DEF IInv

\* A step that changes neither slots, leases nor views.
LEMMA CacheUntouched ==
  ASSUME IInv, TypeOK', UNCHANGED <<slots, leases, loads>>,
         \A c \in Clients : /\ client'[c].slot = client[c].slot
                            /\ client'[c].pc = "use" <=> client[c].pc = "use"
                            /\ client[c].pc = "use" => client'[c].key = client[c].key
  PROVE  IInv'
<1>1. IdsInOrder' /\ HoldersRun' /\ FiniteSlots' /\ OneSlotPerExpert'
  BY DEF IInv, IdsInOrder, HoldersRun, FiniteSlots, OneSlotPerExpert
<1>2. LeasedStays'
  BY DEF IInv, LeasedStays
<1>3. WithinBudget'
  BY DEF IInv, WithinBudget, SlotsOf, LayerBudget
<1>4. \A i : Views(i)' = Views(i)
  BY DEF Views
<1>5. LeasesCountViews'
  BY <1>4 DEF IInv, LeasesCountViews
<1> QED  BY <1>1, <1>2, <1>3, <1>5 DEF IInv

LEMMA TrackTyped ==
  ASSUME TypeOK, NEW accessed, Track(accessed)
  PROVE  comeback' \in [Layers -> [Experts -> 0..Margin]]
  BY TierAssumption DEF TypeOK, Track, Cooled, Least

LEMMA HitStep ==
  ASSUME IInv, NEW c \in Clients, NEW k \in Key, client[c].pc # "use", Hit(c, k),
         UNCHANGED worker, queue' \in Seq(Key), requests' \in 0..MaxRequests
  PROVE  IInv'
<1>1. PICK s \in Find(k) :
        /\ leases' = [leases EXCEPT ![s.id] = @ + 1]
        /\ client' = [client EXCEPT ![c] = [pc |-> "use", key |-> k, slot |-> s.id]]
  BY DEF Hit
<1>2. UNCHANGED <<slots, loads>> /\ Bump(k) /\ Track({k})
  BY DEF Hit
<1>3. s \in slots /\ s.id \in Ids /\ s.layer = k.layer /\ s.expert = k.expert
      /\ s = [layer |-> s.layer, expert |-> s.expert, id |-> s.id]
  BY DEF Find, IInv, TypeOK, Slot
<1>4. TypeOK'
  <2>1. leases' \in [Ids -> Nat]
    BY <1>1, <1>3 DEF IInv, TypeOK
  <2>2. client' \in [Clients -> [pc : {"idle", "read", "use"}, key : Key, slot : Ids \cup {NoSlot}]]
    BY <1>1, <1>3 DEF IInv, TypeOK
  <2> QED  BY <1>2, <2>1, <2>2, BumpTyped, TrackTyped DEF IInv, TypeOK
<1>5. IdsInOrder' /\ HoldersRun' /\ FiniteSlots' /\ OneSlotPerExpert'
  BY <1>1, <1>2, <1>3 DEF IInv, IdsInOrder, HoldersRun, FiniteSlots, OneSlotPerExpert, TypeOK
<1>6. LeasedStays'
  BY <1>1, <1>2, <1>3 DEF IInv, LeasedStays, TypeOK
<1>7. WithinBudget'
  BY <1>2 DEF IInv, WithinBudget, SlotsOf, LayerBudget
<1>8. LeasesCountViews'
  <2> SUFFICES ASSUME NEW i \in Ids PROVE leases'[i] = Cardinality(Views(i)')
    BY DEF LeasesCountViews
  <2>1. CASE i = s.id
    <3>1. Views(i)' = Views(i) \cup {c} /\ c \notin Views(i)
      BY <1>1, <2>1 DEF Views, IInv, TypeOK
    <3>2. IsFiniteSet(Views(i))
      BY ClientsAssumption, FS_Subset DEF Views
    <3>3. Cardinality(Views(i)') = Cardinality(Views(i)) + 1
      BY <3>1, <3>2, FS_AddElement
    <3> QED  BY <1>1, <2>1, <3>3 DEF IInv, LeasesCountViews, TypeOK
  <2>2. CASE i # s.id
    <3>1. Views(i)' = Views(i)
      BY <1>1, <2>2 DEF Views, IInv, TypeOK
    <3> QED  BY <1>1, <2>2, <3>1 DEF IInv, LeasesCountViews, TypeOK
  <2> QED  BY <2>1, <2>2
<1> QED  BY <1>4, <1>5, <1>6, <1>7, <1>8 DEF IInv

\* An admission leaves the slots of all views where they are.
LEMMA AdmitKeepsViews ==
  ASSUME IInv, NEW k \in Key, NEW held \in Nat, Admit(k, held), Find(k) = {},
         NEW c \in Clients, client[c].pc = "use", client[c].slot # NoSlot
  PROVE  [layer  |-> client[c].key.layer, expert |-> client[c].key.expert,
          id |-> client[c].slot] \in slots'
<1> DEFINE s == [layer |-> client[c].key.layer, expert |-> client[c].key.expert,
                 id |-> client[c].slot]
<1>1. s \in slots /\ s.id = client[c].slot
  BY DEF IInv, LeasedStays
<1> HIDE DEF s
<1>2. s \notin slots' => leases[s.id] = 0
  BY <1>1, AdmitSlots
<1>3. s \in slots'
  BY <1>1, <1>2, ViewsKeepTheirSlot
<1> QED  BY <1>3 DEF s

\* The new slot of an admission has no views before it.
LEMMA AdmitLeases ==
  ASSUME IInv, NEW k \in Key, NEW held \in Nat, Admit(k, held), NEW i \in Ids
  PROVE  /\ i = loads' => leases'[i] = held /\ Views(i) = {}
         /\ i # loads' => leases'[i] = leases[i]
         /\ i > loads' => leases'[i] = 0
<1>1. loads' = loads + 1 /\ loads' \in Ids /\ leases' = [leases EXCEPT ![loads'] = held]
  BY AdmitTyped
<1>2. loads \in Nat /\ leases \in [Ids -> Nat]
  BY RequestsAssumption DEF IInv, TypeOK
<1>3. \A j \in Ids : j > loads => leases[j] = 0
  BY DEF IInv, IdsInOrder
<1>4. \A d \in Clients : client[d].slot <= loads
  BY DEF IInv, IdsInOrder
<1>5. i = loads' => Views(i) = {}
  BY <1>1, <1>2, <1>4 DEF Views
<1> QED  BY <1>1, <1>2, <1>3, <1>5, RequestsAssumption

LEMMA LoadedStep ==
  ASSUME IInv, NEW c \in Clients, Loaded(c)
  PROVE  IInv'
<1> DEFINE k == client[c].key
<1>0. k \in Key /\ client[c].pc = "read" /\ UNCHANGED <<queue, worker, requests>>
  BY DEF Loaded, IInv, TypeOK
<1>1. CASE Hit(c, k)
  <2>1. client[c].pc # "use" /\ UNCHANGED worker /\ queue' \in Seq(Key) /\ requests' \in 0..MaxRequests
    BY <1>0 DEF IInv, TypeOK
  <2> HIDE DEF k
  <2> QED  BY <1>0, <1>1, <2>1, HitStep
<1>2. CASE /\ Find(k) = {} /\ Bump(k) /\ TryAdmit(k, 1) /\ Track({k})
           /\ client' = [client EXCEPT ![c].pc = "use",
                                       ![c].slot = IF loads' > loads THEN loads' ELSE NoSlot]
  <2> HIDE DEF k
  <2>0. client[c].slot = NoSlot
    BY <1>0 DEF IInv, HoldersRun
  <2>1. CASE Admit(k, 1)
    <3>1. /\ slots' \subseteq Slot /\ leases' \in [Ids -> Nat] /\ loads' \in 0..MaxLoads
          /\ loads' = loads + 1 /\ loads' \in Ids
      BY <1>0, <2>1, AdmitTyped
    <3>2. loads \in Nat /\ loads' > loads
      BY <3>1, RequestsAssumption DEF IInv, TypeOK
    <3>3. client' = [client EXCEPT ![c].pc = "use", ![c].slot = loads']
      BY <1>2, <3>2
    <3>4. client' \in [Clients -> [pc : {"idle", "read", "use"}, key : Key, slot : Ids \cup {NoSlot}]]
      <4>1. client \in [Clients -> [pc : {"idle", "read", "use"}, key : Key, slot : Ids \cup {NoSlot}]]
        BY DEF IInv, TypeOK
      <4> QED  BY <3>1, <3>3, <4>1
    <3>5. TypeOK'
      <4>1. TypeOK
        BY DEF IInv
      <4>2. /\ heat' \in [Layers -> [Experts -> 0..Wrap - 1]]
            /\ last' \in [Layers -> [Experts -> 0..Wrap - 1]]
            /\ clock' \in [Layers -> 0..Wrap - 1]
            /\ comeback' \in [Layers -> [Experts -> 0..Margin]]
        BY <1>0, <1>2, <4>1, BumpTyped, TrackTyped
      <4> QED  BY <1>0, <3>1, <3>4, <4>1, <4>2 DEF TypeOK
    <3>6. \A d \in Clients : /\ client'[d].pc = IF d = c THEN "use" ELSE client[d].pc
                             /\ client'[d].slot = IF d = c THEN loads' ELSE client[d].slot
                             /\ client'[d].key = client[d].key
      BY <3>3 DEF IInv, TypeOK
    <3>7. IdsInOrder'
      <4>1. \A d \in Clients : client[d].slot <= loads /\ client[d].slot \in Nat
        BY RequestsAssumption DEF IInv, IdsInOrder, TypeOK
      <4>2. \A d \in Clients : client'[d].slot <= loads'
        BY <3>1, <3>2, <3>6, <4>1
      <4> QED  BY <1>0, <1>2, <2>1, <4>2, AdmitSlots, AdmitLeases DEF IdsInOrder
    <3>8. HoldersRun'
      BY <3>6 DEF IInv, HoldersRun
    <3>9. LeasedStays'
      <4> SUFFICES ASSUME NEW d \in Clients, client'[d].pc = "use", client'[d].slot # NoSlot
                   PROVE  [layer  |-> client'[d].key.layer, expert |-> client'[d].key.expert,
                           id |-> client'[d].slot] \in slots'
        BY DEF LeasedStays
      <4>1. CASE d = c
        BY <1>0, <1>2, <2>1, <3>6, <4>1, AdmitSlots DEF k
      <4>2. CASE d # c
        BY <1>0, <1>2, <2>1, <3>6, <4>2, AdmitKeepsViews
      <4> QED  BY <4>1, <4>2
    <3>10. LeasesCountViews'
      <4> SUFFICES ASSUME NEW i \in Ids PROVE leases'[i] = Cardinality(Views(i)')
        BY DEF LeasesCountViews
      <4>1. CASE i = loads'
        <5>1. Views(i) = {} /\ leases'[i] = 1
          BY <1>0, <2>1, <4>1, AdmitLeases
        <5>2. Views(i)' = {c}
          BY <3>6, <4>1, <5>1 DEF Views
        <5> QED  BY <5>1, <5>2, FS_Singleton
      <4>2. CASE i # loads'
        <5>1. leases'[i] = leases[i]
          BY <1>0, <2>1, <4>2, AdmitLeases
        <5>2. Views(i)' = Views(i)
          BY <1>0, <2>0, <3>6, <4>2 DEF Views
        <5> QED  BY <5>1, <5>2 DEF IInv, LeasesCountViews
      <4> QED  BY <4>1, <4>2
    <3>11. FiniteSlots' /\ OneSlotPerExpert' /\ WithinBudget'
      BY <1>0, <1>2, <2>1, AdmitSlots
    <3> QED  BY <3>5, <3>7, <3>8, <3>9, <3>10, <3>11 DEF IInv
  <2>2. CASE UNCHANGED cacheVars
    <3>1. UNCHANGED <<slots, leases, loads>> /\ loads \in Nat
      BY <2>2, RequestsAssumption DEF cacheVars, IInv, TypeOK
    <3>a. ~(loads' > loads)
      BY <3>1
    <3>2. client' = [client EXCEPT ![c].pc = "use", ![c].slot = NoSlot]
      BY <1>2, <3>a
    <3>3. client' \in [Clients -> [pc : {"idle", "read", "use"}, key : Key, slot : Ids \cup {NoSlot}]]
      BY <3>2 DEF IInv, TypeOK
    <3>4. TypeOK'
      BY <1>0, <1>2, <3>1, <3>3, BumpTyped, TrackTyped DEF IInv, TypeOK
    <3>5. \A d \in Clients : /\ client'[d].pc = IF d = c THEN "use" ELSE client[d].pc
                             /\ client'[d].slot = client[d].slot
                             /\ client'[d].key = client[d].key
      BY <2>0, <3>2 DEF IInv, TypeOK
    <3>6. IdsInOrder' /\ HoldersRun' /\ FiniteSlots' /\ OneSlotPerExpert' /\ LeasedStays'
      BY <2>0, <3>1, <3>5 DEF IInv, IdsInOrder, HoldersRun, FiniteSlots, OneSlotPerExpert, LeasedStays
    <3>7. WithinBudget'
      BY <3>1 DEF IInv, WithinBudget, SlotsOf, LayerBudget
    <3>8. LeasesCountViews'
      <4>1. \A i \in Ids : Views(i)' = Views(i)
        BY <2>0, <1>0, <3>5 DEF Views
      <4> QED  BY <3>1, <4>1 DEF IInv, LeasesCountViews
    <3> QED  BY <3>4, <3>6, <3>7, <3>8 DEF IInv
  <2> QED  BY <1>2, <2>1, <2>2 DEF TryAdmit
<1> QED  BY <1>1, <1>2 DEF Loaded

LEMMA ReleaseStep ==
  ASSUME IInv, NEW c \in Clients, Release(c)
  PROVE  IInv'
<1>0. PICK i0 : i0 = client[c].slot
  OBVIOUS
<1>1. /\ client[c].pc = "use" /\ client[c].slot = i0
      /\ leases' = IF i0 = NoSlot THEN leases ELSE [leases EXCEPT ![i0] = @ - 1]
      /\ client' = [client EXCEPT ![c] = Resting]
      /\ UNCHANGED <<tierVars, slots, loads, queue, worker, requests, comeback>>
  BY <1>0 DEF Release
<1>2. i0 \in Ids \cup {NoSlot} /\ loads \in Nat
  BY <1>0, RequestsAssumption DEF IInv, TypeOK
<1>3. \A d \in Clients : client'[d] = IF d = c THEN Resting ELSE client[d]
  BY <1>1 DEF IInv, TypeOK
<1>4. \A i \in Ids : IsFiniteSet(Views(i))
  BY ClientsAssumption, FS_Subset DEF Views
<1>5. \A i \in Ids : leases[i] \in Nat /\ leases[i] = Cardinality(Views(i))
  BY DEF IInv, TypeOK, LeasesCountViews
<1>6. i0 \in Ids => /\ c \in Views(i0) /\ Views(i0)' = Views(i0) \ {c}
                   /\ Cardinality(Views(i0)') = leases[i0] - 1 /\ leases[i0] - 1 \in Nat
  <2> SUFFICES ASSUME i0 \in Ids
               PROVE  /\ c \in Views(i0) /\ Views(i0)' = Views(i0) \ {c}
                      /\ Cardinality(Views(i0)') = leases[i0] - 1 /\ leases[i0] - 1 \in Nat
    OBVIOUS
  <2>1. c \in Views(i0)
    BY <1>1 DEF Views
  <2>2. Views(i0)' = Views(i0) \ {c}
    BY <1>3 DEF Views, Resting
  <2>3. /\ IsFiniteSet(Views(i0) \ {c})
        /\ Cardinality(Views(i0) \ {c}) = Cardinality(Views(i0)) - 1
    BY <1>4, <2>1, FS_RemoveElement
  <2>4. Cardinality(Views(i0) \ {c}) \in Nat
    BY <2>3, FS_CardinalityType
  <2> QED  BY <1>5, <2>1, <2>2, <2>3, <2>4
<1>7. leases' \in [Ids -> Nat]
  BY <1>1, <1>2, <1>6 DEF IInv, TypeOK
<1>8. client' \in [Clients -> [pc : {"idle", "read", "use"}, key : Key, slot : Ids \cup {NoSlot}]]
  BY <1>1, KeyTyped DEF IInv, TypeOK, Resting
<1>9. TypeOK'
  BY <1>1, <1>7, <1>8 DEF IInv, TypeOK, tierVars
<1>10. HoldersRun' /\ LeasedStays' /\ FiniteSlots' /\ OneSlotPerExpert'
  BY <1>1, <1>3 DEF IInv, HoldersRun, LeasedStays, FiniteSlots, OneSlotPerExpert, Resting
<1>11. IdsInOrder'
  <2>1. \A i \in Ids : i > loads => leases'[i] = 0
    <3>1. \A i \in Ids : i > loads => leases[i] = 0 /\ i # i0
      BY <1>0, <1>2 DEF IInv, IdsInOrder
    <3> QED  BY <1>1, <1>2, <3>1 DEF IInv, TypeOK
  <2>2. \A d \in Clients : client'[d].slot <= loads
    BY <1>2, <1>3 DEF IInv, IdsInOrder, Resting
  <2> QED  BY <1>1, <2>1, <2>2 DEF IInv, IdsInOrder
<1>12. WithinBudget'
  BY <1>1 DEF IInv, WithinBudget, SlotsOf, LayerBudget
<1>13. LeasesCountViews'
  <2> SUFFICES ASSUME NEW i \in Ids PROVE leases'[i] = Cardinality(Views(i)')
    BY DEF LeasesCountViews
  <2>1. CASE i = i0
    BY <1>1, <1>5, <1>6, <2>1 DEF IInv, TypeOK
  <2>2. CASE i # i0
    <3>1. Views(i)' = Views(i)
      BY <1>0, <1>3, <2>2 DEF Views, Resting
    <3>2. leases'[i] = leases[i]
      BY <1>1, <1>2, <2>2 DEF IInv, TypeOK
    <3> QED  BY <1>5, <3>1, <3>2
  <2> QED  BY <2>1, <2>2
<1> QED  BY <1>9, <1>10, <1>11, <1>12, <1>13 DEF IInv

LEMMA LookupStep ==
  ASSUME IInv, NEW c \in Clients, NEW k \in Key, Lookup(c, k)
  PROVE  IInv'
<1>0. /\ client[c].pc = "idle" /\ UNCHANGED <<queue, worker>> /\ requests' \in 0..MaxRequests
      /\ queue' \in Seq(Key)
  BY RequestsAssumption DEF Lookup, IInv, TypeOK
<1>1. CASE Hit(c, k)
  BY <1>0, <1>1, HitStep
<1>2. CASE /\ Find(k) = {}
           /\ client' = [client EXCEPT ![c] = [pc |-> "read", key |-> k, slot |-> NoSlot]]
           /\ UNCHANGED <<tierVars, cacheVars, comeback>>
  <2>1. TypeOK'
    BY <1>0, <1>2 DEF IInv, TypeOK, tierVars, cacheVars
  <2>2. client[c].slot = NoSlot
    BY <1>0 DEF IInv, HoldersRun
  <2>3. \A d \in Clients : /\ client'[d].slot = client[d].slot
                           /\ client'[d].pc = "use" <=> client[d].pc = "use"
                           /\ client[d].pc = "use" => client'[d].key = client[d].key
    BY <1>0, <1>2, <2>2 DEF IInv, TypeOK
  <2> QED  BY <1>2, <2>1, <2>3, CacheUntouched DEF cacheVars
<1> QED  BY <1>1, <1>2 DEF Lookup

LEMMA ReadFailsStep ==
  ASSUME IInv, NEW c \in Clients, ReadFails(c)
  PROVE  IInv'
<1>1. client[c].pc = "read" /\ client' = [client EXCEPT ![c] = Resting]
      /\ UNCHANGED <<tierVars, cacheVars, queue, worker, requests, comeback>>
  BY DEF ReadFails
<1>2. TypeOK'
  BY <1>1, KeyTyped DEF IInv, TypeOK, Resting, tierVars, cacheVars
<1>3. client[c].slot = NoSlot
  BY <1>1 DEF IInv, HoldersRun
<1>4. \A d \in Clients : /\ client'[d].slot = client[d].slot
                         /\ client'[d].pc = "use" <=> client[d].pc = "use"
                         /\ client[d].pc = "use" => client'[d].key = client[d].key
  BY <1>1, <1>3 DEF IInv, TypeOK, Resting
<1> QED  BY <1>1, <1>2, <1>4, CacheUntouched DEF cacheVars

LEMMA WorkerLoadedStep ==
  ASSUME IInv, WorkerLoaded
  PROVE  IInv'
<1>0. PICK k \in Key : k = worker.key
  BY DEF IInv, TypeOK
<1>1. /\ UNCHANGED <<tierVars, client, queue, requests>> /\ Track({})
      /\ worker' = [pc |-> "get", key |-> NoKey]
      /\ IF Find(k) # {} THEN UNCHANGED cacheVars ELSE TryAdmit(k, 0)
  BY <1>0 DEF WorkerLoaded
<1>2. worker' \in [pc : {"get", "read"}, key : Key]
  BY <1>1, KeyTyped
<1>3. CASE UNCHANGED cacheVars
  <2>1. TypeOK'
    BY <1>1, <1>2, <1>3, TrackTyped DEF IInv, TypeOK, tierVars, cacheVars
  <2> QED  BY <1>1, <1>3, <2>1, CacheUntouched DEF cacheVars
<1>4. CASE Admit(k, 0) /\ Find(k) = {}
  <2>1. /\ slots' \subseteq Slot /\ leases' \in [Ids -> Nat] /\ loads' \in 0..MaxLoads
        /\ loads' = loads + 1
    BY <1>4, AdmitTyped
  <2>2. TypeOK'
    BY <1>1, <1>2, <2>1, TrackTyped DEF IInv, TypeOK, tierVars
  <2>3. FiniteSlots' /\ OneSlotPerExpert' /\ WithinBudget'
    BY <1>4, AdmitSlots
  <2>4. IdsInOrder'
    <3>1. \A c \in Clients : client[c].slot <= loads /\ client[c].slot \in Nat /\ loads \in Nat
      BY RequestsAssumption DEF IInv, IdsInOrder, TypeOK
    <3>2. \A c \in Clients : client'[c].slot <= loads'
      BY <1>1, <2>1, <3>1
    <3> QED  BY <1>4, <3>2, AdmitSlots, AdmitLeases DEF IdsInOrder
  <2>5. HoldersRun'
    BY <1>1 DEF IInv, HoldersRun
  <2>6. LeasedStays'
    BY <1>1, <1>4, AdmitKeepsViews DEF LeasedStays
  <2>7. LeasesCountViews'
    <3>1. \A i \in Ids : Views(i)' = Views(i)
      BY <1>1 DEF Views
    <3>2. \A i \in Ids : leases'[i] = Cardinality(Views(i))
      BY <1>4, AdmitLeases, FS_EmptySet DEF IInv, LeasesCountViews
    <3> QED  BY <3>1, <3>2 DEF LeasesCountViews
  <2> QED  BY <2>2, <2>3, <2>4, <2>5, <2>6, <2>7 DEF IInv
<1> QED  BY <1>1, <1>3, <1>4 DEF TryAdmit

\* Steps that only move keys through the queue.
LEMMA QueueStep ==
  ASSUME IInv, \/ \E k \in Key : Prefetch(k)
               \/ WorkerTakes \/ WorkerFails \/ UNCHANGED vars
  PROVE  IInv'
<1>1. UNCHANGED <<slots, leases, loads, client>>
  BY DEF Prefetch, WorkerTakes, WorkerFails, vars, cacheVars
<1>2. TypeOK'
  <2>1. CASE \E k \in Key : Prefetch(k)
    BY <2>1, RequestsAssumption DEF Prefetch, IInv, TypeOK, tierVars, cacheVars
  <2>2. CASE WorkerTakes
    <3>1. queue # <<>> /\ queue \in Seq(Key)
      BY <2>2 DEF WorkerTakes, IInv, TypeOK
    <3>2. Head(queue) \in Key /\ Tail(queue) \in Seq(Key)
      BY <3>1
    <3> QED  BY <2>2, <3>2 DEF WorkerTakes, IInv, TypeOK, tierVars, cacheVars
  <2>3. CASE WorkerFails
    BY <2>3, KeyTyped DEF WorkerFails, IInv, TypeOK, tierVars, cacheVars
  <2>4. CASE UNCHANGED vars
    BY <2>4 DEF vars, IInv, TypeOK, tierVars, cacheVars
  <2> QED  BY <2>1, <2>2, <2>3, <2>4
<1> QED  BY <1>1, <1>2, CacheUntouched

THEOREM Invariance == Spec => []IInv
<1>1. Init => IInv
  BY InitIInv
<1>2. IInv /\ [Next]_vars => IInv'
  BY LookupStep, LoadedStep, ReadFailsStep, ReleaseStep, WorkerLoadedStep, QueueStep DEF Next
<1> QED  BY <1>1, <1>2, PTL DEF Spec

-----------------------------------------------------------------------------
(* The results.                                                            *)

\* Types of all variables; the u32 counters never leave their range.
THEOREM TypeCorrect == Spec => []TypeOK
BY Invariance, PTL DEF IInv

\* No layer's resident experts ever exceed its share of the budget.
THEOREM BudgetRespected == Spec => []WithinBudget
BY Invariance, PTL DEF IInv

\* No expert is ever resident twice.
THEOREM SlotsAreUnique == Spec => []OneSlotPerExpert
BY Invariance, PTL DEF IInv

\* A lease protects its slot against every eviction until it is released.
THEOREM LeaseProtects == Spec => []LeasedStays
BY Invariance, PTL DEF IInv

\* Leases are exactly the views in use: none leaks, none goes negative.
THEOREM LeasesExact == Spec => []LeasesCountViews
BY Invariance, PTL DEF IInv
-----------------------------------------------------------------------------
(* The promotion margin.                                                   *)

Resident(l, e) == \E s \in slots : s.layer = l /\ s.expert = e

\* Why the margin works: an expert that lost its slot is behind the one that has
\* it by Margin counts, less the lookups of its own since then.
LosersAreColder ==
  \A l \in Layers, e \in Experts :
    ~Resident(l, e) /\ comeback[l][e] < Margin
      => \E s \in SlotsOf(l) : heat[l][e] + Margin <= heat[l][s.expert] + comeback[l][e]

\* A score is heat in units of HeatUnit and a remainder, so a better score by
\* more than the margin is a better heat by at least the margin.
LEMMA UnitsCompare ==
  ASSUME NEW a \in Int, NEW b \in Int, NEW m \in Int, NEW u \in Nat \ {0},
         NEW r \in 0..u - 1, NEW x \in Nat, a * u + r > b * u + x + m * u
  PROVE  a >= b + m
<1>1. SUFFICES ASSUME a <= b + m - 1 PROVE FALSE
  OBVIOUS
<1>2. \A c \in Int, d \in Int : c <= d => c * u <= d * u
  BY SMT
<1>3. a * u <= (b + m - 1) * u
  BY <1>1, <1>2
<1>4. (b + m - 1) * u = b * u + m * u - u
  BY SMT
<1>5. b * u \in Int /\ m * u \in Int /\ a * u \in Int
  OBVIOUS
<1> QED  BY <1>3, <1>4, <1>5

LEMMA BeatsByMargin ==
  ASSUME TypeOK', NEW k \in Key, NEW v \in Slot, Beats(k, v)
  PROVE  heat'[k.layer][k.expert] >= heat'[v.layer][v.expert] + Margin
<1> DEFINE Fresh(j) ==
      LET age == (clock'[j.layer] - last'[j.layer][j.expert]) % Wrap
      IN IF age < HeatUnit - 1 THEN HeatUnit - 1 - age ELSE 0
<1>1. ASSUME NEW j \in Key
      PROVE  /\ heat'[j.layer][j.expert] \in Int
             /\ Fresh(j) \in 0..HeatUnit - 1
             /\ Score(j) = heat'[j.layer][j.expert] * HeatUnit + Fresh(j)
  <2>1. j.layer \in Layers /\ j.expert \in Experts
    BY DEF Key
  <2>2. /\ heat'[j.layer][j.expert] \in 0..Wrap - 1
        /\ clock'[j.layer] \in 0..Wrap - 1 /\ last'[j.layer][j.expert] \in 0..Wrap - 1
    BY <2>1 DEF TypeOK
  <2>3. (clock'[j.layer] - last'[j.layer][j.expert]) % Wrap \in 0..Wrap - 1
    BY <2>2, TierAssumption, ModBound
  <2>4. Fresh(j) \in 0..HeatUnit - 1
    BY <2>3, TierAssumption
  <2> QED  BY <2>2, <2>4, TierAssumption DEF Score
<1>2. KeyOf(v) \in Key /\ KeyOf(v).layer = v.layer /\ KeyOf(v).expert = v.expert
  BY DEF KeyOf, Key, Slot
<1> DEFINE b == heat'[v.layer][v.expert]
           cold == Score(KeyOf(v))
<1>3. /\ b \in Int /\ Fresh(KeyOf(v)) \in 0..HeatUnit - 1
      /\ cold = b * HeatUnit + Fresh(KeyOf(v))
  BY <1>1, <1>2
<1>4. b \in Nat /\ cold \in Nat
  <2>1. b \in 0..Wrap - 1
    BY DEF TypeOK, Slot
  <2>2. b * HeatUnit \in Nat
    BY <2>1, TierAssumption
  <2> HIDE DEF b, cold, Fresh
  <2> QED  BY <1>3, <2>1, <2>2, TierAssumption
<1>5. Score(k) > cold + cold \div 4 + Margin * HeatUnit
  BY DEF Beats
<1> HIDE DEF b, cold, Fresh
<1>6. \A n \in Nat : n \div 4 \in Nat
  BY SMT
<1>7. Fresh(KeyOf(v)) + cold \div 4 \in Nat
  BY <1>3, <1>4, <1>6, TierAssumption
<1>8. heat'[k.layer][k.expert] * HeatUnit + Fresh(k)
        > b * HeatUnit + (Fresh(KeyOf(v)) + cold \div 4) + Margin * HeatUnit
  <2>1. b * HeatUnit \in Int /\ Margin * HeatUnit \in Int /\ cold \div 4 \in Int
        /\ Fresh(KeyOf(v)) \in Int
    BY <1>3, <1>4, <1>6, TierAssumption
  <2> QED  BY <1>1, <1>3, <1>5, <2>1
<1>9. heat'[k.layer][k.expert] >= b + Margin
  <2> DEFINE a == heat'[k.layer][k.expert]
             r == Fresh(k)
             x == Fresh(KeyOf(v)) + cold \div 4
  <2>1. a \in Int /\ r \in 0..HeatUnit - 1
    BY <1>1
  <2>2. x \in Nat /\ a * HeatUnit + r > b * HeatUnit + x + Margin * HeatUnit
    BY <1>7, <1>8
  <2>3. b \in Int /\ Margin \in Int /\ HeatUnit \in Nat \ {0}
    BY <1>3, TierAssumption
  <2> HIDE DEF a, r, x
  <2>4. a >= b + Margin
    BY <2>1, <2>2, <2>3, UnitsCompare
  <2> QED  BY <2>4 DEF a
<1> QED  BY <1>9 DEF b

\* Where nothing cools, heat grows by the access counted and by nothing else.
Warms(accessed) ==
  \A l \in Layers, e \in Experts : ~Cooled(l) =>
    /\ heat[l][e] <= heat'[l][e]
    /\ heat'[l][e] <= heat[l][e] + 1
    /\ [layer |-> l, expert |-> e] \notin accessed => heat'[l][e] = heat[l][e]

LEMMA BumpWarms ==
  ASSUME TypeOK, NEW k \in Key, Bump(k)
  PROVE  Warms({k})
<1> SUFFICES ASSUME NEW l \in Layers, NEW e \in Experts, ~Cooled(l)
             PROVE  /\ heat[l][e] <= heat'[l][e]
                    /\ heat'[l][e] <= heat[l][e] + 1
                    /\ [layer |-> l, expert |-> e] # k => heat'[l][e] = heat[l][e]
  BY DEF Warms
<1> DEFINE now  == (clock[k.layer] + 1) % Wrap
           cool == [x \in Experts |-> IF now % DecayEvery = 0
                                 THEN heat[k.layer][x] \div 2 ELSE heat[k.layer][x]]
           up   == IF cool[k.expert] < Wrap - 1 THEN cool[k.expert] + 1 ELSE cool[k.expert]
<1>0. k.layer \in Layers /\ k.expert \in Experts
      /\ k = [layer |-> k.layer, expert |-> k.expert]
  BY DEF Key
<1>1. /\ clock' = [clock EXCEPT ![k.layer] = now]
      /\ heat' = [heat EXCEPT ![k.layer] = [cool EXCEPT ![k.expert] = up]]
  BY DEF Bump
<1>2. heat[l][e] \in 0..Wrap - 1 /\ clock[l] \in 0..Wrap - 1 /\ Wrap \in Nat /\ Wrap > 1
  BY TierAssumption DEF TypeOK
<1>3. CASE l # k.layer
  <2>1. heat'[l] = heat[l]
    BY <1>0, <1>1, <1>3 DEF TypeOK
  <2> QED  BY <1>2, <2>1
<1>4. CASE l = k.layer
  <2>1. clock'[l] = now
    BY <1>1, <1>4 DEF TypeOK
  <2>2. now # clock[l]
    <3>1. \A n \in 0..Wrap - 1 : (n + 1) % Wrap = IF n + 1 = Wrap THEN 0 ELSE n + 1
      BY <1>2
    <3>2. now = IF clock[l] + 1 = Wrap THEN 0 ELSE clock[l] + 1
      BY <1>2, <1>4, <3>1
    <3> HIDE DEF now
    <3> QED  BY <1>2, <3>2
  <2>3. now % DecayEvery # 0
    BY <2>1, <2>2 DEF Cooled
  <2>4. cool = heat[l]
    <3>1. heat[l] \in [Experts -> 0..Wrap - 1]
      BY DEF TypeOK
    <3> HIDE DEF now
    <3> QED  BY <1>4, <2>3, <3>1
  <2> HIDE DEF now, cool
  <2>5. heat'[l] = [heat[l] EXCEPT ![k.expert] = up] /\ heat[l] \in [Experts -> 0..Wrap - 1]
    BY <1>0, <1>1, <1>4, <2>4 DEF TypeOK
  <2>6. CASE e = k.expert
    <3>1. heat'[l][e] = up /\ cool[k.expert] = heat[l][e]
      BY <1>0, <2>4, <2>5, <2>6
    <3> QED  BY <1>0, <1>2, <1>4, <2>6, <3>1
  <2>7. CASE e # k.expert
    <3>1. heat'[l][e] = heat[l][e]
      BY <2>5, <2>7
    <3> QED  BY <1>2, <3>1
  <2> QED  BY <2>6, <2>7
<1> QED  BY <1>3, <1>4

\* A layer that has room for one expert has at most one slot.
LEMMA OneSlotLayer ==
  ASSUME IInv, NEW l \in Layers, LayerBudget(l) < 2 * ExpertBytes,
         NEW s \in SlotsOf(l), NEW t \in SlotsOf(l)
  PROVE  s = t
<1>1. SUFFICES ASSUME s # t PROVE FALSE
  OBVIOUS
<1>2. IsFiniteSet(SlotsOf(l))
  BY FS_Subset DEF SlotsOf, IInv, FiniteSlots
<1>3. Cardinality(SlotsOf(l)) \in Nat
  BY <1>2, FS_CardinalityType
<1>4. Cardinality(SlotsOf(l)) <= 1
  <2>1. Cardinality(SlotsOf(l)) * ExpertBytes <= LayerBudget(l)
    BY DEF IInv, WithinBudget
  <2>2. \A n \in Nat : n >= 2 => n * ExpertBytes >= 2 * ExpertBytes
    BY BudgetAssumption
  <2>3. Cardinality(SlotsOf(l)) * ExpertBytes \in Int
    BY <1>3, BudgetAssumption
  <2> QED  BY <1>3, <2>1, <2>2, <2>3, LayerBudgetTyped, BudgetAssumption
<1>5. {s} \cup {t} \subseteq SlotsOf(l)
  OBVIOUS
<1>6. IsFiniteSet({s}) /\ Cardinality({s}) = 1
  BY FS_Singleton
<1>7. t \notin {s}
  BY <1>1
<1>8. Cardinality({s} \cup {t}) = 2
  <2>1. Cardinality({s} \cup {t}) = IF t \in {s} THEN Cardinality({s}) ELSE Cardinality({s}) + 1
    BY <1>6, FS_AddElement
  <2> QED  BY <1>6, <1>7, <2>1
<1>9. Cardinality({s} \cup {t}) <= Cardinality(SlotsOf(l))
  BY <1>2, <1>5, FS_Subset
<1> QED  BY <1>3, <1>4, <1>8, <1>9

\* What an admission does to one layer: the new slot is of k, and a slot it
\* takes is of the same layer, of another expert, and beaten.
LEMMA AdmitBeats ==
  ASSUME IInv, NEW k \in Key, NEW held \in Nat, Admit(k, held), Find(k) = {}
  PROVE  \E new \in slots' :
           /\ new.layer = k.layer /\ new.expert = k.expert
           /\ \A s \in slots' \ slots : s = new
           /\ ~Resident(k.layer, k.expert)
           /\ \A s \in slots \ slots' : s.layer = k.layer /\ s.expert # k.expert /\ Beats(k, s)
<1> DEFINE new == [layer |-> k.layer, expert |-> k.expert, id |-> loads + 1]
<1>1. PICK out \in Evictions(k) : slots' = (slots \ out) \cup {new}
  BY DEF Admit
<1>2. new.layer = k.layer /\ new.expert = k.expert
  OBVIOUS
<1> HIDE DEF new
<1>3. ~Resident(k.layer, k.expert)
  BY DEF Find, Resident
<1>4. \A s \in slots \ slots' : s \in out
  BY <1>1
<1>5. ASSUME NEW s \in slots, s \in out
      PROVE  s.layer = k.layer /\ Beats(k, s)
  <2>1. out = {} \/ \E v \in Coldest(k.layer) : out = {v} /\ Beats(k, v)
    BY DEF Evictions
  <2>2. s \in Coldest(k.layer) /\ Beats(k, s)
    BY <1>5, <2>1
  <2> QED  BY <2>2 DEF Coldest, SlotsOf
<1>6. \A s \in slots \ slots' : s.layer = k.layer /\ s.expert # k.expert /\ Beats(k, s)
  BY <1>3, <1>4, <1>5 DEF Resident
<1> QED  BY <1>1, <1>2, <1>3, <1>6

\* What a step leaves of the history of an expert that has not lost its slot.
LEMMA TrackCounts ==
  ASSUME TypeOK, TypeOK', NEW accessed, Track(accessed), Warms(accessed),
         NEW l \in Layers, NEW e \in Experts,
         ~\E s \in slots \ slots' : s.layer = l /\ s.expert = e
  PROVE  /\ comeback'[l][e] \in 0..Margin
         /\ comeback[l][e] \in 0..Margin
         /\ comeback'[l][e] < Margin =>
              /\ ~Cooled(l) /\ comeback[l][e] < Margin
              /\ heat'[l][e] - heat[l][e] <= comeback'[l][e] - comeback[l][e]
         /\ comeback[l][e] = Margin => comeback'[l][e] = Margin
<1>1. /\ comeback[l][e] \in 0..Margin /\ Margin \in Nat
      /\ heat[l][e] \in Int /\ heat'[l][e] \in Int
  <2>1. heat[l][e] \in 0..Wrap - 1 /\ comeback[l][e] \in 0..Margin
    BY DEF TypeOK
  <2>2. heat'[l][e] \in 0..Wrap - 1
    BY DEF TypeOK
  <2> QED  BY <2>1, <2>2, TierAssumption
<1>2. comeback'[l][e] = IF Cooled(l) THEN Margin
                        ELSE IF [layer |-> l, expert |-> e] \in accessed
                        THEN Least(Margin, comeback[l][e] + 1) ELSE comeback[l][e]
  BY DEF Track
<1>3. CASE Cooled(l)
  BY <1>1, <1>2, <1>3
<1>4. CASE ~Cooled(l) /\ [layer |-> l, expert |-> e] \in accessed
  <2>1. comeback'[l][e] = Least(Margin, comeback[l][e] + 1)
    BY <1>2, <1>4
  <2>2. heat[l][e] <= heat'[l][e] /\ heat'[l][e] <= heat[l][e] + 1
    BY <1>4 DEF Warms
  <2> QED  BY <1>1, <1>4, <2>1, <2>2 DEF Least
<1>5. CASE ~Cooled(l) /\ [layer |-> l, expert |-> e] \notin accessed
  <2>1. heat'[l][e] = heat[l][e] /\ comeback'[l][e] = comeback[l][e]
    BY <1>2, <1>5 DEF Warms
  <2> QED  BY <1>1, <1>5, <2>1
<1> QED  BY <1>3, <1>4, <1>5

\* What the steps that touch slots or counters have in common.
Counts(accessed) ==
  /\ Track(accessed) /\ Warms(accessed)
  /\ \/ slots' = slots
     \/ \E k \in Key, held \in Nat : Admit(k, held) /\ Find(k) = {}

LEMMA CountsTyped ==
  ASSUME IInv, TypeOK', NEW accessed, Counts(accessed), NEW l \in Layers
  PROVE  /\ TypeOK /\ Margin \in Nat /\ Track(accessed) /\ Warms(accessed)
         /\ \A x \in Experts : heat'[l][x] \in Int /\ heat[l][x] \in Int
         /\ \A x \in Experts : comeback'[l][x] \in 0..Margin /\ comeback[l][x] \in 0..Margin
         /\ slots \subseteq Slot /\ slots' \subseteq Slot
<1>1. TypeOK /\ Margin \in Nat /\ Track(accessed) /\ Warms(accessed)
  BY TierAssumption DEF IInv, Counts
<1>2. \A x \in Experts : heat'[l][x] \in 0..Wrap - 1 /\ heat[l][x] \in 0..Wrap - 1
  BY <1>1 DEF TypeOK
<1>3. \A x \in Experts : comeback'[l][x] \in 0..Margin /\ comeback[l][x] \in 0..Margin
  BY <1>1 DEF TypeOK
<1>4. slots \subseteq Slot /\ slots' \subseteq Slot
  BY <1>1 DEF TypeOK
<1> QED  BY <1>1, <1>2, <1>3, <1>4, TierAssumption

LEMMA MarginKept ==
  ASSUME IInv, TypeOK', LosersAreColder, NEW accessed, Counts(accessed)
  PROVE  LosersAreColder'
<1> SUFFICES ASSUME NEW l \in Layers, NEW e \in Experts,
                    ~Resident(l, e)', comeback'[l][e] < Margin
             PROVE  \E s \in SlotsOf(l)' :
                      heat'[l][e] + Margin <= heat'[l][s.expert] + comeback'[l][e]
  BY DEF LosersAreColder
<1>0. /\ TypeOK /\ Margin \in Nat /\ Track(accessed) /\ Warms(accessed)
      /\ \A x \in Experts : heat'[l][x] \in Int /\ heat[l][x] \in Int
      /\ \A x \in Experts : comeback'[l][x] \in 0..Margin /\ comeback[l][x] \in 0..Margin
      /\ slots \subseteq Slot /\ slots' \subseteq Slot
  BY CountsTyped
<1>1. CASE \E s \in slots \ slots' : s.layer = l /\ s.expert = e
  <2>1. PICK v \in slots \ slots' : v.layer = l /\ v.expert = e
    BY <1>1
  <2>2. PICK k \in Key, held \in Nat : Admit(k, held) /\ Find(k) = {}
    BY <2>1 DEF Counts
  <2>3. PICK new \in slots' :
          /\ new.layer = k.layer /\ new.expert = k.expert
          /\ \A s \in slots \ slots' : s.layer = k.layer /\ Beats(k, s)
    BY <2>2, AdmitBeats
  <2>4. heat'[k.layer][k.expert] >= heat'[v.layer][v.expert] + Margin
    BY <1>0, <2>1, <2>3, BeatsByMargin
  <2>5. new \in SlotsOf(l)' /\ new.expert \in Experts
    BY <1>0, <2>1, <2>3 DEF SlotsOf, Slot
  <2>6. heat'[l][e] + Margin <= heat'[l][new.expert] + comeback'[l][e]
    BY <1>0, <2>1, <2>3, <2>4, <2>5
  <2> QED  BY <2>5, <2>6
<1>2. CASE ~\E s \in slots \ slots' : s.layer = l /\ s.expert = e
  <2>1. /\ ~Cooled(l) /\ comeback[l][e] < Margin
        /\ heat'[l][e] - heat[l][e] <= comeback'[l][e] - comeback[l][e]
    BY <1>0, <1>2, TrackCounts
  <2>2. ~Resident(l, e)
    BY <1>2 DEF Resident
  <2>3. PICK s \in SlotsOf(l) : heat[l][e] + Margin <= heat[l][s.expert] + comeback[l][e]
    BY <2>1, <2>2 DEF LosersAreColder
  <2>4. s \in slots /\ s.layer = l /\ s.expert \in Experts
    BY <1>0, <2>3 DEF SlotsOf, Slot
  <2>5. heat[l][s.expert] <= heat'[l][s.expert]
    BY <1>0, <2>1, <2>4 DEF Warms
  <2>6. heat'[l][e] + Margin <= heat'[l][s.expert] + comeback'[l][e]
    BY <1>0, <2>1, <2>3, <2>4, <2>5
  <2>7. CASE s \in slots'
    BY <2>4, <2>6, <2>7 DEF SlotsOf
  <2>8. CASE s \notin slots'
    <3>1. PICK k \in Key, held \in Nat : Admit(k, held) /\ Find(k) = {}
      BY <2>4, <2>8 DEF Counts
    <3>2. PICK new \in slots' :
            /\ new.layer = k.layer /\ new.expert = k.expert
            /\ \A t \in slots \ slots' : t.layer = k.layer /\ Beats(k, t)
      BY <3>1, AdmitBeats
    <3>3. heat'[k.layer][k.expert] >= heat'[s.layer][s.expert] + Margin /\ k.layer = l
      BY <1>0, <2>4, <2>8, <3>2, BeatsByMargin
    <3>4. new \in SlotsOf(l)' /\ new.expert \in Experts
      BY <1>0, <3>2, <3>3 DEF SlotsOf, Slot
    <3>5. heat'[l][e] + Margin <= heat'[l][new.expert] + comeback'[l][e]
      BY <1>0, <2>4, <2>6, <3>2, <3>3, <3>4
    <3> QED  BY <3>4, <3>5
  <2> QED  BY <2>7, <2>8
<1> QED  BY <1>1, <1>2

\* The step of NoThrashing.
Earned ==
  \A l \in Layers, e \in Experts :
    LayerBudget(l) < 2 * ExpertBytes /\ Takes(l, e) /\ Loses(l) => comeback'[l][e] >= Margin

LEMMA MarginEarned ==
  ASSUME IInv, TypeOK', LosersAreColder, NEW accessed, Counts(accessed)
  PROVE  Earned
<1> SUFFICES ASSUME NEW l \in Layers, NEW e \in Experts,
                    LayerBudget(l) < 2 * ExpertBytes, Takes(l, e), Loses(l)
             PROVE  comeback'[l][e] >= Margin
  BY DEF Earned
<1>0. /\ TypeOK /\ Margin \in Nat /\ Track(accessed) /\ Warms(accessed)
      /\ \A x \in Experts : heat'[l][x] \in Int /\ heat[l][x] \in Int
      /\ slots \subseteq Slot /\ slots' \subseteq Slot
  BY CountsTyped
<1>1. PICK v \in slots \ slots' : v.layer = l
  BY DEF Loses
<1>2. PICK k \in Key, held \in Nat : Admit(k, held) /\ Find(k) = {}
  BY <1>1 DEF Counts
<1>3. /\ \A s \in slots' \ slots : s.layer = k.layer /\ s.expert = k.expert
      /\ ~Resident(k.layer, k.expert)
      /\ \A s \in slots \ slots' : s.layer = k.layer /\ s.expert # k.expert /\ Beats(k, s)
  BY <1>2, AdmitBeats
<1>4. k.layer = l /\ k.expert = e
  BY <1>3 DEF Takes
<1>5. ~\E s \in slots \ slots' : s.layer = l /\ s.expert = e
  BY <1>3, <1>4
<1>6. SUFFICES ASSUME comeback'[l][e] < Margin PROVE FALSE
  <2>1. comeback'[l][e] \in 0..Margin
    BY <1>0, <1>5, TrackCounts
  <2> QED  BY <1>0, <1>6, <2>1
<1>7. /\ ~Cooled(l) /\ comeback[l][e] < Margin
      /\ heat'[l][e] - heat[l][e] <= comeback'[l][e] - comeback[l][e]
      /\ comeback[l][e] \in 0..Margin /\ comeback'[l][e] \in 0..Margin
  BY <1>0, <1>5, <1>6, TrackCounts
<1>8. PICK s \in SlotsOf(l) : heat[l][e] + Margin <= heat[l][s.expert] + comeback[l][e]
  BY <1>3, <1>4, <1>7 DEF LosersAreColder
<1>9. s = v /\ v.expert \in Experts /\ v \in Slot
  <2>1. v \in SlotsOf(l)
    BY <1>1 DEF SlotsOf
  <2> QED  BY <1>0, <1>1, <1>8, <2>1, OneSlotLayer DEF Slot
<1>10. heat'[l][e] >= heat'[l][v.expert] + Margin
  BY <1>1, <1>3, <1>4, <1>9, BeatsByMargin
<1>11. heat[l][v.expert] <= heat'[l][v.expert]
  BY <1>0, <1>7, <1>9 DEF Warms
<1> QED  BY <1>0, <1>6, <1>7, <1>8, <1>9, <1>10, <1>11

\* Steps that touch neither slots nor counters.
LEMMA MarginUntouched ==
  ASSUME LosersAreColder, UNCHANGED <<slots, heat, comeback>>
  PROVE  LosersAreColder' /\ Earned
BY DEF LosersAreColder, Resident, SlotsOf, Earned, Takes, Loses

LEMMA StillWarm ==
  ASSUME TypeOK, UNCHANGED tierVars
  PROVE  Warms({})
BY DEF TypeOK, Warms, tierVars

LEMMA MarginStep ==
  ASSUME IInv, TypeOK', LosersAreColder, [Next]_vars
  PROVE  LosersAreColder' /\ Earned
<1>1. ASSUME NEW c \in Clients, NEW k \in Key, Hit(c, k)
      PROVE  Counts({k})
  BY <1>1, BumpWarms DEF Hit, Counts, IInv
<1>2. ASSUME NEW k \in Key, NEW held \in Nat, TryAdmit(k, held), Find(k) = {}
      PROVE  slots' = slots \/ \E j \in Key, h \in Nat : Admit(j, h) /\ Find(j) = {}
  BY <1>2 DEF TryAdmit, cacheVars
<1>3. ASSUME NEW c \in Clients, NEW k \in Key, Lookup(c, k)
      PROVE  LosersAreColder' /\ Earned
  BY <1>1, <1>3, MarginKept, MarginEarned, MarginUntouched DEF Lookup, tierVars, cacheVars
<1>4. ASSUME NEW c \in Clients, Loaded(c)
      PROVE  LosersAreColder' /\ Earned
  <2>1. PICK k \in Key : k = client[c].key
    BY DEF IInv, TypeOK
  <2>2. CASE Hit(c, k)
    BY <1>1, <2>2, MarginKept, MarginEarned
  <2>3. CASE Find(k) = {} /\ Bump(k) /\ TryAdmit(k, 1) /\ Track({k})
    <3>1. Counts({k})
      BY <1>2, <2>3, BumpWarms DEF Counts, IInv
    <3> QED  BY <3>1, MarginKept, MarginEarned
  <2> QED  BY <1>4, <2>1, <2>2, <2>3 DEF Loaded
<1>5. ASSUME WorkerLoaded
      PROVE  LosersAreColder' /\ Earned
  <2>1. PICK k \in Key : k = worker.key
    BY DEF IInv, TypeOK
  <2>2. UNCHANGED tierVars /\ Track({}) /\ Warms({})
    BY <1>5, StillWarm DEF WorkerLoaded, IInv
  <2>3. slots' = slots \/ (Find(k) = {} /\ TryAdmit(k, 0))
    BY <1>5, <2>1 DEF WorkerLoaded, cacheVars
  <2>4. Counts({})
    BY <1>2, <2>2, <2>3 DEF Counts
  <2> QED  BY <2>4, MarginKept, MarginEarned
<1>6. ASSUME \/ \E c \in Clients : ReadFails(c) \/ Release(c)
             \/ \E k \in Key : Prefetch(k)
             \/ WorkerTakes \/ WorkerFails \/ UNCHANGED vars
      PROVE  LosersAreColder' /\ Earned
  <2>1. UNCHANGED <<slots, heat, comeback>>
    BY <1>6 DEF ReadFails, Release, Prefetch, WorkerTakes, WorkerFails, vars, tierVars, cacheVars
  <2> QED  BY <2>1, MarginUntouched
<1> QED  BY <1>3, <1>4, <1>5, <1>6 DEF Next

\* "So two close experts do not swap forever": where experts compete for one
\* slot, one that lost it wins it back only after Margin lookups of its own or
\* a decay, whatever the margin, the decay, the units and the width of the
\* counters.
THEOREM MarginHolds == Spec => NoThrashing
<1>1. Init => LosersAreColder
  <2>1. \A l \in Layers, e \in Experts : Init => comeback[l][e] = Margin
    BY DEF Init
  <2> QED  BY <2>1, TierAssumption DEF LosersAreColder
<1>2. IInv /\ IInv' /\ LosersAreColder /\ [Next]_vars => LosersAreColder'
  BY MarginStep DEF IInv
<1>3. IInv /\ IInv' /\ LosersAreColder /\ [Next]_vars
        => [\A l \in Layers, e \in Experts :
              LayerBudget(l) < 2 * ExpertBytes /\ Takes(l, e) /\ Loses(l)
                => comeback'[l][e] >= Margin]_vars
  BY MarginStep DEF IInv, Earned
<1> QED  BY <1>1, <1>2, <1>3, Invariance, PTL DEF Spec, NoThrashing
===============================================================================
