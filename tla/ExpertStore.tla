------------------------------ MODULE ExpertStore ------------------------------
(***************************************************************************)
(* Routed-expert streaming (src/src/fontaine/inference/expert_store.py):   *)
(* the experts of a mixture-of-experts model are files; each layer keeps a *)
(* hot set inside its share of a byte budget.  A lookup holds a lease on   *)
(* the slot it uses; a prefetch thread fills the cache at the same time,   *)
(* and an expert takes another's slot only if it is hotter by a margin.    *)
(*                                                                         *)
(* One action per critical section of _lock; expert files are read between *)
(* two sections.  All experts of a model have the same shape, so they have *)
(* one size, and _try_admit evicts at most one slot.  Slots are a set: of  *)
(* two equally cold slots the code evicts the older, the model either.     *)
(***************************************************************************)
EXTENDS Integers, Sequences, FiniteSets

CONSTANTS
  Clients,       \* threads running a forward pass
  NumLayers,     \* len(layer_ids)
  Experts,       \* experts of a layer
  BudgetBytes,   \* budget_bytes, split across the layers
  ExpertBytes,   \* size of one expert
  DecayEvery,    \* _DECAY_EVERY (64)
  HeatUnit,      \* what one heat count adds to a score (256)
  Margin,        \* counts of the promotion margin (4)
  Wrap,          \* the clock and the heat are counters modulo Wrap (2^32)
  MaxRequests,   \* bound on lookups and prefetches together
  MaxLoads       \* bound on the slots ever created

Layers == 0..NumLayers - 1
Ids    == 1..MaxLoads     \* identities of slot objects, in order of creation
NoSlot == 0               \* the slot of a transient view

ASSUME ClientsAssumption  == IsFiniteSet(Clients)
ASSUME LayersAssumption   == NumLayers \in Nat \ {0} /\ Experts # {}
ASSUME BudgetAssumption   == BudgetBytes \in Nat /\ ExpertBytes \in Nat \ {0}
ASSUME TierAssumption     == /\ DecayEvery \in Nat \ {0} /\ HeatUnit \in Nat \ {0}
                             /\ Margin \in Nat /\ Wrap \in Nat \ {0, 1}
ASSUME RequestsAssumption == MaxRequests \in Nat /\ MaxLoads \in Nat

VARIABLES
  slots,      \* _slots: [layer, expert, id]
  leases,     \* slot identity -> leases
  heat, last, \* _heat, _last: layer -> expert -> counter
  clock,      \* _clock: layer -> counter
  client,     \* client -> where its run() is and the view it holds
  queue,      \* _queue: keys to prefetch
  worker,     \* the prefetch thread
  requests,   \* lookups and prefetches so far
  loads,      \* slots created so far
  comeback    \* history: lookups of an expert since it lost its slot (or a decay)

tierVars  == <<heat, last, clock>>
cacheVars == <<slots, leases, loads>>
vars      == <<tierVars, cacheVars, client, queue, worker, requests, comeback>>

Slot    == [layer : Layers, expert : Experts, id : Ids]
Key     == [layer : Layers, expert : Experts]
NoKey   == CHOOSE k \in Key : TRUE
Resting == [pc |-> "idle", key |-> NoKey, slot |-> NoSlot]

Init ==
  /\ slots = {}
  /\ leases = [i \in Ids |-> 0]
  /\ heat = [l \in Layers |-> [e \in Experts |-> 0]]
  /\ last = [l \in Layers |-> [e \in Experts |-> 0]]
  /\ clock = [l \in Layers |-> 0]
  /\ client = [c \in Clients |-> Resting]
  /\ queue = <<>>
  /\ worker = [pc |-> "get", key |-> NoKey]
  /\ requests = 0
  /\ loads = 0
  /\ comeback = [l \in Layers |-> [e \in Experts |-> Margin]]

-----------------------------------------------------------------------------
(* Heat, score and admission.                                              *)

\* _bump: advance the layer's clock, halve every heat when it is time, count
\* the access.
Bump(k) ==
  LET now  == (clock[k.layer] + 1) % Wrap
      cool == [e \in Experts |-> IF now % DecayEvery = 0
                                 THEN heat[k.layer][e] \div 2 ELSE heat[k.layer][e]]
      up   == IF cool[k.expert] < Wrap - 1 THEN cool[k.expert] + 1 ELSE cool[k.expert]
  IN /\ clock' = [clock EXCEPT ![k.layer] = now]
     /\ heat' = [heat EXCEPT ![k.layer] = [cool EXCEPT ![k.expert] = up]]
     /\ last' = [last EXCEPT ![k.layer][k.expert] = now]

\* tier_lfru_score, of the counters after the bump: frequency first, recency
\* only breaks ties.
Score(k) ==
  LET age == (clock'[k.layer] - last'[k.layer][k.expert]) % Wrap
  IN heat'[k.layer][k.expert] * HeatUnit
       + (IF age < HeatUnit - 1 THEN HeatUnit - 1 - age ELSE 0)

KeyOf(s) == [layer |-> s.layer, expert |-> s.expert]

Beats_NoMargin(k, victim) == Score(k) >= Score(KeyOf(victim))   \* mutant

Beats(k, victim) ==
  LET cold == Score(KeyOf(victim)) IN Score(k) > cold + cold \div 4 + Margin * HeatUnit

SlotsOf(l) == {s \in slots : s.layer = l}

\* _find.
Find(k) == {s \in slots : s.layer = k.layer /\ s.expert = k.expert}

\* Mutant: leases do not protect a slot.
Coldest_IgnoresLeases(l) == {s \in SlotsOf(l) : \A t \in SlotsOf(l) : Score(KeyOf(s)) <= Score(KeyOf(t))}

\* _coldest_unleased.
Coldest(l) ==
  LET unleased == {s \in SlotsOf(l) : leases[s.id] = 0}
  IN {s \in unleased : \A t \in unleased : Score(KeyOf(s)) <= Score(KeyOf(t))}

\* The budget is divided evenly; the first layers get the remainder.
LayerBudget(l) == BudgetBytes \div NumLayers + (IF l < BudgetBytes % NumLayers THEN 1 ELSE 0)

\* Mutant: the slot being filled is not counted.
Used_WithoutNew(l) == Cardinality(SlotsOf(l)) * ExpertBytes

\* Bytes the layer uses when one more expert is resident.
Used(l) == (Cardinality(SlotsOf(l)) + 1) * ExpertBytes

\* The sets of slots whose eviction admits k; none when k is refused.
Evictions(k) ==
  IF ExpertBytes > LayerBudget(k.layer) THEN {}
  ELSE IF Used(k.layer) <= LayerBudget(k.layer) THEN {{}}
  ELSE {{v} : v \in {v \in Coldest(k.layer) : Beats(k, v)}}

\* _try_admit; `held` leases go to the new slot.
Admit(k, held) ==
  /\ loads < MaxLoads
  /\ \E out \in Evictions(k) :
       slots' = (slots \ out) \cup {[layer |-> k.layer, expert |-> k.expert, id |-> loads + 1]}
  /\ leases' = [leases EXCEPT ![loads + 1] = held]
  /\ loads' = loads + 1

TryAdmit(k, held) ==
  IF Evictions(k) # {} THEN Admit(k, held) ELSE UNCHANGED cacheVars

\* The history variable: `accessed` is the set of keys this step looked up.
Least(x, y) == IF x < y THEN x ELSE y

Cooled(l) == clock'[l] # clock[l] /\ clock'[l] % DecayEvery = 0

Track(accessed) ==
  comeback' = [l \in Layers |-> [e \in Experts |->
    IF \E s \in slots \ slots' : s.layer = l /\ s.expert = e THEN 0
    ELSE IF Cooled(l) THEN Margin
    ELSE IF [layer |-> l, expert |-> e] \in accessed THEN Least(Margin, comeback[l][e] + 1)
    ELSE comeback[l][e]]]

-----------------------------------------------------------------------------
(* run(): lookup, compute, release.                                        *)

\* A hit, in either section of lookup(): one more lease on the slot.
Hit(c, k) ==
  \E s \in Find(k) :
    /\ Bump(k)
    /\ leases' = [leases EXCEPT ![s.id] = @ + 1]
    /\ client' = [client EXCEPT ![c] = [pc |-> "use", key |-> k, slot |-> s.id]]
    /\ UNCHANGED <<slots, loads>>
    /\ Track({k})

Lookup(c, k) ==
  /\ client[c].pc = "idle"
  /\ requests < MaxRequests
  /\ requests' = requests + 1
  /\ \/ Hit(c, k)
     \/ /\ Find(k) = {}
        /\ client' = [client EXCEPT ![c] = [pc |-> "read", key |-> k, slot |-> NoSlot]]
        /\ UNCHANGED <<tierVars, cacheVars, comeback>>
  /\ UNCHANGED <<queue, worker>>

\* Mutant: lookup() does not search again after reading the file.
Loaded_NoRecheck(c) ==
  LET k == client[c].key
  IN /\ client[c].pc = "read"
     /\ Bump(k)
     /\ TryAdmit(k, 1)
     /\ client' = [client EXCEPT ![c].pc = "use",
                                 ![c].slot = IF loads' > loads THEN loads' ELSE NoSlot]
     /\ Track({k})
     /\ UNCHANGED <<queue, worker, requests>>

\* The second section: another thread may have admitted the expert; otherwise
\* it gets a slot with one lease, or the view is transient.
Loaded(c) ==
  LET k == client[c].key
  IN /\ client[c].pc = "read"
     /\ \/ Hit(c, k)
        \/ /\ Find(k) = {}
           /\ Bump(k)
           /\ TryAdmit(k, 1)
           /\ client' = [client EXCEPT ![c].pc = "use",
                                       ![c].slot = IF loads' > loads THEN loads' ELSE NoSlot]
           /\ Track({k})
     /\ UNCHANGED <<queue, worker, requests>>

\* The file is missing: the exception leaves run(), which holds no view yet.
ReadFails(c) ==
  /\ client[c].pc = "read"
  /\ client' = [client EXCEPT ![c] = Resting]
  /\ UNCHANGED <<tierVars, cacheVars, queue, worker, requests, comeback>>

\* The expert ran (or raised: run() releases in a finally clause).
Release(c) ==
  /\ client[c].pc = "use"
  /\ leases' = IF client[c].slot = NoSlot THEN leases
               ELSE [leases EXCEPT ![client[c].slot] = @ - 1]
  /\ client' = [client EXCEPT ![c] = Resting]
  /\ UNCHANGED <<tierVars, slots, loads, queue, worker, requests, comeback>>

-----------------------------------------------------------------------------
(* Prefetching: prefetch() on a client's thread, then the prefetch thread. *)

Prefetch(k) ==
  /\ BudgetBytes > 0
  /\ requests < MaxRequests
  /\ requests' = requests + 1
  /\ queue' = Append(queue, k)
  /\ UNCHANGED <<tierVars, cacheVars, client, worker, comeback>>

\* The first section of _prefetch_now skips a resident expert.
WorkerTakes ==
  /\ worker.pc = "get"
  /\ queue # <<>>
  /\ queue' = Tail(queue)
  /\ worker' = IF Find(Head(queue)) # {} THEN worker ELSE [pc |-> "read", key |-> Head(queue)]
  /\ UNCHANGED <<tierVars, cacheVars, client, requests, comeback>>

\* The second section: admitted without a lease and without counting an access.
WorkerLoaded ==
  /\ worker.pc = "read"
  /\ UNCHANGED tierVars
  /\ IF Find(worker.key) # {} THEN UNCHANGED cacheVars ELSE TryAdmit(worker.key, 0)
  /\ worker' = [pc |-> "get", key |-> NoKey]
  /\ Track({})
  /\ UNCHANGED <<client, queue, requests>>

\* A missing file skips the key.
WorkerFails ==
  /\ worker.pc = "read"
  /\ worker' = [pc |-> "get", key |-> NoKey]
  /\ UNCHANGED <<tierVars, cacheVars, client, queue, requests, comeback>>

Next ==
  \/ \E c \in Clients, k \in Key : Lookup(c, k)
  \/ \E c \in Clients : Loaded(c) \/ ReadFails(c) \/ Release(c)
  \/ \E k \in Key : Prefetch(k)
  \/ WorkerTakes \/ WorkerLoaded \/ WorkerFails

Spec == Init /\ [][Next]_vars

-----------------------------------------------------------------------------
(* Properties.                                                             *)

TypeOK ==
  /\ slots \subseteq Slot
  /\ leases \in [Ids -> Nat]
  /\ heat \in [Layers -> [Experts -> 0..Wrap - 1]]
  /\ last \in [Layers -> [Experts -> 0..Wrap - 1]]
  /\ clock \in [Layers -> 0..Wrap - 1]
  /\ client \in [Clients -> [pc : {"idle", "read", "use"}, key : Key, slot : Ids \cup {NoSlot}]]
  /\ queue \in Seq(Key)
  /\ worker \in [pc : {"get", "read"}, key : Key]
  /\ requests \in 0..MaxRequests /\ loads \in 0..MaxLoads
  /\ comeback \in [Layers -> [Experts -> 0..Margin]]

\* The resident experts of a layer stay within its share of the budget.
WithinBudget == \A l \in Layers : Cardinality(SlotsOf(l)) * ExpertBytes <= LayerBudget(l)

\* Client and prefetch thread, both loading an expert, never give it two slots
\* (_find returns one of them, and _used would count both).
OneSlotPerExpert ==
  \A s, t \in slots : s.layer = t.layer /\ s.expert = t.expert => s = t

\* "A lookup holds a lease until release": the slot of a view in use stays in
\* the cache, with the expert the view is of, until the view is released.
LeasedStays ==
  \A c \in Clients :
    client[c].pc = "use" /\ client[c].slot # NoSlot
      => [layer  |-> client[c].key.layer, expert |-> client[c].key.expert,
          id |-> client[c].slot] \in slots

\* The leases of a slot are exactly the views on it, so release() never finds
\* a negative count and no slot stays pinned for ever.
Views(i) == {c \in Clients : client[c].pc = "use" /\ client[c].slot = i}

LeasesCountViews == \A i \in Ids : leases[i] = Cardinality(Views(i))

\* "a promotion margin so two close experts do not swap forever"
\* (optimization/expert_tier.py:4-5): where experts compete for one slot, the
\* one that lost it wins it back only after Margin lookups of its own, or
\* after a decay, however lookups, leases and prefetches interleave.
Takes(l, e) == \E s \in slots' \ slots : s.layer = l /\ s.expert = e
Loses(l)    == \E s \in slots \ slots' : s.layer = l

NoThrashing ==
  [][\A l \in Layers, e \in Experts :
       LayerBudget(l) < 2 * ExpertBytes /\ Takes(l, e) /\ Loses(l)
         => comeback'[l][e] >= Margin]_vars
===============================================================================
