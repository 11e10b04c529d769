------------------------- MODULE FreedomPoolProofs -------------------------
(***************************************************************************)
(* Proofs about FreedomPool, for any number of callers, destinations and   *)
(* slots and any limits.                                                   *)
(***************************************************************************)
EXTENDS FreedomPool, FiniteSetTheorems, TLAPS

HasPool == {"take", "stale", "replenish", "budget", "reserve", "spawn", "finish"}
HasAddr == {"full?", "evict", "remove", "count", "refund", "insert"}

\* What each local variable of a connect call holds at each of its steps.
Located ==
    /\ \A c \in Tasks :
        /\ pc[c] \in HasPool => pool[c] \in Pools
        /\ pc[c] \in HasAddr => addr[c] \in Dests
        /\ pc[c] = "remove" => victim[c] \in Dests
        /\ pc[c] \in {"count", "refund"} => victim[c] \in Pools
    /\ \A s \in Slots :
        slotState[s] \in {"claimed", "connecting", "idle"} => slotPool[s] \in Pools

\* The inductive invariant behind type correctness: in_flight stays a natural
\* number because it counts the refill tasks that will decrement it.
TypeInv == TypeOK /\ Located /\ InFlightExact

\* A set of slots is finite, and its cardinality is a natural number.
LEMMA SlotSets ==
    ASSUME NEW S \in SUBSET Slots
    PROVE  IsFiniteSet(S) /\ Cardinality(S) \in Nat
  <1>1. IsFiniteSet(S)
    BY PoolAssumption, FS_Subset
  <1> QED
    BY <1>1, FS_CardinalityType

\* The initial state satisfies the invariant: AdaptivePool::new.
LEMMA InitTypeInv == Init => TypeInv
  <1> SUFFICES ASSUME Init PROVE TypeInv
    OBVIOUS
  <1>0. /\ dests = [a \in Dests |-> None] /\ globalIdle = 0
        /\ inFlight = [p \in Pools |-> 0] /\ finishing = [p \in Pools |-> 0]
        /\ slotState = [s \in Slots |-> "free"] /\ slotPool = [s \in Slots |-> None]
        /\ slotTask = [s \in Slots |-> None] /\ pc = [c \in Tasks |-> "idle"]
        /\ addr = [c \in Tasks |-> None] /\ pool = [c \in Tasks |-> None]
        /\ victim = [c \in Tasks |-> None] /\ count = [c \in Tasks |-> 0]
        /\ needed = [c \in Tasks |-> 0]
    BY DEF Init
  <1>1. TypeOK
    <2>1. evicted \in BOOLEAN
      BY ZenonT(60) DEF Init
    <2> QED
      BY ONLY <1>0, <2>1, PoolAssumption DEF TypeOK, SlotStates, Labels
  <1>2. Located
    BY DEF Init, Located, HasPool, HasAddr
  <1>3. InFlightExact
    <2> SUFFICES ASSUME NEW p \in Pools
                 PROVE inFlight[p] = Cardinality(SlotsOf(p, "connecting")) + finishing[p]
      BY DEF InFlightExact
    <2>1. SlotsOf(p, "connecting") = {}
      BY DEF Init, SlotsOf
    <2> QED
      BY ONLY <1>0, <2>1, FS_EmptySet, p \in Pools
  <1> QED
    BY <1>1, <1>2, <1>3 DEF TypeInv

\* A step that moves no slot into or out of "connecting" and leaves both
\* refill counters alone keeps InFlightExact.
LEMMA SameConnecting ==
    ASSUME InFlightExact, UNCHANGED <<inFlight, finishing>>,
           \A s \in Slots : \A p \in Pools :
              (slotState'[s] = "connecting" /\ slotPool'[s] = p)
                <=> (slotState[s] = "connecting" /\ slotPool[s] = p)
    PROVE  InFlightExact'
  <1> SUFFICES ASSUME NEW p \in Pools
               PROVE inFlight'[p] = Cardinality(SlotsOf(p, "connecting")') + finishing'[p]
    BY DEF InFlightExact
  <1>1. SlotsOf(p, "connecting")' = SlotsOf(p, "connecting")
    BY DEF SlotsOf
  <1> QED
    BY <1>1 DEF InFlightExact

\* The steps of get_or_create and evict_lru before the insertion move no slot.
LEMMA LookupTypeInv ==
    ASSUME TypeInv, NEW c \in Tasks,
           Lookup(c) \/ CheckFull(c) \/ PickVictim(c) \/ RemoveVictim(c)
             \/ CountVictim(c) \/ RefundVictim(c)
    PROVE  TypeInv'
  <1> USE PoolAssumption DEF TypeInv, TypeOK, Located, HasPool, HasAddr, Labels, Goto
  <1>1. InFlightExact'
    <2>1. UNCHANGED <<inFlight, finishing, slotState, slotPool>>
      BY DEF Lookup, CheckFull, PickVictim, RemoveVictim, CountVictim, RefundVictim,
         slotVars
    <2> QED
      BY <2>1, SameConnecting
  <1>2. CASE Lookup(c)
    <2>1. TypeOK'
      BY <1>2 DEF Lookup, slotVars
    <2>2. Located'
      BY <1>2 DEF Lookup, slotVars
    <2> QED
      BY <1>1, <2>1, <2>2
  <1>3. CASE CheckFull(c)
    <2>1. TypeOK'
      BY <1>3 DEF CheckFull, slotVars
    <2>2. Located'
      BY <1>3 DEF CheckFull, slotVars
    <2> QED
      BY <1>1, <2>1, <2>2
  <1>4. CASE PickVictim(c)
    <2>1. TypeOK'
      BY <1>4 DEF PickVictim, slotVars, Mapped
    <2>2. Located'
      BY <1>4 DEF PickVictim, slotVars, Mapped
    <2> QED
      BY <1>1, <2>1, <2>2
  <1>5. CASE RemoveVictim(c)
    <2>1. TypeOK'
      BY <1>5 DEF RemoveVictim, slotVars
    <2>2. Located'
      BY <1>5 DEF RemoveVictim, slotVars
    <2> QED
      BY <1>1, <2>1, <2>2
  <1>6. CASE CountVictim(c)
    <2>1. Cardinality(Idle(victim[c])) \in Nat
      BY SlotSets DEF Idle, SlotsOf
    <2>2. TypeOK'
      BY <1>6, <2>1 DEF CountVictim, slotVars
    <2>3. Located'
      BY <1>6 DEF CountVictim, slotVars
    <2> QED
      BY <1>1, <2>2, <2>3
  <1>7. CASE RefundVictim(c)
    <2>1. TypeOK'
      BY <1>7 DEF RefundVictim, slotVars
    <2>2. Located'
      BY <1>7 DEF RefundVictim, slotVars
    <2> QED
      BY <1>1, <2>1, <2>2
  <1> QED
    BY <1>2, <1>3, <1>4, <1>5, <1>6, <1>7

\* Inserting a pool: the identity it gets carries no refill of an older pool.
LEMMA InsertTypeInv ==
    ASSUME TypeInv, NEW c \in Tasks, Insert(c)
    PROVE  TypeInv'
  <1> USE PoolAssumption DEF TypeInv, TypeOK, Located, HasPool, HasAddr, Labels,
                             SlotStates, Goto, SetSlots, slotVars
  <1>1. TypeOK'
    BY DEF Insert
  <1>2. Located'
    BY DEF Insert, Idle, SlotsOf
  <1>3. CASE dests[addr[c]] # None
    BY <1>1, <1>2, <1>3, SameConnecting DEF Insert
  <1>4. CASE dests[addr[c]] = None
    <2>1. PICK p \in Pools :
            /\ ~Referenced(p)
            /\ inFlight' = [inFlight EXCEPT ![p] = 0]
            /\ SetSlots(Idle(p), "free", None, None)
      BY <1>4 DEF Insert
    <2>2. finishing' = finishing
      BY DEF Insert
    <2>3. SlotsOf(p, "connecting") = {} /\ finishing[p] = 0
      BY <2>1 DEF Referenced, SlotsOf
    <2>4. inFlight[p] = 0
      <3>1. Cardinality(SlotsOf(p, "connecting")) = 0
        BY ONLY <2>3, FS_EmptySet
      <3> QED
        BY <2>3, <3>1 DEF InFlightExact
    <2>5. UNCHANGED <<inFlight, finishing>>
      BY <2>1, <2>2, <2>4
    <2>6. InFlightExact'
      BY SMTT(30), <2>1, <2>5, SameConnecting DEF Idle, SlotsOf
    <2> QED
      BY <1>1, <1>2, <2>6
  <1> QED
    BY <1>3, <1>4

\* Taking a socket and computing the shortage touch no refill.
LEMMA TakeTypeInv ==
    ASSUME TypeInv, NEW c \in Tasks,
           TryTake(c) \/ ReleaseStale(c) \/ ReadQueue(c) \/ ReadBudget(c)
             \/ Reserve(c) \/ Finish(c)
    PROVE  TypeInv'
  <1> USE PoolAssumption DEF TypeInv, TypeOK, Located, HasPool, HasAddr, Labels,
                             SlotStates, Goto, SetSlots, slotVars
  <1>1. CASE TryTake(c)
    <2>1. TypeOK'
      BY <1>1 DEF TryTake
    <2>2. Located'
      BY <1>1 DEF TryTake, Idle, SlotsOf
    <2>3. InFlightExact'
      BY <1>1, SameConnecting DEF TryTake, Idle, SlotsOf
    <2> QED
      BY <2>1, <2>2, <2>3
  <1>2. CASE ReleaseStale(c)
    <2>1. Cardinality(HeldBy(c, "stale")) \in Nat
      BY SlotSets DEF HeldBy
    <2>2. TypeOK'
      BY <1>2, <2>1 DEF ReleaseStale
    <2>3. Located'
      BY <1>2 DEF ReleaseStale, HeldBy
    <2>4. InFlightExact'
      BY <1>2, SameConnecting DEF ReleaseStale, HeldBy
    <2> QED
      BY <2>2, <2>3, <2>4
  <1>3. CASE ReadQueue(c)
    <2>1. CurrentCap \subseteq Nat
      BY DEF CurrentCap, TierFromCount
    <2>2. pool[c] \in Pools /\ Cardinality(Idle(pool[c])) \in Nat
      BY <1>3, SlotSets DEF ReadQueue, Idle, SlotsOf
    <2>3. TypeOK'
      BY <1>3, <2>1, <2>2 DEF ReadQueue
    <2>4. Located'
      BY <1>3 DEF ReadQueue
    <2>5. InFlightExact'
      BY <1>3, SameConnecting DEF ReadQueue
    <2> QED
      BY <2>3, <2>4, <2>5
  <1>4. CASE ReadBudget(c)
    <2>1. TypeOK'
      BY <1>4 DEF ReadBudget, Lesser, Budget
    <2>2. Located'
      BY <1>4 DEF ReadBudget
    <2>3. InFlightExact'
      BY <1>4, SameConnecting DEF ReadBudget
    <2> QED
      BY <2>1, <2>2, <2>3
  <1>5. CASE Reserve(c)
    <2>1. Lesser(needed[c], Budget) \in Nat
      BY DEF Lesser, Budget
    <2>2. TypeOK'
      BY <1>5, <2>1 DEF Reserve
    <2>3. Located'
      BY <1>5 DEF Reserve
    <2>4. InFlightExact'
      BY <1>5, SameConnecting DEF Reserve, Free
    <2> QED
      BY <2>2, <2>3, <2>4
  <1>6. CASE Finish(c)
    <2>1. Cardinality(HeldBy(c, "leased")) \in Nat
      BY SlotSets DEF HeldBy
    <2>2. TypeOK'
      BY <1>6, <2>1 DEF Finish
    <2>3. Located'
      BY <1>6 DEF Finish, HeldBy
    <2>4. InFlightExact'
      BY <1>6, SameConnecting DEF Finish, HeldBy
    <2> QED
      BY <2>2, <2>3, <2>4
  <1> QED
    BY <1>1, <1>2, <1>3, <1>4, <1>5, <1>6

\* One turn of the spawn loop adds one refill task and counts it.
LEMMA SpawnTypeInv ==
    ASSUME TypeInv, NEW c \in Tasks, Spawn(c)
    PROVE  TypeInv'
  <1> USE PoolAssumption DEF TypeInv, TypeOK, Located, HasPool, HasAddr, Labels,
                             SlotStates, Goto, SetSlots
  <1>1. PICK s \in HeldBy(c, "claimed") :
          /\ inFlight' = [inFlight EXCEPT ![pool[c]] = @ + 1]
          /\ SetSlots({s}, "connecting", pool[c], None)
          /\ Goto(c, IF HeldBy(c, "claimed") = {s} THEN "finish" ELSE "spawn")
    BY DEF Spawn
  <1>2. s \in Slots /\ slotState[s] = "claimed" /\ pool[c] \in Pools
    BY DEF HeldBy, Spawn
  <1>3. TypeOK'
    BY <1>1, <1>2 DEF Spawn
  <1>4. Located'
    BY <1>1, <1>2 DEF Spawn
  <1>5. InFlightExact'
    <2> SUFFICES ASSUME NEW p \in Pools
                 PROVE inFlight'[p] = Cardinality(SlotsOf(p, "connecting")') + finishing'[p]
      BY DEF InFlightExact
    <2>1. finishing' = finishing
      BY DEF Spawn
    <2>2. CASE p # pool[c]
      <3>1. SlotsOf(p, "connecting")' = SlotsOf(p, "connecting")
        BY <1>1, <1>2, <2>2 DEF SlotsOf
      <3> QED
        BY <1>1, <2>1, <2>2, <3>1 DEF InFlightExact
    <2>3. CASE p = pool[c]
      <3>1. SlotsOf(p, "connecting")' = SlotsOf(p, "connecting") \cup {s}
        BY <1>1, <1>2, <2>3 DEF SlotsOf
      <3>2. s \notin SlotsOf(p, "connecting")
        BY <1>2 DEF SlotsOf
      <3>3. IsFiniteSet(SlotsOf(p, "connecting"))
            /\ Cardinality(SlotsOf(p, "connecting")) \in Nat
        BY SlotSets DEF SlotsOf
      <3>4. Cardinality(SlotsOf(p, "connecting")')
              = Cardinality(SlotsOf(p, "connecting")) + 1
        BY ONLY <3>1, <3>2, <3>3, FS_AddElement
      <3> QED
        BY <1>1, <2>1, <2>3, <3>3, <3>4 DEF InFlightExact
    <2> QED
      BY SMTT(30), <2>2, <2>3
  <1> QED
    BY <1>3, <1>4, <1>5

\* A refill that ends leaves "connecting" and becomes one that has yet to
\* decrement in_flight, whichever way its dial went.
LEMMA RefillTypeInv ==
    ASSUME TypeInv, NEW s \in Slots, RefillOk(s) \/ RefillErr(s)
    PROVE  TypeInv'
  <1> USE PoolAssumption DEF TypeInv, TypeOK, Located, HasPool, HasAddr, Labels,
                             SlotStates, SetSlots, taskVars
  <1>1. slotState[s] = "connecting" /\ slotPool[s] \in Pools
    BY DEF RefillOk, RefillErr
  <1>2. /\ finishing' = [finishing EXCEPT ![slotPool[s]] = @ + 1]
        /\ inFlight' = inFlight
        /\ slotState'[s] # "connecting"
        /\ \A t \in Slots \ {s} : slotState'[t] = slotState[t] /\ slotPool'[t] = slotPool[t]
    BY DEF RefillOk, RefillErr
  <1>3. TypeOK'
    BY <1>1 DEF RefillOk, RefillErr
  <1>4. Located'
    BY <1>1 DEF RefillOk, RefillErr
  <1>5. InFlightExact'
    <2> SUFFICES ASSUME NEW p \in Pools
                 PROVE inFlight'[p] = Cardinality(SlotsOf(p, "connecting")') + finishing'[p]
      BY DEF InFlightExact
    <2>1. SlotsOf(p, "connecting")' = SlotsOf(p, "connecting") \ {s}
      BY <1>2 DEF SlotsOf
    <2>2. IsFiniteSet(SlotsOf(p, "connecting"))
          /\ Cardinality(SlotsOf(p, "connecting")) \in Nat
      BY SMTT(30), SlotSets DEF SlotsOf
    <2>3. CASE p # slotPool[s]
      <3>1. SlotsOf(p, "connecting")' = SlotsOf(p, "connecting")
        BY <2>1, <2>3 DEF SlotsOf
      <3> QED
        BY <1>2, <2>3, <3>1 DEF InFlightExact
    <2>4. CASE p = slotPool[s]
      <3>1. s \in SlotsOf(p, "connecting")
        BY <1>1, <2>4 DEF SlotsOf
      <3>2. Cardinality(SlotsOf(p, "connecting")')
              = Cardinality(SlotsOf(p, "connecting")) - 1
        BY ONLY <2>1, <2>2, <3>1, FS_RemoveElement
      <3> QED
        BY <1>2, <2>2, <2>4, <3>2 DEF InFlightExact
    <2> QED
      BY <2>3, <2>4
  <1> QED
    BY <1>3, <1>4, <1>5

\* The refill's last statement.
LEMMA RefillDoneTypeInv ==
    ASSUME TypeInv, NEW p \in Pools, RefillDone(p)
    PROVE  TypeInv'
  <1> USE PoolAssumption DEF TypeInv, TypeOK, Located, slotVars, taskVars
  <1>1. \A q \in Pools : /\ Cardinality(SlotsOf(q, "connecting")) \in Nat
                         /\ SlotsOf(q, "connecting")' = SlotsOf(q, "connecting")
    BY SlotSets DEF SlotsOf, RefillDone
  <1>2. inFlight[p] = Cardinality(SlotsOf(p, "connecting")) + finishing[p]
    BY DEF InFlightExact
  <1>3. TypeOK'
    BY <1>1, <1>2 DEF RefillDone
  <1>4. Located'
    BY DEF RefillDone
  <1>5. InFlightExact'
    BY <1>1, <1>2 DEF RefillDone, InFlightExact
  <1> QED
    BY <1>3, <1>4, <1>5

\* Every step of the pool preserves the invariant.
LEMMA NextTypeInv == TypeInv /\ [Next]_vars => TypeInv'
  <1> SUFFICES ASSUME TypeInv, [Next]_vars PROVE TypeInv'
    OBVIOUS
  <1>1. CASE \E c \in Tasks : Connect(c)
    BY <1>1, LookupTypeInv, InsertTypeInv, TakeTypeInv, SpawnTypeInv DEF Connect
  <1>2. CASE \E s \in Slots : RefillOk(s) \/ RefillErr(s)
    BY <1>2, RefillTypeInv
  <1>3. CASE \E p \in Pools : RefillDone(p)
    BY SMTT(30), <1>3, RefillDoneTypeInv
  <1>4. CASE UNCHANGED vars
    BY <1>4 DEF TypeInv, TypeOK, Located, InFlightExact, SlotsOf, vars, slotVars,
                taskVars
  <1> QED
    BY <1>1, <1>2, <1>3, <1>4 DEF Next

\* Type correctness of the pool, in_flight never wrapping below zero included.
THEOREM PoolTypeCorrect == Spec => []TypeOK
  <1>1. TypeInv => TypeOK
    BY DEF TypeInv
  <1> QED
    BY <1>1, InitTypeInv, NextTypeInv, PTL DEF Spec

\* DestPool::in_flight is exact in every reachable state, evictions included.
THEOREM PoolInFlightExact == Spec => []InFlightExact
  <1>1. TypeInv => InFlightExact
    BY DEF TypeInv
  <1> QED
    BY <1>1, InitTypeInv, NextTypeInv, PTL DEF Spec

-----------------------------------------------------------------------------

\* Only the compare_exchange of replenish raises global_idle, and it rechecks
\* the budget in the same atomic step.
LEMMA NextBudgetBound == TypeInv /\ BudgetBound /\ [Next]_vars => BudgetBound'
  <1> SUFFICES ASSUME TypeInv, BudgetBound, [Next]_vars PROVE BudgetBound'
    OBVIOUS
  <1> USE PoolAssumption DEF TypeInv, TypeOK, BudgetBound
  <1>1. ASSUME NEW c \in Tasks, Reserve(c) PROVE BudgetBound'
    BY <1>1 DEF Reserve, Lesser, Budget
  <1>2. ASSUME NEW c \in Tasks, RefundVictim(c) PROVE BudgetBound'
    BY <1>2 DEF RefundVictim
  <1>3. ASSUME NEW c \in Tasks, ReleaseStale(c) \/ Finish(c) PROVE BudgetBound'
    <2>1. \A st : Cardinality(HeldBy(c, st)) \in Nat
      BY SMTT(30), SlotSets DEF HeldBy
    <2> QED
      BY <1>3, <2>1 DEF ReleaseStale, Finish
  <1>4. ASSUME NEW c \in Tasks,
               Lookup(c) \/ CheckFull(c) \/ PickVictim(c) \/ RemoveVictim(c)
                 \/ CountVictim(c) \/ Insert(c) \/ TryTake(c) \/ ReadQueue(c)
                 \/ ReadBudget(c) \/ Spawn(c)
        PROVE  BudgetBound'
    BY ZenonT(60), <1>4 DEF Lookup, CheckFull, PickVictim, RemoveVictim, CountVictim,
                Insert, TryTake, ReadQueue, ReadBudget, Spawn
  <1>5. ASSUME NEW s \in Slots, RefillOk(s) \/ RefillErr(s) PROVE BudgetBound'
    BY <1>5 DEF RefillOk, RefillErr
  <1>6. CASE \E p \in Pools : RefillDone(p)
    BY <1>6 DEF RefillDone
  <1>7. CASE UNCHANGED vars
    BY <1>7 DEF vars
  <1> QED
    BY <1>1, <1>2, <1>3, <1>4, <1>5, <1>6, <1>7 DEF Next, Connect

\* global_idle stays within max_global_idle for any number of racing callers,
\* evictions included.
THEOREM PoolBudgetBound == Spec => []BudgetBound
  <1>1. Init => BudgetBound
    BY SMTT(30), PoolAssumption DEF Init, BudgetBound
  <1> QED
    BY <1>1, InitTypeInv, NextTypeInv, NextBudgetBound, PTL DEF Spec

-----------------------------------------------------------------------------

\* The pool p is in the map.
InMap(p) == \E a \in Dests : dests[a] = p

\* A slot that belongs to a pool.
Bound == {"claimed", "connecting", "idle"}

\* No pool has left the map: every pool a slot or a caller refers to is in it.
NothingEvicted ==
    /\ \A c \in Tasks :
        /\ pc[c] \notin {"count", "refund"}
        /\ pool[c] # None => InMap(pool[c])
    /\ \A s \in Slots : slotState[s] \in Bound => InMap(slotPool[s])

\* Every unit in use is counted once.
UnitsExact == globalIdle = Cardinality(InUse)

\* The inductive invariant behind BudgetExact.
BudgetInv == TypeInv /\ (~evicted => NothingEvicted /\ UnitsExact)

\* The map only grows, and whatever pool a caller or a slot newly refers to is
\* in it.
LEMMA KeepsNothingEvicted ==
    ASSUME NothingEvicted,
           \A p : InMap(p) => (\E a \in Dests : dests'[a] = p),
           \A c \in Tasks :
               /\ pc'[c] \notin {"count", "refund"}
               /\ pool'[c] # None => pool'[c] = pool[c] \/ (\E a \in Dests : dests'[a] = pool'[c]),
           \A s \in Slots : slotState'[s] \in Bound =>
               \/ slotState[s] \in Bound /\ slotPool'[s] = slotPool[s]
               \/ \E a \in Dests : dests'[a] = slotPool'[s]
    PROVE  NothingEvicted'
  <1>1. ASSUME NEW c \in Tasks, pool'[c] # None PROVE \E a \in Dests : dests'[a] = pool'[c]
    BY <1>1 DEF NothingEvicted
  <1>2. ASSUME NEW s \in Slots, slotState'[s] \in Bound
        PROVE  \E a \in Dests : dests'[a] = slotPool'[s]
    BY <1>2 DEF NothingEvicted
  <1> QED
    BY SMTT(30), <1>1, <1>2 DEF NothingEvicted, InMap, Bound

\* Units that leave InUse are subtracted exactly once.
LEMMA ReleasedUnits ==
    ASSUME UnitsExact, NEW S \in SUBSET InUse,
           globalIdle' = globalIdle - Cardinality(S),
           InUse' = InUse \ S
    PROVE  UnitsExact'
  <1>1. IsFiniteSet(InUse) /\ Cardinality(InUse) \in Nat
        /\ IsFiniteSet(S) /\ Cardinality(S) \in Nat
    <2>1. InUse \in SUBSET Slots /\ S \in SUBSET Slots
      BY DEF InUse
    <2> QED
      BY ONLY <2>1, SlotSets
  <1>2. InUse \cap S = S
    OBVIOUS
  <1>3. Cardinality(InUse \ S) = Cardinality(InUse) - Cardinality(S)
    BY ONLY ZenonT(40), <1>1, <1>2, FS_Difference
  <1> QED
    BY <1>1, <1>3 DEF UnitsExact

\* Units that replenish claims are added exactly once.
LEMMA ClaimedUnits ==
    ASSUME UnitsExact, NEW S \in SUBSET Free,
           globalIdle' = globalIdle + Cardinality(S),
           InUse' = InUse \cup S
    PROVE  UnitsExact'
  <1>1. IsFiniteSet(InUse) /\ Cardinality(InUse) \in Nat
        /\ IsFiniteSet(S) /\ Cardinality(S) \in Nat
    BY SlotSets DEF InUse, Free
  <1>2. InUse \cap S = {}
    BY DEF InUse, Free
  <1>3. Cardinality(InUse \cup S) = Cardinality(InUse) + Cardinality(S)
    BY <1>1, <1>2, FS_Union, FS_EmptySet
  <1> QED
    BY <1>1, <1>3 DEF UnitsExact

\* The part of the types the argument about the budget needs.
LEMMA BudgetTypes ==
    ASSUME TypeInv
    PROVE  /\ dests \in [Dests -> Pools \cup {None}]
           /\ pc \in [Tasks -> Labels] /\ pool \in [Tasks -> Pools \cup {None}]
           /\ slotState \in [Slots -> SlotStates] /\ slotPool \in [Slots -> Pools \cup {None}]
           /\ None \notin Pools
  BY PoolAssumption DEF TypeInv, TypeOK

\* A lookup, the reads of replenish and the scan for a victim move no unit and
\* leave the map alone.
LEMMA ReadsKeepBudget ==
    ASSUME TypeInv, NothingEvicted, UnitsExact, NEW c \in Tasks,
           Lookup(c) \/ CheckFull(c) \/ PickVictim(c) \/ ReadQueue(c) \/ ReadBudget(c)
    PROVE  NothingEvicted' /\ UnitsExact'
  <1>1. UNCHANGED <<dests, globalIdle, slotState, slotPool>>
    BY ZenonT(40) DEF Lookup, CheckFull, PickVictim, ReadQueue, ReadBudget, slotVars
  <1>2. \A d \in Tasks : pc'[d] \notin {"count", "refund"}
    BY ZenonT(40), BudgetTypes DEF NothingEvicted, Goto, Lookup, CheckFull, PickVictim,
       ReadQueue, ReadBudget
  <1>3. \A d \in Tasks : pool'[d] # None => pool'[d] = pool[d] \/ (\E a \in Dests : dests'[a] = pool'[d])
    BY ZenonT(60), <1>1, BudgetTypes
       DEF Lookup, CheckFull, PickVictim, ReadQueue, ReadBudget
  <1>4. \A p : InMap(p) => (\E a \in Dests : dests'[a] = p)
    BY ZenonT(60), <1>1 DEF InMap
  <1>5. NothingEvicted'
    BY ZenonT(60), <1>1, <1>2, <1>3, <1>4, KeepsNothingEvicted
  <1>6. UnitsExact'
    BY SMTT(30), <1>1 DEF UnitsExact, InUse
  <1> QED
    BY <1>5, <1>6

\* dests.remove that finds nothing.
LEMMA EmptyRemoveKeepsBudget ==
    ASSUME TypeInv, NothingEvicted, UnitsExact, NEW c \in Tasks, RemoveVictim(c),
           dests[victim[c]] = None
    PROVE  NothingEvicted' /\ UnitsExact'
  <1>1. /\ UNCHANGED <<globalIdle, slotState, slotPool, pool>>
        /\ dests' = [dests EXCEPT ![victim[c]] = None]
        /\ pc' = [pc EXCEPT ![c] = "insert"]
    BY ZenonT(60) DEF RemoveVictim, slotVars, Goto
  <1>2. dests' = dests
    BY ONLY <1>1, BudgetTypes, TypeInv, dests[victim[c]] = None
  <1>3. \A d \in Tasks : pc'[d] \notin {"count", "refund"}
    BY <1>1, BudgetTypes DEF NothingEvicted
  <1>4. \A p : InMap(p) => (\E a \in Dests : dests'[a] = p)
    BY ZenonT(60), <1>2 DEF InMap
  <1>5. NothingEvicted'
    BY <1>1, <1>3, <1>4, KeepsNothingEvicted
  <1>6. UnitsExact'
    BY <1>1 DEF UnitsExact, InUse
  <1> QED
    BY ZenonT(60), <1>5, <1>6

\* The insertion of a pool that nothing refers to yet.
LEMMA InsertKeepsBudget ==
    ASSUME TypeInv, NothingEvicted, UnitsExact, NEW c \in Tasks, Insert(c)
    PROVE  NothingEvicted' /\ UnitsExact'
  <1>1. pc' = [pc EXCEPT ![c] = "take"] /\ globalIdle' = globalIdle
    BY ZenonT(60) DEF Insert, Goto
  <1>2. addr[c] \in Dests
    BY DEF Insert, TypeInv, Located, HasAddr
  <1>3. \A d \in Tasks : pc'[d] \notin {"count", "refund"}
    BY SMTT(30), <1>1, BudgetTypes DEF NothingEvicted
  <1>4. CASE dests[addr[c]] # None
    <2>1. UNCHANGED <<dests, slotState, slotPool>> /\ pool' = [pool EXCEPT ![c] = dests[addr[c]]]
      BY SMTT(30), <1>4 DEF Insert, slotVars
    <2>2. NothingEvicted'
      BY <1>2, <1>3, <2>1, BudgetTypes, KeepsNothingEvicted DEF InMap
    <2> QED
      BY SMTT(30), <1>1, <2>1, <2>2 DEF UnitsExact, InUse
  <1>5. CASE dests[addr[c]] = None
    <2>1. PICK p \in Pools :
            /\ ~Referenced(p)
            /\ dests' = [dests EXCEPT ![addr[c]] = p]
            /\ pool' = [pool EXCEPT ![c] = p]
            /\ SetSlots(Idle(p), "free", None, None)
      BY ZenonT(60), <1>5 DEF Insert
    <2>2. Idle(p) = {}
      BY <2>1 DEF NothingEvicted, Idle, SlotsOf, Referenced, InMap, Bound
    <2>3. slotState' = slotState /\ slotPool' = slotPool
      BY ONLY <2>1, <2>2, TypeInv, BudgetTypes DEF SetSlots
    <2>4. \A q : InMap(q) => q = None \/ (\E a \in Dests : dests'[a] = q)
      BY ONLY <1>2, <1>5, <2>1, TypeInv, BudgetTypes DEF InMap
    <2>5. \A q \in Pools : InMap(q) => (\E a \in Dests : dests'[a] = q)
      BY ONLY <2>4, TypeInv, BudgetTypes
    <2>6. ASSUME NEW d \in Tasks, pool'[d] # None
          PROVE  \E a \in Dests : dests'[a] = pool'[d]
      <3>1. CASE d = c
        BY ONLY <1>2, <2>1, <3>1, TypeInv, BudgetTypes
      <3>2. CASE d # c
        <4>1. pool'[d] = pool[d] /\ pool[d] \in Pools
          BY ONLY <2>1, <2>6, <3>2, TypeInv, BudgetTypes
        <4> QED
          BY <2>5, <2>6, <4>1 DEF NothingEvicted
      <3> QED
        BY <3>1, <3>2
    <2>7. ASSUME NEW s \in Slots, slotState'[s] \in Bound
          PROVE  \E a \in Dests : dests'[a] = slotPool'[s]
      <3>1. slotPool[s] \in Pools
        BY <2>3, <2>7 DEF TypeInv, Located, Bound
      <3> QED
        BY <2>3, <2>5, <2>7, <3>1 DEF NothingEvicted
    <2>8. NothingEvicted'
      BY <1>3, <2>6, <2>7 DEF NothingEvicted, InMap, Bound
    <2> QED
      BY SMTT(30), <1>1, <2>3, <2>8 DEF UnitsExact, InUse
  <1> QED
    BY <1>4, <1>5

\* Slots that no longer belong to a pool, or never did, keep the map out of it.
LEMMA SlotsOnly ==
    ASSUME NothingEvicted, UNCHANGED dests,
           \A c \in Tasks : /\ pc'[c] \notin {"count", "refund"}
                            /\ pool'[c] \in {pool[c], None},
           \A s \in Slots : slotState'[s] \in Bound =>
               \/ slotState[s] \in Bound /\ slotPool'[s] = slotPool[s]
               \/ InMap(slotPool'[s])
    PROVE  NothingEvicted'
  <1>1. \A p : InMap(p) => (\E a \in Dests : dests'[a] = p)
    BY DEF InMap
  <1> QED
    BY <1>1, KeepsNothingEvicted

\* try_take moves sockets from the queue to the caller; each keeps its unit.
LEMMA TakeKeepsBudget ==
    ASSUME TypeInv, NothingEvicted, UnitsExact, NEW c \in Tasks, TryTake(c)
    PROVE  NothingEvicted' /\ UnitsExact'
  <1>1. /\ UNCHANGED <<dests, globalIdle, pool, slotPool>>
        /\ \A s \in Slots : slotState'[s] = slotState[s]
                              \/ (slotState[s] = "idle" /\ slotState'[s] \in {"stale", "leased"})
    BY DEF TryTake, Idle, SlotsOf
  <1>2. \A d \in Tasks : pc'[d] \notin {"count", "refund"}
    BY BudgetTypes DEF NothingEvicted, Goto, TryTake
  <1>3. NothingEvicted'
    BY <1>1, <1>2, SlotsOnly DEF Bound
  <1>4. InUse' = InUse
    BY <1>1 DEF InUse
  <1> QED
    BY <1>1, <1>3, <1>4 DEF UnitsExact

\* connect gives back the units of stale sockets, and of the one it returns.
LEMMA GiveBackKeepsBudget ==
    ASSUME TypeInv, NothingEvicted, UnitsExact, NEW c \in Tasks,
           ReleaseStale(c) \/ Finish(c)
    PROVE  NothingEvicted' /\ UnitsExact'
  <1>1. PICK st \in {"stale", "leased"} :
          /\ globalIdle' = globalIdle - Cardinality(HeldBy(c, st))
          /\ SetSlots(HeldBy(c, st), "free", None, None)
    BY ZenonT(60) DEF ReleaseStale, Finish
  <1>2. HeldBy(c, st) \subseteq InUse /\ InUse' = InUse \ HeldBy(c, st)
    BY <1>1 DEF InUse, HeldBy, SetSlots
  <1>3. UnitsExact'
    BY ONLY UnitsExact, <1>1, <1>2, ReleasedUnits
  <1>4. UNCHANGED dests /\ \A d \in Tasks : pool'[d] \in {pool[d], None}
    BY BudgetTypes DEF ReleaseStale, Finish
  <1>5. \A d \in Tasks : pc'[d] \notin {"count", "refund"}
    BY SMTT(30), BudgetTypes DEF NothingEvicted, Goto, ReleaseStale, Finish
  <1>6. \A s \in Slots : slotState'[s] \in Bound =>
          slotState[s] \in Bound /\ slotPool'[s] = slotPool[s]
    BY SMTT(30), <1>1 DEF SetSlots, Bound
  <1>7. NothingEvicted'
    BY ONLY NothingEvicted, <1>4, <1>5, <1>6, SlotsOnly
  <1> QED
    BY <1>3, <1>7

\* The units a caller reserves belong to its pool, which is in the map.
LEMMA ReserveKeepsBudget ==
    ASSUME TypeInv, NothingEvicted, UnitsExact, NEW c \in Tasks, Reserve(c)
    PROVE  NothingEvicted' /\ UnitsExact'
  <1>1. PICK S \in SUBSET Free :
          /\ globalIdle' = globalIdle + Cardinality(S)
          /\ SetSlots(S, "claimed", pool[c], c)
    BY ZenonT(60) DEF Reserve
  <1>2. InUse' = InUse \cup S
    BY <1>1 DEF InUse, Free, SetSlots
  <1>3. UnitsExact'
    BY ONLY SMTT(30), UnitsExact, <1>1, <1>2, ClaimedUnits
  <1>4. InMap(pool[c])
    BY ZenonT(60), BudgetTypes DEF Reserve, TypeInv, Located, HasPool, NothingEvicted
  <1>5. UNCHANGED <<dests, pool>>
    BY DEF Reserve
  <1>6. \A d \in Tasks : pc'[d] \notin {"count", "refund"}
    BY SMTT(30), BudgetTypes DEF NothingEvicted, Goto, Reserve
  <1>7. \A s \in Slots : slotState'[s] \in Bound =>
          \/ slotState[s] \in Bound /\ slotPool'[s] = slotPool[s]
          \/ InMap(slotPool'[s])
    BY <1>1, <1>4 DEF SetSlots
  <1>8. NothingEvicted'
    BY <1>5, <1>6, <1>7, SlotsOnly
  <1> QED
    BY SMTT(30), <1>3, <1>8

\* A spawned refill takes a reserved unit over.
LEMMA SpawnKeepsBudget ==
    ASSUME TypeInv, NothingEvicted, UnitsExact, NEW c \in Tasks, Spawn(c)
    PROVE  NothingEvicted' /\ UnitsExact'
  <1>1. PICK t \in Slots : /\ slotState[t] = "claimed"
                           /\ SetSlots({t}, "connecting", pool[c], None)
    BY DEF Spawn, HeldBy
  <1>2. InUse' = InUse
    BY <1>1 DEF InUse, SetSlots
  <1>3. InMap(pool[c])
    BY ZenonT(60), BudgetTypes DEF Spawn, TypeInv, Located, HasPool, NothingEvicted
  <1>4. UNCHANGED <<dests, pool, globalIdle>>
    BY DEF Spawn
  <1>5. \A d \in Tasks : pc'[d] \notin {"count", "refund"}
    BY SMTT(30), BudgetTypes DEF NothingEvicted, Goto, Spawn
  <1>6. \A s \in Slots : slotState'[s] \in Bound =>
          \/ slotState[s] \in Bound /\ slotPool'[s] = slotPool[s]
          \/ InMap(slotPool'[s])
    BY SMTT(30), <1>1, <1>3 DEF SetSlots
  <1>7. NothingEvicted'
    BY <1>4, <1>5, <1>6, SlotsOnly
  <1> QED
    BY SMTT(30), <1>2, <1>4, <1>7 DEF UnitsExact

\* A refill queues its socket or gives its unit back.
LEMMA RefillKeepsBudget ==
    ASSUME TypeInv, NothingEvicted, UnitsExact, NEW s \in Slots,
           RefillOk(s) \/ RefillErr(s)
    PROVE  NothingEvicted' /\ UnitsExact'
  <1>1. slotState[s] = "connecting" /\ UNCHANGED <<dests, pc, pool>>
    BY ZenonT(60) DEF RefillOk, RefillErr, taskVars
  <1>2. \/ SetSlots({s}, "idle", slotPool[s], None) /\ globalIdle' = globalIdle
        \/ SetSlots({s}, "free", None, None) /\ globalIdle' = globalIdle - 1
    BY SMTT(30) DEF RefillOk, RefillErr
  <1>3. \A t \in Slots : slotState'[t] \in Bound =>
          slotState[t] \in Bound /\ slotPool'[t] = slotPool[t]
    BY <1>1, <1>2 DEF SetSlots, Bound
  <1>4. \A d \in Tasks : pc'[d] \notin {"count", "refund"}
    BY ZenonT(60), <1>1 DEF NothingEvicted
  <1>5. NothingEvicted'
    BY <1>1, <1>3, <1>4, SlotsOnly
  <1>6. {s} \in SUBSET InUse /\ Cardinality({s}) = 1
    BY ZenonT(60), <1>1, FS_Singleton DEF InUse
  <1>7. \/ InUse' = InUse /\ globalIdle' = globalIdle
        \/ InUse' = InUse \ {s} /\ globalIdle' = globalIdle - Cardinality({s})
    BY <1>1, <1>2, <1>6 DEF SetSlots, InUse
  <1>8. UnitsExact'
    <2>1. CASE InUse' = InUse /\ globalIdle' = globalIdle
      BY <2>1 DEF UnitsExact
    <2>2. CASE InUse' = InUse \ {s} /\ globalIdle' = globalIdle - Cardinality({s})
      BY ONLY UnitsExact, <1>6, <2>2, ReleasedUnits
    <2> QED
      BY <1>7, <2>1, <2>2
  <1> QED
    BY SMTT(30), <1>5, <1>8

\* The history variable: it only ever becomes true, and a removal that finds a
\* pool makes it so.
LEMMA EvictedGrows ==
    ASSUME [Next]_vars, ~evicted'
    PROVE  /\ ~evicted
           /\ \A c \in Tasks : RemoveVictim(c) => dests[victim[c]] = None
  <1>1. ASSUME NEW c \in Tasks, RemoveVictim(c) PROVE ~evicted /\ dests[victim[c]] = None
    BY <1>1, Zenon DEF RemoveVictim
  <1>2. ASSUME NEW c \in Tasks, Connect(c), ~RemoveVictim(c) PROVE ~evicted
    BY <1>2, Zenon DEF Connect, Lookup, CheckFull, PickVictim, CountVictim, RefundVictim,
       Insert, TryTake, ReleaseStale, ReadQueue, ReadBudget, Reserve, Spawn, Finish
  <1>3. ASSUME NEW s \in Slots, RefillOk(s) \/ RefillErr(s) PROVE ~evicted
    BY <1>3, Zenon DEF RefillOk, RefillErr
  <1>4. ASSUME NEW p \in Pools, RefillDone(p) PROVE ~evicted
    BY <1>4, Zenon DEF RefillDone
  <1>5. ASSUME UNCHANGED vars PROVE ~evicted
    BY <1>5, Zenon DEF vars
  <1> QED
    BY <1>1, <1>2, <1>3, <1>4, <1>5, Zenon DEF Next

\* Every step preserves the budget invariant; an eviction ends its claim.
LEMMA NextBudgetInv == BudgetInv /\ [Next]_vars => BudgetInv'
  <1> SUFFICES ASSUME BudgetInv, [Next]_vars, ~evicted'
               PROVE  NothingEvicted' /\ UnitsExact'
    BY NextTypeInv DEF BudgetInv
  <1>1. TypeInv /\ NothingEvicted /\ UnitsExact
    BY EvictedGrows DEF BudgetInv
  <1>2. ASSUME NEW c \in Tasks, Connect(c) PROVE NothingEvicted' /\ UnitsExact'
    <2>1. ~CountVictim(c) /\ ~RefundVictim(c)
      BY ZenonT(60), <1>1 DEF NothingEvicted, CountVictim, RefundVictim
    <2>2. CASE RemoveVictim(c)
      BY <1>1, <2>2, EvictedGrows, EmptyRemoveKeepsBudget
    <2>3. CASE ~RemoveVictim(c)
      BY <1>1, <1>2, <2>1, <2>3, ReadsKeepBudget, InsertKeepsBudget, TakeKeepsBudget,
         GiveBackKeepsBudget, ReserveKeepsBudget, SpawnKeepsBudget DEF Connect
    <2> QED
      BY ZenonT(60), <2>2, <2>3
  <1>3. ASSUME NEW s \in Slots, RefillOk(s) \/ RefillErr(s)
        PROVE  NothingEvicted' /\ UnitsExact'
    BY ZenonT(60), <1>1, <1>3, RefillKeepsBudget
  <1>4. CASE (\E p \in Pools : RefillDone(p)) \/ UNCHANGED vars
    <2>1. UNCHANGED <<dests, globalIdle, slotState, slotPool, pc, pool>>
      BY <1>4 DEF RefillDone, vars, slotVars, taskVars
    <2> QED
      BY <1>1, <2>1 DEF NothingEvicted, InMap, UnitsExact, InUse
  <1> QED
    BY <1>2, <1>3, <1>4 DEF Next

\* Until a pool is evicted, global_idle is exactly the number of units in use.
THEOREM PoolBudgetExact == Spec => []BudgetExact
  <1>1. Init => BudgetInv
    <2> SUFFICES ASSUME Init PROVE NothingEvicted /\ UnitsExact
      BY InitTypeInv DEF BudgetInv
    <2>1. InUse = {}
      BY DEF Init, InUse
    <2>2. UnitsExact
      BY <2>1, FS_EmptySet DEF Init, UnitsExact
    <2> QED
      BY <2>2 DEF Init, NothingEvicted, Bound
  <1>2. BudgetInv => BudgetExact
    BY DEF BudgetInv, BudgetExact, UnitsExact
  <1> QED
    BY <1>1, <1>2, NextBudgetInv, PTL DEF Spec
=============================================================================
