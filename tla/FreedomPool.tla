---------------------------- MODULE FreedomPool ----------------------------
(***************************************************************************)
(* The adaptive connection pool of the "freedom" outbound (Fast Profile):  *)
(* src/crates/blackwire-protocol/src/freedom.rs.                           *)
(*                                                                         *)
(* Tasks run FreedomOutbound::connect concurrently.  Each one looks up, or *)
(* creates, the DestPool of its destination, takes an idle socket from it  *)
(* if there is one, and starts background refills.  The atomic counter     *)
(* global_idle is the budget all of them share; DashMap and atomic         *)
(* operations are single steps, the code between them is not.              *)
(*                                                                         *)
(* A slot is one unit of that budget.  It is claimed by replenish, carried *)
(* by a refill task while it dials, sits in an idle queue, and is popped   *)
(* by a connect (stale or leased) which later gives the unit back.  The    *)
(* clock is abstracted: which queued sockets have gone stale, how hot a    *)
(* destination is and which pool is the least recently used are choices of *)
(* the environment.                                                        *)
(***************************************************************************)
EXTENDS Integers, FiniteSets

CONSTANTS
    Tasks,          \* concurrent callers of FreedomOutbound::connect
    Dests,          \* resolved socket addresses
    Pools,          \* identities of DestPool allocations
    Slots,          \* identities of budget units (bounds the sockets of a run)
    MaxPerDest,     \* PoolConfig::max_per_dest
    MaxGlobalIdle,  \* PoolConfig::max_global_idle
    MaxDests,       \* PoolConfig::max_dests
    MinHotness,     \* PoolConfig::min_hotness_for_pool
    None            \* no pool, no destination, no task

ASSUME PoolAssumption ==
    /\ IsFiniteSet(Slots)
    /\ MaxPerDest \in Nat
    /\ MaxGlobalIdle \in Nat
    /\ MaxDests \in Nat
    /\ MinHotness \in Nat
    /\ None \notin Tasks \cup Pools \cup Dests

VARIABLES
    dests,        \* AdaptivePool::dests, a partial map from address to pool
    evicted,      \* history: a pool has been evicted
    globalIdle,   \* AdaptivePool::global_idle
    inFlight,     \* DestPool::in_flight
    finishing,    \* refill tasks of a pool that have yet to decrement in_flight
    slotState,    \* where each budget unit is
    slotPool,     \* the pool it belongs to
    slotTask,     \* the connect call that holds it
    pc,           \* where each connect call is
    addr,         \* its resolved destination
    pool,         \* its Arc<DestPool>
    victim,       \* evict_lru: the key chosen, then the pool removed
    count,        \* evict_lru: idle_count
    needed        \* replenish: needed

taskVars == <<pc, addr, pool, victim, count, needed>>
slotVars == <<slotState, slotPool, slotTask>>
vars == <<dests, evicted, globalIdle, inFlight, finishing, slotVars, taskVars>>

-----------------------------------------------------------------------------

\* tier_from_count
TierFromCount(n) ==
    LET tier == IF n = 0 THEN 0
                ELSE IF n <= 3 THEN 1
                ELSE IF n <= 7 THEN 2
                ELSE IF n <= 15 THEN 4
                ELSE IF n <= 31 THEN 8
                ELSE IF n <= 63 THEN 16
                ELSE MaxPerDest
    IN  IF n < MinHotness THEN 0
        ELSE IF tier < MaxPerDest THEN tier ELSE MaxPerDest

\* DestPool::current_cap: the hotness estimate is any count (64 stands for
\* every larger one, which falls in the same tier)
CurrentCap == {TierFromCount(n) : n \in 0..64}

SlotsOf(p, st) == {s \in Slots : slotState[s] = st /\ slotPool[s] = p}
Idle(p)        == SlotsOf(p, "idle")
HeldBy(c, st)  == {s \in Slots : slotState[s] = st /\ slotTask[s] = c}
Free           == {s \in Slots : slotState[s] = "free"}
InUse          == {s \in Slots : slotState[s] # "free"}

Mapped == {a \in Dests : dests[a] # None}

\* The Arc<DestPool> count is not zero.
Referenced(p) ==
    \/ \E a \in Dests : dests[a] = p
    \/ \E c \in Tasks : pool[c] = p \/ victim[c] = p
    \/ \E s \in Slots : slotState[s] = "connecting" /\ slotPool[s] = p
    \/ finishing[p] > 0

Budget == IF globalIdle < MaxGlobalIdle THEN MaxGlobalIdle - globalIdle ELSE 0
Lesser(x, y) == IF x < y THEN x ELSE y

Goto(c, l) == pc' = [pc EXCEPT ![c] = l]

SetSlots(S, st, p, c) ==
    /\ slotState' = [s \in Slots |-> IF s \in S THEN st ELSE slotState[s]]
    /\ slotPool'  = [s \in Slots |-> IF s \in S THEN p ELSE slotPool[s]]
    /\ slotTask'  = [s \in Slots |-> IF s \in S THEN c ELSE slotTask[s]]

-----------------------------------------------------------------------------

\* AdaptivePool::new
Init ==
    /\ dests      = [a \in Dests |-> None]
    /\ evicted    = FALSE
    /\ globalIdle = 0
    /\ inFlight   = [p \in Pools |-> 0]
    /\ finishing  = [p \in Pools |-> 0]
    /\ slotState  = [s \in Slots |-> "free"]
    /\ slotPool   = [s \in Slots |-> None]
    /\ slotTask   = [s \in Slots |-> None]
    /\ pc         = [c \in Tasks |-> "idle"]
    /\ addr       = [c \in Tasks |-> None]
    /\ pool       = [c \in Tasks |-> None]
    /\ victim     = [c \in Tasks |-> None]
    /\ count      = [c \in Tasks |-> 0]
    /\ needed     = [c \in Tasks |-> 0]

\* get_or_create: the DashMap lookup.  A hit clones the Arc.
Lookup(c) ==
    /\ pc[c] = "idle"
    /\ \E a \in Dests :
        /\ addr' = [addr EXCEPT ![c] = a]
        /\ \/ /\ dests[a] # None
              /\ pool' = [pool EXCEPT ![c] = dests[a]]
              /\ Goto(c, "take")
           \/ /\ dests[a] = None
              /\ Goto(c, "full?")
              /\ UNCHANGED pool
    /\ UNCHANGED <<dests, evicted, globalIdle, inFlight, finishing, slotVars, victim,
                   count, needed>>

\* get_or_create: dests.len() >= max_dests, a step after the lookup.
CheckFull(c) ==
    /\ pc[c] = "full?"
    /\ Goto(c, IF Cardinality(Mapped) >= MaxDests THEN "evict" ELSE "insert")
    /\ UNCHANGED <<dests, evicted, globalIdle, inFlight, finishing, slotVars, addr,
                   pool, victim, count, needed>>

\* evict_lru: min_by_key over the map; nothing to evict when it is empty.
PickVictim(c) ==
    /\ pc[c] = "evict"
    /\ \/ /\ Mapped = {}
          /\ Goto(c, "insert")
          /\ UNCHANGED victim
       \/ \E k \in Mapped :
            /\ victim' = [victim EXCEPT ![c] = k]
            /\ Goto(c, "remove")
    /\ UNCHANGED <<dests, evicted, globalIdle, inFlight, finishing, slotVars, addr,
                   pool, count, needed>>

\* evict_lru: dests.remove(&key), which finds nothing when another caller
\* removed the key first.
RemoveVictim(c) ==
    /\ pc[c] = "remove"
    /\ LET k == victim[c] IN
        /\ victim' = [victim EXCEPT ![c] = dests[k]]
        /\ dests' = [dests EXCEPT ![k] = None]
        /\ evicted' = (evicted \/ dests[k] # None)
        /\ Goto(c, IF dests[k] = None THEN "insert" ELSE "count")
    /\ UNCHANGED <<globalIdle, inFlight, finishing, slotVars, addr, pool,
                   count, needed>>

\* evict_lru: idle_count = evicted.idle.lock().len()
CountVictim(c) ==
    /\ pc[c] = "count"
    /\ count' = [count EXCEPT ![c] = Cardinality(Idle(victim[c]))]
    /\ Goto(c, "refund")
    /\ UNCHANGED <<dests, evicted, globalIdle, inFlight, finishing, slotVars, addr,
                   pool, victim, needed>>

\* evict_lru: global_idle.fetch_sub(idle_count), and the Arc is dropped.
RefundVictim(c) ==
    /\ pc[c] = "refund"
    /\ globalIdle' = globalIdle - count[c]
    /\ count' = [count EXCEPT ![c] = 0]
    /\ victim' = [victim EXCEPT ![c] = None]
    /\ Goto(c, "insert")
    /\ UNCHANGED <<dests, evicted, inFlight, finishing, slotVars, addr, pool, needed>>

\* get_or_create: entry(addr).or_insert_with(DestPool::new).  A pool nobody
\* references any more has been dropped and its sockets closed, so its
\* identity can be used again.
Insert(c) ==
    /\ pc[c] = "insert"
    /\ LET a == addr[c] IN
        \/ /\ dests[a] # None
           /\ pool' = [pool EXCEPT ![c] = dests[a]]
           /\ UNCHANGED <<dests, evicted, inFlight, slotVars>>
        \/ /\ dests[a] = None
           /\ \E p \in Pools :
                /\ ~Referenced(p)
                /\ dests' = [dests EXCEPT ![a] = p]
                /\ pool' = [pool EXCEPT ![c] = p]
                /\ inFlight' = [inFlight EXCEPT ![p] = 0]
                /\ SetSlots(Idle(p), "free", None, None)
    /\ Goto(c, "take")
    /\ UNCHANGED <<evicted, globalIdle, finishing, addr, victim, count, needed>>

\* DestPool::try_take under the idle lock: stale sockets are popped until a
\* live one is found or the queue is empty.
TryTake(c) ==
    /\ pc[c] = "take"
    /\ LET q == Idle(pool[c]) IN
       \E stale \in SUBSET q :
       \E hit \in {{h} : h \in q \ stale} \cup (IF stale = q THEN {{}} ELSE {}) :
        /\ slotState' = [s \in Slots |-> IF s \in stale THEN "stale"
                                         ELSE IF s \in hit THEN "leased"
                                         ELSE slotState[s]]
        /\ slotTask' = [s \in Slots |-> IF s \in stale \cup hit THEN c
                                        ELSE slotTask[s]]
        /\ Goto(c, IF stale = {} THEN "replenish" ELSE "stale")
    /\ UNCHANGED <<dests, evicted, globalIdle, inFlight, finishing, slotPool, addr,
                   pool, victim, count, needed>>

\* Mutation of ReleaseStale: the stale sockets are dropped but not accounted.
ReleaseStaleUncounted(c) ==
    /\ pc[c] = "stale"
    /\ SetSlots(HeldBy(c, "stale"), "free", None, None)
    /\ Goto(c, "replenish")
    /\ UNCHANGED <<dests, evicted, globalIdle, inFlight, finishing, addr, pool, victim,
                   count, needed>>

\* connect: global_idle.fetch_sub(stale)
ReleaseStale(c) ==
    /\ pc[c] = "stale"
    /\ globalIdle' = globalIdle - Cardinality(HeldBy(c, "stale"))
    /\ SetSlots(HeldBy(c, "stale"), "free", None, None)
    /\ Goto(c, "replenish")
    /\ UNCHANGED <<dests, evicted, inFlight, finishing, addr, pool, victim, count, needed>>

\* replenish: current_cap, then idle.len() and in_flight under the idle lock.
ReadQueue(c) ==
    /\ pc[c] = "replenish"
    /\ \E cap \in CurrentCap :
        LET have == Cardinality(Idle(pool[c])) + inFlight[pool[c]] IN
        needed' = [needed EXCEPT ![c] = IF cap > have THEN cap - have ELSE 0]
    /\ Goto(c, "budget")
    /\ UNCHANGED <<dests, evicted, globalIdle, inFlight, finishing, slotVars, addr,
                   pool, victim, count>>

\* replenish: the first read of global_idle; return when nothing is needed.
ReadBudget(c) ==
    /\ pc[c] = "budget"
    /\ LET n == Lesser(needed[c], Budget) IN
        /\ needed' = [needed EXCEPT ![c] = n]
        /\ Goto(c, IF n = 0 THEN "finish" ELSE "reserve")
    /\ UNCHANGED <<dests, evicted, globalIdle, inFlight, finishing, slotVars, addr,
                   pool, victim, count>>

\* Mutation of Reserve: a fetch_add of what the first read allowed.
ReserveUnchecked(c) ==
    /\ pc[c] = "reserve"
    /\ \E S \in SUBSET Free :
        /\ Cardinality(S) = needed[c]
        /\ globalIdle' = globalIdle + needed[c]
        /\ SetSlots(S, "claimed", pool[c], c)
        /\ needed' = [needed EXCEPT ![c] = 0]
        /\ Goto(c, "spawn")
    /\ UNCHANGED <<dests, evicted, inFlight, finishing, addr, pool, victim, count>>

\* replenish: the compare_exchange that succeeds.  A failed one changes
\* nothing and is retried.
Reserve(c) ==
    /\ pc[c] = "reserve"
    /\ LET want == Lesser(needed[c], Budget) IN
        \E S \in SUBSET Free :
            /\ Cardinality(S) = want
            /\ globalIdle' = globalIdle + want
            /\ SetSlots(S, "claimed", pool[c], c)
            /\ needed' = [needed EXCEPT ![c] = 0]
            /\ Goto(c, IF want = 0 THEN "finish" ELSE "spawn")
    /\ UNCHANGED <<dests, evicted, inFlight, finishing, addr, pool, victim, count>>

\* replenish: one turn of the spawn loop.
Spawn(c) ==
    /\ pc[c] = "spawn"
    /\ \E s \in HeldBy(c, "claimed") :
        /\ inFlight' = [inFlight EXCEPT ![pool[c]] = @ + 1]
        /\ SetSlots({s}, "connecting", pool[c], None)
        /\ Goto(c, IF HeldBy(c, "claimed") = {s} THEN "finish" ELSE "spawn")
    /\ UNCHANGED <<dests, evicted, globalIdle, finishing, addr, pool, victim, count,
                   needed>>

\* connect: a hit gives its unit back and returns the socket; a miss dials.
Finish(c) ==
    /\ pc[c] = "finish"
    /\ globalIdle' = globalIdle - Cardinality(HeldBy(c, "leased"))
    /\ SetSlots(HeldBy(c, "leased"), "free", None, None)
    /\ addr' = [addr EXCEPT ![c] = None]
    /\ pool' = [pool EXCEPT ![c] = None]
    /\ victim' = [victim EXCEPT ![c] = None]
    /\ Goto(c, "idle")
    /\ UNCHANGED <<dests, evicted, inFlight, finishing, count, needed>>

\* Mutation of RefillOk: the queue length is not checked again.
RefillOkUnchecked(s) ==
    /\ slotState[s] = "connecting"
    /\ SetSlots({s}, "idle", slotPool[s], None)
    /\ finishing' = [finishing EXCEPT ![slotPool[s]] = @ + 1]
    /\ UNCHANGED <<dests, evicted, globalIdle, inFlight, taskVars>>

\* A refill whose tcp_connect succeeded queues its socket under the idle
\* lock, or gives the unit back when the queue is full.
RefillOk(s) ==
    /\ slotState[s] = "connecting"
    /\ LET p == slotPool[s] IN
        /\ \/ /\ Cardinality(Idle(p)) < MaxPerDest
              /\ SetSlots({s}, "idle", p, None)
              /\ UNCHANGED globalIdle
           \/ /\ Cardinality(Idle(p)) >= MaxPerDest
              /\ SetSlots({s}, "free", None, None)
              /\ globalIdle' = globalIdle - 1
        /\ finishing' = [finishing EXCEPT ![p] = @ + 1]
    /\ UNCHANGED <<dests, evicted, inFlight, taskVars>>

\* Mutation of RefillErr: the error path decrements in_flight twice.
RefillErrTwice(s) ==
    /\ slotState[s] = "connecting"
    /\ SetSlots({s}, "free", None, None)
    /\ globalIdle' = globalIdle - 1
    /\ finishing' = [finishing EXCEPT ![slotPool[s]] = @ + 2]
    /\ UNCHANGED <<dests, evicted, inFlight, taskVars>>

\* Mutation of RefillErr: the error path forgets in_flight.
RefillErrForgets(s) ==
    /\ slotState[s] = "connecting"
    /\ SetSlots({s}, "free", None, None)
    /\ globalIdle' = globalIdle - 1
    /\ UNCHANGED <<dests, evicted, inFlight, finishing, taskVars>>

\* A refill whose tcp_connect failed.
RefillErr(s) ==
    /\ slotState[s] = "connecting"
    /\ SetSlots({s}, "free", None, None)
    /\ globalIdle' = globalIdle - 1
    /\ finishing' = [finishing EXCEPT ![slotPool[s]] = @ + 1]
    /\ UNCHANGED <<dests, evicted, inFlight, taskVars>>

\* The refill task's last statement: in_flight.fetch_sub(1).
RefillDone(p) ==
    /\ finishing[p] > 0
    /\ finishing' = [finishing EXCEPT ![p] = @ - 1]
    /\ inFlight' = [inFlight EXCEPT ![p] = @ - 1]
    /\ UNCHANGED <<dests, evicted, globalIdle, slotVars, taskVars>>

\* FreedomOutbound::connect
Connect(c) ==
    \/ Lookup(c) \/ CheckFull(c) \/ PickVictim(c) \/ RemoveVictim(c)
    \/ CountVictim(c) \/ RefundVictim(c) \/ Insert(c) \/ TryTake(c)
    \/ ReleaseStale(c) \/ ReadQueue(c) \/ ReadBudget(c) \/ Reserve(c)
    \/ Spawn(c) \/ Finish(c)

Next ==
    \/ \E c \in Tasks : Connect(c)
    \/ \E s \in Slots : RefillOk(s) \/ RefillErr(s)
    \/ \E p \in Pools : RefillDone(p)

Spec == Init /\ [][Next]_vars

-----------------------------------------------------------------------------

SlotStates == {"free", "claimed", "connecting", "idle", "stale", "leased"}
Labels == {"idle", "full?", "evict", "remove", "count", "refund", "insert",
           "take", "stale", "replenish", "budget", "reserve", "spawn", "finish"}

\* Every variable has its type: in particular in_flight, an AtomicUsize that
\* refill tasks decrement, never wraps below zero.
TypeOK ==
    /\ dests \in [Dests -> Pools \cup {None}]
    /\ evicted \in BOOLEAN
    /\ globalIdle \in Int
    /\ inFlight \in [Pools -> Nat]
    /\ finishing \in [Pools -> Nat]
    /\ slotState \in [Slots -> SlotStates]
    /\ slotPool \in [Slots -> Pools \cup {None}]
    /\ slotTask \in [Slots -> Tasks \cup {None}]
    /\ pc \in [Tasks -> Labels]
    /\ addr \in [Tasks -> Dests \cup {None}]
    /\ pool \in [Tasks -> Pools \cup {None}]
    /\ victim \in [Tasks -> Dests \cup Pools \cup {None}]
    /\ count \in [Tasks -> Nat]
    /\ needed \in [Tasks -> Nat]

\* DestPool::in_flight counts exactly the refill tasks that have not finished,
\* whichever way their dial ended and whether or not the pool was evicted
\* meanwhile.
InFlightExact ==
    \A p \in Pools :
        inFlight[p] = Cardinality(SlotsOf(p, "connecting")) + finishing[p]

\* The compare_exchange of replenish keeps global_idle within max_global_idle
\* whatever the callers that race for the last units read before it.
BudgetBound == globalIdle <= MaxGlobalIdle

\* The queue of a destination never outgrows max_per_dest, although several
\* callers may each have spawned refills for the same shortage.
QueueBound == \A p \in Pools : Cardinality(Idle(p)) <= MaxPerDest

\* Until a pool is evicted, global_idle is exactly the number of units in
\* use: reserved, dialling, queued, or popped by a connect that has yet to
\* give its unit back.  No error path, full queue or stale socket loses one.
\* (Afterwards it may drift: evict_lru refunds a queue length that refills
\* and callers still holding the pool make stale.)
BudgetExact == ~evicted => globalIdle = Cardinality(InUse)
=============================================================================
