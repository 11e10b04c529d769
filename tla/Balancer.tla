------------------------------ MODULE Balancer ------------------------------
(***************************************************************************)
(* The load balancer outbound, src/crates/blackwire-app/src/balancer.rs,   *)
(* running against the health checker that updates the map it reads.       *)
(*                                                                         *)
(* Each caller runs Balancer::connect: it picks a member and dials it.  A  *)
(* pick reads the HealthStates map one member at a time, so probes may     *)
(* change members behind and ahead of the scan.  The adaptive strategy     *)
(* holds a mutex over its own state, not over the map.  Its score is a     *)
(* weighted sum of rates and latencies, abstracted to any value of Scores; *)
(* time is abstracted to the expiry of a cooldown.                         *)
(***************************************************************************)
EXTENDS HealthChecker, FiniteSets

CONSTANTS
    Callers,           \* concurrent Balancer::connect calls
    Strategies,        \* the strategies a balancer may be configured with
    RRWrap,            \* width of rr_counter: it counts modulo RRWrap
    Scores,            \* values of adaptive_score
    SwitchMargin,      \* AdaptiveBalancerConfig::switch_margin
    FailureThreshold,  \* AdaptiveBalancerConfig::failure_threshold
    None               \* no index, no lock holder

ASSUME BalancerAssumption ==
    /\ Strategies \subseteq {"latency", "roundRobin", "random", "adaptive"}
    /\ RRWrap \in Nat \ {0}
    /\ Scores \subseteq Nat
    /\ SwitchMargin \in Nat
    /\ FailureThreshold \in 1..FailCap
    /\ None \notin Callers \cup Nat

VARIABLES
    strategy,  \* Balancer::strategy, fixed when the balancer is built
    rr,        \* Balancer::rr_counter
    current,   \* AdaptiveRuntime::current
    cooldown,  \* AdaptiveState::cooldown_until is in the future
    connFail,  \* AdaptiveState::consecutive_failures, up to the threshold
    lock,      \* holder of the adaptive mutex
    pc,        \* where each caller is
    cursor,    \* the member its scan looks at next
    tally,     \* alive members counted so far
    slot,      \* which of them to pick
    best,      \* best member so far, with its latency or score
    picked,    \* the member returned by pick_member_index
    \* What the caller could have observed during its pick (history).
    wasAlive, wasDead, stable

adaptiveVars == <<current, cooldown, connFail, lock>>
pickVars == <<pc, cursor, tally, slot, best, picked>>
history == <<wasAlive, wasDead, stable>>
vars == <<healthVars, strategy, rr, adaptiveVars, pickVars, history>>

Nobody == [idx |-> None, key |-> 0]
Alive == {m \in Members : alive[m]}
Dead  == {m \in Members : ~alive[m]}

Goto(c, l) == pc' = [pc EXCEPT ![c] = l]
Advance(c) == cursor' = [cursor EXCEPT ![c] = @ + 1]
ScanDone(c) == cursor[c] > N

\* Return index i from pick_member_index, whose locals end here; None becomes
\* the error of connect.
Return(c, i) ==
    /\ picked' = [picked EXCEPT ![c] = i]
    /\ cursor' = [cursor EXCEPT ![c] = 1]
    /\ tally' = [tally EXCEPT ![c] = 0]
    /\ slot' = [slot EXCEPT ![c] = 0]
    /\ best' = [best EXCEPT ![c] = Nobody]
    /\ Goto(c, IF i = None THEN "error" ELSE "dial")

\* connect returns.
Forget(c) ==
    /\ Goto(c, "idle")
    /\ picked' = [picked EXCEPT ![c] = None]
    /\ wasAlive' = [wasAlive EXCEPT ![c] = {}]
    /\ wasDead' = [wasDead EXCEPT ![c] = {}]
    /\ stable' = [stable EXCEPT ![c] = TRUE]

\* first_member_index
First == IF N = 0 THEN None ELSE 1

-----------------------------------------------------------------------------

\* Balancer::new
Init ==
    /\ HealthInit
    /\ strategy \in Strategies
    /\ rr = 0
    /\ current = None
    /\ cooldown = [m \in Members |-> FALSE]
    /\ connFail = [m \in Members |-> 0]
    /\ lock = None
    /\ pc = [c \in Callers |-> "idle"]
    /\ cursor = [c \in Callers |-> 1]
    /\ tally = [c \in Callers |-> 0]
    /\ slot = [c \in Callers |-> 0]
    /\ best = [c \in Callers |-> Nobody]
    /\ picked = [c \in Callers |-> None]
    /\ wasAlive = [c \in Callers |-> {}]
    /\ wasDead = [c \in Callers |-> {}]
    /\ stable = [c \in Callers |-> TRUE]

\* pick_member_index: dispatch on the strategy; adaptive takes its mutex.
Begin(c) ==
    /\ pc[c] = "idle"
    /\ IF strategy = "adaptive"
         THEN lock = None /\ lock' = c
         ELSE UNCHANGED lock
    /\ Goto(c, CASE strategy = "latency" -> "alive?"
                 [] strategy = "adaptive" -> "cool"
                 [] OTHER -> "count")
    /\ wasAlive' = [wasAlive EXCEPT ![c] = Alive]
    /\ wasDead' = [wasDead EXCEPT ![c] = Dead]
    /\ stable' = [stable EXCEPT ![c] = TRUE]
    /\ UNCHANGED <<healthVars, strategy, rr, current, cooldown, connFail, cursor,
                   tally, slot, best, picked>>

\* alive_count: one member, is_alive reading its entry.
CountStep(c) ==
    /\ pc[c] = "count" /\ ~ScanDone(c)
    /\ tally' = [tally EXCEPT ![c] = IF alive[cursor[c]] THEN @ + 1 ELSE @]
    /\ Advance(c)
    /\ UNCHANGED <<healthVars, strategy, rr, adaptiveVars, pc, slot, best, picked, history>>

\* RoundRobin and Random: no member alive, or rr_counter.fetch_add picks a
\* slot among those counted.  Random multiplies the counter by a constant
\* that scatters it.
ChooseSlot(c) ==
    /\ pc[c] = "count" /\ ScanDone(c)
    /\ IF tally[c] = 0
         THEN Return(c, First) /\ UNCHANGED rr
         ELSE /\ rr' = (rr + 1) % RRWrap
              /\ \E k \in 0..(tally[c] - 1) :
                    /\ strategy = "roundRobin" => k = rr % tally[c]
                    /\ slot' = [slot EXCEPT ![c] = k]
              /\ cursor' = [cursor EXCEPT ![c] = 1]
              /\ Goto(c, "nth")
              /\ UNCHANGED <<tally, best, picked>>
    /\ UNCHANGED <<healthVars, strategy, adaptiveVars, history>>

\* Mutation of NthStep: dead members are counted but not skipped.
NthStepAny(c) ==
    /\ pc[c] = "nth"
    /\ IF slot[c] = 0 THEN Return(c, cursor[c])
       ELSE /\ slot' = [slot EXCEPT ![c] = @ - 1]
            /\ Advance(c)
            /\ UNCHANGED <<pc, picked, tally, best>>
    /\ UNCHANGED <<healthVars, strategy, rr, adaptiveVars, history>>

\* Mutation of NthStep: a scan that runs out returns the number of members.
NthStepOver(c) ==
    /\ pc[c] = "nth"
    /\ IF ScanDone(c) \/ (alive[cursor[c]] /\ slot[c] = 0) THEN Return(c, cursor[c])
       ELSE /\ slot' = [slot EXCEPT ![c] = IF alive[cursor[c]] THEN @ - 1 ELSE @]
            /\ Advance(c)
            /\ UNCHANGED <<pc, picked, tally, best>>
    /\ UNCHANGED <<healthVars, strategy, rr, adaptiveVars, history>>

\* nth_alive_index: one member; None when the scan runs out of alive ones.
NthStep(c) ==
    /\ pc[c] = "nth"
    /\ IF ScanDone(c) THEN Return(c, None)
       ELSE IF alive[cursor[c]] /\ slot[c] = 0 THEN Return(c, cursor[c])
       ELSE /\ slot' = [slot EXCEPT ![c] = IF alive[cursor[c]] THEN @ - 1 ELSE @]
            /\ Advance(c)
            /\ UNCHANGED <<pc, picked, tally, best>>
    /\ UNCHANGED <<healthVars, strategy, rr, adaptiveVars, history>>

\* Mutation of LatencyAlive: no fallback when every member is dead.
LatencyAliveOnly(c) ==
    /\ pc[c] = "alive?"
    /\ IF ScanDone(c)
         THEN Return(c, best[c].idx)
         ELSE /\ UNCHANGED <<picked, tally, slot, best>>
              /\ IF alive[cursor[c]] THEN Goto(c, "latency") /\ UNCHANGED cursor
                                     ELSE Advance(c) /\ UNCHANGED pc
    /\ UNCHANGED <<healthVars, strategy, rr, adaptiveVars, history>>

\* pick_latency_index: is_alive of one member, or the end of its loop.
LatencyAlive(c) ==
    /\ pc[c] = "alive?"
    /\ IF ScanDone(c)
         THEN Return(c, IF best[c] = Nobody THEN First ELSE best[c].idx)
         ELSE /\ UNCHANGED <<picked, tally, slot, best>>
              /\ IF alive[cursor[c]] THEN Goto(c, "latency") /\ UNCHANGED cursor
                                     ELSE Advance(c) /\ UNCHANGED pc
    /\ UNCHANGED <<healthVars, strategy, rr, adaptiveVars, history>>

\* Mutation of LatencyRead: the comparison is inverted.
LatencyReadWorst(c) ==
    /\ pc[c] = "latency"
    /\ LET l == latency[cursor[c]] IN
        best' = [best EXCEPT ![c] = IF @ = Nobody \/ l > @.key
                                      THEN [idx |-> cursor[c], key |-> l] ELSE @]
    /\ Advance(c)
    /\ Goto(c, "alive?")
    /\ UNCHANGED <<healthVars, strategy, rr, adaptiveVars, tally, slot, picked, history>>

\* pick_latency_index: a second read of the map, for the latency.
LatencyRead(c) ==
    /\ pc[c] = "latency"
    /\ LET l == latency[cursor[c]] IN
        best' = [best EXCEPT ![c] = IF @ = Nobody \/ l < @.key
                                      THEN [idx |-> cursor[c], key |-> l] ELSE @]
    /\ Advance(c)
    /\ Goto(c, "alive?")
    /\ UNCHANGED <<healthVars, strategy, rr, adaptiveVars, tally, slot, picked, history>>

\* apply_probe_cooldowns: one member, or the end of its loop.
CoolStep(c) ==
    /\ pc[c] = "cool"
    /\ IF ScanDone(c)
         THEN /\ cursor' = [cursor EXCEPT ![c] = 1]
              /\ Goto(c, "score")
              /\ UNCHANGED cooldown
         ELSE /\ cooldown' = [cooldown EXCEPT ![cursor[c]] =
                                 @ \/ failures[cursor[c]] >= FailureThreshold]
              /\ Advance(c)
              /\ UNCHANGED pc
    /\ UNCHANGED <<healthVars, strategy, rr, current, connFail, lock, tally, slot,
                   best, picked, history>>

\* Mutation of ScoreStep: members in cooldown compete as well.
ScoreStepHot(c) ==
    /\ pc[c] = "score" /\ ~ScanDone(c)
    /\ \E s \in Scores :
        LET m == cursor[c] IN
        best' = [best EXCEPT ![c] =
                    IF alive[m] /\ (@ = Nobody \/ s > @.key)
                      THEN [idx |-> m, key |-> s] ELSE @]
    /\ Advance(c)
    /\ UNCHANGED <<healthVars, strategy, rr, adaptiveVars, pc, tally, slot, picked, history>>

\* pick_adaptive_index: one member of the scoring loop.
ScoreStep(c) ==
    /\ pc[c] = "score" /\ ~ScanDone(c)
    /\ \E s \in Scores :
        LET m == cursor[c] IN
        best' = [best EXCEPT ![c] =
                    IF alive[m] /\ ~cooldown[m] /\ (@ = Nobody \/ s > @.key)
                      THEN [idx |-> m, key |-> s] ELSE @]
    /\ Advance(c)
    /\ UNCHANGED <<healthVars, strategy, rr, adaptiveVars, pc, tally, slot, picked, history>>

\* pick_adaptive_index: keep the current member within the switch margin,
\* else the best one, else index 0; record it and release the mutex.
Decide(c) ==
    /\ pc[c] = "score" /\ ScanDone(c)
    /\ \E s \in Scores :
        LET keep == /\ current # None
                    /\ alive[current] /\ ~cooldown[current]
                    /\ s + SwitchMargin >= best[c].key
            sel == IF best[c] = Nobody THEN First
                   ELSE IF keep THEN current ELSE best[c].idx
        IN  /\ current' = IF sel = None THEN current ELSE sel
            /\ Return(c, sel)
    /\ lock' = None
    /\ UNCHANGED <<healthVars, strategy, rr, cooldown, connFail, history>>

\* connect: the dial ended; observe_connect_result (adaptive only, under its
\* mutex) records it.
Observe(c) ==
    /\ pc[c] = "dial"
    /\ lock = None
    /\ \E ok \in BOOLEAN :
        LET m == picked[c]
            f == IF ok THEN 0
                 ELSE IF connFail[m] < FailureThreshold THEN connFail[m] + 1
                 ELSE FailureThreshold
        IN  IF strategy = "adaptive"
              THEN /\ connFail' = [connFail EXCEPT ![m] = f]
                   /\ cooldown' = [cooldown EXCEPT ![m] = @ \/ f >= FailureThreshold]
              ELSE UNCHANGED <<connFail, cooldown>>
    /\ Forget(c)
    /\ UNCHANGED <<healthVars, strategy, rr, current, lock, cursor, tally, slot, best>>

\* connect: pick_member_index returned None, "balancer has no outbounds".
Fail(c) ==
    /\ pc[c] = "error"
    /\ Forget(c)
    /\ UNCHANGED <<healthVars, strategy, rr, adaptiveVars, cursor, tally, slot, best>>

\* cooldown_until passes.  A pick compares with the instant it started at, so
\* an expiry during one is seen only by the next.
Expire(m) ==
    /\ lock = None
    /\ cooldown[m]
    /\ cooldown' = [cooldown EXCEPT ![m] = FALSE]
    /\ UNCHANGED <<healthVars, strategy, rr, current, connFail, lock, pickVars, history>>

\* The checker runs, and every pick in progress could observe the result.
HealthStep ==
    /\ HealthNext
    /\ wasAlive' = [c \in Callers |-> IF pc[c] = "idle" THEN {}
                        ELSE wasAlive[c] \cup {m \in Members : alive'[m]}]
    /\ wasDead' = [c \in Callers |-> IF pc[c] = "idle" THEN {}
                        ELSE wasDead[c] \cup {m \in Members : ~alive'[m]}]
    /\ stable' = [c \in Callers |->
                      pc[c] = "idle" \/ (stable[c] /\ UNCHANGED <<alive, latency>>)]
    /\ UNCHANGED <<strategy, rr, adaptiveVars, pickVars>>

Caller(c) ==
    \/ Begin(c) \/ CountStep(c) \/ ChooseSlot(c) \/ NthStep(c)
    \/ LatencyAlive(c) \/ LatencyRead(c)
    \/ CoolStep(c) \/ ScoreStep(c) \/ Decide(c)
    \/ Observe(c) \/ Fail(c)

Next ==
    \/ HealthStep
    \/ \E c \in Callers : Caller(c)
    \/ \E m \in Members : Expire(m)

Spec == Init /\ [][Next]_vars

-----------------------------------------------------------------------------

\* Every variable has its type.
TypeOK ==
    /\ HealthTypeOK
    /\ strategy \in Strategies
    /\ rr \in 0..(RRWrap - 1)
    /\ current \in Members \cup {None}
    /\ cooldown \in [Members -> BOOLEAN]
    /\ connFail \in [Members -> 0..FailureThreshold]
    /\ lock \in Callers \cup {None}
    /\ pc \in [Callers -> {"idle", "count", "nth", "alive?", "latency", "cool",
                           "score", "dial", "error"}]
    /\ cursor \in [Callers -> 1..(N + 1)]
    /\ tally \in [Callers -> 0..N]
    /\ slot \in [Callers -> 0..N]
    /\ best \in [Callers -> [idx : Members \cup {None}, key : Nat]]
    /\ picked \in [Callers -> Members \cup {None}]
    /\ wasAlive \in [Callers -> SUBSET Members]
    /\ wasDead \in [Callers -> SUBSET Members]
    /\ stable \in [Callers -> BOOLEAN]

\* "Dead members (marked by `HealthChecker`) are skipped": the member dialled
\* was alive at some moment of the pick, whatever the probes did during it,
\* unless it is the first one, taken after every member was seen dead.  The
\* adaptive strategy also passes over members in cooldown; see CooldownAvoided.
DeadSkipped ==
    strategy # "adaptive" =>
        \A c \in Callers : pc[c] = "dial" =>
            \/ picked[c] \in wasAlive[c]
            \/ picked[c] = 1 /\ wasDead[c] = Members

\* The adaptive pick dials a member that was alive during the pick and is not
\* in cooldown; only when each member was dead at some moment of the pick or
\* is in cooldown does it fall back to the first one.
CooldownAvoided ==
    [][\A c \in Callers : pc[c] = "score" /\ pc'[c] = "dial" =>
        \/ picked'[c] \in wasAlive[c] /\ ~cooldown[picked'[c]]
        \/ picked'[c] = 1 /\ \A m \in Members : cooldown[m] \/ m \in wasDead[c]]_vars

\* A latency pick during which no probe changed anything returns the alive
\* member of lowest latency, the earliest of equals.
LowestLatency ==
    \A c \in Callers : strategy = "latency" /\ pc[c] = "dial" /\ stable[c] =>
        IF Alive = {} THEN picked[c] = 1
        ELSE /\ picked[c] \in Alive
             /\ \A m \in Alive :
                    \/ latency[picked[c]] < latency[m]
                    \/ latency[picked[c]] = latency[m] /\ picked[c] <= m

\* connect fails with "balancer has no outbounds" only when there are none, or
\* when a probe result arrived between the count and the walk of a roundRobin
\* or random pick: the latency and adaptive picks fall back to the first
\* member whatever the probes do.
ErrorOnlyIfRaced ==
    \A c \in Callers : pc[c] = "error" =>
        N = 0 \/ (~stable[c] /\ strategy \in {"roundRobin", "random"})
=============================================================================
