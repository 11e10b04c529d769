--------------------------- MODULE HealthChecker ---------------------------
(***************************************************************************)
(* The background health checker of a balancer:                            *)
(* src/crates/blackwire-app/src/health.rs.                                 *)
(*                                                                         *)
(* On every tick of its interval the checker spawns one probe per member   *)
(* outbound and waits for all of them.  A probe connects, writes a request *)
(* and reads an answer under one timeout, so it always ends; its result is *)
(* written to the member's entry of the shared HealthStates map, whose     *)
(* entry guard makes the update one step.  The environment decides which   *)
(* members work; a probe succeeds exactly when its member works.           *)
(***************************************************************************)
EXTENDS Naturals

CONSTANTS
    N,            \* number of member outbounds, indexed 1..N
    MaxFailures,  \* HealthCheckConfig::max_failures
    Latencies,    \* latencies a probe may measure, in milliseconds
    NeverProbed,  \* u64::MAX, larger than any latency
    FailCap       \* bound on consecutive_failures: larger counts behave alike

ASSUME HealthAssumption ==
    /\ N \in Nat
    /\ MaxFailures \in Nat
    /\ Latencies \subseteq Nat
    /\ NeverProbed \in Nat
    /\ \A l \in Latencies : l < NeverProbed
    /\ FailCap \in Nat \ {0}
    /\ MaxFailures <= FailCap

VARIABLES
    up,        \* environment: the member answers probes
    alive,     \* OutboundState::alive
    failures,  \* OutboundState::consecutive_failures
    latency,   \* OutboundState::latency_ms
    round      \* members whose probe of the current round is still running

healthVars == <<up, alive, failures, latency, round>>

Members == 1..N

\* Mutation of HealthInit: the default latency is 0, the best there is.
HealthInitZero ==
    /\ up \in [Members -> BOOLEAN]
    /\ alive    = [m \in Members |-> TRUE]
    /\ failures = [m \in Members |-> 0]
    /\ latency  = [m \in Members |-> 0]
    /\ round    = {}

\* HealthChecker::new: OutboundState::default() for each member.  The first
\* interval tick, which completes at once, is consumed before the loop.
HealthInit ==
    /\ up \in [Members -> BOOLEAN]
    /\ alive    = [m \in Members |-> TRUE]
    /\ failures = [m \in Members |-> 0]
    /\ latency  = [m \in Members |-> NeverProbed]
    /\ round    = {}

\* Environment: a member starts or stops working.
Flip(m) ==
    /\ up' = [up EXCEPT ![m] = ~@]
    /\ UNCHANGED <<alive, failures, latency, round>>

\* run: a tick, after every probe of the previous round was awaited.
StartRound ==
    /\ round = {}
    /\ round' = Members
    /\ UNCHANGED <<up, alive, failures, latency>>

\* probe: run_probe succeeded.
ProbeOk(m) ==
    /\ m \in round
    /\ up[m]
    /\ \E l \in Latencies : latency' = [latency EXCEPT ![m] = l]
    /\ alive' = [alive EXCEPT ![m] = TRUE]
    /\ failures' = [failures EXCEPT ![m] = 0]
    /\ round' = round \ {m}
    /\ UNCHANGED up

\* Mutation of ProbeFail: the member is marked dead on an exact count that
\* skips the threshold itself.
ProbeFailLate(m) ==
    /\ m \in round
    /\ ~up[m]
    /\ LET f == IF failures[m] < FailCap THEN failures[m] + 1 ELSE FailCap IN
        /\ failures' = [failures EXCEPT ![m] = f]
        /\ alive' = [alive EXCEPT ![m] = @ /\ f <= MaxFailures]
    /\ round' = round \ {m}
    /\ UNCHANGED <<up, latency>>

\* Mutation of ProbeFail: a dead member's probe is never awaited to its end.
ProbeFailStuck(m) ==
    /\ m \in round
    /\ ~up[m]
    /\ failures[m] < MaxFailures
    /\ failures' = [failures EXCEPT ![m] = @ + 1]
    /\ alive' = [alive EXCEPT ![m] = failures[m] + 1 < MaxFailures]
    /\ round' = round \ {m}
    /\ UNCHANGED <<up, latency>>

\* probe: run_probe failed or timed out.
ProbeFail(m) ==
    /\ m \in round
    /\ ~up[m]
    /\ LET f == IF failures[m] < FailCap THEN failures[m] + 1 ELSE FailCap IN
        /\ failures' = [failures EXCEPT ![m] = f]
        /\ alive' = [alive EXCEPT ![m] = @ /\ f < MaxFailures]
    /\ round' = round \ {m}
    /\ UNCHANGED <<up, latency>>

Probe(m) == ProbeOk(m) \/ ProbeFail(m)

HealthNext ==
    \/ StartRound
    \/ \E m \in Members : Flip(m) \/ Probe(m)

HealthSpec == HealthInit /\ [][HealthNext]_healthVars

\* The checker is a task of its own on the runtime and every probe is bounded
\* by its timeout, so neither a tick nor a running probe is put off for ever.
HealthFairness ==
    /\ WF_healthVars(StartRound)
    /\ \A m \in Members : WF_healthVars(Probe(m))

FairHealthSpec == HealthSpec /\ HealthFairness

-----------------------------------------------------------------------------

\* Every variable has its type.
HealthTypeOK ==
    /\ up \in [Members -> BOOLEAN]
    /\ alive \in [Members -> BOOLEAN]
    /\ failures \in [Members -> 0..FailCap]
    /\ latency \in [Members -> Latencies \cup {NeverProbed}]
    /\ round \in SUBSET Members

\* A member is dead exactly while its last max_failures probes (at least one)
\* all failed: one success revives it, and fewer failures never kill it.
DeadIffFailing ==
    \A m \in Members :
        alive[m] <=> failures[m] = 0 \/ failures[m] < MaxFailures

\* If a member works for good the checker ends up reporting it alive.
WorkingSeenAlive == \A m \in Members : <>[]up[m] => <>[]alive[m]

\* If a member is broken for good the checker ends up reporting it dead.
BrokenSeenDead == \A m \in Members : <>[]~up[m] => <>[]~alive[m]
=============================================================================
