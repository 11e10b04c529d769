--------------------------- MODULE BalancerProofs ---------------------------
(***************************************************************************)
(* Proofs about HealthChecker and Balancer, for any number of members and  *)
(* of concurrent callers.                                                  *)
(***************************************************************************)
EXTENDS Balancer, TLAPS

\* What a step of the checker keeps, whichever member it probes.
HealthInv == HealthTypeOK /\ DeadIffFailing

LEMMA InitHealthInv == HealthInit => HealthInv
  BY HealthAssumption DEF HealthInit, HealthInv, HealthTypeOK, DeadIffFailing

\* A probe result keeps alive and consecutive_failures in step.
LEMMA NextHealthInv == HealthInv /\ [HealthNext]_healthVars => HealthInv'
  <1> SUFFICES ASSUME HealthInv, [HealthNext]_healthVars PROVE HealthInv'
    OBVIOUS
  <1> USE HealthAssumption DEF HealthInv, HealthTypeOK, DeadIffFailing
  <1>1. CASE StartRound
    BY <1>1 DEF StartRound
  <1>2. ASSUME NEW m \in Members, Flip(m) PROVE HealthInv'
    BY <1>2 DEF Flip
  <1>3. ASSUME NEW m \in Members, ProbeOk(m) PROVE HealthInv'
    <2>1. PICK l \in Latencies : latency' = [latency EXCEPT ![m] = l]
      BY Zenon, <1>3 DEF ProbeOk
    <2> QED
      BY <1>3, <2>1 DEF ProbeOk
  <1>4. ASSUME NEW m \in Members, ProbeFail(m) PROVE HealthInv'
    <2> DEFINE f == IF failures[m] < FailCap THEN failures[m] + 1 ELSE FailCap
    <2>1. f \in 1..FailCap
      OBVIOUS
    <2>2. /\ failures' = [failures EXCEPT ![m] = f]
          /\ alive' = [alive EXCEPT ![m] = alive[m] /\ f < MaxFailures]
          /\ round' = round \ {m}
          /\ UNCHANGED <<up, latency>>
      BY <1>4 DEF ProbeFail
    <2>3. HealthTypeOK'
      BY <2>1, <2>2
    <2>4. ASSUME NEW n \in Members
          PROVE  alive'[n] <=> failures'[n] = 0 \/ failures'[n] < MaxFailures
      <3>1. CASE n # m
        BY <2>2, <3>1
      <3>2. CASE n = m
        <4>1. failures'[n] = f /\ (alive'[n] <=> alive[m] /\ f < MaxFailures)
          BY Zenon, <2>2, <3>2
        <4>2. f < MaxFailures => alive[m]
          OBVIOUS
        <4> QED
          BY <2>1, <4>1, <4>2
      <3> QED
        BY <3>1, <3>2
    <2> QED
      BY <2>3, <2>4
  <1>5. CASE UNCHANGED healthVars
    BY <1>5 DEF healthVars
  <1> QED
    BY <1>1, <1>2, <1>3, <1>4, <1>5 DEF HealthNext, Probe

\* A member is dead exactly while its last max_failures probes failed.
THEOREM HealthDeadIffFailing == HealthSpec => []DeadIffFailing
  <1>1. HealthInv => DeadIffFailing
    BY DEF HealthInv
  <1> QED
    BY <1>1, InitHealthInv, NextHealthInv, PTL DEF HealthSpec

-----------------------------------------------------------------------------

Scanning == {"count", "nth", "alive?", "latency"}

\* The part of the types the argument about a pick needs.
PickTypes ==
    /\ HealthTypeOK
    /\ pc \in [Callers -> Scanning \cup {"idle", "dial", "error"}]
    /\ cursor \in [Callers -> 1..(N + 1)]
    /\ tally \in [Callers -> Nat]
    /\ slot \in [Callers -> Nat]
    /\ best \in [Callers -> [idx : Members \cup {None}, key : Nat]]
    /\ picked \in [Callers -> Members \cup {None}]
    /\ wasAlive \in [Callers -> SUBSET Members]
    /\ wasDead \in [Callers -> SUBSET Members]

\* Every member the scan of c has passed was dead at some moment of the pick.
PassedDead(c) == \A m \in Members : m < cursor[c] => m \in wasDead[c]

\* What is known in the middle of a pick.
PickFacts(c) ==
    /\ pc[c] # "idle" => Alive \subseteq wasAlive[c] /\ Dead \subseteq wasDead[c]
    /\ pc[c] \in {"idle", "dial", "error"} =>
         cursor[c] = 1 /\ tally[c] = 0 /\ best[c] = Nobody
    /\ pc[c] = "count" => best[c] = Nobody /\ (tally[c] = 0 => PassedDead(c))
    /\ pc[c] \in {"alive?", "latency"} =>
         /\ best[c] = Nobody => PassedDead(c)
         /\ best[c] # Nobody => best[c].idx \in wasAlive[c]
    /\ pc[c] = "latency" => cursor[c] \in Members /\ cursor[c] \in wasAlive[c]
    /\ pc[c] = "dial" =>
         \/ picked[c] \in wasAlive[c]
         \/ picked[c] = 1 /\ wasDead[c] = Members

\* The inductive invariant behind DeadSkipped.
PickInv == PickTypes /\ \A c \in Callers : PickFacts(c)

\* The balancer starts with nothing in progress.
LEMMA InitPickInv == Init => PickInv
  <1> SUFFICES ASSUME Init PROVE PickInv
    OBVIOUS
  <1>1. HealthTypeOK
    BY InitHealthInv DEF Init, HealthInv
  <1> QED
    BY <1>1, HealthAssumption, BalancerAssumption
    DEF Init, PickInv, PickTypes, PickFacts, PassedDead, Scanning, Members, Nobody

\* A step of caller c that touches neither the map nor the other callers keeps
\* the invariant if it keeps c's part of it.
LEMMA OneCaller ==
    ASSUME PickInv, NEW c \in Callers, UNCHANGED healthVars,
           PickTypes', PickFacts(c)',
           \A d \in Callers \ {c} :
             /\ pc'[d] = pc[d] /\ cursor'[d] = cursor[d] /\ tally'[d] = tally[d]
             /\ best'[d] = best[d] /\ picked'[d] = picked[d]
             /\ wasAlive'[d] = wasAlive[d] /\ wasDead'[d] = wasDead[d]
    PROVE  PickInv'
  <1> SUFFICES ASSUME NEW d \in Callers PROVE PickFacts(d)'
    BY DEF PickInv
  <1>1. CASE d = c
    BY <1>1
  <1>2. CASE d # c
    BY <1>2 DEF PickInv, PickFacts, PassedDead, Alive, Dead, healthVars
  <1> QED
    BY <1>1, <1>2

\* A pick that returns a member it may return keeps the invariant.
LEMMA ReturnPickInv ==
    ASSUME PickInv, NEW c \in Callers, NEW i \in Members \cup {None},
           Return(c, i), UNCHANGED <<healthVars, wasAlive, wasDead>>,
           pc[c] # "idle",
           i # None => i \in wasAlive[c] \/ (i = 1 /\ wasDead[c] = Members)
    PROVE  PickInv'
  <1> USE HealthAssumption, BalancerAssumption
  <1>1. HealthTypeOK' /\ Alive' = Alive /\ Dead' = Dead
    BY DEF PickInv, PickTypes, HealthTypeOK, healthVars, Alive, Dead
  <1>2. PickTypes'
    <2>1. Nobody \in [idx : Members \cup {None}, key : Nat] /\ 1 \in 1..(N + 1)
      BY DEF Nobody
    <2>2. (IF i = None THEN "error" ELSE "dial") \in Scanning \cup {"idle", "dial", "error"}
      OBVIOUS
    <2> QED
      BY <1>1, <2>1, <2>2 DEF PickInv, PickTypes, Return, Goto
  <1>3. PickFacts(c)'
    <2>1. /\ pc'[c] = IF i = None THEN "error" ELSE "dial"
          /\ cursor'[c] = 1 /\ tally'[c] = 0 /\ best'[c] = Nobody /\ picked'[c] = i
      BY DEF PickInv, PickTypes, Return, Goto
    <2>2. Alive \subseteq wasAlive[c] /\ Dead \subseteq wasDead[c]
      BY DEF PickInv, PickFacts
    <2>3. Nobody' = Nobody /\ Members' = Members
      BY DEF Nobody, Members
    <2>4. wasAlive' = wasAlive /\ wasDead' = wasDead
      OBVIOUS
    <2>5. CASE i = None
      BY ONLY <1>1, <2>1, <2>2, <2>3, <2>4, <2>5 DEF PickFacts
    <2>6. CASE i # None
      <3>1. i \in wasAlive[c] \/ (i = 1 /\ wasDead[c] = Members)
        BY <2>6
      <3> QED
        BY ONLY <1>1, <2>1, <2>2, <2>3, <2>4, <2>6, <3>1 DEF PickFacts
    <2> QED
      BY <2>5, <2>6
  <1>4. \A d \in Callers \ {c} :
             /\ pc'[d] = pc[d] /\ cursor'[d] = cursor[d] /\ tally'[d] = tally[d]
             /\ best'[d] = best[d] /\ picked'[d] = picked[d]
             /\ wasAlive'[d] = wasAlive[d] /\ wasDead'[d] = wasDead[d]
    BY DEF PickInv, PickTypes, Return, Goto
  <1> QED
    BY <1>1, <1>2, <1>3, <1>4, OneCaller

\* A probe result only adds to what the picks in progress could observe.
LEMMA HealthStepPickInv ==
    ASSUME PickInv, HealthStep
    PROVE  PickInv'
  <1>1. HealthTypeOK'
    <2>1. CASE StartRound
      BY <2>1 DEF PickInv, PickTypes, HealthTypeOK, StartRound
    <2>2. ASSUME NEW m \in Members, Flip(m) PROVE HealthTypeOK'
      BY <2>2 DEF PickInv, PickTypes, HealthTypeOK, Flip
    <2>3. ASSUME NEW m \in Members, ProbeOk(m) PROVE HealthTypeOK'
      BY <2>3, HealthAssumption DEF PickInv, PickTypes, HealthTypeOK, ProbeOk
    <2>4. ASSUME NEW m \in Members, ProbeFail(m) PROVE HealthTypeOK'
      BY <2>4, HealthAssumption DEF PickInv, PickTypes, HealthTypeOK, ProbeFail
    <2> QED
      BY <2>1, <2>2, <2>3, <2>4 DEF HealthStep, HealthNext, Probe
  <1>2. PickTypes'
    BY <1>1 DEF PickInv, PickTypes, HealthStep, pickVars
  <1>3. ASSUME NEW c \in Callers PROVE PickFacts(c)'
    BY <1>1 DEF PickInv, PickTypes, PickFacts, PassedDead, HealthStep, pickVars,
                Alive, Dead, HealthTypeOK
  <1> QED
    BY <1>2, <1>3 DEF PickInv

\* Every step of a caller of the latency, roundRobin or random strategy.
LEMMA CallerPickInv ==
    ASSUME PickInv, strategy # "adaptive", NEW c \in Callers, Caller(c)
    PROVE  PickInv'
  <1> USE HealthAssumption, BalancerAssumption
  <1>0. UNCHANGED healthVars => HealthTypeOK' /\ Alive' = Alive /\ Dead' = Dead
    BY DEF PickInv, PickTypes, HealthTypeOK, healthVars, Alive, Dead
  <1>h. /\ Alive \subseteq Members /\ Dead \subseteq Members
        /\ \A m \in Members : (alive[m] <=> m \in Alive) /\ (m \in Alive \/ m \in Dead)
        /\ \A m \in Members : latency[m] \in Nat
        /\ Members = 1..N /\ N \in Nat
    BY Zenon DEF PickInv, PickTypes, HealthTypeOK, Alive, Dead, Members
  <1>f. First \in Members \cup {None} /\ (First # None => First = 1)
    BY ONLY HealthAssumption DEF First, Members
  <1>1. CASE Begin(c)
    <2>1. UNCHANGED healthVars /\ HealthTypeOK' /\ Alive' = Alive /\ Dead' = Dead
      BY <1>1, <1>0 DEF Begin
    <2>2. PickTypes'
      BY SMTT(30), <1>1, <1>h, <2>1 DEF Begin, PickInv, PickTypes, PickFacts, Scanning,
          Goto, Nobody, adaptiveVars, history
    <2>3. PickFacts(c)'
      BY <1>1, <1>h, <2>1 DEF Begin, PickInv, PickTypes, PickFacts, PassedDead, Scanning,
         Goto, Nobody, adaptiveVars, history
    <2>4. \A d \in Callers \ {c} :
             /\ pc'[d] = pc[d] /\ cursor'[d] = cursor[d] /\ tally'[d] = tally[d]
             /\ best'[d] = best[d] /\ picked'[d] = picked[d]
             /\ wasAlive'[d] = wasAlive[d] /\ wasDead'[d] = wasDead[d]
      BY <1>1 DEF Begin, PickInv, PickTypes, Goto, adaptiveVars, history
    <2> QED
      BY <2>1, <2>2, <2>3, <2>4, OneCaller
  <1>2. CASE CountStep(c)
    <2>1. UNCHANGED healthVars /\ HealthTypeOK' /\ Alive' = Alive /\ Dead' = Dead
      BY <1>2, <1>0 DEF CountStep
    <2>2. PickTypes'
      BY <1>2, <1>h, <2>1 DEF CountStep, PickInv, PickTypes, Advance, ScanDone, history
    <2>3. /\ pc[c] = "count" /\ cursor[c] \in Members
          /\ cursor'[c] = cursor[c] + 1
          /\ tally'[c] = IF alive[cursor[c]] THEN tally[c] + 1 ELSE tally[c]
          /\ UNCHANGED <<pc, best, picked, wasAlive, wasDead>>
      BY <1>2, <1>h DEF CountStep, PickInv, PickTypes, Advance, ScanDone, history
    <2>4. tally'[c] = 0 => PassedDead(c)'
      <3> SUFFICES ASSUME tally'[c] = 0, NEW m \in Members, m < cursor'[c]
                   PROVE  m \in wasDead[c]
        BY <2>3 DEF PassedDead
      <3>1. tally[c] \in Nat /\ cursor[c] \in Nat /\ m \in Nat
        BY <1>h DEF PickInv, PickTypes
      <3>2. ~alive[cursor[c]] /\ tally[c] = 0
        BY <2>3, <3>1
      <3>3. PassedDead(c) /\ Dead \subseteq wasDead[c]
        BY <2>3, <3>2 DEF PickInv, PickFacts
      <3>4. m < cursor[c] \/ m = cursor[c]
        BY <2>3, <3>1
      <3> QED
        BY <1>h, <2>3, <3>2, <3>3, <3>4 DEF PassedDead
    <2>5. PickFacts(c)'
      BY <2>1, <2>3, <2>4 DEF PickInv, PickFacts
    <2>6. \A d \in Callers \ {c} :
             /\ pc'[d] = pc[d] /\ cursor'[d] = cursor[d] /\ tally'[d] = tally[d]
             /\ best'[d] = best[d] /\ picked'[d] = picked[d]
             /\ wasAlive'[d] = wasAlive[d] /\ wasDead'[d] = wasDead[d]
      BY <1>2 DEF CountStep, PickInv, PickTypes, Goto, Advance, history
    <2> QED
      BY <2>1, <2>2, <2>5, <2>6, OneCaller
  <1>3. CASE ChooseSlot(c)
    <2>1. UNCHANGED <<healthVars, wasAlive, wasDead>>
          /\ HealthTypeOK' /\ Alive' = Alive /\ Dead' = Dead
      BY <1>3, <1>0 DEF ChooseSlot, history
    <2>2. pc[c] = "count" /\ \A m \in Members : m < cursor[c]
      BY <1>3, <1>h DEF ChooseSlot, ScanDone, PickInv, PickTypes
    <2>3. CASE tally[c] = 0
      <3>1. Return(c, First)
        BY <1>3, <2>3 DEF ChooseSlot
      <3>2. wasDead[c] = Members
        <4>1. wasDead[c] \subseteq Members
          BY DEF PickInv, PickTypes
        <4>2. PassedDead(c)
          BY <2>2, <2>3 DEF PickInv, PickFacts
        <4> QED
          BY ONLY <2>2, <4>1, <4>2 DEF PassedDead
      <3> QED
        BY <1>f, <2>1, <2>2, <3>1, <3>2, ReturnPickInv
    <2>4. CASE tally[c] # 0
      <3>1. PICK k \in 0..(tally[c] - 1) : slot' = [slot EXCEPT ![c] = k]
        BY <1>3, <2>4 DEF ChooseSlot
      <3>2. /\ cursor' = [cursor EXCEPT ![c] = 1]
            /\ pc' = [pc EXCEPT ![c] = "nth"]
            /\ UNCHANGED <<tally, best, picked>>
        BY <1>3, <2>4 DEF ChooseSlot, Goto
      <3>3. PickTypes'
        BY <1>h, <2>1, <3>1, <3>2 DEF PickInv, PickTypes, Scanning
      <3>4. PickFacts(c)'
        BY <2>1, <2>2, <3>2 DEF PickInv, PickTypes, PickFacts
      <3>5. \A d \in Callers \ {c} :
             /\ pc'[d] = pc[d] /\ cursor'[d] = cursor[d] /\ tally'[d] = tally[d]
             /\ best'[d] = best[d] /\ picked'[d] = picked[d]
             /\ wasAlive'[d] = wasAlive[d] /\ wasDead'[d] = wasDead[d]
        BY <2>1, <3>2 DEF PickInv, PickTypes
      <3> QED
        BY <2>1, <3>3, <3>4, <3>5, OneCaller
    <2> QED
      BY <2>3, <2>4
  <1>4. CASE NthStep(c)
    <2>1. UNCHANGED <<healthVars, wasAlive, wasDead>>
          /\ HealthTypeOK' /\ Alive' = Alive /\ Dead' = Dead
      BY <1>4, <1>0 DEF NthStep, history
    <2>2. pc[c] = "nth"
      BY <1>4 DEF NthStep
    <2>3. CASE ScanDone(c)
      BY <1>4, <2>1, <2>2, <2>3, ReturnPickInv DEF NthStep
    <2>4. CASE ~ScanDone(c) /\ alive[cursor[c]] /\ slot[c] = 0
      <3>1. Return(c, cursor[c])
        BY <1>4, <2>4 DEF NthStep
      <3>2. cursor[c] \in Members
        BY <1>h, <2>4 DEF ScanDone, PickInv, PickTypes
      <3>3. cursor[c] \in wasAlive[c]
        BY <1>h, <2>2, <2>4, <3>2 DEF PickInv, PickFacts
      <3> QED
        BY <2>1, <2>2, <3>1, <3>2, <3>3, ReturnPickInv
    <2>5. CASE ~ScanDone(c) /\ ~(alive[cursor[c]] /\ slot[c] = 0)
      <3>1. /\ slot' = [slot EXCEPT ![c] = IF alive[cursor[c]] THEN slot[c] - 1 ELSE slot[c]]
            /\ cursor' = [cursor EXCEPT ![c] = cursor[c] + 1]
            /\ UNCHANGED <<pc, picked, tally, best>>
        BY <1>4, <2>5 DEF NthStep, Advance
      <3>2. PickTypes'
        BY SMTT(30), <1>h, <2>1, <2>5, <3>1 DEF PickInv, PickTypes, ScanDone
      <3>3. PickFacts(c)'
        BY <2>1, <2>2, <3>1 DEF PickInv, PickTypes, PickFacts
      <3>4. \A d \in Callers \ {c} :
             /\ pc'[d] = pc[d] /\ cursor'[d] = cursor[d] /\ tally'[d] = tally[d]
             /\ best'[d] = best[d] /\ picked'[d] = picked[d]
             /\ wasAlive'[d] = wasAlive[d] /\ wasDead'[d] = wasDead[d]
        BY <2>1, <3>1 DEF PickInv, PickTypes
      <3> QED
        BY <2>1, <3>2, <3>3, <3>4, OneCaller
    <2> QED
      BY <2>3, <2>4, <2>5
  <1>5. CASE LatencyAlive(c)
    <2>1. UNCHANGED <<healthVars, wasAlive, wasDead>>
          /\ HealthTypeOK' /\ Alive' = Alive /\ Dead' = Dead
      BY <1>5, <1>0 DEF LatencyAlive, history
    <2>2. pc[c] = "alive?"
      BY <1>5 DEF LatencyAlive
    <2>3. CASE ScanDone(c)
      <3>1. \A m \in Members : m < cursor[c]
        BY <1>h, <2>3 DEF ScanDone, PickInv, PickTypes
      <3>2. CASE best[c] = Nobody
        <4>1. Return(c, First)
          BY <1>5, <2>3, <3>2 DEF LatencyAlive
        <4>2. wasDead[c] = Members
          <5>1. wasDead[c] \subseteq Members
            BY DEF PickInv, PickTypes
          <5>2. PassedDead(c)
            BY <2>2, <3>2 DEF PickInv, PickFacts
          <5> QED
            BY ONLY <3>1, <5>1, <5>2 DEF PassedDead
        <4> QED
          BY <1>f, <2>1, <2>2, <4>1, <4>2, ReturnPickInv
      <3>3. CASE best[c] # Nobody
        <4>1. Return(c, best[c].idx) /\ best[c].idx \in wasAlive[c]
              /\ best[c].idx \in Members \cup {None}
          BY <1>5, <2>2, <2>3, <3>3 DEF LatencyAlive, PickInv, PickTypes, PickFacts
        <4> QED
          BY SMTT(30), <2>1, <2>2, <4>1, ReturnPickInv
      <3> QED
        BY <3>2, <3>3
    <2>4. CASE ~ScanDone(c)
      <3>1. cursor[c] \in Members
        BY <1>h, <2>4 DEF ScanDone, PickInv, PickTypes
      <3>2. UNCHANGED <<picked, tally, slot, best>>
        BY SMTT(30), <1>5, <2>4 DEF LatencyAlive
      <3>3. CASE alive[cursor[c]]
        <4>1. pc' = [pc EXCEPT ![c] = "latency"] /\ cursor' = cursor
          BY <1>5, <2>4, <3>3 DEF LatencyAlive, Goto
        <4>2. cursor[c] \in wasAlive[c]
          BY <1>h, <2>2, <3>1, <3>3 DEF PickInv, PickFacts
        <4>3. PickTypes'
          BY <2>1, <3>2, <4>1 DEF PickInv, PickTypes, Scanning
        <4>4. PickFacts(c)'
          BY SMTT(30), <2>1, <2>2, <3>1, <3>2, <4>1, <4>2
             DEF PickInv, PickTypes, PickFacts, PassedDead
        <4> QED
          BY SMTT(30), <2>1, <3>2, <4>1, <4>3, <4>4, OneCaller DEF PickInv, PickTypes
      <3>4. CASE ~alive[cursor[c]]
        <4>1. cursor' = [cursor EXCEPT ![c] = cursor[c] + 1] /\ pc' = pc
          BY SMTT(30), <1>5, <2>4, <3>4 DEF LatencyAlive, Advance
        <4>2. cursor[c] \in wasDead[c]
          BY <1>h, <2>2, <3>1, <3>4 DEF PickInv, PickFacts
        <4>3. PickTypes'
          BY SMTT(30), <1>h, <2>1, <3>1, <3>2, <4>1 DEF PickInv, PickTypes
        <4>4. PassedDead(c) => PassedDead(c)'
          BY <1>h, <2>1, <3>1, <4>1, <4>2 DEF PickInv, PickTypes, PassedDead
        <4>5. PickFacts(c)'
          <5>1. /\ pc'[c] = "alive?" /\ best'[c] = best[c]
                /\ wasAlive' = wasAlive /\ wasDead' = wasDead
                /\ Alive' = Alive /\ Dead' = Dead
            BY <2>1, <2>2, <3>2, <4>1
          <5>2. /\ Alive \subseteq wasAlive[c] /\ Dead \subseteq wasDead[c]
                /\ best[c] = Nobody => PassedDead(c)
                /\ best[c] # Nobody => best[c].idx \in wasAlive[c]
            BY <2>2 DEF PickInv, PickFacts
          <5> QED
            BY ONLY <4>4, <5>1, <5>2 DEF PickFacts
        <4> QED
          BY SMTT(30), <2>1, <3>2, <4>1, <4>3, <4>5, OneCaller DEF PickInv, PickTypes
      <3> QED
        BY <3>3, <3>4
    <2> QED
      BY <2>3, <2>4
  <1>6. CASE LatencyRead(c)
    <2>1. UNCHANGED healthVars /\ HealthTypeOK' /\ Alive' = Alive /\ Dead' = Dead
      BY SMTT(30), <1>6, <1>0 DEF LatencyRead
    <2>2. PickTypes'
      BY SMTT(30), <1>6, <1>h, <2>1 DEF LatencyRead, PickInv, PickTypes, PickFacts,
         Scanning, Goto, Nobody, Advance, history
    <2>3. PickFacts(c)'
      BY SMTT(30), <1>6, <1>h, <2>1 DEF LatencyRead, PickInv, PickTypes, PickFacts,
          PassedDead, Scanning,
         Goto, Nobody, Advance, history
    <2>4. \A d \in Callers \ {c} :
             /\ pc'[d] = pc[d] /\ cursor'[d] = cursor[d] /\ tally'[d] = tally[d]
             /\ best'[d] = best[d] /\ picked'[d] = picked[d]
             /\ wasAlive'[d] = wasAlive[d] /\ wasDead'[d] = wasDead[d]
      BY <1>6 DEF LatencyRead, PickInv, PickTypes, Goto, Advance, history
    <2> QED
      BY <2>1, <2>2, <2>3, <2>4, OneCaller
  <1>7. CASE Observe(c)
    <2>1. UNCHANGED healthVars /\ HealthTypeOK' /\ Alive' = Alive /\ Dead' = Dead
      BY SMTT(30), <1>7, <1>0 DEF Observe
    <2>2. PickTypes'
      BY SMTT(30), <1>7, <1>h, <2>1
         DEF Observe, PickInv, PickTypes, PickFacts, Scanning, Goto, Nobody, Forget
    <2>3. PickFacts(c)'
      BY <1>7, <1>h, <2>1 DEF Observe, PickInv, PickTypes, PickFacts, PassedDead, Scanning,
         Goto, Nobody, Forget
    <2>4. \A d \in Callers \ {c} :
             /\ pc'[d] = pc[d] /\ cursor'[d] = cursor[d] /\ tally'[d] = tally[d]
             /\ best'[d] = best[d] /\ picked'[d] = picked[d]
             /\ wasAlive'[d] = wasAlive[d] /\ wasDead'[d] = wasDead[d]
      BY <1>7 DEF Observe, PickInv, PickTypes, Goto, Forget
    <2> QED
      BY <2>1, <2>2, <2>3, <2>4, OneCaller
  <1>8. CASE Fail(c)
    <2>1. UNCHANGED healthVars /\ HealthTypeOK' /\ Alive' = Alive /\ Dead' = Dead
      BY <1>8, <1>0 DEF Fail
    <2>2. PickTypes'
      BY SMTT(30), <1>8, <1>h, <2>1
         DEF Fail, PickInv, PickTypes, PickFacts, Scanning, Goto, Nobody, Forget
    <2>3. PickFacts(c)'
      BY <1>8, <1>h, <2>1 DEF Fail, PickInv, PickTypes, PickFacts, PassedDead, Scanning,
         Goto, Nobody, Forget
    <2>4. \A d \in Callers \ {c} :
             /\ pc'[d] = pc[d] /\ cursor'[d] = cursor[d] /\ tally'[d] = tally[d]
             /\ best'[d] = best[d] /\ picked'[d] = picked[d]
             /\ wasAlive'[d] = wasAlive[d] /\ wasDead'[d] = wasDead[d]
      BY <1>8 DEF Fail, PickInv, PickTypes, Goto, Forget
    <2> QED
      BY <2>1, <2>2, <2>3, <2>4, OneCaller
  <1>9. ~CoolStep(c) /\ ~ScoreStep(c) /\ ~Decide(c)
    BY SMTT(30) DEF PickInv, PickTypes, Scanning, CoolStep, ScoreStep, Decide
  <1> QED
    BY <1>1, <1>2, <1>3, <1>4, <1>5, <1>6, <1>7, <1>8, <1>9 DEF Caller

\* The inductive invariant of a balancer of any strategy.
StrategyInv == strategy # "adaptive" => PickInv

\* The strategy of a balancer never changes.
LEMMA StrategyFixed == [Next]_vars => strategy' = strategy
  <1>1. HealthStep => strategy' = strategy
    BY ZenonT(60) DEF HealthStep
  <1>2. ASSUME NEW c \in Callers, Caller(c) PROVE strategy' = strategy
    BY <1>2 DEF Caller, Begin, CountStep, ChooseSlot, NthStep, LatencyAlive,
       LatencyRead, CoolStep, ScoreStep, Decide, Observe, Fail
  <1>3. ASSUME NEW m \in Members, Expire(m) PROVE strategy' = strategy
    BY <1>3 DEF Expire
  <1> QED
    BY <1>1, <1>2, <1>3 DEF Next, vars

\* The latency, roundRobin and random strategies skip dead members, for any
\* number of members and callers and any timing of the probes.
THEOREM BalancerDeadSkipped == Spec => []DeadSkipped
  <1>1. StrategyInv /\ [Next]_vars => StrategyInv'
    <2> SUFFICES ASSUME PickInv, strategy # "adaptive", [Next]_vars PROVE PickInv'
      BY StrategyFixed DEF StrategyInv
    <2>1. CASE HealthStep
      BY <2>1, HealthStepPickInv
    <2>2. CASE \E c \in Callers : Caller(c)
      BY SMTT(30), <2>2, CallerPickInv
    <2>3. CASE \E m \in Members : Expire(m)
      BY SMTT(30), <2>3 DEF Expire, PickInv, PickTypes, PickFacts, PassedDead, HealthTypeOK,
         healthVars, pickVars, history, Alive, Dead
    <2>4. CASE UNCHANGED vars
      BY SMTT(30), <2>4 DEF vars, PickInv, PickTypes, PickFacts, PassedDead, HealthTypeOK,
         healthVars, pickVars, history, Alive, Dead
    <2> QED
      BY <2>1, <2>2, <2>3, <2>4 DEF Next
  <1>2. StrategyInv => DeadSkipped
    BY Zenon DEF StrategyInv, PickInv, PickFacts, DeadSkipped
  <1>3. Init => StrategyInv
    BY InitPickInv DEF StrategyInv
  <1> QED
    BY <1>1, <1>2, <1>3, PTL DEF Spec
=============================================================================
