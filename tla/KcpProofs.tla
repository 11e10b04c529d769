----------------------------- MODULE KcpProofs -----------------------------
(***************************************************************************)
(* For any windows, buffer, dead-link limit and message sizes, and whatever *)
(* the network loses, duplicates or reorders: what mKCP hands over is what  *)
(* was written, in order, and the sender keeps every segment the receiver   *)
(* lacks.                                                                   *)
(*                                                                         *)
(* The invariant KcpInv ties every copy of a segment (queued, in flight, in *)
(* either buffer) to its place in the written stream (Numbered), what the   *)
(* receiver has taken to the front of the stream (Received), and every      *)
(* acknowledgement, delayed ones included, to a segment that has arrived    *)
(* (Honest).                                                                *)
(***************************************************************************)
EXTENDS Kcp, SequenceTheorems, WellFoundedInduction, TLAPS

\* A segment carries the unit its sequence number stands for.
Copies(s) == s.sn < sndNxt /\ s.unit = stream[s.sn + 1]

\* Every copy of a segment is the unit of the stream its number stands for, and
\* the queue is the rest of the stream.
Numbered ==
    /\ Len(stream) = sndNxt + Len(sndQueue)
    /\ \A i \in 1..Len(sndQueue) : sndQueue[i] = stream[sndNxt + i]
    /\ \A s \in sndBuf : Copies(s)
    /\ \A s \in rcvBuf : Copies(s)
    /\ \A p \in net : p.type = "push" => Copies(p)

\* The receiver has segment n.
Arrived(n) == n < rcvNxt \/ n \in Sns(rcvBuf)

\* Every acknowledgement, pending or in flight, is true.
Honest ==
    /\ \A n \in acklist : Arrived(n)
    /\ \A p \in net : /\ p.type = "ack" => Arrived(p.sn)
                      /\ p.type \in {"ack", "wins"} => p.una <= rcvNxt

\* What was handed over and what waits in the queue are the front of the stream.
Received ==
    /\ rcvNxt <= sndNxt
    /\ Len(got) + Len(rcvQueue) = rcvNxt
    /\ \A i \in 1..Len(got) : got[i] = stream[i]
    /\ \A i \in 1..Len(rcvQueue) : rcvQueue[i] = stream[Len(got) + i]

KcpInv == TypeOK /\ Numbered /\ Honest /\ Received /\ NothingForgotten

-----------------------------------------------------------------------------
\* A nonempty set of numbers has a least one.
LEMMA LeastNumber ==
    ASSUME NEW T \in SUBSET Nat, T # {}
    PROVE  \E n \in T : \A m \in T : n <= m
<1>1. \E x \in T : \A y \in T : ~ (<<y, x>> \in OpToRel(<, Nat))
  BY NatLessThanWellFounded, WFMin
<1>2. PICK x \in T : \A y \in T : ~ (<<y, x>> \in OpToRel(<, Nat))
  BY <1>1
<1>3. \A y \in T : ~ (y < x)
  BY <1>2 DEF OpToRel
<1> QED
  BY <1>3

\* A suffix of a sequence, as flush and recv leave it.
LEMMA Suffix ==
    ASSUME NEW S, NEW s \in Seq(S), NEW n \in 0..Len(s)
    PROVE  /\ SubSeq(s, n + 1, Len(s)) \in Seq(S)
           /\ Len(SubSeq(s, n + 1, Len(s))) = Len(s) - n
           /\ \A i \in 1..(Len(s) - n) : SubSeq(s, n + 1, Len(s))[i] = s[n + i]
<1>1. Len(s) \in Nat
  BY LenProperties
<1>2. \A i \in (n + 1)..Len(s) : s[i] \in S
  BY <1>1, ElementOfSeq
<1>3. /\ SubSeq(s, n + 1, Len(s)) \in Seq(S)
      /\ Len(SubSeq(s, n + 1, Len(s))) = IF n + 1 <= Len(s) THEN Len(s) - (n + 1) + 1 ELSE 0
      /\ \A i \in 1..(Len(s) - (n + 1) + 1) : SubSeq(s, n + 1, Len(s))[i] = s[(n + 1) + i - 1]
  BY <1>1, <1>2, n + 1 \in Int, Len(s) \in Int, SubSeqProperties
<1> QED
  BY <1>1, <1>3

\* A prefix of a sequence, as recv takes it.
LEMMA Prefix ==
    ASSUME NEW S, NEW s \in Seq(S), NEW n \in 0..Len(s)
    PROVE  /\ SubSeq(s, 1, n) \in Seq(S)
           /\ Len(SubSeq(s, 1, n)) = n
           /\ \A i \in 1..n : SubSeq(s, 1, n)[i] = s[i]
<1>1. Len(s) \in Nat
  BY LenProperties
<1>2. \A i \in 1..n : s[i] \in S
  BY <1>1, ElementOfSeq
<1>3. /\ SubSeq(s, 1, n) \in Seq(S)
      /\ Len(SubSeq(s, 1, n)) = IF 1 <= n THEN n - 1 + 1 ELSE 0
      /\ \A i \in 1..(n - 1 + 1) : SubSeq(s, 1, n)[i] = s[1 + i - 1]
  BY <1>1, <1>2, n \in Int, SubSeqProperties
<1> QED
  BY <1>1, <1>3

\* The fragments of a message are a sequence of units.
LEMMA MessageUnits ==
    ASSUME TypeOK, NEW k \in Sizes
    PROVE  Message(k) \in Seq(Unit) /\ Len(Message(k)) = k /\ k \in Nat
<1>1. k \in 1..255
  BY KcpAssumption
<1>2. Len(stream) \in Nat
  BY LenProperties DEF TypeOK
<1>3. \A i \in 1..k : [msg |-> Len(stream), frg |-> k - i] \in Unit
  BY <1>1, <1>2 DEF Unit
<1>4. Message(k) \in [1..k -> Unit]
  BY <1>3 DEF Message
<1> QED
  BY <1>1, <1>4, SeqDef

\* flush never moves more than the queue holds.
LEMMA RoomBound ==
    ASSUME TypeOK
    PROVE  Room \in 0..Len(sndQueue) /\ Len(sndQueue) \in Nat
<1>1. Len(sndQueue) \in Nat
  BY LenProperties DEF TypeOK
<1> QED
  BY <1>1, KcpAssumption DEF TypeOK, Room, SendWindow, Lesser

LEMMA KcpInit == Init => KcpInv
<1> SUFFICES ASSUME Init PROVE KcpInv
  OBVIOUS
<1>1. <<>> \in Seq(Unit) /\ Len(<<>>) = 0
  BY EmptySeq
<1>2. TypeOK
  <2>1. probing \in BOOLEAN /\ dead \in BOOLEAN /\ winsDue \in BOOLEAN /\ recover \in BOOLEAN
    BY Zenon DEF Init, Started
  <2> QED
    BY <1>1, <2>1, KcpAssumption DEF Init, Started, TypeOK
<1> QED
  BY <1>1, <1>2
     DEF Init, Started, KcpInv, Numbered, Honest, Received, NothingForgotten, Sns

\* Writing appends the same fragments to the stream and to the queue.
LEMMA WriteStep ==
    ASSUME KcpInv, NEW k \in Sizes, Write(k)
    PROVE  KcpInv'
<1> DEFINE m == Message(k)
<1>1. /\ m \in Seq(Unit) /\ Len(m) = k /\ k \in Nat
  BY MessageUnits DEF KcpInv
<1>2. /\ stream \in Seq(Unit) /\ sndQueue \in Seq(Unit)
      /\ Len(stream) \in Nat /\ Len(sndQueue) \in Nat
  BY LenProperties DEF KcpInv, TypeOK
<1> HIDE DEF m
<1>3. /\ stream \o m \in Seq(Unit) /\ sndQueue \o m \in Seq(Unit)
      /\ Len(stream \o m) = Len(stream) + k /\ Len(sndQueue \o m) = Len(sndQueue) + k
      /\ \A i \in 1..Len(stream) + k : (stream \o m)[i] =
             IF i <= Len(stream) THEN stream[i] ELSE m[i - Len(stream)]
      /\ \A i \in 1..Len(sndQueue) + k : (sndQueue \o m)[i] =
             IF i <= Len(sndQueue) THEN sndQueue[i] ELSE m[i - Len(sndQueue)]
  BY Zenon, <1>1, <1>2, ConcatProperties
<1>4. /\ stream' = stream \o m /\ sndQueue' = sndQueue \o m
      /\ sndNxt' = sndNxt /\ sndBuf' = sndBuf /\ rcvBuf' = rcvBuf /\ net' = net
      /\ rcvNxt' = rcvNxt /\ acklist' = acklist /\ got' = got /\ rcvQueue' = rcvQueue
  BY DEF Write, m, rcvVars
<1>5. TypeOK'
  <2>1. /\ UNCHANGED <<probing, dead, winsDue, recover>>
        /\ UNCHANGED <<sndUna, cwnd, rmtWnd, rpc, pending>>
    BY DEF Write, rcvVars
  <2>2. (probing \in BOOLEAN /\ dead \in BOOLEAN /\ winsDue \in BOOLEAN /\ recover \in BOOLEAN)'
    BY <2>1 DEF KcpInv, TypeOK
  <2> QED
    BY <1>3, <1>4, <2>1, <2>2 DEF KcpInv, TypeOK
<1>6. Numbered'
  <2>1. \A i \in 1..Len(stream) : stream'[i] = stream[i]
    BY <1>1, <1>2, <1>3, <1>4
  <2>2. \A n \in Nat : n < sndNxt => stream'[n + 1] = stream[n + 1]
    BY <2>1, <1>2 DEF KcpInv, TypeOK, Numbered
  <2>a. sndNxt \in Nat /\ Len(stream) = sndNxt + Len(sndQueue)
        /\ \A i \in 1..Len(sndQueue) : sndQueue[i] = stream[sndNxt + i]
    BY DEF KcpInv, TypeOK, Numbered
  <2>3. Len(stream') = sndNxt' + Len(sndQueue')
    <3>1. Len(stream') = Len(stream) + k /\ Len(sndQueue') = Len(sndQueue) + k
      BY ONLY <1>3, <1>4
    <3> QED
      BY ONLY <3>1, <1>1, <1>2, <1>4, <2>a
  <2>4. \A i \in 1..Len(sndQueue') : sndQueue'[i] = stream'[sndNxt' + i]
    BY ONLY <1>1, <1>2, <1>3, <1>4, <2>a
  <2>5. \A s \in sndBuf' : Copies(s)'
    BY <2>2, <1>4 DEF KcpInv, TypeOK, Numbered, Copies
  <2>6. \A s \in rcvBuf' : Copies(s)'
    BY <2>2, <1>4 DEF KcpInv, TypeOK, Numbered, Copies
  <2>7. \A p \in net' : p.type = "push" => Copies(p)'
    BY Zenon, <2>2, <1>4 DEF KcpInv, TypeOK, Numbered, Copies, Packet
  <2> QED
    BY <2>3, <2>4, <2>5, <2>6, <2>7 DEF Numbered
<1>7. Received'
  <2>1. /\ got \in Seq(Unit) /\ rcvQueue \in Seq(Unit)
        /\ Len(got) \in Nat /\ Len(rcvQueue) \in Nat
    BY LenProperties DEF KcpInv, TypeOK
  <2>2. rcvNxt <= sndNxt /\ Len(got) + Len(rcvQueue) = rcvNxt /\ sndNxt <= Len(stream)
    BY <1>2 DEF KcpInv, TypeOK, Received, Numbered
  <2>3. \A i \in 1..Len(stream) : stream'[i] = stream[i]
    BY <1>1, <1>2, <1>3, <1>4
  <2>4. \A i \in 1..Len(got) : got[i] = stream'[i]
    BY <1>2, <2>1, <2>2, <2>3 DEF KcpInv, TypeOK, Received
  <2>5. \A i \in 1..Len(rcvQueue) : rcvQueue[i] = stream'[Len(got) + i]
    BY <1>2, <2>1, <2>2, <2>3 DEF KcpInv, TypeOK, Received
  <2> QED
    BY <1>4, <2>2, <2>4, <2>5 DEF Received
<1>8. Honest' /\ NothingForgotten'
  BY <1>4 DEF KcpInv, Honest, NothingForgotten, Arrived, Sns
<1> QED
  BY <1>5, <1>6, <1>7, <1>8 DEF KcpInv

\* What flush sends for the first time is the front of the queue, numbered on
\* from snd_nxt.
LEMMA FreshSegments ==
    ASSUME KcpInv
    PROVE  /\ Fresh \subseteq [sn : Nat, unit : Unit, xmit : Nat]
           /\ \A s \in Fresh : s.sn < sndNxt + Room /\ s.unit = stream[s.sn + 1]
           /\ \A n \in sndNxt..(sndNxt + Room - 1) : n \in Sns(Fresh)
<1> DEFINE seg(i) == [sn |-> sndNxt + i - 1, unit |-> sndQueue[i], xmit |-> 1]
<1>1. Room \in 0..Len(sndQueue) /\ Len(sndQueue) \in Nat /\ sndNxt \in Nat
  BY RoomBound DEF KcpInv, TypeOK
<1>2. \A i \in 1..Room : sndQueue[i] \in Unit /\ sndQueue[i] = stream[sndNxt + i]
  BY <1>1, ElementOfSeq DEF KcpInv, TypeOK, Numbered
<1>3. Fresh = {seg(i) : i \in 1..Room}
  BY DEF Fresh
<1> HIDE DEF Room, Fresh, KcpInv
<1>4. \A i \in 1..Room :
          /\ seg(i) \in [sn : Nat, unit : Unit, xmit : Nat]
          /\ seg(i).sn = sndNxt + i - 1
          /\ seg(i).sn < sndNxt + Room
          /\ seg(i).unit = stream[seg(i).sn + 1]
  BY <1>1, <1>2
<1>5. ASSUME NEW n \in sndNxt..(sndNxt + Room - 1)
      PROVE  n \in Sns(Fresh)
  <2>1. n - sndNxt + 1 \in 1..Room
    BY <1>1
  <2>2. seg(n - sndNxt + 1).sn = n
    BY <1>1, <2>1
  <2> QED
    BY <1>3, <2>1, <2>2 DEF Sns
<1> HIDE DEF seg
<1> QED
  BY <1>3, <1>4, <1>5

\* What flush sends again it already kept, under the same number.
LEMMA AgainSegments ==
    ASSUME KcpInv, NEW due
    PROVE  /\ Again(due) \subseteq [sn : Nat, unit : Unit, xmit : Nat]
           /\ \A s \in Again(due) : Copies(s)
           /\ \A t \in sndBuf : t.sn \in due => t.sn \in Sns(Again(due))
<1> DEFINE copy(s) == [s EXCEPT !.xmit = @ + 1]
<1>1. \A s \in sndBuf : /\ s \in [sn : Nat, unit : Unit, xmit : Nat] /\ Copies(s)
  BY DEF KcpInv, TypeOK, Numbered
<1>2. \A s \in sndBuf : /\ copy(s) \in [sn : Nat, unit : Unit, xmit : Nat]
                        /\ copy(s).sn = s.sn /\ copy(s).unit = s.unit
  BY <1>1
<1>3. Again(due) = {copy(s) : s \in {t \in sndBuf : t.sn \in due}}
  BY DEF Again
<1> HIDE DEF copy
<1> QED
  BY <1>1, <1>2, <1>3 DEF Copies, Sns

\* A tick of the sender numbers the front of the queue and sends copies.
LEMMA SenderTickStep ==
    ASSUME KcpInv, NEW due, NEW fire \in BOOLEAN, SenderTick(due, fire)
    PROVE  KcpInv'
<1> DEFINE kept == {s \in sndBuf : s.sn \notin due}
<1>1. Room \in 0..Len(sndQueue) /\ Len(sndQueue) \in Nat /\ sndNxt \in Nat
      /\ sndQueue \in Seq(Unit)
  BY RoomBound DEF KcpInv, TypeOK
<1>a. /\ sndQueue' = SubSeq(sndQueue, Room + 1, Len(sndQueue))
      /\ sndBuf' = kept \cup Again(due) \cup Fresh
  BY DEF SenderTick
<1>2. /\ sndNxt' = sndNxt + Room
      /\ stream' = stream /\ rcvBuf' = rcvBuf /\ rcvNxt' = rcvNxt
      /\ acklist' = acklist /\ got' = got /\ rcvQueue' = rcvQueue
  BY DEF SenderTick, rcvVars
<1>3. net' \subseteq net \cup SenderOut(due, fire)
  BY DEF SenderTick, Sent
<1> HIDE DEF Room, Fresh, kept
<1>4. /\ sndQueue' \in Seq(Unit)
      /\ Len(sndQueue') = Len(sndQueue) - Room
      /\ \A i \in 1..(Len(sndQueue) - Room) : sndQueue'[i] = sndQueue[Room + i]
  BY <1>1, <1>a, Suffix
<1>5. /\ Again(due) \cup Fresh \subseteq [sn : Nat, unit : Unit, xmit : Nat]
      /\ \A s \in Again(due) \cup Fresh : s.sn < sndNxt + Room /\ s.unit = stream[s.sn + 1]
  BY <1>1, FreshSegments, AgainSegments DEF Copies
<1>6. \A p \in SenderOut(due, fire) :
          /\ p \in Packet
          /\ p.type \in {"push", "wask"}
          /\ p.type = "push" => p.sn < sndNxt + Room /\ p.unit = stream[p.sn + 1]
  <2>1. \A s \in Again(due) \cup Fresh : /\ Push(s) \in Packet /\ Push(s).type = "push"
                                         /\ Push(s).sn = s.sn /\ Push(s).unit = s.unit
    BY <1>5 DEF Push, Packet
  <2>2. [type |-> "wask"] \in Packet /\ [type |-> "wask"].type = "wask"
    BY DEF Packet
  <2> QED
    BY <1>5, <2>1, <2>2 DEF SenderOut
<1>7. kept \subseteq sndBuf /\ \A s \in sndBuf : s.sn \in due \/ s \in kept
  BY DEF kept
<1>8. TypeOK'
  <2>1. (probing \in BOOLEAN /\ dead \in BOOLEAN /\ winsDue \in BOOLEAN /\ recover \in BOOLEAN)'
    BY DEF SenderTick, rcvVars, KcpInv, TypeOK, Probing
  <2>2. cwnd' \in Nat /\ UNCHANGED <<sndUna, rmtWnd>> /\ UNCHANGED <<rpc, pending>>
    BY DEF SenderTick, rcvVars, KcpInv, TypeOK
  <2>3. net' \subseteq Packet
    BY <1>3, <1>6 DEF KcpInv, TypeOK
  <2>4. sndBuf' \subseteq [sn : Nat, unit : Unit, xmit : Nat]
    BY <1>a, <1>5, <1>7 DEF KcpInv, TypeOK
  <2>5. sndQueue' \in Seq(Unit) /\ sndNxt' \in Nat
    BY <1>1, <1>2, <1>4
  <2> QED
    BY <1>2, <2>5, <2>1, <2>2, <2>3, <2>4 DEF KcpInv, TypeOK
<1>9. Numbered'
  <2>1. \A s : Copies(s) => s.sn < sndNxt
    BY DEF Copies
  <2>2. Len(stream') = sndNxt' + Len(sndQueue')
    <3>1. Len(stream) = sndNxt + Len(sndQueue)
      BY DEF KcpInv, Numbered
    <3> QED
      BY ONLY <1>1, <1>2, <1>4, <3>1
  <2>3. \A i \in 1..Len(sndQueue') : sndQueue'[i] = stream'[sndNxt' + i]
    <3>1. \A i \in 1..Len(sndQueue) : sndQueue[i] = stream[sndNxt + i]
      BY DEF KcpInv, Numbered
    <3> QED
      BY ONLY <1>1, <1>2, <1>4, <3>1
  <2>4. ASSUME NEW s \in sndBuf' PROVE Copies(s)'
    <3>1. CASE s \in sndBuf
      BY <1>1, <1>2, <3>1 DEF KcpInv, TypeOK, Numbered, Copies
    <3>2. CASE s \in Again(due) \cup Fresh
      BY <1>2, <1>5, <3>2 DEF Copies
    <3> QED
      BY <1>a, <1>7, <3>1, <3>2
  <2>5. \A s \in rcvBuf' : Copies(s)'
    BY <1>1, <1>2 DEF KcpInv, TypeOK, Numbered, Copies
  <2>6. ASSUME NEW p \in net', p.type = "push" PROVE Copies(p)'
    <3>1. CASE p \in net
      <4>1. p.sn < sndNxt /\ p.unit = stream[p.sn + 1] /\ p.sn \in Nat
        BY <2>6, <3>1 DEF KcpInv, TypeOK, Packet, Numbered, Copies
      <4> QED
        BY <1>1, <1>2, <4>1 DEF Copies
    <3>2. CASE p \in SenderOut(due, fire)
      BY <1>2, <1>6, <2>6, <3>2 DEF Copies
    <3> QED
      BY <1>3, <3>1, <3>2
  <2> QED
    BY <2>2, <2>3, <2>4, <2>5, <2>6 DEF Numbered
<1>10. Honest'
  BY <1>2, <1>3, <1>6 DEF KcpInv, Honest, Arrived, Sns
<1>11. Received'
  <2>1. rcvNxt \in Nat /\ rcvNxt <= sndNxt
    BY DEF KcpInv, TypeOK, Received
  <2>2. rcvNxt' <= sndNxt'
    BY <1>1, <1>2, <2>1
  <2> QED
    BY <1>2, <2>2 DEF KcpInv, Received
<1>12. NothingForgotten'
  <2> SUFFICES ASSUME NEW n \in 0..(sndNxt' - 1)
               PROVE  (n \in Sns(sndBuf) \/ n < rcvNxt \/ n \in Sns(rcvBuf))'
    BY DEF NothingForgotten
  <2>b. Sns(sndBuf)' = Sns(sndBuf') /\ Sns(rcvBuf)' = Sns(rcvBuf)
    BY <1>2 DEF Sns
  <2>a. n \in 0..(sndNxt + Room - 1)
    <3>1. sndNxt' = sndNxt + Room
      BY <1>2
    <3> QED
      BY ONLY <3>1, <1>1, n \in 0..(sndNxt' - 1)
  <2>1. CASE n < sndNxt
    <3>1. n \in Sns(sndBuf) \/ n < rcvNxt \/ n \in Sns(rcvBuf)
      BY <1>1, <2>1, <2>a DEF KcpInv, NothingForgotten
    <3>2. ASSUME n \in Sns(sndBuf) PROVE n \in Sns(sndBuf')
      <4>1. PICK t \in sndBuf : t.sn = n
        BY <3>2 DEF Sns
      <4> QED
        BY <1>a, <1>7, <4>1, AgainSegments DEF Sns
    <3> QED
      BY <1>2, <2>b, <3>1, <3>2
  <2>2. CASE n >= sndNxt
    BY <1>1, <1>a, <2>a, <2>b, <2>2, FreshSegments DEF Sns
  <2> QED
    BY <1>1, <2>a, <2>1, <2>2
<1> QED
  BY <1>8, <1>9, <1>10, <1>11, <1>12 DEF KcpInv

\* An acknowledgement removes from snd_buf only what has arrived.
LEMMA SenderInputStep ==
    ASSUME KcpInv, NEW p \in net, SenderInput(p)
    PROVE  KcpInv'
<1>1. /\ stream' = stream /\ sndQueue' = sndQueue /\ sndNxt' = sndNxt
      /\ rcvBuf' = rcvBuf /\ rcvNxt' = rcvNxt /\ acklist' = acklist
      /\ got' = got /\ rcvQueue' = rcvQueue
  BY DEF SenderInput, rcvVars
<1>2. net' \subseteq net
  BY DEF SenderInput, Taken
<1>3. sndBuf' = Acked(p) /\ p.type \in {"ack", "wins"}
  BY DEF SenderInput
<1>4. p \in Packet /\ p.una \in Nat /\ p.wnd \in Nat /\ (p.type = "ack" => p.sn \in Nat)
  BY <1>3 DEF KcpInv, TypeOK, Packet
<1>5. sndBuf' \subseteq sndBuf
  BY <1>3 DEF Acked
<1>6. TypeOK'
  <2>1. (probing \in BOOLEAN /\ dead \in BOOLEAN /\ winsDue \in BOOLEAN /\ recover \in BOOLEAN)'
    BY DEF SenderInput, rcvVars, KcpInv, TypeOK
  <2>2. UNCHANGED <<rpc, pending>> /\ cwnd' \in Nat /\ rmtWnd' \in Nat
    BY <1>4 DEF SenderInput, rcvVars, KcpInv, TypeOK
  <2>3. sndUna' \in Nat
    <3>1. \A s \in sndBuf' : s.sn \in Nat
      BY <1>5 DEF KcpInv, TypeOK
    <3>2. sndUna' = Una(sndBuf') /\ sndNxt \in Nat
      BY DEF SenderInput, KcpInv, TypeOK
    <3>3. CASE sndBuf' = {}
      BY <3>2, <3>3 DEF Una
    <3>4. CASE sndBuf' # {}
      <4>1. Sns(sndBuf') \subseteq Nat /\ Sns(sndBuf') # {}
        BY <3>1, <3>4 DEF Sns
      <4>2. \E n \in Sns(sndBuf') : \A m \in Sns(sndBuf') : n <= m
        BY <4>1, LeastNumber
      <4> QED
        BY <3>2, <3>4, <4>1, <4>2 DEF Una
    <3> QED
      BY <3>3, <3>4
  <2> QED
    BY <1>1, <1>2, <1>5, <2>1, <2>2, <2>3 DEF KcpInv, TypeOK
<1>7. Numbered'
  BY <1>1, <1>2, <1>5 DEF KcpInv, Numbered, Copies
<1>8. Honest'
  BY <1>1, <1>2 DEF KcpInv, Honest, Arrived, Sns
<1>9. Received'
  BY <1>1 DEF KcpInv, Received
<1>10. NothingForgotten'
  <2>1. ASSUME NEW t \in sndBuf, t \notin sndBuf'
        PROVE  t.sn < rcvNxt \/ t.sn \in Sns(rcvBuf)
    <3>1. t.sn \in Nat /\ rcvNxt \in Nat /\ p.una <= rcvNxt
      BY <1>3 DEF KcpInv, TypeOK, Honest
    <3>2. t.sn < p.una \/ (p.type = "ack" /\ t.sn = p.sn)
      BY <1>3, <1>4, <2>1, <3>1 DEF Acked
    <3>3. CASE t.sn < p.una
      BY <1>4, <3>1, <3>3
    <3>4. CASE p.type = "ack" /\ t.sn = p.sn
      BY <3>4 DEF KcpInv, Honest, Arrived
    <3> QED
      BY <3>2, <3>3, <3>4
  <2>2. \A n \in Sns(sndBuf) : n \in Sns(sndBuf') \/ n < rcvNxt \/ n \in Sns(rcvBuf)
    BY <2>1 DEF Sns
  <2>3. Sns(sndBuf)' = Sns(sndBuf') /\ Sns(rcvBuf)' = Sns(rcvBuf)
    BY <1>1 DEF Sns
  <2> QED
    BY <1>1, <2>2, <2>3 DEF KcpInv, NothingForgotten
<1> QED
  BY <1>6, <1>7, <1>8, <1>9, <1>10 DEF KcpInv

\* The receiver's announcements are true, and stay true while they travel.
LEMMA ReceiverTickStep ==
    ASSUME KcpInv, ReceiverTick
    PROVE  KcpInv'
<1>1. /\ stream' = stream /\ sndQueue' = sndQueue /\ sndNxt' = sndNxt /\ sndBuf' = sndBuf
      /\ rcvBuf' = rcvBuf /\ rcvNxt' = rcvNxt /\ acklist' = {}
      /\ got' = got /\ rcvQueue' = rcvQueue
  BY DEF ReceiverTick, sndVars
<1>2. net' \subseteq net \cup ReceiverOut
  BY DEF ReceiverTick, Sent
<1>3. rcvNxt \in Nat /\ WndUnused \in Nat
  <2>1. Len(rcvQueue) \in Nat /\ RcvWnd \in Nat
    BY LenProperties, KcpAssumption DEF KcpInv, TypeOK
  <2> QED
    BY <2>1 DEF KcpInv, TypeOK, WndUnused
<1>4. \A p \in ReceiverOut :
          /\ p \in Packet
          /\ p.type \in {"ack", "wins"} /\ p.una = rcvNxt
          /\ p.type = "ack" => p.sn \in acklist
  <2> HIDE DEF WndUnused
  <2>1. \A n \in acklist : n \in Nat
    BY DEF KcpInv, TypeOK
  <2> QED
    BY <1>3, <2>1 DEF ReceiverOut, Packet
<1>5. TypeOK'
  <2>1. (probing \in BOOLEAN /\ dead \in BOOLEAN /\ winsDue \in BOOLEAN /\ recover \in BOOLEAN)'
    BY DEF ReceiverTick, sndVars, KcpInv, TypeOK
  <2>2. UNCHANGED <<pending, cwnd, rmtWnd, sndUna>> /\ rpc' = "drain"
    BY DEF ReceiverTick, sndVars
  <2> QED
    BY <1>1, <1>2, <1>4, <2>1, <2>2 DEF KcpInv, TypeOK
<1>6. Numbered'
  BY <1>1, <1>2, <1>4 DEF KcpInv, Numbered, Copies
<1>7. Honest'
  <2>1. ASSUME NEW p \in net'
        PROVE  /\ p.type = "ack" => Arrived(p.sn)
               /\ p.type \in {"ack", "wins"} => p.una <= rcvNxt
    <3>1. CASE p \in net
      BY <3>1 DEF KcpInv, Honest
    <3>2. CASE p \in ReceiverOut
      BY <1>3, <1>4, <3>2 DEF KcpInv, Honest
    <3> QED
      BY <1>2, <3>1, <3>2
  <2> QED
    BY <1>1, <2>1 DEF Honest, Arrived, Sns
<1>8. Received' /\ NothingForgotten'
  BY <1>1 DEF KcpInv, Received, NothingForgotten, Sns
<1> QED
  BY <1>5, <1>6, <1>7, <1>8 DEF KcpInv

\* A data segment is stored where its number says, once.
LEMMA ReceiverInputStep ==
    ASSUME KcpInv, NEW p \in net, ReceiverInput(p)
    PROVE  KcpInv'
<1> DEFINE seg == [sn |-> p.sn, unit |-> p.unit]
<1>1. /\ stream' = stream /\ sndQueue' = sndQueue /\ sndNxt' = sndNxt /\ sndBuf' = sndBuf
      /\ rcvNxt' = rcvNxt /\ got' = got /\ rcvQueue' = rcvQueue
  BY DEF ReceiverInput, sndVars
<1>2. net' \subseteq net
  BY DEF ReceiverInput, Taken
<1>3. /\ p.type = "push" /\ p.sn \in Nat /\ p.unit \in Unit
      /\ Copies(p)
  BY DEF ReceiverInput, KcpInv, TypeOK, Packet, Numbered
<1>4. /\ rcvBuf \subseteq rcvBuf' /\ rcvBuf' \subseteq rcvBuf \cup {seg}
      /\ Stored(p) => seg \in rcvBuf'
  BY DEF ReceiverInput
<1>5. acklist' \subseteq acklist \cup {p.sn} /\ (~ InWindow(p.sn) => acklist' = acklist)
  BY DEF ReceiverInput
<1>6. seg \in [sn : Nat, unit : Unit] /\ seg.sn = p.sn /\ seg.unit = p.unit
  BY <1>3
<1> HIDE DEF seg
<1>7. rcvNxt \in Nat
  BY DEF KcpInv, TypeOK
<1>8. TypeOK'
  <2>1. (probing \in BOOLEAN /\ dead \in BOOLEAN /\ winsDue \in BOOLEAN /\ recover \in BOOLEAN)'
    BY DEF ReceiverInput, sndVars, KcpInv, TypeOK
  <2>2. UNCHANGED <<pending, cwnd, rmtWnd, sndUna>> /\ rpc' \in {"move", "drain"}
    BY DEF ReceiverInput, sndVars
  <2> QED
    BY <1>1, <1>2, <1>3, <1>4, <1>5, <1>6, <2>1, <2>2 DEF KcpInv, TypeOK
<1>9. Numbered'
  BY <1>1, <1>2, <1>3, <1>4, <1>6 DEF KcpInv, Numbered, Copies
<1>10. \A n \in Sns(rcvBuf) : n \in Sns(rcvBuf')
  BY <1>4 DEF Sns
<1>11. InWindow(p.sn) => p.sn < rcvNxt \/ p.sn \in Sns(rcvBuf')
  BY <1>3, <1>4, <1>6, <1>7 DEF Stored, Sns
<1>12. Sns(rcvBuf)' = Sns(rcvBuf') /\ Sns(sndBuf)' = Sns(sndBuf)
  BY <1>1 DEF Sns
<1>13. Honest'
  BY <1>1, <1>2, <1>5, <1>10, <1>11, <1>12 DEF KcpInv, Honest, Arrived
<1>14. Received'
  BY <1>1 DEF KcpInv, Received
<1>15. NothingForgotten'
  BY <1>1, <1>10, <1>12 DEF KcpInv, NothingForgotten
<1> QED
  BY <1>8, <1>9, <1>13, <1>14, <1>15 DEF KcpInv

\* The segment move_rcv_buf queues is the next of the stream.
LEMMA MoveStep ==
    ASSUME KcpInv, Move
    PROVE  KcpInv'
<1>1. PICK s \in rcvBuf : /\ Movable(s)
                          /\ rcvBuf' = rcvBuf \ {s}
                          /\ rcvQueue' = Append(rcvQueue, s.unit)
  BY DEF Move
<1>2. /\ stream' = stream /\ sndQueue' = sndQueue /\ sndNxt' = sndNxt /\ sndBuf' = sndBuf
      /\ net' = net /\ got' = got /\ acklist' = acklist /\ rcvNxt' = rcvNxt + 1
  BY DEF Move, sndVars
<1>3. /\ s.sn = rcvNxt /\ s.unit \in Unit /\ rcvNxt \in Nat /\ sndNxt \in Nat
      /\ rcvNxt < sndNxt /\ s.unit = stream[rcvNxt + 1]
  BY Zenon, <1>1 DEF KcpInv, TypeOK, Numbered, Copies, Movable
<1>4. /\ rcvQueue \in Seq(Unit) /\ Len(rcvQueue) \in Nat /\ Len(got) \in Nat
      /\ Len(got) + Len(rcvQueue) = rcvNxt
      /\ \A i \in 1..Len(rcvQueue) : rcvQueue[i] = stream[Len(got) + i]
  BY LenProperties DEF KcpInv, TypeOK, Received
<1>5. /\ rcvQueue' \in Seq(Unit) /\ Len(rcvQueue') = Len(rcvQueue) + 1
      /\ \A i \in 1..Len(rcvQueue) : rcvQueue'[i] = rcvQueue[i]
      /\ rcvQueue'[Len(rcvQueue) + 1] = s.unit
  BY <1>1, <1>3, <1>4, AppendProperties
<1>6. TypeOK'
  <2>1. (probing \in BOOLEAN /\ dead \in BOOLEAN /\ winsDue \in BOOLEAN /\ recover \in BOOLEAN)'
    BY DEF Move, sndVars, KcpInv, TypeOK
  <2>2. UNCHANGED <<pending, cwnd, rmtWnd, sndUna, rpc>>
    BY DEF Move, sndVars
  <2>3. rcvBuf' \subseteq rcvBuf /\ rcvNxt' \in Nat
    BY <1>1, <1>2, <1>3
  <2> QED
    BY <1>2, <1>5, <2>1, <2>2, <2>3 DEF KcpInv, TypeOK
<1>7. Numbered'
  BY <1>1, <1>2 DEF KcpInv, Numbered, Copies
<1>8. ASSUME NEW n \in Nat, Arrived(n) PROVE n < rcvNxt + 1 \/ n \in Sns(rcvBuf')
  <2>1. CASE n < rcvNxt
    BY <1>3, <2>1
  <2>2. CASE n \in Sns(rcvBuf)
    <3>1. PICK t \in rcvBuf : t.sn = n
      BY <2>2 DEF Sns
    <3>2. CASE t = s
      BY <1>3, <3>1, <3>2
    <3>3. CASE t # s
      BY <1>1, <3>1, <3>3 DEF Sns
    <3> QED
      BY <3>2, <3>3
  <2> QED
    BY <1>8, <2>1, <2>2 DEF Arrived
<1>9. Sns(rcvBuf)' = Sns(rcvBuf') /\ Sns(sndBuf)' = Sns(sndBuf)
  BY <1>2 DEF Sns
<1>10. Honest'
  <2>1. \A n \in acklist : n \in Nat /\ Arrived(n)
    BY DEF KcpInv, TypeOK, Honest
  <2>2. \A p \in net : p.type = "ack" => p.sn \in Nat /\ Arrived(p.sn)
    BY SMTT(30) DEF KcpInv, TypeOK, Packet, Honest
  <2>3. \A p \in net : p.type \in {"ack", "wins"} => p.una \in Nat /\ p.una <= rcvNxt
    BY SMTT(30) DEF KcpInv, TypeOK, Packet, Honest
  <2>4. \A p \in net : p.type \in {"ack", "wins"} => p.una <= rcvNxt + 1
    BY <1>3, <2>3
  <2>5. \A n \in Nat : Arrived(n) => Arrived(n)'
    BY <1>2, <1>8, <1>9 DEF Arrived
  <2> QED
    BY <1>2, <2>1, <2>2, <2>4, <2>5 DEF Honest
<1>11. Received'
  <2>1. rcvNxt + 1 <= sndNxt /\ Len(got) + Len(rcvQueue') = rcvNxt + 1
    BY ONLY <1>3, <1>4, <1>5
  <2>2. ASSUME NEW i \in 1..Len(rcvQueue') PROVE rcvQueue'[i] = stream[Len(got) + i]
    <3>1. i \in 1..Len(rcvQueue) \/ i = Len(rcvQueue) + 1
      BY ONLY <1>4, <1>5, <2>2
    <3>2. CASE i \in 1..Len(rcvQueue)
      BY <1>4, <1>5, <3>2
    <3>3. CASE i = Len(rcvQueue) + 1
      <4>1. Len(got) + i = rcvNxt + 1
        BY ONLY <1>4, <3>3
      <4> QED
        BY <1>3, <1>5, <3>3, <4>1
    <3> QED
      BY <3>1, <3>2, <3>3
  <2> QED
    BY <1>2, <2>1, <2>2 DEF KcpInv, Received
<1>12. NothingForgotten'
  <2>1. \A n \in 0..(sndNxt - 1) : n \in Nat /\ (n \in Sns(sndBuf) \/ Arrived(n))
    BY <1>3 DEF KcpInv, NothingForgotten, Arrived
  <2> QED
    BY <1>2, <1>8, <1>9, <2>1 DEF NothingForgotten
<1> QED
  BY <1>6, <1>7, <1>10, <1>11, <1>12 DEF KcpInv

\* recv takes the front of the queue.
LEMMA ReceiveStep ==
    ASSUME KcpInv, Receive
    PROVE  KcpInv'
<1>1. PICK n \in 1..Len(rcvQueue) :
          /\ got' = got \o SubSeq(rcvQueue, 1, n)
          /\ rcvQueue' = SubSeq(rcvQueue, n + 1, Len(rcvQueue))
  BY Zenon DEF Receive
<1>2. /\ stream' = stream /\ sndQueue' = sndQueue /\ sndNxt' = sndNxt /\ sndBuf' = sndBuf
      /\ net' = net /\ acklist' = acklist /\ rcvNxt' = rcvNxt /\ rcvBuf' = rcvBuf
  BY DEF Receive, sndVars
<1>3. /\ rcvQueue \in Seq(Unit) /\ got \in Seq(Unit)
      /\ Len(rcvQueue) \in Nat /\ Len(got) \in Nat /\ n \in 0..Len(rcvQueue)
  BY <1>1, LenProperties DEF KcpInv, TypeOK
<1>4. /\ rcvQueue' \in Seq(Unit) /\ Len(rcvQueue') = Len(rcvQueue) - n
      /\ \A i \in 1..(Len(rcvQueue) - n) : rcvQueue'[i] = rcvQueue[n + i]
  BY <1>1, <1>3, Suffix
<1>5. /\ SubSeq(rcvQueue, 1, n) \in Seq(Unit) /\ Len(SubSeq(rcvQueue, 1, n)) = n
      /\ \A i \in 1..n : SubSeq(rcvQueue, 1, n)[i] = rcvQueue[i]
  BY <1>3, Prefix
<1>6. /\ got' \in Seq(Unit) /\ Len(got') = Len(got) + n
      /\ \A i \in 1..(Len(got) + n) :
             got'[i] = IF i <= Len(got) THEN got[i] ELSE rcvQueue[i - Len(got)]
  <2> DEFINE m == SubSeq(rcvQueue, 1, n)
  <2>1. got' = got \o m /\ m \in Seq(Unit) /\ Len(m) = n /\ \A i \in 1..n : m[i] = rcvQueue[i]
    BY <1>1, <1>5
  <2> HIDE DEF m
  <2>2. /\ got \o m \in Seq(Unit) /\ Len(got \o m) = Len(got) + Len(m)
        /\ \A i \in 1..Len(got) + Len(m) :
               (got \o m)[i] = IF i <= Len(got) THEN got[i] ELSE m[i - Len(got)]
    BY Zenon, <1>3, <2>1, ConcatProperties
  <2> QED
    BY <1>3, <2>1, <2>2
<1>7. TypeOK'
  <2>1. (probing \in BOOLEAN /\ dead \in BOOLEAN /\ winsDue \in BOOLEAN /\ recover \in BOOLEAN)'
    BY DEF Receive, sndVars, KcpInv, TypeOK
  <2>2. UNCHANGED <<cwnd, rmtWnd, sndUna>> /\ rpc' = "move"
    BY DEF Receive, sndVars
  <2>3. pending' \in 0..PendingCap
    BY KcpAssumption DEF Receive, PendingRoom, KcpInv, TypeOK
  <2>4. got' \in Seq(Unit) /\ rcvQueue' \in Seq(Unit)
    BY <1>4, <1>6
  <2> QED
    BY <1>2, <2>1, <2>2, <2>3, <2>4 DEF KcpInv, TypeOK
<1>8. Received'
  <2>1. /\ \A i \in 1..Len(got) : got[i] = stream[i]
        /\ \A i \in 1..Len(rcvQueue) : rcvQueue[i] = stream[Len(got) + i]
        /\ Len(got) + Len(rcvQueue) = rcvNxt /\ rcvNxt <= sndNxt
    BY DEF KcpInv, Received
  <2>2. Len(got') + Len(rcvQueue') = rcvNxt'
    BY <1>2, <1>3, <1>4, <1>6, <2>1
  <2>3. \A i \in 1..Len(got') : got'[i] = stream'[i]
    <3>1. ASSUME NEW i \in 1..(Len(got) + n) PROVE got'[i] = stream[i]
      <4>1. CASE i <= Len(got)
        <5>1. i \in 1..Len(got) /\ got'[i] = got[i]
          BY ONLY <1>3, <1>6, <3>1, <4>1
        <5> QED
          BY <2>1, <5>1
      <4>2. CASE i > Len(got)
        <5>1. /\ i - Len(got) \in 1..Len(rcvQueue) /\ Len(got) + (i - Len(got)) = i
              /\ ~ (i <= Len(got))
          BY ONLY <1>3, <3>1, <4>2
        <5>2. got'[i] = rcvQueue[i - Len(got)]
          BY ONLY <1>6, <3>1, <5>1
        <5>3. rcvQueue[i - Len(got)] = stream[Len(got) + (i - Len(got))]
          BY ONLY <2>1, <5>1
        <5> QED
          BY ONLY <5>1, <5>2, <5>3
      <4> QED
        BY <1>3, <4>1, <4>2
    <3> QED
      BY <1>2, <1>6, <3>1
  <2>4. \A i \in 1..Len(rcvQueue') : rcvQueue'[i] = stream'[Len(got') + i]
    BY <1>2, <1>3, <1>4, <1>6, <2>1
  <2> QED
    BY <1>2, <2>1, <2>2, <2>3, <2>4 DEF Received
<1>9. Numbered' /\ Honest' /\ NothingForgotten'
  BY <1>2 DEF KcpInv, Numbered, Copies, Honest, Arrived, NothingForgotten, Sns
<1> QED
  BY <1>7, <1>8, <1>9 DEF KcpInv

\* The other steps of the receiver move no data.
LEMMA ReceiverOtherStep ==
    ASSUME KcpInv,
           MoveDone \/ DrainDone \/ UserRead \/ \E p \in net : ReceiverAsked(p)
    PROVE  KcpInv'
<1>1. /\ stream' = stream /\ sndQueue' = sndQueue /\ sndNxt' = sndNxt /\ sndBuf' = sndBuf
      /\ rcvNxt' = rcvNxt /\ rcvBuf' = rcvBuf /\ acklist' = acklist
      /\ got' = got /\ rcvQueue' = rcvQueue
  BY DEF MoveDone, DrainDone, UserRead, ReceiverAsked, sndVars
<1>2. net' \subseteq net
  BY DEF MoveDone, DrainDone, UserRead, ReceiverAsked, Taken
<1>3. TypeOK'
  <2>1. (probing \in BOOLEAN /\ dead \in BOOLEAN /\ winsDue \in BOOLEAN /\ recover \in BOOLEAN)'
    BY ZenonT(60) DEF MoveDone, DrainDone, UserRead, ReceiverAsked, sndVars, KcpInv, TypeOK
  <2>2. UNCHANGED <<cwnd, rmtWnd, sndUna>> /\ rpc' \in {"idle", "move", "drain"}
    BY DEF MoveDone, DrainDone, UserRead, ReceiverAsked, sndVars, KcpInv, TypeOK
  <2>3. pending' \in 0..PendingCap
    BY KcpAssumption DEF MoveDone, DrainDone, UserRead, ReceiverAsked, KcpInv, TypeOK
  <2> QED
    BY <1>1, <1>2, <2>1, <2>2, <2>3 DEF KcpInv, TypeOK
<1>4. Numbered' /\ Honest' /\ Received' /\ NothingForgotten'
  BY <1>1, <1>2
     DEF KcpInv, Numbered, Copies, Honest, Arrived, Received, NothingForgotten, Sns
<1> QED
  BY <1>3, <1>4 DEF KcpInv

LEMMA KcpInvariant == Spec => []KcpInv
<1>1. KcpInv /\ [Next]_vars => KcpInv'
  <2> SUFFICES ASSUME KcpInv, [Next]_vars PROVE KcpInv'
    OBVIOUS
  <2>1. CASE Sender
    BY <2>1, WriteStep, SenderTickStep, SenderInputStep DEF Sender
  <2>2. CASE Receiver
    BY SMTT(30), <2>2, ReceiverTickStep, ReceiverInputStep, MoveStep, ReceiveStep,
       ReceiverOtherStep
       DEF Receiver
  <2>3. CASE UNCHANGED vars
    <3>1. /\ UNCHANGED <<stream, sndQueue, sndBuf, sndUna, sndNxt, cwnd, rmtWnd, probing, dead>>
          /\ UNCHANGED <<net, rcvNxt, rcvBuf, rcvQueue, acklist, winsDue, recover, rpc>>
          /\ UNCHANGED <<got, pending>>
      BY <2>3 DEF vars, sndVars, rcvVars
    <3>2. TypeOK'
      BY <3>1 DEF KcpInv, TypeOK
    <3> QED
      BY <3>1, <3>2 DEF KcpInv, Numbered, Copies, Honest, Arrived, Received,
                        NothingForgotten, Sns
  <2> QED
    BY <2>1, <2>2, <2>3 DEF Next
<1> QED
  BY <1>1, KcpInit, PTL DEF Spec

\* The queues, buffers and packets of mKCP always have their types, for any
\* windows and message sizes.
THEOREM KcpTypeCorrect == Spec => []TypeOK
<1>1. KcpInv => TypeOK
  BY DEF KcpInv
<1> QED
  BY <1>1, KcpInvariant, PTL

\* recv hands over exactly a prefix of what was written, whatever the network
\* does to the packets and however the windows are configured.
THEOREM KcpInOrder == Spec => []InOrder
<1>1. KcpInv => InOrder
  <2> SUFFICES ASSUME KcpInv PROVE InOrder
    OBVIOUS
  <2>1. /\ Len(got) \in Nat /\ Len(rcvQueue) \in Nat /\ Len(sndQueue) \in Nat
        /\ rcvNxt \in Nat /\ sndNxt \in Nat
    BY LenProperties DEF KcpInv, TypeOK
  <2>2. /\ Len(got) + Len(rcvQueue) = rcvNxt /\ rcvNxt <= sndNxt
        /\ Len(stream) = sndNxt + Len(sndQueue)
    BY DEF KcpInv, Received, Numbered
  <2>3. Len(got) <= Len(stream)
    BY ONLY <2>1, <2>2
  <2> QED
    BY <2>3 DEF KcpInv, Received, InOrder
<1> QED
  BY <1>1, KcpInvariant, PTL

\* The sender gives up a segment only after it has arrived: no delayed ACK or
\* una loses data.
THEOREM KcpNothingForgotten == Spec => []NothingForgotten
<1>1. KcpInv => NothingForgotten
  BY DEF KcpInv
<1> QED
  BY <1>1, KcpInvariant, PTL
=============================================================================
