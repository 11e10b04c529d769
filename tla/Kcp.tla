-------------------------------- MODULE Kcp --------------------------------
(***************************************************************************)
(* The ARQ engine of the mKCP transport (transport/mkcp/kcp.rs) and the     *)
(* driver loops around it (transport/mkcp.rs), for one direction: a sender  *)
(* and a receiver over UDP that loses, duplicates and reorders packets.     *)
(*                                                                         *)
(* The data of a segment is a unit, a fragment of a written message: which  *)
(* message, and how many fragments of it follow (frg).  Time is abstracted: *)
(* at a flush any set of the segments sent before may be due again, and the *)
(* probe timer may have run out.  Of congestion control only the rule is    *)
(* kept by which the window grows by at most one per input and collapses to *)
(* one on a loss.  The fast resend is left out: fastresend is always 0 and  *)
(* its threshold then u32::MAX.                                             *)
(***************************************************************************)
EXTENDS Naturals, Sequences, FiniteSets

CONSTANTS
    Sizes,       \* fragments a written message may have
    MaxUnits,    \* bound: fragments written in all
    NetCap, LaneCap,   \* bounds: packets in flight, in all and in one direction
    SndWnd, RcvWnd, RmtInit,   \* send and receive windows, WND_RCV
    PendingCap,  \* cfg.rcv_wnd as given: set_wndsize ignores a 0, the drain does not
    BufLen,      \* fragments that fit the 65535-byte receive buffer
    DeadLink     \* transmissions of a segment that end the session

ASSUME KcpAssumption ==
    /\ Sizes \subseteq 1..255
    /\ MaxUnits \in Nat /\ NetCap \in Nat /\ LaneCap \in Nat
    /\ SndWnd \in Nat \ {0} /\ RcvWnd \in Nat \ {0} /\ RmtInit \in Nat
    /\ PendingCap \in {0, RcvWnd}
    /\ BufLen \in Nat \ {0} /\ DeadLink \in Nat \ {0}

VARIABLES
    stream,      \* history: every unit written, in order
    sndQueue, sndBuf, sndUna, sndNxt, cwnd, rmtWnd, probing, dead,
    net,
    rcvNxt, rcvBuf, rcvQueue, acklist, winsDue, recover, rpc,
    got,         \* history: units handed to the stream, in order
    pending      \* messages the user has not taken yet

sndVars == <<sndQueue, sndBuf, sndUna, sndNxt, cwnd, rmtWnd, probing, dead>>
rcvVars == <<rcvNxt, rcvBuf, rcvQueue, acklist, winsDue, recover, rpc, got, pending>>
vars == <<stream, sndVars, net, rcvVars>>

Lesser(x, y) == IF x < y THEN x ELSE y
Sns(buf) == {s.sn : s \in buf}

\* wnd_unused: the receive window less what waits to be read.
WndUnused == IF Len(rcvQueue) < RcvWnd THEN RcvWnd - Len(rcvQueue) ELSE 0

\* Kcp::new on both sides, and what the user wrote before anything else happened.
Started(written) ==
    /\ stream = written /\ sndQueue = written
    /\ sndBuf = {} /\ sndUna = 0 /\ sndNxt = 0
    /\ cwnd = 0 /\ rmtWnd = RmtInit /\ probing = FALSE /\ dead = FALSE
    /\ net = {}
    /\ rcvNxt = 0 /\ rcvBuf = {} /\ rcvQueue = <<>> /\ acklist = {}
    /\ winsDue = FALSE /\ recover = FALSE /\ rpc = "idle"
    /\ got = <<>> /\ pending = 0

Init == Started(<<>>)

-----------------------------------------------------------------------------
\* The fragments of the next message.
Message(k) == [i \in 1..k |-> [msg |-> Len(stream), frg |-> k - i]]

\* The driver receives data from the user and calls send.
Write(k) ==
    /\ ~dead
    /\ Len(stream) + k <= MaxUnits
    /\ stream' = stream \o Message(k)
    /\ sndQueue' = sndQueue \o Message(k)
    /\ UNCHANGED <<sndBuf, sndUna, sndNxt, cwnd, rmtWnd, probing, dead, net, rcvVars>>

\* The window flush may fill: sent but unacknowledged segments included.
SendWindow == Lesser(Lesser(SndWnd, rmtWnd), cwnd)

\* How many queued segments flush moves to snd_buf.
Room == IF sndNxt < sndUna + SendWindow
        THEN Lesser(sndUna + SendWindow - sndNxt, Len(sndQueue)) ELSE 0

\* The segments sent for the first time.
Fresh == {[sn |-> sndNxt + i - 1, unit |-> sndQueue[i], xmit |-> 1] : i \in 1..Room}

Push(s) == [type |-> "push", sn |-> s.sn, unit |-> s.unit]

\* The network has room for these packets.
Lane(packets, types) == {p \in packets : p.type \in types}
Fits(packets) ==
    /\ Cardinality(packets) <= NetCap
    /\ Cardinality(Lane(packets, {"push", "wask"})) <= LaneCap
    /\ Cardinality(Lane(packets, {"ack", "wins"})) <= LaneCap

\* What survives of the packets sent.
Sent(out) == \E K \in SUBSET out : Fits(net \cup K) /\ net' = net \cup K

\* The segments sent again, and every packet of a flush.
Again(due) == {[s EXCEPT !.xmit = @ + 1] : s \in {t \in sndBuf : t.sn \in due}}
SenderOut(due, fire) ==
    {Push(s) : s \in Again(due) \cup Fresh} \cup (IF fire THEN {[type |-> "wask"]} ELSE {})

\* Mutation of Probing: every flush resets the probe timer.
ProbingReset == FALSE

\* The probe timer runs while the peer's window is closed.
Probing == rmtWnd = 0

\* One tick of the sending driver: update, flush with the segments due again
\* and the probe timer, the dead-link test, and the packets on the wire.
SenderTick(due, fire) ==
    /\ ~dead
    /\ fire => rmtWnd = 0 /\ probing
    /\ sndNxt' = sndNxt + Room
    /\ sndQueue' = SubSeq(sndQueue, Room + 1, Len(sndQueue))
    /\ sndBuf' = {s \in sndBuf : s.sn \notin due} \cup Again(due) \cup Fresh
    /\ dead' = \E s \in Again(due) \cup Fresh : s.xmit >= DeadLink
    /\ IF dead' THEN UNCHANGED net ELSE Sent(SenderOut(due, fire))
    /\ probing' = Probing
    /\ cwnd' = IF due # {} \/ cwnd = 0 THEN 1 ELSE cwnd
    /\ UNCHANGED <<stream, sndUna, rmtWnd, rcvVars>>

\* A packet read from the socket; UDP may deliver it again.
Taken(p) == net' = net \/ net' = net \ {p}

\* shrink_buf: the oldest segment not acknowledged.
Una(buf) == IF buf = {} THEN sndNxt
            ELSE CHOOSE n \in Sns(buf) : \A m \in Sns(buf) : n <= m

\* Mutation of Acked: una itself is dropped too.
AckedPast(p) ==
    LET rest == {s \in sndBuf : s.sn > p.una}
    IN  IF p.type = "ack" THEN {s \in rest : s.sn # p.sn} ELSE rest

\* parse_una, and for an ACK parse_ack.
Acked(p) ==
    LET rest == {s \in sndBuf : s.sn >= p.una}
    IN  IF p.type = "ack" THEN {s \in rest : s.sn # p.sn} ELSE rest

\* input of an ACK or WINS segment at the sender.
SenderInput(p) ==
    /\ ~dead
    /\ p.type \in {"ack", "wins"}
    /\ Taken(p)
    /\ rmtWnd' = p.wnd
    /\ sndBuf' = Acked(p)
    /\ sndUna' = Una(sndBuf')
    /\ IF sndUna' > sndUna /\ cwnd < p.wnd THEN cwnd' \in {cwnd, cwnd + 1}
                                           ELSE UNCHANGED cwnd
    /\ UNCHANGED <<stream, sndQueue, sndNxt, probing, dead, rcvVars>>

-----------------------------------------------------------------------------
\* The ACKs and the WINS of a flush.
ReceiverOut ==
    {[type |-> "ack", sn |-> n, una |-> rcvNxt, wnd |-> WndUnused] : n \in acklist}
    \cup (IF winsDue THEN {[type |-> "wins", una |-> rcvNxt, wnd |-> WndUnused]} ELSE {})

\* One tick of the receiving driver: flush, then drain.
ReceiverTick ==
    /\ rpc = "idle"
    /\ Sent(ReceiverOut)
    /\ acklist' = {} /\ winsDue' = FALSE
    /\ rpc' = "drain"
    /\ UNCHANGED <<stream, sndVars, rcvNxt, rcvBuf, rcvQueue, recover, got, pending>>

\* input of a WASK segment.
ReceiverAsked(p) ==
    /\ rpc = "idle" /\ p.type = "wask"
    /\ Taken(p)
    /\ winsDue' = TRUE
    /\ rpc' = "drain"
    /\ UNCHANGED <<stream, sndVars, rcvNxt, rcvBuf, rcvQueue, acklist, recover, got,
                   pending>>

\* input admits a segment below the far edge of the receive window.
InWindow(n) == n < rcvNxt + RcvWnd

\* parse_data: the segment is new and not yet taken in order.
Stored(p) == InWindow(p.sn) /\ p.sn >= rcvNxt /\ p.sn \notin Sns(rcvBuf)

\* input of a PUSH segment: acknowledged when in the window, stored when new.
ReceiverInput(p) ==
    /\ rpc = "idle" /\ p.type = "push"
    /\ Taken(p)
    /\ acklist' = IF InWindow(p.sn) THEN acklist \cup {p.sn} ELSE acklist
    /\ IF Stored(p)
       THEN rcvBuf' = rcvBuf \cup {[sn |-> p.sn, unit |-> p.unit]} /\ rpc' = "move"
       ELSE UNCHANGED rcvBuf /\ rpc' = "drain"
    /\ UNCHANGED <<stream, sndVars, rcvNxt, rcvQueue, winsDue, recover, got, pending>>

\* Mutation of Movable: segments are queued in the order they arrive.
MovableAny(s) == Len(rcvQueue) < RcvWnd

\* Mutation of Movable: the queue has no limit.
MovableFull(s) == s.sn = rcvNxt

\* The segment move_rcv_buf takes next.
Movable(s) == s.sn = rcvNxt /\ Len(rcvQueue) < RcvWnd

\* One round of the loop of move_rcv_buf.
Move ==
    /\ rpc = "move"
    /\ \E s \in rcvBuf :
          /\ Movable(s)
          /\ rcvBuf' = rcvBuf \ {s}
          /\ rcvQueue' = Append(rcvQueue, s.unit)
    /\ rcvNxt' = rcvNxt + 1
    /\ UNCHANGED <<stream, sndVars, net, acklist, winsDue, recover, rpc, got, pending>>

\* The loop ends; recv then announces a window that has opened again.
MoveDone ==
    /\ rpc = "move"
    /\ \A s \in rcvBuf : ~ Movable(s)
    /\ winsDue' = (winsDue \/ (recover /\ Len(rcvQueue) < RcvWnd))
    /\ recover' = FALSE
    /\ rpc' = "drain"
    /\ UNCHANGED <<stream, sndVars, net, rcvNxt, rcvBuf, rcvQueue, acklist, got, pending>>

\* Mutation of Whole: the fragments are counted one short.
WholeShort == rcvQueue # <<>> /\ Len(rcvQueue) >= rcvQueue[1].frg

\* peeksize finds every fragment of the first message in the queue.
Whole == rcvQueue # <<>> /\ Len(rcvQueue) >= rcvQueue[1].frg + 1

\* peeksize: the first segment, or the whole queue when it is a fragment.
PeekSize == IF rcvQueue[1].frg = 0 THEN 1 ELSE Len(rcvQueue)

\* The fragments recv pops: up to the first that ends a message.
Popped(n) ==
    /\ n \in 1..Len(rcvQueue)
    /\ rcvQueue[n].frg = 0 \/ n = Len(rcvQueue)
    /\ \A j \in 1..(n - 1) : rcvQueue[j].frg # 0

\* Mutation of PendingRoom: one message too many is taken.
PendingRoomEdge == pending <= PendingCap

\* drain_kcp_recv_into goes on: pending is below its cap, the configured window.
PendingRoom == pending < PendingCap

\* One round of drain_kcp_recv_into in which recv returns a message.
Receive ==
    /\ rpc = "drain" /\ PendingRoom
    /\ Whole /\ PeekSize <= BufLen
    /\ \E n \in 1..Len(rcvQueue) :
          /\ Popped(n)
          /\ got' = got \o SubSeq(rcvQueue, 1, n)
          /\ rcvQueue' = SubSeq(rcvQueue, n + 1, Len(rcvQueue))
    /\ recover' = (Len(rcvQueue) >= RcvWnd)
    /\ pending' = pending + 1
    /\ rpc' = "move"
    /\ UNCHANGED <<stream, sndVars, net, rcvNxt, rcvBuf, acklist, winsDue>>

\* recv returns -2.
TooSmall == Whole /\ PeekSize > BufLen

\* The drain stops: pending is full, or recv returns -1 or -2.
DrainDone ==
    /\ rpc = "drain"
    /\ ~ PendingRoom \/ ~ Whole \/ TooSmall
    /\ rpc' = "idle"
    /\ UNCHANGED <<stream, sndVars, net, rcvNxt, rcvBuf, rcvQueue, acklist, winsDue,
                   recover, got, pending>>

\* The channel to the user has room and takes the oldest pending message.
UserRead ==
    /\ rpc = "idle" /\ pending > 0
    /\ pending' = pending - 1
    /\ UNCHANGED <<stream, sndVars, net, rcvNxt, rcvBuf, rcvQueue, acklist, winsDue,
                   recover, rpc, got>>

Sender ==
    \/ \E k \in Sizes : Write(k)
    \/ \E due \in SUBSET Sns(sndBuf), fire \in BOOLEAN : SenderTick(due, fire)
    \/ \E p \in net : SenderInput(p)

Receiver ==
    \/ ReceiverTick
    \/ \E p \in net : ReceiverAsked(p) \/ ReceiverInput(p)
    \/ Move \/ MoveDone \/ Receive \/ DrainDone \/ UserRead

Next == Sender \/ Receiver

Spec == Init /\ [][Next]_vars

-----------------------------------------------------------------------------
Unit == [msg : Nat, frg : 0..254]

Packet == [type : {"push"}, sn : Nat, unit : Unit]
          \cup [type : {"ack"}, sn : Nat, una : Nat, wnd : Nat]
          \cup [type : {"wins"}, una : Nat, wnd : Nat]
          \cup [type : {"wask"}]

\* Type invariant: the queues hold units, the buffers numbered units, the
\* network well-formed packets.
TypeOK ==
    /\ stream \in Seq(Unit) /\ sndQueue \in Seq(Unit)
    /\ rcvQueue \in Seq(Unit) /\ got \in Seq(Unit)
    /\ sndBuf \subseteq [sn : Nat, unit : Unit, xmit : Nat]
    /\ rcvBuf \subseteq [sn : Nat, unit : Unit]
    /\ sndUna \in Nat /\ sndNxt \in Nat /\ cwnd \in Nat /\ rmtWnd \in Nat
    /\ rcvNxt \in Nat /\ acklist \subseteq Nat /\ pending \in 0..PendingCap
    /\ probing \in BOOLEAN /\ dead \in BOOLEAN
    /\ winsDue \in BOOLEAN /\ recover \in BOOLEAN
    /\ rpc \in {"idle", "move", "drain"}
    /\ net \subseteq Packet

\* What recv has handed over is what was written, in the order it was written,
\* nothing missing and nothing twice, whatever the network lost, duplicated or
\* reordered.
InOrder ==
    /\ Len(got) <= Len(stream)
    /\ \A i \in 1..Len(got) : got[i] = stream[i]

\* A segment the sender no longer keeps for retransmission has arrived: no
\* stale ACK or una, however late, makes parse_ack or parse_una drop data the
\* receiver still lacks.
NothingForgotten ==
    \A n \in 0..(sndNxt - 1) :
        n \in Sns(sndBuf) \/ n < rcvNxt \/ n \in Sns(rcvBuf)

\* recv hands over whole messages: what has been handed over so far ends with
\* the last fragment of a message.
WholeMessages == got # <<>> => got[Len(got)].frg = 0

\* The receiver's memory is bounded by its window: the reassembled queue by
\* rcv_wnd segments, the out-of-order buffer by the window above rcv_nxt.
WindowBounded ==
    /\ Len(rcvQueue) <= RcvWnd
    /\ \A n \in Sns(rcvBuf) : n >= rcvNxt /\ n < rcvNxt + RcvWnd
    /\ Cardinality(rcvBuf) <= RcvWnd

\* recv reports -2 only for a message its buffer cannot hold, as the comment on
\* recv says; peeksize adds up the whole queue.
TooSmallIsTrue == TooSmall => rcvQueue[1].frg + 1 > BufLen

-----------------------------------------------------------------------------
\* A tick of the sender at which every timer has run out.
LateTick == SenderTick(Sns(sndBuf), rmtWnd = 0 /\ probing)

\* Of the packets of type t in a flush at least one gets through.
Kept(t) ==
    \/ LateTick /\ \E p \in SenderOut(Sns(sndBuf), rmtWnd = 0 /\ probing) :
                      p.type = t /\ p \in net'
    \/ ReceiverTick /\ \E p \in ReceiverOut : p.type = t /\ p \in net'

\* A packet of type t is read for the last time.
Delivered(t) ==
    \E p \in net : /\ p.type = t /\ net' = net \ {p}
                   /\ SenderInput(p) \/ ReceiverAsked(p) \/ ReceiverInput(p)

\* The tickers never stop and every timer runs out; the loops of the receiver
\* run to their end and the user keeps reading.  The network does not lose all
\* the data, all the probes or all the answers to them (all the ACKs it may: the
\* link is then dead), nor holds a kind of packet for ever.
Fairness ==
    /\ WF_vars(LateTick) /\ []<><<ReceiverTick>>_vars
    /\ WF_vars(Move \/ MoveDone \/ Receive \/ DrainDone)
    /\ []<><<pending = 0 \/ UserRead>>_vars
    /\ \A t \in {"push", "wask", "wins"} : SF_vars(Kept(t))
    /\ \A t \in {"push", "ack", "wask", "wins"} : SF_vars(Delivered(t))

FairSpec == Spec /\ Fairness

\* A configuration in which every message can be received: the drain takes
\* something, a message fits the receive window, and a full window fits recv's
\* buffer (peeksize adds up the whole queue).  Nothing in send, set_wndsize or
\* the drivers enforces it.
Receivable ==
    /\ PendingCap > 0
    /\ RcvWnd <= BufLen
    /\ \A k \in Sizes : k <= RcvWnd

\* In a receivable configuration every written message reaches the user, unless
\* the link is declared dead: neither a closed window nor the loss of some of a
\* message's fragments stalls a live session.  Outside of it one lost packet can.
AllArrives == Receivable => <>[](dead \/ got = stream)
=============================================================================
