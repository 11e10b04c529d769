---------------------------- MODULE MkcpListener ----------------------------
(***************************************************************************)
(* The session table of the mKCP server (transport/mkcp.rs) and the accept  *)
(* loop of an mKCP inbound (core/instance/mod.rs): one UDP socket shared by *)
(* all peers, a driver task per session, a cleanup channel from the drivers *)
(* back to the listener, and the channel of accepted streams.               *)
(*                                                                         *)
(* A driver is the index of a record in drv.  A packet that finds its       *)
(* session only feeds the driver (module Kcp) and changes nothing here.  A  *)
(* driver that panics, and so skips its cleanup message, is left out.       *)
(***************************************************************************)
EXTENDS Naturals, Sequences, FiniteSets

CONSTANTS
    Peers, Convs,
    MaxDrivers,   \* bound: sessions ever started
    MaxSessions,  \* MAX_SERVER_SESSIONS
    QueueCap,     \* streams the accept channel holds
    Limit         \* max_connections of the inbound

ASSUME ListenerAssumption ==
    {MaxDrivers, MaxSessions, QueueCap, Limit} \subseteq Nat \ {0}

VARIABLES
    sessions,   \* the table: the driver a peer's packets go to, or 0
    drv,        \* the drivers started: peer, conv, task state, stream state
    cleanup,    \* peers whose drivers have exited, unread by the listener
    lpc,        \* listener: in its select, offering a stream, or stopped
    accepting   \* the inbound still receives from the accept channel

vars == <<sessions, drv, cleanup, lpc, accepting>>

Drivers == 1..Len(drv)
Live(i) == drv[i].task = "live"
Entries(t) == {p \in Peers : t[p] # 0}
HasSession(p, conv) == sessions[p] # 0 /\ drv[sessions[p]].conv = conv
Streams(s) == {i \in Drivers : drv[i].stream = s}

Init ==
    /\ sessions = [p \in Peers |-> 0]
    /\ drv = <<>> /\ cleanup = <<>> /\ lpc = "select" /\ accepting = TRUE

-----------------------------------------------------------------------------
\* Mutation of Packet: a payload that does not decode starts a session too.
PacketUndecoded(p, conv) ==
    /\ lpc = "select" /\ Len(drv) < MaxDrivers /\ ~ HasSession(p, conv)
    /\ Cardinality(Entries(sessions) \ {p}) < MaxSessions
    /\ drv' = Append(drv, [peer |-> p, conv |-> conv, task |-> "live", stream |-> "new"])
    /\ sessions' = [sessions EXCEPT ![p] = Len(drv) + 1]
    /\ lpc' = "offer"
    /\ UNCHANGED <<cleanup, accepting>>

\* A packet without a session of its conversation: conv is 0 when the payload
\* does not decode.  The stale entry goes first, whether or not a new session
\* can be started.
Packet(p, conv) ==
    LET table == [sessions EXCEPT ![p] = 0] IN
    /\ lpc = "select"
    /\ ~ HasSession(p, conv)
    /\ IF Cardinality(Entries(table)) >= MaxSessions \/ conv = 0
       THEN sessions' = table /\ UNCHANGED <<drv, lpc>>
       ELSE /\ Len(drv) < MaxDrivers
            /\ drv' = Append(drv, [peer |-> p, conv |-> conv,
                                   task |-> "live", stream |-> "new"])
            /\ sessions' = [sessions EXCEPT ![p] = Len(drv) + 1]
            /\ lpc' = "offer"
    /\ UNCHANGED <<cleanup, accepting>>

\* session_tx.send waits for room and hands the new stream over.
Offer ==
    /\ lpc = "offer" /\ accepting
    /\ Cardinality(Streams("queued")) < QueueCap
    /\ drv' = [drv EXCEPT ![Len(drv)].stream = "queued"]
    /\ lpc' = "select"
    /\ UNCHANGED <<sessions, cleanup, accepting>>

\* The receiver is gone: the entry is removed and the listener returns.
OfferFails ==
    /\ lpc = "offer" /\ ~accepting
    /\ sessions' = [sessions EXCEPT ![drv[Len(drv)].peer] = 0]
    /\ drv' = [drv EXCEPT ![Len(drv)].stream = "dropped"]
    /\ lpc' = "stopped"
    /\ UNCHANGED <<cleanup, accepting>>

\* Mutation of Cleanup: the message is read but the entry stays.
CleanupIgnored ==
    /\ lpc = "select" /\ cleanup # <<>>
    /\ cleanup' = Tail(cleanup)
    /\ UNCHANGED <<sessions, drv, lpc, accepting>>

\* The listener learns that a driver of a peer has exited.
Cleanup ==
    /\ lpc = "select" /\ cleanup # <<>>
    /\ sessions' = [sessions EXCEPT ![Head(cleanup)] = 0]
    /\ cleanup' = Tail(cleanup)
    /\ UNCHANGED <<drv, lpc, accepting>>

\* recv_from fails and the listener returns.
SocketError ==
    /\ lpc = "select"
    /\ lpc' = "stopped"
    /\ UNCHANGED <<sessions, drv, cleanup, accepting>>

\* Mutation of DriverExit: a driver that fails skips the cleanup message.
DriverExitSilent(i) ==
    /\ Live(i)
    /\ drv' = [drv EXCEPT ![i].task = "gone"]
    /\ UNCHANGED <<sessions, cleanup, lpc, accepting>>

\* The link is dead or the session idle; cleanup_on_exit reports the peer.
DriverExit(i) ==
    /\ Live(i)
    /\ drv' = [drv EXCEPT ![i].task = "gone"]
    /\ cleanup' = Append(cleanup, drv[i].peer)
    /\ UNCHANGED <<sessions, lpc, accepting>>

-----------------------------------------------------------------------------
\* The accept loop takes a stream: served if a permit is free, else dropped.
Accept(i) ==
    /\ accepting /\ i \in Streams("queued")
    /\ drv' = [drv EXCEPT ![i].stream =
                  IF Cardinality(Streams("served")) < Limit THEN "served" ELSE "dropped"]
    /\ UNCHANGED <<sessions, cleanup, lpc, accepting>>

\* A handler ends; its stream and permit are dropped.
HandlerEnds(i) ==
    /\ i \in Streams("served")
    /\ drv' = [drv EXCEPT ![i].stream = "dropped"]
    /\ UNCHANGED <<sessions, cleanup, lpc, accepting>>

\* The instance is shut down: the accept loop ends and drops what is queued.
StopAccepting ==
    /\ accepting
    /\ accepting' = FALSE
    /\ drv' = [i \in Drivers |->
                  IF i \in Streams("queued") THEN [drv[i] EXCEPT !.stream = "dropped"]
                                             ELSE drv[i]]
    /\ UNCHANGED <<sessions, cleanup, lpc>>

Next ==
    \/ \E p \in Peers, conv \in Convs \cup {0} : Packet(p, conv)
    \/ Offer \/ OfferFails \/ Cleanup \/ SocketError \/ StopAccepting
    \/ \E i \in Drivers : DriverExit(i) \/ Accept(i) \/ HandlerEnds(i)

Spec == Init /\ [][Next]_vars

\* select polls its arms in random order, so a cleanup message is not passed
\* over for ever; the accept loop and the offer are not starved.
Fairness ==
    SF_vars(Cleanup) /\ WF_vars(Offer) /\ WF_vars(OfferFails)
    /\ WF_vars(\E i \in Drivers : Accept(i))

FairSpec == Spec /\ Fairness

-----------------------------------------------------------------------------
\* Type invariant.
TypeOK ==
    /\ sessions \in [Peers -> 0..Len(drv)]
    /\ drv \in Seq([peer : Peers, conv : Convs, task : {"live", "gone"},
                    stream : {"new", "queued", "served", "dropped"}])
    /\ cleanup \in Seq(Peers)
    /\ lpc \in {"select", "offer", "stopped"} /\ accepting \in BOOLEAN

\* An entry belongs to a driver of its own peer that still runs or whose exit
\* the listener will still read: no entry of a dead session keeps a peer from
\* connecting or a slot of the table occupied.
NoOrphanEntry ==
    \A p \in Entries(sessions) :
        /\ drv[sessions[p]].peer = p
        /\ Live(sessions[p]) \/ \E k \in 1..Len(cleanup) : cleanup[k] = p

\* The entry of a driver that has exited disappears.
ExitedReaped ==
    \A i \in 1..MaxDrivers : \A p \in Peers :
        (i \in Drivers /\ ~ Live(i) /\ sessions[p] = i) ~> (lpc = "stopped" \/ sessions[p] # i)

\* The listener removes a session when its driver has exited, as the comment on
\* mkcp_accept_sessions says; the cleanup message names only the peer.
OnlyExitedReaped ==
    [][Cleanup => \A p \in Entries(sessions) :
           sessions'[p] = sessions[p] \/ ~ Live(sessions[p])]_vars
=============================================================================
