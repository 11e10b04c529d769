--------------------------- MODULE MCConfigReload ---------------------------
(* Instances of ConfigReload for TLC: two outbound tags, two users and two   *)
(* VLESS inbounds.                                                           *)
EXTENDS ConfigReload, TLC

CONSTANTS t1, t2, u1, u2

Cfg(outs, bals, rule, clients) ==
    [outbounds |-> outs, balancers |-> bals, rule |-> rule, clients |-> clients]

NoBalancer == [b \in {} |-> {}]

Symmetry == Permutations(Callers)

MCTags == {t1, t2}
MCUsers == {u1, u2}
MCStart == Cfg({t1}, NoBalancer, t1, <<<<u1>>, <<u1>>>>)

\* The second inbound loses its user, its list fails half way, a second
\* outbound, and a rule that names nothing.  Where builds may fail for outside
\* reasons also a new balancer, else an empty client list, an outbound change
\* whose rule cannot be built and a balancer without its member.
MCFiles ==
    {MCStart, Cfg({t1}, NoBalancer, t1, <<<<u1, u2>>, <<u2>>>>),
     Cfg({t1}, NoBalancer, t1, <<<<u2>>, <<u2, Bad>>>>),
     Cfg({t1, t2}, NoBalancer, t2, <<<<u2>>, <<u1>>>>)}
    \cup (IF FlakyBuilds THEN {Cfg({t1}, t2 :> {t1}, t2, <<<<u1>>, <<u1>>>>)}
          ELSE {Cfg({t1}, NoBalancer, t2, <<<<u1>>, <<u1>>>>),
                Cfg({t1}, NoBalancer, t1, <<<<u1>>, <<>>>>),
                Cfg({t2}, NoBalancer, t1, <<<<u1>>, <<u1>>>>),
                Cfg({t2}, t1 :> {t1}, t2, <<<<u1>>, <<u1>>>>)})
=============================================================================
