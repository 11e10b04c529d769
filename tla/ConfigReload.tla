---------------------------- MODULE ConfigReload ----------------------------
(***************************************************************************)
(* The control plane of `blackwire run`: the config file and its watcher    *)
(* (config/manager.rs), the start-up and reload loop of the CLI             *)
(* (cli/main.rs), the structural and user operations of the gRPC management *)
(* handle (RuntimeControl), and ReloadState::apply (core/reload.rs) with    *)
(* the VLESS user registry it refills (core/instance/helpers.rs).           *)
(*                                                                         *)
(* A config is what these parts tell apart: the outbounds it defines, its   *)
(* balancers with their members, the outbound its routing rule names, and   *)
(* the clients of each VLESS inbound in file order (Bad is a client whose   *)
(* id does not parse).  The VLESS inbounds are numbered in file order and   *)
(* stay the same.  A running instance is the config it was built from, the  *)
(* handlers it built, its live rule and a user registry per inbound.        *)
(***************************************************************************)
EXTENDS Naturals, Sequences, FiniteSets

CONSTANTS
    Callers,       \* concurrent calls of the management API
    Tags,          \* outbound and balancer tags
    Users,         \* VLESS users
    NInbounds,     \* number of VLESS inbounds
    Files,         \* configs the file may hold, all accepted by validate()
    StartFile,     \* the config the process starts with
    MaxEdits,      \* bound: edits of the file; their events fit the channel
    MaxCalls,      \* bound: calls of the management API
    FlakyBuilds,   \* Instance::from_config may fail for outside reasons
    Bad, Garbage, None

Inbounds == 1..NInbounds

Configs == [outbounds : SUBSET Tags,
            balancers : UNION {[B -> SUBSET Tags] : B \in SUBSET Tags},
            rule : Tags, clients : [Inbounds -> Seq(Users \cup {Bad})]]

\* A running instance: its config and handlers, its live rule and registries
\* and, as history, the users the API has added to or removed from a registry
\* since it was last filled.
Instances ==
    [cfg : Configs, handlers : SUBSET Tags, rule : Tags,
     users : [Inbounds -> SUBSET Users], touched : [Inbounds -> SUBSET Users]]

ASSUME ReloadAssumption ==
    /\ Files \subseteq Configs
    /\ StartFile \in Files
    /\ NInbounds \in Nat \ {0}
    /\ MaxEdits \in Nat /\ MaxCalls \in Nat
    /\ FlakyBuilds \in BOOLEAN
    /\ Bad \notin Users
    /\ Garbage \notin Configs
    /\ None \notin Configs \cup Instances

VARIABLES
    file, edits, events,      \* disk and the watcher's event channel
    wpc, wcfg,                \* ConfigManager::watch
    current, chan, subscribed,    \* ArcSwap; unseen value of the watch channel
    mpc, mcfg,                \* run_proxy up to the reload loop
    slot,                     \* Mutex<Option<RunningInstance>>
    lpc, lcfg, lold, attached, inb, pos,    \* the reload loop
    calls, apc, acfg, aold,   \* mutate_config and rebuild_with_config
    applied,    \* history: the file config start-up or the loop last put into effect
    drifted,    \* history: since then an apply broke off in a registry, or a
                \* rollback or an API rebuild used a config with other clients
    lost        \* history: a rollback failed or a call was dropped in its rebuild

watchVars == <<wpc, wcfg, current>>
chanVars == <<chan, subscribed>>
mainVars == <<mpc, mcfg>>
loopVars == <<lpc, lcfg, lold, attached, inb, pos>>
apiVars == <<calls, apc, acfg, aold>>
hist == <<applied, drifted, lost>>
world == <<file, edits, events, watchVars, chanVars, mainVars>>
vars == <<world, slot, loopVars, apiVars, hist>>

-----------------------------------------------------------------------------
ClientSet(list) == {list[k] : k \in DOMAIN list} \ {Bad}

Balancers(cfg) == DOMAIN cfg.balancers

\* build_rules: every rule names a known outbound or balancer.
RulesOk(cfg) == cfg.rule \in cfg.outbounds \cup Balancers(cfg)

\* No balancer shares its tag with an outbound, and each has members, all known.
BalancersOk(cfg) ==
    \A b \in Balancers(cfg) :
        b \notin cfg.outbounds /\ cfg.balancers[b] \in SUBSET cfg.outbounds \ {{}}

\* populate_vless_registry succeeds: some client, and every id parses.
ListOk(list) == list # <<>> /\ \A k \in DOMAIN list : list[k] # Bad

\* requires_instance_restart, on what a config holds here: the outbounds are
\* compared; routing, its balancers and the VLESS clients are not.
RequiresRestart(old, new) == old.outbounds # new.outbounds

\* Instance::from_config: the handler graph, the router and the registries.
Built(cfg) ==
    [cfg |-> cfg, handlers |-> cfg.outbounds \cup Balancers(cfg), rule |-> cfg.rule,
     users |-> [i \in Inbounds |-> ClientSet(cfg.clients[i])],
     touched |-> [i \in Inbounds |-> {}]]

BuildOk(cfg) ==
    BalancersOk(cfg) /\ RulesOk(cfg) /\ \A i \in Inbounds : ListOk(cfg.clients[i])
BuildFails(cfg) == FlakyBuilds \/ ~BuildOk(cfg)

\* History of a build the file did not ask for: do the clients still follow it?
Rebuilt(cfg) ==
    /\ slot' = Built(cfg)
    /\ drifted' = (cfg.clients # applied.clients)
    /\ UNCHANGED <<applied, lost>>

\* History of start-up and of the loop: cfg is what the file said.
InForce(cfg) == applied' = cfg /\ drifted' = FALSE /\ UNCHANGED lost

-----------------------------------------------------------------------------
\* ConfigManager::load has read and validated the file and the watcher task is
\* spawned; it has not registered with the OS yet.
Init ==
    /\ file = StartFile /\ edits = 0 /\ events = 0
    /\ wpc = "off" /\ wcfg = None
    /\ current = StartFile /\ chan = None /\ subscribed = FALSE
    /\ mpc = "get" /\ mcfg = None
    /\ slot = None
    /\ lpc = "off" /\ lcfg = None /\ lold = None
    /\ attached = FALSE /\ inb = 0 /\ pos = 0
    /\ calls = 0 /\ apc = [c \in Callers |-> "idle"]
    /\ acfg = [c \in Callers |-> None]
    /\ aold = [c \in Callers |-> None]
    /\ applied = None /\ drifted = FALSE /\ lost = FALSE

\* Someone edits the file, possibly leaving it half written for a moment; a
\* file that is not watched yet raises no event.
Edit ==
    /\ edits < MaxEdits
    /\ edits' = edits + 1
    /\ file' \in (Files \cup {Garbage}) \ {file}
    /\ events' = IF wpc = "off" THEN events ELSE events + 1
    /\ UNCHANGED <<watchVars, chanVars, mainVars, slot, loopVars, apiVars, hist>>

-----------------------------------------------------------------------------
\* watch(): register with the OS.
WatchStart ==
    /\ wpc = "off"
    /\ wpc' = "wait"
    /\ UNCHANGED <<file, edits, events, wcfg, current, chanVars, mainVars, slot,
                   loopVars, apiVars, hist>>

\* watch(): take a modify or create event, then sleep 100 ms.
WatchEvent ==
    /\ wpc = "wait" /\ events > 0
    /\ events' = events - 1
    /\ wpc' = "read"
    /\ UNCHANGED <<file, edits, wcfg, current, chanVars, mainVars, slot, loopVars,
                   apiVars, hist>>

\* Mutation of WatchRead: what was read is not validated.
WatchReadAny ==
    /\ wpc = "read"
    /\ wpc' = "store" /\ wcfg' = file
    /\ UNCHANGED <<file, edits, events, current, chanVars, mainVars, slot, loopVars,
                   apiVars, hist>>

\* read_and_validate: an invalid file keeps the current config.
WatchRead ==
    /\ wpc = "read"
    /\ IF file = Garbage
       THEN wpc' = "wait" /\ UNCHANGED wcfg
       ELSE wpc' = "store" /\ wcfg' = file
    /\ UNCHANGED <<file, edits, events, current, chanVars, mainVars, slot, loopVars,
                   apiVars, hist>>

WatchStore ==
    /\ wpc = "store"
    /\ current' = wcfg
    /\ wpc' = "send"
    /\ UNCHANGED <<file, edits, events, wcfg, chanVars, mainVars, slot, loopVars,
                   apiVars, hist>>

\* reload_tx.send: without a receiver the value is dropped.
WatchSend ==
    /\ wpc = "send"
    /\ wpc' = "wait" /\ wcfg' = None
    /\ IF subscribed THEN chan' = wcfg ELSE UNCHANGED chan
    /\ UNCHANGED <<file, edits, events, current, subscribed, mainVars, slot,
                   loopVars, apiVars, hist>>

-----------------------------------------------------------------------------
\* run_proxy: the snapshot the first instance is built from.
MainGet ==
    /\ mpc = "get"
    /\ mcfg' = current
    /\ mpc' = "build"
    /\ UNCHANGED <<file, edits, events, watchVars, chanVars, slot, loopVars, apiVars, hist>>

\* The first build; an error ends the process.
MainBuild ==
    /\ mpc = "build"
    /\ mcfg' = None
    /\ \/ BuildOk(mcfg) /\ slot' = Built(mcfg) /\ InForce(mcfg) /\ mpc' = "subscribe"
       \/ BuildFails(mcfg) /\ mpc' = "exit" /\ UNCHANGED <<slot, hist>>
    /\ UNCHANGED <<file, edits, events, watchVars, chanVars, loopVars, apiVars>>

\* The API server is up; subscribe() and spawn the reload loop.
MainSubscribe ==
    /\ mpc = "subscribe"
    /\ mpc' = "up"
    /\ subscribed' = TRUE
    /\ lpc' = "wait"
    /\ UNCHANGED <<file, edits, events, watchVars, chan, mcfg, slot, lcfg, lold,
                   attached, inb, pos, apiVars, hist>>

-----------------------------------------------------------------------------
\* reload_rx.changed() and borrow_and_update().
LoopChanged ==
    /\ lpc = "wait" /\ chan # None
    /\ chan' = None
    /\ lcfg' = chan
    /\ lpc' = "check"
    /\ UNCHANGED <<file, edits, events, watchVars, subscribed, mainVars, slot, lold,
                   attached, inb, pos, apiVars, hist>>

\* The loop goes back to changed().
LoopAgain ==
    /\ lpc' = "wait"
    /\ lcfg' = None /\ lold' = None /\ attached' = FALSE /\ inb' = 0 /\ pos' = 0

\* should_restart, under the lock; without an instance the loop ends.
LoopCheck ==
    /\ lpc = "check"
    /\ lpc' = IF slot = None THEN "stopped"
              ELSE IF RequiresRestart(slot.cfg, lcfg) THEN "take" ELSE "clone"
    /\ UNCHANGED <<world, slot, lcfg, lold, attached, inb, pos, apiVars, hist>>

\* Mutation of LoopTake: the running instance is copied, not taken.
LoopTakeCopy ==
    /\ lpc = "take"
    /\ IF slot = None
       THEN lpc' = "stopped" /\ UNCHANGED lold
       ELSE lpc' = "build" /\ lold' = slot.cfg
    /\ UNCHANGED <<world, slot, lcfg, attached, inb, pos, apiVars, hist>>

\* guard.take() and drop of the old instance; without one the loop ends.
LoopTake ==
    /\ lpc = "take"
    /\ slot' = None
    /\ IF slot = None
       THEN lpc' = "stopped" /\ UNCHANGED lold
       ELSE lpc' = "build" /\ lold' = slot.cfg
    /\ UNCHANGED <<world, lcfg, attached, inb, pos, apiVars, hist>>

\* Mutation of LoopBuild: a failed build is only logged.
LoopBuildNoRollback ==
    /\ lpc = "build"
    /\ LoopAgain
    /\ \/ BuildOk(lcfg) /\ slot' = Built(lcfg) /\ InForce(lcfg)
       \/ BuildFails(lcfg) /\ UNCHANGED <<slot, hist>>
    /\ UNCHANGED <<world, apiVars>>

\* from_config of the new config, stored in the slot when it succeeds.
LoopBuild ==
    /\ lpc = "build"
    /\ \/ BuildOk(lcfg) /\ slot' = Built(lcfg) /\ InForce(lcfg) /\ LoopAgain
       \/ /\ BuildFails(lcfg)
          /\ lpc' = "rollback"
          /\ UNCHANGED <<slot, lcfg, lold, attached, inb, pos, hist>>
    /\ UNCHANGED <<world, apiVars>>

\* from_config of the old config; if that fails too nothing runs any more.
LoopRollback ==
    /\ lpc = "rollback"
    /\ LoopAgain
    /\ \/ BuildOk(lold) /\ Rebuilt(lold)
       \/ BuildFails(lold) /\ slot' = None /\ lost' = TRUE /\ UNCHANGED <<applied, drifted>>
    /\ UNCHANGED <<world, apiVars>>

\* Clone the instance's ReloadState; apply runs on it without the lock.
LoopClone ==
    /\ lpc = "clone"
    /\ IF slot = None
       THEN lpc' = "stopped" /\ UNCHANGED attached
       ELSE lpc' = "rules" /\ attached' = TRUE
    /\ UNCHANGED <<world, slot, lcfg, lold, inb, pos, apiVars, hist>>

\* What apply writes is seen only while its handle is the running instance's.
OnInstance(new) == IF attached THEN slot' = new ELSE UNCHANGED slot

\* apply: build_rules, then the swap of router, sniffing map and tag lists.
ApplyRules ==
    /\ lpc = "rules"
    /\ IF RulesOk(lcfg)
       THEN lpc' = "clear" /\ inb' = 1 /\ OnInstance([slot EXCEPT !.rule = lcfg.rule])
       ELSE lpc' = "failed" /\ UNCHANGED <<slot, inb>>
    /\ UNCHANGED <<world, lcfg, lold, attached, pos, apiVars, hist>>

\* The `?` of apply's loop: what is left of this registry and the ones after it
\* is not refreshed.
BreakOff ==
    /\ lpc' = "failed"
    /\ drifted' = (drifted \/ attached)
    /\ UNCHANGED <<applied, lost>>

\* Mutation of ApplyClear: the registry is refilled without clear().
ApplyClearNot ==
    /\ lpc = "clear"
    /\ OnInstance([slot EXCEPT !.touched[inb] = {}])
    /\ pos' = 1
    /\ IF lcfg.clients[inb] = <<>> THEN BreakOff ELSE lpc' = "fill" /\ UNCHANGED hist
    /\ UNCHANGED <<world, lcfg, lold, attached, inb, apiVars>>

\* populate_vless_registry of the next inbound: clear(), then the check for
\* clients.
ApplyClear ==
    /\ lpc = "clear"
    /\ OnInstance([slot EXCEPT !.users[inb] = {}, !.touched[inb] = {}])
    /\ pos' = 1
    /\ IF lcfg.clients[inb] = <<>> THEN BreakOff ELSE lpc' = "fill" /\ UNCHANGED hist
    /\ UNCHANGED <<world, lcfg, lold, attached, inb, apiVars>>

\* A registry is full: the next inbound, or apply has succeeded.
FilledUp ==
    IF inb < NInbounds
    THEN lpc' = "clear" /\ inb' = inb + 1 /\ UNCHANGED <<lcfg, lold, attached, pos, hist>>
    ELSE /\ LoopAgain
         /\ IF attached THEN InForce(lcfg) ELSE UNCHANGED hist

\* One client: parse its id, add_user.
ApplyFill ==
    LET list == lcfg.clients[inb] IN
    /\ lpc = "fill"
    /\ IF list[pos] = Bad
       THEN BreakOff /\ UNCHANGED <<slot, lcfg, lold, inb, pos, attached>>
       ELSE /\ OnInstance([slot EXCEPT !.users[inb] = @ \cup {list[pos]}])
            /\ IF pos < Len(list)
               THEN pos' = pos + 1 /\ UNCHANGED <<lpc, lcfg, lold, attached, inb, hist>>
               ELSE FilledUp
    /\ UNCHANGED <<world, apiVars>>

\* apply returned an error: it is logged.
ApplyFailed ==
    /\ lpc = "failed"
    /\ LoopAgain
    /\ UNCHANGED <<world, slot, apiVars, hist>>

-----------------------------------------------------------------------------
\* The API server runs from before the reload loop is spawned.
ApiUp(c, l) == apc[c] = l /\ mpc \in {"subscribe", "up"}

\* The client makes a call.
ApiCall(c) == ApiUp(c, "idle") /\ calls < MaxCalls /\ calls' = calls + 1

ApiReturns(c) ==
    /\ UNCHANGED calls
    /\ apc' = [apc EXCEPT ![c] = "idle"]
    /\ acfg' = [acfg EXCEPT ![c] = None]
    /\ aold' = [aold EXCEPT ![c] = None]

\* add_vless_user under the lock (with_reload).
AddUser(c, i, u) ==
    /\ ApiCall(c) /\ slot # None
    /\ slot' = [slot EXCEPT !.users[i] = @ \cup {u}, !.touched[i] = @ \cup {u}]
    /\ UNCHANGED <<world, loopVars, apc, acfg, aold, hist>>

\* remove_vless_user under the lock; an unknown user is an error.
RemoveUser(c, i, u) ==
    /\ ApiCall(c) /\ slot # None /\ u \in slot.users[i]
    /\ slot' = [slot EXCEPT !.users[i] = @ \ {u}, !.touched[i] = @ \cup {u}]
    /\ UNCHANGED <<world, loopVars, apc, acfg, aold, hist>>

\* add_outbound, remove_outbound (validate() wants one left), and the calls
\* that redefine an endpoint or touch an inbound, which change nothing here.
Edits(cfg) ==
    {[cfg EXCEPT !.outbounds = @ \cup {t}] : t \in Tags \ cfg.outbounds}
    \cup {[cfg EXCEPT !.outbounds = @ \ {t}] : t \in
              {u \in cfg.outbounds : cfg.outbounds # {u}}}
    \cup {cfg}

\* mutate_config: copy the running config under the lock and edit the copy.
ApiRead(c) ==
    /\ ApiCall(c) /\ slot # None
    /\ \E new \in Edits(slot.cfg) : acfg' = [acfg EXCEPT ![c] = new]
    /\ apc' = [apc EXCEPT ![c] = "take"]
    /\ UNCHANGED <<world, slot, loopVars, aold, hist>>

\* rebuild_with_config takes and drops the instance, if there is one.
ApiTake(c) ==
    /\ ApiUp(c, "take")
    /\ IF slot = None
       THEN ApiReturns(c) /\ UNCHANGED <<slot, attached>>
       ELSE /\ apc' = [apc EXCEPT ![c] = "build"]
            /\ aold' = [aold EXCEPT ![c] = slot.cfg]
            /\ slot' = None
            /\ attached' = FALSE
            /\ UNCHANGED <<calls, acfg>>
    /\ UNCHANGED <<world, lpc, lcfg, lold, inb, pos, hist>>

ApiBuild(c) ==
    /\ ApiUp(c, "build")
    /\ \/ BuildOk(acfg[c]) /\ Rebuilt(acfg[c]) /\ ApiReturns(c)
       \/ /\ BuildFails(acfg[c])
          /\ apc' = [apc EXCEPT ![c] = "rollback"]
          /\ UNCHANGED <<slot, calls, acfg, aold, hist>>
    /\ UNCHANGED <<world, loopVars>>

ApiRollback(c) ==
    /\ ApiUp(c, "rollback")
    /\ ApiReturns(c)
    /\ \/ BuildOk(aold[c]) /\ Rebuilt(aold[c])
       \/ /\ BuildFails(aold[c])
          /\ slot' = None /\ lost' = TRUE /\ UNCHANGED <<applied, drifted>>
    /\ UNCHANGED <<world, loopVars>>

Rebuilding == {"build", "rollback"}

\* The client resets its call or its deadline passes: the handler's future is
\* dropped at the await it is suspended in.  A call that has taken the instance
\* leaves the slot empty.
ApiDropped(c) ==
    /\ apc[c] # "idle"
    /\ ApiReturns(c)
    /\ lost' = (lost \/ apc[c] \in Rebuilding)
    /\ UNCHANGED <<world, slot, loopVars, applied, drifted>>

-----------------------------------------------------------------------------
Watch == WatchStart \/ WatchEvent \/ WatchRead \/ WatchStore \/ WatchSend

Main == MainGet \/ MainBuild \/ MainSubscribe

Loop ==
    \/ LoopChanged \/ LoopCheck \/ LoopTake \/ LoopBuild \/ LoopRollback
    \/ LoopClone \/ ApplyRules \/ ApplyClear \/ ApplyFill \/ ApplyFailed

Rebuild(c) == ApiTake(c) \/ ApiBuild(c) \/ ApiRollback(c)

UserCall(c) == \E i \in Inbounds, u \in Users : AddUser(c, i, u) \/ RemoveUser(c, i, u)

Next ==
    \/ Edit \/ Watch \/ Main \/ Loop
    \/ \E c \in Callers : UserCall(c) \/ ApiRead(c) \/ Rebuild(c) \/ ApiDropped(c)

Spec == Init /\ [][Next]_vars

\* Every spawned task keeps running; nobody has to edit or to call the API.
Fairness ==
    /\ WF_vars(Watch) /\ WF_vars(Main) /\ WF_vars(Loop)
    /\ \A c \in Callers : WF_vars(Rebuild(c))

FairSpec == Spec /\ Fairness

-----------------------------------------------------------------------------
\* Type invariant: an invalid file never becomes the current config, and the slot
\* holds nothing or a complete instance.
TypeOK ==
    /\ file \in Files \cup {Garbage} /\ edits \in 0..MaxEdits /\ events \in 0..edits
    /\ wpc \in {"off", "wait", "read", "store", "send"} /\ wcfg \in Configs \cup {None}
    /\ current \in Configs /\ chan \in Configs \cup {None}
    /\ subscribed \in BOOLEAN
    /\ mpc \in {"get", "build", "subscribe", "up", "exit"} /\ mcfg \in Configs \cup {None}
    /\ slot \in Instances \cup {None}
    /\ lpc \in {"off", "wait", "check", "take", "clone", "rules", "clear",
                "fill", "failed", "stopped"} \cup Rebuilding
    /\ lcfg \in Configs \cup {None} /\ lold \in Configs \cup {None}
    /\ attached \in BOOLEAN /\ inb \in 0..NInbounds /\ pos \in Nat
    /\ calls \in 0..MaxCalls
    /\ apc \in [Callers -> {"idle", "take"} \cup Rebuilding]
    /\ acfg \in [Callers -> Configs \cup {None}]
    /\ aold \in [Callers -> Configs \cup {None}]
    /\ applied \in Configs \cup {None} /\ drifted \in BOOLEAN /\ lost \in BOOLEAN

\* The slot works as a lock on the listeners: whoever rebuilds has emptied it,
\* so at most one task builds at a time, and never while an instance runs.
OneInstance ==
    /\ lpc \in Rebuilding => slot = None
    /\ \A c \in Callers : apc[c] \in Rebuilding =>
           /\ slot = None
           /\ lpc \notin Rebuilding
           /\ \A d \in Callers \ {c} : apc[d] \notin Rebuilding

\* Once started, the process is without an instance exactly while some task is
\* rebuilding it and for good after a rollback has failed or an API call was
\* dropped in its rebuild: no other step of the loop or of a call loses it, and
\* after such a loss nothing brings it back.
InstanceKept ==
    mpc \in {"subscribe", "up"} =>
        (slot = None <=>
             lost \/ lpc \in Rebuilding \/ \E c \in Callers : apc[c] \in Rebuilding)

\* apply is between the swap of the rules and its last client.
Refreshing == attached /\ lpc \in {"clear", "fill"}

\* Registry i holds the users of S, up to what the API did to it since.
Follows(i, S) == slot.users[i] \ slot.touched[i] = S \ slot.touched[i]

UsersOf(f) == \A i \in Inbounds : Follows(i, ClientSet(f.clients[i]))

\* A user dropped from the file loses access on every inbound, and one added
\* gets it: outside a refresh the registries are those of the config the file
\* last put into effect.  Excepted is what follows an apply that broke off, or
\* a rebuild or rollback from a config with other clients: running.config is
\* not updated by a hot reload, so a structural API call brings back the users
\* the file has revoked since the last build.
RevokedUsersGone ==
    slot # None /\ ~Refreshing /\ ~drifted => UsersOf(applied)

\* The instance runs f, up to what the API has done to its users since.
InEffect(f) ==
    /\ slot # None
    /\ slot.handlers = f.outbounds \cup Balancers(f)
    /\ slot.rule = f.rule /\ UsersOf(f)

\* A failed apply is logged with "keeping prior routing/users": the instance
\* still runs what the file last put into effect.
FailedApplyKeeps == attached /\ lpc = "failed" => InEffect(applied)

\* A good config written while the reload loop is subscribed comes into effect,
\* whatever state the watcher and the loop were in when it was written, unless it
\* is itself overwritten or the instance is lost (see InstanceKept).
NewFileApplied ==
    \A f \in Files : BuildOk(f) =>
        [](subscribed /\ events > 0 /\ file = f => <>(file # f \/ lost \/ InEffect(f)))
=============================================================================
