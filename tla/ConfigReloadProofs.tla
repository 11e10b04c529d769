------------------------- MODULE ConfigReloadProofs -------------------------
(***************************************************************************)
(* For any number of API callers and VLESS inbounds, any set of configs and *)
(* any build failures and dropped calls: the instance slot is an exclusive  *)
(* token, the ways to lose the instance are known, and a reload gives every *)
(* inbound the users of the file.                                           *)
(*                                                                         *)
(* The proof has two layers.  ControlInv is about who holds the instance:   *)
(* types, what holds before the reload loop runs (Starting), OneInstance,   *)
(* when the loop's ReloadState handle is that of the running instance       *)
(* (Handle), and InstanceKept.  UsersInv, proved on top of it, adds what    *)
(* the registries hold while apply refills them one by one (Filling).       *)
(***************************************************************************)
EXTENDS ConfigReload, TLAPS

\* Until the first instance is built neither the loop nor the API runs, and the
\* loop is spawned last.
Starting ==
    /\ mpc # "up" => lpc = "off"
    /\ mpc \notin {"subscribe", "up"} =>
           slot = None /\ \A c \in Callers : apc[c] = "idle"

\* apply is under way on the running instance: the instance is there, and apply
\* is at some client of some inbound.
Handle ==
    /\ attached => slot # None /\ lpc \in {"rules", "clear", "fill", "failed"}
    /\ lpc \in {"clear", "fill"} => inb \in Inbounds
    /\ lpc = "fill" => pos \in DOMAIN lcfg.clients[inb]

\* Whoever works on a config has one.
Holding ==
    /\ wpc \in {"store", "send"} => wcfg \in Configs
    /\ mpc = "build" => mcfg \in Configs
    /\ lpc \notin {"off", "wait"} => lcfg \in Configs
    /\ lpc \in Rebuilding => lold \in Configs
    /\ \A c \in Callers : apc[c] # "idle" => acfg[c] \in Configs
    /\ \A c \in Callers : apc[c] \in Rebuilding => aold[c] \in Configs

\* Once the instance is lost nobody is rebuilding it.
Final ==
    lost => /\ slot = None /\ mpc \in {"subscribe", "up"} /\ lpc \notin Rebuilding
            /\ \A c \in Callers : apc[c] \notin Rebuilding

ControlInv ==
    TypeOK /\ Starting /\ Holding /\ OneInstance /\ Handle /\ InstanceKept /\ Final

\* A step that leaves the watcher, the channel and main alone keeps the types
\* when what it does to the slot, the loop and the calls is well typed.
LEMMA WorldTypes ==
    ASSUME TypeOK, UNCHANGED world,
           slot' \in Instances \cup {None},
           lpc' \in {"off", "wait", "check", "take", "clone", "rules", "clear",
                     "fill", "failed", "stopped"} \cup Rebuilding,
           lcfg' \in Configs \cup {None}, lold' \in Configs \cup {None},
           attached' \in BOOLEAN, inb' \in 0..NInbounds, pos' \in Nat,
           calls' \in 0..MaxCalls, apc' \in [Callers -> {"idle", "take"} \cup Rebuilding],
           acfg' \in [Callers -> Configs \cup {None}],
           aold' \in [Callers -> Configs \cup {None}],
           applied' \in Configs \cup {None}, drifted' \in BOOLEAN, lost' \in BOOLEAN
    PROVE  TypeOK'
  <1>1. /\ file' \in Files \cup {Garbage} /\ edits' \in 0..MaxEdits /\ events' \in 0..edits'
        /\ wpc' \in {"off", "wait", "read", "store", "send"} /\ wcfg' \in Configs \cup {None}
        /\ current' \in Configs /\ chan' \in Configs \cup {None}
        /\ subscribed' \in BOOLEAN
        /\ mpc' \in {"get", "build", "subscribe", "up", "exit"}
        /\ mcfg' \in Configs \cup {None}
    BY DEF TypeOK, world, watchVars, chanVars, mainVars
  <1> QED
    BY <1>1 DEF TypeOK

\* So does one that leaves the calls alone too.
LEMMA FrameTypes ==
    ASSUME TypeOK, UNCHANGED <<world, apiVars>>,
           slot' \in Instances \cup {None},
           lpc' \in {"off", "wait", "check", "take", "clone", "rules", "clear",
                     "fill", "failed", "stopped"} \cup Rebuilding,
           lcfg' \in Configs \cup {None}, lold' \in Configs \cup {None},
           attached' \in BOOLEAN, inb' \in 0..NInbounds, pos' \in Nat,
           applied' \in Configs \cup {None}, drifted' \in BOOLEAN, lost' \in BOOLEAN
    PROVE  TypeOK'
  <1>1. /\ calls' \in 0..MaxCalls
        /\ apc' \in [Callers -> {"idle", "take"} \cup Rebuilding]
        /\ acfg' \in [Callers -> Configs \cup {None}]
        /\ aold' \in [Callers -> Configs \cup {None}]
    BY DEF TypeOK, apiVars
  <1> QED
    BY <1>1, WorldTypes

\* ClientSet picks users out of a client list.
LEMMA ClientSetType ==
    ASSUME NEW cfg \in Configs, NEW i \in Inbounds
    PROVE  ClientSet(cfg.clients[i]) \subseteq Users
  BY DEF ClientSet, Configs

\* from_config yields an instance, which is not None.
LEMMA BuiltType ==
    ASSUME NEW cfg \in Configs
    PROVE  Built(cfg) \in Instances /\ Built(cfg) # None
  <1>1. [i \in Inbounds |-> ClientSet(cfg.clients[i])] \in [Inbounds -> SUBSET Users]
    BY ClientSetType
  <1>2. cfg.outbounds \cup Balancers(cfg) \in SUBSET Tags
    BY DEF Configs, Balancers
  <1>3. Built(cfg) \in Instances
    BY <1>1, <1>2 DEF Built, Instances, Configs
  <1> QED
    BY <1>3, ReloadAssumption

\* The state after ConfigManager::load.
LEMMA ReloadInit == Init => ControlInv
  <1> SUFFICES ASSUME Init PROVE ControlInv
    OBVIOUS
  <1>1. /\ StartFile \in Configs /\ StartFile \in Files
        /\ MaxEdits \in Nat /\ MaxCalls \in Nat /\ NInbounds \in Nat
    BY ReloadAssumption
  <1>2. /\ 0 \in 0..MaxEdits /\ 0 \in 0..0 /\ 0 \in Nat /\ 0 \in 0..MaxCalls
        /\ 0 \in 0..NInbounds
    BY <1>1
  <1>3. /\ attached \in BOOLEAN /\ subscribed \in BOOLEAN
        /\ lost \in BOOLEAN /\ drifted \in BOOLEAN
    BY DEF Init
  <1>4. TypeOK
    BY <1>1, <1>2, <1>3 DEF Init, TypeOK, Rebuilding
  <1> QED
    BY <1>1, <1>4 DEF Init, ControlInv, Starting, Holding, OneInstance, Handle,
        InstanceKept, Final, Rebuilding

\* What the steps of the disk, the watcher and the start-up leave to prove.
LEMMA WorldInv ==
    ASSUME ControlInv, Edit \/ Watch \/ Main
    PROVE  ControlInv'
  <1> USE DEF ControlInv
  <1>1. CASE Edit
    <2>1. TypeOK'
      BY <1>1, ReloadAssumption DEF Edit, TypeOK, watchVars, chanVars, mainVars,
          loopVars, apiVars, hist
    <2> QED
      BY <1>1, <2>1 DEF Edit, watchVars, chanVars, mainVars, loopVars, apiVars, hist,
          Starting, Holding, OneInstance, Handle, InstanceKept, Final
  <1>2. CASE WatchStart \/ WatchEvent
    <2>1. TypeOK'
      BY <1>2, ReloadAssumption DEF WatchStart, WatchEvent, TypeOK, chanVars, mainVars,
          loopVars, apiVars, hist
    <2> QED
      BY <1>2, <2>1 DEF WatchStart, WatchEvent, chanVars, mainVars, loopVars, apiVars, hist,
          Starting, Holding, OneInstance, Handle, InstanceKept, Final
  <1>3. CASE WatchRead
    <2>1. file # Garbage => file \in Configs
      BY ReloadAssumption DEF TypeOK
    <2>2. TypeOK' /\ Holding'
      BY <1>3, <2>1 DEF WatchRead, TypeOK, Holding, chanVars, mainVars,
          loopVars, apiVars, hist
    <2> QED
      BY <1>3, <2>2 DEF WatchRead, chanVars, mainVars, loopVars, apiVars, hist,
          Starting, OneInstance, Handle, InstanceKept, Final
  <1>4. CASE WatchStore \/ WatchSend
    <2>1. TypeOK' /\ Holding'
      BY <1>4 DEF WatchStore, WatchSend, TypeOK, Holding, chanVars, mainVars,
          loopVars, apiVars, hist
    <2> QED
      BY <1>4, <2>1 DEF WatchStore, WatchSend, chanVars, mainVars, loopVars,
          apiVars, hist, Starting, OneInstance, Handle, InstanceKept, Final
  <1>5. CASE MainGet
    <2>1. TypeOK' /\ Holding'
      BY <1>5 DEF MainGet, TypeOK, Holding, watchVars, chanVars, loopVars, apiVars, hist
    <2> QED
      BY <1>5, <2>1 DEF MainGet, watchVars, chanVars, loopVars, apiVars, hist,
          Starting, OneInstance, Handle, InstanceKept, Final
  <1>6. CASE MainBuild
    <2>1. mcfg \in Configs /\ lpc = "off" /\ \A c \in Callers : apc[c] = "idle"
      BY <1>6 DEF MainBuild, Starting, Holding
    <2>2. Built(mcfg) \in Instances /\ Built(mcfg) # None
      BY <2>1, BuiltType
    <2>3. drifted' \in BOOLEAN /\ lost' = lost
      BY <1>6 DEF MainBuild, InForce, hist, TypeOK
    <2>4. TypeOK' /\ Holding'
      BY <1>6, <2>1, <2>2, <2>3 DEF MainBuild, InForce, TypeOK, Holding, watchVars,
          chanVars, loopVars, apiVars, hist
    <2>5. \/ slot' = Built(mcfg) /\ mpc' = "subscribe"
          \/ slot' = slot /\ mpc' = "exit"
      BY <1>6 DEF MainBuild
    <2> QED
      BY <1>6, <2>1, <2>2, <2>3, <2>4, <2>5 DEF MainBuild, watchVars, chanVars,
          loopVars, apiVars, Starting, OneInstance, Handle, InstanceKept, Final,
          Rebuilding
  <1>7. CASE MainSubscribe
    <2>1. TypeOK' /\ Holding'
      BY <1>7 DEF MainSubscribe, TypeOK, Holding, watchVars, Rebuilding, apiVars, hist
    <2> QED
      BY <1>7, <2>1 DEF MainSubscribe, watchVars, apiVars, hist, Starting, OneInstance,
          Handle, InstanceKept, Final, Rebuilding
  <1> QED
    BY <1>1, <1>2, <1>3, <1>4, <1>5, <1>6, <1>7 DEF Watch, Main

\* The slot is empty when somebody rebuilds, so the reload loop only finds it
\* occupied when nobody does.
LEMMA Occupied ==
    ASSUME ControlInv, slot # None
    PROVE  lpc \notin Rebuilding /\ \A c \in Callers : apc[c] \notin Rebuilding
  BY DEF ControlInv, OneInstance

\* The steps of the reload loop that choose between restart and apply.
LEMMA LoopChoiceInv ==
    ASSUME ControlInv, LoopChanged \/ LoopCheck \/ LoopTake \/ LoopClone
    PROVE  ControlInv'
  <1> USE DEF ControlInv
  <1>1. CASE LoopChanged
    <2>1. TypeOK' /\ Holding'
      BY <1>1
         DEF LoopChanged, TypeOK, Holding, watchVars, mainVars, apiVars, hist, Rebuilding
    <2> QED
      BY <1>1, <2>1 DEF LoopChanged, watchVars, mainVars, apiVars, hist, Starting,
          OneInstance, Handle, InstanceKept, Final, Rebuilding
  <1>2. CASE LoopCheck
    <2>1. TypeOK' /\ Holding'
      BY <1>2 DEF LoopCheck, TypeOK, Holding, world, watchVars, chanVars, mainVars,
          apiVars, hist, Rebuilding
    <2> QED
      BY <1>2, <2>1 DEF LoopCheck, world, mainVars, apiVars, hist, Starting,
          OneInstance, Handle, InstanceKept, Final, Rebuilding
  <1>3. CASE LoopTake
    <2>1. slot # None => slot.cfg \in Configs
      BY DEF TypeOK, Instances
    <2>2. TypeOK' /\ Holding'
      BY <1>3, <2>1 DEF LoopTake, TypeOK, Holding, world, watchVars, chanVars,
          mainVars, apiVars, hist, Rebuilding
    <2>3. slot = None => ControlInv'
      BY <1>3, <2>2 DEF LoopTake, world, mainVars, apiVars, hist, Starting,
          OneInstance, Handle, InstanceKept, Final, Rebuilding
    <2>4. slot # None => ControlInv'
      BY <1>3, <2>2, Occupied DEF LoopTake, world, mainVars, apiVars, hist, Starting,
          OneInstance, Handle, InstanceKept, Final, Rebuilding
    <2> QED
      BY <2>3, <2>4
  <1>4. CASE LoopClone
    <2>0. attached' \in BOOLEAN
      BY Zenon, <1>4 DEF LoopClone, TypeOK
    <2>1. TypeOK' /\ Holding'
      BY <1>4, <2>0 DEF LoopClone, TypeOK, Holding, world, watchVars, chanVars, mainVars,
          apiVars, hist, Rebuilding
    <2> QED
      BY <1>4, <2>1 DEF LoopClone, world, mainVars, apiVars, hist, Starting,
          OneInstance, Handle, InstanceKept, Final, Rebuilding
  <1> QED
    BY <1>1, <1>2, <1>3, <1>4

\* The rebuild of the reload loop and its rollback.
LEMMA LoopRebuildInv ==
    ASSUME ControlInv, LoopBuild \/ LoopRollback
    PROVE  ControlInv'
  <1> USE DEF ControlInv
  <1>0. lpc \in Rebuilding /\ lcfg \in Configs /\ lold \in Configs
    BY DEF LoopBuild, LoopRollback, Holding, Rebuilding
  <1>1. /\ slot = None
        /\ \A c \in Callers : apc[c] \notin Rebuilding
        /\ mpc = "up" /\ ~lost
    BY <1>0 DEF OneInstance, Starting, Final, Rebuilding
  <1>2. /\ Built(lcfg) \in Instances /\ Built(lcfg) # None
        /\ Built(lold) \in Instances /\ Built(lold) # None
    BY <1>0, BuiltType
  <1>3. \/ lost' = lost /\ LoopAgain /\ (slot' = Built(lcfg) \/ slot' = Built(lold))
        \/ lost' = TRUE /\ LoopAgain /\ slot' = None
        \/ /\ lost' = lost /\ lpc' = "rollback"
           /\ UNCHANGED <<slot, lcfg, lold, attached, inb, pos>>
    BY DEF LoopBuild, LoopRollback, Rebuilt, InForce, hist
  <1>4. /\ attached' \in BOOLEAN /\ lost' \in BOOLEAN /\ drifted' \in BOOLEAN
        /\ applied' \in Configs \cup {None}
    BY Zenon, <1>0 DEF LoopBuild, LoopRollback, LoopAgain, Rebuilt, InForce, hist, TypeOK
  <1>5. UNCHANGED <<world, apiVars>>
    BY DEF LoopBuild, LoopRollback
  <1>6. 0 \in 0..NInbounds
    BY ReloadAssumption
  <1>7. TypeOK' /\ Holding'
    BY <1>0, <1>2, <1>3, <1>4, <1>5, <1>6 DEF LoopAgain, TypeOK, Holding,
        world, watchVars, chanVars, mainVars, apiVars, Rebuilding
  <1> QED
    BY <1>0, <1>1, <1>2, <1>3, <1>5, <1>7 DEF LoopAgain, world, mainVars, apiVars,
        Starting, OneInstance, Handle, InstanceKept, Final, Rebuilding

\* Changing one registry of an instance, and its history.
LEMMA RegistryUpdate ==
    ASSUME NEW s \in Instances, NEW i \in Inbounds, NEW U \in SUBSET Users,
           NEW T \in SUBSET Users, NEW t,
           t = [s EXCEPT !.users = [@ EXCEPT ![i] = U], !.touched = [@ EXCEPT ![i] = T]]
    PROVE  t \in Instances
  <1>1. s.users \in [Inbounds -> SUBSET Users] /\ s.touched \in [Inbounds -> SUBSET Users]
    BY DEF Instances
  <1>2. /\ [s.users EXCEPT ![i] = U] \in [Inbounds -> SUBSET Users]
        /\ [s.touched EXCEPT ![i] = T] \in [Inbounds -> SUBSET Users]
    BY <1>1
  <1>3. t = [s EXCEPT !.users = [s.users EXCEPT ![i] = U],
                      !.touched = [s.touched EXCEPT ![i] = T]]
    BY DEF Instances
  <1> QED
    BY <1>2, <1>3 DEF Instances

\* What apply does to the slot, when it does anything.
LEMMA ApplySlot ==
    ASSUME ControlInv, ApplyRules \/ ApplyClear \/ ApplyFill
    PROVE  slot' \in Instances \cup {None} /\ (slot' = None <=> slot = None)
  <1> USE DEF ControlInv
  <1>0. lcfg \in Configs /\ lcfg.rule \in Tags
    BY DEF ApplyRules, ApplyClear, ApplyFill, Holding, Configs
  <1>1. attached => slot # None /\ slot \in Instances
    BY DEF Handle, TypeOK
  <1>2. ApplyClear \/ ApplyFill => inb \in Inbounds
    BY DEF ApplyClear, ApplyFill, Handle
  <1>3. ASSUME attached, slot' # slot
        PROVE  slot' \in Instances
    <2>1. CASE ApplyRules
      BY <1>0, <1>1, <1>3, <2>1 DEF ApplyRules, OnInstance, Instances
    <2>2. CASE ApplyClear
      <3>1. slot' = [slot EXCEPT !.users = [@ EXCEPT ![inb] = {}],
                                 !.touched = [@ EXCEPT ![inb] = {}]]
        BY <1>3, <2>2 DEF ApplyClear, OnInstance
      <3> QED
        BY Zenon, <1>1, <1>2, <1>3, <2>2, <3>1, RegistryUpdate
    <2>3. CASE ApplyFill
      <3>1. lcfg.clients[inb][pos] # Bad
        BY Zenon, <1>3, <2>3 DEF ApplyFill
      <3>2. lcfg.clients[inb][pos] \in Users
        BY <1>0, <1>2, <2>3, <3>1 DEF ApplyFill, Handle, Configs
      <3> QED
        BY <1>1, <1>2, <1>3, <2>3, <3>1, <3>2 DEF ApplyFill, OnInstance, Instances
    <2> QED
      BY <2>1, <2>2, <2>3
  <1>4. ~attached => slot' = slot
    BY DEF ApplyRules, ApplyClear, ApplyFill, OnInstance
  <1> QED
    BY <1>1, <1>3, <1>4, ReloadAssumption DEF TypeOK

\* ReloadState::apply, step by step.
LEMMA ApplyInv ==
    ASSUME ControlInv, ApplyRules \/ ApplyClear \/ ApplyFill \/ ApplyFailed
    PROVE  ControlInv'
  <1> USE DEF ControlInv
  <1>0. /\ lcfg \in Configs /\ lpc \in {"rules", "clear", "fill", "failed"}
        /\ mpc = "up" /\ lpc \notin Rebuilding
    BY DEF ApplyRules, ApplyClear, ApplyFill, ApplyFailed, Holding, Starting, Rebuilding
  <1>1. attached => slot # None
    BY DEF Handle
  <1>2. slot' \in Instances \cup {None} /\ (slot' = None <=> slot = None)
    BY ApplySlot DEF ApplyFailed, TypeOK
  <1>3. UNCHANGED <<world, apiVars, lost>>
    BY DEF ApplyRules, ApplyClear, ApplyFill, ApplyFailed, BreakOff, FilledUp, InForce,
        hist
  <1>4. applied' \in Configs \cup {None} /\ drifted' \in BOOLEAN
    BY <1>0 DEF ApplyRules, ApplyClear, ApplyFill, ApplyFailed, BreakOff, FilledUp,
        InForce, hist, TypeOK
  <1>5. 0 \in 0..NInbounds /\ 1 \in 0..NInbounds /\ 1 \in Inbounds /\ NInbounds \in Nat
    BY ReloadAssumption DEF Inbounds
  <1>6. \/ LoopAgain
        \/ /\ UNCHANGED <<lcfg, lold, attached>> /\ pos' \in Nat /\ inb' \in 0..NInbounds
           /\ lpc' \in {"clear", "fill", "failed"}
           /\ lpc' \in {"clear", "fill"} => inb' \in Inbounds
           /\ lpc' = "fill" => pos' \in DOMAIN lcfg.clients[inb']
    <2>1. CASE ApplyRules
      BY <1>5, <2>1 DEF ApplyRules, TypeOK
    <2>2. CASE ApplyClear
      <3>1. inb \in Inbounds /\ lcfg.clients[inb] \in Seq(Users \cup {Bad})
        BY <1>0, <2>2 DEF ApplyClear, Handle, Configs
      <3>2. lcfg.clients[inb] # <<>> => 1 \in DOMAIN lcfg.clients[inb]
        BY <3>1
      <3> QED
        BY <2>2, <3>1, <3>2 DEF ApplyClear, BreakOff, TypeOK
    <2>3. CASE ApplyFill
      <3>1. inb \in Inbounds /\ lcfg.clients[inb] \in Seq(Users \cup {Bad})
        BY <1>0, <2>3 DEF ApplyFill, Handle, Configs
      <3>2. pos \in DOMAIN lcfg.clients[inb] /\ pos \in Nat
        BY <2>3 DEF ApplyFill, Handle, TypeOK
      <3>3. pos < Len(lcfg.clients[inb]) => pos + 1 \in DOMAIN lcfg.clients[inb] /\ pos + 1 \in Nat
        BY <3>1, <3>2
      <3>4. inb < NInbounds => inb + 1 \in Inbounds /\ inb + 1 \in 0..NInbounds
        BY <1>5, <3>1 DEF Inbounds
      <3>5. inb \in 0..NInbounds
        BY DEF TypeOK
      <3> QED
        BY <2>3, <3>1, <3>2, <3>3, <3>4, <3>5 DEF ApplyFill, BreakOff, FilledUp
    <2>4. CASE ApplyFailed
      BY <2>4 DEF ApplyFailed
    <2> QED
      BY <2>1, <2>2, <2>3, <2>4
  <1>7. attached' \in BOOLEAN
    BY <1>6 DEF LoopAgain, TypeOK
  <1>8. /\ lpc' \in {"wait", "clear", "fill", "failed"}
        /\ lcfg' \in Configs \cup {None} /\ lold' \in Configs \cup {None}
        /\ lpc' # "wait" => lcfg' \in Configs
        /\ inb' \in 0..NInbounds /\ pos' \in Nat
    BY <1>0, <1>5, <1>6 DEF LoopAgain, TypeOK
  <1>9. TypeOK' /\ Holding'
    <2>1. TypeOK /\ UNCHANGED <<world, apiVars>> /\ lost' \in BOOLEAN
      BY <1>3 DEF TypeOK
    <2>2. TypeOK'
      BY ONLY <1>2, <1>4, <1>7, <1>8, <2>1, FrameTypes
    <2>3. Holding'
      BY <1>3, <1>8 DEF Holding, world, watchVars, mainVars, apiVars, Rebuilding
    <2> QED
      BY <2>2, <2>3
  <1> QED
    BY <1>0, <1>1, <1>2, <1>3, <1>6, <1>9 DEF LoopAgain, world, mainVars, apiVars,
        Starting, OneInstance, Handle, InstanceKept, Final, Rebuilding

\* User u was added to or removed from registry i, and is noted there.
UserChanged(i, u) ==
    /\ slot'.touched = [slot.touched EXCEPT ![i] = @ \cup {u}]
    /\ \/ slot'.users = [slot.users EXCEPT ![i] = @ \cup {u}]
       \/ slot'.users = [slot.users EXCEPT ![i] = @ \ {u}]

\* What a user call does to the slot.
LEMMA UserCallSlot ==
    ASSUME NEW c \in Callers, NEW i \in Inbounds, NEW u \in Users, slot \in Instances,
           AddUser(c, i, u) \/ RemoveUser(c, i, u)
    PROVE  slot' \in Instances /\ UserChanged(i, u)
  <1>0. /\ slot.users[i] \cup {u} \in SUBSET Users /\ slot.users[i] \ {u} \in SUBSET Users
        /\ slot.touched[i] \cup {u} \in SUBSET Users
    BY DEF Instances
  <1>1. CASE AddUser(c, i, u)
    <2>1. slot' = [slot EXCEPT !.users = [@ EXCEPT ![i] = slot.users[i] \cup {u}],
                               !.touched = [@ EXCEPT ![i] = slot.touched[i] \cup {u}]]
      BY <1>1 DEF AddUser
    <2>2. slot' \in Instances
      BY Zenon, <1>0, <2>1, RegistryUpdate
    <2>3. /\ slot'.users = [slot.users EXCEPT ![i] = slot.users[i] \cup {u}]
          /\ slot'.touched = [slot.touched EXCEPT ![i] = slot.touched[i] \cup {u}]
      BY <2>1 DEF Instances
    <2> QED
      BY <2>2, <2>3 DEF UserChanged
  <1>2. CASE RemoveUser(c, i, u)
    <2>1. slot' = [slot EXCEPT !.users = [@ EXCEPT ![i] = slot.users[i] \ {u}],
                               !.touched = [@ EXCEPT ![i] = slot.touched[i] \cup {u}]]
      BY <1>2 DEF RemoveUser
    <2>2. slot' \in Instances
      BY Zenon, <1>0, <2>1, RegistryUpdate
    <2>3. /\ slot'.users = [slot.users EXCEPT ![i] = slot.users[i] \ {u}]
          /\ slot'.touched = [slot.touched EXCEPT ![i] = slot.touched[i] \cup {u}]
      BY <2>1 DEF Instances
    <2> QED
      BY <2>2, <2>3 DEF UserChanged
  <1> QED
    BY <1>1, <1>2

\* The user calls of the API, which hold the lock on the slot.
LEMMA UserCallInv ==
    ASSUME ControlInv, NEW c \in Callers, NEW i \in Inbounds, NEW u \in Users,
           AddUser(c, i, u) \/ RemoveUser(c, i, u)
    PROVE  ControlInv'
  <1> USE DEF ControlInv
  <1>1. slot # None /\ slot \in Instances /\ mpc \in {"subscribe", "up"}
    BY DEF AddUser, RemoveUser, ApiCall, ApiUp, TypeOK
  <1>2. slot' \in Instances
    BY <1>1, UserCallSlot
  <1>3. slot' # None
    BY <1>2, ReloadAssumption
  <1>4. calls' \in 0..MaxCalls
    BY ReloadAssumption DEF AddUser, RemoveUser, ApiCall, TypeOK
  <1>5. UNCHANGED <<world, loopVars, apc, acfg, aold, hist>>
    BY DEF AddUser, RemoveUser
  <1>6. TypeOK' /\ Holding'
    BY SMTT(30), <1>2, <1>4, <1>5 DEF TypeOK, Holding, world, watchVars, chanVars, mainVars,
        loopVars, hist, Rebuilding
  <1> QED
    BY <1>1, <1>3, <1>5, <1>6, Occupied DEF world, mainVars, loopVars, hist, Starting,
        OneInstance, Handle, InstanceKept, Final

\* mutate_config up to the rebuild.
LEMMA ApiReadInv ==
    ASSUME ControlInv, NEW c \in Callers, ApiRead(c)
    PROVE  ControlInv'
  <1> USE DEF ControlInv
  <1>1. slot # None /\ slot.cfg \in Configs /\ mpc \in {"subscribe", "up"}
    BY DEF ApiRead, ApiCall, ApiUp, TypeOK, Instances
  <1>2. Edits(slot.cfg) \subseteq Configs
    BY <1>1 DEF Edits, Configs
  <1>3. acfg' \in [Callers -> Configs \cup {None}] /\ acfg'[c] \in Configs
    BY <1>2 DEF ApiRead, TypeOK
  <1>4. calls' \in 0..MaxCalls
    <2>1. calls \in 0..MaxCalls /\ calls < MaxCalls /\ calls' = calls + 1
      BY DEF ApiRead, ApiCall, TypeOK
    <2> QED
      BY ONLY <2>1, ReloadAssumption
  <1>5. TypeOK' /\ Holding'
    <2>1. TypeOK'
      <3>1. TypeOK /\ UNCHANGED <<world, slot, loopVars, aold, hist>>
        BY DEF ApiRead
      <3>2. apc' \in [Callers -> {"idle", "take"} \cup Rebuilding]
        BY DEF ApiRead, TypeOK
      <3>3. /\ slot' \in Instances \cup {None}
            /\ lcfg' \in Configs \cup {None} /\ lold' \in Configs \cup {None}
            /\ lpc' \in {"off", "wait", "check", "take", "clone", "rules", "clear",
                         "fill", "failed", "stopped"} \cup Rebuilding
            /\ attached' \in BOOLEAN /\ inb' \in 0..NInbounds /\ pos' \in Nat
        BY ONLY <3>1 DEF TypeOK, loopVars
      <3>4. /\ aold' \in [Callers -> Configs \cup {None}]
            /\ applied' \in Configs \cup {None} /\ drifted' \in BOOLEAN /\ lost' \in BOOLEAN
        BY ONLY <3>1 DEF TypeOK, hist
      <3> QED
        BY ONLY <1>3, <1>4, <3>1, <3>2, <3>3, <3>4, WorldTypes
    <2>2. Holding'
      BY <1>3 DEF ApiRead, TypeOK, Holding, world, watchVars, mainVars, loopVars, Rebuilding
    <2> QED
      BY <2>1, <2>2
  <1> QED
    BY SMTT(30), <1>1, <1>5 DEF ApiRead, world, mainVars, loopVars, hist, TypeOK, Starting,
        OneInstance, Handle, InstanceKept, Final, Rebuilding

\* A call that does not hold the instance ends and changes nothing else.
LEMMA CallEnds ==
    ASSUME ControlInv, NEW c \in Callers, apc[c] \notin Rebuilding,
           ApiReturns(c), UNCHANGED <<world, slot, loopVars, hist>>
    PROVE  ControlInv'
  <1> USE DEF ControlInv
  <1>1. /\ apc \in [Callers -> {"idle", "take"} \cup Rebuilding]
        /\ acfg \in [Callers -> Configs \cup {None}]
        /\ aold \in [Callers -> Configs \cup {None}] /\ calls \in 0..MaxCalls
    BY DEF TypeOK
  <1>2. (/\ apc \in [Callers -> {"idle", "take"} \cup Rebuilding]
         /\ acfg \in [Callers -> Configs \cup {None}]
         /\ aold \in [Callers -> Configs \cup {None}] /\ calls \in 0..MaxCalls)'
    BY ONLY <1>1, ApiReturns(c) DEF ApiReturns, Rebuilding
  <1>3. \A d \in Callers :
            /\ apc'[d] = IF d = c THEN "idle" ELSE apc[d]
            /\ d # c => acfg'[d] = acfg[d] /\ aold'[d] = aold[d]
    BY ONLY <1>1, ApiReturns(c) DEF ApiReturns
  <1>4. UNCHANGED <<slot, wpc, wcfg, mpc, mcfg, lpc, lcfg, lold, attached, inb, pos, lost>>
    BY DEF world, watchVars, mainVars, loopVars, hist
  <1>5. TypeOK'
    BY <1>2 DEF TypeOK, world, watchVars, chanVars, mainVars, loopVars, hist
  <1>6. Holding'
    BY SMTT(30), <1>3, <1>4 DEF Holding, Rebuilding
  <1>7. Starting' /\ OneInstance' /\ InstanceKept' /\ Final'
    BY <1>3, <1>4 DEF Starting, OneInstance, InstanceKept, Final, Rebuilding
  <1>8. Handle'
    BY <1>4 DEF Handle
  <1> QED
    BY <1>5, <1>6, <1>7, <1>8

\* A call takes the instance out of the slot.
LEMMA ApiTakeInv ==
    ASSUME ControlInv, NEW c \in Callers, ApiTake(c)
    PROVE  ControlInv'
  <1> USE DEF ControlInv
  <1>0. mpc \in {"subscribe", "up"} /\ apc[c] \notin Rebuilding
    BY DEF ApiTake, ApiUp, Rebuilding
  <1>1. CASE slot = None
    <2>1. ApiReturns(c) /\ UNCHANGED <<world, slot, loopVars, hist>>
      BY <1>1 DEF ApiTake, loopVars
    <2> QED
      BY <1>0, <2>1, CallEnds
  <1>2. CASE slot # None
    <2>1. slot.cfg \in Configs
      BY <1>2 DEF TypeOK, Instances
    <2>2. TypeOK'
      <3>1. /\ TypeOK /\ UNCHANGED world /\ slot' \in Instances \cup {None}
            /\ lcfg' \in Configs \cup {None} /\ lold' \in Configs \cup {None}
            /\ lpc' \in {"off", "wait", "check", "take", "clone", "rules", "clear",
                         "fill", "failed", "stopped"} \cup Rebuilding
            /\ attached' \in BOOLEAN /\ inb' \in 0..NInbounds /\ pos' \in Nat
        BY Zenon, <1>2 DEF ApiTake, TypeOK
      <3>2. /\ calls' \in 0..MaxCalls
            /\ apc' \in [Callers -> {"idle", "take"} \cup Rebuilding]
            /\ acfg' \in [Callers -> Configs \cup {None}]
            /\ aold' \in [Callers -> Configs \cup {None}]
        BY <1>2, <2>1 DEF ApiTake, TypeOK, Rebuilding
      <3>3. applied' \in Configs \cup {None} /\ drifted' \in BOOLEAN /\ lost' \in BOOLEAN
        BY DEF ApiTake, TypeOK, hist
      <3> QED
        BY ONLY SMTT(30), <3>1, <3>2, <3>3, WorldTypes
    <2>3. Holding'
      <3>1. UNCHANGED <<wpc, wcfg, mpc, mcfg, lpc, lcfg, lold, acfg>>
        BY <1>2 DEF ApiTake, world, watchVars, mainVars
      <3>2. acfg[c] \in Configs
        BY DEF ApiTake, ApiUp, Holding
      <3>3. \A d \in Callers : /\ aold'[d] = IF d = c THEN slot.cfg ELSE aold[d]
                               /\ d # c => apc'[d] = apc[d]
        BY <1>2 DEF ApiTake, TypeOK
      <3>4. Holding
        OBVIOUS
      <3> QED
        BY ONLY <2>1, <3>1, <3>2, <3>3, <3>4 DEF Holding
    <2>4. /\ slot' = None /\ ~attached' /\ UNCHANGED <<mpc, lpc, lcfg, inb, pos, lost>>
          /\ apc' = [apc EXCEPT ![c] = "build"]
      BY <1>2 DEF ApiTake, world, mainVars, hist
    <2>5. \A d \in Callers : apc'[d] = IF d = c THEN "build" ELSE apc[d]
      BY <2>4 DEF TypeOK
    <2>6. ~lost /\ lpc \notin Rebuilding /\ \A d \in Callers : apc[d] \notin Rebuilding
      BY <1>2, Occupied DEF Final
    <2>7. Starting' /\ OneInstance' /\ InstanceKept' /\ Final'
      BY <1>0, <2>4, <2>5, <2>6 DEF Starting, OneInstance, InstanceKept, Final, Rebuilding
    <2>8. Handle'
      BY <2>4 DEF Handle
    <2> QED
      BY SMTT(30), <2>2, <2>3, <2>7, <2>8
  <1> QED
    BY <1>1, <1>2

\* What the other steps of a structural call have in common: the call ends, with
\* an instance in the slot, or without one and that for good; or it goes on to
\* the rollback.
ApiStep(c) ==
    /\ UNCHANGED <<world, loopVars>>
    /\ \/ ApiReturns(c) /\ slot' \in Instances /\ lost' = lost
       \/ ApiReturns(c) /\ slot' = None /\ lost' = TRUE
       \/ /\ apc' = [apc EXCEPT ![c] = "rollback"]
          /\ UNCHANGED <<slot, calls, acfg, aold, lost>>
    /\ applied' = applied /\ drifted' \in BOOLEAN

\* Such a step of the task that holds the instance keeps the invariant.
LEMMA ApiStepInv ==
    ASSUME ControlInv, NEW c \in Callers, apc[c] \in Rebuilding, ApiStep(c)
    PROVE  ControlInv'
  <1> USE DEF ControlInv
  <1>1. /\ acfg[c] \in Configs /\ aold[c] \in Configs /\ slot = None /\ ~lost
        /\ lpc \notin Rebuilding /\ mpc \in {"subscribe", "up"}
        /\ \A d \in Callers : d # c => apc[d] \notin Rebuilding
    BY DEF Holding, OneInstance, Final, Starting, Rebuilding
  <1>2. UNCHANGED <<world, loopVars>> /\ slot' \in Instances \cup {None}
        /\ lost' \in BOOLEAN /\ applied' = applied /\ drifted' \in BOOLEAN
    BY <1>1 DEF ApiStep, TypeOK
  <1>3. \/ ApiReturns(c)
        \/ apc' = [apc EXCEPT ![c] = "rollback"] /\ UNCHANGED <<calls, acfg, aold>>
    BY DEF ApiStep
  <1>4. /\ apc \in [Callers -> {"idle", "take"} \cup Rebuilding]
        /\ acfg \in [Callers -> Configs \cup {None}]
        /\ aold \in [Callers -> Configs \cup {None}] /\ calls \in 0..MaxCalls
    BY DEF TypeOK
  <1>5. (/\ apc \in [Callers -> {"idle", "take"} \cup Rebuilding]
         /\ acfg \in [Callers -> Configs \cup {None}]
         /\ aold \in [Callers -> Configs \cup {None}] /\ calls \in 0..MaxCalls)'
    BY ONLY <1>3, <1>4 DEF ApiReturns, Rebuilding
  <1>6. TypeOK'
    <2>1. /\ TypeOK /\ lcfg' \in Configs \cup {None} /\ lold' \in Configs \cup {None}
          /\ lpc' \in {"off", "wait", "check", "take", "clone", "rules", "clear",
                       "fill", "failed", "stopped"} \cup Rebuilding
          /\ attached' \in BOOLEAN /\ inb' \in 0..NInbounds /\ pos' \in Nat
          /\ applied' \in Configs \cup {None}
      BY <1>2 DEF TypeOK, loopVars
    <2> QED
      BY ONLY <1>2, <1>5, <2>1, WorldTypes
  <1>7. Holding'
    BY <1>1, <1>2, <1>3, <1>4 DEF ApiReturns, Holding, world, watchVars, mainVars,
        loopVars, Rebuilding
  <1>8. \/ apc' = [apc EXCEPT ![c] = "idle"] /\ slot' # None /\ ~lost'
        \/ apc' = [apc EXCEPT ![c] = "idle"] /\ slot' = None /\ lost'
        \/ apc' = [apc EXCEPT ![c] = "rollback"] /\ slot' = None /\ ~lost'
    BY <1>1, ReloadAssumption DEF ApiStep, ApiReturns
  <1>9. UNCHANGED <<mpc, lpc, lcfg, attached, inb, pos>>
    BY SMTT(30), <1>2 DEF world, mainVars, loopVars
  <1>10. Starting' /\ OneInstance' /\ InstanceKept' /\ Final'
    BY SMTT(30), <1>1, <1>4, <1>8, <1>9
       DEF Starting, OneInstance, InstanceKept, Final, Rebuilding
  <1>11. Handle'
    BY <1>1, <1>9 DEF Handle, TypeOK
  <1> QED
    BY SMTT(30), <1>6, <1>7, <1>10, <1>11

\* rebuild_with_config after the take, and a call dropped anywhere.
LEMMA ApiRebuildInv ==
    ASSUME ControlInv, NEW c \in Callers,
           ApiBuild(c) \/ ApiRollback(c) \/ ApiDropped(c)
    PROVE  ControlInv'
  <1> USE DEF ControlInv
  <1>1. CASE apc[c] \in Rebuilding
    <2>1. acfg[c] \in Configs /\ aold[c] \in Configs /\ slot = None
      BY SMTT(30), <1>1 DEF Holding, OneInstance, Rebuilding
    <2>2. Built(acfg[c]) \in Instances /\ Built(aold[c]) \in Instances
      BY SMTT(30), <2>1, BuiltType
    <2>3. ApiStep(c)
      BY Zenon, <1>1, <2>1, <2>2
         DEF ApiStep, ApiBuild, ApiRollback, ApiDropped, Rebuilt, hist, TypeOK
    <2> QED
      BY <1>1, <2>3, ApiStepInv
  <1>2. CASE apc[c] \notin Rebuilding
    <2>1. ApiDropped(c) /\ UNCHANGED <<world, slot, loopVars, hist>>
      BY <1>2 DEF ApiBuild, ApiRollback, ApiDropped, ApiUp, Rebuilding, TypeOK, hist
    <2> QED
      BY <1>2, <2>1, CallEnds DEF ApiDropped
  <1> QED
    BY <1>1, <1>2

\* A step of the management API.
ApiSteps(c) == UserCall(c) \/ ApiRead(c) \/ Rebuild(c) \/ ApiDropped(c)

\* Every step of the control plane preserves the invariant.
LEMMA ControlNext == ControlInv /\ [Next]_vars => ControlInv'
  <1> SUFFICES ASSUME ControlInv, [Next]_vars PROVE ControlInv'
    OBVIOUS
  <1>1. CASE UNCHANGED vars
    <2> USE <1>1 DEF vars, world, watchVars, chanVars, mainVars, loopVars, apiVars, hist
    <2>1. TypeOK'
      <3>1. UNCHANGED <<world, apiVars>> /\ TypeOK
        BY SMTT(30) DEF ControlInv
      <3>2. /\ slot' \in Instances \cup {None}
            /\ lpc' \in {"off", "wait", "check", "take", "clone", "rules", "clear",
                         "fill", "failed", "stopped"} \cup Rebuilding
            /\ lcfg' \in Configs \cup {None} /\ lold' \in Configs \cup {None}
            /\ attached' \in BOOLEAN /\ inb' \in 0..NInbounds /\ pos' \in Nat
            /\ applied' \in Configs \cup {None} /\ drifted' \in BOOLEAN /\ lost' \in BOOLEAN
        BY <3>1 DEF TypeOK
      <3> QED
        BY ONLY <3>1, <3>2, FrameTypes
    <2>2. Starting' /\ Holding'
      BY ZenonT(60) DEF ControlInv, Starting, Holding
    <2>3. OneInstance' /\ Handle' /\ InstanceKept' /\ Final'
      BY DEF ControlInv, OneInstance, Handle, InstanceKept, Final
    <2> QED
      BY <2>1, <2>2, <2>3 DEF ControlInv
  <1>2. CASE Edit \/ Watch \/ Main
    BY <1>2, WorldInv
  <1>3. CASE Loop
    BY <1>3, LoopChoiceInv, LoopRebuildInv, ApplyInv DEF Loop
  <1>4. CASE \E c \in Callers : ApiSteps(c)
    BY <1>4, UserCallInv, ApiReadInv, ApiTakeInv, ApiRebuildInv
       DEF ApiSteps, UserCall, Rebuild
  <1> QED
    BY <1>1, <1>2, <1>3, <1>4 DEF Next, ApiSteps

-----------------------------------------------------------------------------
\* The first n clients of a list, without one that does not parse.
FirstClients(list, n) == {list[k] : k \in 1..n} \ {Bad}

\* While apply refreshes the running instance, the registries of the inbounds
\* before the current one hold the new clients, and the current one holds those
\* that apply has passed.
Filling ==
    Refreshing =>
        /\ \A i \in Inbounds : i < inb => Follows(i, ClientSet(lcfg.clients[i]))
        /\ lpc = "fill" => Follows(inb, FirstClients(lcfg.clients[inb], pos - 1))

UsersInv == RevokedUsersGone /\ Filling

\* A step that leaves the slot and the history alone and is not part of apply.
LEMMA QuietUsers ==
    ASSUME ControlInv, UsersInv, UNCHANGED <<slot, hist>>,
           UNCHANGED loopVars \/ (~Refreshing /\ ~Refreshing')
    PROVE  UsersInv'
  <1>1. slot' = slot /\ applied' = applied /\ drifted' = drifted
    BY DEF hist
  <1>2. CASE UNCHANGED loopVars
    <2>1. UNCHANGED <<lpc, lcfg, attached, inb, pos>>
      BY SMTT(30), <1>2 DEF loopVars
    <2>2. Filling'
      BY ONLY <1>1, <2>1, UsersInv DEF UsersInv, Filling, Refreshing, Follows
    <2>3. RevokedUsersGone'
      BY ONLY <1>1, <2>1, UsersInv
         DEF UsersInv, RevokedUsersGone, Refreshing, UsersOf, Follows
    <2> QED
      BY <2>2, <2>3 DEF UsersInv
  <1>3. CASE ~Refreshing /\ ~Refreshing'
    <2>1. RevokedUsersGone'
      BY ONLY <1>1, <1>3, UsersInv DEF UsersInv, RevokedUsersGone, UsersOf, Follows
    <2> QED
      BY <1>3, <2>1 DEF UsersInv, Filling
  <1> QED
    BY <1>2, <1>3

\* Taking the instance out.
LEMMA TakenUsers ==
    ASSUME slot' = None, attached' = FALSE
    PROVE  UsersInv'
  BY DEF UsersInv, RevokedUsersGone, Filling, Refreshing

\* A build fills every registry from its config; if its clients are those of
\* the file, the users follow the file.
LEMMA BuiltUsers ==
    ASSUME NEW cfg, slot' = Built(cfg), attached' = FALSE,
           ~drifted' => cfg.clients = applied'.clients
    PROVE  UsersInv'
  <1>1. ~Refreshing'
    BY SMTT(30) DEF Refreshing
  <1>2. \A i \in Inbounds : Follows(i, ClientSet(cfg.clients[i]))'
    BY DEF Built, Follows
  <1>3. ~drifted' => UsersOf(applied)'
    BY <1>2 DEF UsersOf
  <1> QED
    BY <1>1, <1>3 DEF UsersInv, RevokedUsersGone, Filling

\* The start-up path and the steps of the loop outside apply.
LEMMA OtherUsers ==
    ASSUME ControlInv, UsersInv, Edit \/ Watch \/ Main \/ Loop,
           lpc \notin {"rules", "clear", "fill"}
    PROVE  UsersInv'
  <1> USE DEF ControlInv
  <1>0. ~Refreshing
    BY DEF Refreshing
  <1>1. CASE MainBuild
    <2>1. lpc = "off" /\ attached = FALSE /\ attached' = FALSE
      BY Zenon, <1>1 DEF MainBuild, Starting, Handle, loopVars, TypeOK
    <2>2. CASE slot' = Built(mcfg) /\ InForce(mcfg)
      BY Zenon, <2>1, <2>2, BuiltUsers DEF InForce
    <2>3. CASE UNCHANGED <<slot, hist>>
      BY <1>0, <1>1, <2>3, QuietUsers DEF MainBuild
    <2> QED
      BY <1>1, <2>2, <2>3 DEF MainBuild
  <1>2. CASE LoopBuild \/ LoopRollback
    <2>1. CASE LoopAgain /\ slot' = Built(lcfg) /\ InForce(lcfg)
      BY Zenon, <2>1, BuiltUsers DEF InForce, LoopAgain
    <2>2. CASE LoopAgain /\ Rebuilt(lold)
      BY Zenon, <2>2, BuiltUsers DEF Rebuilt, LoopAgain
    <2>3. CASE LoopAgain /\ slot' = None
      BY <2>3, TakenUsers DEF LoopAgain
    <2>4. CASE lpc' = "rollback" /\ UNCHANGED <<slot, hist>>
      <3>1. ~Refreshing'
        BY <2>4 DEF Refreshing
      <3> QED
        BY <1>0, <2>4, <3>1, QuietUsers
    <2> QED
      BY <1>2, <2>1, <2>2, <2>3, <2>4 DEF LoopBuild, LoopRollback, hist
  <1>3. CASE LoopTake
    <2>1. attached = FALSE /\ attached' = FALSE
      BY <1>3 DEF LoopTake, Handle, TypeOK
    <2> QED
      BY Zenon, <1>3, <2>1, TakenUsers DEF LoopTake
  <1>4. CASE LoopChanged \/ LoopCheck \/ LoopClone \/ ApplyFailed
    <2>1. ~Refreshing' /\ UNCHANGED <<slot, hist>>
      BY <1>4 DEF LoopChanged, LoopCheck, LoopClone, ApplyFailed, LoopAgain, Refreshing
    <2> QED
      BY <1>0, <2>1, QuietUsers
  <1>5. CASE Edit \/ Watch \/ MainGet \/ MainSubscribe
    <2>1. ~Refreshing' /\ UNCHANGED <<slot, hist>>
      BY Zenon, <1>0, <1>5 DEF Edit, Watch, WatchStart, WatchEvent, WatchRead, WatchStore,
          WatchSend, MainGet, MainSubscribe, Refreshing, loopVars
    <2> QED
      BY <1>0, <2>1, QuietUsers
  <1> QED
    BY <1>1, <1>2, <1>3, <1>4, <1>5 DEF Main, Loop, ApplyRules, ApplyClear, ApplyFill

\* One more client passed.
LEMMA FirstClientsNext ==
    ASSUME NEW list, NEW n \in Nat \ {0}, list[n] # Bad
    PROVE  FirstClients(list, n) = FirstClients(list, n - 1) \cup {list[n]}
  <1>1. 1..n = 1..(n - 1) \cup {n}
    OBVIOUS
  <1> QED
    BY <1>1 DEF FirstClients

\* apply refreshes registry after registry.
LEMMA ApplyUsers ==
    ASSUME ControlInv, UsersInv, ApplyRules \/ ApplyClear \/ ApplyFill
    PROVE  UsersInv'
  <1> USE DEF ControlInv
  <1>0. lcfg \in Configs /\ drifted \in BOOLEAN /\ attached \in BOOLEAN
    BY DEF ApplyRules, ApplyClear, ApplyFill, Holding, TypeOK
  <1>1. CASE ~attached
    <2>1. slot' = slot /\ attached' = FALSE
      BY <1>0, <1>1 DEF ApplyRules, ApplyClear, ApplyFill, OnInstance, BreakOff,
          FilledUp, LoopAgain
    <2>2. UNCHANGED hist
      BY <1>0, <1>1 DEF ApplyRules, ApplyClear, ApplyFill, BreakOff, FilledUp, hist
    <2>3. ~Refreshing /\ ~Refreshing'
      BY <1>1, <2>1 DEF Refreshing
    <2> QED
      BY <2>1, <2>2, <2>3, QuietUsers
  <1>2. ASSUME lpc' = "failed", drifted'
        PROVE  UsersInv'
    BY ZenonT(60), <1>2 DEF UsersInv, RevokedUsersGone, Filling, Refreshing
  <1>3. attached => slot \in Instances
    BY DEF Handle, TypeOK
  <1>4. CASE attached /\ ApplyRules
    <2>1. CASE RulesOk(lcfg)
      <3>1. lpc' = "clear" /\ inb' = 1
        BY <1>4, <2>1 DEF ApplyRules
      <3>2. \A i \in Inbounds : ~(i < inb')
        BY <3>1, ReloadAssumption DEF Inbounds
      <3>3. attached' = attached
        BY <1>4 DEF ApplyRules
      <3> QED
        BY <1>4, <3>1, <3>2, <3>3 DEF UsersInv, RevokedUsersGone, Filling, Refreshing
    <2>2. CASE ~RulesOk(lcfg)
      <3>1. UNCHANGED <<slot, hist>> /\ ~Refreshing /\ ~Refreshing'
        BY <1>4, <2>2 DEF ApplyRules, Refreshing
      <3> QED
        BY <3>1, QuietUsers
    <2> QED
      BY <2>1, <2>2
  <1>5. CASE attached /\ ApplyClear
    <2>1. inb \in Inbounds /\ inb \in Nat
      BY <1>5 DEF ApplyClear, Handle, TypeOK
    <2>2. /\ slot'.users = [slot.users EXCEPT ![inb] = {}]
          /\ slot'.touched = [slot.touched EXCEPT ![inb] = {}]
          /\ slot'.users \in [Inbounds -> SUBSET Users]
          /\ slot'.touched \in [Inbounds -> SUBSET Users]
      <3>0. {} \in SUBSET Users
        OBVIOUS
      <3>1. slot' = [slot EXCEPT !.users = [@ EXCEPT ![inb] = {}],
                                 !.touched = [@ EXCEPT ![inb] = {}]]
        BY <1>5 DEF ApplyClear, OnInstance
      <3>2. slot' \in Instances
        BY Zenon, <1>3, <1>5, <2>1, <3>0, <3>1, RegistryUpdate
      <3>3. /\ slot'.users = [slot.users EXCEPT ![inb] = {}]
            /\ slot'.touched = [slot.touched EXCEPT ![inb] = {}]
        BY <1>3, <1>5, <3>1 DEF Instances
      <3> QED
        BY <3>2, <3>3 DEF Instances
    <2>3. CASE lcfg.clients[inb] = <<>>
      BY ZenonT(60), <1>2, <1>5, <2>3 DEF ApplyClear, BreakOff
    <2>4. CASE lcfg.clients[inb] # <<>>
      <3>1. lpc' = "fill" /\ pos' = 1 /\ UNCHANGED <<lcfg, inb, attached>>
        BY <1>5, <2>4 DEF ApplyClear
      <3>2. \A i \in Inbounds : i < inb => Follows(i, ClientSet(lcfg.clients[i]))
        BY <1>5 DEF UsersInv, Filling, Refreshing, ApplyClear
      <3>3. \A i \in Inbounds : i < inb =>
                slot'.users[i] = slot.users[i] /\ slot'.touched[i] = slot.touched[i]
        <4>1. \A i \in Inbounds : i < inb => i # inb
          BY <2>1 DEF Inbounds
        <4>2. DOMAIN slot.users = Inbounds /\ DOMAIN slot.touched = Inbounds
          BY <1>3, <1>5 DEF Instances
        <4> QED
          BY ZenonT(60), <2>2, <4>1, <4>2
      <3>4. \A i \in Inbounds : i < inb' => Follows(i, ClientSet(lcfg.clients[i]))'
        BY <3>1, <3>2, <3>3 DEF Follows
      <3>5. slot'.users[inb] = {} /\ slot'.touched[inb] = {}
        BY <1>3, <1>5, <2>1, <2>2 DEF Instances
      <3>6. FirstClients(lcfg.clients[inb], 0) = {}
        BY DEF FirstClients
      <3>7. Follows(inb, FirstClients(lcfg.clients[inb], pos - 1))'
        BY <3>1, <3>5, <3>6 DEF Follows
      <3> QED
        BY <1>5, <3>1, <3>4, <3>7 DEF UsersInv, RevokedUsersGone, Filling, Refreshing
    <2> QED
      BY <2>3, <2>4
  <1>6. CASE attached /\ ApplyFill
    <2> DEFINE list == lcfg.clients[inb]
    <2>1. /\ inb \in Inbounds /\ list \in Seq(Users \cup {Bad})
          /\ pos \in DOMAIN list /\ pos \in Nat \ {0}
      BY <1>0, <1>6 DEF ApplyFill, Handle, Configs
    <2>2. CASE list[pos] = Bad
      BY ZenonT(60), <1>2, <1>6, <2>2 DEF ApplyFill, BreakOff
    <2>3. CASE list[pos] # Bad
      <3>1. slot' = [slot EXCEPT !.users[inb] = @ \cup {list[pos]}]
        BY <1>6, <2>3 DEF ApplyFill, OnInstance
      <3>2. /\ slot'.users = [slot.users EXCEPT ![inb] = @ \cup {list[pos]}]
            /\ slot'.touched = slot.touched
            /\ slot.users \in [Inbounds -> SUBSET Users]
        BY <1>3, <1>6, <3>1 DEF Instances
      <3>3. /\ \A i \in Inbounds : i < inb => Follows(i, ClientSet(lcfg.clients[i]))
            /\ Follows(inb, FirstClients(list, pos - 1))
        BY <1>6 DEF UsersInv, Filling, Refreshing, ApplyFill
      <3>4. \A i \in Inbounds : i < inb =>
                slot'.users[i] \ slot'.touched[i]
                    = ClientSet(lcfg.clients[i]) \ slot'.touched[i]
        <4> SUFFICES ASSUME NEW i \in Inbounds, i < inb
                     PROVE  slot'.users[i] \ slot'.touched[i]
                                = ClientSet(lcfg.clients[i]) \ slot'.touched[i]
          OBVIOUS
        <4>1. slot'.users[i] = slot.users[i]
          BY SMTT(30), <2>1, <3>2 DEF Inbounds
        <4> QED
          BY <3>2, <3>3, <4>1 DEF Follows
      <3>5. slot'.users[inb] \ slot'.touched[inb] = FirstClients(list, pos) \ slot'.touched[inb]
        <4>1. slot'.users[inb] = slot.users[inb] \cup {list[pos]}
          BY <2>1, <3>2
        <4>2. FirstClients(list, pos) = FirstClients(list, pos - 1) \cup {list[pos]}
          BY <2>1, <2>3, FirstClientsNext
        <4> QED
          BY SMTT(30), <3>2, <3>3, <4>1, <4>2 DEF Follows
      <3>6. CASE pos < Len(list)
        <4>1. /\ lpc' = lpc /\ pos' = pos + 1 /\ pos' - 1 = pos
              /\ UNCHANGED <<lcfg, inb, attached>>
          BY <1>6, <2>1, <2>3, <3>6 DEF ApplyFill
        <4>2. Refreshing' /\ Filling'
          BY <1>6, <3>4, <3>5, <4>1 DEF Filling, Follows, Refreshing, ApplyFill
        <4> QED
          BY <4>2 DEF UsersInv, RevokedUsersGone
      <3>7. CASE ~(pos < Len(list))
        <4>1. FirstClients(list, pos) = ClientSet(list)
          <5>1. pos = Len(list) /\ DOMAIN list = 1..pos
            BY <2>1, <3>7
          <5> QED
            BY <5>1 DEF FirstClients, ClientSet
        <4>2. FilledUp
          BY <1>6, <2>3, <3>7 DEF ApplyFill
        <4>3. CASE inb < NInbounds
          <5>1. lpc' = "clear" /\ inb' = inb + 1 /\ UNCHANGED <<lcfg, attached>>
            BY <4>2, <4>3 DEF FilledUp
          <5>2. \A i \in Inbounds : i < inb' => i < inb \/ i = inb
            BY SMTT(30), <2>1, <5>1 DEF Inbounds
          <5>3. Refreshing' /\ Filling'
            BY <1>6, <3>4, <3>5, <4>1, <5>1, <5>2 DEF Filling, Follows, Refreshing
          <5> QED
            BY <5>3 DEF UsersInv, RevokedUsersGone
        <4>4. CASE ~(inb < NInbounds)
          <5>1. attached' = FALSE /\ applied' = lcfg
            BY <1>6, <4>2, <4>4 DEF FilledUp, LoopAgain, InForce
          <5>2. \A i \in Inbounds : i < inb \/ i = inb
            BY SMTT(30), <2>1, <4>4, ReloadAssumption DEF Inbounds
          <5>3. UsersOf(applied)'
            BY <3>4, <3>5, <4>1, <5>1, <5>2 DEF UsersOf, Follows
          <5> QED
            BY ZenonT(60), <5>1, <5>3 DEF UsersInv, RevokedUsersGone, Filling, Refreshing
        <4> QED
          BY <4>3, <4>4
      <3> QED
        BY <3>6, <3>7
    <2> QED
      BY <2>2, <2>3
  <1> QED
    BY <1>1, <1>4, <1>5, <1>6

\* A user call changes one registry and notes that it did.
LEMMA UserCallUsers ==
    ASSUME ControlInv, UsersInv, NEW c \in Callers, NEW i \in Inbounds, NEW u \in Users,
           AddUser(c, i, u) \/ RemoveUser(c, i, u)
    PROVE  UsersInv'
  <1> USE DEF ControlInv
  <1>1. slot # None /\ slot \in Instances
    BY DEF AddUser, RemoveUser, TypeOK
  <1>2. /\ slot'.touched = [slot.touched EXCEPT ![i] = @ \cup {u}]
        /\ \/ slot'.users = [slot.users EXCEPT ![i] = @ \cup {u}]
           \/ slot'.users = [slot.users EXCEPT ![i] = @ \ {u}]
        /\ slot.users \in [Inbounds -> SUBSET Users]
        /\ slot.touched \in [Inbounds -> SUBSET Users]
    <2>1. /\ c \in Callers /\ i \in Inbounds /\ u \in Users
          /\ AddUser(c, i, u) \/ RemoveUser(c, i, u)
      OBVIOUS
    <2>2. UserChanged(i, u)
      BY ONLY SMTT(30), <1>1, <2>1, UserCallSlot
    <2> QED
      BY Zenon, <1>1, <2>2 DEF UserChanged, Instances
  <1>3. ASSUME NEW j \in Inbounds, NEW S, slot.users[j] \ slot.touched[j] = S \ slot.touched[j]
        PROVE  slot'.users[j] \ slot'.touched[j] = S \ slot'.touched[j]
    <2>1. CASE j = i
      BY SMTT(30), <1>2, <1>3, <2>1
    <2>2. CASE j # i
      BY <1>2, <1>3, <2>2
    <2> QED
      BY SMTT(30), <2>1, <2>2
  <1>4. UNCHANGED <<lpc, lcfg, attached, inb, pos, applied, drifted>>
    BY DEF AddUser, RemoveUser, loopVars, hist
  <1>5. RevokedUsersGone'
    BY Zenon, <1>1, <1>3, <1>4 DEF UsersInv, RevokedUsersGone, Refreshing, UsersOf, Follows
  <1>6. Filling'
    <2> SUFFICES ASSUME Refreshing' PROVE Filling'
      BY DEF Filling
    <2>1. Refreshing /\ inb \in Inbounds
      BY <1>4 DEF Refreshing, Handle
    <2>2. \A j \in Inbounds : j < inb' => Follows(j, ClientSet(lcfg.clients[j]))'
      BY ZenonT(60), <1>3, <1>4, <2>1 DEF UsersInv, Filling, Follows
    <2>3. lpc' = "fill" => Follows(inb, FirstClients(lcfg.clients[inb], pos - 1))'
      BY <1>3, <1>4, <2>1 DEF UsersInv, Filling, Follows
    <2> QED
      BY ZenonT(60), <2>2, <2>3 DEF Filling
  <1> QED
    BY <1>5, <1>6 DEF UsersInv

\* The structural calls: a rebuild or a rollback is judged by the clients it used.
LEMMA ApiUsers ==
    ASSUME ControlInv, UsersInv, NEW c \in Callers, ApiRead(c) \/ Rebuild(c) \/ ApiDropped(c)
    PROVE  UsersInv'
  <1> USE DEF ControlInv
  <1>1. CASE ApiTake(c)
    <2>1. CASE slot = None
      BY <1>1, <2>1, QuietUsers DEF ApiTake, loopVars
    <2>2. CASE slot # None
      BY <1>1, <2>2, TakenUsers DEF ApiTake
    <2> QED
      BY <2>1, <2>2
  <1>2. CASE ApiBuild(c) \/ ApiRollback(c)
    <2>1. slot = None /\ attached = FALSE /\ UNCHANGED loopVars
      BY Zenon, <1>2
         DEF ApiBuild, ApiRollback, ApiUp, OneInstance, Handle, TypeOK, Rebuilding
    <2>2. attached' = FALSE
      BY SMTT(30), <2>1 DEF loopVars
    <2>3. ASSUME NEW cfg, Rebuilt(cfg)
          PROVE  UsersInv'
      BY Zenon, <2>2, <2>3, BuiltUsers DEF Rebuilt
    <2>4. CASE slot' = None
      BY Zenon, <2>2, <2>4, TakenUsers
    <2> QED
      BY Zenon, <1>2, <2>1, <2>3, <2>4 DEF ApiBuild, ApiRollback
  <1>3. CASE ApiRead(c)
    BY <1>3, QuietUsers DEF ApiRead
  <1>4. CASE ApiDropped(c)
    <2>1. UNCHANGED <<slot, loopVars, applied, drifted>>
      BY <1>4 DEF ApiDropped
    <2> QED
      BY ZenonT(60), <2>1
         DEF UsersInv, RevokedUsersGone, Filling, Refreshing, UsersOf, Follows, loopVars
  <1> QED
    BY <1>1, <1>2, <1>3, <1>4 DEF Rebuild

\* Every step keeps the registries in step with the file.
LEMMA UsersNext == ControlInv /\ UsersInv /\ [Next]_vars => UsersInv'
  <1> SUFFICES ASSUME ControlInv, UsersInv, [Next]_vars PROVE UsersInv'
    OBVIOUS
  <1>1. CASE UNCHANGED vars
    BY <1>1, QuietUsers DEF vars
  <1>2. CASE lpc \in {"rules", "clear", "fill"} /\ Loop
    BY Zenon, <1>2, ApplyUsers DEF Loop, LoopChanged, LoopCheck, LoopTake, LoopBuild,
        LoopRollback, LoopClone, ApplyFailed
  <1>3. CASE lpc \in {"rules", "clear", "fill"} /\ (Edit \/ Watch \/ Main)
    <2>1. UNCHANGED <<slot, hist, loopVars>>
      <3>1. mpc = "up"
        BY <1>3 DEF ControlInv, Starting
      <3> QED
        BY Zenon, <1>3, <3>1 DEF Edit, Watch, WatchStart, WatchEvent, WatchRead, WatchStore,
            WatchSend, Main, MainGet, MainBuild, MainSubscribe
    <2> QED
      BY <2>1, QuietUsers
  <1>4. CASE lpc \notin {"rules", "clear", "fill"} /\ (Edit \/ Watch \/ Main \/ Loop)
    BY <1>4, OtherUsers
  <1>5. CASE \E c \in Callers : ApiSteps(c)
    BY <1>5, UserCallUsers, ApiUsers DEF ApiSteps, UserCall
  <1> QED
    BY <1>1, <1>2, <1>3, <1>4, <1>5 DEF Next, ApiSteps

-----------------------------------------------------------------------------
\* Both layers hold throughout.
LEMMA ReloadInvariant == Spec => [](ControlInv /\ UsersInv)
  <1>1. Init => UsersInv
    BY Zenon DEF Init, UsersInv, RevokedUsersGone, Filling, Refreshing
  <1> QED
    BY <1>1, ReloadInit, ControlNext, UsersNext, PTL DEF Spec

\* The types of the control plane: in particular an invalid file never becomes
\* the current config and the slot holds nothing or a complete instance.
THEOREM ReloadTypeCorrect == Spec => []TypeOK
  <1>1. ControlInv => TypeOK
    BY DEF ControlInv
  <1> QED
    BY <1>1, ReloadInvariant, PTL

\* Mutual exclusion of rebuilds: Option::take on the slot keeps the reload loop
\* and every API call from building at once or over a running instance.
THEOREM ReloadOneInstance == Spec => []OneInstance
  <1>1. ControlInv => OneInstance
    BY DEF ControlInv
  <1> QED
    BY <1>1, ReloadInvariant, PTL

\* The slot is empty exactly during a rebuild and, for good, after a failed
\* rollback or a call that its client dropped in the rebuild.
THEOREM ReloadInstanceKept == Spec => []InstanceKept
  <1>1. ControlInv => InstanceKept
    BY DEF ControlInv
  <1> QED
    BY <1>1, ReloadInvariant, PTL

\* On every inbound the users are those of the config the file last put into
\* effect, up to API calls, unless an apply broke off or a rebuild used a config
\* with other clients.
THEOREM ReloadRevokesUsers == Spec => []RevokedUsersGone
  <1>1. UsersInv => RevokedUsersGone
    BY DEF UsersInv
  <1> QED
    BY <1>1, ReloadInvariant, PTL
=============================================================================
