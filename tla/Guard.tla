-------------------------------- MODULE Guard --------------------------------
(***************************************************************************)
(* The life of the classifier: what fips-guard attaches to the mesh        *)
(* interface, the maps it pins, the throttle configuration and the         *)
(* watchdog's heartbeat (guard/src/main.rs).  Each command is a process of *)
(* its own: systemd's load and unload, the timer's watchdog, and whatever  *)
(* an operator types.  Nothing locks one out while another one runs.       *)
(*                                                                         *)
(* A map is known by the order of its creation; 0 is no map.  The maps     *)
(* shield_throttle and shield_stats share the fate of shield_config.       *)
(***************************************************************************)
EXTENDS Integers, Sequences

CONSTANTS Procs,     \* runs of fips-guard that an operator or systemd starts
          Timer,     \* the watchdog run that the timer starts
          Configs,   \* <<rate, burst>> arguments of load and throttle
          MaxAge,    \* health: --max-age
          MaxTime,   \* bound: clock
          MaxOps,    \* bound: commands started, the timer's not counted
          MaxFaults  \* bound: interface losses, filter deletions, kills

ASSUME GuardAssumption ==
    /\ Configs \subseteq Nat \X Nat
    /\ MaxAge \in Nat /\ MaxTime \in Nat /\ MaxOps \in Nat /\ MaxFaults \in Nat

Runs == Procs \cup {Timer}

VARIABLES
    link,      \* the interface: "gone", "bare", or "clsact" with the qdisc
    filters,   \* the filters on its ingress, the one that decides first
    bansPin, configPin, \* the maps now pinned under these names
    healthPin, \* is shield_health pinned
    bansMade,  \* shield_bans maps created
    conf,      \* the content of each shield_config map
    heartbeat, \* the content of shield_health: a time of day
    now,       \* time since boot
    skew,      \* how far the time of day has been set back since
    pc, cmd, arg, prog, \* each run; prog: the maps its program is linked to
    began,     \* history: when each watchdog or status run began
    beatBegan, \* history: when the run that wrote the heartbeat began
    seen,      \* history: when a filter was last attached
    overlap,   \* history: have two runs been at work at the same time
    ops, faults

pinVars  == <<bansPin, configPin, healthPin, bansMade>>
runVars  == <<pc, cmd, arg, prog, began, overlap>>
beatVars == <<heartbeat, beatBegan>>
vars == <<link, filters, pinVars, conf, beatVars, now, skew, runVars, seen, ops, faults>>

Unset == <<0, 0>>
NoProg == [bans |-> 0, config |-> 0]

(* A host on which the guard was never loaded. *)
Init ==
    /\ link = "bare" /\ filters = <<>>
    /\ bansPin = 0 /\ configPin = 0 /\ healthPin = FALSE /\ bansMade = 0
    /\ conf = <<>> /\ heartbeat = 0 /\ beatBegan = 0 /\ now = 1 /\ skew = 0 /\ seen = 0
    /\ pc = [p \in Runs |-> "idle"] /\ cmd = [p \in Runs |-> "none"]
    /\ arg = [p \in Runs |-> Unset] /\ prog = [p \in Runs |-> NoProg]
    /\ began = [p \in Runs |-> 0]
    /\ overlap = FALSE /\ ops = 0 /\ faults = 0

Jump(p, l) == pc' = [pc EXCEPT ![p] = l] /\ UNCHANGED <<cmd, began, overlap>>
Goto(p, l) == Jump(p, l) /\ UNCHANGED <<arg, prog>>

(* The run ends, and with it its variables. *)
End(p) ==
    /\ pc' = [pc EXCEPT ![p] = "idle"] /\ cmd' = [cmd EXCEPT ![p] = "none"]
    /\ arg' = [arg EXCEPT ![p] = Unset] /\ prog' = [prog EXCEPT ![p] = NoProg]
    /\ began' = [began EXCEPT ![p] = 0] /\ UNCHANGED overlap

(* classifier_attached *)
Attached == filters # <<>>

(* The configuration that the pinned shield_config holds. *)
Throttle == IF configPin = 0 THEN Unset ELSE conf[configPin]
------------------------------------------------------------------------------
Begin(p, c, first) ==
    /\ pc[p] = "idle" /\ overlap' = (overlap \/ \E q \in Runs : pc[q] # "idle")
    /\ pc' = [pc EXCEPT ![p] = first] /\ cmd' = [cmd EXCEPT ![p] = c]
    /\ began' = IF first = "check" THEN [began EXCEPT ![p] = now] ELSE began
    /\ UNCHANGED <<link, filters, pinVars, conf, beatVars, now, skew, prog, seen,
                   faults>>

Load(p) ==
    /\ Begin(p, "load", "object") /\ ops < MaxOps /\ ops' = ops + 1
    /\ \E c \in Configs : arg' = [arg EXCEPT ![p] = c]

SetThrottle(p) ==
    /\ Begin(p, "throttle", "config") /\ ops < MaxOps /\ ops' = ops + 1
    /\ \E c \in Configs : arg' = [arg EXCEPT ![p] = c]

Unload(p) ==
    /\ \E c \in {"unload", "purge"} : Begin(p, c, "unhook")
    /\ ops < MaxOps /\ ops' = ops + 1 /\ UNCHANGED arg

Status(p) ==
    /\ Begin(p, "status", "check") /\ ops < MaxOps /\ ops' = ops + 1
    /\ UNCHANGED arg

Watchdog == Begin(Timer, "watchdog", "check") /\ UNCHANGED <<arg, ops>>
------------------------------------------------------------------------------
(* cmd_load.  Existing pins are reused, missing maps are created. *)
LoadObject(p) ==
    /\ pc[p] = "object"
    /\ IF bansPin = 0 THEN bansMade' = bansMade + 1 /\ bansPin' = bansMade'
       ELSE UNCHANGED <<bansMade, bansPin>>
    /\ IF configPin = 0 THEN conf' = Append(conf, Unset) /\ configPin' = Len(conf')
       ELSE UNCHANGED <<conf, configPin>>
    /\ healthPin' = TRUE
    /\ prog' = [prog EXCEPT ![p] = [bans |-> bansPin', config |-> configPin']]
    /\ Jump(p, "detach") /\ UNCHANGED arg
    /\ UNCHANGED <<link, filters, beatVars, now, skew, seen, ops, faults>>

(* qdisc_add_clsact and qdisc_detach_program: every filter of that name    *)
(* goes, and that there is none is no error here.                          *)
LoadDetach(p) ==
    /\ pc[p] = "detach"
    /\ link' = IF link = "bare" THEN "clsact" ELSE link
    /\ filters' = <<>>
    /\ Goto(p, "attach")
    /\ UNCHANGED <<pinVars, conf, beatVars, now, skew, seen, ops, faults>>

(* A later filter gets the higher precedence, and its verdict is final. *)
LoadAttach(p) ==
    /\ pc[p] = "attach"
    /\ IF link = "clsact"
       THEN filters' = <<prog[p]>> \o filters /\ seen' = now /\ Goto(p, "config")
       ELSE End(p) /\ UNCHANGED <<filters, seen>>
    /\ UNCHANGED <<link, pinVars, conf, beatVars, now, skew, ops, faults>>

(* A rate without a burst would pass nothing. *)
Normal(c) == IF c[1] > 0 /\ c[2] = 0 THEN <<c[1], 1>> ELSE c

(* set_config, which opens the map by its name; the last step of load and  *)
(* the only one of throttle.                                               *)
SetConfig(p) ==
    /\ pc[p] = "config"
    /\ IF configPin = 0
       THEN End(p) /\ UNCHANGED conf
       ELSE /\ conf' = [conf EXCEPT ![configPin] = Normal(arg[p])]
            /\ IF cmd[p] = "watchdog" THEN Goto(p, "recheck") ELSE End(p)
    /\ UNCHANGED <<link, filters, pinVars, beatVars, now, skew, seen, ops, faults>>
------------------------------------------------------------------------------
(* cmd_watchdog and cmd_status: is the classifier there?  tc fails where   *)
(* there is no interface.  The slip takes tc's success for the answer.     *)
CheckFinds_any == link # "gone"
CheckFinds == link # "gone" /\ Attached

Check(p) ==
    /\ pc[p] = "check"
    /\ \/ CheckFinds /\ Goto(p, "beat")
       \/ link = "gone" /\ End(p)
       \/ /\ ~CheckFinds /\ link # "gone"
          /\ IF cmd[p] = "watchdog" THEN Goto(p, "readcfg") ELSE End(p)
    /\ UNCHANGED <<link, filters, pinVars, conf, beatVars, now, skew, seen, ops,
                   faults>>

(* The configuration is carried over to the reload.  The slips reload with *)
(* the defaults of the command line, or give up after the loss.            *)
ReadConfig_defaults(p) ==
    /\ pc[p] = "readcfg"
    /\ arg' = [arg EXCEPT ![p] = Unset] /\ Jump(p, "object")
    /\ UNCHANGED prog
    /\ UNCHANGED <<link, filters, pinVars, conf, beatVars, now, skew, seen, ops,
                   faults>>
ReadConfig_reports_only(p) ==
    /\ pc[p] = "readcfg" /\ End(p)
    /\ UNCHANGED <<link, filters, pinVars, conf, beatVars, now, skew, seen, ops,
                   faults>>
ReadConfig(p) ==
    /\ pc[p] = "readcfg"
    /\ arg' = [arg EXCEPT ![p] = Throttle] /\ Jump(p, "object")
    /\ UNCHANGED prog
    /\ UNCHANGED <<link, filters, pinVars, conf, beatVars, now, skew, seen, ops,
                   faults>>

Recheck(p) ==
    /\ pc[p] = "recheck"
    /\ IF CheckFinds THEN Goto(p, "beat") ELSE End(p)
    /\ UNCHANGED <<link, filters, pinVars, conf, beatVars, now, skew, seen, ops,
                   faults>>

(* write_heartbeat; status does not care whether it worked. *)
Beat(p) ==
    /\ pc[p] = "beat"
    /\ IF healthPin THEN heartbeat' = now - skew /\ beatBegan' = began[p]
       ELSE UNCHANGED beatVars
    /\ End(p)
    /\ UNCHANGED <<link, filters, pinVars, conf, now, skew, seen, ops, faults>>
------------------------------------------------------------------------------
(* cmd_unload.  qdisc_detach_program fails when there is nothing to        *)
(* detach; a purge goes on only if it did not.  The slip unpins first.     *)
Unhook_last(p) ==
    /\ pc[p] = "unhook"
    /\ IF cmd[p] = "purge" THEN Goto(p, "unpin-bans") /\ UNCHANGED filters
       ELSE End(p) /\ filters' = <<>>
    /\ UNCHANGED <<link, pinVars, conf, beatVars, now, skew, seen, ops, faults>>
Unhook(p) ==
    /\ pc[p] = "unhook" /\ filters' = <<>>
    /\ \/ cmd[p] = "unload" /\ End(p)
       \/ cmd[p] = "purge" /\ Attached /\ Goto(p, "unpin-bans")
       \/ cmd[p] = "purge" /\ ~Attached /\ End(p)
    /\ UNCHANGED <<link, pinVars, conf, beatVars, now, skew, seen, ops, faults>>

(* The pins go one by one; shield_health is not among them. *)
UnpinBans(p) ==
    /\ pc[p] = "unpin-bans" /\ bansPin' = 0 /\ Goto(p, "unpin-config")
    /\ UNCHANGED <<link, filters, configPin, healthPin, bansMade, conf,
                   beatVars, now, skew, seen, ops, faults>>

UnpinConfig(p) ==
    /\ pc[p] = "unpin-config" /\ configPin' = 0 /\ End(p)
    /\ UNCHANGED <<link, filters, bansPin, healthPin, bansMade, conf, beatVars,
                   now, skew, seen, ops, faults>>
------------------------------------------------------------------------------
(* The host: the daemon restarts and recreates the interface, somebody     *)
(* deletes the filter, a command is killed, time passes.                   *)
IfaceLost ==
    /\ link # "gone" /\ faults < MaxFaults /\ faults' = faults + 1
    /\ link' = "gone" /\ filters' = <<>>
    /\ UNCHANGED <<pinVars, conf, beatVars, now, skew, runVars, seen, ops>>

IfaceBack ==
    /\ link = "gone" /\ link' = "bare"
    /\ UNCHANGED <<filters, pinVars, conf, beatVars, now, skew, runVars, seen, ops,
                   faults>>

FilterDeleted ==
    /\ Attached /\ faults < MaxFaults /\ faults' = faults + 1 /\ filters' = <<>>
    /\ UNCHANGED <<link, pinVars, conf, beatVars, now, skew, runVars, seen, ops>>

Killed(p) ==
    /\ pc[p] # "idle" /\ faults < MaxFaults /\ faults' = faults + 1 /\ End(p)
    /\ UNCHANGED <<link, filters, pinVars, conf, beatVars, now, skew, seen, ops>>

(* The time of day is set back. *)
SetBack ==
    /\ now - skew > 1 /\ skew' = skew + 1
    /\ faults < MaxFaults /\ faults' = faults + 1
    /\ UNCHANGED <<link, filters, pinVars, conf, beatVars, now, runVars, seen, ops>>

Tick ==
    /\ now < MaxTime /\ now' = now + 1
    /\ seen' = IF Attached THEN now' ELSE seen
    /\ UNCHANGED <<link, filters, pinVars, conf, beatVars, skew, runVars, ops,
                   faults>>

Step(p) ==
    \/ LoadObject(p) \/ LoadDetach(p) \/ LoadAttach(p) \/ SetConfig(p)
    \/ Check(p) \/ ReadConfig(p) \/ Recheck(p) \/ Beat(p)
    \/ Unhook(p) \/ UnpinBans(p) \/ UnpinConfig(p)

Next ==
    \/ \E p \in Procs : Load(p) \/ SetThrottle(p) \/ Unload(p) \/ Status(p)
    \/ Watchdog
    \/ \E p \in Runs : Step(p) \/ Killed(p)
    \/ IfaceLost \/ IfaceBack \/ FilterDeleted \/ SetBack \/ Tick

Spec == Init /\ [][Next]_vars

(* The kernel schedules every process, the timer goes on firing, and an    *)
(* interface that went away comes back.                                    *)
FairSpec ==
    /\ Spec /\ WF_vars(IfaceBack) /\ WF_vars(Watchdog)
    /\ \A p \in Runs : WF_vars(Step(p))
------------------------------------------------------------------------------
(* cmd_health's answer, from the heartbeat alone; a heartbeat from the     *)
(* future is fresh.                                                        *)
Health ==
    CASE ~healthPin -> "error"
      [] healthPin /\ heartbeat = 0 -> "unknown"
      [] healthPin /\ heartbeat # 0 ->
            IF (now - skew) - heartbeat > MaxAge THEN "stale" ELSE "ok"

(* A filter that drops traffic reads the maps that the commands manage:    *)
(* load links to the pinned maps, and purge detaches before it unpins.     *)
(* That holds wherever runs are killed or lose the interface, as long as   *)
(* no two of them have been at work at the same time.                      *)
NotOrphaned ==
    ~overlap /\ Attached => Head(filters).bans = bansPin /\ Head(filters).config = configPin

(* cmd_watchdog carries the throttle over its reload, whatever was lost,   *)
(* as long as no other run is at work at the same time.                    *)
RepairKeepsThrottle ==
    [][\A p \in Runs : cmd[p] = "watchdog" /\ SetConfig(p) /\ ~overlap
          => Throttle' = Throttle]_vars

(* `health' says ok only if enforcement was on within MaxAge, give or take *)
(* the time that the confirming run itself took, and what the clock has    *)
(* been set back since: a heartbeat is the claim of a run that saw the     *)
(* filter, and an old claim stops counting.                                *)
HealthMeansEnforced ==
    Health = "ok" => now - seen <= MaxAge + (heartbeat + skew - beatBegan)

(* A filter that went missing comes back by itself: the watchdog repairs,  *)
(* whichever step of load, unload or of an earlier repair was lost.        *)
WatchdogRepairs == ~Attached ~> Attached
==============================================================================
