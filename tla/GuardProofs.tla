----------------------------- MODULE GuardProofs -----------------------------
(***************************************************************************)
(* The classifier's life, for any number of runs of fips-guard, any        *)
(* configurations, faults and clock.                                       *)
(***************************************************************************)
EXTENDS Guard, TLAPS

Labels == {"idle", "object", "detach", "attach", "config", "check", "readcfg",
           "recheck", "beat", "unhook", "unpin-bans", "unpin-config"}
Commands == {"none", "load", "throttle", "unload", "purge", "status", "watchdog"}
Programs == [bans : Nat, config : Nat]
Settings == Nat \X Nat

GuardTypeOK ==
    /\ filters \in Seq(Programs)
    /\ bansPin \in Nat /\ bansMade \in Nat
    /\ conf \in Seq(Settings) /\ configPin \in 0 .. Len(conf)
    /\ heartbeat \in Int /\ beatBegan \in Nat
    /\ now \in Nat /\ skew \in Nat /\ seen \in Nat
    /\ pc \in [Runs -> Labels] /\ cmd \in [Runs -> Commands]
    /\ arg \in [Runs -> Settings] /\ prog \in [Runs -> Programs]
    /\ began \in [Runs -> Nat]

(* Facts about sequences: adding at either end, replacing an element. *)
LEMMA AppendSeq ==
    ASSUME NEW S, NEW s \in Seq(S), NEW x \in S
    PROVE  /\ Append(s, x) \in Seq(S) /\ Len(Append(s, x)) = Len(s) + 1
           /\ Append(s, x)[Len(s) + 1] = x
           /\ \A i \in 1 .. Len(s) : Append(s, x)[i] = s[i]
OBVIOUS

(* Adding a filter in front. *)
LEMMA PushSeq ==
    ASSUME NEW S, NEW s \in Seq(S), NEW x \in S
    PROVE  <<x>> \o s \in Seq(S) /\ <<x>> \o s # <<>> /\ Head(<<x>> \o s) = x
<1>1. <<x>> \in Seq(S) /\ Len(<<x>>) = 1 /\ <<x>>[1] = x
  OBVIOUS
<1>2. <<x>> \o s \in Seq(S) /\ Len(<<x>> \o s) = 1 + Len(s) /\ (<<x>> \o s)[1] = x
  BY <1>1
<1> QED
  BY <1>2

(* Writing one map of the sequence leaves the others alone. *)
LEMMA ReplaceSeq ==
    ASSUME NEW S, NEW s \in Seq(S), NEW x \in S, NEW k \in 1 .. Len(s)
    PROVE  LET t == [s EXCEPT ![k] = x]
           IN  /\ t \in Seq(S) /\ Len(t) = Len(s) /\ t[k] = x
               /\ \A i \in 1 .. Len(s) : i # k => t[i] = s[i]
<1> DEFINE t == [s EXCEPT ![k] = x]
<1>1. t \in [1 .. Len(s) -> S] /\ Len(s) \in Nat
  OBVIOUS
<1>2. t \in Seq(S) /\ Len(t) = Len(s)
  BY <1>1
<1> QED
  BY <1>2
-----------------------------------------------------------------------------
(* Every variable keeps its type. *)
LEMMA GuardTypeInit == Init => GuardTypeOK
BY DEF Init, GuardTypeOK, Labels, Commands, Programs, Settings, Unset, NoProg

(* The end of a run leaves its variables well-typed. *)
LEMMA EndType ==
    ASSUME GuardTypeOK, NEW p \in Runs, End(p)
    PROVE  /\ pc' \in [Runs -> Labels] /\ cmd' \in [Runs -> Commands]
           /\ arg' \in [Runs -> Settings] /\ prog' \in [Runs -> Programs]
           /\ began' \in [Runs -> Nat]
BY DEF End, GuardTypeOK, Labels, Commands, Programs, Settings, Unset, NoProg

(* So does a step within a command. *)
LEMMA GotoType ==
    ASSUME GuardTypeOK, NEW p \in Runs, NEW l \in Labels, Jump(p, l)
    PROVE  /\ pc' \in [Runs -> Labels] /\ cmd' \in [Runs -> Commands]
           /\ began' \in [Runs -> Nat]
BY DEF Jump, GuardTypeOK

(* What set_config stores is a setting, and storing it again changes       *)
(* nothing (main.rs:418-420).                                              *)
LEMMA NormalType ==
    ASSUME NEW c \in Settings
    PROVE  Normal(c) \in Settings /\ Normal(Normal(c)) = Normal(c)
<1>1. PICK r \in Nat, s \in Nat : c = <<r, s>>
  BY DEF Settings
<1> QED
  BY <1>1 DEF Normal, Settings

(* The throttle in force is a setting. *)
LEMMA ThrottleType ==
    ASSUME GuardTypeOK PROVE Throttle \in Settings
BY DEF GuardTypeOK, Throttle, Settings, Unset

(* Every step keeps the types. *)
LEMMA GuardTypeStep == GuardTypeOK /\ [Next]_vars => GuardTypeOK'
<1> SUFFICES ASSUME GuardTypeOK, [Next]_vars PROVE GuardTypeOK'
  OBVIOUS
<1> USE GuardAssumption
<1> DEFINE RunsOK == /\ pc' \in [Runs -> Labels] /\ cmd' \in [Runs -> Commands]
                     /\ arg' \in [Runs -> Settings] /\ prog' \in [Runs -> Programs]
                     /\ began' \in [Runs -> Nat]
           HostOK == /\ filters' \in Seq(Programs)
                     /\ bansPin' \in Nat /\ bansMade' \in Nat
                     /\ conf' \in Seq(Settings) /\ configPin' \in 0 .. Len(conf')
                     /\ heartbeat' \in Int /\ beatBegan' \in Nat
                     /\ now' \in Nat /\ skew' \in Nat /\ seen' \in Nat
<1>0. RunsOK /\ HostOK => GuardTypeOK'
  BY DEF GuardTypeOK
<1>00. UNCHANGED <<filters, pinVars, conf, beatVars, now, skew, seen>> => HostOK
  BY DEF GuardTypeOK, pinVars, beatVars
<1>000. UNCHANGED runVars => RunsOK
  BY DEF GuardTypeOK, runVars
<1> HIDE DEF RunsOK, HostOK
<1>1. ASSUME NEW p \in Runs, NEW c \in Commands, NEW l \in Labels, Begin(p, c, l)
      PROVE  HostOK /\ (arg' \in [Runs -> Settings] => RunsOK)
  <2>1. HostOK
    BY <1>00, <1>1 DEF Begin
  <2>2. /\ pc' \in [Runs -> Labels] /\ cmd' \in [Runs -> Commands]
        /\ prog' \in [Runs -> Programs] /\ began' \in [Runs -> Nat]
    BY <1>1 DEF Begin, GuardTypeOK
  <2> QED
    BY <2>1, <2>2 DEF RunsOK
<1>2. ASSUME NEW p \in Procs, Load(p) \/ SetThrottle(p) \/ Unload(p) \/ Status(p)
      PROVE  GuardTypeOK'
  <2>1. arg' \in [Runs -> Settings]
    BY <1>2 DEF Load, SetThrottle, Unload, Status, GuardTypeOK, Settings
  <2>2. \E c \in Commands, l \in Labels : Begin(p, c, l)
    BY <1>2 DEF Load, SetThrottle, Unload, Status, Commands, Labels
  <2> QED
    BY <1>0, <1>1, <2>1, <2>2 DEF Runs
<1>3. CASE Watchdog
  <2>1. Begin(Timer, "watchdog", "check") /\ arg' \in [Runs -> Settings]
    BY <1>3 DEF Watchdog, GuardTypeOK
  <2> QED
    BY <1>0, <1>1, <2>1 DEF Runs, Commands, Labels
<1>4. ASSUME NEW p \in Runs, LoadObject(p) PROVE GuardTypeOK'
  <2>1. /\ bansPin' \in Nat /\ bansMade' \in Nat
        /\ conf' \in Seq(Settings) /\ configPin' \in 0 .. Len(conf')
    <3>1. Unset \in Settings
      BY DEF Unset, Settings
    <3>2. CASE configPin = 0
      <4>1. /\ conf \in Seq(Settings) /\ conf' = Append(conf, Unset)
            /\ configPin' = Len(conf')
        BY <1>4, <3>2 DEF LoadObject, GuardTypeOK
      <4>2. conf' \in Seq(Settings) /\ Len(conf') = Len(conf) + 1 /\ Len(conf) \in Nat
        BY <3>1, <4>1, AppendSeq
      <4> QED
        BY <1>4, <4>1, <4>2 DEF LoadObject, GuardTypeOK
    <3>3. CASE configPin # 0
      BY <1>4, <3>3 DEF LoadObject, GuardTypeOK
    <3> QED
      BY <3>2, <3>3
  <2>2. HostOK
    BY <1>4, <2>1 DEF LoadObject, HostOK, GuardTypeOK, beatVars
  <2>3. prog' \in [Runs -> Programs] /\ arg' = arg
    BY <1>4, <2>1 DEF LoadObject, GuardTypeOK, Programs
  <2>4. RunsOK
    BY <1>4, <2>3, GotoType DEF LoadObject, RunsOK, GuardTypeOK, Labels
  <2> QED
    BY <1>0, <2>2, <2>4
<1>5. ASSUME NEW p \in Runs, NEW l \in Labels, Goto(p, l) PROVE RunsOK
  BY <1>5, GotoType DEF Goto, RunsOK, GuardTypeOK
<1>6. ASSUME NEW p \in Runs, End(p) PROVE RunsOK
  BY <1>6, EndType DEF RunsOK
<1>7. ASSUME NEW p \in Runs, LoadDetach(p) PROVE GuardTypeOK'
  <2>1. HostOK
    BY <1>7 DEF LoadDetach, HostOK, GuardTypeOK, pinVars, beatVars
  <2> QED
    BY <1>0, <1>5, <1>7, <2>1 DEF LoadDetach, Labels
<1>8. ASSUME NEW p \in Runs, LoadAttach(p) PROVE GuardTypeOK'
  <2>1. HostOK
    <3>1. filters' \in Seq(Programs) /\ seen' \in Nat
      <4>1. prog[p] \in Programs /\ filters \in Seq(Programs) /\ now \in Nat /\ seen \in Nat
        BY DEF GuardTypeOK
      <4>2. <<prog[p]>> \o filters \in Seq(Programs)
        BY <4>1, PushSeq
      <4> QED
        BY <1>8, <4>1, <4>2 DEF LoadAttach
    <3> QED
      BY <1>8, <3>1 DEF LoadAttach, HostOK, GuardTypeOK, pinVars, beatVars
  <2>2. RunsOK
    BY <1>5, <1>6, <1>8 DEF LoadAttach, Labels
  <2> QED
    BY <1>0, <2>1, <2>2
<1>9. ASSUME NEW p \in Runs, SetConfig(p) PROVE GuardTypeOK'
  <2>1. RunsOK
    BY <1>5, <1>6, <1>9 DEF SetConfig, Labels
  <2>2. Normal(arg[p]) \in Settings
    BY NormalType DEF GuardTypeOK
  <2>3. HostOK
    <3>1. UNCHANGED <<filters, pinVars, beatVars, now, skew, seen>>
      BY <1>9 DEF SetConfig
    <3>2. conf' \in Seq(Settings) /\ Len(conf') = Len(conf)
      <4>1. CASE configPin = 0
        BY <1>9, <4>1 DEF SetConfig, GuardTypeOK
      <4>2. CASE configPin # 0
        <5>1. conf' = [conf EXCEPT ![configPin] = Normal(arg[p])]
          BY <1>9, <4>2 DEF SetConfig
        <5> QED
          BY <2>2, <4>2, <5>1, ReplaceSeq DEF GuardTypeOK
      <4> QED
        BY <4>1, <4>2
    <3> QED
      BY <3>1, <3>2 DEF HostOK, GuardTypeOK, pinVars, beatVars
  <2> QED
    BY <1>0, <2>1, <2>3
<1>10. ASSUME NEW p \in Runs, Check(p) \/ Recheck(p) PROVE GuardTypeOK'
  <2>1. HostOK
    BY <1>00, <1>10 DEF Check, Recheck
  <2>2. RunsOK
    BY <1>5, <1>6, <1>10 DEF Check, Recheck, Labels
  <2> QED
    BY <1>0, <2>1, <2>2
<1>11. ASSUME NEW p \in Runs, ReadConfig(p) PROVE GuardTypeOK'
  <2>1. HostOK
    BY <1>00, <1>11 DEF ReadConfig
  <2>2. RunsOK
    BY <1>11, ThrottleType, GotoType DEF ReadConfig, RunsOK, GuardTypeOK, Labels
  <2> QED
    BY <1>0, <2>1, <2>2
<1>12. ASSUME NEW p \in Runs, Beat(p) PROVE GuardTypeOK'
  <2>1. HostOK
    BY <1>12 DEF Beat, HostOK, GuardTypeOK, pinVars, beatVars
  <2> QED
    BY <1>0, <1>6, <1>12, <2>1 DEF Beat
<1>13. ASSUME NEW p \in Runs, Unhook(p) \/ UnpinBans(p) \/ UnpinConfig(p)
       PROVE  GuardTypeOK'
  <2>1. HostOK
    <3>1. <<>> \in Seq(Programs)
      OBVIOUS
    <3>2. CASE Unhook(p)
      BY <3>1, <3>2 DEF Unhook, HostOK, GuardTypeOK, pinVars, beatVars
    <3>3. CASE UnpinBans(p) \/ UnpinConfig(p)
      BY <3>3 DEF UnpinBans, UnpinConfig, HostOK, GuardTypeOK, beatVars
    <3> QED
      BY <1>13, <3>2, <3>3
  <2>2. RunsOK
    BY <1>5, <1>6, <1>13 DEF Unhook, UnpinBans, UnpinConfig, Labels
  <2> QED
    BY <1>0, <2>1, <2>2
<1>14. ASSUME NEW p \in Runs, Killed(p) PROVE GuardTypeOK'
  BY <1>0, <1>00, <1>6, <1>14 DEF Killed
<1>15. CASE IfaceLost \/ IfaceBack \/ FilterDeleted \/ SetBack \/ Tick
  <2>1. HostOK
    <3>1. <<>> \in Seq(Programs)
      OBVIOUS
    <3>2. CASE IfaceLost \/ IfaceBack \/ FilterDeleted
      BY <3>1, <3>2 DEF IfaceLost, IfaceBack, FilterDeleted, HostOK, GuardTypeOK,
         pinVars, beatVars
    <3>3. CASE SetBack
      BY <3>3 DEF SetBack, HostOK, GuardTypeOK, pinVars, beatVars
    <3>4. CASE Tick
      <4>1. now' \in Nat /\ seen' \in Nat /\ UNCHANGED <<filters, pinVars, conf, beatVars, skew>>
        BY <3>4 DEF Tick, GuardTypeOK
      <4> QED
        BY <4>1 DEF HostOK, GuardTypeOK, pinVars, beatVars
    <3> QED
      BY <1>15, <3>2, <3>3, <3>4
  <2>2. RunsOK
    BY <1>000, <1>15 DEF IfaceLost, IfaceBack, FilterDeleted, SetBack, Tick
  <2> QED
    BY <1>0, <2>1, <2>2
<1>16. CASE UNCHANGED vars
  BY <1>0, <1>00, <1>000, <1>16 DEF vars
<1> QED
  BY <1>2, <1>3, <1>4, <1>7, <1>8, <1>9, <1>10, <1>11, <1>12, <1>13, <1>14,
     <1>15, <1>16 DEF Next, Step
-----------------------------------------------------------------------------
(* Only a start, a step or a kill moves a run, and only that one; while no *)
(* two runs have been at work at once, at most one is at work.             *)
Alone ==
    ~overlap => \A p, q \in Runs : pc[p] # "idle" /\ pc[q] # "idle" => p = q

(* A run's own step moves no other run and brings no two runs together. *)
LEMMA OthersWait ==
    ASSUME GuardTypeOK, NEW p \in Runs,
           \/ End(p)
           \/ \E l \in Labels : Jump(p, l) /\ pc[p] # "idle"
    PROVE  /\ overlap' = overlap
           /\ \A q \in Runs \ {p} : pc'[q] = pc[q] /\ cmd'[q] = cmd[q] /\ began'[q] = began[q]
           /\ Alone /\ pc[p] # "idle" => Alone'
<1>1. overlap' = overlap
  BY DEF End, Jump
<1>2. \A q \in Runs \ {p} : pc'[q] = pc[q] /\ cmd'[q] = cmd[q] /\ began'[q] = began[q]
  BY DEF End, Jump, GuardTypeOK
<1> QED
  BY <1>1, <1>2 DEF Alone

(* A step of a run moves that run alone. *)
LEMMA StepMoves ==
    ASSUME NEW p \in Runs, Step(p)
    PROVE  /\ pc[p] # "idle"
           /\ End(p) \/ \E l \in Labels : Jump(p, l)
<1>1. CASE LoadObject(p) \/ LoadDetach(p) \/ LoadAttach(p) \/ SetConfig(p)
  BY <1>1 DEF LoadObject, LoadDetach, LoadAttach, SetConfig, Goto, Labels
<1>2. CASE Check(p) \/ ReadConfig(p) \/ Recheck(p) \/ Beat(p)
  BY <1>2 DEF Check, ReadConfig, Recheck, Beat, Goto, Labels
<1>3. CASE Unhook(p) \/ UnpinBans(p) \/ UnpinConfig(p)
  BY <1>3 DEF Unhook, UnpinBans, UnpinConfig, Goto, Labels
<1> QED
  BY <1>1, <1>2, <1>3 DEF Step

(* A start: from idle, the first label of the command; others stay. *)
LEMMA Starts ==
    ASSUME GuardTypeOK, NEW p \in Runs, NEW c, NEW l \in Labels, Begin(p, c, l)
    PROVE  /\ pc[p] = "idle" /\ pc'[p] = l /\ cmd'[p] = c
           /\ \A q \in Runs \ {p} : pc'[q] = pc[q] /\ cmd'[q] = cmd[q] /\ began'[q] = began[q]
           /\ began'[p] = IF l = "check" THEN now ELSE began[p]
           /\ ~overlap' => ~overlap /\ \A q \in Runs : pc[q] = "idle"
           /\ UNCHANGED <<filters, bansPin, configPin, conf, heartbeat, beatBegan,
                          now, skew, seen, prog>>
BY DEF Begin, GuardTypeOK, pinVars, beatVars

(* The commands there are. *)
LEMMA Commanded ==
    ASSUME NEW p \in Procs, Load(p) \/ SetThrottle(p) \/ Unload(p) \/ Status(p)
    PROVE  \/ Begin(p, "load", "object") \/ Begin(p, "throttle", "config")
           \/ Begin(p, "unload", "unhook") \/ Begin(p, "purge", "unhook")
           \/ Begin(p, "status", "check")
BY DEF Load, SetThrottle, Unload, Status

(* As long as runs have not overlapped, at most one is at work. *)
LEMMA AloneStep ==
    ASSUME GuardTypeOK, Alone, [Next]_vars PROVE Alone'
<1>1. ASSUME NEW p \in Runs, NEW c, NEW l \in Labels, Begin(p, c, l) PROVE Alone'
  BY <1>1, Starts DEF Alone
<1>2. ASSUME NEW p \in Procs, Load(p) \/ SetThrottle(p) \/ Unload(p) \/ Status(p)
      PROVE  Alone'
  BY <1>1, <1>2, Commanded DEF Runs, Labels
<1>3. CASE Watchdog
  BY <1>1, <1>3 DEF Watchdog, Runs, Labels
<1>4. ASSUME NEW p \in Runs, Step(p) \/ Killed(p) PROVE Alone'
  BY <1>4, StepMoves, OthersWait DEF Killed
<1>5. CASE UNCHANGED runVars
  BY <1>5 DEF runVars, Alone
<1> QED
  BY <1>2, <1>3, <1>4, <1>5
     DEF Next, IfaceLost, IfaceBack, FilterDeleted, SetBack, Tick, vars
-----------------------------------------------------------------------------
(* While no two runs have been at work at once: the program that a load is *)
(* about to attach is linked to the pinned maps; a purge that has begun to *)
(* unpin has left no filter; and the first filter is linked to the pinned  *)
(* maps.                                                                   *)
Pinned(pr) == /\ pr.bans = bansPin /\ pr.config = configPin
              /\ bansPin # 0 /\ configPin # 0

Linked ==
    ~overlap =>
        /\ \A p \in Runs : /\ pc[p] \in {"detach", "attach"} => Pinned(prog[p])
                           /\ pc[p] \in {"unpin-bans", "unpin-config"} => ~Attached
        /\ Attached => Pinned(Head(filters))

(* As long as runs have not overlapped, the maps of an attached filter     *)
(* are the pinned ones: load pins before it attaches, and a purge unpins   *)
(* only what it has detached.                                              *)
LEMMA LinkedStep ==
    ASSUME GuardTypeOK, Alone, Linked, [Next]_vars PROVE Linked'
<1> SUFFICES ASSUME ~overlap' PROVE Linked'
  BY DEF Linked
<1>0. ASSUME UNCHANGED <<bansPin, configPin>>, filters' = filters \/ filters' = <<>>,
             ~overlap,
             \A p \in Runs : \/ pc'[p] \notin {"detach", "attach", "unpin-bans", "unpin-config"}
                             \/ pc'[p] = pc[p] /\ prog'[p] = prog[p]
                             \/ /\ pc[p] = "detach" /\ pc'[p] = "attach"
                                /\ prog'[p] = prog[p]
                             \/ ~Attached' /\ pc'[p] \in {"unpin-bans", "unpin-config"}
      PROVE  Linked'
  BY <1>0 DEF Linked, Pinned, Attached
<1>1. ASSUME NEW p \in Runs, NEW c,
             NEW l \in {"object", "config", "unhook", "check"}, Begin(p, c, l)
      PROVE  Linked'
  <2>1. l \in Labels
    BY DEF Labels
  <2> QED
    BY <1>0, <1>1, <2>1, Starts
<1>2. ASSUME NEW p \in Procs, Load(p) \/ SetThrottle(p) \/ Unload(p) \/ Status(p)
      PROVE  Linked'
  BY <1>1, <1>2, Commanded DEF Runs
<1>3. CASE Watchdog
  BY <1>1, <1>3 DEF Watchdog, Runs
<1>4. ASSUME NEW p \in Runs, LoadObject(p) PROVE Linked'
  <2>1. ~overlap /\ pc[p] = "object"
    BY <1>4 DEF LoadObject, Jump
  <2>2. /\ bansPin' # 0 /\ configPin' # 0
        /\ bansPin # 0 => bansPin' = bansPin
        /\ configPin # 0 => configPin' = configPin
    <3>1. bansMade + 1 # 0
      BY DEF GuardTypeOK
    <3>2. Len(Append(conf, Unset)) # 0
      BY AppendSeq DEF GuardTypeOK, Unset, Settings
    <3> QED
      BY <1>4, <3>1, <3>2 DEF LoadObject
  <2>3. prog'[p] = [bans |-> bansPin', config |-> configPin']
    BY <1>4 DEF LoadObject, GuardTypeOK
  <2>4. \A q \in Runs : pc'[q] = IF q = p THEN "detach" ELSE "idle"
    BY <1>4, <2>1 DEF LoadObject, Jump, GuardTypeOK, Alone
  <2>5. filters' = filters
    BY <1>4 DEF LoadObject
  <2> QED
    BY <2>1, <2>2, <2>3, <2>4, <2>5 DEF Linked, Pinned, Attached
<1>5. ASSUME NEW p \in Runs, LoadDetach(p) PROVE Linked'
  BY <1>0, <1>5 DEF LoadDetach, Goto, Jump, GuardTypeOK, pinVars
<1>6. ASSUME NEW p \in Runs, LoadAttach(p) PROVE Linked'
  <2>1. CASE link = "clsact"
    <3>1. filters' = <<prog[p]>> \o filters /\ Goto(p, "config") /\ pc[p] = "attach"
      BY <1>6, <2>1 DEF LoadAttach
    <3>2. ~overlap /\ Pinned(prog[p])
      BY <3>1 DEF Goto, Jump, Linked
    <3>3. UNCHANGED <<bansPin, configPin>>
      BY <1>6 DEF LoadAttach, pinVars
    <3>4. Head(filters') = prog[p] /\ filters' # <<>>
      BY <3>1, PushSeq DEF GuardTypeOK
    <3>5. \A q \in Runs : pc'[q] = IF q = p THEN "config" ELSE "idle"
      BY <3>1, <3>2 DEF Goto, Jump, GuardTypeOK, Alone
    <3> QED
      BY <3>2, <3>3, <3>4, <3>5 DEF Linked, Pinned
  <2>2. CASE link # "clsact"
    <3>1. End(p) /\ UNCHANGED <<filters, bansPin, configPin>>
      BY <1>6, <2>2 DEF LoadAttach, pinVars
    <3> QED
      BY <1>0, <3>1 DEF End, GuardTypeOK
  <2> QED
    BY <2>1, <2>2
<1>7. ASSUME NEW p \in Runs, NEW l \in Labels, Goto(p, l), UNCHANGED <<bansPin, configPin, filters>>,
             l \notin {"detach", "attach", "unpin-bans", "unpin-config"}
      PROVE  Linked'
  BY <1>0, <1>7 DEF Goto, Jump, GuardTypeOK
<1>8. ASSUME NEW p \in Runs, End(p), UNCHANGED <<bansPin, configPin>>,
             filters' = filters \/ filters' = <<>>
      PROVE  Linked'
  BY <1>0, <1>8 DEF End, GuardTypeOK
<1>9. ASSUME NEW p \in Runs, SetConfig(p) \/ Check(p) \/ Recheck(p) \/ Beat(p)
      PROVE  Linked'
  <2>1. UNCHANGED <<bansPin, configPin, filters>>
    BY <1>9 DEF SetConfig, Check, Recheck, Beat, pinVars
  <2>2. End(p) \/ \E l \in {"recheck", "beat", "readcfg"} : Goto(p, l)
    BY <1>9 DEF SetConfig, Check, Recheck, Beat
  <2> QED
    BY <1>7, <1>8, <2>1, <2>2 DEF Labels
<1>10. ASSUME NEW p \in Runs, ReadConfig(p) PROVE Linked'
  BY <1>0, <1>10 DEF ReadConfig, Jump, GuardTypeOK, pinVars
<1>11. ASSUME NEW p \in Runs, Unhook(p) PROVE Linked'
  <2>1. filters' = <<>> /\ UNCHANGED <<bansPin, configPin>> /\ ~Attached'
    BY <1>11 DEF Unhook, pinVars, Attached
  <2>2. End(p) \/ Goto(p, "unpin-bans")
    BY <1>11 DEF Unhook
  <2>3. ASSUME Goto(p, "unpin-bans") PROVE Linked'
    BY <1>0, <2>1, <2>3 DEF Goto, Jump, GuardTypeOK
  <2> QED
    BY <1>8, <2>1, <2>2, <2>3
<1>12. ASSUME NEW p \in Runs, UnpinBans(p) \/ UnpinConfig(p) PROVE Linked'
  <2>1. ~overlap /\ pc[p] \in {"unpin-bans", "unpin-config"} /\ filters' = filters
    BY <1>12 DEF UnpinBans, UnpinConfig, Goto, Jump, End
  <2>2. ~Attached'
    BY <2>1 DEF Linked, Attached
  <2>3. \A q \in Runs : pc'[q] \in {"idle", "unpin-config"}
    BY <1>12, <2>1 DEF UnpinBans, UnpinConfig, Goto, Jump, End, GuardTypeOK, Alone
  <2> QED
    BY <2>2, <2>3 DEF Linked
<1>13. ASSUME NEW p \in Runs, Killed(p) PROVE Linked'
  BY <1>8, <1>13 DEF Killed, pinVars
<1>14. CASE IfaceLost \/ IfaceBack \/ FilterDeleted \/ SetBack \/ Tick \/ UNCHANGED vars
  BY <1>0, <1>14
     DEF IfaceLost, IfaceBack, FilterDeleted, SetBack, Tick, vars, runVars, pinVars
<1> QED
  BY <1>2, <1>3, <1>4, <1>5, <1>6, <1>9, <1>10, <1>11, <1>12, <1>13, <1>14
     DEF Next, Step
-----------------------------------------------------------------------------
(* Every configuration is one that set_config leaves as it is, and a       *)
(* watchdog that reloads, alone, carries the one in force.                 *)
Carried ==
    /\ \A i \in 1 .. Len(conf) : Normal(conf[i]) = conf[i]
    /\ ~overlap => \A p \in Runs :
          cmd[p] = "watchdog" /\ pc[p] \in {"object", "detach", "attach", "config"}
             => arg[p] = Throttle

(* The throttle in force is in the form set_config stores. *)
LEMMA ThrottleNormal ==
    ASSUME GuardTypeOK, Carried PROVE Normal(Throttle) = Throttle
<1>1. Normal(Unset) = Unset
  BY DEF Normal, Unset
<1>2. configPin # 0 => configPin \in 1 .. Len(conf)
  BY DEF GuardTypeOK
<1> QED
  BY <1>1, <1>2 DEF Carried, Throttle

(* As long as runs have not overlapped, a watchdog between its reading of  *)
(* the setting and its writing it back carries the setting in force.       *)
LEMMA CarriedStep ==
    ASSUME GuardTypeOK, Alone, Carried, [Next]_vars PROVE Carried'
<1> DEFINE Reloads(p) == cmd[p] = "watchdog"
                            /\ pc[p] \in {"object", "detach", "attach", "config"}
<1>0. ASSUME UNCHANGED <<conf, configPin>>,
             ~overlap' => ~overlap,
             ~overlap' => \A p \in Runs : Reloads(p)' => Reloads(p) /\ arg'[p] = arg[p]
      PROVE  Carried'
  BY <1>0 DEF Carried, Throttle
<1>1. ASSUME NEW p \in Runs, NEW c, NEW l \in Labels, Begin(p, c, l),
             c # "watchdog" \/ l = "check"
      PROVE  Carried'
  <2>1. ASSUME ~overlap', NEW q \in Runs PROVE ~Reloads(q)'
    BY <1>1, <2>1, Starts
  <2> QED
    BY <1>0, <1>1, <2>1, Starts
<1>2. ASSUME NEW p \in Procs, Load(p) \/ SetThrottle(p) \/ Unload(p) \/ Status(p)
      PROVE  Carried'
  BY <1>1, <1>2, Commanded DEF Runs, Labels
<1>3. CASE Watchdog
  BY <1>1, <1>3 DEF Watchdog, Runs, Labels
<1>4. ASSUME NEW p \in Runs, End(p), UNCHANGED <<conf, configPin>> PROVE Carried'
  BY <1>0, <1>4 DEF End, GuardTypeOK
<1>5. ASSUME NEW p \in Runs, NEW l, Goto(p, l), UNCHANGED <<conf, configPin>>,
             l \in {"object", "detach", "attach", "config"}
                => pc[p] \in {"object", "detach", "attach", "config"}
      PROVE  Carried'
  BY <1>0, <1>5 DEF Goto, Jump, GuardTypeOK
<1>6. ASSUME NEW p \in Runs, LoadObject(p) PROVE Carried'
  <2>1. /\ overlap' = overlap /\ pc[p] = "object" /\ UNCHANGED <<arg, cmd>>
        /\ \A q \in Runs : pc'[q] = IF q = p THEN "detach" ELSE pc[q]
    BY <1>6 DEF LoadObject, Jump, GuardTypeOK
  <2>2. CASE configPin # 0
    BY <1>0, <1>6, <2>1, <2>2 DEF LoadObject
  <2>3. CASE configPin = 0
    <3>1. /\ conf' = Append(conf, Unset) /\ configPin' = Len(conf')
          /\ conf \in Seq(Settings) /\ Unset \in Settings
      BY <1>6, <2>3 DEF LoadObject, GuardTypeOK, Settings, Unset
    <3>2. /\ Len(conf') = Len(conf) + 1 /\ Len(conf) \in Nat
          /\ conf'[Len(conf) + 1] = Unset
          /\ \A i \in 1 .. Len(conf) : conf'[i] = conf[i]
      BY <3>1, AppendSeq
    <3>3. Throttle' = Unset /\ Throttle = Unset
      BY <2>3, <3>1, <3>2 DEF Throttle
    <3>4. Normal(Unset) = Unset
      BY DEF Normal, Unset
    <3>5. \A i \in 1 .. Len(conf') : Normal(conf'[i]) = conf'[i]
      BY <3>2, <3>4 DEF Carried
    <3> QED
      BY <2>1, <3>3, <3>5 DEF Carried
  <2> QED
    BY <2>2, <2>3
<1>7. ASSUME NEW p \in Runs, LoadDetach(p) \/ LoadAttach(p) PROVE Carried'
  <2>1. UNCHANGED <<conf, configPin>>
    BY <1>7 DEF LoadDetach, LoadAttach, pinVars
  <2>2. \/ End(p)
        \/ pc[p] \in {"detach", "attach"} /\ \E l \in {"attach", "config"} : Goto(p, l)
    BY <1>7 DEF LoadDetach, LoadAttach
  <2> QED
    BY <1>4, <1>5, <2>1, <2>2
<1>8. ASSUME NEW p \in Runs, SetConfig(p) PROVE Carried'
  <2>1. CASE configPin = 0
    BY <1>4, <1>8, <2>1 DEF SetConfig, pinVars
  <2>2. CASE configPin # 0
    <3>1. conf' = [conf EXCEPT ![configPin] = Normal(arg[p])] /\ pc[p] = "config"
      BY <1>8, <2>2 DEF SetConfig
    <3>2. /\ conf \in Seq(Settings) /\ Normal(arg[p]) \in Settings
          /\ configPin \in 1 .. Len(conf) /\ Normal(Normal(arg[p])) = Normal(arg[p])
      BY <2>2, NormalType DEF GuardTypeOK
    <3>3. /\ Len(conf') = Len(conf) /\ conf'[configPin] = Normal(arg[p])
          /\ \A i \in 1 .. Len(conf) : i # configPin => conf'[i] = conf[i]
      BY <3>1, <3>2, ReplaceSeq
    <3>4. \A i \in 1 .. Len(conf') : Normal(conf'[i]) = conf'[i]
      BY <3>2, <3>3 DEF Carried
    <3>5. End(p) \/ Goto(p, "recheck")
      BY <1>8, <2>2 DEF SetConfig
    <3>6. overlap' = overlap /\ pc'[p] \in {"idle", "recheck"}
          /\ \A q \in Runs \ {p} : pc'[q] = pc[q]
      BY <3>5 DEF End, Goto, Jump, GuardTypeOK
    <3>7. ~overlap' => \A q \in Runs : pc'[q] \in {"idle", "recheck"}
      BY <3>1, <3>6 DEF Alone
    <3> QED
      BY <3>4, <3>7 DEF Carried
  <2> QED
    BY <2>1, <2>2
<1>9. ASSUME NEW p \in Runs, Check(p) \/ Recheck(p) \/ Beat(p) PROVE Carried'
  <2>1. UNCHANGED <<conf, configPin>>
    BY <1>9 DEF Check, Recheck, Beat, pinVars
  <2>2. End(p) \/ \E l \in {"beat", "readcfg"} : Goto(p, l)
    BY <1>9 DEF Check, Recheck, Beat
  <2> QED
    BY <1>4, <1>5, <2>1, <2>2
<1>10. ASSUME NEW p \in Runs, ReadConfig(p) PROVE Carried'
  <2>1. UNCHANGED <<conf, configPin, overlap, cmd>> /\ Throttle' = Throttle
    BY <1>10 DEF ReadConfig, Jump, pinVars, Throttle
  <2>2. arg'[p] = Throttle
    BY <1>10 DEF ReadConfig, GuardTypeOK
  <2>3. \A q \in Runs \ {p} : pc'[q] = pc[q] /\ arg'[q] = arg[q]
    BY <1>10 DEF ReadConfig, Jump, GuardTypeOK
  <2> QED
    BY <2>1, <2>2, <2>3 DEF Carried
<1>11. ASSUME NEW p \in Runs, Unhook(p) \/ UnpinBans(p) PROVE Carried'
  <2>1. UNCHANGED <<conf, configPin>>
    BY <1>11 DEF Unhook, UnpinBans, pinVars
  <2>2. End(p) \/ \E l \in {"unpin-bans", "unpin-config"} : Goto(p, l)
    BY <1>11 DEF Unhook, UnpinBans
  <2> QED
    BY <1>4, <1>5, <2>1, <2>2
<1>12. ASSUME NEW p \in Runs, UnpinConfig(p) PROVE Carried'
  <2>1. pc[p] # "idle" /\ overlap' = overlap /\ conf' = conf
    BY <1>12 DEF UnpinConfig, End
  <2>2. ~overlap' => \A q \in Runs : pc'[q] = "idle"
    BY <1>12, <2>1 DEF UnpinConfig, End, GuardTypeOK, Alone
  <2> QED
    BY <2>1, <2>2 DEF Carried
<1>13. ASSUME NEW p \in Runs, Killed(p) PROVE Carried'
  BY <1>4, <1>13 DEF Killed, pinVars
<1>14. CASE IfaceLost \/ IfaceBack \/ FilterDeleted \/ SetBack \/ Tick \/ UNCHANGED vars
  BY <1>0, <1>14
     DEF IfaceLost, IfaceBack, FilterDeleted, SetBack, Tick, vars, runVars, pinVars
<1> QED
  BY <1>2, <1>3, <1>6, <1>7, <1>8, <1>9, <1>10, <1>11, <1>12, <1>13, <1>14
     DEF Next, Step

(* What the watchdog then writes is what is there. *)
LEMMA RepairWrites ==
    ASSUME GuardTypeOK, Carried, NEW p \in Runs,
           cmd[p] = "watchdog", SetConfig(p), ~overlap
    PROVE  Throttle' = Throttle
<1>1. pc[p] = "config" /\ arg[p] = Throttle /\ configPin' = configPin
  BY DEF SetConfig, Carried, pinVars
<1>2. CASE configPin = 0
  BY <1>1, <1>2 DEF Throttle
<1>3. CASE configPin # 0
  <2>1. conf' = [conf EXCEPT ![configPin] = Normal(arg[p])]
    BY <1>3 DEF SetConfig
  <2>2. /\ conf \in Seq(Settings) /\ configPin \in 1 .. Len(conf)
        /\ Normal(arg[p]) = Throttle /\ Throttle \in Settings
    BY <1>1, <1>3, ThrottleNormal, ThrottleType DEF GuardTypeOK
  <2>3. conf'[configPin] = Throttle
    BY <2>1, <2>2, ReplaceSeq
  <2> QED
    BY <1>1, <1>3, <2>3 DEF Throttle
<1> QED
  BY <1>2, <1>3
-----------------------------------------------------------------------------
(* Where there is a filter it is seen now; a run that is about to write    *)
(* the heartbeat has seen one since it began, and so had the run that      *)
(* wrote the last one.                                                     *)
Witnessed ==
    /\ Attached => seen = now
    /\ seen <= now /\ \A p \in Runs : began[p] <= now
    /\ \A p \in Runs : pc[p] = "beat" => began[p] <= seen
    /\ heartbeat # 0 => beatBegan <= seen

(* However runs overlap, the run behind a heartbeat began no later than    *)
(* the filter was last attached.                                           *)
LEMMA WitnessedStep ==
    ASSUME GuardTypeOK, Witnessed, [Next]_vars PROVE Witnessed'
<1> USE GuardAssumption
<1>0. ASSUME UNCHANGED <<now, seen, heartbeat, beatBegan>>,
             filters' = filters \/ filters' = <<>>,
             \A p \in Runs : \/ began'[p] = began[p] /\ (pc'[p] = "beat" => pc[p] = "beat")
                             \/ began'[p] = 0
                             \/ began'[p] = now /\ pc'[p] = "check"
                             \/ began'[p] = began[p] /\ Attached
      PROVE  Witnessed'
  <2>1. Attached' => Attached
    BY <1>0 DEF Attached
  <2>2. now \in Nat /\ seen \in Nat /\ \A p \in Runs : began[p] \in Nat
    BY DEF GuardTypeOK
  <2>3. ASSUME NEW p \in Runs
        PROVE  began'[p] <= now /\ (pc'[p] = "beat" => began'[p] <= seen)
    BY <1>0, <2>2 DEF Witnessed
  <2> QED
    BY <1>0, <2>1, <2>3 DEF Witnessed
<1>1. ASSUME NEW p \in Runs, NEW c, NEW l \in Labels \ {"beat"}, Begin(p, c, l)
      PROVE  Witnessed'
  BY <1>0, <1>1, Starts
<1>2. ASSUME NEW p \in Procs, Load(p) \/ SetThrottle(p) \/ Unload(p) \/ Status(p)
      PROVE  Witnessed'
  BY <1>1, <1>2, Commanded DEF Runs, Labels
<1>3. CASE Watchdog
  BY <1>1, <1>3 DEF Watchdog, Runs, Labels
<1>4. ASSUME NEW p \in Runs, End(p) \/ \E l \in Labels \ {"beat"} : Jump(p, l),
             UNCHANGED <<now, seen, heartbeat, beatBegan>>,
             filters' = filters \/ filters' = <<>>
      PROVE  Witnessed'
  BY <1>0, <1>4 DEF End, Jump, GuardTypeOK
<1>5. ASSUME NEW p \in Runs,
             LoadObject(p) \/ LoadDetach(p) \/ SetConfig(p) \/ ReadConfig(p)
      PROVE  Witnessed'
  BY <1>4, <1>5 DEF LoadObject, LoadDetach, SetConfig, ReadConfig, Goto, Labels,
     beatVars
<1>6. ASSUME NEW p \in Runs, Unhook(p) \/ UnpinBans(p) \/ UnpinConfig(p) \/ Killed(p)
      PROVE  Witnessed'
  BY <1>4, <1>6 DEF Unhook, UnpinBans, UnpinConfig, Killed, Goto, Labels, beatVars
<1>7. ASSUME NEW p \in Runs, LoadAttach(p) PROVE Witnessed'
  <2>1. CASE link = "clsact"
    <3>1. /\ seen' = now /\ UNCHANGED <<now, heartbeat, beatBegan>>
          /\ pc' = [pc EXCEPT ![p] = "config"] /\ began' = began
      BY <1>7, <2>1 DEF LoadAttach, Goto, Jump, beatVars
    <3> QED
      BY <3>1 DEF Witnessed, GuardTypeOK
  <2>2. CASE link # "clsact"
    BY <1>4, <1>7, <2>2 DEF LoadAttach, beatVars
  <2> QED
    BY <2>1, <2>2
<1>8. ASSUME NEW p \in Runs, Check(p) \/ Recheck(p) PROVE Witnessed'
  <2>1. UNCHANGED <<now, seen, heartbeat, beatBegan, filters>>
    BY <1>8 DEF Check, Recheck, beatVars
  <2>2. End(p) \/ Jump(p, "readcfg") \/ (Attached /\ Jump(p, "beat"))
    BY <1>8 DEF Check, Recheck, Goto, CheckFinds
  <2>3. ASSUME Attached, Jump(p, "beat") PROVE Witnessed'
    BY <1>0, <2>1, <2>3 DEF Jump, GuardTypeOK
  <2> QED
    BY <1>4, <2>1, <2>2, <2>3 DEF Labels
<1>9. ASSUME NEW p \in Runs, Beat(p) PROVE Witnessed'
  <2>1. UNCHANGED <<now, seen, filters>> /\ began[p] <= seen
    BY <1>9 DEF Beat, Witnessed
  <2>2. beatBegan' = began[p] \/ UNCHANGED <<heartbeat, beatBegan>>
    BY <1>9 DEF Beat, beatVars
  <2>3. \A q \in Runs : \/ began'[q] = 0
                        \/ began'[q] = began[q] /\ pc'[q] = pc[q]
    BY <1>9 DEF Beat, End, GuardTypeOK
  <2>4. now \in Nat /\ seen \in Nat /\ Attached' = Attached
    BY <2>1 DEF GuardTypeOK, Attached
  <2> QED
    BY <2>1, <2>2, <2>3, <2>4 DEF Witnessed
<1>10. CASE IfaceLost \/ IfaceBack \/ FilterDeleted \/ SetBack \/ UNCHANGED vars
  BY <1>0, <1>10 DEF IfaceLost, IfaceBack, FilterDeleted, SetBack, vars, runVars,
     beatVars
<1>11. CASE Tick
  <2>1. /\ now' = now + 1 /\ seen' = IF Attached THEN now + 1 ELSE seen
        /\ UNCHANGED <<filters, heartbeat, beatBegan, pc, began>>
    BY <1>11 DEF Tick, beatVars, runVars
  <2> QED
    BY <2>1 DEF Witnessed, Attached, GuardTypeOK
<1> QED
  BY <1>2, <1>3, <1>5, <1>6, <1>7, <1>8, <1>9, <1>10, <1>11 DEF Next, Step

(* A claim within MaxAge then speaks of a filter that was there. *)
LEMMA WitnessedHealth ==
    ASSUME GuardTypeOK, Witnessed PROVE HealthMeansEnforced
<1> SUFFICES ASSUME Health = "ok"
             PROVE  now - seen <= MaxAge + (heartbeat + skew - beatBegan)
  BY DEF HealthMeansEnforced
<1>1. healthPin /\ heartbeat # 0
  BY DEF Health
<1>2. ~((now - skew) - heartbeat > MaxAge)
  BY <1>1 DEF Health
<1> QED
  BY <1>1, <1>2, GuardAssumption DEF Witnessed, GuardTypeOK
-----------------------------------------------------------------------------
GuardInv == GuardTypeOK /\ Alone /\ Linked /\ Carried /\ Witnessed

(* The inductive invariant holds throughout. *)
LEMMA GuardInvHolds == Spec => []GuardInv
<1>1. Init => GuardInv
  <2> SUFFICES ASSUME Init PROVE GuardInv
    OBVIOUS
  <2>1. GuardTypeOK
    BY GuardTypeInit
  <2>2. Alone /\ Linked
    BY DEF Init, Alone, Linked, Attached
  <2>3. Carried
    BY DEF Init, Carried
  <2>4. Witnessed
    BY DEF Init, Witnessed, Attached
  <2> QED
    BY <2>1, <2>2, <2>3, <2>4 DEF GuardInv
<1>2. GuardInv /\ [Next]_vars => GuardInv'
  BY GuardTypeStep, AloneStep, LinkedStep, CarriedStep, WitnessedStep DEF GuardInv
<1> QED
  BY <1>1, <1>2, PTL DEF Spec

(* Wherever runs of fips-guard are killed or lose the interface, and       *)
(* however many there are, as long as no two have been at work at once the *)
(* filter that decides reads the maps that the commands manage: load links *)
(* to the pins, purge detaches before it unpins (guard/src/main.rs:382).   *)
THEOREM NeverOrphaned == Spec => []NotOrphaned
<1>1. GuardInv => NotOrphaned
  BY DEF GuardInv, Linked, Pinned, NotOrphaned
<1> QED
  BY <1>1, GuardInvHolds, PTL

(* A repair that runs alone puts the throttle back as it was, whichever    *)
(* maps it found or had to create (cmd_watchdog, guard/src/main.rs:255).   *)
THEOREM ThrottleSurvivesRepair == Spec => RepairKeepsThrottle
<1>1. GuardInv /\ [Next]_vars =>
        [\A p \in Runs : cmd[p] = "watchdog" /\ SetConfig(p) /\ ~overlap
            => Throttle' = Throttle]_vars
  BY RepairWrites DEF GuardInv
<1> QED
  BY <1>1, GuardInvHolds, PTL DEF Spec, RepairKeepsThrottle

(* `health' says ok only if a filter was there within MaxAge and the time  *)
(* the confirming run took, plus what the clock has been set back; for any *)
(* number of overlapping runs (cmd_health, guard/src/main.rs:302).         *)
THEOREM HealthIsHonest == Spec => []HealthMeansEnforced
<1>1. GuardInv => HealthMeansEnforced
  BY WitnessedHealth DEF GuardInv
<1> QED
  BY <1>1, GuardInvHolds, PTL
==============================================================================
