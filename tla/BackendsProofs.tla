---------------------------- MODULE BackendsProofs ----------------------------
(***************************************************************************)
(* The eBPF backend, alone and behind the wrapper, for any number of       *)
(* addresses and runs, any capacity and any clock.                         *)
(***************************************************************************)
EXTENDS Backends, FiniteSetTheorems, TLAPS

Labels == {"idle", "file", "exec", "insert", "reinsert", "sweep", "remove",
           "look", "delete", "readback", "check", "drop"}
Jobs == [cmd : {"none", "ban", "unban", "check", "list"}, addr : Ips \cup {"none"},
         until : Int, found : BOOLEAN, victims : SUBSET Ips, sweptAt : Int]
Lags == Nat \cup {NotFiled}

WrapTypeOK ==
    /\ bans \in Lists /\ file \in Lists /\ now \in Nat /\ now >= 1
    /\ pc \in [Procs -> Labels] /\ job \in [Procs -> Jobs]
    /\ result \in [Procs -> {"none", "ok", "err"}]
    /\ crossed \in [Procs -> BOOLEAN]
    /\ order \in [Procs -> Orders \cup {NoOrder}] /\ lag \in [Procs -> Lags]
    /\ agreed \in [Ips -> Lags]

(* What a run is doing, by where it is: its label l, job j, result r, the  *)
(* wrapper's order o and lag g.                                            *)
Consistent(l, j, r, o, g) ==
    /\ l \in {"idle", "file", "exec"} => j = NoJob
    /\ l \in {"insert", "reinsert"} => j.cmd = "ban"
    /\ l \in {"sweep", "remove"} => j.cmd \in {"ban", "list"}
    /\ l \in {"look", "delete", "readback"} => j.cmd = "unban" /\ j.until = NoBan
    /\ l \in {"check", "drop"} => j.cmd = "check"
    /\ j.cmd \in {"ban", "unban", "check"} => j.addr \in Ips
    /\ l # "remove" => j.victims = {}
    /\ l # "idle" => r = "none"
    /\ l = "idle" => o = NoOrder
    /\ l \in {"idle", "file"} => g = NotFiled
    /\ l \in {"file", "exec"} => o # NoOrder
    /\ g # NotFiled => o # NoOrder
    /\ o # NoOrder /\ l \notin {"file", "exec"} => j.cmd = o.op /\ j.addr = o.ip

Control == \A p \in Procs : Consistent(pc[p], job[p], result[p], order[p], lag[p])

(* Two runs at work at the same time cross each other. *)
Crossing ==
    \A p, q \in Procs : p # q /\ Running(p) /\ Running(q) => crossed[p]

RunInv == WrapTypeOK /\ Control /\ Crossing

(* Orders and jobs. *)
LEMMA OrderFacts ==
    ASSUME NEW o \in Orders \cup {NoOrder}, o # NoOrder
    PROVE  /\ o.op \in {"ban", "unban"} /\ o.ip \in Ips
           /\ o.op = "ban" => o.ttl \in Ttls
BY DEF Orders, NoOrder

(* A job has the fields it was made from, and starts with nothing          *)
(* collected to remove.                                                    *)
LEMMA JobFacts ==
    /\ NoJob \in Jobs /\ NoJob.cmd = "none" /\ NoJob.victims = {}
    /\ \A ip \in Ips, c \in {"ban", "unban", "check"}, u \in Int :
          /\ Job(c, ip, u) \in Jobs /\ Job(c, ip, u).cmd = c /\ Job(c, ip, u).addr = ip
          /\ Job(c, ip, u).until = u /\ Job(c, ip, u).victims = {}
    /\ Job("list", "none", NoBan) \in Jobs /\ Job("list", "none", NoBan).cmd = "list"
    /\ Job("list", "none", NoBan).victims = {}
BY DEF NoJob, Job, Jobs, NoBan

(* A ban list stays one when an entry is set or removed. *)
LEMMA ListFacts ==
    /\ Empty \in Lists
    /\ \A l \in Lists, ip \in Ips, u \in Int : [l EXCEPT ![ip] = u] \in Lists
BY DEF Empty, Lists, NoBan
-------------------------------------------------------------------------------
(* A step of run p leaves the other runs alone; it ends, if it does,       *)
(* without a trace of its order.                                           *)
OnlyRun(p) ==
    \A q \in Procs \ {p} : /\ pc'[q] = pc[q] /\ job'[q] = job[q] /\ result'[q] = result[q]
                           /\ order'[q] = order[q] /\ lag'[q] = lag[q]

ConsistentRun(p) == Consistent(pc[p], job[p], result[p], order[p], lag[p])

(* A step of one run that leaves that run consistent keeps RunInv: the     *)
(* other runs are where they were, and a run that begins next to another   *)
(* marks both.                                                             *)
LEMMA RunInvFrom ==
    ASSUME RunInv, NEW p \in Procs, WrapTypeOK', OnlyRun(p), ConsistentRun(p)',
           Enter(p) \/ (crossed' = crossed /\ Running(p))
    PROVE  RunInv'
<1>1. Control'
  BY DEF RunInv, Control, OnlyRun, ConsistentRun
<1>2. Crossing'
  <2>1. CASE Enter(p)
    <3>1. crossed' = [q \in Procs |-> IF q = p THEN \E r \in Procs : Running(r)
                                      ELSE Running(q)]
      BY <2>1 DEF Enter
    <3>2. \A q \in Procs \ {p} : Running(q)' = Running(q)
      BY DEF OnlyRun, Running
    <3>3. ASSUME NEW a \in Procs, NEW b \in Procs, a # b, Running(a)', Running(b)'
          PROVE  crossed'[a]
      <4>1. CASE a = p
        <5>1. Running(b)
          BY <3>2, <3>3, <4>1
        <5> QED
          BY <3>1, <4>1, <5>1
      <4>2. CASE a # p
        <5>1. Running(a)
          BY <3>2, <3>3, <4>2
        <5> QED
          BY <3>1, <4>2, <5>1
      <4> QED
        BY <4>1, <4>2
    <3> QED
      BY <3>3 DEF Crossing
  <2>2. CASE crossed' = crossed /\ Running(p)
    <3>1. \A q \in Procs : Running(q)' => Running(q)
      BY <2>2 DEF OnlyRun, Running
    <3> QED
      BY <2>2, <3>1 DEF RunInv, Crossing
  <2> QED
    BY <2>1, <2>2
<1> QED
  BY <1>1, <1>2 DEF RunInv

(* The ways a run's variables change. *)
LEMMA EndEffect ==
    ASSUME WrapTypeOK, NEW p \in Procs, NEW r \in {"none", "ok", "err"}, End(p, r)
    PROVE  /\ pc' \in [Procs -> Labels] /\ job' \in [Procs -> Jobs]
           /\ result' \in [Procs -> {"none", "ok", "err"}]
           /\ pc'[p] = "idle" /\ job'[p] = NoJob /\ result'[p] = r
           /\ \A q \in Procs \ {p} : pc'[q] = pc[q] /\ job'[q] = job[q] /\ result'[q] = result[q]
BY JobFacts DEF End, WrapTypeOK, Labels

(* A step within a command moves its own run only. *)
LEMMA GotoEffect ==
    ASSUME WrapTypeOK, NEW p \in Procs, NEW l \in Labels, Goto(p, l)
    PROVE  /\ pc' \in [Procs -> Labels] /\ result' = result
           /\ result' \in [Procs -> {"none", "ok", "err"}]
           /\ pc'[p] = l /\ \A q \in Procs \ {p} : pc'[q] = pc[q]
BY DEF Goto, WrapTypeOK

(* Starting a command gives its run a job and touches no list. *)
LEMMA BeginEffect ==
    ASSUME WrapTypeOK, NEW p \in Procs, NEW l \in Labels, NEW j \in Jobs, Begin(p, j, l)
    PROVE  /\ pc' \in [Procs -> Labels] /\ job' \in [Procs -> Jobs]
           /\ result' \in [Procs -> {"none", "ok", "err"}]
           /\ pc'[p] = l /\ job'[p] = j /\ result'[p] = "none"
           /\ \A q \in Procs \ {p} : pc'[q] = pc[q] /\ job'[q] = job[q] /\ result'[q] = result[q]
           /\ UNCHANGED <<bans, now>>
BY DEF Begin, WrapTypeOK

(* The wrapper's order lasts exactly as long as its run. *)
LEMMA ForgetEffect ==
    ASSUME WrapTypeOK, NEW p \in Procs, Forget(p)
    PROVE  /\ order' \in [Procs -> Orders \cup {NoOrder}] /\ lag' \in [Procs -> Lags]
           /\ \A q \in Procs \ {p} : order'[q] = order[q] /\ lag'[q] = lag[q]
           /\ Running(p)' => order'[p] = order[p] /\ lag'[p] = lag[p]
           /\ ~Running(p)' => order'[p] = NoOrder /\ lag'[p] = NotFiled
BY DEF Forget, WrapTypeOK, Lags

(* A step of the guard (GuardBans!Step): what it does to its run. *)
LEMMA StepEffect ==
    ASSUME RunInv, NEW p \in Procs, Step(p)
    PROVE  /\ bans' \in Lists /\ now' = now /\ crossed' = crossed
           /\ pc[p] \notin {"idle", "file", "exec"}
           /\ pc' \in [Procs -> Labels] /\ job' \in [Procs -> Jobs]
           /\ result' \in [Procs -> {"none", "ok", "err"}]
           /\ \A q \in Procs \ {p} : pc'[q] = pc[q] /\ job'[q] = job[q] /\ result'[q] = result[q]
           /\ \/ pc'[p] = "idle" /\ job'[p] = NoJob
              \/ /\ pc'[p] \notin {"idle", "file", "exec"} /\ result'[p] = "none"
                 /\ job'[p].cmd = job[p].cmd /\ job'[p].addr = job[p].addr
                 /\ job'[p].until = job[p].until
                 /\ \A o, g : Consistent(pc[p], job[p], result[p], o, g)
                                => Consistent(pc'[p], job'[p], result'[p], o, g)
<1> DEFINE j == job[p]
<1>0. /\ WrapTypeOK /\ ConsistentRun(p)
  BY DEF RunInv, Control, ConsistentRun
<1>00. /\ j \in Jobs /\ bans \in Lists /\ job \in [Procs -> Jobs] /\ now \in Int
       /\ j.cmd \in {"ban", "unban", "check"} => j.addr \in Ips
       /\ pc[p] # "idle" => result[p] = "none"
       /\ j.until \in Int /\ j.victims \in SUBSET Ips
  BY <1>0 DEF WrapTypeOK, ConsistentRun, Consistent, Jobs
<1>000. NoBan \in Int
  BY DEF NoBan
<1>1. CASE Insert(p)
  <2>1. /\ pc[p] \in {"insert", "reinsert"} /\ End(p, "ok") /\ now' = now /\ crossed' = crossed
        /\ bans' = [bans EXCEPT ![j.addr] = j.until]
    BY <1>1 DEF Insert, Quiet
  <2>2. j.addr \in Ips
    BY <1>0, <1>00, <2>1 DEF ConsistentRun, Consistent
  <2>3. bans' \in Lists
    BY <1>00, <2>1, <2>2, ListFacts
  <2> QED
    BY <1>0, <2>1, <2>3, EndEffect
<1>2. CASE InsertFails(p)
  <2>1. pc[p] \in {"insert", "reinsert"} /\ now' = now /\ crossed' = crossed /\ bans' = bans
    BY <1>2 DEF InsertFails, Quiet
  <2>2. CASE End(p, "err")
    BY <1>0, <1>00, <2>1, <2>2, EndEffect
  <2>3. CASE pc[p] = "insert" /\ Goto(p, "sweep") /\ UNCHANGED job
    <3>1. /\ pc' \in [Procs -> Labels] /\ result' = result /\ pc'[p] = "sweep"
          /\ \A q \in Procs \ {p} : pc'[q] = pc[q]
      BY <1>0, <2>3, GotoEffect DEF Labels
    <3>2. ASSUME NEW o, NEW g, Consistent(pc[p], job[p], result[p], o, g)
          PROVE  Consistent(pc'[p], job'[p], result'[p], o, g)
      BY <2>3, <3>1, <3>2 DEF Consistent
    <3> QED
      BY <1>0, <1>00, <2>1, <2>3, <3>1, <3>2 DEF WrapTypeOK
  <2> QED
    BY <1>2, <2>2, <2>3 DEF InsertFails
<1>3. CASE SweepScan(p)
  <2>1. /\ pc[p] = "sweep" /\ Goto(p, "remove") /\ now' = now /\ crossed' = crossed
        /\ bans' = bans
        /\ job' = [job EXCEPT ![p] = [j EXCEPT !.victims = {ip \in Ips : Lapsed(ip)},
                                               !.sweptAt = now]]
    BY <1>3 DEF SweepScan, Quiet
  <2>2. /\ job' \in [Procs -> Jobs] /\ job'[p].cmd = j.cmd /\ job'[p].addr = j.addr
        /\ job'[p].until = j.until
        /\ \A q \in Procs \ {p} : job'[q] = job[q]
    BY <1>00, <2>1 DEF Jobs
  <2>3. /\ pc' \in [Procs -> Labels] /\ result' = result /\ pc'[p] = "remove"
        /\ \A q \in Procs \ {p} : pc'[q] = pc[q]
    BY <1>0, <2>1, GotoEffect DEF Labels
  <2>4. ASSUME NEW o, NEW g, Consistent(pc[p], job[p], result[p], o, g)
        PROVE  Consistent(pc'[p], job'[p], result'[p], o, g)
    BY <2>1, <2>2, <2>3, <2>4 DEF Consistent
  <2> QED
    BY <1>0, <1>00, <2>1, <2>2, <2>3, <2>4 DEF WrapTypeOK
<1>4. CASE SweepRemove(p)
  <2>1. PICK ip \in j.victims :
          /\ bans' = [bans EXCEPT ![ip] = NoBan]
          /\ job' = [job EXCEPT ![p] = [j EXCEPT !.victims = @ \ {ip}]]
    BY <1>4 DEF SweepRemove
  <2>2. pc[p] = "remove" /\ UNCHANGED <<now, crossed, pc, result>>
    BY <1>4 DEF SweepRemove, Quiet
  <2>3. /\ job' \in [Procs -> Jobs] /\ job'[p].cmd = j.cmd /\ job'[p].addr = j.addr
        /\ job'[p].until = j.until
        /\ \A q \in Procs \ {p} : job'[q] = job[q]
    BY <1>00, <2>1 DEF Jobs
  <2>4. bans' \in Lists
    BY <1>00, <1>000, <2>1, ListFacts
  <2>5. ASSUME NEW o, NEW g, Consistent(pc[p], job[p], result[p], o, g)
        PROVE  Consistent(pc'[p], job'[p], result'[p], o, g)
    BY <2>2, <2>3, <2>5 DEF Consistent
  <2> QED
    BY <1>0, <1>00, <2>2, <2>3, <2>4, <2>5 DEF WrapTypeOK
<1>5. CASE SweepDone(p)
  <2>1. /\ pc[p] = "remove" /\ now' = now /\ crossed' = crossed /\ bans' = bans
        /\ j.victims = {}
    BY <1>5 DEF SweepDone, Quiet
  <2>2. CASE End(p, "ok")
    BY <1>0, <1>00, <2>1, <2>2, EndEffect
  <2>3. CASE j.cmd = "ban" /\ Goto(p, "reinsert") /\ UNCHANGED job
    <3>1. /\ pc' \in [Procs -> Labels] /\ result' = result /\ pc'[p] = "reinsert"
          /\ \A q \in Procs \ {p} : pc'[q] = pc[q]
      BY <1>0, <2>3, GotoEffect DEF Labels
    <3>2. ASSUME NEW o, NEW g, Consistent(pc[p], job[p], result[p], o, g)
          PROVE  Consistent(pc'[p], job'[p], result'[p], o, g)
      BY <2>1, <2>3, <3>1, <3>2 DEF Consistent
    <3> QED
      BY <1>0, <1>00, <2>1, <2>3, <3>1, <3>2 DEF WrapTypeOK
  <2> QED
    BY <1>5, <2>2, <2>3 DEF SweepDone
<1>6. CASE UnbanLook(p)
  <2>1. /\ pc[p] = "look" /\ Goto(p, "delete") /\ now' = now /\ crossed' = crossed
        /\ bans' = bans
        /\ job' = [job EXCEPT ![p] = [j EXCEPT !.found = InMap(j.addr)]]
    BY <1>6 DEF UnbanLook, Quiet
  <2>2. InMap(j.addr) \in BOOLEAN
    BY DEF InMap
  <2>3. [j EXCEPT !.found = InMap(j.addr)] \in Jobs
    BY <1>00, <2>2, Zenon DEF Jobs
  <2>4. /\ job' \in [Procs -> Jobs] /\ job'[p].cmd = j.cmd /\ job'[p].addr = j.addr
        /\ job'[p].until = j.until /\ job'[p].victims = j.victims
        /\ \A q \in Procs \ {p} : job'[q] = job[q]
    BY <1>00, <2>1, <2>3 DEF Jobs
  <2>5. /\ pc' \in [Procs -> Labels] /\ result' = result /\ pc'[p] = "delete"
        /\ \A q \in Procs \ {p} : pc'[q] = pc[q]
    BY <1>0, <2>1, GotoEffect DEF Labels
  <2>6. ASSUME NEW o, NEW g, Consistent(pc[p], job[p], result[p], o, g)
        PROVE  Consistent(pc'[p], job'[p], result'[p], o, g)
    BY <2>1, <2>4, <2>5, <2>6 DEF Consistent
  <2> QED
    BY <1>0, <1>00, <2>1, <2>4, <2>5, <2>6 DEF WrapTypeOK
<1>7. CASE UnbanDelete(p)
  <2>1. /\ pc[p] = "delete" /\ now' = now /\ crossed' = crossed
        /\ bans' = [bans EXCEPT ![j.addr] = NoBan]
    BY <1>7 DEF UnbanDelete, Quiet
  <2>2. bans' \in Lists
    BY <1>0, <1>00, <1>000, <2>1, ListFacts DEF ConsistentRun, Consistent
  <2>3. CASE End(p, "err")
    BY <1>0, <1>00, <2>1, <2>2, <2>3, EndEffect
  <2>4. CASE Goto(p, "readback") /\ UNCHANGED job
    <3>1. /\ pc' \in [Procs -> Labels] /\ result' = result /\ pc'[p] = "readback"
          /\ \A q \in Procs \ {p} : pc'[q] = pc[q]
      BY <1>0, <2>4, GotoEffect DEF Labels
    <3>2. ASSUME NEW o, NEW g, Consistent(pc[p], job[p], result[p], o, g)
          PROVE  Consistent(pc'[p], job'[p], result'[p], o, g)
      BY <2>1, <2>4, <3>1, <3>2 DEF Consistent
    <3> QED
      BY <1>0, <1>00, <2>1, <2>2, <2>4, <3>1, <3>2 DEF WrapTypeOK
  <2> QED
    BY <1>7, <2>3, <2>4 DEF UnbanDelete
<1>8. CASE UnbanReadBack(p)
  <2>1. /\ pc[p] = "readback" /\ now' = now /\ crossed' = crossed /\ bans' = bans
        /\ End(p, IF InMap(j.addr) THEN "err" ELSE "ok")
    BY <1>8 DEF UnbanReadBack, Quiet
  <2> QED
    BY <1>0, <1>00, <2>1, EndEffect
<1>9. CASE Check(p)
  <2>1. pc[p] = "check" /\ now' = now /\ crossed' = crossed /\ bans' = bans
    BY <1>9 DEF Check, Quiet
  <2>2. CASE End(p, "ok")
    BY <1>0, <1>00, <2>1, <2>2, EndEffect
  <2>3. CASE Goto(p, "drop") /\ UNCHANGED job
    <3>1. /\ pc' \in [Procs -> Labels] /\ result' = result /\ pc'[p] = "drop"
          /\ \A q \in Procs \ {p} : pc'[q] = pc[q]
      BY <1>0, <2>3, GotoEffect DEF Labels
    <3>2. ASSUME NEW o, NEW g, Consistent(pc[p], job[p], result[p], o, g)
          PROVE  Consistent(pc'[p], job'[p], result'[p], o, g)
      BY <2>1, <2>3, <3>1, <3>2 DEF Consistent
    <3> QED
      BY <1>0, <1>00, <2>1, <2>3, <3>1, <3>2 DEF WrapTypeOK
  <2> QED
    BY <1>9, <2>2, <2>3 DEF Check
<1>10. CASE CheckDrop(p)
  <2>1. /\ pc[p] = "drop" /\ End(p, "ok") /\ now' = now /\ crossed' = crossed
        /\ bans' = [bans EXCEPT ![j.addr] = NoBan]
    BY <1>10 DEF CheckDrop, Quiet
  <2>2. bans' \in Lists
    BY <1>0, <1>00, <1>000, <2>1, ListFacts DEF ConsistentRun, Consistent
  <2> QED
    BY <1>0, <2>1, <2>2, EndEffect
<1> QED
  BY <1>1, <1>2, <1>3, <1>4, <1>5, <1>6, <1>7, <1>8, <1>9, <1>10 DEF Step

(* A run that has ended. *)
LEMMA Ended ==
    ASSUME NEW r PROVE Consistent("idle", NoJob, r, NoOrder, NotFiled)
BY JobFacts DEF Consistent

(* A command the guard begins, without a wrapper or for one. *)
LEMMA BegunFor ==
    ASSUME RunInv, NEW p \in Procs, NEW o \in Orders
    PROVE  /\ \A g : \A l \in {"file", "exec"} : l = "exec" \/ g = NotFiled
                  => Consistent(l, NoJob, "none", o, g)
           /\ \A g : \A u \in Int : o.op = "ban"
                  => Consistent("insert", Job("ban", o.ip, u), "none", o, g)
           /\ \A g : o.op = "unban"
                  => Consistent("look", Job("unban", o.ip, NoBan), "none", o, g)
<1>1. o \in Orders \cup {NoOrder} /\ o # NoOrder /\ o.ip \in Ips
  BY DEF Orders, NoOrder
<1>2. NoBan \in Int
  BY DEF NoBan
<1> QED
  BY <1>1, <1>2, JobFacts DEF Consistent

(* A command of fips-guard started without the wrapper is consistent at    *)
(* its first step.                                                         *)
LEMMA BegunAlone ==
    /\ \A ip \in Ips, u \in Int :
          Consistent("insert", Job("ban", ip, u), "none", NoOrder, NotFiled)
    /\ \A ip \in Ips :
          /\ Consistent("look", Job("unban", ip, NoBan), "none", NoOrder, NotFiled)
          /\ Consistent("check", Job("check", ip, NoBan), "none", NoOrder, NotFiled)
    /\ Consistent("sweep", Job("list", "none", NoBan), "none", NoOrder, NotFiled)
<1>1. NoBan \in Int
  BY DEF NoBan
<1> QED
  BY <1>1, JobFacts DEF Consistent

(* What the guard does when it is run on a command line. *)
LEMMA CommandEffect ==
    ASSUME RunInv, NEW p \in Procs, Command(p), order'[p] = NoOrder, lag'[p] = NotFiled
    PROVE  /\ pc' \in [Procs -> Labels] /\ job' \in [Procs -> Jobs]
           /\ result' \in [Procs -> {"none", "ok", "err"}]
           /\ \A q \in Procs \ {p} : pc'[q] = pc[q] /\ job'[q] = job[q] /\ result'[q] = result[q]
           /\ UNCHANGED <<bans, now>> /\ ConsistentRun(p)'
<1> DEFINE Effect == 
      /\ pc' \in [Procs -> Labels] /\ job' \in [Procs -> Jobs]
      /\ result' \in [Procs -> {"none", "ok", "err"}]
      /\ \A q \in Procs \ {p} : pc'[q] = pc[q] /\ job'[q] = job[q] /\ result'[q] = result[q]
      /\ UNCHANGED <<bans, now>> /\ ConsistentRun(p)'
<1>0. WrapTypeOK /\ NoBan \in Int /\ Permanent \in Int
  BY DEF RunInv, NoBan, Permanent
<1>1. ASSUME NEW ip \in Ips, NEW ttl \in Ttls, cmd_ban(p, ip, ttl)
      PROVE  Effect
  <2>1. PICK u \in Int : Begin(p, Job("ban", ip, u), "insert")
    BY <1>0, <1>1, GuardBansAssumption DEF WrapTypeOK, cmd_ban
  <2>2. Job("ban", ip, u) \in Jobs
    BY JobFacts
  <2> QED
    BY <1>0, <2>1, <2>2, BeginEffect, BegunAlone DEF Labels, ConsistentRun
<1>2. ASSUME NEW ip \in Ips, cmd_unban(p, ip)
      PROVE  Effect
  <2>1. Begin(p, Job("unban", ip, NoBan), "look") /\ Job("unban", ip, NoBan) \in Jobs
    BY <1>0, <1>2, JobFacts DEF cmd_unban
  <2> QED
    BY <1>0, <2>1, BeginEffect, BegunAlone DEF Labels, ConsistentRun
<1>3. ASSUME NEW ip \in Ips, cmd_check(p, ip)
      PROVE  Effect
  <2>1. Begin(p, Job("check", ip, NoBan), "check") /\ Job("check", ip, NoBan) \in Jobs
    BY <1>0, <1>3, JobFacts DEF cmd_check
  <2> QED
    BY <1>0, <2>1, BeginEffect, BegunAlone DEF Labels, ConsistentRun
<1>4. ASSUME cmd_list(p)
      PROVE  Effect
  <2>1. Begin(p, Job("list", "none", NoBan), "sweep") /\ Job("list", "none", NoBan) \in Jobs
    BY <1>4, JobFacts DEF cmd_list
  <2> QED
    BY <1>0, <2>1, BeginEffect, BegunAlone DEF Labels, ConsistentRun
<1>5. ASSUME NEW r \in {"ok", "err"}, Declined(p, r)
      PROVE  Effect
  <2>1. End(p, r) /\ UNCHANGED <<bans, now>> /\ r \in {"none", "ok", "err"}
    BY <1>5 DEF Declined
  <2> QED
    BY <1>0, <2>1, EndEffect, Ended DEF ConsistentRun
<1> QED
  BY <1>1, <1>2, <1>3, <1>4, <1>5 DEF Command

(* A wrapper's list: what the file backend rewrites is a list. *)
LEMMA FiledEffect ==
    ASSUME RunInv, NEW p \in Procs, NEW kept \in SUBSET Ips, Filed(p, kept)
    PROVE  /\ pc[p] = "file" /\ Goto(p, "exec") /\ UNCHANGED <<now, crossed, bans, job, order>>
           /\ order[p] \in Orders /\ Rewritten(order[p]) \in Lists
           /\ file' = [ip \in Ips |-> IF ip \in kept THEN Rewritten(order[p])[ip] ELSE NoBan]
           /\ file' \in Lists
           /\ agreed' \in [Ips -> Lags]
           /\ agreed' = [ip \in Ips |-> IF ip \in kept \ {order[p].ip} THEN agreed[ip]
                                        ELSE NotFiled]
<1>1. /\ pc[p] = "file" /\ Goto(p, "exec") /\ UNCHANGED <<now, crossed, bans, job, order>>
      /\ file' = [ip \in Ips |-> IF ip \in kept THEN Rewritten(order[p])[ip] ELSE NoBan]
      /\ agreed' = [ip \in Ips |-> IF ip \in kept \ {order[p].ip} THEN agreed[ip]
                                   ELSE NotFiled]
  BY DEF Filed, Quiet
<1>2. order[p] \in Orders
  BY <1>1 DEF RunInv, WrapTypeOK, Control, Consistent
<1>3. Rewritten(order[p]) \in Lists
  <2>1. order[p] \in Orders \cup {NoOrder} /\ order[p] # NoOrder
    BY <1>1, <1>2 DEF RunInv, Control, Consistent
  <2>2. order[p].op \in {"ban", "unban"} /\ (order[p].op = "ban" => order[p].ttl \in Nat)
    BY <2>1, OrderFacts, GuardBansAssumption
  <2> QED
    BY <2>2 DEF RunInv, WrapTypeOK, Rewritten, Lists, Permanent, NoBan
<1>4. file' \in Lists /\ agreed' \in [Ips -> Lags]
  BY <1>1, <1>3 DEF RunInv, WrapTypeOK, Lists, Lags, NoBan
<1> QED
  BY <1>1, <1>2, <1>3, <1>4

(* The steps of a wrapper and of the runs it ends in keep the invariant. *)
LEMMA WrapStep ==
    ASSUME RunInv, NEW p \in Procs,
           Wrap(p) \/ FileRuns(p) \/ FileTears(p) \/ FileFails(p)
    PROVE  RunInv'
<1>0. /\ WrapTypeOK /\ ConsistentRun(p) /\ NoJob \in Jobs /\ "file" \in Labels /\ "exec" \in Labels
  BY JobFacts DEF RunInv, Control, ConsistentRun, Labels
<1>1. CASE Wrap(p)
  <2>1. PICK o \in Orders : order' = [order EXCEPT ![p] = o]
    BY <1>1 DEF Wrap
  <2>2. /\ Enter(p) /\ Begin(p, NoJob, "file") /\ UNCHANGED <<file, lag, agreed>>
        /\ crossed' \in [Procs -> BOOLEAN] /\ pc[p] = "idle"
    BY <1>1 DEF Wrap, Enter, Running
  <2>3. /\ pc' \in [Procs -> Labels] /\ job' \in [Procs -> Jobs]
        /\ result' \in [Procs -> {"none", "ok", "err"}]
        /\ pc'[p] = "file" /\ job'[p] = NoJob /\ result'[p] = "none"
        /\ \A q \in Procs \ {p} : pc'[q] = pc[q] /\ job'[q] = job[q] /\ result'[q] = result[q]
        /\ UNCHANGED <<bans, now>>
    BY <1>0, <2>2, BeginEffect
  <2>4. /\ order' \in [Procs -> Orders \cup {NoOrder}] /\ order'[p] = o
        /\ \A q \in Procs \ {p} : order'[q] = order[q]
    BY <1>0, <2>1 DEF WrapTypeOK
  <2>5. WrapTypeOK' /\ OnlyRun(p)
    BY <1>0, <2>2, <2>3, <2>4 DEF WrapTypeOK, OnlyRun
  <2>6. lag'[p] = NotFiled
    BY <1>0, <2>2 DEF ConsistentRun, Consistent
  <2>7. ConsistentRun(p)'
    BY <2>3, <2>4, <2>6, BegunFor DEF ConsistentRun
  <2> QED
    BY <2>2, <2>5, <2>7, RunInvFrom
<1>2. ASSUME pc[p] = "file", Goto(p, "exec"), UNCHANGED <<now, crossed, bans, job, order>>,
             file' \in Lists, agreed' \in [Ips -> Lags],
             lag' = lag \/ lag' = [lag EXCEPT ![p] = 0]
      PROVE  RunInv'
  <2>1. /\ pc' \in [Procs -> Labels] /\ result' = result /\ pc'[p] = "exec"
        /\ \A q \in Procs \ {p} : pc'[q] = pc[q]
    BY <1>0, <1>2, GotoEffect
  <2>2. lag' \in [Procs -> Lags] /\ \A q \in Procs \ {p} : lag'[q] = lag[q]
    BY <1>0, <1>2 DEF WrapTypeOK, Lags
  <2>3. WrapTypeOK' /\ OnlyRun(p)
    BY <1>0, <1>2, <2>1, <2>2 DEF WrapTypeOK, OnlyRun
  <2>4. /\ job'[p] = NoJob /\ result'[p] = "none" /\ order'[p] \in Orders
    BY <1>0, <1>2, <2>1 DEF ConsistentRun, Consistent, WrapTypeOK
  <2>5. ConsistentRun(p)'
    BY <2>1, <2>4, BegunFor DEF ConsistentRun
  <2> QED
    BY <1>2, <2>3, <2>5, RunInvFrom DEF Running
<1>3. CASE FileRuns(p)
  <2>1. Filed(p, Ips) /\ lag' = [lag EXCEPT ![p] = 0]
    BY <1>3 DEF FileRuns
  <2> QED
    BY <1>2, <2>1, FiledEffect
<1>4. CASE FileTears(p)
  <2>1. PICK kept \in SUBSET Ips : Filed(p, kept)
    BY <1>4 DEF FileTears
  <2> QED
    BY <1>2, <1>4, <2>1, FiledEffect DEF FileTears
<1>5. CASE FileFails(p)
  BY <1>0, <1>2, <1>5 DEF FileFails, Quiet, wrapVars, WrapTypeOK
<1> QED
  BY <1>1, <1>3, <1>4, <1>5

(* What exec does: the run becomes the guard's, or ends. *)
LEMMA ExecEffect ==
    ASSUME RunInv, NEW p \in Procs, Exec(p)
    PROVE  /\ pc[p] = "exec" /\ order[p] \in Orders /\ order[p].ip \in Ips
           /\ UNCHANGED <<bans, now, crossed, file>>
           /\ agreed' = [agreed EXCEPT ![order[p].ip] = NotFiled] /\ Forget(p)
           /\ pc' \in [Procs -> Labels] /\ job' \in [Procs -> Jobs]
           /\ result' \in [Procs -> {"none", "ok", "err"}]
           /\ \A q \in Procs \ {p} : pc'[q] = pc[q] /\ job'[q] = job[q] /\ result'[q] = result[q]
           /\ \/ pc'[p] = "idle" /\ job'[p] = NoJob
              \/ /\ order[p].op = "ban" /\ pc'[p] = "insert" /\ result'[p] = "none"
                 /\ order[p].ttl \in Ttls
                 /\ job'[p] = Job("ban", order[p].ip, IF order[p].ttl = 0 THEN Permanent
                                                     ELSE now + order[p].ttl)
              \/ /\ order[p].op = "unban" /\ pc'[p] = "look" /\ result'[p] = "none"
                 /\ job'[p] = Job("unban", order[p].ip, NoBan)
<1> DEFINE o == order[p]
           u == IF o.ttl = 0 THEN Permanent ELSE now + o.ttl
<1>0. /\ WrapTypeOK /\ NoBan \in Int /\ pc[p] = "exec" /\ o \in Orders /\ o # NoOrder
  BY DEF RunInv, Control, Consistent, Exec, NoBan, WrapTypeOK
<1>1. o.ip \in Ips /\ (o.op = "ban" => o.ttl \in Ttls /\ u \in Int)
  <2>1. o \in Orders \cup {NoOrder} /\ now \in Nat
    BY <1>0 DEF WrapTypeOK
  <2>2. o.ip \in Ips /\ (o.op = "ban" => o.ttl \in Ttls)
    BY <1>0, <2>1, OrderFacts
  <2>3. o.ttl \in Ttls => o.ttl \in Nat
    BY GuardBansAssumption
  <2> QED
    BY <2>1, <2>2, <2>3 DEF Permanent
<1>2. /\ UNCHANGED <<crossed, file>> /\ Forget(p)
      /\ agreed' = [agreed EXCEPT ![order[p].ip] = NotFiled]
  BY DEF Exec
<1>3. CASE o.op = "ban" /\ cmd_ban(p, o.ip, o.ttl)
  <2>1. Begin(p, Job("ban", o.ip, u), "insert") /\ Job("ban", o.ip, u) \in Jobs
    BY <1>1, <1>3, JobFacts DEF cmd_ban
  <2> HIDE DEF u
  <2>2. /\ pc' \in [Procs -> Labels] /\ job' \in [Procs -> Jobs]
        /\ result' \in [Procs -> {"none", "ok", "err"}]
        /\ pc'[p] = "insert" /\ job'[p] = Job("ban", o.ip, u) /\ result'[p] = "none"
        /\ \A q \in Procs \ {p} : pc'[q] = pc[q] /\ job'[q] = job[q] /\ result'[q] = result[q]
        /\ UNCHANGED <<bans, now>>
    BY <1>0, <2>1, BeginEffect DEF Labels
  <2> QED
    BY <1>0, <1>1, <1>2, <1>3, <2>2 DEF u
<1>4. CASE o.op = "unban" /\ cmd_unban(p, o.ip)
  <2>1. Begin(p, Job("unban", o.ip, NoBan), "look") /\ Job("unban", o.ip, NoBan) \in Jobs
    BY <1>0, <1>1, <1>4, JobFacts DEF cmd_unban
  <2> QED
    BY <1>0, <1>1, <1>2, <1>4, <2>1, BeginEffect DEF Labels
<1>5. CASE Declined(p, "err")
  BY <1>0, <1>1, <1>2, <1>5, EndEffect DEF Declined
<1> QED
  BY <1>3, <1>4, <1>5 DEF Exec

(* The invariant. *)
LEMMA RunInvStep == RunInv /\ [WrapNext]_allVars => RunInv'
<1> SUFFICES ASSUME RunInv, [WrapNext]_allVars PROVE RunInv'
  OBVIOUS
<1>0. WrapTypeOK /\ \A p \in Procs : ConsistentRun(p)
  BY DEF RunInv, Control, ConsistentRun
<1>1. ASSUME NEW p \in Procs, Exec(p) PROVE RunInv'
  <2>1. /\ order' \in [Procs -> Orders \cup {NoOrder}] /\ lag' \in [Procs -> Lags]
        /\ \A q \in Procs \ {p} : order'[q] = order[q] /\ lag'[q] = lag[q]
        /\ Running(p)' => order'[p] = order[p] /\ lag'[p] = lag[p]
        /\ ~Running(p)' => order'[p] = NoOrder /\ lag'[p] = NotFiled
    BY <1>0, <1>1, ExecEffect, ForgetEffect
  <2>2. agreed' \in [Ips -> Lags]
    BY <1>0, <1>1, ExecEffect DEF WrapTypeOK, Lags
  <2>3. WrapTypeOK' /\ OnlyRun(p)
    BY <1>0, <1>1, <2>1, <2>2, ExecEffect DEF WrapTypeOK, OnlyRun
  <2>4. ConsistentRun(p)'
    <3>1. CASE pc'[p] = "idle" /\ job'[p] = NoJob
      BY <2>1, <3>1, Ended DEF ConsistentRun, Running
    <3>2. CASE pc'[p] # "idle"
      <4>1. order'[p] = order[p] /\ lag'[p] = lag[p]
        BY <2>1, <3>2 DEF Running
      <4>2. order[p].op = "ban" => order[p].ttl \in Nat
        BY <1>1, GuardBansAssumption, ExecEffect, OrderFacts DEF Orders
      <4> QED
        <5>1. CASE pc'[p] = "look"
          <6>1. /\ order[p] \in Orders /\ order[p].op = "unban" /\ result'[p] = "none"
                /\ job'[p] = Job("unban", order[p].ip, NoBan)
            BY <1>1, <5>1, ExecEffect
          <6>2. Consistent("look", Job("unban", order[p].ip, NoBan), "none", order[p], lag[p])
            BY <6>1, BegunFor
          <6> QED
            BY <4>1, <5>1, <6>1, <6>2 DEF ConsistentRun
        <5>2. CASE pc'[p] = "insert"
          <6> DEFINE u == IF order[p].ttl = 0 THEN Permanent ELSE now + order[p].ttl
          <6>1. /\ order[p].op = "ban" /\ job'[p] = Job("ban", order[p].ip, u)
                /\ result'[p] = "none"
            BY <1>1, <5>2, ExecEffect
          <6>2. u \in Int
            BY <1>0, <4>2, <6>1 DEF WrapTypeOK, Permanent
          <6> HIDE DEF u
          <6>3. order[p] \in Orders
            BY <1>1, ExecEffect
          <6>4. Consistent("insert", Job("ban", order[p].ip, u), "none", order[p], lag[p])
            BY <6>1, <6>2, <6>3, BegunFor
          <6> QED
            BY <4>1, <5>2, <6>1, <6>4 DEF ConsistentRun
        <5> QED
          BY <1>1, <3>2, <5>1, <5>2, ExecEffect
    <3> QED
      BY <1>1, <3>1, <3>2, ExecEffect
  <2> QED
    BY <1>1, <2>3, <2>4, ExecEffect, RunInvFrom DEF Running
<1>2. ASSUME NEW p \in Procs, Direct(p) PROVE RunInv'
  <2>1. Command(p) /\ UNCHANGED <<file, order, lag>> /\ Enter(p) /\ pc[p] = "idle"
    BY <1>2 DEF Direct, Command, Enter, Running
  <2>2. order'[p] = NoOrder /\ lag'[p] = NotFiled
    BY <1>0, <2>1 DEF ConsistentRun, Consistent
  <2>3. /\ pc' \in [Procs -> Labels] /\ job' \in [Procs -> Jobs]
        /\ result' \in [Procs -> {"none", "ok", "err"}]
        /\ \A q \in Procs \ {p} : pc'[q] = pc[q] /\ job'[q] = job[q] /\ result'[q] = result[q]
        /\ UNCHANGED <<bans, now>> /\ ConsistentRun(p)'
    BY <2>1, <2>2, CommandEffect
  <2>4. crossed' \in [Procs -> BOOLEAN]
    BY <2>1 DEF Enter, Running
  <2>5. agreed' \in [Ips -> Lags]
    BY <1>0, <1>2 DEF Direct, WrapTypeOK, Lags
  <2>6. WrapTypeOK' /\ OnlyRun(p)
    BY <1>0, <2>1, <2>3, <2>4, <2>5 DEF WrapTypeOK, OnlyRun
  <2> QED
    BY <2>1, <2>3, <2>6, RunInvFrom
<1>3. ASSUME NEW p \in Procs, GuardStep(p) PROVE RunInv'
  <2>1. Step(p) /\ Forget(p) /\ file' = file
    BY <1>3 DEF GuardStep
  <2>2. /\ order' \in [Procs -> Orders \cup {NoOrder}] /\ lag' \in [Procs -> Lags]
        /\ \A q \in Procs \ {p} : order'[q] = order[q] /\ lag'[q] = lag[q]
        /\ Running(p)' => order'[p] = order[p] /\ lag'[p] = lag[p]
        /\ ~Running(p)' => order'[p] = NoOrder /\ lag'[p] = NotFiled
    BY <1>0, <2>1, ForgetEffect
  <2>3. agreed' \in [Ips -> Lags]
    BY <1>0, <1>3 DEF GuardStep, WrapTypeOK, Lags
  <2>4. WrapTypeOK' /\ OnlyRun(p)
    BY <1>0, <2>1, <2>2, <2>3, StepEffect DEF WrapTypeOK, OnlyRun
  <2>5. ConsistentRun(p)'
    <3>1. CASE pc'[p] = "idle" /\ job'[p] = NoJob
      BY <2>2, <3>1, Ended DEF ConsistentRun, Running
    <3>2. CASE ~(pc'[p] = "idle" /\ job'[p] = NoJob)
      BY <1>0, <2>1, <2>2, <3>2, StepEffect DEF ConsistentRun, Running
    <3> QED
      BY <3>1, <3>2
  <2> QED
    BY <2>1, <2>4, <2>5, StepEffect, RunInvFrom DEF Running
<1>4. ASSUME NEW p \in Procs, Killed(p) PROVE RunInv'
  <2>1. /\ Running(p) /\ End(p, "none") /\ UNCHANGED <<now, crossed, bans, file, agreed>>
        /\ Forget(p)
    BY <1>4 DEF Killed, Crash, Quiet
  <2>2. /\ pc' \in [Procs -> Labels] /\ job' \in [Procs -> Jobs]
        /\ result' \in [Procs -> {"none", "ok", "err"}]
        /\ pc'[p] = "idle" /\ job'[p] = NoJob
        /\ \A q \in Procs \ {p} : pc'[q] = pc[q] /\ job'[q] = job[q] /\ result'[q] = result[q]
    BY <1>0, <2>1, EndEffect
  <2>3. /\ order' \in [Procs -> Orders \cup {NoOrder}] /\ lag' \in [Procs -> Lags]
        /\ \A q \in Procs \ {p} : order'[q] = order[q] /\ lag'[q] = lag[q]
        /\ order'[p] = NoOrder /\ lag'[p] = NotFiled
    BY <1>0, <2>1, <2>2, ForgetEffect DEF Running
  <2>4. WrapTypeOK' /\ OnlyRun(p)
    BY <1>0, <2>1, <2>2, <2>3 DEF WrapTypeOK, OnlyRun
  <2>5. ConsistentRun(p)'
    BY <2>2, <2>3, Ended DEF ConsistentRun
  <2> QED
    BY <2>1, <2>4, <2>5, RunInvFrom
<1>5. CASE WrapTick
  <2>1. /\ now' = now + 1 /\ UNCHANGED <<bans, pc, job, result, crossed, file, order, agreed>>
        /\ lag' = [p \in Procs |-> IF pc[p] = "exec" /\ lag[p] # NotFiled
                                   THEN lag[p] + 1 ELSE lag[p]]
    BY <1>5 DEF WrapTick, Tick
  <2>2. WrapTypeOK'
    BY <1>0, <2>1 DEF WrapTypeOK, Lags, NotFiled
  <2>3. ASSUME NEW p \in Procs PROVE ConsistentRun(p)'
    BY <1>0, <2>1, <2>3 DEF ConsistentRun, Consistent, WrapTypeOK, Lags, NotFiled
  <2>4. Control' /\ Crossing'
    BY <2>1, <2>3 DEF RunInv, Control, ConsistentRun, Crossing, Running
  <2> QED
    BY <2>2, <2>4 DEF RunInv
<1>6. CASE UNCHANGED allVars
  BY <1>6 DEF allVars, vars, wrapVars, RunInv, WrapTypeOK, Control, Consistent, Crossing, Running
<1> QED
  BY <1>1, <1>2, <1>3, <1>4, <1>5, <1>6, WrapStep DEF WrapNext

(* Before any run has started, RunInv holds. *)
LEMMA RunInvInit == WrapInit => RunInv
<1> SUFFICES ASSUME WrapInit PROVE RunInv
  OBVIOUS
<1>1. WrapTypeOK
  BY JobFacts, ListFacts DEF WrapInit, Init, WrapTypeOK, Labels, Lags
<1>2. Control
  BY Ended DEF WrapInit, Init, Control
<1>3. Crossing
  BY DEF WrapInit, Init, Crossing, Running
<1> QED
  BY <1>1, <1>2, <1>3 DEF RunInv

-------------------------------------------------------------------------------
(* What a run that nothing crossed has found out about the map still       *)
(* holds: the keys its sweep collected have lapsed and are all that had,   *)
(* the entry check found lapsed has, and unban's look is right.            *)
FoundOut(l, j, b, t) ==
    /\ l = "remove" =>
          /\ \A ip \in j.victims : ~Active(b[ip], t)
          /\ \A ip \in Ips : b[ip] # NoBan => ip \in j.victims \/ Active(b[ip], j.sweptAt)
    /\ l = "reinsert" => \A ip \in Ips : b[ip] # NoBan => Active(b[ip], j.sweptAt)
    /\ l = "delete" => (j.found <=> b[j.addr] # NoBan)
    /\ l = "readback" => b[j.addr] = NoBan
    /\ l = "drop" => ~Active(b[j.addr], t)

Fresh == \A p \in Procs : crossed[p] \/ FoundOut(pc[p], job[p], bans, now)

(* A run's own steps keep it so. *)
LEMMA FoundOutStep ==
    ASSUME RunInv, NEW p \in Procs, Step(p), FoundOut(pc[p], job[p], bans, now)
    PROVE  FoundOut(pc'[p], job'[p], bans', now')
<1> DEFINE j == job[p]
<1>0. /\ WrapTypeOK /\ ConsistentRun(p) /\ now' = now
  BY StepEffect DEF RunInv, Control, ConsistentRun
<1>00. /\ j \in Jobs /\ bans \in Lists /\ job \in [Procs -> Jobs] /\ now \in Nat /\ now >= 1
       /\ j.cmd \in {"ban", "unban", "check"} => j.addr \in Ips
       /\ j.victims \in SUBSET Ips /\ pc \in [Procs -> Labels]
  BY <1>0 DEF WrapTypeOK, ConsistentRun, Consistent, Jobs
<1>1. ASSUME NEW r \in {"none", "ok", "err"}, End(p, r)
      PROVE  FoundOut(pc'[p], job'[p], bans', now')
  BY <1>0, <1>1, EndEffect DEF FoundOut
<1>2. CASE InsertFails(p)
  <2>1. CASE pc[p] = "insert" /\ Goto(p, "sweep")
    BY <1>0, <2>1, GotoEffect DEF FoundOut, Labels
  <2> QED
    BY <1>1, <1>2, <2>1 DEF InsertFails
<1>3. CASE SweepScan(p)
  <2>1. /\ Goto(p, "remove") /\ bans' = bans
        /\ job' = [job EXCEPT ![p] = [j EXCEPT !.victims = {ip \in Ips : Lapsed(ip)},
                                               !.sweptAt = now]]
    BY <1>3 DEF SweepScan, Quiet
  <2>2. pc'[p] = "remove"
    BY <1>0, <2>1, GotoEffect DEF Labels
  <2>3. job'[p].victims = {ip \in Ips : Lapsed(ip)} /\ job'[p].sweptAt = now
    BY <1>00, <2>1 DEF Jobs
  <2>4. \A ip \in Ips : bans[ip] \in Int
    BY <1>00 DEF Lists
  <2> QED
    BY <1>0, <1>00, <2>1, <2>2, <2>3, <2>4 DEF FoundOut, Lapsed, InMap, Active, Permanent, NoBan
<1>4. CASE SweepRemove(p)
  <2>1. PICK ip \in j.victims :
          /\ bans' = [bans EXCEPT ![ip] = NoBan]
          /\ job' = [job EXCEPT ![p] = [j EXCEPT !.victims = @ \ {ip}]]
    BY <1>4 DEF SweepRemove
  <2>2. pc[p] = "remove" /\ pc'[p] = "remove"
    BY <1>4 DEF SweepRemove
  <2>3. job'[p].victims = j.victims \ {ip} /\ job'[p].sweptAt = j.sweptAt
    BY <1>00, <2>1 DEF Jobs
  <2>4. \A i \in Ips : bans'[i] = IF i = ip THEN NoBan ELSE bans[i]
    BY <1>00, <2>1 DEF Lists
  <2> QED
    BY <1>0, <1>00, <2>2, <2>3, <2>4 DEF FoundOut, Active, Permanent, NoBan
<1>5. CASE SweepDone(p)
  <2>1. pc[p] = "remove" /\ bans' = bans /\ j.victims = {}
    BY <1>5 DEF SweepDone
  <2>2. CASE Goto(p, "reinsert") /\ UNCHANGED job
    <3>1. pc'[p] = "reinsert"
      BY <1>0, <2>2, GotoEffect DEF Labels
    <3> QED
      BY <2>1, <2>2, <3>1 DEF FoundOut
  <2> QED
    BY <1>1, <1>5, <2>2 DEF SweepDone
<1>6. CASE UnbanLook(p)
  <2>1. /\ Goto(p, "delete") /\ bans' = bans
        /\ job' = [job EXCEPT ![p] = [j EXCEPT !.found = InMap(j.addr)]]
    BY <1>6 DEF UnbanLook, Quiet
  <2>2. pc'[p] = "delete"
    BY <1>0, <2>1, GotoEffect DEF Labels
  <2>3. job'[p].found = (bans[j.addr] # NoBan) /\ job'[p].addr = j.addr
    BY <1>00, <2>1 DEF Jobs, InMap
  <2> QED
    BY <2>1, <2>2, <2>3 DEF FoundOut
<1>7. CASE UnbanDelete(p)
  <2>1. pc[p] = "delete" /\ bans' = [bans EXCEPT ![j.addr] = NoBan]
    BY <1>7 DEF UnbanDelete
  <2>2. CASE Goto(p, "readback") /\ UNCHANGED job
    <3>1. pc'[p] = "readback"
      BY <1>0, <2>2, GotoEffect DEF Labels
    <3>2. bans'[j.addr] = NoBan
      BY <1>0, <1>00, <2>1 DEF ConsistentRun, Consistent, Lists
    <3> QED
      BY <2>2, <3>1, <3>2 DEF FoundOut
  <2> QED
    BY <1>1, <1>7, <2>2 DEF UnbanDelete
<1>8. CASE Check(p)
  <2>1. CASE Lapsed(j.addr) /\ Goto(p, "drop") /\ UNCHANGED <<job, bans>>
    <3>1. pc'[p] = "drop"
      BY <1>0, <2>1, GotoEffect DEF Labels
    <3>2. bans[j.addr] \in Int
      BY <1>0, <1>00, <1>8 DEF ConsistentRun, Consistent, Lists, Check
    <3> QED
      BY <1>0, <1>00, <2>1, <3>1, <3>2 DEF FoundOut, Lapsed, Active
  <2> QED
    BY <1>1, <1>8, <2>1 DEF Check
<1> QED
  BY <1>1, <1>2, <1>3, <1>4, <1>5, <1>6, <1>7, <1>8
     DEF Step, Insert, UnbanReadBack, CheckDrop

(* What a step does to the map, by who takes it. *)
LEMMA WhoMoves ==
    ASSUME RunInv, [WrapNext]_allVars
    PROVE  \/ \E p \in Procs :
                /\ Wrap(p) \/ Direct(p)
                /\ Enter(p) /\ UNCHANGED <<bans, now>>
                /\ pc'[p] \in {"idle", "file", "insert", "look", "check", "sweep"}
                /\ \A q \in Procs \ {p} : pc'[q] = pc[q] /\ job'[q] = job[q]
           \/ \E p \in Procs :
                /\ FileRuns(p) \/ FileTears(p) \/ FileFails(p) \/ Exec(p) \/ Killed(p)
                /\ Running(p) /\ UNCHANGED <<bans, now, crossed>>
                /\ pc'[p] \in {"idle", "exec", "insert", "look"}
                /\ \A q \in Procs \ {p} : pc'[q] = pc[q] /\ job'[q] = job[q]
           \/ \E p \in Procs :
                /\ GuardStep(p) /\ Step(p)
                /\ Running(p) /\ UNCHANGED <<now, crossed>>
                /\ \A q \in Procs \ {p} : pc'[q] = pc[q] /\ job'[q] = job[q]
           \/ WrapTick /\ now' = now + 1 /\ UNCHANGED <<bans, pc, job, crossed>>
           \/ UNCHANGED allVars
<1>0. WrapTypeOK /\ NoJob \in Jobs /\ {"file", "exec", "sweep", "insert", "look", "check"} \subseteq Labels
  BY JobFacts DEF RunInv, Labels
<1>1. ASSUME NEW p \in Procs, Wrap(p)
      PROVE  /\ Enter(p) /\ UNCHANGED <<bans, now>> /\ pc'[p] = "file"
             /\ \A q \in Procs \ {p} : pc'[q] = pc[q] /\ job'[q] = job[q]
  BY <1>0, <1>1, BeginEffect DEF Wrap
<1>2. ASSUME NEW p \in Procs, Direct(p)
      PROVE  /\ Enter(p) /\ UNCHANGED <<bans, now>>
             /\ pc'[p] \in {"idle", "insert", "look", "check", "sweep"}
             /\ \A q \in Procs \ {p} : pc'[q] = pc[q] /\ job'[q] = job[q]
  <2>1. pc \in [Procs -> Labels] /\ job \in [Procs -> Jobs]
    BY <1>0 DEF WrapTypeOK
  <2> QED
    BY <1>2, <2>1 DEF Direct, Command, cmd_ban, cmd_unban, cmd_check, cmd_list, Declined, Begin, End
<1>3. ASSUME NEW p \in Procs, FileRuns(p) \/ FileTears(p) \/ FileFails(p)
      PROVE  /\ Running(p) /\ UNCHANGED <<bans, now, crossed>> /\ pc'[p] = "exec"
             /\ \A q \in Procs \ {p} : pc'[q] = pc[q] /\ job'[q] = job[q]
  <2>1. pc[p] = "file" /\ Goto(p, "exec") /\ UNCHANGED <<bans, now, crossed, job>>
    BY <1>3, FiledEffect DEF FileRuns, FileTears, FileFails, Quiet
  <2> QED
    BY <1>0, <2>1, GotoEffect DEF Running
<1>4. ASSUME NEW p \in Procs, Exec(p)
      PROVE  /\ Running(p) /\ UNCHANGED <<bans, now, crossed>> /\ pc'[p] \in {"idle", "insert", "look"}
             /\ \A q \in Procs \ {p} : pc'[q] = pc[q] /\ job'[q] = job[q]
  BY <1>4, ExecEffect DEF Running
<1>5. ASSUME NEW p \in Procs, Killed(p)
      PROVE  /\ Running(p) /\ UNCHANGED <<bans, now, crossed>> /\ pc'[p] = "idle"
             /\ \A q \in Procs \ {p} : pc'[q] = pc[q] /\ job'[q] = job[q]
  BY <1>0, <1>5, EndEffect DEF Killed, Crash, Quiet
<1>6. ASSUME NEW p \in Procs, GuardStep(p)
      PROVE  /\ Step(p) /\ Running(p) /\ UNCHANGED <<now, crossed>>
             /\ \A q \in Procs \ {p} : pc'[q] = pc[q] /\ job'[q] = job[q]
  BY <1>6, StepEffect DEF GuardStep, Running
<1>7. CASE WrapTick
  BY <1>7 DEF WrapTick, Tick
<1> QED
  BY <1>1, <1>2, <1>3, <1>4, <1>5, <1>6, <1>7 DEF WrapNext

(* Between the steps of an uncrossed run nobody else touches the map. *)
LEMMA FreshStep == RunInv /\ Fresh /\ [WrapNext]_allVars => Fresh'
<1> SUFFICES ASSUME RunInv, Fresh, [WrapNext]_allVars,
                    NEW q \in Procs, ~crossed'[q]
             PROVE  FoundOut(pc'[q], job'[q], bans', now')
  BY DEF Fresh
<1>0. /\ \A p \in Procs : p # q /\ Running(p) /\ Running(q) => crossed[q]
      /\ crossed[q] \/ FoundOut(pc[q], job[q], bans, now)
  BY DEF RunInv, Crossing, Fresh
<1>1. ASSUME NEW p \in Procs, Enter(p), UNCHANGED <<bans, now>>,
             pc'[p] \in {"idle", "file", "insert", "look", "check", "sweep"},
             \A r \in Procs \ {p} : pc'[r] = pc[r] /\ job'[r] = job[r]
      PROVE  FoundOut(pc'[q], job'[q], bans', now')
  <2>1. CASE q = p
    BY <1>1, <2>1 DEF FoundOut
  <2>2. CASE q # p
    <3>1. pc'[q] = "idle"
      BY <1>1, <2>2 DEF Enter, Running
    <3> QED
      BY <3>1 DEF FoundOut
  <2> QED
    BY <2>1, <2>2
<1>2. ASSUME NEW p \in Procs, Running(p), UNCHANGED <<bans, now, crossed>>,
             pc'[p] \in {"idle", "exec", "insert", "look"},
             \A r \in Procs \ {p} : pc'[r] = pc[r] /\ job'[r] = job[r]
      PROVE  FoundOut(pc'[q], job'[q], bans', now')
  BY <1>0, <1>2 DEF FoundOut
<1>3. ASSUME NEW p \in Procs, Step(p), Running(p), UNCHANGED <<now, crossed>>,
             \A r \in Procs \ {p} : pc'[r] = pc[r] /\ job'[r] = job[r]
      PROVE  FoundOut(pc'[q], job'[q], bans', now')
  <2>1. CASE q = p
    BY <1>0, <1>3, <2>1, FoundOutStep
  <2>2. CASE q # p
    <3>1. pc'[q] = "idle"
      BY <1>0, <1>3, <2>2 DEF Running
    <3> QED
      BY <3>1 DEF FoundOut
  <2> QED
    BY <2>1, <2>2
<1>4. CASE now' = now + 1 /\ UNCHANGED <<bans, pc, job, crossed>>
  <2>1. /\ now \in Nat /\ \A ip \in Ips : bans[ip] \in Int
        /\ job[q].victims \subseteq Ips
        /\ pc[q] = "drop" => job[q].addr \in Ips
    BY DEF RunInv, WrapTypeOK, Lists, Jobs, Control, Consistent
  <2> QED
    BY <1>0, <1>4, <2>1 DEF FoundOut, Active
<1>5. CASE UNCHANGED allVars
  BY <1>0, <1>5 DEF allVars, vars
<1> QED
  BY <1>1, <1>2, <1>3, <1>4, <1>5, WhoMoves

-------------------------------------------------------------------------------
(* The map never holds more than its capacity. *)
Held(b) == {ip \in Ips : b[ip] # NoBan}
Fits(b) == IsFiniteSet(Held(b)) /\ Cardinality(Held(b)) \in Nat
           /\ Cardinality(Held(b)) <= Capacity

(* Removing an entry leaves the map within its capacity. *)
LEMMA FitsLess ==
    ASSUME NEW b \in Lists, NEW ip \in Ips, Fits(b)
    PROVE  Fits([b EXCEPT ![ip] = NoBan])
<1> DEFINE c == [b EXCEPT ![ip] = NoBan]
<1>1. Held(c) \subseteq Held(b)
  BY DEF Held, Lists
<1>2. IsFiniteSet(Held(c)) /\ Cardinality(Held(c)) <= Cardinality(Held(b))
  BY <1>1, FS_Subset DEF Fits
<1>3. Cardinality(Held(c)) \in Nat
  BY <1>2, FS_CardinalityType
<1> QED
  BY <1>2, <1>3, GuardBansAssumption DEF Fits

(* So does writing an entry that is there, or that there is room for. *)
LEMMA FitsMore ==
    ASSUME NEW b \in Lists, NEW ip \in Ips, NEW u \in Int, Fits(b),
           b[ip] # NoBan \/ Cardinality(Held(b)) < Capacity
    PROVE  Fits([b EXCEPT ![ip] = u])
<1> DEFINE c == [b EXCEPT ![ip] = u]
<1>1. Held(c) \subseteq Held(b) \cup {ip}
  BY DEF Held, Lists
<1>2. ip \in Held(b) <=> b[ip] # NoBan
  BY DEF Held
<1> HIDE DEF c
<1>3. /\ IsFiniteSet(Held(b) \cup {ip}) /\ Cardinality(Held(b) \cup {ip}) <= Capacity
  <2>1. /\ IsFiniteSet(Held(b) \cup {ip})
        /\ Cardinality(Held(b) \cup {ip})
             = IF ip \in Held(b) THEN Cardinality(Held(b)) ELSE Cardinality(Held(b)) + 1
    BY FS_AddElement DEF Fits
  <2> QED
    BY <1>2, <2>1, GuardBansAssumption DEF Fits
<1>4. IsFiniteSet(Held(c)) /\ Cardinality(Held(c)) <= Cardinality(Held(b) \cup {ip})
  BY <1>1, <1>3, FS_Subset
<1>5. Cardinality(Held(c)) \in Nat /\ Cardinality(Held(b) \cup {ip}) \in Nat
  BY <1>3, <1>4, FS_CardinalityType
<1>6. Fits(c)
  BY <1>3, <1>4, <1>5, GuardBansAssumption DEF Fits
<1> QED
  BY <1>6 DEF c

(* No step of the guard overfills the map. *)
LEMMA FitsStep == RunInv /\ Fits(bans) /\ [WrapNext]_allVars => Fits(bans')
<1> SUFFICES ASSUME RunInv, Fits(bans), [WrapNext]_allVars PROVE Fits(bans')
  OBVIOUS
<1>1. ASSUME NEW p \in Procs, Step(p) PROVE Fits(bans')
  <2> DEFINE j == job[p]
  <2>0. /\ bans \in Lists /\ j.until \in Int /\ j.victims \subseteq Ips /\ NoBan \in Int
        /\ pc[p] \in {"insert", "reinsert", "delete", "drop"} => j.addr \in Ips
    BY DEF RunInv, WrapTypeOK, Jobs, Control, Consistent, NoBan
  <2>1. CASE Insert(p)
    <3>1. /\ j.addr \in Ips /\ bans' = [bans EXCEPT ![j.addr] = j.until]
          /\ bans[j.addr] # NoBan \/ Cardinality(Held(bans)) < Capacity
      BY <2>0, <2>1 DEF Insert, Insertable, InMap, Occupied, Held
    <3> QED
      BY <2>0, <3>1, FitsMore
  <2>2. CASE SweepRemove(p)
    <3>1. PICK ip \in j.victims : bans' = [bans EXCEPT ![ip] = NoBan]
      BY <2>2 DEF SweepRemove
    <3> QED
      BY <2>0, <3>1, FitsLess
  <2>3. CASE UnbanDelete(p) \/ CheckDrop(p)
    <3>1. j.addr \in Ips /\ bans' = [bans EXCEPT ![j.addr] = NoBan]
      BY <2>0, <2>3 DEF UnbanDelete, CheckDrop
    <3> QED
      BY <2>0, <3>1, FitsLess
  <2>4. CASE InsertFails(p) \/ SweepScan(p) \/ SweepDone(p) \/ UnbanLook(p)
             \/ UnbanReadBack(p) \/ Check(p)
    BY <2>4 DEF InsertFails, SweepScan, SweepDone, UnbanLook, UnbanReadBack, Check
  <2> QED
    BY <1>1, <2>1, <2>2, <2>3, <2>4 DEF Step
<1>2. CASE UNCHANGED allVars
  BY <1>2 DEF allVars, vars
<1> QED
  BY <1>1, <1>2, WhoMoves

GuardMapInv == RunInv /\ Fresh /\ Fits(bans)

(* The invariant of the runs and of the map. *)
LEMMA GuardMapInvHolds == WrapSpec => []GuardMapInv
<1>1. WrapInit => GuardMapInv
  <2> SUFFICES ASSUME WrapInit PROVE GuardMapInv
    OBVIOUS
  <2>1. RunInv
    BY RunInvInit
  <2>2. Fresh
    BY DEF WrapInit, Init, Fresh, FoundOut
  <2>3. Held(bans) = {}
    BY DEF WrapInit, Init, Empty, Held
  <2>4. Fits(bans)
    BY <2>3, FS_EmptySet, GuardBansAssumption DEF Fits
  <2> QED
    BY <2>1, <2>2, <2>4 DEF GuardMapInv
<1>2. GuardMapInv /\ [WrapNext]_allVars => GuardMapInv'
  BY RunInvStep, FreshStep, FitsStep DEF GuardMapInv
<1> QED
  BY <1>1, <1>2, PTL DEF WrapSpec

(* What a failure of p's run is allowed to mean. *)
Caused(p) ==
    \/ job[p].cmd = "unban" /\ crossed[p]
    \/ /\ job[p].cmd = "ban" /\ Occupied = Capacity
       /\ \A ip \in Ips :
             InMap(ip) => crossed[p] \/ Active(bans[ip], job[p].sweptAt)

(* The run that fails does so for a cause. *)
LEMMA FailureCaused ==
    ASSUME GuardMapInv, NEW p \in Procs, Step(p), result'[p] = "err"
    PROVE  Caused(p)
<1> DEFINE j == job[p]
<1>0. /\ RunInv /\ WrapTypeOK /\ ConsistentRun(p)
      /\ crossed[p] \/ FoundOut(pc[p], job[p], bans, now)
  BY DEF GuardMapInv, RunInv, Control, ConsistentRun, Fresh
<1>1. CASE InsertFails(p)
  <2>1. CASE pc[p] = "insert" /\ Goto(p, "sweep")
    <3>1. result[p] = "none"
      BY <1>0, <2>1 DEF ConsistentRun, Consistent
    <3> QED
      BY <2>1, <3>1 DEF Goto
  <2>2. CASE pc[p] = "reinsert"
    <3>1. j.cmd = "ban"
      BY <1>0, <2>2 DEF ConsistentRun, Consistent
    <3>2. Occupied = Cardinality(Held(bans))
      BY DEF Occupied, InMap, Held
    <3>3. Occupied = Capacity
      BY <1>1, <3>2, GuardBansAssumption DEF InsertFails, Insertable, GuardMapInv, Fits
    <3>4. ASSUME NEW ip \in Ips, InMap(ip)
          PROVE  crossed[p] \/ Active(bans[ip], job[p].sweptAt)
      BY <1>0, <2>2, <3>4 DEF FoundOut, InMap
    <3> QED
      BY <3>1, <3>3, <3>4 DEF Caused
  <2> QED
    BY <1>1, <2>1, <2>2 DEF InsertFails
<1>2. CASE UnbanDelete(p)
  <2>1. pc[p] = "delete" /\ result[p] = "none" /\ j.cmd = "unban"
    BY <1>0, <1>2 DEF ConsistentRun, Consistent, UnbanDelete
  <2>2. ~(InMap(j.addr) \/ ~j.found)
    BY <1>2, <2>1 DEF UnbanDelete, Goto
  <2>3. crossed[p]
    BY <1>0, <2>1, <2>2 DEF FoundOut, InMap
  <2> QED
    BY <2>1, <2>3 DEF Caused
<1>3. CASE UnbanReadBack(p)
  <2>1. pc[p] = "readback" /\ j.cmd = "unban"
    BY <1>0, <1>3 DEF ConsistentRun, Consistent, UnbanReadBack
  <2>2. InMap(j.addr)
    BY <1>0, <1>3 DEF UnbanReadBack, End, WrapTypeOK
  <2>3. crossed[p]
    BY <1>0, <2>1, <2>2 DEF FoundOut, InMap
  <2> QED
    BY <2>1, <2>3 DEF Caused
<1>4. CASE Insert(p) \/ CheckDrop(p)
  BY <1>0, <1>4 DEF Insert, CheckDrop, End, WrapTypeOK
<1>5. CASE SweepScan(p) \/ SweepRemove(p) \/ SweepDone(p) \/ UnbanLook(p) \/ Check(p)
  <2>1. result[p] = "none"
    BY <1>0, <1>5 DEF ConsistentRun, Consistent, SweepScan, SweepRemove, SweepDone, UnbanLook, Check
  <2> QED
    BY <1>0, <1>5, <2>1
       DEF SweepScan, SweepRemove, SweepDone, UnbanLook, Check, Goto, End, WrapTypeOK
<1> QED
  BY <1>1, <1>2, <1>3, <1>4, <1>5 DEF Step

(* A command of the guard that has got at the map fails only for a cause,  *)
(* behind the wrapper or without it, for any number of runs in any order   *)
(* (guard/src/main.rs, cmd_ban and cmd_unban): a ban only against a map    *)
(* that its own sweep could not empty, an unban only if another command    *)
(* ran at the same time.                                                   *)
THEOREM FailuresHaveCauses == WrapSpec => FailsOnlyForCause
<1>1. ASSUME GuardMapInv, [WrapNext]_allVars, NEW p \in Procs,
             job[p] # NoJob, result'[p] = "err"
      PROVE  Caused(p)
  <2>0. RunInv /\ WrapTypeOK /\ ConsistentRun(p)
    BY <1>1 DEF GuardMapInv, RunInv, Control, ConsistentRun
  <2>1. pc[p] \notin {"idle", "file", "exec"} /\ result[p] = "none"
    BY <1>1, <2>0 DEF ConsistentRun, Consistent
  <2>2. CASE UNCHANGED allVars \/ WrapTick
    BY <1>1, <2>1, <2>2 DEF allVars, vars, WrapTick, Tick
  <2>3. ASSUME NEW q \in Procs, GuardStep(q) PROVE Caused(p)
    BY <1>1, <2>0, <2>1, <2>3, StepEffect, FailureCaused DEF GuardStep
  <2>4. ASSUME NEW q \in Procs, Wrap(q) \/ Direct(q) PROVE FALSE
    <3>1. pc[q] = "idle"
      BY <2>4 DEF Wrap, Direct, Command, Enter, Running
    <3>2. p # q /\ result'[p] = result[p]
      BY <2>0, <2>1, <2>4, <3>1 DEF WrapTypeOK, Wrap, Direct, Command, cmd_ban, cmd_unban,
         cmd_check, cmd_list, Declined, Begin, End
    <3> QED
      BY <1>1, <2>1, <3>2
  <2>5. ASSUME NEW q \in Procs, FileRuns(q) \/ FileTears(q) \/ FileFails(q) PROVE FALSE
    <3>1. result' = result
      BY <2>5 DEF FileRuns, FileTears, FileFails, Filed, Goto
    <3> QED
      BY <1>1, <2>1, <3>1
  <2>6. ASSUME NEW q \in Procs, Exec(q) PROVE FALSE
    <3>1. pc[q] = "exec" /\ \A r \in Procs \ {q} : result'[r] = result[r]
      BY <2>0, <2>6, ExecEffect
    <3> QED
      BY <1>1, <2>1, <3>1
  <2>7. ASSUME NEW q \in Procs, Killed(q) PROVE FALSE
    <3>1. result' = [result EXCEPT ![q] = "none"]
      BY <2>7 DEF Killed, Crash, End
    <3> QED
      BY <1>1, <2>0, <2>1, <3>1 DEF WrapTypeOK
  <2> QED
    BY <1>1, <2>2, <2>3, <2>4, <2>5, <2>6, <2>7 DEF WrapNext
<1>2. GuardMapInv /\ [WrapNext]_allVars
        => [\A p \in Procs : job[p] # NoJob /\ result'[p] = "err" =>
              \/ job[p].cmd = "unban" /\ crossed[p]
              \/ /\ job[p].cmd = "ban" /\ Occupied = Capacity
                 /\ \A ip \in Ips :
                       InMap(ip) => crossed[p] \/ Active(bans[ip], job[p].sweptAt)]_vars
  BY <1>1 DEF Caused
<1> QED
  BY <1>2, GuardMapInvHolds, PTL DEF WrapSpec, FailsOnlyForCause

-------------------------------------------------------------------------------
(* The requests the registry sees. *)
Todo == [p \in Procs |-> Asked(p)]

AtOrder == {"insert", "reinsert", "look", "delete"}

(* A step of p changes p's request only, and leaves all as they are if it  *)
(* leaves p's.                                                             *)
LEMMA TodoOne ==
    ASSUME NEW p \in Procs, \A q \in Procs \ {p} : pc'[q] = pc[q] /\ job'[q] = job[q]
    PROVE  /\ Todo' = [Todo EXCEPT ![p] = Asked(p)']
           /\ Asked(p)' = Asked(p) => Todo' = Todo
<1>1. \A q \in Procs \ {p} : Asked(q)' = Asked(q)
  BY DEF Asked
<1> QED
  BY <1>1 DEF Todo

(* A request is one of the three things it may be. *)
LEMMA AskedWhat ==
    ASSUME NEW p \in Procs, ConsistentRun(p)
    PROVE  /\ pc[p] \in AtOrder \/ (job[p].cmd = "ban" /\ pc[p] \in {"sweep", "remove"})
                => /\ Asked(p) = [op |-> job[p].cmd, ip |-> job[p].addr, until |-> job[p].until]
                   /\ Asked(p) # Registry!Nothing
           /\ ~(pc[p] \in AtOrder \/ (job[p].cmd = "ban" /\ pc[p] \in {"sweep", "remove"}))
                => Asked(p) = Registry!Nothing
<1>1. CASE pc[p] \in AtOrder \/ (job[p].cmd = "ban" /\ pc[p] \in {"sweep", "remove"})
  <2>1. job[p].cmd # "none"
    BY <1>1 DEF ConsistentRun, Consistent, AtOrder
  <2>2. Asked(p) = [op |-> job[p].cmd, ip |-> job[p].addr, until |-> job[p].until]
    BY <1>1 DEF Asked, AtOrder
  <2>3. Asked(p).op # Registry!Nothing.op
    BY <2>1, <2>2 DEF Registry!Nothing
  <2> QED
    BY <1>1, <2>2, <2>3
<1>2. CASE ~(pc[p] \in AtOrder \/ (job[p].cmd = "ban" /\ pc[p] \in {"sweep", "remove"}))
  BY <1>2 DEF Asked, AtOrder, Registry!Nothing
<1> QED
  BY <1>1, <1>2

(* How the registry sees the steps of a run. *)
LEMMA RegistryMoves ==
    ASSUME bans \in Lists, NEW p \in Procs, now' = now,
           \A q \in Procs \ {p} : pc'[q] = pc[q] /\ job'[q] = job[q]
    PROVE  /\ Asked(p)' = Asked(p) /\ bans' = bans => UNCHANGED Registry!vars
           /\ Asked(p) # Registry!Nothing /\ Asked(p)' = Registry!Nothing /\ bans' = bans
                => Registry!Next
           /\ \A ip \in Ips : Asked(p)' = Asked(p) /\ ~Active(bans[ip], now)
                                /\ bans' = [bans EXCEPT ![ip] = NoBan]
                => Registry!Next
           /\ \A ip \in Ips, u \in Int :
                 /\ Asked(p) # Registry!Nothing /\ Asked(p)' = Registry!Nothing
                 /\ Asked(p).ip = ip /\ Asked(p).until = u /\ bans' = [bans EXCEPT ![ip] = u]
                 => Registry!Next
           /\ \A ip \in Ips, ttl \in Ttls :
                 /\ Asked(p) = Registry!Nothing /\ bans' = bans
                 /\ Asked(p)' = [op |-> "ban", ip |-> ip,
                                 until |-> IF ttl = 0 THEN Permanent ELSE now + ttl]
                 => Registry!Next
           /\ \A ip \in Ips :
                 /\ Asked(p) = Registry!Nothing /\ bans' = bans
                 /\ Asked(p)' = [op |-> "unban", ip |-> ip, until |-> NoBan]
                 => Registry!Next
<1>0. /\ Todo' = [Todo EXCEPT ![p] = Asked(p)'] /\ Todo[p] = Asked(p)
      /\ Asked(p)' = Asked(p) => Todo' = Todo
  BY TodoOne DEF Todo
<1>1. ASSUME Asked(p)' = Asked(p), bans' = bans PROVE UNCHANGED Registry!vars
  BY <1>0, <1>1 DEF Registry!vars, Todo
<1>2. ASSUME Asked(p) # Registry!Nothing, Asked(p)' = Registry!Nothing, bans' = bans
      PROVE  Registry!Next
  <2>1. Registry!Fail(p)
    BY <1>0, <1>2 DEF Registry!Fail, Todo
  <2> QED
    BY <2>1 DEF Registry!Next
<1>3. ASSUME NEW ip \in Ips, Asked(p)' = Asked(p), ~Active(bans[ip], now),
             bans' = [bans EXCEPT ![ip] = NoBan]
      PROVE  Registry!Next
  <2>1. Registry!Expire(ip)
    BY <1>0, <1>3 DEF Registry!Expire, Todo, Registry!Active, Active, Registry!Permanent,
       Permanent, Registry!NoBan, NoBan
  <2> QED
    BY <2>1 DEF Registry!Next
<1>4. ASSUME NEW ip \in Ips, NEW u \in Int, Asked(p) # Registry!Nothing,
             Asked(p)' = Registry!Nothing, Asked(p).ip = ip, Asked(p).until = u,
             bans' = [bans EXCEPT ![ip] = u]
      PROVE  Registry!Next
  <2>1. bans' \in Lists /\ bans'[ip] = u /\ \A i \in Ips \ {ip} : bans'[i] = bans[i]
    BY <1>4 DEF Lists
  <2>2. Registry!Apply(p)
    BY <1>0, <1>4, <2>1 DEF Registry!Apply, Todo, Registry!Lists, Lists, Registry!Pruned
  <2> QED
    BY <2>2 DEF Registry!Next
<1>5. ASSUME NEW ip \in Ips, NEW ttl \in Ttls, Asked(p) = Registry!Nothing, bans' = bans,
             Asked(p)' = [op |-> "ban", ip |-> ip,
                          until |-> IF ttl = 0 THEN Permanent ELSE now + ttl]
      PROVE  Registry!Next
  <2>1. Registry!AskBan(p, ip, ttl)
    BY <1>0, <1>5 DEF Registry!AskBan, Todo, Registry!Permanent, Permanent
  <2> QED
    BY <2>1 DEF Registry!Next
<1>6. ASSUME NEW ip \in Ips, Asked(p) = Registry!Nothing, bans' = bans,
             Asked(p)' = [op |-> "unban", ip |-> ip, until |-> NoBan]
      PROVE  Registry!Next
  <2>1. Registry!AskUnban(p, ip)
    BY <1>0, <1>6 DEF Registry!AskUnban, Todo, Registry!NoBan, NoBan
  <2> QED
    BY <2>1 DEF Registry!Next
<1> QED
  BY <1>1, <1>2, <1>3, <1>4, <1>5, <1>6

(* Every step of a run that nothing crossed is one the registry allows. *)
LEMMA RegistryStep ==
    ASSUME RunInv, RunInv', NEW p \in Procs, Step(p), FoundOut(pc[p], job[p], bans, now)
    PROVE  [Registry!Next]_(Registry!vars)
<1> DEFINE j == job[p]
<1>0. /\ ConsistentRun(p) /\ ConsistentRun(p)' /\ bans \in Lists /\ now' = now
      /\ j.until \in Int /\ j.victims \subseteq Ips
      /\ j.cmd \in {"ban", "unban", "check"} => j.addr \in Ips
      /\ pc \in [Procs -> Labels] /\ job \in [Procs -> Jobs]
      /\ \A q \in Procs \ {p} : pc'[q] = pc[q] /\ job'[q] = job[q]
      /\ \/ pc'[p] = "idle" /\ job'[p] = NoJob
         \/ /\ job'[p].cmd = j.cmd /\ job'[p].addr = j.addr /\ job'[p].until = j.until
  BY StepEffect DEF RunInv, Control, ConsistentRun, WrapTypeOK, Consistent, Jobs
<1>a. /\ pc[p] \in AtOrder \/ (j.cmd = "ban" /\ pc[p] \in {"sweep", "remove"})
            => /\ Asked(p) = [op |-> j.cmd, ip |-> j.addr, until |-> j.until]
               /\ Asked(p) # Registry!Nothing
      /\ ~(pc[p] \in AtOrder \/ (j.cmd = "ban" /\ pc[p] \in {"sweep", "remove"}))
            => Asked(p) = Registry!Nothing
  BY <1>0, AskedWhat
<1>b. /\ pc'[p] \in AtOrder \/ (job'[p].cmd = "ban" /\ pc'[p] \in {"sweep", "remove"})
            => Asked(p)' = [op |-> job'[p].cmd, ip |-> job'[p].addr, until |-> job'[p].until]
      /\ ~(pc'[p] \in AtOrder \/ (job'[p].cmd = "ban" /\ pc'[p] \in {"sweep", "remove"}))
            => Asked(p)' = Registry!Nothing
  BY <1>0 DEF Asked, AtOrder, Registry!Nothing
<1>1. CASE Insert(p)
  <2>1. /\ pc[p] \in AtOrder /\ j.addr \in Ips /\ pc'[p] = "idle"
        /\ bans' = [bans EXCEPT ![j.addr] = j.until]
    BY <1>0, <1>1 DEF Insert, End, AtOrder, ConsistentRun, Consistent
  <2>2. Asked(p)' = Registry!Nothing
    BY <1>b, <2>1 DEF AtOrder
  <2>3. Asked(p).ip = j.addr /\ Asked(p).until = j.until /\ Asked(p) # Registry!Nothing
    BY <1>a, <2>1
  <2> QED
    BY <1>0, <2>1, <2>2, <2>3, RegistryMoves
<1>2. CASE InsertFails(p)
  <2>1. bans' = bans /\ pc[p] \in AtOrder /\ j.cmd = "ban"
    BY <1>0, <1>2 DEF InsertFails, AtOrder, ConsistentRun, Consistent
  <2>2. CASE End(p, "err")
    <3>1. pc'[p] = "idle"
      BY <1>0, <2>2 DEF End
    <3>2. Asked(p)' = Registry!Nothing
      BY <1>b, <3>1 DEF AtOrder
    <3> QED
      BY <1>0, <1>a, <2>1, <3>2, RegistryMoves
  <2>3. CASE Goto(p, "sweep") /\ UNCHANGED job
    <3>1. pc'[p] = "sweep"
      BY <1>0, <2>3 DEF Goto
    <3>2. Asked(p)' = Asked(p)
      BY <1>a, <1>b, <2>1, <2>3, <3>1
    <3> QED
      BY <1>0, <2>1, <3>2, RegistryMoves
  <2> QED
    BY <1>2, <2>2, <2>3 DEF InsertFails
<1>3. CASE SweepScan(p) \/ UnbanLook(p)
  <2>1. /\ bans' = bans /\ pc'[p] # "idle"
        /\ (pc[p] = "sweep" /\ pc'[p] = "remove") \/ (pc[p] = "look" /\ pc'[p] = "delete")
    BY <1>0, <1>3 DEF SweepScan, UnbanLook, Goto
  <2>2. Asked(p)' = Asked(p)
    BY <1>0, <1>a, <1>b, <2>1 DEF AtOrder
  <2> QED
    BY <1>0, <2>1, <2>2, RegistryMoves
<1>4. CASE SweepRemove(p)
  <2>1. PICK ip \in j.victims : bans' = [bans EXCEPT ![ip] = NoBan]
    BY <1>4 DEF SweepRemove
  <2>2. pc[p] = "remove" /\ pc'[p] = "remove"
    BY <1>4 DEF SweepRemove
  <2>3. ~Active(bans[ip], now)
    BY <2>2 DEF FoundOut
  <2>4. Asked(p)' = Asked(p)
    BY <1>0, <1>a, <1>b, <2>2 DEF AtOrder
  <2> QED
    BY <1>0, <2>1, <2>3, <2>4, RegistryMoves
<1>5. CASE SweepDone(p)
  <2>1. bans' = bans /\ pc[p] = "remove"
    BY <1>5 DEF SweepDone
  <2>2. CASE j.cmd = "ban" /\ Goto(p, "reinsert") /\ UNCHANGED job
    <3>1. pc'[p] = "reinsert"
      BY <1>0, <2>2 DEF Goto
    <3>2. Asked(p)' = Asked(p)
      BY <1>a, <1>b, <2>1, <2>2, <3>1 DEF AtOrder
    <3> QED
      BY <1>0, <2>1, <3>2, RegistryMoves
  <2>3. CASE j.cmd = "list" /\ End(p, "ok")
    <3>1. pc'[p] = "idle"
      BY <1>0, <2>3 DEF End
    <3>2. Asked(p)' = Asked(p)
      BY <1>a, <1>b, <2>1, <2>3, <3>1 DEF AtOrder
    <3> QED
      BY <1>0, <2>1, <3>2, RegistryMoves
  <2> QED
    BY <1>5, <2>2, <2>3 DEF SweepDone
<1>6. CASE UnbanDelete(p)
  <2>1. /\ pc[p] \in AtOrder /\ j.addr \in Ips /\ pc'[p] \in {"idle", "readback"}
        /\ bans' = [bans EXCEPT ![j.addr] = NoBan] /\ j.until = NoBan
    BY <1>0, <1>6 DEF UnbanDelete, End, Goto, AtOrder, ConsistentRun, Consistent
  <2>2. Asked(p)' = Registry!Nothing
    BY <1>b, <2>1 DEF AtOrder
  <2>3. Asked(p).ip = j.addr /\ Asked(p).until = j.until /\ Asked(p) # Registry!Nothing
    BY <1>a, <2>1
  <2> QED
    BY <1>0, <2>1, <2>2, <2>3, RegistryMoves
<1>7. CASE UnbanReadBack(p) \/ Check(p)
  <2>1. bans' = bans /\ pc[p] \in {"readback", "check"} /\ pc'[p] \in {"idle", "drop"}
    BY <1>0, <1>7 DEF UnbanReadBack, Check, End, Goto
  <2>2. Asked(p)' = Asked(p)
    BY <1>a, <1>b, <2>1 DEF AtOrder
  <2> QED
    BY <1>0, <2>1, <2>2, RegistryMoves
<1>8. CASE CheckDrop(p)
  <2>1. /\ pc[p] = "drop" /\ pc'[p] = "idle" /\ bans' = [bans EXCEPT ![j.addr] = NoBan]
        /\ j.addr \in Ips
    BY <1>0, <1>8 DEF CheckDrop, End, ConsistentRun, Consistent
  <2>2. Asked(p)' = Asked(p)
    BY <1>a, <1>b, <2>1 DEF AtOrder
  <2>3. ~Active(bans[j.addr], now)
    BY <2>1 DEF FoundOut
  <2> QED
    BY <1>0, <2>1, <2>2, <2>3, RegistryMoves
<1> QED
  BY <1>1, <1>2, <1>3, <1>4, <1>5, <1>6, <1>7, <1>8 DEF Step

(* So is the start of a command, and whatever else happens to a run. *)
LEMMA RegistryOther ==
    ASSUME RunInv, RunInv', NEW p \in Procs,
           \/ Wrap(p) \/ FileRuns(p) \/ FileTears(p) \/ FileFails(p) \/ Exec(p)
           \/ Direct(p) \/ Killed(p)
    PROVE  [Registry!Next]_(Registry!vars)
<1>0. /\ ConsistentRun(p) /\ bans \in Lists /\ pc \in [Procs -> Labels]
      /\ job \in [Procs -> Jobs] /\ WrapTypeOK
  BY DEF RunInv, Control, ConsistentRun, WrapTypeOK
<1>a. /\ pc[p] \in AtOrder \/ (job[p].cmd = "ban" /\ pc[p] \in {"sweep", "remove"})
            => Asked(p) # Registry!Nothing
      /\ ~(pc[p] \in AtOrder \/ (job[p].cmd = "ban" /\ pc[p] \in {"sweep", "remove"}))
            => Asked(p) = Registry!Nothing
  BY <1>0, AskedWhat
<1>b. /\ pc'[p] \in {"insert", "look"}
            => Asked(p)' = [op |-> job'[p].cmd, ip |-> job'[p].addr, until |-> job'[p].until]
      /\ pc'[p] \in {"idle", "file", "exec", "check"} => Asked(p)' = Registry!Nothing
      /\ pc'[p] = "sweep" /\ job'[p].cmd = "list" => Asked(p)' = Registry!Nothing
  BY DEF Asked, Registry!Nothing
<1>1. ASSUME NEW ip \in Ips, NEW ttl \in Ttls, pc[p] \in {"idle", "exec"},
             cmd_ban(p, ip, ttl)
      PROVE  Registry!Next
  <2> DEFINE u == IF ttl = 0 THEN Permanent ELSE now + ttl
  <2>1. u \in Int
    BY <1>0, GuardBansAssumption DEF WrapTypeOK, Permanent
  <2>2. Begin(p, Job("ban", ip, u), "insert") /\ Job("ban", ip, u) \in Jobs
    BY <1>1, <2>1, JobFacts DEF cmd_ban
  <2> HIDE DEF u
  <2>3. /\ pc'[p] = "insert" /\ job'[p] = Job("ban", ip, u) /\ UNCHANGED <<bans, now>>
        /\ \A q \in Procs \ {p} : pc'[q] = pc[q] /\ job'[q] = job[q]
    BY <1>0, <2>2, BeginEffect DEF Labels
  <2>4. Asked(p)' = [op |-> "ban", ip |-> ip, until |-> u]
    BY <1>b, <2>1, <2>3, JobFacts
  <2>5. Asked(p) = Registry!Nothing
    BY <1>1, <1>a DEF AtOrder
  <2> QED
    BY <1>0, <2>3, <2>4, <2>5, RegistryMoves DEF u
<1>2. ASSUME NEW ip \in Ips, pc[p] \in {"idle", "exec"}, cmd_unban(p, ip)
      PROVE  Registry!Next
  <2>1. NoBan \in Int
    BY DEF NoBan
  <2>2. Begin(p, Job("unban", ip, NoBan), "look") /\ Job("unban", ip, NoBan) \in Jobs
    BY <1>2, <2>1, JobFacts DEF cmd_unban
  <2>3. /\ pc'[p] = "look" /\ job'[p] = Job("unban", ip, NoBan) /\ UNCHANGED <<bans, now>>
        /\ \A q \in Procs \ {p} : pc'[q] = pc[q] /\ job'[q] = job[q]
    BY <1>0, <2>2, BeginEffect DEF Labels
  <2>4. Asked(p)' = [op |-> "unban", ip |-> ip, until |-> NoBan]
    BY <1>b, <2>1, <2>3, JobFacts
  <2>5. Asked(p) = Registry!Nothing
    BY <1>2, <1>a DEF AtOrder
  <2> QED
    BY <1>0, <2>3, <2>4, <2>5, RegistryMoves
<1>3. ASSUME \A q \in Procs \ {p} : pc'[q] = pc[q] /\ job'[q] = job[q],
             UNCHANGED <<bans, now>>,
             pc'[p] \in {"idle", "file", "exec", "check"} \/ (pc'[p] = "sweep" /\ job'[p].cmd = "list")
      PROVE  [Registry!Next]_(Registry!vars)
  <2>1. Asked(p)' = Registry!Nothing
    BY <1>3, <1>b
  <2> QED
    BY <1>0, <1>3, <2>1, RegistryMoves
<1>4. CASE Wrap(p) \/ FileRuns(p) \/ FileTears(p) \/ FileFails(p) \/ Killed(p)
  <2>1. \A q \in Procs \ {p} : pc'[q] = pc[q] /\ job'[q] = job[q]
    BY <1>0, <1>4 DEF Wrap, FileRuns, FileTears, FileFails, Killed, Begin, Filed, Goto, Crash, End
  <2>2. UNCHANGED <<bans, now>> /\ pc'[p] \in {"idle", "file", "exec"}
    BY <1>0, <1>4 DEF Wrap, FileRuns, FileTears, FileFails, Killed, Begin, Filed, Goto, Crash, End,
       Quiet
  <2> QED
    BY <1>3, <2>1, <2>2
<1>5. ASSUME NEW r, Declined(p, r) PROVE [Registry!Next]_(Registry!vars)
  BY <1>0, <1>3, <1>5 DEF Declined, End
<1>6. CASE Exec(p)
  <2>1. /\ pc[p] = "exec" /\ order[p].ip \in Ips
        /\ order[p].op = "ban" => order[p].ttl \in Ttls
    BY <1>6, ExecEffect, OrderFacts DEF Orders
  <2> QED
    BY <1>1, <1>2, <1>5, <1>6, <2>1 DEF Exec
<1>7. CASE Direct(p)
  <2>1. Command(p) /\ pc[p] = "idle"
    BY <1>7 DEF Direct, Command, Enter, Running
  <2>2. ASSUME NEW ip \in Ips, cmd_check(p, ip) PROVE [Registry!Next]_(Registry!vars)
    BY <1>0, <1>3, <2>2 DEF cmd_check, Begin
  <2>3. ASSUME cmd_list(p) PROVE [Registry!Next]_(Registry!vars)
    <3>1. /\ UNCHANGED <<bans, now>> /\ pc'[p] = "sweep" /\ job'[p] = Job("list", "none", NoBan)
          /\ \A q \in Procs \ {p} : pc'[q] = pc[q] /\ job'[q] = job[q]
      BY <1>0, <2>3 DEF cmd_list, Begin
    <3> QED
      BY <1>3, <3>1, JobFacts
  <2> QED
    BY <1>1, <1>2, <1>5, <2>1, <2>2, <2>3 DEF Command
<1> QED
  BY <1>4, <1>6, <1>7

(* The eBPF backend keeps the registry's promise for any number of runs,   *)
(* any capacity of the map and with the file backend beside it, in every   *)
(* step taken while no run in progress has been crossed by another         *)
(* (guard/src/main.rs, prune_expired, cmd_ban, cmd_unban, cmd_check).      *)
THEOREM MapKeepsRegistry == WrapSpec => KeepsRegistryAlone
<1>1. WrapInit => Registry!Init
  <2> SUFFICES ASSUME WrapInit PROVE Registry!Init
    OBVIOUS
  <2>1. \A p \in Procs : Asked(p) = Registry!Nothing
    BY DEF WrapInit, Init, Asked, Registry!Nothing, NoJob, Job
  <2> QED
    BY <2>1 DEF WrapInit, Init, Registry!Init, Registry!Empty, Empty, Registry!NoBan, NoBan
<1>2. ASSUME GuardMapInv, GuardMapInv', [WrapNext]_allVars, \A p \in Procs : Running(p) => ~crossed[p]
      PROVE  [Registry!Next]_(Registry!vars)
  <2>0. RunInv /\ RunInv'
    BY <1>2 DEF GuardMapInv
  <2>1. ASSUME NEW p \in Procs, GuardStep(p) PROVE [Registry!Next]_(Registry!vars)
    <3>1. Step(p) /\ Running(p)
      BY <2>0, <2>1, StepEffect DEF GuardStep, Running
    <3>2. FoundOut(pc[p], job[p], bans, now)
      BY <1>2, <3>1 DEF GuardMapInv, Fresh
    <3> QED
      BY <2>0, <3>1, <3>2, RegistryStep
  <2>2. CASE WrapTick
    <3>1. Registry!Tick
      BY <2>2 DEF WrapTick, Tick, Registry!Tick, Asked
    <3> QED
      BY <3>1 DEF Registry!Next
  <2>3. CASE UNCHANGED allVars
    BY <2>3 DEF allVars, vars, Registry!vars, Asked
  <2> QED
    BY <1>2, <2>0, <2>1, <2>2, <2>3, RegistryOther DEF WrapNext
<1>3. GuardMapInv /\ GuardMapInv' /\ [WrapNext]_allVars
        => [(\A p \in Procs : Running(p) => ~crossed[p])
               => [Registry!Next]_(Registry!vars)]_vars
  BY <1>2
<1> QED
  BY <1>1, <1>3, GuardMapInvHolds, PTL DEF WrapSpec, KeepsRegistryAlone

-------------------------------------------------------------------------------
(* The agreement of the two backends holds at every later time as well:    *)
(* nothing but the clock moves it.                                         *)
Agreeing(f, b, g, t0) ==
    \A t \in Nat : t >= t0 =>
        /\ Active(f, t) => Active(b, t)
        /\ Active(b, t + g) => Active(f, t)

(* What the file backend has made of an order whose guard has not finished *)
(* yet, at time t: the deadline the guard will use is later by the lag.    *)
FiledAs(l, j, o, g, f, t) ==
    g # NotFiled =>
        /\ l = "exec" =>
              /\ g < t
              /\ o.op = "ban" => f[o.ip] = IF o.ttl = 0 THEN Permanent ELSE t - g + o.ttl
              /\ o.op = "unban" => f[o.ip] = NoBan
        /\ l # "exec" =>
              /\ j.cmd = "ban" => \/ f[j.addr] = Permanent /\ j.until = Permanent
                                  \/ f[j.addr] >= 1 /\ j.until = f[j.addr] + g
              /\ j.cmd = "unban" => f[j.addr] = NoBan

(* An address is agreed on only while no order on it is at work, and what  *)
(* a run is about to drop has lapsed.                                      *)
SameBans == \A ip \in Ips : agreed[ip] # NotFiled => Agreeing(file[ip], bans[ip], agreed[ip], now)
NoOpenOrder == \A p \in Procs : job[p].cmd \in {"ban", "unban"} => agreed[job[p].addr] = NotFiled
Dropping(p, ip) == ip \in job[p].victims \/ (pc[p] = "drop" /\ job[p].addr = ip)
DropsLapsed ==
    \A p \in Procs, ip \in Ips :
        agreed[ip] # NotFiled /\ Dropping(p, ip) => ~Active(bans[ip], now)
FiledRight == \A p \in Procs : crossed[p] \/ FiledAs(pc[p], job[p], order[p], lag[p], file, now)

Agreement == SameBans /\ NoOpenOrder /\ DropsLapsed /\ FiledRight

(* The ways an agreement goes on. *)
LEMMA AgreeingFacts ==
    ASSUME NEW f \in Int, NEW b \in Int, NEW g \in Nat, NEW t0 \in Nat, t0 >= 1
    PROVE  /\ Agreeing(f, b, g, t0) /\ ~Active(b, t0) => Agreeing(f, NoBan, g, t0)
           /\ Agreeing(f, b, g, t0) /\ ~Active(f, t0) => Agreeing(NoBan, b, g, t0)
           /\ Agreeing(f, b, g, t0) => Agreeing(f, b, g, t0 + 1)
           /\ (f = Permanent /\ b = Permanent) \/ (f >= 1 /\ b = f + g) => Agreeing(f, b, g, t0)
           /\ Agreeing(NoBan, NoBan, g, t0)
<1>1. ASSUME Agreeing(f, b, g, t0), ~Active(b, t0) PROVE Agreeing(f, NoBan, g, t0)
  BY <1>1 DEF Agreeing, Active, NoBan, Permanent
<1>2. ASSUME Agreeing(f, b, g, t0), ~Active(f, t0) PROVE Agreeing(NoBan, b, g, t0)
  BY <1>2 DEF Agreeing, Active, NoBan, Permanent
<1>3. ASSUME Agreeing(f, b, g, t0) PROVE Agreeing(f, b, g, t0 + 1)
  BY <1>3 DEF Agreeing
<1>4. ASSUME (f = Permanent /\ b = Permanent) \/ (f >= 1 /\ b = f + g) PROVE Agreeing(f, b, g, t0)
  BY <1>4 DEF Agreeing, Active, Permanent
<1>5. Agreeing(NoBan, NoBan, g, t0)
  BY DEF Agreeing, Active, NoBan, Permanent
<1> QED
  BY <1>1, <1>2, <1>3, <1>4, <1>5

(* What a step of the guard does to the map and to what its run drops. *)
LEMMA MapChange ==
    ASSUME RunInv, NEW p \in Procs, Step(p)
    PROVE  /\ \/ bans' = bans
              \/ /\ job[p].cmd \in {"ban", "unban"} /\ job[p].addr \in Ips
                 /\ bans' = [bans EXCEPT ![job[p].addr] = job[p].until]
              \/ \E ip \in Ips : Dropping(p, ip) /\ bans' = [bans EXCEPT ![ip] = NoBan]
           /\ \A ip \in Ips : Dropping(p, ip)' =>
                 Dropping(p, ip) \/ (bans' = bans /\ Lapsed(ip))
           /\ result'[p] = "ok" /\ job[p].cmd = "ban" =>
                 /\ job[p].addr \in Ips /\ bans' = [bans EXCEPT ![job[p].addr] = job[p].until]
           /\ result'[p] = "ok" /\ job[p].cmd = "unban" =>
                 bans' = bans /\ bans[job[p].addr] = NoBan
<1> DEFINE j == job[p]
<1>0. /\ WrapTypeOK /\ ConsistentRun(p) /\ bans \in Lists /\ now \in Nat
      /\ pc \in [Procs -> Labels] /\ job \in [Procs -> Jobs] /\ j \in Jobs
      /\ j.victims \subseteq Ips
      /\ result \in [Procs -> {"none", "ok", "err"}] /\ (pc[p] # "idle" => result[p] = "none")
      /\ j.cmd \in {"ban", "unban", "check"} => j.addr \in Ips
      /\ NoJob.victims = {}
  <2>1. WrapTypeOK /\ ConsistentRun(p)
    BY DEF RunInv, Control, ConsistentRun
  <2>2. j \in Jobs /\ j.victims \subseteq Ips
    BY <2>1 DEF WrapTypeOK, Jobs
  <2> QED
    BY <2>1, <2>2, JobFacts DEF WrapTypeOK, ConsistentRun, Consistent
<1>1. ASSUME NEW r, End(p, r)
      PROVE  (\A ip \in Ips : ~Dropping(p, ip)') /\ result'[p] = r
  BY <1>0, <1>1 DEF End, Dropping
<1>2. ASSUME NEW l \in Labels, Goto(p, l)
      PROVE  pc'[p] = l /\ (pc[p] # "idle" => result'[p] = "none")
  BY <1>0, <1>2 DEF Goto
<1>3. CASE Insert(p)
  <2>1. /\ pc[p] \in {"insert", "reinsert"} /\ End(p, "ok") /\ j.cmd = "ban" /\ j.addr \in Ips
        /\ bans' = [bans EXCEPT ![j.addr] = j.until]
    BY <1>0, <1>3 DEF Insert, ConsistentRun, Consistent
  <2> QED
    BY <1>1, <2>1
<1>4. CASE InsertFails(p)
  <2>1. bans' = bans /\ pc[p] \in {"insert", "reinsert"} /\ j.victims = {}
    BY <1>0, <1>4 DEF InsertFails, ConsistentRun, Consistent
  <2>2. CASE Goto(p, "sweep") /\ UNCHANGED job
    BY <1>2, <2>1, <2>2 DEF Labels, Dropping
  <2>3. CASE End(p, "err")
    BY <1>1, <2>1, <2>3
  <2> QED
    BY <1>4, <2>2, <2>3 DEF InsertFails
<1>5. CASE SweepScan(p)
  <2>1. /\ pc[p] = "sweep" /\ Goto(p, "remove") /\ bans' = bans
        /\ job' = [job EXCEPT ![p] = [j EXCEPT !.victims = {ip \in Ips : Lapsed(ip)},
                                               !.sweptAt = now]]
    BY <1>5 DEF SweepScan, Quiet
  <2>2. job'[p].victims = {ip \in Ips : Lapsed(ip)}
    BY <1>0, <2>1 DEF Jobs
  <2>3. pc'[p] = "remove" /\ result'[p] = "none"
    BY <1>2, <2>1 DEF Labels
  <2> QED
    BY <2>1, <2>2, <2>3 DEF Dropping
<1>6. CASE SweepRemove(p)
  <2>1. PICK ip \in j.victims :
          /\ bans' = [bans EXCEPT ![ip] = NoBan]
          /\ job' = [job EXCEPT ![p] = [j EXCEPT !.victims = @ \ {ip}]]
    BY <1>6 DEF SweepRemove
  <2>2. pc[p] = "remove" /\ pc'[p] = "remove" /\ result'[p] = "none"
    BY <1>0, <1>6 DEF SweepRemove
  <2>3. job'[p].victims = j.victims \ {ip}
    BY <1>0, <2>1 DEF Jobs
  <2>4. ip \in Ips /\ Dropping(p, ip) /\ \A i \in Ips : Dropping(p, i)' => Dropping(p, i)
    BY <1>0, <2>2, <2>3 DEF Dropping
  <2> QED
    BY <2>1, <2>2, <2>4
<1>7. CASE SweepDone(p)
  <2>1. bans' = bans /\ j.victims = {} /\ pc[p] = "remove"
    BY <1>7 DEF SweepDone
  <2>2. CASE Goto(p, "reinsert") /\ UNCHANGED job
    BY <1>2, <2>1, <2>2 DEF Labels, Dropping
  <2>3. CASE End(p, "ok") /\ j.cmd = "list"
    BY <1>1, <2>1, <2>3
  <2> QED
    BY <1>7, <2>2, <2>3 DEF SweepDone
<1>8. CASE UnbanLook(p)
  <2>1. /\ pc[p] = "look" /\ Goto(p, "delete") /\ bans' = bans
        /\ job' = [job EXCEPT ![p] = [j EXCEPT !.found = InMap(j.addr)]]
    BY <1>8 DEF UnbanLook, Quiet
  <2>2. job'[p].victims = j.victims
    BY <1>0, <2>1 DEF Jobs
  <2>3. pc'[p] = "delete" /\ result'[p] = "none"
    BY <1>2, <2>1 DEF Labels
  <2> QED
    BY <2>1, <2>2, <2>3 DEF Dropping
<1>9. CASE UnbanDelete(p)
  <2>1. /\ pc[p] = "delete" /\ j.cmd = "unban" /\ j.until = NoBan /\ j.addr \in Ips
        /\ bans' = [bans EXCEPT ![j.addr] = j.until] /\ j.victims = {}
    BY <1>0, <1>9 DEF UnbanDelete, ConsistentRun, Consistent
  <2>2. CASE Goto(p, "readback") /\ UNCHANGED job
    BY <1>2, <2>1, <2>2 DEF Labels, Dropping
  <2>3. CASE End(p, "err")
    BY <1>1, <2>1, <2>3
  <2> QED
    BY <1>9, <2>2, <2>3 DEF UnbanDelete
<1>10. CASE UnbanReadBack(p)
  <2>1. /\ bans' = bans /\ j.cmd = "unban"
        /\ End(p, IF InMap(j.addr) THEN "err" ELSE "ok")
    BY <1>0, <1>10 DEF UnbanReadBack, ConsistentRun, Consistent
  <2>2. (\A ip \in Ips : ~Dropping(p, ip)') /\ result'[p] = IF InMap(j.addr) THEN "err" ELSE "ok"
    BY <1>1, <2>1
  <2> QED
    BY <2>1, <2>2 DEF InMap
<1>11. CASE Check(p)
  <2>1. bans' = bans /\ pc[p] = "check" /\ j.cmd = "check" /\ j.victims = {}
    BY <1>0, <1>11 DEF Check, ConsistentRun, Consistent
  <2>2. CASE Lapsed(j.addr) /\ Goto(p, "drop") /\ UNCHANGED job
    BY <1>2, <2>1, <2>2 DEF Labels, Dropping
  <2>3. CASE End(p, "ok")
    BY <1>1, <2>1, <2>3
  <2> QED
    BY <1>11, <2>2, <2>3 DEF Check
<1>12. CASE CheckDrop(p)
  <2>1. /\ pc[p] = "drop" /\ j.cmd = "check" /\ j.addr \in Ips /\ End(p, "ok")
        /\ bans' = [bans EXCEPT ![j.addr] = NoBan] /\ Dropping(p, j.addr)
    BY <1>0, <1>12 DEF CheckDrop, ConsistentRun, Consistent, Dropping
  <2> QED
    BY <1>1, <2>1
<1> QED
  BY <1>3, <1>4, <1>5, <1>6, <1>7, <1>8, <1>9, <1>10, <1>11, <1>12 DEF Step

(* What the file backend did for an uncrossed run stays done until the     *)
(* guard has done the same.                                                *)
LEMMA FiledRightStep ==
    RunInv /\ RunInv' /\ FiledRight /\ [WrapNext]_allVars => FiledRight'
<1> SUFFICES ASSUME RunInv, RunInv', FiledRight, [WrapNext]_allVars,
                    NEW q \in Procs, ~crossed'[q], lag'[q] # NotFiled
             PROVE  FiledAs(pc'[q], job'[q], order'[q], lag'[q], file', now')
  BY DEF FiledRight, FiledAs
<1> DEFINE Goal == FiledAs(pc'[q], job'[q], order'[q], lag'[q], file', now')
<1>0. /\ pc'[q] \notin {"idle", "file"}
      /\ pc[q] \in {"idle", "file"} => lag[q] = NotFiled
      /\ \A p \in Procs : p # q /\ Running(p) /\ Running(q) => crossed[q]
      /\ crossed[q] \/ FiledAs(pc[q], job[q], order[q], lag[q], file, now)
      /\ WrapTypeOK /\ now \in Nat /\ now >= 1 /\ lag[q] \in Lags /\ ConsistentRun(q)
  BY DEF RunInv, Crossing, FiledRight, Control, Consistent, WrapTypeOK, ConsistentRun
<1>1. ASSUME NEW p \in Procs, Wrap(p) \/ Direct(p) PROVE Goal
  <2>1. Enter(p) /\ lag' = lag /\ pc[p] = "idle" /\ (p # q => pc'[q] = pc[q])
    BY <1>1, WhoMoves, <1>0 DEF Wrap, Direct, Command, Enter, Running, Begin, WrapTypeOK,
       cmd_ban, cmd_unban, cmd_check, cmd_list, Declined, End
  <2>2. pc[q] = "idle"
    BY <2>1 DEF Enter, Running
  <2> QED
    BY <1>0, <2>1, <2>2
<1>2. ASSUME NEW p \in Procs, Running(p), crossed' = crossed, OnlyRun(p), p # q PROVE Goal
  <2>1. pc[q] = pc'[q] /\ lag'[q] = lag[q]
    BY <1>2 DEF OnlyRun
  <2>2. Running(q)
    BY <1>0, <2>1 DEF Running
  <2> QED
    BY <1>0, <1>2, <2>2
<1>3. ASSUME NEW p \in Procs, FileRuns(p) PROVE Goal
  <2>1. Filed(p, Ips) /\ lag' = [lag EXCEPT ![p] = 0]
    BY <1>3 DEF FileRuns
  <2>2. /\ pc[p] = "file" /\ Goto(p, "exec") /\ UNCHANGED <<now, crossed, bans, job, order>>
        /\ order[p] \in Orders /\ file' = [ip \in Ips |-> Rewritten(order[p])[ip]]
    BY <2>1, FiledEffect
  <2>3. /\ pc'[p] = "exec" /\ result' = result /\ OnlyRun(p) /\ lag'[p] = 0
        /\ order[p].ip \in Ips /\ order[p].op \in {"ban", "unban"}
    BY <1>0, <2>1, <2>2, GotoEffect, OrderFacts DEF OnlyRun, WrapTypeOK, Labels, Orders
  <2>4. CASE p = q
    <3>1. /\ order[p].op = "ban" => order[p].ttl \in Nat
      BY <2>2, GuardBansAssumption DEF Orders
    <3> QED
      BY <1>0, <2>2, <2>3, <2>4, <3>1 DEF FiledAs, Rewritten, NotFiled
  <2> QED
    BY <1>2, <2>2, <2>3, <2>4 DEF Running
<1>4. ASSUME NEW p \in Procs, FileTears(p) \/ FileFails(p) PROVE Goal
  <2>1. pc[p] = "file" /\ Goto(p, "exec") /\ UNCHANGED <<now, crossed, job, order, lag>>
    BY <1>4 DEF FileTears, FileFails, Filed, Quiet, wrapVars
  <2>2. OnlyRun(p)
    BY <1>0, <2>1, GotoEffect DEF OnlyRun, Labels
  <2> QED
    BY <1>0, <1>2, <2>1, <2>2 DEF Running
<1>5. ASSUME NEW p \in Procs, Exec(p) PROVE Goal
  <2>1. /\ pc[p] = "exec" /\ UNCHANGED <<now, crossed, file>> /\ OnlyRun(p)
        /\ Running(p)' => order'[p] = order[p] /\ lag'[p] = lag[p]
    BY <1>0, <1>5, ExecEffect, ForgetEffect DEF OnlyRun
  <2>2. CASE p = q
    <3>1. order'[q] = order[q] /\ lag'[q] = lag[q] /\ order[q] \in Orders
          /\ FiledAs(pc[q], job[q], order[q], lag[q], file, now)
      BY <1>0, <1>5, <2>1, <2>2, ExecEffect DEF Running
    <3>2. lag[q] # NotFiled /\ lag[q] \in Nat
      BY <1>0, <3>1 DEF Lags
    <3>3. CASE pc'[q] = "insert"
      <4> DEFINE u == IF order[q].ttl = 0 THEN Permanent ELSE now + order[q].ttl
      <4>1. order[q].op = "ban" /\ job'[q] = Job("ban", order[q].ip, u) /\ order[q].ttl \in Ttls
        BY <1>5, <2>2, <3>3, ExecEffect
      <4>2. order[q].ttl \in Nat /\ u \in Int /\ order[q].ip \in Ips
        <5>1. order[q].ttl \in Nat
          BY <4>1, GuardBansAssumption
        <5>2. order[q].ip \in Ips
          BY <1>5, <2>2, ExecEffect
        <5> QED
          BY <1>0, <5>1, <5>2 DEF Permanent
      <4>3. /\ lag[q] < now
            /\ file[order[q].ip] = IF order[q].ttl = 0 THEN Permanent
                                   ELSE now - lag[q] + order[q].ttl
        BY <2>1, <2>2, <3>1, <3>2, <4>1 DEF FiledAs
      <4>4. \/ file[order[q].ip] = Permanent /\ u = Permanent
            \/ file[order[q].ip] >= 1 /\ u = file[order[q].ip] + lag[q]
        BY <1>0, <3>2, <4>2, <4>3
      <4> HIDE DEF u
      <4>5. job'[q].cmd = "ban" /\ job'[q].addr = order[q].ip /\ job'[q].until = u
        BY <4>1, <4>2, JobFacts
      <4> QED
        BY <2>1, <3>1, <3>3, <4>4, <4>5 DEF FiledAs
    <3>4. CASE pc'[q] = "look"
      <4>1. order[q].op = "unban" /\ job'[q] = Job("unban", order[q].ip, NoBan)
            /\ order[q].ip \in Ips /\ NoBan \in Int
        BY <1>5, <2>2, <3>4, ExecEffect DEF NoBan
      <4>2. job'[q].cmd = "unban" /\ job'[q].addr = order[q].ip
        BY <4>1, JobFacts
      <4> QED
        BY <2>1, <2>2, <3>1, <3>2, <3>4, <4>1, <4>2 DEF FiledAs
    <3> QED
      BY <1>0, <1>5, <2>2, <3>3, <3>4, ExecEffect
  <2> QED
    BY <1>2, <2>1, <2>2 DEF Running
<1>6. ASSUME NEW p \in Procs, GuardStep(p) PROVE Goal
  <2>1. /\ Step(p) /\ UNCHANGED <<now, crossed, file>> /\ OnlyRun(p)
        /\ pc[p] \notin {"idle", "file", "exec"}
        /\ Running(p)' => order'[p] = order[p] /\ lag'[p] = lag[p]
    BY <1>0, <1>6, StepEffect, ForgetEffect DEF OnlyRun, GuardStep
  <2>2. CASE p = q
    <3>1. /\ job'[q].cmd = job[q].cmd /\ job'[q].addr = job[q].addr
          /\ job'[q].until = job[q].until /\ pc'[q] # "exec" /\ pc[q] # "exec"
      BY <1>0, <2>1, <2>2, StepEffect
    <3>2. lag'[q] = lag[q] /\ FiledAs(pc[q], job[q], order[q], lag[q], file, now)
      BY <1>0, <2>1, <2>2 DEF Running
    <3> QED
      BY <2>1, <3>1, <3>2 DEF FiledAs
  <2> QED
    BY <1>2, <2>1, <2>2 DEF Running
<1>7. ASSUME NEW p \in Procs, Killed(p) PROVE Goal
  <2>1. /\ Running(p) /\ End(p, "none") /\ crossed' = crossed /\ Forget(p)
    BY <1>7 DEF Killed, Crash, Quiet
  <2>2. pc'[p] = "idle" /\ OnlyRun(p)
    BY <1>0, <2>1, EndEffect, ForgetEffect DEF OnlyRun
  <2> QED
    BY <1>0, <1>2, <2>1, <2>2
<1>8. CASE WrapTick
  <2>1. /\ now' = now + 1 /\ UNCHANGED <<pc, job, crossed, file, order>>
        /\ lag'[q] = IF pc[q] = "exec" /\ lag[q] # NotFiled THEN lag[q] + 1 ELSE lag[q]
    BY <1>8 DEF WrapTick, Tick
  <2>2. lag[q] # NotFiled /\ lag[q] \in Nat /\ FiledAs(pc[q], job[q], order[q], lag[q], file, now)
    BY <1>0, <2>1 DEF Lags
  <2>3. order[q].op = "ban" /\ pc[q] = "exec" => order[q].ttl \in Int
    <3>1. pc[q] = "exec" => order[q] # NoOrder /\ order[q] \in Orders \cup {NoOrder}
      BY <1>0 DEF WrapTypeOK, ConsistentRun, Consistent
    <3>2. order[q].op = "ban" /\ pc[q] = "exec" => order[q].ttl \in Ttls
      BY <3>1, OrderFacts
    <3>3. \A n \in Ttls : n \in Int
      BY GuardBansAssumption
    <3> QED
      BY <3>2, <3>3
  <2> QED
    BY <1>0, <2>1, <2>2, <2>3 DEF FiledAs
<1>9. CASE UNCHANGED allVars
  BY <1>0, <1>9 DEF allVars, vars, wrapVars
<1> QED
  BY <1>1, <1>3, <1>4, <1>5, <1>6, <1>7, <1>8, <1>9 DEF WrapNext

(* An uncrossed run that ends well has the map to itself, and brings the   *)
(* two backends to agree on its address.                                   *)
LEMMA NowAgreed ==
    ASSUME RunInv, FiledRight, NEW p \in Procs, Step(p), result'[p] = "ok",
           lag[p] # NotFiled, ~crossed[p]
    PROVE  /\ order[p].ip = job[p].addr /\ order[p].ip \in Ips
           /\ Agreeing(file[order[p].ip], bans'[order[p].ip], lag[p], now)
           /\ \A q \in Procs : job'[q] = NoJob
<1> DEFINE j == job[p]
<1>0. /\ pc[p] \notin {"idle", "file", "exec"} /\ now \in Nat /\ now >= 1
      /\ FiledAs(pc[p], job[p], order[p], lag[p], file, now)
      /\ file \in Lists /\ bans \in Lists /\ bans' \in Lists /\ j.until \in Int
      /\ ConsistentRun(p) /\ WrapTypeOK
  BY StepEffect DEF FiledRight, RunInv, WrapTypeOK, Control, ConsistentRun, Jobs
<1>1. /\ order[p] # NoOrder /\ order[p] \in Orders \cup {NoOrder} /\ lag[p] \in Nat
      /\ j.cmd = order[p].op /\ j.addr = order[p].ip
  BY <1>0 DEF ConsistentRun, Consistent, WrapTypeOK, Lags
<1>2. j.cmd \in {"ban", "unban"} /\ j.addr \in Ips
  BY <1>1, OrderFacts
<1>3. file[j.addr] \in Int /\ bans'[j.addr] \in Int
  BY <1>0, <1>2 DEF Lists
<1>4. Agreeing(file[j.addr], bans'[j.addr], lag[p], now)
  <2>1. CASE j.cmd = "ban"
    <3>1. bans'[j.addr] = j.until
      BY <1>0, <1>2, <2>1, MapChange DEF Lists
    <3> QED
      BY <1>0, <1>1, <1>3, <2>1, <3>1, AgreeingFacts DEF FiledAs
  <2>2. CASE j.cmd = "unban"
    <3>1. bans'[j.addr] = NoBan /\ file[j.addr] = NoBan
      BY <1>0, <2>2, MapChange DEF FiledAs
    <3> QED
      BY <1>0, <1>1, <1>3, <3>1, AgreeingFacts
  <2> QED
    BY <1>2, <2>1, <2>2
<1>5. ASSUME NEW q \in Procs PROVE job'[q] = NoJob
  <2>1. CASE q = p
    <3>1. pc'[p] = "idle" \/ result'[p] = "none"
      BY StepEffect
    <3> QED
      BY <2>1, <3>1, StepEffect
  <2>2. CASE q # p
    <3>1. ~Running(q)
      BY <1>0, <2>2 DEF RunInv, Crossing, Running
    <3>2. job[q] = NoJob
      BY <3>1 DEF RunInv, Control, Consistent, Running
    <3> QED
      BY <2>2, <3>2, StepEffect
  <2> QED
    BY <2>1, <2>2
<1> QED
  BY <1>1, <1>2, <1>4, <1>5

(* The steps of the guard keep the agreement. *)
LEMMA GuardStepAgrees ==
    ASSUME RunInv, Agreement, NEW p \in Procs, GuardStep(p)
    PROVE  SameBans' /\ NoOpenOrder' /\ DropsLapsed'
<1> DEFINE j == job[p]
           won == result'[p] = "ok" /\ lag[p] # NotFiled /\ ~crossed[p]
<1>0. /\ Step(p) /\ now' = now /\ file' = file /\ bans \in Lists /\ file \in Lists
      /\ agreed' = IF won THEN [agreed EXCEPT ![order[p].ip] = lag[p]] ELSE agreed
      /\ agreed \in [Ips -> Lags] /\ now \in Nat /\ now >= 1
      /\ \A q \in Procs \ {p} : pc'[q] = pc[q] /\ job'[q] = job[q]
      /\ SameBans /\ NoOpenOrder /\ DropsLapsed /\ FiledRight /\ j.until \in Int
  BY StepEffect DEF GuardStep, RunInv, WrapTypeOK, Agreement, Jobs
<1>1. won => /\ order[p].ip = j.addr /\ order[p].ip \in Ips
             /\ Agreeing(file[order[p].ip], bans'[order[p].ip], lag[p], now)
             /\ \A q \in Procs : job'[q] = NoJob
  BY <1>0, NowAgreed
<1> HIDE DEF won
<1>2. ASSUME NEW ip \in Ips, agreed[ip] # NotFiled
      PROVE  /\ bans'[ip] = bans[ip] \/ (bans'[ip] = NoBan /\ ~Active(bans[ip], now))
  <2>1. CASE bans' = bans
    BY <2>1
  <2>2. CASE /\ j.cmd \in {"ban", "unban"} /\ j.addr \in Ips
             /\ bans' = [bans EXCEPT ![j.addr] = j.until]
    <3>1. ip # j.addr
      BY <1>0, <1>2, <2>2 DEF NoOpenOrder
    <3> QED
      BY <1>0, <2>2, <3>1 DEF Lists
  <2>3. ASSUME NEW i \in Ips, Dropping(p, i), bans' = [bans EXCEPT ![i] = NoBan]
        PROVE  bans'[ip] = bans[ip] \/ (bans'[ip] = NoBan /\ ~Active(bans[ip], now))
    BY <1>0, <1>2, <2>3 DEF Lists, DropsLapsed
  <2> QED
    BY <1>0, <2>1, <2>2, <2>3, MapChange
<1>3. SameBans'
  <2> SUFFICES ASSUME NEW ip \in Ips, agreed'[ip] # NotFiled
               PROVE  Agreeing(file[ip], bans'[ip], agreed'[ip], now)
    BY <1>0 DEF SameBans
  <2>1. CASE won /\ ip = order[p].ip
    BY <1>0, <1>1, <2>1
  <2>2. CASE ~(won /\ ip = order[p].ip)
    <3>1. agreed'[ip] = agreed[ip]
      BY <1>0, <1>1, <2>2
    <3>2. /\ Agreeing(file[ip], bans[ip], agreed[ip], now) /\ agreed[ip] \in Nat
          /\ file[ip] \in Int /\ bans[ip] \in Int
      BY <1>0, <3>1 DEF SameBans, Lags, Lists
    <3> QED
      <4>1. bans'[ip] = bans[ip] \/ (bans'[ip] = NoBan /\ ~Active(bans[ip], now))
        BY <1>2, <3>1
      <4>2. ~Active(bans[ip], now) => Agreeing(file[ip], NoBan, agreed[ip], now)
        BY <1>0, <3>2, AgreeingFacts
      <4> QED
        BY <3>1, <3>2, <4>1, <4>2
  <2> QED
    BY <2>1, <2>2
<1>4. NoOpenOrder'
  <2>1. CASE won
    BY <1>1, <2>1, JobFacts DEF NoOpenOrder
  <2>2. CASE ~won
    <3>1. agreed' = agreed
      BY <1>0, <2>2
    <3>2. job'[p] = NoJob \/ (job'[p].cmd = j.cmd /\ job'[p].addr = j.addr)
      BY <1>0, StepEffect
    <3> QED
      BY <1>0, <3>1, <3>2, JobFacts DEF NoOpenOrder
  <2> QED
    BY <2>1, <2>2
<1>5. DropsLapsed'
  <2> SUFFICES ASSUME NEW q \in Procs, NEW ip \in Ips, agreed'[ip] # NotFiled, Dropping(q, ip)'
               PROVE  ~Active(bans'[ip], now)
    BY <1>0 DEF DropsLapsed
  <2>1. ~won
    <3>1. ASSUME won PROVE FALSE
      <4>1. job'[q] = NoJob
        BY <1>1, <3>1
      <4>2. NoJob.victims = {} /\ pc'[q] # "drop"
        BY <1>0, <3>1, JobFacts, StepEffect DEF won, RunInv, Control, Consistent, Crossing, Running
      <4> QED
        BY <4>1, <4>2 DEF Dropping
    <3> QED
      BY <3>1
  <2>2. agreed[ip] # NotFiled /\ ~Active(NoBan, now) /\ bans[ip] \in Int
    BY <1>0, <2>1 DEF Active, NoBan, Permanent, Lists
  <2>3. Dropping(q, ip) \/ (bans' = bans /\ Lapsed(ip))
    <3>1. CASE q = p
      BY <1>0, <3>1, MapChange
    <3>2. CASE q # p
      BY <1>0, <3>2 DEF Dropping
    <3> QED
      BY <3>1, <3>2
  <2>4. ~Active(bans[ip], now)
    BY <1>0, <2>2, <2>3 DEF DropsLapsed, Lapsed, Active
  <2> QED
    BY <1>2, <2>2, <2>4
<1> QED
  BY <1>3, <1>4, <1>5

(* So do the wrapper's, the commands that begin, and the clock. *)
LEMMA AgreementStep ==
    RunInv /\ RunInv' /\ Agreement /\ [WrapNext]_allVars => Agreement'
<1> SUFFICES ASSUME RunInv, RunInv', Agreement, [WrapNext]_allVars PROVE Agreement'
  OBVIOUS
<1>0. /\ bans \in Lists /\ file \in Lists /\ agreed \in [Ips -> Lags] /\ now \in Nat /\ now >= 1
      /\ agreed' \in [Ips -> Lags] /\ WrapTypeOK /\ job \in [Procs -> Jobs] /\ pc \in [Procs -> Labels]
      /\ SameBans /\ NoOpenOrder /\ DropsLapsed /\ FiledRight
  BY DEF RunInv, WrapTypeOK, Agreement
<1>00. FiledRight'
  BY <1>0, FiledRightStep
(* Whoever leaves the map and the clock alone, leaves the file's entries    *)
(* that are agreed on as they were or drops them lapsed, and has an         *)
(* address of its order that is not agreed on, keeps the agreement.         *)
<1>1. ASSUME NEW p \in Procs, UNCHANGED <<bans, now>>,
             \A q \in Procs \ {p} : pc'[q] = pc[q] /\ job'[q] = job[q],
             \A ip \in Ips : agreed'[ip] # NotFiled =>
                /\ agreed'[ip] = agreed[ip]
                /\ file'[ip] = file[ip] \/ (file'[ip] = NoBan /\ ~Active(file[ip], now)),
             job'[p].victims = {}, pc'[p] # "drop",
             job'[p].cmd \in {"ban", "unban"} => agreed'[job'[p].addr] = NotFiled
      PROVE  SameBans' /\ NoOpenOrder' /\ DropsLapsed'
  <2>1. ASSUME NEW ip \in Ips, agreed'[ip] # NotFiled
        PROVE  Agreeing(file'[ip], bans[ip], agreed[ip], now)
    <3>1. agreed[ip] # NotFiled /\ agreed[ip] \in Nat /\ file[ip] \in Int /\ bans[ip] \in Int
      BY <1>0, <1>1, <2>1 DEF Lags, Lists
    <3>2. Agreeing(file[ip], bans[ip], agreed[ip], now)
      BY <1>0, <3>1 DEF SameBans
    <3>3. ~Active(file[ip], now) => Agreeing(NoBan, bans[ip], agreed[ip], now)
      BY <1>0, <3>1, <3>2, AgreeingFacts
    <3> QED
      BY <1>1, <2>1, <3>2, <3>3
  <2>2. SameBans'
    BY <1>1, <2>1 DEF SameBans
  <2>3. NoOpenOrder'
    <3> SUFFICES ASSUME NEW q \in Procs, job'[q].cmd \in {"ban", "unban"}
                 PROVE  agreed'[job'[q].addr] = NotFiled
      BY DEF NoOpenOrder
    <3>1. CASE q # p
      <4>1. agreed[job[q].addr] = NotFiled /\ job'[q] = job[q]
        BY <1>0, <1>1, <3>1 DEF NoOpenOrder
      <4>2. job[q].addr \in Ips
        BY <4>1 DEF RunInv, Control, Consistent
      <4> QED
        BY <1>1, <4>1, <4>2
    <3> QED
      BY <1>1, <3>1
  <2>4. DropsLapsed'
    <3> SUFFICES ASSUME NEW q \in Procs, NEW ip \in Ips, agreed'[ip] # NotFiled, Dropping(q, ip)'
                 PROVE  ~Active(bans[ip], now)
      BY <1>1 DEF DropsLapsed
    <3>1. q # p
      BY <1>1 DEF Dropping
    <3>2. Dropping(q, ip) /\ agreed[ip] # NotFiled
      BY <1>1, <3>1 DEF Dropping
    <3> QED
      BY <1>0, <3>2 DEF DropsLapsed
  <2> QED
    BY <2>2, <2>3, <2>4
<1>2. ASSUME NEW p \in Procs, Wrap(p) PROVE Agreement'
  <2>1. /\ UNCHANGED <<bans, now, file, agreed>> /\ pc'[p] = "file" /\ job'[p] = NoJob
        /\ \A q \in Procs \ {p} : pc'[q] = pc[q] /\ job'[q] = job[q]
    BY <1>0, <1>2 DEF Wrap, Begin
  <2> QED
    BY <1>00, <1>1, <2>1, JobFacts DEF Agreement
<1>3. ASSUME NEW p \in Procs, NEW kept \in SUBSET Ips, Filed(p, kept) PROVE Agreement'
  <2>1. /\ pc[p] = "file" /\ Goto(p, "exec") /\ UNCHANGED <<now, bans, job>>
        /\ file' = [ip \in Ips |-> IF ip \in kept THEN Rewritten(order[p])[ip] ELSE NoBan]
        /\ agreed' = [ip \in Ips |-> IF ip \in kept \ {order[p].ip} THEN agreed[ip]
                                     ELSE NotFiled]
    BY <1>3, FiledEffect
  <2>2. pc'[p] = "exec" /\ job'[p] = NoJob /\ \A q \in Procs \ {p} : pc'[q] = pc[q]
    BY <1>0, <2>1 DEF Goto, RunInv, Control, Consistent
  <2>3. ASSUME NEW ip \in Ips, agreed'[ip] # NotFiled
        PROVE  /\ agreed'[ip] = agreed[ip]
               /\ file'[ip] = file[ip] \/ (file'[ip] = NoBan /\ ~Active(file[ip], now))
    <3>1. ip \in kept /\ ip # order[p].ip
      BY <2>1, <2>3
    <3> QED
      BY <2>1, <3>1 DEF Rewritten
  <2> QED
    BY <1>00, <1>1, <2>1, <2>2, <2>3, JobFacts DEF Agreement
<1>4. ASSUME NEW p \in Procs, FileFails(p) PROVE Agreement'
  <2>1. /\ UNCHANGED <<bans, now, file, agreed, job>> /\ pc'[p] = "exec" /\ pc[p] = "file"
        /\ \A q \in Procs \ {p} : pc'[q] = pc[q]
    BY <1>0, <1>4 DEF FileFails, Goto, Quiet, wrapVars
  <2>2. job'[p] = NoJob
    BY <2>1 DEF RunInv, Control, Consistent
  <2> QED
    BY <1>00, <1>1, <2>1, <2>2, JobFacts DEF Agreement
<1>5. ASSUME NEW p \in Procs, Exec(p) PROVE Agreement'
  <2>1. /\ UNCHANGED <<bans, now, file>> /\ order[p].ip \in Ips
        /\ agreed' = [agreed EXCEPT ![order[p].ip] = NotFiled]
        /\ \A q \in Procs \ {p} : pc'[q] = pc[q] /\ job'[q] = job[q]
        /\ pc'[p] \in {"idle", "insert", "look"}
    BY <1>5, ExecEffect
  <2>2. job'[p].victims = {}
    BY <2>1 DEF RunInv, Control, Consistent
  <2>3. job'[p].cmd \in {"ban", "unban"} => job'[p].addr = order[p].ip
    <3>1. CASE pc'[p] = "idle"
      BY <1>5, <3>1, ExecEffect, JobFacts
    <3>2. CASE pc'[p] # "idle"
      <4>1. order'[p] = order[p] /\ order[p] # NoOrder
        <5>1. Forget(p) /\ Running(p)' /\ order[p] \in Orders
          BY <1>5, <3>2, ExecEffect DEF Running
        <5> QED
          BY <5>1 DEF Forget, Orders, NoOrder
      <4> QED
        BY <2>1, <3>2, <4>1 DEF RunInv, Control, Consistent
    <3> QED
      BY <3>1, <3>2
  <2>4. \A ip \in Ips : agreed'[ip] # NotFiled => agreed'[ip] = agreed[ip]
    BY <1>0, <2>1
  <2>5. agreed'[order[p].ip] = NotFiled
    BY <1>0, <2>1
  <2> QED
    BY <1>00, <1>1, <2>1, <2>2, <2>3, <2>4, <2>5 DEF Agreement
<1>6. ASSUME NEW p \in Procs, Direct(p) PROVE Agreement'
  <2>1. /\ UNCHANGED <<bans, now, file>> /\ pc'[p] \in {"idle", "insert", "look", "check", "sweep"}
        /\ \A q \in Procs \ {p} : pc'[q] = pc[q] /\ job'[q] = job[q]
    BY <1>0, <1>6 DEF Direct, Command, cmd_ban, cmd_unban, cmd_check, cmd_list, Declined, Begin, End
  <2>2. /\ job'[p].victims = {}
        /\ job'[p].cmd \in {"ban", "unban"} => job'[p].addr \in Ips
    BY <2>1 DEF RunInv, Control, Consistent
  <2>3. agreed' = IF job'[p].cmd \in {"ban", "unban"}
                  THEN [agreed EXCEPT ![job'[p].addr] = NotFiled] ELSE agreed
    BY <1>6 DEF Direct
  <2>4. /\ \A ip \in Ips : agreed'[ip] # NotFiled => agreed'[ip] = agreed[ip]
        /\ job'[p].cmd \in {"ban", "unban"} => agreed'[job'[p].addr] = NotFiled
    BY <1>0, <2>2, <2>3
  <2> QED
    BY <1>00, <1>1, <2>1, <2>2, <2>4 DEF Agreement
<1>7. ASSUME NEW p \in Procs, Killed(p) PROVE Agreement'
  <2>1. /\ UNCHANGED <<bans, now, file, agreed>> /\ pc'[p] = "idle" /\ job'[p] = NoJob
        /\ \A q \in Procs \ {p} : pc'[q] = pc[q] /\ job'[q] = job[q]
    BY <1>0, <1>7, EndEffect DEF Killed, Crash, Quiet
  <2> QED
    BY <1>00, <1>1, <2>1, JobFacts DEF Agreement
<1>8. CASE WrapTick
  <2>1. now' = now + 1 /\ UNCHANGED <<bans, pc, job, file, agreed>>
    BY <1>8 DEF WrapTick, Tick
  <2>2. SameBans'
    <3> SUFFICES ASSUME NEW ip \in Ips, agreed[ip] # NotFiled
                 PROVE  Agreeing(file[ip], bans[ip], agreed[ip], now + 1)
      BY <2>1 DEF SameBans
    <3>1. /\ Agreeing(file[ip], bans[ip], agreed[ip], now)
          /\ agreed[ip] \in Nat /\ file[ip] \in Int /\ bans[ip] \in Int
      BY <1>0 DEF SameBans, Lags, Lists
    <3> QED
      BY <1>0, <3>1, AgreeingFacts
  <2>3. NoOpenOrder'
    BY <1>0, <2>1 DEF NoOpenOrder
  <2>4. DropsLapsed'
    BY <1>0, <2>1 DEF DropsLapsed, Dropping, Active, Lists
  <2> QED
    BY <1>00, <2>2, <2>3, <2>4 DEF Agreement
<1>9. CASE UNCHANGED allVars
  BY <1>0, <1>00, <1>9 DEF allVars, vars, wrapVars, Agreement, SameBans, NoOpenOrder, DropsLapsed,
     Dropping
<1>10. ASSUME NEW p \in Procs, FileRuns(p) \/ FileTears(p) PROVE Agreement'
  BY <1>3, <1>10 DEF FileRuns, FileTears
<1>11. ASSUME NEW p \in Procs, GuardStep(p) PROVE Agreement'
  BY <1>00, <1>11, GuardStepAgrees DEF Agreement
<1> QED
  BY <1>2, <1>4, <1>5, <1>6, <1>7, <1>8, <1>9, <1>10, <1>11 DEF WrapNext

(* The two backends agree on an address from an order on it that reached   *)
(* both, uncrossed, until the next order on it or a torn list              *)
(* (guard/shield-ban:20-25): what the file bans the map drops, and what    *)
(* the map still drops once the lag has passed, the file bans; for any     *)
(* number of wrappers, addresses and ban lengths.                          *)
THEOREM BackendsStayAgreed == WrapSpec => []BackendsAgree
<1>1. WrapInit => Agreement
  <2> SUFFICES ASSUME WrapInit PROVE Agreement
    OBVIOUS
  <2>1. (\A ip \in Ips : agreed[ip] = NotFiled) /\ \A p \in Procs : job[p] = NoJob /\ lag[p] = NotFiled
    BY DEF WrapInit, Init
  <2> QED
    BY <2>1, JobFacts DEF Agreement, SameBans, NoOpenOrder, DropsLapsed, FiledRight, FiledAs
<1>2. RunInv /\ Agreement => BackendsAgree
  <2> SUFFICES ASSUME RunInv, Agreement, NEW ip \in Ips, agreed[ip] # NotFiled
               PROVE  /\ Active(file[ip], now) => Active(bans[ip], now)
                      /\ Active(bans[ip], now + agreed[ip]) => Active(file[ip], now)
    BY DEF BackendsAgree
  <2>1. now \in Nat /\ now >= now /\ Agreeing(file[ip], bans[ip], agreed[ip], now)
    BY DEF RunInv, WrapTypeOK, Agreement, SameBans
  <2> QED
    BY <2>1 DEF Agreeing
<1> QED
  BY <1>1, <1>2, RunInvInit, RunInvStep, AgreementStep, PTL DEF WrapSpec
===============================================================================
