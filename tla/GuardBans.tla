------------------------------ MODULE GuardBans ------------------------------
(***************************************************************************)
(* The bans of the eBPF backend: the pinned hash map shield_bans and the   *)
(* fips-guard commands that work on it (guard/src/main.rs).  A command is  *)
(* a process of its own and takes no lock: each map operation is atomic,   *)
(* the command as a whole is not.  The classifier only looks entries up.   *)
(*                                                                         *)
(* Time is the monotonic clock, in seconds.                                *)
(***************************************************************************)
EXTENDS BanEntries, FiniteSets, Sequences

CONSTANTS Procs,    \* runs of fips-guard
          Ttls,     \* ban lengths in seconds; 0 is a permanent ban
          Capacity, \* max_entries of shield_bans
          MaxTime,  \* bound: clock
          MaxOps    \* bound: commands started

ASSUME GuardBansAssumption ==
    /\ Ttls \subseteq Nat /\ Capacity \in Nat
    /\ MaxTime \in Nat /\ MaxOps \in Nat

VARIABLES bans, now,
          pc,       \* where each run is
          job,      \* what each run works on
          result,   \* how each run last ended: "none", "ok", "err"
          ops,      \* commands started
          crossed   \* history: has another command run during this run
vars == <<bans, now, pc, job, result, ops, crossed>>

(* A job: the command, its address and deadline, unban's was_banned, the   *)
(* keys prune_expired collected and the time it judged them by.            *)
Job(c, ip, deadline) ==
    [cmd |-> c, addr |-> ip, until |-> deadline,
     found |-> FALSE, victims |-> {}, sweptAt |-> 0]
NoJob == Job("none", "none", NoBan)

Init ==
    /\ bans = Empty /\ now = 1 /\ ops = 0 /\ crossed = [p \in Procs |-> FALSE]
    /\ pc = [p \in Procs |-> "idle"] /\ job = [p \in Procs |-> NoJob]
    /\ result = [p \in Procs |-> "none"]

InMap(ip) == bans[ip] # NoBan
Occupied == Cardinality({ip \in Ips : InMap(ip)})

Running(p) == pc[p] # "idle"

Goto(p, l) == pc' = [pc EXCEPT ![p] = l] /\ UNCHANGED result

(* A run ends and reports. *)
End(p, r) ==
    /\ pc' = [pc EXCEPT ![p] = "idle"] /\ result' = [result EXCEPT ![p] = r]
    /\ job' = [job EXCEPT ![p] = NoJob]

(* A command is run. *)
Enter(p) ==
    /\ ~Running(p) /\ ops < MaxOps /\ ops' = ops + 1
    /\ crossed' = [q \in Procs |-> IF q = p THEN \E r \in Procs : Running(r)
                                   ELSE Running(q)]

(* Its process dispatches on the command line; first is where the command  *)
(* touches the map for the first time.                                     *)
Begin(p, j, first) ==
    /\ job' = [job EXCEPT ![p] = j]
    /\ pc' = [pc EXCEPT ![p] = first]
    /\ result' = [result EXCEPT ![p] = "none"]
    /\ UNCHANGED <<bans, now>>

(* An address that is not IPv6, or no pinned map: the command ends before  *)
(* it touches anything, well for IPv4 and with an error otherwise.         *)
Declined(p, r) == End(p, r) /\ UNCHANGED <<bans, now>>

(* A step of a run leaves the clock and the other runs alone. *)
Quiet == UNCHANGED <<now, ops, crossed>>
------------------------------------------------------------------------------
(* cmd_ban: the deadline is fixed, then the entry is inserted; replacing   *)
(* an entry needs no room.                                                 *)
cmd_ban(p, ip, ttl) ==
    Begin(p, Job("ban", ip, IF ttl = 0 THEN Permanent ELSE now + ttl), "insert")

(* The kernel refuses a new key in a full map. *)
Insertable(p) == InMap(job[p].addr) \/ Occupied < Capacity

Insert(p) ==
    /\ pc[p] \in {"insert", "reinsert"} /\ Insertable(p)
    /\ bans' = [bans EXCEPT ![job[p].addr] = job[p].until]
    /\ End(p, "ok") /\ Quiet

(* The first failure sweeps and tries again, the second is final. *)
InsertFails(p) ==
    /\ pc[p] \in {"insert", "reinsert"} /\ ~Insertable(p)
    /\ \/ pc[p] = "insert" /\ Goto(p, "sweep") /\ UNCHANGED job
       \/ pc[p] = "reinsert" /\ End(p, "err")
    /\ Quiet /\ UNCHANGED bans

(* A lapsed entry, in the sense of prune_expired.  The slip: a permanent   *)
(* entry counts as lapsed.                                                 *)
Lapsed_permanent(ip) == InMap(ip) /\ bans[ip] <= now
Lapsed(ip) == InMap(ip) /\ bans[ip] # Permanent /\ bans[ip] <= now

(* prune_expired, first loop: collect, in one look at the map.  A failure  *)
(* to read an entry ends the run before it changed anything, as Crash does.*)
SweepScan(p) ==
    /\ pc[p] = "sweep" /\ Goto(p, "remove")
    /\ job' = [job EXCEPT ![p].victims = {ip \in Ips : Lapsed(ip)},
                          ![p].sweptAt = now]
    /\ Quiet /\ UNCHANGED bans

(* prune_expired, second loop: remove by key; a failure is ignored. *)
SweepRemove(p) ==
    /\ pc[p] = "remove"
    /\ \E ip \in job[p].victims :
        /\ bans' = [bans EXCEPT ![ip] = NoBan]
        /\ job' = [job EXCEPT ![p].victims = @ \ {ip}]
    /\ Quiet /\ UNCHANGED <<pc, result>>

SweepDone(p) ==
    /\ pc[p] = "remove" /\ job[p].victims = {}
    /\ \/ job[p].cmd = "ban" /\ Goto(p, "reinsert") /\ UNCHANGED job
       \/ job[p].cmd = "list" /\ End(p, "ok")
    /\ Quiet /\ UNCHANGED bans

(* cmd_list and cmd_stats sweep too. *)
cmd_list(p) == Begin(p, Job("list", "none", NoBan), "sweep")
------------------------------------------------------------------------------
(* cmd_unban: look, remove, look again. *)
cmd_unban(p, ip) == Begin(p, Job("unban", ip, NoBan), "look")

UnbanLook(p) ==
    /\ pc[p] = "look" /\ Goto(p, "delete")
    /\ job' = [job EXCEPT ![p].found = InMap(job[p].addr)]
    /\ Quiet /\ UNCHANGED bans

(* Deleting what is not there is an error only if it was there before.     *)
(* The slip: it always is.                                                 *)
UnbanDelete_strict(p) ==
    /\ pc[p] = "delete"
    /\ bans' = [bans EXCEPT ![job[p].addr] = NoBan]
    /\ IF InMap(job[p].addr) THEN Goto(p, "readback") /\ UNCHANGED job
       ELSE End(p, "err")
    /\ Quiet
UnbanDelete(p) ==
    /\ pc[p] = "delete"
    /\ bans' = [bans EXCEPT ![job[p].addr] = NoBan]
    /\ IF InMap(job[p].addr) \/ ~job[p].found
       THEN Goto(p, "readback") /\ UNCHANGED job
       ELSE End(p, "err")
    /\ Quiet

UnbanReadBack(p) ==
    /\ pc[p] = "readback"
    /\ End(p, IF InMap(job[p].addr) THEN "err" ELSE "ok")
    /\ Quiet /\ UNCHANGED bans
------------------------------------------------------------------------------
(* cmd_check: an entry found lapsed is removed, in a second operation. *)
cmd_check(p, ip) == Begin(p, Job("check", ip, NoBan), "check")

Check(p) ==
    /\ pc[p] = "check"
    /\ IF Lapsed(job[p].addr) THEN Goto(p, "drop") /\ UNCHANGED job
       ELSE End(p, "ok")
    /\ Quiet /\ UNCHANGED bans

CheckDrop(p) ==
    /\ pc[p] = "drop"
    /\ bans' = [bans EXCEPT ![job[p].addr] = NoBan]
    /\ End(p, "ok") /\ Quiet
------------------------------------------------------------------------------
(* The run is killed between two map operations. *)
Crash(p) == Running(p) /\ End(p, "none") /\ Quiet /\ UNCHANGED bans

Tick ==
    /\ now < MaxTime /\ now' = now + 1
    /\ UNCHANGED <<bans, pc, job, result, ops, crossed>>

Step(p) ==
    \/ Insert(p) \/ InsertFails(p)
    \/ SweepScan(p) \/ SweepRemove(p) \/ SweepDone(p)
    \/ UnbanLook(p) \/ UnbanDelete(p) \/ UnbanReadBack(p)
    \/ Check(p) \/ CheckDrop(p)

Command(p) ==
    /\ Enter(p)
    /\ \/ \E ip \in Ips, ttl \in Ttls : cmd_ban(p, ip, ttl)
       \/ \E ip \in Ips : cmd_unban(p, ip) \/ cmd_check(p, ip)
       \/ cmd_list(p)
       \/ \E r \in {"ok", "err"} : Declined(p, r)

Next == Tick \/ \E p \in Procs : Command(p) \/ Step(p) \/ Crash(p)

Spec == Init /\ [][Next]_vars
------------------------------------------------------------------------------
(* A command that has got at the map reports failure only for a cause.  A  *)
(* full map is not terminal: cmd_ban gives up only when the map is full    *)
(* after its sweep as well, and full of bans that had not lapsed when the  *)
(* sweep looked, unless other commands put new ones there meanwhile (a ban *)
(* held up long enough is inserted when its deadline has passed).  To      *)
(* unban what is not banned, or has lapsed, is no error: cmd_unban fails   *)
(* only if another command ran meanwhile.                                  *)
FailsOnlyForCause ==
    [][\A p \in Procs : job[p] # NoJob /\ result'[p] = "err" =>
          \/ job[p].cmd = "unban" /\ crossed[p]
          \/ /\ job[p].cmd = "ban" /\ Occupied = Capacity
             /\ \A ip \in Ips :
                   InMap(ip) => crossed[p] \/ Active(bans[ip], job[p].sweptAt)]_vars

(* The eBPF backend keeps the registry's promise in every step taken while *)
(* no run in progress has been crossed by another: bans and unbans take    *)
(* effect once, and neither the sweep of a full map nor check, list and    *)
(* stats drop an entry still in force.                                     *)
Asked(p) ==
    IF pc[p] \in {"insert", "reinsert", "look", "delete"}
       \/ (job[p].cmd = "ban" /\ pc[p] \in {"sweep", "remove"})
    THEN [op |-> job[p].cmd, ip |-> job[p].addr, until |-> job[p].until]
    ELSE [op |-> "none"]
Registry == INSTANCE BanRegistry WITH
    Clients <- Procs, MayTear <- FALSE, MayLose <- FALSE,
    todo <- [p \in Procs |-> Asked(p)]
KeepsRegistryAlone ==
    Registry!Init /\ [][(\A p \in Procs : Running(p) => ~crossed[p])
                            => [Registry!Next]_(Registry!vars)]_vars
==============================================================================
