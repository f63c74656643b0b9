------------------------------- MODULE BanFile -------------------------------
(***************************************************************************)
(* The banlist file backend and its readers.                               *)
(*                                                                         *)
(* Writers are runs of core/actions/shield-ban: ban and unban work out the *)
(* expiry, take the lock, filter the current list into a temporary file    *)
(* and move it into place; the process can be killed at any point.         *)
(* Readers are nginx sessions (core/njs/shield_core.js): each has its own  *)
(* njs VM and so its own copy of the list, refreshed when stat() shows     *)
(* another modification time or size; stat and read are two system calls   *)
(* and the file can be replaced between them.                              *)
(*                                                                         *)
(* A list is a function from addresses to expiries.  Every replacement of  *)
(* the file is taken to change (mtime, size): the stamp of a file is its   *)
(* number in `log', the history of all lists that were ever in place.      *)
(***************************************************************************)
EXTENDS BanEntries, Sequences, SequencesExt

CONSTANTS Ttls,       \* ban lengths in seconds; 0 is a permanent ban
          Procs,      \* runs of shield-ban
          Sessions,   \* nginx sessions
          None,
          ReadFaults, \* can the filter that reads the list fail half way
          VolumeLoss, \* can the volume with the list be lost
          MaxTime,    \* bound: clock
          MaxOps      \* bound: operations started

ASSUME BanFileAssumption ==
    /\ Ttls \subseteq Nat /\ MaxTime \in Nat /\ MaxOps \in Nat
    /\ {ReadFaults, VolumeLoss} \subseteq BOOLEAN
    /\ None \notin Procs

VARIABLES
    now,     \* wall clock, in seconds; the epoch is long past
    log,     \* history: the lists in place so far; the last one is current
    exists,  \* is there a file
    lock,    \* the run that holds the flock, or None
    pc, cmd, addr, until, tmp,  \* the state of each run
    ops,     \* operations started
    sess,    \* each session: "closed", "stat", "decide", "live", "denied"
    client,  \* the address each session comes from
    stamp, map,  \* banCache of each session: mtime/size, and the list
    seen,    \* the stamp of the stat in progress
    since,   \* history: the oldest list the check in progress may go by
    answer   \* isBanned()'s last answer
fileVars == <<log, exists>>
procVars == <<lock, pc, cmd, addr, until, tmp, ops>>
sessVars == <<sess, client, stamp, map, seen, since, answer>>
allVars == <<now, fileVars, procVars, sessVars>>

file == IF exists THEN Last(log) ELSE Empty

FileInit ==
    /\ now = 1
    /\ log = <<Empty>> /\ exists = FALSE /\ lock = None
    /\ pc = [p \in Procs |-> "idle"] /\ cmd = [p \in Procs |-> "none"]
    /\ addr \in [Procs -> Ips] /\ until = [p \in Procs |-> NoBan]
    /\ tmp = [p \in Procs |-> Empty] /\ ops = 0
    /\ sess = [s \in Sessions |-> "closed"] /\ client \in [Sessions -> Ips]
    /\ stamp = [s \in Sessions |-> 0] /\ map = [s \in Sessions |-> Empty]
    /\ seen = [s \in Sessions |-> 0] /\ since = [s \in Sessions |-> 0]
    /\ answer = [s \in Sessions |-> FALSE]
------------------------------------------------------------------------------
(* ban: the expiry is fixed before the lock is waited for. *)
StartBan(p) ==
    /\ pc[p] = "idle" /\ ops < MaxOps /\ ops' = ops + 1
    /\ \E ip \in Ips, ttl \in Ttls :
        /\ addr' = [addr EXCEPT ![p] = ip]
        /\ until' = [until EXCEPT ![p] = IF ttl = 0 THEN Permanent ELSE now + ttl]
    /\ cmd' = [cmd EXCEPT ![p] = "ban"] /\ pc' = [pc EXCEPT ![p] = "lock"]
    /\ UNCHANGED <<now, fileVars, lock, tmp, sessVars>>

StartUnban(p) ==
    /\ pc[p] = "idle" /\ ops < MaxOps /\ ops' = ops + 1
    /\ \E ip \in Ips : addr' = [addr EXCEPT ![p] = ip]
    /\ cmd' = [cmd EXCEPT ![p] = "unban"] /\ pc' = [pc EXCEPT ![p] = "lock"]
    /\ until' = [until EXCEPT ![p] = NoBan]
    /\ UNCHANGED <<now, fileVars, lock, tmp, sessVars>>

(* A slip: the lock is not waited for. *)
Flock_shared(p) ==
    /\ pc[p] = "lock"
    /\ lock' = p /\ pc' = [pc EXCEPT ![p] = "read"]
    /\ UNCHANGED <<now, fileVars, cmd, addr, until, tmp, ops, sessVars>>

Flock(p) ==
    /\ pc[p] = "lock" /\ lock = None
    /\ lock' = p /\ pc' = [pc EXCEPT ![p] = "read"]
    /\ UNCHANGED <<now, fileVars, cmd, addr, until, tmp, ops, sessVars>>

(* active_entries: what of a list is still in force at time t.  The slip   *)
(* takes the permanent entry 0 for one that ended long ago.                *)
active_entries_drops_permanent(list, t) ==
    [j \in Ips |-> IF list[j] > t THEN list[j] ELSE NoBan]
active_entries(list, t) ==
    [j \in Ips |-> IF Active(list[j], t) THEN list[j] ELSE NoBan]

(* active_entries | awk '$1 != ip', and the new line, into the temporary   *)
(* file.                                                                   *)
WriteTmp(p) ==
    /\ pc[p] = "read"
    /\ tmp' = [tmp EXCEPT ![p] =
                 [active_entries(file, now) EXCEPT ![addr[p]] = until[p]]]
    /\ pc' = [pc EXCEPT ![p] = "mv"]
    /\ UNCHANGED <<now, fileVars, lock, cmd, addr, until, ops, sessVars>>

(* The filter fails after some of the lines: set -e leaves the group       *)
(* before the new line is printed, but rewrite, at the other end of the    *)
(* pipe, takes the end of its input for the end of the list.               *)
WriteTmpTruncated(p) ==
    /\ ReadFaults /\ pc[p] = "read"
    /\ \E part \in SUBSET Ips :
        tmp' = [tmp EXCEPT ![p] =
                  [j \in Ips |-> IF j \in part \ {addr[p]}
                                 THEN active_entries(file, now)[j] ELSE NoBan]]
    /\ pc' = [pc EXCEPT ![p] = "torn"]
    /\ UNCHANGED <<now, fileVars, lock, cmd, addr, until, ops, sessVars>>

(* The run ends, and with it its variables. *)
Exit(p) ==
    /\ pc' = [pc EXCEPT ![p] = "idle"] /\ cmd' = [cmd EXCEPT ![p] = "none"]
    /\ until' = [until EXCEPT ![p] = NoBan] /\ tmp' = [tmp EXCEPT ![p] = Empty]
    /\ UNCHANGED <<now, addr, ops, sessVars>>

(* mv "$tmp" "$BAN_FILE", and the exit that drops the lock. *)
Move(p) ==
    /\ pc[p] \in {"mv", "torn"}
    /\ log' = Append(log, tmp[p]) /\ exists' = TRUE
    /\ lock' = None /\ Exit(p)

(* A slip: the lock outlives the run, as a lock file would. *)
Crash_keeps_lock(p) ==
    /\ pc[p] # "idle" /\ Exit(p)
    /\ UNCHANGED <<fileVars, lock>>

(* The run is killed; the kernel drops its lock, the file is as it was. *)
Crash(p) ==
    /\ pc[p] # "idle" /\ Exit(p)
    /\ lock' = IF lock = p THEN None ELSE lock
    /\ UNCHANGED fileVars

(* The volume is lost (a tmpfs after a reboot), with no run at work on it. *)
LoseVolume ==
    /\ VolumeLoss /\ exists /\ lock = None
    /\ exists' = FALSE /\ log' = Append(log, Empty)
    /\ UNCHANGED <<now, procVars, sessVars>>
------------------------------------------------------------------------------
(* A connection is accepted, or an open session is due for its recheck:    *)
(* loadBans() starts with stat().  Without a file nobody is banned.        *)
Stat(s) ==
    /\ sess[s] \in {"closed", "live"}
    /\ since' = [since EXCEPT ![s] = Len(log)]
    /\ IF exists
       THEN /\ seen' = [seen EXCEPT ![s] = Len(log)]
            /\ sess' = [sess EXCEPT ![s] = "stat"]
            /\ UNCHANGED <<stamp, map>>
       ELSE /\ stamp' = [stamp EXCEPT ![s] = 0]
            /\ map' = [map EXCEPT ![s] = Empty]
            /\ sess' = [sess EXCEPT ![s] = "decide"]
            /\ UNCHANGED seen
    /\ UNCHANGED <<now, fileVars, procVars, client, answer>>

(* A slip: the new copy is filed under the stamp the file has now. *)
Load_stamps_late(s) ==
    /\ sess[s] = "stat"
    /\ IF stamp[s] = seen[s]
       THEN UNCHANGED <<stamp, map>>
       ELSE /\ exists
            /\ map' = [map EXCEPT ![s] = log[seen[s]]]
            /\ stamp' = [stamp EXCEPT ![s] = Len(log)]
    /\ sess' = [sess EXCEPT ![s] = "decide"]
    /\ UNCHANGED <<now, fileVars, procVars, client, seen, since, answer>>

(* The copy is used if the stamp is the same; otherwise the file is read,  *)
(* as it is now, and filed under the stamp of the stat.                    *)
Load(s) ==
    /\ sess[s] = "stat"
    /\ IF stamp[s] = seen[s]
       THEN UNCHANGED <<stamp, map>>
       ELSE /\ exists
            /\ map' = [map EXCEPT ![s] = Last(log)]
            /\ stamp' = [stamp EXCEPT ![s] = seen[s]]
    /\ sess' = [sess EXCEPT ![s] = "decide"]
    /\ UNCHANGED <<now, fileVars, procVars, client, seen, since, answer>>

(* The read throws (the file went away): the previous view is kept. *)
LoadFails(s) ==
    /\ sess[s] = "stat" /\ stamp[s] # seen[s] /\ ~exists
    /\ sess' = [sess EXCEPT ![s] = "decide"]
    /\ since' = [since EXCEPT ![s] = IF stamp[s] = 0 THEN 1 ELSE stamp[s]]
    /\ UNCHANGED <<now, fileVars, procVars, client, stamp, map, seen, answer>>

(* isBanned()'s answer: until === 0 || until * 1000 > Date.now(). *)
isBanned(list, ip, t) == list[ip] # NoBan /\ Active(list[ip], t)

Decide(s) ==
    /\ sess[s] = "decide"
    /\ answer' = [answer EXCEPT ![s] = isBanned(map[s], client[s], now)]
    /\ sess' = [sess EXCEPT ![s] = IF answer'[s] THEN "denied" ELSE "live"]
    /\ UNCHANGED <<now, fileVars, procVars, client, stamp, map, seen, since>>

(* The connection ends; the next one is a new VM with an empty cache. *)
Close(s) ==
    /\ sess[s] \in {"live", "denied"}
    /\ sess' = [sess EXCEPT ![s] = "closed"]
    /\ stamp' = [stamp EXCEPT ![s] = 0] /\ map' = [map EXCEPT ![s] = Empty]
    /\ UNCHANGED <<now, fileVars, procVars, client, seen, since, answer>>

FileTick ==
    /\ now < MaxTime /\ now' = now + 1
    /\ UNCHANGED <<fileVars, procVars, sessVars>>

Write(p) == Flock(p) \/ WriteTmp(p) \/ WriteTmpTruncated(p) \/ Move(p)

FileNext ==
    \/ \E p \in Procs : StartBan(p) \/ StartUnban(p) \/ Write(p) \/ Crash(p)
    \/ \E s \in Sessions :
          Stat(s) \/ Load(s) \/ LoadFails(s) \/ Decide(s) \/ Close(s)
    \/ LoseVolume \/ FileTick

FileSpec == FileInit /\ [][FileNext]_allVars

(* A started run is scheduled; flock grants a lock that keeps coming free  *)
(* to a waiter in the end.                                                 *)
FairFileSpec == FileSpec /\ \A p \in Procs : SF_allVars(Write(p))
------------------------------------------------------------------------------
FileTypeOK ==
    /\ now \in Nat
    /\ log \in Seq(Lists) /\ Len(log) > 0 /\ exists \in BOOLEAN
    /\ lock \in Procs \cup {None}
    /\ pc \in [Procs -> {"idle", "lock", "read", "mv", "torn"}]
    /\ cmd \in [Procs -> {"none", "ban", "unban"}]
    /\ addr \in [Procs -> Ips] /\ until \in [Procs -> Int]
    /\ tmp \in [Procs -> Lists] /\ ops \in Nat
    /\ sess \in [Sessions -> {"closed", "stat", "decide", "live", "denied"}]
    /\ client \in [Sessions -> Ips]
    /\ stamp \in [Sessions -> Nat] /\ map \in [Sessions -> Lists]
    /\ seen \in [Sessions -> Nat] /\ since \in [Sessions -> Nat]
    /\ answer \in [Sessions -> BOOLEAN]
    /\ \A p \in Procs : pc[p] \in {"read", "mv", "torn"} => lock = p

(* The list a run is about to move into place was made from the list that  *)
(* is in place: no other run can have replaced it since it was read, so    *)
(* the move loses nobody else's ban.  A torn one has fewer entries, and    *)
(* still none that the list in place does not have.                        *)
TmpFromCurrent ==
    \A p \in Procs :
        /\ pc[p] = "mv" =>
              tmp[p][addr[p]] = until[p] /\ Pruned(file, tmp[p], addr[p], now)
        /\ pc[p] = "torn" =>
              /\ tmp[p][addr[p]] = NoBan
              /\ \A j \in Ips : tmp[p][j] \in {file[j], NoBan}

(* The file backend keeps the registry's promise, whatever the order of    *)
(* concurrent runs and wherever they are killed: each ban or unban takes   *)
(* effect at once, at the move, and drops no entry still in force, unless  *)
(* the filter that reads the list fails.                                   *)
Asked(p) ==
    IF pc[p] = "idle" THEN [op |-> "none"]
    ELSE [op |-> cmd[p], ip |-> addr[p], until |-> until[p]]
Registry == INSTANCE BanRegistry WITH
    Clients <- Procs, MayTear <- ReadFaults, MayLose <- VolumeLoss, bans <- file,
    todo <- [p \in Procs |-> Asked(p)]
KeepsRegistry == Registry!Spec

(* isBanned() answers by a list that was in place at some moment between   *)
(* its stat and its answer, never by an older one: the cache is keyed by a *)
(* stamp taken before the read, so a file replaced in between is noticed   *)
(* at the next check.  Where the read fails it is the copy kept instead.   *)
ChecksAreFresh ==
    [][\A s \in Sessions : Decide(s) =>
          \E v \in since[s] .. Len(log) :
              answer'[s] = isBanned(log[v], client[s], now)]_allVars

(* A run that waits for the lock gets through, unless it is killed itself: *)
(* a killed holder does not keep the lock.                                 *)
EveryRunEnds == \A p \in Procs : pc[p] = "lock" ~> pc[p] = "idle"
==============================================================================
