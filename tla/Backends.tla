------------------------------- MODULE Backends -------------------------------
(***************************************************************************)
(* Both enforcement backends behind one CLI: guard/shield-ban, the         *)
(* shield-ban that fail2ban calls when SHIELD_BAN_ALSO_FILE is true.  It   *)
(* runs the file backend on the same arguments, ignores how that ends, and *)
(* becomes the guard.  Nothing locks the two together.                     *)
(*                                                                         *)
(* The file backend is one step here: BanFile shows that its runs take     *)
(* effect at one moment, not at all, or tear the list.  check and list     *)
(* change nothing in the file, so a wrapped one is the guard command       *)
(* alone, as is every command of the guard run without the wrapper (the    *)
(* dashboard's stats) or with SHIELD_BAN_ALSO_FILE false.  Both clocks run *)
(* at one rate and are not stepped.                                        *)
(***************************************************************************)
EXTENDS GuardBans

VARIABLES file,   \* the banlist file
          order,  \* what each wrapper was called with
          lag,    \* how long after the file backend the guard was started,
                  \* or NotFiled
          agreed  \* history: the lag of the last order on an address that
                  \* reached both backends, or NotFiled
wrapVars == <<file, order, lag, agreed>>
allVars == <<vars, wrapVars>>

NotFiled == -1
NoOrder == [op |-> "none"]
Orders == [op : {"ban"}, ip : Ips, ttl : Ttls] \cup [op : {"unban"}, ip : Ips]

WrapInit ==
    /\ Init /\ file = Empty /\ order = [p \in Procs |-> NoOrder]
    /\ lag = [p \in Procs |-> NotFiled]
    /\ agreed = [ip \in Ips |-> NotFiled]

Wrap(p) ==
    /\ Enter(p) /\ Begin(p, NoJob, "file")
    /\ \E o \in Orders : order' = [order EXCEPT ![p] = o]
    /\ UNCHANGED <<file, lag, agreed>>

(* The list a complete run of the file backend leaves: expired entries are *)
(* pruned.  The slip: only bans are handed on.                             *)
Rewritten_bans_only(o) ==
    [ip \in Ips |->
        IF o.op = "ban" /\ ip = o.ip
        THEN IF o.ttl = 0 THEN Permanent ELSE now + o.ttl
        ELSE IF Active(file[ip], now) THEN file[ip] ELSE NoBan]
Rewritten(o) ==
    [ip \in Ips |->
        IF ip = o.ip
        THEN IF o.op = "unban" THEN NoBan
             ELSE IF o.ttl = 0 THEN Permanent ELSE now + o.ttl
        ELSE IF Active(file[ip], now) THEN file[ip] ELSE NoBan]

(* Only the addresses in kept are as the file backend was asked to leave   *)
(* them; the others are no longer agreed on, nor is the one of the order.  *)
Filed(p, kept) ==
    LET new == Rewritten(order[p]) IN
    /\ pc[p] = "file" /\ Goto(p, "exec")
    /\ file' = [ip \in Ips |-> IF ip \in kept THEN new[ip] ELSE NoBan]
    /\ agreed' = [ip \in Ips |-> IF ip \in kept \ {order[p].ip} THEN agreed[ip]
                                 ELSE NotFiled]
    /\ Quiet /\ UNCHANGED <<bans, job, order>>

FileRuns(p) ==
    /\ Filed(p, Ips)
    /\ lag' = [lag EXCEPT ![p] = 0]

(* "|| true": the run of the file backend failed and tore the list ... *)
FileTears(p) ==
    /\ \E kept \in SUBSET Ips : Filed(p, kept)
    /\ UNCHANGED lag

(* ... or did nothing, and the wrapper goes on in either case. *)
FileFails(p) ==
    /\ pc[p] = "file" /\ Goto(p, "exec")
    /\ Quiet /\ UNCHANGED <<bans, job, wrapVars>>

(* The wrapper's arguments go with its process. *)
Forget(p) ==
    /\ order' = IF Running(p)' THEN order ELSE [order EXCEPT ![p] = NoOrder]
    /\ lag' = IF Running(p)' THEN lag ELSE [lag EXCEPT ![p] = NotFiled]

(* exec: the same process is the guard from here on. *)
Exec(p) ==
    LET o == order[p] IN
    /\ pc[p] = "exec"
    /\ \/ o.op = "ban" /\ cmd_ban(p, o.ip, o.ttl)
       \/ o.op = "unban" /\ cmd_unban(p, o.ip)
       \/ Declined(p, "err")
    /\ agreed' = [agreed EXCEPT ![o.ip] = NotFiled]
    /\ Forget(p) /\ UNCHANGED <<ops, crossed, file>>

(* A guard command without a wrapper: the other backend is not told. *)
Direct(p) ==
    /\ Command(p)
    /\ agreed' = IF job'[p].cmd \in {"ban", "unban"}
                 THEN [agreed EXCEPT ![job'[p].addr] = NotFiled] ELSE agreed
    /\ UNCHANGED <<file, order, lag>>

(* The guard's steps; an order that reached both backends, and that no     *)
(* other run crossed, is agreed on when the guard reports success.         *)
GuardStep(p) ==
    /\ Step(p)
    /\ agreed' = IF result'[p] = "ok" /\ lag[p] # NotFiled /\ ~crossed[p]
                 THEN [agreed EXCEPT ![order[p].ip] = lag[p]] ELSE agreed
    /\ Forget(p) /\ UNCHANGED file

Killed(p) == Crash(p) /\ Forget(p) /\ UNCHANGED <<file, agreed>>

(* A wrapper between its two backends falls behind. *)
WrapTick ==
    /\ Tick
    /\ lag' = [p \in Procs |-> IF pc[p] = "exec" /\ lag[p] # NotFiled
                               THEN lag[p] + 1 ELSE lag[p]]
    /\ UNCHANGED <<file, order, agreed>>

WrapNext ==
    \/ \E p \in Procs :
          \/ Wrap(p) \/ FileRuns(p) \/ FileTears(p) \/ FileFails(p) \/ Exec(p)
          \/ Direct(p) \/ GuardStep(p) \/ Killed(p)
    \/ WrapTick

WrapSpec == WrapInit /\ [][WrapNext]_allVars
-------------------------------------------------------------------------------
(* The two backends agree on an address from an order on it that reached   *)
(* both, uncrossed, until the next order on it or a torn list, whatever    *)
(* happens to other addresses: what the file bans the guard drops, and     *)
(* what the guard still drops once the lag between the two has passed, the *)
(* file bans.                                                              *)
BackendsAgree ==
    \A ip \in Ips : agreed[ip] # NotFiled =>
        /\ Active(file[ip], now) => Active(bans[ip], now)
        /\ Active(bans[ip], now + agreed[ip]) => Active(file[ip], now)
===============================================================================
