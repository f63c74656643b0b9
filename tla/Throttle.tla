------------------------------- MODULE Throttle -------------------------------
(***************************************************************************)
(* The classifier of guard/bpf/shield_guard.bpf.c at work on the packets   *)
(* of one source: the ban lookup, and the token bucket in shield_throttle. *)
(* CPUs classify packets at the same time, and the bucket is shared plain  *)
(* memory: each load and each store is a step.  So is each look at the     *)
(* throttle's setting, which may change between two of them.  Packets that *)
(* are not IPv6 or cannot be parsed are passed at once and touch nothing   *)
(* modelled here; counters are left out.                                   *)
(*                                                                         *)
(* Numbers are unsigned and wrap at Modulus, 2^64 in the code.  Credit is  *)
(* counted in units of which a packet costs Packet (1000 in the code), a   *)
(* millisecond has NsPerMs clock ticks (10^6 in the code).                 *)
(***************************************************************************)
EXTENDS Integers, Sequences, FiniteSets

CONSTANTS CPUs,
          Configs,   \* values of shield_config; a rate of 0 is no throttle
          Packet, NsPerMs, Modulus,
          Bans,      \* values of a ban entry: 0 for ever, or a deadline
          MaxTime,   \* bound: clock
          MaxPackets, \* bound: packets
          MaxEvicted, \* bound: times the LRU map drops the bucket
          MaxChanges \* bound: times the setting changes

(* set_config gives a rate with no burst one packet (main.rs:418-420). *)
ASSUME ThrottleAssumption ==
    /\ Configs \subseteq [rate_pps : Nat, burst_pkts : Nat]
    /\ \A f \in Configs : f.rate_pps # 0 => f.burst_pkts # 0
    /\ Packet \in Nat \ {0} /\ NsPerMs \in Nat \ {0}
    /\ Modulus \in Nat \ {0} /\ \A f \in Configs : f.burst_pkts * Packet < Modulus
    /\ Bans \subseteq Nat
    /\ {MaxTime, MaxPackets, MaxEvicted, MaxChanges} \subseteq Nat
    /\ MaxTime < Modulus

NoEntry == -1

VARIABLES
    now,        \* bpf_ktime_get_ns()
    ban,        \* the source's entry in shield_bans, or NoEntry
    present, tokens_milli, last_ns, \* the source's entry in shield_throttle
    cfg,        \* the entry of shield_config
    pc, t, cap, reg, \* each CPU: where it is, its `now', its `cap', its register
    sure,       \* history: a ban has covered each CPU's packet since it came
    passed,     \* history: `now' of the packets passed, in order, and
                \* whether the throttle was asked; forgotten once overlapped
    dropped,    \* history: `now' of the packet the throttle dropped last
    overlapped, \* history: two CPUs have been at work at once
    packets, evicted, changes
bucketVars == <<present, tokens_milli, last_ns>>
cpuVars == <<pc, t, cap, reg, sure>>
bounds == <<packets, evicted, changes>>
vars == <<now, ban, bucketVars, cfg, cpuVars, passed, dropped, overlapped,
          bounds>>

Wrap(x) == x % Modulus

Init ==
    /\ now = 0 /\ ban = NoEntry
    /\ present = FALSE /\ tokens_milli = 0 /\ last_ns = 0 /\ cfg \in Configs
    /\ pc = [c \in CPUs |-> "idle"] /\ t = [c \in CPUs |-> 0]
    /\ cap = [c \in CPUs |-> 0] /\ reg = [c \in CPUs |-> 0]
    /\ sure = [c \in CPUs |-> FALSE]
    /\ passed = <<>> /\ dropped = NoEntry /\ overlapped = FALSE
    /\ packets = 0 /\ evicted = 0 /\ changes = 0

Goto(c, l) == pc' = [pc EXCEPT ![c] = l]

(* The verdict on a packet; the program's variables go with it. *)
Done(c) ==
    /\ Goto(c, "idle") /\ t' = [t EXCEPT ![c] = 0] /\ cap' = [cap EXCEPT ![c] = 0]
    /\ reg' = [reg EXCEPT ![c] = 0] /\ sure' = [sure EXCEPT ![c] = FALSE]
Pass(c, metered) ==
    /\ Done(c) /\ UNCHANGED dropped
    /\ passed' = IF overlapped THEN <<>>
                 ELSE Append(passed, [at |-> t[c], metered |-> metered])

(* Is a ban entry in force for a packet of time n?  The slip takes the 0   *)
(* of a permanent ban for a deadline.                                      *)
Holds_deadline_only(b, n) == b # NoEntry /\ b > n
Holds(b, n) == b # NoEntry /\ (b = 0 \/ b > n)

(* A packet comes in; the clock is read once. *)
Arrive(c) ==
    /\ pc[c] = "idle" /\ packets < MaxPackets /\ packets' = packets + 1
    /\ t' = [t EXCEPT ![c] = now]
    /\ sure' = [sure EXCEPT ![c] = ban # NoEntry /\ (ban = 0 \/ ban > now)]
    /\ overlapped' = (overlapped \/ \E d \in CPUs : pc[d] # "idle")
    /\ passed' = IF overlapped' THEN <<>> ELSE passed
    /\ Goto(c, "ban")
    /\ UNCHANGED <<now, ban, bucketVars, cfg, cap, reg, dropped, evicted, changes>>

LookupBan(c) ==
    /\ pc[c] = "ban"
    /\ IF Holds(ban, t[c]) THEN Done(c)
       ELSE Goto(c, "config") /\ UNCHANGED <<t, cap, reg, sure>>
    /\ UNCHANGED <<now, ban, bucketVars, cfg, passed, dropped, overlapped, bounds>>

(* Is there a throttle at all? *)
LookupConfig(c) ==
    /\ pc[c] = "config"
    /\ IF cfg.rate_pps = 0 THEN Pass(c, FALSE)
       ELSE Goto(c, "bucket") /\ UNCHANGED <<t, cap, reg, sure, passed, dropped>>
    /\ UNCHANGED <<now, ban, bucketVars, cfg, overlapped, bounds>>

LookupBucket(c) ==
    /\ pc[c] = "bucket"
    /\ Goto(c, IF present THEN "elapsed" ELSE "fresh")
    /\ cap' = [cap EXCEPT ![c] = cfg.burst_pkts * Packet]
    /\ UNCHANGED <<now, ban, bucketVars, cfg, t, reg, sure, passed, dropped,
                   overlapped, bounds>>

(* bpf_map_update_elem replaces the whole entry. *)
Fresh(c) ==
    /\ pc[c] = "fresh"
    /\ present' = TRUE /\ last_ns' = t[c]
    /\ tokens_milli' = IF cap[c] > Packet THEN cap[c] - Packet ELSE 0
    /\ Pass(c, TRUE)
    /\ UNCHANGED <<now, ban, cfg, overlapped, bounds>>

(* The refill is skipped before a whole millisecond has passed. *)
Elapsed(c) ==
    /\ pc[c] = "elapsed"
    /\ LET ms == Wrap(t[c] - last_ns) \div NsPerMs IN
       /\ reg' = [reg EXCEPT ![c] = ms]
       /\ Goto(c, IF ms # 0 THEN "refill" ELSE "test")
    /\ UNCHANGED <<now, ban, bucketVars, cfg, t, cap, sure, passed, dropped,
                   overlapped, bounds>>

(* The sum to store. *)
Refilled(ms, most) ==
    LET tokens == Wrap(tokens_milli + Wrap(ms * cfg.rate_pps))
    IN  IF tokens > most THEN most ELSE tokens

RefillLoad(c) ==
    /\ pc[c] = "refill"
    /\ reg' = [reg EXCEPT ![c] = Refilled(@, cap[c])]
    /\ Goto(c, "store")
    /\ UNCHANGED <<now, ban, bucketVars, cfg, t, cap, sure, passed, dropped,
                   overlapped, bounds>>

RefillStore(c) ==
    /\ pc[c] = "store" /\ tokens_milli' = reg[c] /\ Goto(c, "stamp")
    /\ UNCHANGED <<now, ban, present, last_ns, cfg, t, cap, reg, sure, passed,
                   dropped, overlapped, bounds>>

Stamp(c) ==
    /\ pc[c] = "stamp" /\ last_ns' = t[c] /\ Goto(c, "test")
    /\ UNCHANGED <<now, ban, present, tokens_milli, cfg, t, cap, reg, sure, passed,
                   dropped, overlapped, bounds>>

Test(c) ==
    /\ pc[c] = "test"
    /\ \/ /\ tokens_milli < Packet
          /\ Done(c) /\ dropped' = IF overlapped THEN NoEntry ELSE t[c]
       \/ /\ tokens_milli >= Packet
          /\ reg' = [reg EXCEPT ![c] = tokens_milli]
          /\ Goto(c, "spend") /\ UNCHANGED <<t, cap, sure, dropped>>
    /\ UNCHANGED <<now, ban, bucketVars, cfg, passed, overlapped, bounds>>

(* The compiler may use the value just tested or load it again.  The slip  *)
(* spends nothing.                                                         *)
Spend_nothing(c) ==
    /\ pc[c] = "spend" /\ Pass(c, TRUE)
    /\ UNCHANGED <<now, ban, bucketVars, cfg, overlapped, bounds>>
Spend(c) ==
    /\ pc[c] = "spend"
    /\ \E v \in {reg[c], tokens_milli} : tokens_milli' = Wrap(v - Packet)
    /\ Pass(c, TRUE)
    /\ UNCHANGED <<now, ban, present, last_ns, cfg, overlapped, bounds>>
-------------------------------------------------------------------------------
(* The surroundings.  fips-guard sets and removes the ban; the LRU map     *)
(* drops the bucket while no CPU is at work on it.                         *)
SetBan ==
    /\ \E b \in Bans \cup {NoEntry} :
        /\ b # ban /\ ban' = b
        /\ sure' = [c \in CPUs |-> sure[c] /\ b # NoEntry /\ (b = 0 \/ b > t[c])]
    /\ UNCHANGED <<now, bucketVars, cfg, pc, t, cap, reg, passed, dropped,
                   overlapped, bounds>>

(* fips-guard throttle, load or watchdog. *)
SetConfig ==
    /\ changes < MaxChanges /\ changes' = changes + 1
    /\ cfg' \in Configs \ {cfg}
    /\ UNCHANGED <<now, ban, bucketVars, cpuVars, passed, dropped, overlapped,
                   packets, evicted>>

Evict ==
    /\ present /\ evicted < MaxEvicted /\ \A c \in CPUs : pc[c] \in {"idle", "ban", "config"}
    /\ present' = FALSE /\ evicted' = evicted + 1
    /\ UNCHANGED <<now, ban, tokens_milli, last_ns, cfg, cpuVars, passed,
                   dropped, overlapped, packets, changes>>

Tick ==
    /\ now < MaxTime /\ now' = now + 1
    /\ UNCHANGED <<ban, bucketVars, cfg, cpuVars, passed, dropped, overlapped,
                   bounds>>

Classify(c) ==
    \/ LookupBan(c) \/ LookupConfig(c) \/ LookupBucket(c) \/ Fresh(c) \/ Elapsed(c)
    \/ RefillLoad(c) \/ RefillStore(c) \/ Stamp(c) \/ Test(c) \/ Spend(c)

Next == \/ \E c \in CPUs : Arrive(c) \/ Classify(c)
        \/ SetBan \/ SetConfig \/ Evict \/ Tick

Spec == Init /\ [][Next]_vars
-------------------------------------------------------------------------------
(* A packet under a ban that was in force when it came, and was not lifted *)
(* meanwhile, is never passed, whatever the other CPUs do to the maps.     *)
BanEnforced ==
    [][\A c \in CPUs : pc[c] \in {"config", "fresh", "spend"} /\ pc'[c] = "idle"
                          => ~sure[c]]_vars

(* While no two CPUs work on the source's packets at once, in no stretch   *)
(* of time does the throttle let more of them pass than the burst plus     *)
(* what the rate earns in it and in the millisecond running when it        *)
(* begins, by the largest of the settings: no change of setting, nor a     *)
(* time without throttle, is a source's gain.  An evicted bucket is a      *)
(* fresh burst.                                                            *)
AdmissionBound ==
    ~overlapped => \A i, j \in {k \in DOMAIN passed : passed[k].metered} :
        passed[i].at <= passed[j].at =>
            \E f, g \in Configs :
                Cardinality({k \in DOMAIN passed : /\ passed[k].metered
                                  /\ passed[k].at \in passed[i].at .. passed[j].at})
                    * Packet * NsPerMs
                  <= (1 + evicted) * f.burst_pkts * Packet * NsPerMs
                        + g.rate_pps * (passed[j].at - passed[i].at + NsPerMs - 1)
-------------------------------------------------------------------------------
(* shield_guard.bpf.c:203-205, "Sub-millisecond time is left on the clock  *)
(* rather than rounded away, so slow rates stay accurate": but for the     *)
(* millisecond that is still running, a packet is dropped only if it and   *)
(* those before it came faster than the rate.  (Of a setting that does not *)
(* change.)                                                                *)
DroppedOnlyOverRate ==
    dropped # NoEntry =>
        \E i \in 1 .. Len(passed) :
            (Len(passed) - i + 2) * Packet * NsPerMs
               > cfg.burst_pkts * Packet * NsPerMs
                    + cfg.rate_pps * (dropped - passed[i].at - NsPerMs)
===============================================================================
