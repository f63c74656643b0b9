---------------------------- MODULE ThrottleProofs ----------------------------
(***************************************************************************)
(* The classifier for any number of CPUs, any settings of the throttle and *)
(* any ban: a ban is never slipped past, and while CPUs take turns the     *)
(* throttle admits no more than the burst and the rate allow.              *)
(***************************************************************************)
EXTENDS Throttle, FiniteSetTheorems, TLAPS

Steps == {"idle", "ban", "config", "bucket", "fresh", "elapsed", "refill", "store",
          "stamp", "test", "spend"}

(* A packet past the ban lookup is not covered by a ban, and one before it *)
(* only if the entry the lookup will find is in force.                     *)
Covered ==
    /\ now \in Nat /\ pc \in [CPUs -> Steps] /\ t \in [CPUs -> Nat]
    /\ sure \in [CPUs -> BOOLEAN]
    /\ \A c \in CPUs : sure[c] => pc[c] = "ban" /\ Holds(ban, t[c])

(* The classifier's steps keep it so. *)
LEMMA CoveredStep == Covered /\ [Next]_vars => Covered'
<1> SUFFICES ASSUME Covered, [Next]_vars PROVE Covered'
  OBVIOUS
<1>0. /\ pc \in [CPUs -> Steps] /\ t \in [CPUs -> Nat] /\ sure \in [CPUs -> BOOLEAN]
      /\ now \in Nat
      /\ \A c \in CPUs : sure[c] => pc[c] = "ban" /\ Holds(ban, t[c])
  BY DEF Covered
<1>00. ~Tick => now' = now
  <2>1. ASSUME NEW c \in CPUs, Classify(c) PROVE now' = now
    BY <2>1 DEF Classify, LookupBan, LookupConfig, LookupBucket, Fresh, Elapsed, RefillLoad,
       RefillStore, Stamp, Test, Spend
  <2> QED
    BY <2>1 DEF Next, Arrive, SetBan, SetConfig, Evict, vars
<1>000. now' \in Nat
  BY <1>0, <1>00 DEF Tick
<1>1. ASSUME NEW c \in CPUs, Arrive(c) PROVE Covered'
  <2>1. /\ pc' = [pc EXCEPT ![c] = "ban"] /\ t' = [t EXCEPT ![c] = now] /\ ban' = ban
        /\ sure' = [sure EXCEPT ![c] = Holds(ban, now)]
    BY <1>1 DEF Arrive, Goto, Holds
  <2>2. Holds(ban, now) \in BOOLEAN
    BY DEF Holds
  <2>3. sure' \in [CPUs -> BOOLEAN]
    BY <1>0, <2>1, <2>2, Zenon
  <2>4. \A d \in CPUs : sure'[d] => pc'[d] = "ban" /\ Holds(ban', t'[d])
    BY <1>0, <2>1
  <2> QED
    BY <1>0, <1>000, <2>1, <2>3, <2>4 DEF Covered, Steps
<1>2. ASSUME NEW c \in CPUs, NEW l \in Steps, pc' = [pc EXCEPT ![c] = l],
             pc[c] = "ban" => ~Holds(ban, t[c]), UNCHANGED <<t, sure, ban>>
      PROVE  Covered'
  BY <1>0, <1>000, <1>2 DEF Covered
<1>3. ASSUME NEW c \in CPUs, Done(c), ban' = ban PROVE Covered'
  <2>1. /\ pc' = [pc EXCEPT ![c] = "idle"] /\ t' = [t EXCEPT ![c] = 0]
        /\ sure' = [sure EXCEPT ![c] = FALSE]
    BY <1>3 DEF Done, Goto
  <2>2. \A d \in CPUs : sure'[d] => pc'[d] = "ban" /\ Holds(ban', t'[d])
    BY <1>0, <1>3, <2>1
  <2> QED
    BY <1>0, <1>000, <2>1, <2>2 DEF Covered, Steps
<1>4. ASSUME NEW c \in CPUs, Classify(c) PROVE Covered'
  BY <1>2, <1>3, <1>4
     DEF Classify, LookupBan, LookupConfig, LookupBucket, Fresh, Elapsed, RefillLoad,
         RefillStore, Stamp, Test, Spend, Pass, Goto, Steps
<1>5. CASE SetBan
  <2>1. PICK b \in Bans \cup {NoEntry} :
          ban' = b /\ sure' = [c \in CPUs |-> sure[c] /\ Holds(b, t[c])]
    BY <1>5 DEF SetBan, Holds
  <2>2. UNCHANGED <<pc, t>>
    BY <1>5 DEF SetBan
  <2>3. sure' \in [CPUs -> BOOLEAN]
    BY <1>0, <2>1, Zenon DEF Holds
  <2>4. \A d \in CPUs : sure'[d] => pc'[d] = "ban" /\ Holds(ban', t'[d])
    BY <1>0, <2>1, <2>2
  <2> QED
    BY <1>0, <1>000, <2>2, <2>3, <2>4 DEF Covered
<1>6. CASE SetConfig \/ Evict \/ Tick \/ UNCHANGED vars
  <2>1. UNCHANGED <<pc, t, sure, ban>>
    BY <1>6 DEF SetConfig, Evict, Tick, vars, cpuVars
  <2> QED
    BY <1>0, <1>000, <2>1 DEF Covered
<1> QED
  BY <1>1, <1>4, <1>5, <1>6 DEF Next

(* A packet under a ban that was in force when it came, and was not lifted *)
(* while it was classified, is never passed, whatever other CPUs, the      *)
(* setting or the guard do meanwhile (shield_guard.bpf.c:181-189).         *)
THEOREM NoPacketUnderBan == Spec => BanEnforced
<1>1. Init => Covered
  BY DEF Init, Covered, Steps
<1>2. Covered /\ [Next]_vars
        => [\A c \in CPUs : pc[c] \in {"config", "fresh", "spend"} /\ pc'[c] = "idle"
                              => ~sure[c]]_vars
  BY DEF Covered
<1> QED
  BY <1>1, <1>2, CoveredStep, PTL DEF Spec, BanEnforced

-------------------------------------------------------------------------------
(* Amounts, in units of a packet's credit over a millisecond of ticks: what *)
(* n packets cost, what x credit is worth, what e bursts of a setting and d *)
(* ticks of a rate allow.                                                   *)
Cost(n) == n * Packet * NsPerMs
Worth(x) == x * NsPerMs
Allowed(e, f) == e * f.burst_pkts * Packet * NsPerMs
Earned(g, d) == g.rate_pps * d

(* A setting's rate and burst are numbers. *)
LEMMA ConfigFacts ==
    ASSUME NEW f \in Configs
    PROVE  f.rate_pps \in Nat /\ f.burst_pkts \in Nat
BY ThrottleAssumption

(* Costs and credit add up, and more credit is worth more. *)
LEMMA CostFacts ==
    /\ \A n \in Nat : Cost(n) \in Nat /\ Cost(n + 1) = Cost(n) + Worth(Packet)
    /\ \A x, y \in Int : Worth(x) \in Int /\ Worth(x + y) = Worth(x) + Worth(y)
    /\ \A x, y \in Int : x <= y => Worth(x) <= Worth(y)
    /\ Worth(0) = 0 /\ Cost(0) = 0
<1>0. Packet \in Nat \ {0} /\ NsPerMs \in Nat \ {0}
  BY ThrottleAssumption
<1>1. ASSUME NEW n \in Nat PROVE Cost(n) \in Nat /\ Cost(n + 1) = Cost(n) + Worth(Packet)
  <2>1. n * Packet \in Nat /\ (n + 1) * Packet = n * Packet + Packet
    BY <1>0
  <2>2. (n * Packet) * NsPerMs \in Nat
    BY <1>0, <2>1
  <2>3. ((n * Packet) + Packet) * NsPerMs = (n * Packet) * NsPerMs + Packet * NsPerMs
    BY <1>0, <2>1
  <2> QED
    BY <2>1, <2>2, <2>3 DEF Cost, Worth
<1>2. ASSUME NEW x \in Int, NEW y \in Int
      PROVE  Worth(x) \in Int /\ Worth(x + y) = Worth(x) + Worth(y)
  BY <1>0 DEF Worth
<1>3. ASSUME NEW x \in Int, NEW y \in Int, x <= y PROVE Worth(x) <= Worth(y)
  BY <1>0, <1>3 DEF Worth
<1>4. Worth(0) = 0 /\ Cost(0) = 0
  BY <1>0 DEF Worth, Cost
<1> QED
  BY <1>1, <1>2, <1>3, <1>4

(* More bursts, or bursts of a larger setting, allow more. *)
LEMMA AllowedFacts ==
    ASSUME NEW f \in Configs, NEW h \in Configs, f.burst_pkts <= h.burst_pkts, NEW e \in Nat
    PROVE  /\ Allowed(e, f) \in Nat /\ Allowed(e, f) <= Allowed(e, h)
           /\ Allowed(e + 1, f) = Allowed(e, f) + Allowed(1, f)
           /\ Allowed(1, f) \in Nat
           /\ \A x \in Int : x <= f.burst_pkts * Packet => Worth(x) <= Allowed(1, f)
<1> DEFINE B == f.burst_pkts
           H == h.burst_pkts
           U == Packet * NsPerMs
<1>0. Packet \in Nat \ {0} /\ NsPerMs \in Nat \ {0} /\ B \in Nat /\ H \in Nat /\ B <= H
  BY ThrottleAssumption, ConfigFacts
<1> HIDE DEF B, H
<1>1. /\ e * B \in Nat /\ e * H \in Nat /\ e * B <= e * H /\ (e + 1) * B = e * B + B
      /\ 1 * B = B
  BY <1>0
<1>2. \A m, n \in Nat : /\ m * Packet \in Nat /\ (m + n) * Packet = m * Packet + n * Packet
                        /\ m <= n => m * Packet <= n * Packet
  BY <1>0
<1>3. \A m, n \in Int : /\ m * NsPerMs \in Int /\ (m + n) * NsPerMs = m * NsPerMs + n * NsPerMs
                        /\ m <= n => m * NsPerMs <= n * NsPerMs
  BY <1>0
<1>4. \A m \in Nat : m * NsPerMs \in Nat
  BY <1>0
<1>5. /\ Allowed(e, f) = ((e * B) * Packet) * NsPerMs
      /\ Allowed(e + 1, f) = (((e + 1) * B) * Packet) * NsPerMs
      /\ Allowed(e, h) = ((e * H) * Packet) * NsPerMs
      /\ Allowed(1, f) = (B * Packet) * NsPerMs
  BY <1>1 DEF Allowed, B, H
<1>6. Allowed(e, f) \in Nat /\ Allowed(1, f) \in Nat
  BY <1>0, <1>1, <1>2, <1>4, <1>5
<1>7. Allowed(e, f) <= Allowed(e, h)
  <2>1. (e * B) * Packet \in Nat /\ (e * H) * Packet \in Nat /\ (e * B) * Packet <= (e * H) * Packet
    BY <1>1, <1>2
  <2> QED
    BY <1>3, <1>5, <2>1
<1>8. Allowed(e + 1, f) = Allowed(e, f) + Allowed(1, f)
  <2>1. ((e + 1) * B) * Packet = (e * B) * Packet + B * Packet
    BY <1>0, <1>1, <1>2
  <2>2. (e * B) * Packet \in Int /\ B * Packet \in Int
    BY <1>0, <1>1, <1>2
  <2> QED
    BY <1>3, <1>5, <2>1, <2>2
<1>9. ASSUME NEW x \in Int, x <= B * Packet PROVE Worth(x) <= Allowed(1, f)
  BY <1>0, <1>2, <1>3, <1>5, <1>9 DEF Worth
<1> QED
  BY <1>6, <1>7, <1>8, <1>9 DEF B

(* So do more time and a higher rate. *)
LEMMA EarnedFacts ==
    ASSUME NEW g \in Configs, NEW h \in Configs, g.rate_pps <= h.rate_pps,
           NEW d \in Int, NEW e \in Int
    PROVE  /\ Earned(g, d) \in Int /\ Earned(g, d + e) = Earned(g, d) + Earned(g, e)
           /\ d >= 0 => Earned(g, d) >= 0 /\ Earned(g, d) <= Earned(h, d)
           /\ d <= e => Earned(g, d) <= Earned(g, e)
<1> DEFINE R == g.rate_pps
           S == h.rate_pps
<1>0. R \in Nat /\ S \in Nat /\ R <= S
  BY ConfigFacts
<1> HIDE DEF R, S
<1>1. R * d \in Int /\ R * (d + e) = R * d + R * e
  BY <1>0
<1>2. d >= 0 => R * d >= 0 /\ R * d <= S * d
  BY <1>0
<1>3. d <= e => R * d <= R * e
  BY <1>0
<1> QED
  BY <1>1, <1>2, <1>3 DEF Earned, R, S

(* Bursts add up, and a bucket within its burst is worth at most one. *)
LEMMA AllowedTypes ==
    ASSUME NEW f \in Configs, NEW n \in Nat
    PROVE  /\ Allowed(n, f) \in Int /\ Allowed(n, f) >= 0 /\ Allowed(1, f) \in Int
           /\ Allowed(1, f) >= 0 /\ Allowed(n + 1, f) = Allowed(n, f) + Allowed(1, f)
           /\ \A x \in Int : x <= f.burst_pkts * Packet => Worth(x) <= Allowed(1, f)
<1>1. f.burst_pkts \in Nat
  BY ConfigFacts
<1>2. f.burst_pkts <= f.burst_pkts
  BY <1>1
<1> QED
  BY <1>2, AllowedFacts

(* What a rate earns adds up over time and grows with it. *)
LEMMA EarnedTypes ==
    ASSUME NEW g \in Configs, NEW d \in Int, NEW e \in Int
    PROVE  /\ Earned(g, d) \in Int /\ Earned(g, d + e) = Earned(g, d) + Earned(g, e)
           /\ d >= 0 => Earned(g, d) >= 0
           /\ d <= e => Earned(g, d) <= Earned(g, e)
<1>1. g.rate_pps \in Nat
  BY ConfigFacts
<1>2. g.rate_pps <= g.rate_pps
  BY <1>1
<1> QED
  BY <1>2, EarnedFacts

(* Of two settings, one has the larger burst, and one the higher rate. *)
LEMMA Larger ==
    ASSUME NEW f \in Configs, NEW h \in Configs
    PROVE  /\ \E m \in Configs : f.burst_pkts <= m.burst_pkts /\ h.burst_pkts <= m.burst_pkts
           /\ \E m \in Configs : f.rate_pps <= m.rate_pps /\ h.rate_pps <= m.rate_pps
<1>1. f.burst_pkts \in Nat /\ f.rate_pps \in Nat /\ h.burst_pkts \in Nat /\ h.rate_pps \in Nat
  BY ConfigFacts
<1> QED
  BY <1>1

(* Numbers that wrap are never larger than the ones they stand for. *)
LEMMA WrapFacts ==
    /\ \A x \in Int : Wrap(x) \in Nat
    /\ \A x \in Nat : Wrap(x) <= x
    /\ \A x \in Nat : x < Modulus => Wrap(x) = x
<1>0. Modulus \in Nat \ {0}
  BY ThrottleAssumption
<1>1. ASSUME NEW x \in Int PROVE Wrap(x) \in Nat
  BY <1>0 DEF Wrap
<1>2. ASSUME NEW x \in Nat PROVE Wrap(x) <= x
  BY <1>0 DEF Wrap
<1>3. ASSUME NEW x \in Nat, x < Modulus PROVE Wrap(x) = x
  BY <1>0, <1>3 DEF Wrap
<1> QED
  BY <1>1, <1>2, <1>3

(* Whole milliseconds. *)
LEMMA WholeMs ==
    ASSUME NEW x \in Nat
    PROVE  /\ x \div NsPerMs \in Nat /\ (x \div NsPerMs) * NsPerMs <= x
           /\ x \div NsPerMs = 0 => x <= NsPerMs - 1
BY ThrottleAssumption

-------------------------------------------------------------------------------
(* The packets the throttle was asked about and passed. *)
Records == [at : Nat, metered : BOOLEAN]
Metered(a) == [at |-> a, metered |-> TRUE]
Unmetered(a) == [at |-> a, metered |-> FALSE]
Since(s, a) == {k \in DOMAIN s : s[k].metered /\ s[k].at >= a}
Between(s, a, z) == {k \in DOMAIN s : s[k].metered /\ s[k].at \in a .. z}

(* The potential: for every packet passed, those passed since it and the   *)
(* credit x still there are paid for by n bursts and the time up to last,  *)
(* the end of the last refill, and the millisecond then running.           *)
Pot(s, n, f, g, x, last) ==
    \A i \in DOMAIN s : s[i].metered =>
        Cost(Cardinality(Since(s, s[i].at))) + Worth(x)
            <= Allowed(n, f) + Earned(g, last - s[i].at + NsPerMs - 1)

(* Every packet the throttle passed came within a millisecond of the stamp. *)
Stamped(s, last) == \A i \in DOMAIN s : s[i].metered => s[i].at <= last + NsPerMs - 1

(* Sequences of records. *)
LEMMA RecordFacts ==
    ASSUME NEW s \in Seq(Records), NEW a \in Nat, NEW e \in {Metered(a), Unmetered(a)}
    PROVE  /\ e \in Records /\ Append(s, e) \in Seq(Records) /\ e.at = a
           /\ DOMAIN s = 1 .. Len(s) /\ Len(s) \in Nat
           /\ DOMAIN Append(s, e) = 1 .. Len(s) + 1
           /\ \A i \in 1 .. Len(s) : Append(s, e)[i] = s[i] /\ s[i].at \in Nat
           /\ Append(s, e)[Len(s) + 1] = e
<1>1. Metered(a) \in Records /\ Unmetered(a) \in Records
  BY DEF Metered, Unmetered, Records
<1>2. e \in Records /\ e.at = a
  <2>1. Metered(a).at = a /\ Unmetered(a).at = a
    BY DEF Metered, Unmetered
  <2> QED
    BY <1>1, <2>1
<1>3. \A i \in 1 .. Len(s) : s[i] \in Records
  OBVIOUS
<1>4. \A i \in 1 .. Len(s) : s[i].at \in Nat
  BY <1>3 DEF Records
<1> HIDE DEF Records
<1> QED
  BY <1>2, <1>4

(* The number of packets since a, and how a packet passed changes it. *)
LEMMA CountFacts ==
    ASSUME NEW s \in Seq(Records), NEW a \in Nat, NEW b \in Nat
    PROVE  /\ IsFiniteSet(Since(s, b)) /\ Cardinality(Since(s, b)) \in Nat
           /\ Since(Append(s, Unmetered(a)), b) = Since(s, b)
           /\ b <= a => Cardinality(Since(Append(s, Metered(a)), b)) = Cardinality(Since(s, b)) + 1
           /\ a < b => Since(Append(s, Metered(a)), b) = Since(s, b)
<1>0. Len(s) \in Nat /\ DOMAIN s = 1 .. Len(s)
  BY RecordFacts
<1>1. IsFiniteSet(Since(s, b)) /\ Cardinality(Since(s, b)) \in Nat
  <2>1. IsFiniteSet(1 .. Len(s))
    BY <1>0, FS_Interval
  <2>2. Since(s, b) \subseteq 1 .. Len(s)
    BY <1>0 DEF Since
  <2>3. IsFiniteSet(Since(s, b))
    BY <2>1, <2>2, FS_Subset
  <2> QED
    BY <2>3, FS_CardinalityType
<1>2. Since(Append(s, Unmetered(a)), b) = Since(s, b)
  <2> DEFINE e == Unmetered(a)
  <2>1. /\ DOMAIN Append(s, e) = 1 .. Len(s) + 1
        /\ \A i \in 1 .. Len(s) : Append(s, e)[i] = s[i]
        /\ Append(s, e)[Len(s) + 1] = e
    BY RecordFacts
  <2>2. e.metered = FALSE
    BY DEF Unmetered
  <2> HIDE DEF e
  <2> QED
    BY <1>0, <2>1, <2>2 DEF Since, e
<1>3. /\ b <= a => Since(Append(s, Metered(a)), b) = Since(s, b) \cup {Len(s) + 1}
      /\ a < b => Since(Append(s, Metered(a)), b) = Since(s, b)
  <2> DEFINE e == Metered(a)
  <2>1. /\ DOMAIN Append(s, e) = 1 .. Len(s) + 1
        /\ \A i \in 1 .. Len(s) : Append(s, e)[i] = s[i]
        /\ Append(s, e)[Len(s) + 1] = e
    BY RecordFacts
  <2>2. e.metered = TRUE /\ e.at = a
    BY DEF Metered
  <2> HIDE DEF e
  <2> QED
    BY <1>0, <2>1, <2>2 DEF Since, e
<1>4. Len(s) + 1 \notin Since(s, b)
  BY <1>0 DEF Since
<1>5. Cardinality(Since(s, b) \cup {Len(s) + 1}) = Cardinality(Since(s, b)) + 1
  BY <1>1, <1>4, FS_AddElement
<1> QED
  BY <1>1, <1>2, <1>3, <1>5

(* The cost of the packets since one that was passed. *)
LEMMA CostSince ==
    ASSUME NEW s \in Seq(Records), NEW i \in DOMAIN s
    PROVE  /\ s[i].at \in Nat /\ Cardinality(Since(s, s[i].at)) \in Nat
           /\ Cost(Cardinality(Since(s, s[i].at))) \in Nat
<1>1. s[i].at \in Nat
  BY RecordFacts
<1>2. Cardinality(Since(s, s[i].at)) \in Nat
  BY <1>1, CountFacts
<1> QED
  BY <1>1, <1>2, CostFacts

(* The potential holds as well for larger settings, less credit and a      *)
(* later stamp.                                                            *)
LEMMA PotMore ==
    ASSUME NEW s \in Seq(Records), NEW n \in Nat, NEW f \in Configs, NEW f2 \in Configs,
           NEW g \in Configs, NEW g2 \in Configs, NEW x \in Int, NEW x2 \in Int,
           NEW l \in Int, NEW l2 \in Int,
           f.burst_pkts <= f2.burst_pkts, g.rate_pps <= g2.rate_pps, x2 <= x, l <= l2,
           Stamped(s, l), Pot(s, n, f, g, x, l)
    PROVE  Pot(s, n, f2, g2, x2, l2)
<1> SUFFICES ASSUME NEW i \in DOMAIN s, s[i].metered
             PROVE  Cost(Cardinality(Since(s, s[i].at))) + Worth(x2)
                      <= Allowed(n, f2) + Earned(g2, l2 - s[i].at + NsPerMs - 1)
  BY DEF Pot
<1> DEFINE a == s[i].at
           d == l - a + NsPerMs - 1
           d2 == l2 - a + NsPerMs - 1
           C == Cost(Cardinality(Since(s, a)))
<1>0. NsPerMs \in Nat /\ a \in Nat /\ C \in Nat
  BY ThrottleAssumption, CostSince
<1>00. a <= l + NsPerMs - 1 /\ C + Worth(x) <= Allowed(n, f) + Earned(g, d)
  BY Zenon DEF Stamped, Pot
<1> HIDE DEF a, C
<1>1. d \in Int /\ d2 \in Int /\ d <= d2 /\ d >= 0
  BY <1>0, <1>00
<1>2. C + Worth(x) <= Allowed(n, f) + Earned(g, d)
  BY <1>00
<1> HIDE DEF d, d2
<1>4. Worth(x) \in Int /\ Worth(x2) \in Int /\ Worth(x2) <= Worth(x)
  BY CostFacts
<1>5. Allowed(n, f) \in Int /\ Allowed(n, f2) \in Int /\ Allowed(n, f) <= Allowed(n, f2)
  BY AllowedFacts, AllowedTypes
<1>6. /\ Earned(g, d) \in Int /\ Earned(g2, d) \in Int /\ Earned(g2, d2) \in Int
      /\ Earned(g, d) <= Earned(g2, d) /\ Earned(g2, d) <= Earned(g2, d2)
  BY <1>1, EarnedFacts, EarnedTypes
<1>7. C + Worth(x2) <= Allowed(n, f2) + Earned(g2, d2)
  BY <1>0, <1>2, <1>4, <1>5, <1>6
<1> QED
  BY <1>7 DEF a, C, d2

(* A burst pays for a full bucket. *)
LEMMA PotBurst ==
    ASSUME NEW s \in Seq(Records), NEW n \in Nat, NEW f \in Configs, NEW g \in Configs,
           NEW x \in Int, NEW l \in Int, x <= f.burst_pkts * Packet, Pot(s, n, f, g, 0, l)
    PROVE  Pot(s, n + 1, f, g, x, l)
<1> SUFFICES ASSUME NEW i \in DOMAIN s, s[i].metered
             PROVE  Cost(Cardinality(Since(s, s[i].at))) + Worth(x)
                      <= Allowed(n + 1, f) + Earned(g, l - s[i].at + NsPerMs - 1)
  BY DEF Pot
<1> DEFINE a == s[i].at
           d == l - a + NsPerMs - 1
           C == Cost(Cardinality(Since(s, a)))
<1>0. NsPerMs \in Nat /\ a \in Nat /\ C \in Nat
  BY ThrottleAssumption, CostSince
<1>1. C + Worth(0) <= Allowed(n, f) + Earned(g, d)
  BY Zenon DEF Pot
<1> HIDE DEF a, C
<1>2. d \in Int
  BY <1>0
<1> HIDE DEF d
<1>3. Worth(0) = 0 /\ Worth(x) \in Int
  BY CostFacts
<1>4. /\ Allowed(n, f) \in Int /\ Allowed(1, f) \in Int /\ Worth(x) <= Allowed(1, f)
      /\ Allowed(n + 1, f) = Allowed(n, f) + Allowed(1, f)
  BY AllowedTypes
<1>5. Earned(g, d) \in Int
  BY <1>2, EarnedTypes
<1>6. C + Worth(x) <= Allowed(n + 1, f) + Earned(g, d)
  BY <1>0, <1>1, <1>3, <1>4, <1>5
<1> QED
  BY <1>6 DEF a, C, d

(* The time between two stamps pays for what the refill adds. *)
LEMMA PotEarn ==
    ASSUME NEW s \in Seq(Records), NEW n \in Nat, NEW f \in Configs, NEW g \in Configs,
           NEW x \in Nat, NEW y \in Nat, NEW ms \in Nat, NEW l \in Nat, NEW l2 \in Nat,
           y <= x + ms * g.rate_pps, ms * NsPerMs <= l2 - l, Pot(s, n, f, g, x, l)
    PROVE  Pot(s, n, f, g, y, l2)
<1> SUFFICES ASSUME NEW i \in DOMAIN s, s[i].metered
             PROVE  Cost(Cardinality(Since(s, s[i].at))) + Worth(y)
                      <= Allowed(n, f) + Earned(g, l2 - s[i].at + NsPerMs - 1)
  BY DEF Pot
<1> DEFINE a == s[i].at
           d == l - a + NsPerMs - 1
           R == g.rate_pps
           C == Cost(Cardinality(Since(s, a)))
           e == l2 - l
<1>0. NsPerMs \in Nat /\ a \in Nat /\ C \in Nat /\ R \in Nat
  BY ThrottleAssumption, CostSince, ConfigFacts
<1>1. C + Worth(x) <= Allowed(n, f) + Earned(g, d)
  BY Zenon DEF Pot
<1> HIDE DEF a, C, R
<1>2. d \in Int /\ e \in Int /\ l2 - a + NsPerMs - 1 = d + e
  BY <1>0
<1>3. ms * R \in Int /\ x + ms * R \in Int /\ y <= x + ms * R
  BY <1>0 DEF R
<1>4. ms * NsPerMs \in Int /\ ms * NsPerMs <= e
  BY <1>0
<1> HIDE DEF d, e
<1>5. /\ Worth(x) \in Int /\ Worth(y) \in Int /\ Worth(ms * R) \in Int
      /\ Worth(y) <= Worth(x) + Worth(ms * R)
  <2> DEFINE m == ms * R
  <2>1. x \in Int /\ y \in Int /\ m \in Int /\ x + m \in Int /\ y <= x + m
    BY <1>3
  <2> HIDE DEF m
  <2>2. Worth(x + m) = Worth(x) + Worth(m) /\ Worth(y) <= Worth(x + m)
    BY <2>1, CostFacts
  <2>3. Worth(x) \in Int /\ Worth(y) \in Int /\ Worth(m) \in Int
    BY <2>1, CostFacts
  <2> QED
    BY <2>2, <2>3 DEF m
<1>6. Allowed(n, f) \in Int
  BY AllowedTypes
<1>7. /\ Earned(g, d) \in Int /\ Earned(g, e) \in Int
      /\ Earned(g, d + e) = Earned(g, d) + Earned(g, e)
  BY <1>2, EarnedTypes
<1>8. Worth(ms * R) <= Earned(g, e)
  <2>1. (ms * R) * NsPerMs = R * (ms * NsPerMs)
    BY <1>0
  <2>2. R * (ms * NsPerMs) <= R * e
    BY <1>0, <1>2, <1>4
  <2> QED
    BY <2>1, <2>2 DEF Worth, Earned, R
<1>9. C + Worth(y) <= Allowed(n, f) + Earned(g, d + e)
  BY <1>0, <1>1, <1>5, <1>6, <1>7, <1>8
<1> QED
  BY <1>2, <1>9 DEF a, C

(* A packet the throttle is not asked about costs nothing. *)
LEMMA PotUnmetered ==
    ASSUME NEW s \in Seq(Records), NEW a \in Nat, NEW n, NEW f, NEW g, NEW x, NEW l
    PROVE  /\ Pot(s, n, f, g, x, l) => Pot(Append(s, Unmetered(a)), n, f, g, x, l)
           /\ Stamped(s, l) => Stamped(Append(s, Unmetered(a)), l)
<1> DEFINE r == Append(s, Unmetered(a))
<1>0. /\ DOMAIN s = 1 .. Len(s) /\ DOMAIN r = 1 .. Len(s) + 1 /\ Len(s) \in Nat
      /\ \A i \in 1 .. Len(s) : r[i] = s[i] /\ s[i].at \in Nat
      /\ r[Len(s) + 1] = Unmetered(a)
  BY RecordFacts
<1>1. Unmetered(a).metered = FALSE
  BY DEF Unmetered
<1>2. ASSUME NEW i \in DOMAIN r, r[i].metered
      PROVE  i \in DOMAIN s /\ r[i] = s[i]
  BY <1>0, <1>1, <1>2
<1>3. \A i \in DOMAIN s : Since(r, s[i].at) = Since(s, s[i].at)
  BY <1>0, CountFacts
<1> HIDE DEF r
<1>4. ASSUME Pot(s, n, f, g, x, l), NEW i \in DOMAIN r, r[i].metered
      PROVE  Cost(Cardinality(Since(r, r[i].at))) + Worth(x)
               <= Allowed(n, f) + Earned(g, l - r[i].at + NsPerMs - 1)
  <2>1. i \in DOMAIN s /\ r[i] = s[i]
    BY <1>2, <1>4
  <2>2. Since(r, r[i].at) = Since(s, s[i].at)
    BY <1>3, <2>1
  <2>3. s[i].metered
    BY <1>4, <2>1, Zenon
  <2>4. Cost(Cardinality(Since(s, s[i].at))) + Worth(x)
          <= Allowed(n, f) + Earned(g, l - s[i].at + NsPerMs - 1)
    BY <1>4, <2>1, <2>3, Zenon DEF Pot
  <2> QED
    BY <2>1, <2>2, <2>4, Zenon
<1>5. ASSUME Stamped(s, l), NEW i \in DOMAIN r, r[i].metered
      PROVE  r[i].at <= l + NsPerMs - 1
  <2>1. i \in DOMAIN s /\ r[i] = s[i]
    BY <1>2, <1>5
  <2> QED
    BY <1>5, <2>1, Zenon DEF Stamped
<1> QED
  BY <1>4, <1>5, Zenon DEF Pot, Stamped, r

(* A packet the throttle passes is paid for by the credit it takes: the    *)
(* ones before it have Packet less to spend, and it began with a bucket    *)
(* that held no more than a burst.                                         *)
LEMMA PotSpend ==
    ASSUME NEW s \in Seq(Records), NEW a \in Nat, NEW n \in Nat \ {0}, NEW f \in Configs,
           NEW g \in Configs, NEW x \in Int, NEW l \in Int,
           \A i \in DOMAIN s : s[i].at <= a,
           x <= f.burst_pkts * Packet, a <= l + NsPerMs - 1,
           Pot(s, n, f, g, x, l)
    PROVE  Pot(Append(s, Metered(a)), n, f, g, x - Packet, l)
<1> DEFINE r == Append(s, Metered(a))
<1>0. /\ DOMAIN s = 1 .. Len(s) /\ DOMAIN r = 1 .. Len(s) + 1 /\ Len(s) \in Nat
      /\ \A i \in 1 .. Len(s) : r[i] = s[i] /\ s[i].at \in Nat
      /\ r[Len(s) + 1] = Metered(a) /\ Metered(a).at = a
  BY RecordFacts DEF Metered
<1>00. /\ NsPerMs \in Nat \ {0} /\ Packet \in Int
  BY ThrottleAssumption
<1>1. Worth(Packet) \in Int /\ Worth(x) \in Int /\ Worth(x - Packet) \in Int
      /\ Worth(x) = Worth(Packet) + Worth(x - Packet)
  <2>1. x - Packet \in Int /\ x = Packet + (x - Packet)
    BY <1>00
  <2> DEFINE y == x - Packet
  <2> HIDE DEF y
  <2>2. y \in Int /\ x = Packet + y
    BY <2>1 DEF y
  <2>3. Worth(Packet + y) = Worth(Packet) + Worth(y)
    BY <1>00, <2>2, CostFacts
  <2> QED
    BY <1>00, <2>2, <2>3, CostFacts DEF y
<1>2. ASSUME NEW i \in DOMAIN s, s[i].metered
      PROVE  Cost(Cardinality(Since(r, s[i].at))) + Worth(x - Packet)
               <= Allowed(n, f) + Earned(g, l - s[i].at + NsPerMs - 1)
  <2> DEFINE b == s[i].at
             m == Cardinality(Since(s, b))
             d == l - b + NsPerMs - 1
  <2>1. b \in Nat /\ m \in Nat /\ b <= a
    BY <1>0, CostSince
  <2>2. Cost(m) + Worth(x) <= Allowed(n, f) + Earned(g, d)
    BY <1>2, Zenon DEF Pot
  <2> HIDE DEF b
  <2>3. Cardinality(Since(r, b)) = m + 1
    BY <2>1, CountFacts
  <2> HIDE DEF m
  <2>4. Cost(m + 1) = Cost(m) + Worth(Packet) /\ Cost(m) \in Nat
    <3>1. m \in Nat
      BY <2>1
    <3>2. \A q \in Nat : Cost(q) \in Nat /\ Cost(q + 1) = Cost(q) + Worth(Packet)
      BY CostFacts
    <3> QED
      BY <3>1, <3>2
  <2>5. d \in Int
    BY <1>00, <2>1
  <2> HIDE DEF d
  <2>6. Allowed(n, f) \in Int /\ Earned(g, d) \in Int
    BY <2>5, AllowedTypes, EarnedTypes
  <2>7. Cost(m + 1) + Worth(x - Packet) <= Allowed(n, f) + Earned(g, d)
    BY <1>1, <2>2, <2>4, <2>6
  <2> QED
    BY <2>3, <2>7 DEF b, d
<1>3. Cost(Cardinality(Since(r, a))) + Worth(x - Packet)
        <= Allowed(n, f) + Earned(g, l - a + NsPerMs - 1)
  <2>1. CASE \E i \in DOMAIN s : s[i].metered /\ s[i].at = a
    BY <1>2, <2>1
  <2>2. CASE ~\E i \in DOMAIN s : s[i].metered /\ s[i].at = a
    <3>1. Since(s, a) = {}
      <4>1. ASSUME NEW k \in Since(s, a) PROVE FALSE
        <5>1. k \in DOMAIN s /\ s[k].metered /\ s[k].at >= a
          BY <4>1 DEF Since
        <5>2. s[k].at = a
          BY <1>0, <5>1
        <5> QED
          BY <2>2, <5>1, <5>2
      <4> QED
        BY <4>1
    <3>2. Cardinality(Since(r, a)) = 1
      <4>1. Cardinality(Since(r, a)) = Cardinality(Since(s, a)) + 1
        BY CountFacts
      <4> QED
        BY <3>1, <4>1, FS_EmptySet
    <3>3. Cost(1) = Worth(Packet)
      <4>1. Cost(0 + 1) = Cost(0) + Worth(Packet) /\ Cost(0) = 0
        BY CostFacts
      <4> QED
        BY <1>1, <4>1
    <3>4. Worth(x) <= Allowed(1, f) /\ Allowed(1, f) <= Allowed(n, f) /\ Allowed(1, f) \in Int
          /\ Allowed(n, f) \in Int
      <4>1. n - 1 \in Nat /\ (n - 1) + 1 = n
        OBVIOUS
      <4> DEFINE e == n - 1
      <4> HIDE DEF e
      <4>2. e \in Nat /\ n = e + 1
        BY <4>1 DEF e
      <4>3. Allowed(e, f) \in Int /\ Allowed(e, f) >= 0 /\ Allowed(1, f) \in Int
            /\ Allowed(e + 1, f) = Allowed(e, f) + Allowed(1, f) /\ Worth(x) <= Allowed(1, f)
        BY <4>2, AllowedTypes
      <4> QED
        BY <4>2, <4>3
    <3>5. Earned(g, l - a + NsPerMs - 1) \in Int /\ Earned(g, l - a + NsPerMs - 1) >= 0
      <4>1. l - a + NsPerMs - 1 \in Int /\ l - a + NsPerMs - 1 >= 0
        BY <1>00
      <4> QED
        BY <4>1, EarnedTypes
    <3> QED
      BY <1>1, <3>2, <3>3, <3>4, <3>5
  <2> QED
    BY <2>1, <2>2
<1> HIDE DEF r
<1>4. ASSUME NEW i \in DOMAIN r, r[i].metered
      PROVE  Cost(Cardinality(Since(r, r[i].at))) + Worth(x - Packet)
               <= Allowed(n, f) + Earned(g, l - r[i].at + NsPerMs - 1)
  <2>1. CASE i \in DOMAIN s
    <3>1. r[i] = s[i]
      BY <1>0, <2>1
    <3> QED
      BY <1>2, <1>4, <2>1, <3>1, Zenon
  <2>2. CASE i \notin DOMAIN s
    <3>1. r[i].at = a
      BY <1>0, <2>2
    <3> QED
      BY <1>3, <3>1, Zenon
  <2> QED
    BY <2>1, <2>2
<1> QED
  BY <1>4, Zenon DEF Pot, r

-------------------------------------------------------------------------------
(* The types. *)
ThrottleTypeOK ==
    /\ now \in Nat /\ now <= MaxTime /\ tokens_milli \in Nat /\ last_ns \in Nat
    /\ present \in BOOLEAN /\ overlapped \in BOOLEAN /\ evicted \in Nat /\ cfg \in Configs
    /\ pc \in [CPUs -> Steps] /\ t \in [CPUs -> Nat] /\ cap \in [CPUs -> Nat]
    /\ reg \in [CPUs -> Nat] /\ passed \in Seq(Records)

(* While CPUs take turns: no two are at work, and time goes forward. *)
InTurn ==
    /\ \A c, d \in CPUs : pc[c] # "idle" /\ pc[d] # "idle" => c = d
    /\ last_ns <= now /\ Stamped(passed, last_ns)
    /\ \A i \in DOMAIN passed : passed[i].at <= now

(* The one at work: its packet is the latest, and what it has found of the *)
(* bucket is still there.                                                  *)
Turn(c) ==
    pc[c] # "idle" =>
        /\ t[c] <= now /\ last_ns <= t[c] /\ \A i \in DOMAIN passed : passed[i].at <= t[c]
        /\ pc[c] \in {"elapsed", "refill", "store", "stamp", "test", "spend"} => present
        /\ pc[c] = "fresh" => ~present
        /\ pc[c] = "refill" => reg[c] * NsPerMs <= t[c] - last_ns
        /\ pc[c] \in {"test", "spend"} => t[c] <= last_ns + NsPerMs - 1
        /\ pc[c] = "spend" => reg[c] = tokens_milli /\ Packet <= tokens_milli

(* No bucket is above the burst, nor about to be. *)
Capped(f, c) ==
    /\ pc[c] \in {"bucket", "fresh"} => Packet <= f.burst_pkts * Packet
    /\ pc[c] \in {"fresh", "elapsed", "refill", "store"} => cap[c] <= f.burst_pkts * Packet
    /\ pc[c] = "store" => reg[c] <= f.burst_pkts * Packet

(* What was passed is paid for.  Between reading the bucket and stamping   *)
(* it, it is the packet's own time that pays.                              *)
Settled(f, g) ==
    (\A c \in CPUs : pc[c] \notin {"store", "stamp"}) =>
        IF present THEN Pot(passed, evicted + 1, f, g, tokens_milli, last_ns)
                   ELSE Pot(passed, evicted, f, g, 0, last_ns)
Settling(f, g, c) ==
    /\ pc[c] = "store" => Pot(passed, evicted + 1, f, g, reg[c], t[c])
    /\ pc[c] = "stamp" => Pot(passed, evicted + 1, f, g, tokens_milli, t[c])

Paid(f, g) ==
    /\ present => tokens_milli <= f.burst_pkts * Packet
    /\ Settled(f, g)
    /\ \A c \in CPUs : Capped(f, c) /\ Settling(f, g, c)

(* The inductive invariant. *)
ThrottleInv ==
    /\ ThrottleTypeOK
    /\ ~overlapped => /\ InTurn /\ \A c \in CPUs : Turn(c)
                      /\ \E f, g \in Configs : Paid(f, g)

(* The sum a refill stores. *)
LEMMA RefilledFacts ==
    ASSUME ThrottleTypeOK, NEW ms \in Nat, NEW most \in Nat
    PROVE  /\ Refilled(ms, most) \in Nat /\ Refilled(ms, most) <= most
           /\ Refilled(ms, most) <= tokens_milli + ms * cfg.rate_pps
<1> DEFINE R == cfg.rate_pps
           m == ms * R
           w == Wrap(m)
           v == Wrap(tokens_milli + w)
<1>0. tokens_milli \in Nat /\ R \in Nat
  BY ConfigFacts DEF ThrottleTypeOK
<1> HIDE DEF R
<1>1. m \in Nat
  BY <1>0
<1> HIDE DEF m
<1>2. w \in Nat /\ w <= m
  BY <1>1, WrapFacts
<1> HIDE DEF w
<1>3. tokens_milli + w \in Nat
  BY <1>0, <1>2
<1>4. v \in Nat /\ v <= tokens_milli + w
  BY <1>3, WrapFacts
<1>5. Refilled(ms, most) = IF v > most THEN most ELSE v
  BY DEF Refilled, v, w, m, R
<1> HIDE DEF v
<1>6. /\ Refilled(ms, most) \in Nat /\ Refilled(ms, most) <= most
      /\ Refilled(ms, most) <= tokens_milli + m
  BY <1>0, <1>1, <1>2, <1>4, <1>5
<1> QED
  BY <1>6 DEF m, R

(* What a verdict leaves of a CPU's variables, and what it adds to those   *)
(* passed.                                                                 *)
LEMMA DoneType ==
    ASSUME ThrottleTypeOK, NEW c \in CPUs, Done(c)
    PROVE  /\ pc' \in [CPUs -> Steps] /\ t' \in [CPUs -> Nat] /\ cap' \in [CPUs -> Nat]
           /\ reg' \in [CPUs -> Nat] /\ pc' = [pc EXCEPT ![c] = "idle"]
BY DEF ThrottleTypeOK, Done, Goto, Steps

(* A packet passed is recorded with its time and the setting it met. *)
LEMMA PassType ==
    ASSUME ThrottleTypeOK, NEW c \in CPUs, NEW b \in BOOLEAN, Pass(c, b)
    PROVE  passed' \in Seq(Records)
<1>1. t[c] \in Nat /\ passed \in Seq(Records)
  BY DEF ThrottleTypeOK
<1>2. [at |-> t[c], metered |-> b] \in Records
  BY <1>1 DEF Records
<1>3. passed' = IF overlapped THEN <<>> ELSE Append(passed, [at |-> t[c], metered |-> b])
  BY DEF Pass
<1> QED
  BY <1>1, <1>2, <1>3

(* The types are kept. *)
LEMMA ThrottleTypeStep == ThrottleTypeOK /\ [Next]_vars => ThrottleTypeOK'
<1> SUFFICES ASSUME ThrottleTypeOK, [Next]_vars PROVE ThrottleTypeOK'
  OBVIOUS
<1> USE DEF Goto
<1>0. /\ now \in Nat /\ now <= MaxTime /\ tokens_milli \in Nat /\ last_ns \in Nat
      /\ present \in BOOLEAN /\ overlapped \in BOOLEAN /\ evicted \in Nat /\ cfg \in Configs
      /\ pc \in [CPUs -> Steps] /\ t \in [CPUs -> Nat] /\ cap \in [CPUs -> Nat]
      /\ reg \in [CPUs -> Nat] /\ passed \in Seq(Records)
  BY DEF ThrottleTypeOK
<1>00. MaxTime \in Nat /\ Packet \in Nat /\ NsPerMs \in Nat \ {0}
  BY ThrottleAssumption
<1>1. ASSUME NEW c \in CPUs, Arrive(c) PROVE ThrottleTypeOK'
  <2>1. pc' = [pc EXCEPT ![c] = "ban"] /\ t' = [t EXCEPT ![c] = now]
        /\ UNCHANGED <<now, present, tokens_milli, last_ns, cfg, cap, reg, evicted>>
    BY <1>1 DEF Arrive, bucketVars
  <2>2. overlapped' \in BOOLEAN
    BY <1>1, <1>0 DEF Arrive
  <2>3. passed' \in Seq(Records)
    BY <1>1, <1>0 DEF Arrive
  <2> QED
    BY <1>0, <2>1, <2>2, <2>3 DEF ThrottleTypeOK, Steps
<1>2. ASSUME NEW c \in CPUs, NEW l \in Steps, pc' = [pc EXCEPT ![c] = l],
             t' = t, cap' \in [CPUs -> Nat], reg' \in [CPUs -> Nat],
             tokens_milli' \in Nat, last_ns' \in Nat,
             UNCHANGED <<now, present, overlapped, evicted, cfg, passed>>
      PROVE  ThrottleTypeOK'
  BY <1>0, <1>2 DEF ThrottleTypeOK
<1>3. ASSUME NEW c \in CPUs, Done(c), tokens_milli' \in Nat, last_ns' \in Nat,
             present' \in BOOLEAN, passed' \in Seq(Records),
             UNCHANGED <<now, overlapped, evicted, cfg>>
      PROVE  ThrottleTypeOK'
  BY <1>0, <1>3, DoneType DEF ThrottleTypeOK
<1>4. ASSUME NEW c \in CPUs, Classify(c) PROVE ThrottleTypeOK'
  <2>1. CASE LookupBan(c)
    BY <1>0, <1>2, <1>3, <2>1 DEF LookupBan, bucketVars, bounds, Steps
  <2>2. CASE LookupConfig(c)
    <3>1. CASE cfg.rate_pps = 0
      <4>1. Pass(c, FALSE)
        BY <2>2, <3>1 DEF LookupConfig
      <4>2. passed' \in Seq(Records)
        BY <4>1, PassType
      <4> QED
        BY <1>0, <1>3, <2>2, <4>1, <4>2 DEF LookupConfig, bucketVars, bounds, Pass
    <3>2. CASE cfg.rate_pps # 0
      BY <1>0, <1>2, <2>2, <3>2 DEF LookupConfig, bucketVars, bounds, Steps
    <3> QED
      BY <3>1, <3>2
  <2>3. CASE LookupBucket(c)
    <3>1. cfg.burst_pkts * Packet \in Nat
      BY <1>0, <1>00, ConfigFacts
    <3>2. cap' \in [CPUs -> Nat]
      BY <1>0, <2>3, <3>1 DEF LookupBucket
    <3> QED
      BY <1>0, <1>2, <2>3, <3>2 DEF LookupBucket, bucketVars, bounds, Steps
  <2>4. CASE Fresh(c)
    <3>1. Pass(c, TRUE) /\ cap[c] \in Nat /\ t[c] \in Nat
      BY <1>0, <2>4 DEF Fresh
    <3>2. passed' \in Seq(Records)
      BY <3>1, PassType
    <3>3. tokens_milli' \in Nat
      BY <1>00, <2>4, <3>1 DEF Fresh
    <3> QED
      BY <1>0, <1>3, <2>4, <3>1, <3>2, <3>3 DEF Fresh, bounds, Pass
  <2>5. CASE Elapsed(c)
    <3>1. t[c] - last_ns \in Int
      BY <1>0
    <3>2. Wrap(t[c] - last_ns) \div NsPerMs \in Nat
      BY <3>1, WrapFacts, WholeMs
    <3>3. reg' \in [CPUs -> Nat]
      BY <1>0, <2>5, <3>2 DEF Elapsed
    <3> QED
      BY <1>0, <1>2, <2>5, <3>3 DEF Elapsed, bucketVars, bounds, Steps
  <2>6. CASE RefillLoad(c)
    <3>1. Refilled(reg[c], cap[c]) \in Nat
      BY <1>0, RefilledFacts
    <3>2. reg' \in [CPUs -> Nat]
      BY <1>0, <2>6, <3>1 DEF RefillLoad
    <3> QED
      BY <1>0, <1>2, <2>6, <3>2 DEF RefillLoad, bucketVars, bounds, Steps
  <2>7. CASE RefillStore(c)
    BY <1>0, <1>2, <2>7 DEF RefillStore, bounds, Steps
  <2>8. CASE Stamp(c)
    BY <1>0, <1>2, <2>8 DEF Stamp, bounds, Steps
  <2>9. CASE Test(c)
    <3>1. CASE tokens_milli < Packet
      <4>1. Done(c) /\ UNCHANGED <<now, bucketVars, cfg, passed, overlapped, bounds>>
        BY <1>0, <1>00, <2>9, <3>1 DEF Test
      <4> QED
        BY <1>0, <1>3, <4>1 DEF bucketVars, bounds
    <3>2. CASE tokens_milli >= Packet
      <4>1. /\ reg' = [reg EXCEPT ![c] = tokens_milli] /\ pc' = [pc EXCEPT ![c] = "spend"]
            /\ UNCHANGED <<t, cap, now, bucketVars, cfg, passed, overlapped, bounds>>
        BY <1>0, <1>00, <2>9, <3>2 DEF Test
      <4> QED
        BY <1>0, <1>2, <4>1 DEF bucketVars, bounds, Steps
    <3> QED
      BY <1>0, <1>00, <3>1, <3>2
  <2>10. CASE Spend(c)
    <3>1. Pass(c, TRUE)
      BY <2>10 DEF Spend
    <3>2. passed' \in Seq(Records)
      BY <3>1, PassType
    <3>3. tokens_milli' \in Nat
      <4>1. PICK v \in {reg[c], tokens_milli} : tokens_milli' = Wrap(v - Packet)
        BY <2>10 DEF Spend
      <4>2. v - Packet \in Int
        BY <1>0, <1>00
      <4> QED
        BY <4>1, <4>2, WrapFacts
    <3> QED
      BY <1>0, <1>3, <2>10, <3>1, <3>2, <3>3 DEF Spend, bounds, Pass
  <2> QED
    BY <1>4, <2>1, <2>2, <2>3, <2>4, <2>5, <2>6, <2>7, <2>8, <2>9, <2>10 DEF Classify
<1>5. CASE SetBan \/ SetConfig \/ Evict \/ Tick \/ UNCHANGED vars
  <2>1. CASE SetBan
    BY <1>0, <2>1 DEF SetBan, ThrottleTypeOK, bucketVars, bounds
  <2>2. CASE SetConfig
    BY <1>0, <2>2 DEF SetConfig, ThrottleTypeOK, bucketVars, cpuVars
  <2>3. CASE Evict
    <3>1. /\ present' = FALSE /\ evicted' = evicted + 1
          /\ UNCHANGED <<now, tokens_milli, last_ns, cfg, cpuVars, passed, overlapped>>
      BY <2>3 DEF Evict
    <3>2. present' \in BOOLEAN
      BY <3>1, Zenon
    <3>4. evicted' \in Nat
      BY <1>0, <3>1
    <3>3. UNCHANGED <<now, tokens_milli, last_ns, cfg, pc, t, cap, reg, passed, overlapped>>
      BY <3>1 DEF cpuVars
    <3> QED
      BY <1>0, <3>2, <3>3, <3>4 DEF ThrottleTypeOK
  <2>4. CASE Tick
    BY <1>0, <1>00, <2>4 DEF Tick, ThrottleTypeOK, bucketVars, cpuVars, bounds
  <2>5. CASE UNCHANGED vars
    BY <1>0, <2>5 DEF vars, ThrottleTypeOK, bucketVars, cpuVars, bounds
  <2> QED
    BY <1>5, <2>1, <2>2, <2>3, <2>4, <2>5
<1> QED
  BY <1>1, <1>4, <1>5 DEF Next

(* The settings that pay may be taken at least as large as the one in      *)
(* force, whose values the next step may read.                             *)
LEMMA Raise ==
    ASSUME ThrottleTypeOK, InTurn, \A c \in CPUs : Turn(c),
           NEW f \in Configs, NEW g \in Configs, Paid(f, g)
    PROVE  \E f2, g2 \in Configs :
              Paid(f2, g2) /\ cfg.burst_pkts <= f2.burst_pkts /\ cfg.rate_pps <= g2.rate_pps
<1>0. cfg \in Configs /\ evicted \in Nat /\ passed \in Seq(Records) /\ tokens_milli \in Nat
      /\ last_ns \in Nat /\ t \in [CPUs -> Nat] /\ reg \in [CPUs -> Nat] /\ cap \in [CPUs -> Nat]
      /\ present \in BOOLEAN
  BY DEF ThrottleTypeOK
<1>1. PICK f2 \in Configs : f.burst_pkts <= f2.burst_pkts /\ cfg.burst_pkts <= f2.burst_pkts
  BY <1>0, Larger
<1>2. PICK g2 \in Configs : g.rate_pps <= g2.rate_pps /\ cfg.rate_pps <= g2.rate_pps
  BY <1>0, Larger
<1>00. NsPerMs \in Nat \ {0} /\ Packet \in Nat
  BY ThrottleAssumption
<1>3. /\ f.burst_pkts * Packet \in Nat /\ f2.burst_pkts * Packet \in Nat
      /\ f.burst_pkts * Packet <= f2.burst_pkts * Packet
  <2>1. f.burst_pkts \in Nat /\ f2.burst_pkts \in Nat
    BY ConfigFacts
  <2> QED
    BY <1>00, <1>1, <2>1
<1>4. \A n, x, l \in Nat : Pot(passed, n, f, g, x, l) /\ Stamped(passed, l)
                             => Pot(passed, n, f2, g2, x, l)
  <2> SUFFICES ASSUME NEW n \in Nat, NEW x \in Nat, NEW l \in Nat,
                      Pot(passed, n, f, g, x, l), Stamped(passed, l)
               PROVE  Pot(passed, n, f2, g2, x, l)
    OBVIOUS
  <2>1. x \in Int /\ l \in Int /\ x <= x /\ l <= l
    OBVIOUS
  <2> QED
    BY <1>0, <1>1, <1>2, <2>1, PotMore
<1>5. present => tokens_milli <= f2.burst_pkts * Packet
  BY <1>0, <1>3 DEF Paid
<1>6. Settled(f2, g2)
  <2>1. Stamped(passed, last_ns) /\ evicted + 1 \in Nat /\ 0 \in Nat
    BY <1>0 DEF InTurn
  <2>2. Settled(f, g)
    BY DEF Paid
  <2>3. /\ Pot(passed, evicted + 1, f, g, tokens_milli, last_ns)
             => Pot(passed, evicted + 1, f2, g2, tokens_milli, last_ns)
        /\ Pot(passed, evicted, f, g, 0, last_ns) => Pot(passed, evicted, f2, g2, 0, last_ns)
    BY <1>0, <1>4, <2>1
  <2> QED
    BY <2>2, <2>3, Zenon DEF Settled
<1>7. ASSUME NEW c \in CPUs PROVE Capped(f2, c) /\ Settling(f2, g2, c)
  <2>1. Capped(f, c) /\ Settling(f, g, c) /\ Turn(c)
    BY DEF Paid
  <2>2. Capped(f2, c)
    BY <1>0, <1>00, <1>3, <2>1 DEF Capped
  <2>3. evicted + 1 \in Nat /\ t[c] \in Nat /\ reg[c] \in Nat
    BY <1>0
  <2>4. pc[c] # "idle" => Stamped(passed, t[c])
    <3> SUFFICES ASSUME pc[c] # "idle", NEW i \in DOMAIN passed
                 PROVE  passed[i].at <= t[c] + NsPerMs - 1
      BY DEF Stamped
    <3>1. passed[i].at <= t[c] /\ passed[i].at \in Nat
      BY <1>0, <2>1, CostSince DEF Turn
    <3> QED
      BY <1>00, <2>3, <3>1
  <2>5. /\ Pot(passed, evicted + 1, f, g, tokens_milli, t[c]) /\ Stamped(passed, t[c])
             => Pot(passed, evicted + 1, f2, g2, tokens_milli, t[c])
        /\ Pot(passed, evicted + 1, f, g, reg[c], t[c]) /\ Stamped(passed, t[c])
             => Pot(passed, evicted + 1, f2, g2, reg[c], t[c])
    BY <1>0, <1>4, <2>3
  <2>6. Settling(f2, g2, c)
    BY <2>1, <2>4, <2>5 DEF Settling
  <2> QED
    BY <2>2, <2>6
<1>8. Paid(f2, g2)
  BY <1>5, <1>6, <1>7 DEF Paid
<1> QED
  BY <1>1, <1>2, <1>8

(* A step of the CPU at work is no business of the others, which are idle. *)
LEMMA TurnStep ==
    ASSUME ThrottleTypeOK, InTurn, NEW c \in CPUs, pc[c] # "idle",
           NEW l \in Steps, pc' = [pc EXCEPT ![c] = l],
           last_ns' <= now', Stamped(passed', last_ns'),
           \A i \in DOMAIN passed' : passed'[i].at <= now',
           NEW f \in Configs, NEW g \in Configs,
           Turn(c)', Capped(f, c)', Settling(f, g, c)',
           present' => tokens_milli' <= f.burst_pkts * Packet,
           l \notin {"store", "stamp"} =>
               IF present' THEN Pot(passed', evicted' + 1, f, g, tokens_milli', last_ns')
                           ELSE Pot(passed', evicted', f, g, 0, last_ns')
    PROVE  InTurn' /\ (\A d \in CPUs : Turn(d)') /\ Paid(f, g)'
<1>1. pc \in [CPUs -> Steps]
  BY DEF ThrottleTypeOK
<1>2. pc'[c] = l /\ \A d \in CPUs : d # c => pc'[d] = "idle"
  BY <1>1 DEF InTurn
<1>3. InTurn'
  <2>1. \A d, e \in CPUs : pc'[d] # "idle" /\ pc'[e] # "idle" => d = e
    BY <1>2
  <2> QED
    BY <2>1 DEF InTurn
<1>4. ASSUME NEW d \in CPUs, d # c PROVE Turn(d)' /\ Capped(f, d)' /\ Settling(f, g, d)'
  BY <1>2, <1>4 DEF Turn, Capped, Settling
<1>5. Settled(f, g)'
  BY <1>2 DEF Settled
<1> QED
  BY <1>3, <1>4, <1>5 DEF Paid

(* Each step of the classifier, taken in turn, is paid for. *)
LEMMA ClassifyPaid ==
    ASSUME ThrottleTypeOK, ThrottleTypeOK', ~overlapped, InTurn, \A d \in CPUs : Turn(d),
           NEW f \in Configs, NEW g \in Configs, Paid(f, g),
           cfg.burst_pkts <= f.burst_pkts, cfg.rate_pps <= g.rate_pps,
           NEW c \in CPUs, Classify(c)
    PROVE  InTurn' /\ (\A d \in CPUs : Turn(d)') /\ Paid(f, g)'
<1> DEFINE Goal == InTurn' /\ (\A d \in CPUs : Turn(d)') /\ Paid(f, g)'
           B == f.burst_pkts * Packet
           Here == IF present THEN Pot(passed, evicted + 1, f, g, tokens_milli, last_ns)
                              ELSE Pot(passed, evicted, f, g, 0, last_ns)
<1> USE DEF Goto
<1>0. /\ now \in Nat /\ now <= MaxTime /\ tokens_milli \in Nat /\ last_ns \in Nat
      /\ present \in BOOLEAN /\ evicted \in Nat /\ cfg \in Configs
      /\ pc \in [CPUs -> Steps] /\ t \in [CPUs -> Nat] /\ cap \in [CPUs -> Nat]
      /\ reg \in [CPUs -> Nat] /\ passed \in Seq(Records)
      /\ t[c] \in Nat /\ cap[c] \in Nat /\ reg[c] \in Nat
  BY DEF ThrottleTypeOK
<1>00. MaxTime \in Nat /\ Packet \in Nat \ {0} /\ NsPerMs \in Nat \ {0} /\ Modulus \in Nat \ {0}
       /\ MaxTime < Modulus
  BY ThrottleAssumption
<1>1. f.burst_pkts \in Nat /\ g.rate_pps \in Nat /\ cfg.burst_pkts \in Nat
      /\ cfg.rate_pps \in Nat /\ B \in Nat
  <2>1. f.burst_pkts \in Nat /\ g.rate_pps \in Nat /\ cfg.burst_pkts \in Nat
        /\ cfg.rate_pps \in Nat
    BY <1>0, ConfigFacts
  <2> QED
    BY <1>00, <2>1
<1>2. Turn(c) /\ Capped(f, c) /\ Settling(f, g, c) /\ Settled(f, g)
      /\ (present => tokens_milli <= B)
  BY DEF Paid
<1>3. pc[c] # "idle"
  BY DEF Classify, LookupBan, LookupConfig, LookupBucket, Fresh, Elapsed, RefillLoad,
         RefillStore, Stamp, Test, Spend
<1>4. /\ t[c] <= now /\ last_ns <= t[c] /\ \A i \in DOMAIN passed : passed[i].at <= t[c]
  BY <1>2, <1>3 DEF Turn
<1>5. /\ last_ns <= now /\ Stamped(passed, last_ns)
      /\ \A i \in DOMAIN passed : passed[i].at <= now
  BY DEF InTurn
<1>6. pc[c] \notin {"store", "stamp"} => Here
  <2>1. \A d \in CPUs : d # c => pc[d] = "idle"
    BY <1>3 DEF InTurn
  <2> QED
    BY <1>2, <2>1 DEF Settled
<1>7. ASSUME NEW l \in Steps, pc' = [pc EXCEPT ![c] = l], pc[c] \notin {"store", "stamp"},
             UNCHANGED <<now, present, tokens_milli, last_ns, passed, evicted>>,
             Turn(c)', Capped(f, c)', Settling(f, g, c)'
      PROVE  Goal
  <2>1. last_ns' <= now' /\ Stamped(passed', last_ns')
        /\ \A i \in DOMAIN passed' : passed'[i].at <= now'
    BY <1>5, <1>7
  <2>2. present' => tokens_milli' <= f.burst_pkts * Packet
    BY <1>2, <1>7
  <2>3. IF present' THEN Pot(passed', evicted' + 1, f, g, tokens_milli', last_ns')
                    ELSE Pot(passed', evicted', f, g, 0, last_ns')
    BY <1>6, <1>7
  <2> QED
    BY <1>3, <1>7, <2>1, <2>2, <2>3, TurnStep
<1> HIDE DEF Here, B, Goal
<1>8. ASSUME pc' = [pc EXCEPT ![c] = "idle"]
      PROVE  Turn(c)' /\ Capped(f, c)' /\ Settling(f, g, c)' /\ "idle" \in Steps
  <2>1. pc'[c] = "idle"
    BY <1>0, <1>8
  <2> QED
    BY <2>1 DEF Turn, Capped, Settling, Steps
<1>9. ASSUME Done(c), pc[c] \notin {"store", "stamp"},
             UNCHANGED <<now, present, tokens_milli, last_ns, passed, evicted>>
      PROVE  Goal
  <2>1. pc' = [pc EXCEPT ![c] = "idle"]
    BY <1>9 DEF Done
  <2> QED
    BY <1>7, <1>8, <1>9, <2>1
<1>11. CASE LookupBan(c)
  <2>1. UNCHANGED <<now, present, tokens_milli, last_ns, passed, evicted>> /\ pc[c] = "ban"
    BY <1>11 DEF LookupBan, bucketVars, bounds
  <2>2. CASE Holds(ban, t[c])
    BY <1>9, <1>11, <2>1, <2>2 DEF LookupBan, Goal
  <2>3. CASE ~Holds(ban, t[c])
    <3>1. pc' = [pc EXCEPT ![c] = "config"] /\ UNCHANGED <<t, cap, reg>>
      BY <1>11, <2>3 DEF LookupBan
    <3>2. pc'[c] = "config" /\ "config" \in Steps
      BY <1>0, <3>1 DEF Steps
    <3>3. Turn(c)' /\ Capped(f, c)' /\ Settling(f, g, c)'
      BY <1>4, <2>1, <3>1, <3>2 DEF Turn, Capped, Settling
    <3> QED
      BY <1>7, <2>1, <3>1, <3>2, <3>3 DEF Goal
  <2> QED
    BY <2>2, <2>3
<1>12. CASE LookupConfig(c)
  <2>1. UNCHANGED <<now, present, tokens_milli, last_ns, evicted>> /\ pc[c] = "config"
    BY <1>12 DEF LookupConfig, bucketVars, bounds
  <2>2. CASE cfg.rate_pps = 0
    <3>1. pc' = [pc EXCEPT ![c] = "idle"] /\ passed' = Append(passed, Unmetered(t[c]))
      BY <1>12, <2>2 DEF LookupConfig, Pass, Done, Unmetered
    <3>2. /\ Pot(passed', evicted + 1, f, g, tokens_milli, last_ns)
               \/ ~Pot(passed, evicted + 1, f, g, tokens_milli, last_ns)
          /\ Pot(passed', evicted, f, g, 0, last_ns) \/ ~Pot(passed, evicted, f, g, 0, last_ns)
          /\ Stamped(passed', last_ns)
      BY <1>0, <1>5, <3>1, PotUnmetered
    <3>3. \A i \in DOMAIN passed' : passed'[i].at <= now'
      <4>1. /\ DOMAIN passed = 1 .. Len(passed) /\ DOMAIN passed' = 1 .. Len(passed) + 1
            /\ Len(passed) \in Nat
            /\ \A i \in 1 .. Len(passed) : passed'[i] = passed[i]
            /\ passed'[Len(passed) + 1].at = t[c]
        BY <1>0, <3>1, RecordFacts
      <4> QED
        BY <1>4, <1>5, <2>1, <4>1
    <3>4. IF present' THEN Pot(passed', evicted' + 1, f, g, tokens_milli', last_ns')
                      ELSE Pot(passed', evicted', f, g, 0, last_ns')
      BY <1>6, <2>1, <3>2 DEF Here
    <3>5. present' => tokens_milli' <= f.burst_pkts * Packet
      BY <1>2, <2>1 DEF B
    <3>6. last_ns' <= now' /\ Stamped(passed', last_ns')
      BY <1>5, <2>1, <3>2
    <3> QED
      BY <1>3, <1>8, <3>1, <3>3, <3>4, <3>5, <3>6, TurnStep DEF Goal
  <2>3. CASE cfg.rate_pps # 0
    <3>1. pc' = [pc EXCEPT ![c] = "bucket"] /\ UNCHANGED <<t, cap, reg, passed>>
      BY <1>12, <2>3 DEF LookupConfig
    <3>2. pc'[c] = "bucket" /\ "bucket" \in Steps
      BY <1>0, <3>1 DEF Steps
    <3>3. Packet <= f.burst_pkts * Packet
      <4>1. cfg.burst_pkts # 0
        BY <1>0, <2>3, ThrottleAssumption
      <4>2. f.burst_pkts >= 1
        BY <1>1, <4>1
      <4> QED
        BY <1>00, <1>1, <4>2
    <3>4. Turn(c)' /\ Capped(f, c)' /\ Settling(f, g, c)'
      BY <1>4, <2>1, <3>1, <3>2, <3>3 DEF Turn, Capped, Settling
    <3> QED
      BY <1>7, <2>1, <3>1, <3>2, <3>4 DEF Goal
  <2> QED
    BY <2>2, <2>3
<1>13. CASE LookupBucket(c)
  <2>1. /\ UNCHANGED <<now, present, tokens_milli, last_ns, evicted, passed, t, reg>>
        /\ pc[c] = "bucket" /\ cap' = [cap EXCEPT ![c] = cfg.burst_pkts * Packet]
        /\ pc' = [pc EXCEPT ![c] = IF present THEN "elapsed" ELSE "fresh"]
    BY <1>13 DEF LookupBucket, bucketVars, bounds
  <2>2. cap'[c] <= f.burst_pkts * Packet
    <3>1. cfg.burst_pkts * Packet <= f.burst_pkts * Packet
      BY <1>00, <1>1
    <3> QED
      BY <1>0, <2>1, <3>1
  <2>3. Packet <= f.burst_pkts * Packet
    BY <1>2, <2>1 DEF Capped
  <2>4. pc'[c] = (IF present THEN "elapsed" ELSE "fresh") /\ pc'[c] \in Steps
    BY <1>0, <2>1 DEF Steps
  <2>5. Turn(c)' /\ Capped(f, c)' /\ Settling(f, g, c)'
    BY <1>4, <2>1, <2>2, <2>3, <2>4 DEF Turn, Capped, Settling
  <2> QED
    BY <1>7, <2>1, <2>4, <2>5 DEF Goal
<1>15. CASE Elapsed(c)
  <2> DEFINE ms == Wrap(t[c] - last_ns) \div NsPerMs
  <2>1. /\ UNCHANGED <<now, present, tokens_milli, last_ns, evicted, passed, t, cap>>
        /\ pc[c] = "elapsed" /\ reg' = [reg EXCEPT ![c] = ms]
        /\ pc' = [pc EXCEPT ![c] = IF ms # 0 THEN "refill" ELSE "test"]
    BY <1>15 DEF Elapsed, bucketVars, bounds
  <2>2. Wrap(t[c] - last_ns) = t[c] - last_ns /\ t[c] - last_ns \in Nat
    <3>1. t[c] - last_ns \in Nat /\ t[c] - last_ns < Modulus
      BY <1>0, <1>00, <1>4
    <3> QED
      BY <3>1, WrapFacts
  <2>3. ms \in Nat /\ ms * NsPerMs <= t[c] - last_ns
        /\ (ms = 0 => t[c] - last_ns <= NsPerMs - 1)
    BY <2>2, WholeMs
  <2> HIDE DEF ms
  <2>4. /\ pc'[c] = (IF ms # 0 THEN "refill" ELSE "test") /\ pc'[c] \in Steps
        /\ reg'[c] = ms
    BY <1>0, <2>1 DEF Steps
  <2>5. present
    BY <1>2, <2>1 DEF Turn
  <2>6. cap[c] <= f.burst_pkts * Packet
    BY <1>2, <2>1 DEF Capped
  <2>7. ms = 0 => t[c] <= last_ns + NsPerMs - 1
    BY <1>0, <1>00, <2>3
  <2>8. Turn(c)' /\ Capped(f, c)' /\ Settling(f, g, c)'
    BY <1>4, <2>1, <2>3, <2>4, <2>5, <2>6, <2>7 DEF Turn, Capped, Settling
  <2> QED
    BY <1>7, <2>1, <2>4, <2>8 DEF Goal
<1>16. CASE RefillLoad(c)
  <2> DEFINE x == Refilled(reg[c], cap[c])
  <2>1. /\ UNCHANGED <<now, present, tokens_milli, last_ns, evicted, passed, t, cap>>
        /\ pc[c] = "refill" /\ reg' = [reg EXCEPT ![c] = x]
        /\ pc' = [pc EXCEPT ![c] = "store"]
    BY <1>16 DEF RefillLoad, bucketVars, bounds
  <2>2. x \in Nat /\ x <= cap[c] /\ x <= tokens_milli + reg[c] * cfg.rate_pps
    BY <1>0, RefilledFacts
  <2> HIDE DEF x
  <2>3. present /\ reg[c] * NsPerMs <= t[c] - last_ns /\ cap[c] <= f.burst_pkts * Packet
    BY <1>2, <2>1 DEF Turn, Capped
  <2>4. x <= tokens_milli + reg[c] * g.rate_pps
    <3>1. reg[c] * cfg.rate_pps <= reg[c] * g.rate_pps
      <4> DEFINE r == reg[c]
                 q == cfg.rate_pps
                 h == g.rate_pps
      <4>1. r \in Nat /\ q \in Nat /\ h \in Nat /\ q <= h
        BY <1>0, <1>1
      <4> HIDE DEF r, q, h
      <4>2. r * q <= r * h
        BY <4>1
      <4> QED
        BY <4>2 DEF r, q, h
    <3>2. reg[c] * cfg.rate_pps \in Nat /\ reg[c] * g.rate_pps \in Nat
      BY <1>0, <1>1
    <3> QED
      BY <1>0, <2>2, <3>1, <3>2
  <2>5. Pot(passed, evicted + 1, f, g, x, t[c])
    <3>1. Pot(passed, evicted + 1, f, g, tokens_milli, last_ns)
      BY <1>6, <2>1, <2>3 DEF Here
    <3>2. evicted + 1 \in Nat
      BY <1>0
    <3> QED
      BY <1>0, <2>2, <2>3, <2>4, <3>1, <3>2, PotEarn
  <2>6. pc'[c] = "store" /\ reg'[c] = x /\ "store" \in Steps
    BY <1>0, <2>1 DEF Steps
  <2>7. x <= f.burst_pkts * Packet
    BY <1>0, <1>1, <2>2, <2>3 DEF B
  <2>8. Turn(c)' /\ Capped(f, c)' /\ Settling(f, g, c)'
    BY <1>4, <2>1, <2>3, <2>5, <2>6, <2>7 DEF Turn, Capped, Settling
  <2> QED
    BY <1>7, <2>1, <2>6, <2>8 DEF Goal
<1>17. CASE RefillStore(c)
  <2>1. /\ UNCHANGED <<now, present, last_ns, evicted, passed, t, cap, reg>>
        /\ pc[c] = "store" /\ pc' = [pc EXCEPT ![c] = "stamp"] /\ tokens_milli' = reg[c]
    BY <1>17 DEF RefillStore, bounds
  <2>2. pc'[c] = "stamp" /\ "stamp" \in Steps
    BY <1>0, <2>1 DEF Steps
  <2>3. present /\ reg[c] <= f.burst_pkts * Packet
        /\ Pot(passed, evicted + 1, f, g, reg[c], t[c])
    BY <1>2, <2>1 DEF Turn, Capped, Settling
  <2>4. Turn(c)' /\ Capped(f, c)' /\ Settling(f, g, c)'
    BY <1>4, <2>1, <2>2, <2>3 DEF Turn, Capped, Settling
  <2>5. /\ last_ns' <= now' /\ Stamped(passed', last_ns')
        /\ \A i \in DOMAIN passed' : passed'[i].at <= now'
    BY <1>5, <2>1
  <2>6. present' => tokens_milli' <= f.burst_pkts * Packet
    BY <2>1, <2>3
  <2> QED
    BY <1>3, <2>1, <2>2, <2>4, <2>5, <2>6, TurnStep DEF Goal
<1>18. CASE Stamp(c)
  <2>1. /\ UNCHANGED <<now, present, tokens_milli, evicted, passed, t, cap, reg>>
        /\ pc[c] = "stamp" /\ pc' = [pc EXCEPT ![c] = "test"] /\ last_ns' = t[c]
    BY <1>18 DEF Stamp, bounds
  <2>2. pc'[c] = "test" /\ "test" \in Steps
    BY <1>0, <2>1 DEF Steps
  <2>3. present /\ Pot(passed, evicted + 1, f, g, tokens_milli, t[c])
    BY <1>2, <2>1 DEF Turn, Settling
  <2>4. t[c] <= last_ns' /\ last_ns' <= t[c] /\ t[c] <= last_ns' + NsPerMs - 1
    BY <1>0, <1>00, <2>1
  <2>5. Turn(c)' /\ Capped(f, c)' /\ Settling(f, g, c)'
    BY <1>4, <2>1, <2>2, <2>3, <2>4 DEF Turn, Capped, Settling
  <2>6. Stamped(passed', last_ns')
    <3> SUFFICES ASSUME NEW i \in DOMAIN passed PROVE passed[i].at <= t[c] + NsPerMs - 1
      BY <2>1 DEF Stamped
    <3>1. passed[i].at <= t[c] /\ passed[i].at \in Nat
      BY <1>0, <1>4, CostSince
    <3> QED
      BY <1>0, <1>00, <3>1
  <2>7. last_ns' <= now' /\ \A i \in DOMAIN passed' : passed'[i].at <= now'
    BY <1>4, <1>5, <2>1
  <2>8. present' => tokens_milli' <= f.burst_pkts * Packet
    BY <1>2, <2>1 DEF B
  <2>9. IF present' THEN Pot(passed', evicted' + 1, f, g, tokens_milli', last_ns')
                    ELSE Pot(passed', evicted', f, g, 0, last_ns')
    BY <2>1, <2>3
  <2> QED
    BY <1>3, <2>1, <2>2, <2>5, <2>6, <2>7, <2>8, <2>9, TurnStep DEF Goal
<1>19. CASE Test(c)
  <2>1. /\ UNCHANGED <<now, present, tokens_milli, last_ns, evicted, passed>>
        /\ pc[c] = "test"
    BY <1>19 DEF Test, bucketVars, bounds
  <2>2. CASE tokens_milli < Packet
    <3>1. Done(c)
      BY <1>0, <1>00, <1>19, <2>2 DEF Test
    <3> QED
      BY <1>9, <2>1, <3>1 DEF Goal
  <2>3. CASE tokens_milli >= Packet
    <3>1. /\ reg' = [reg EXCEPT ![c] = tokens_milli] /\ pc' = [pc EXCEPT ![c] = "spend"]
          /\ UNCHANGED <<t, cap>>
      BY <1>0, <1>00, <1>19, <2>3 DEF Test
    <3>2. pc'[c] = "spend" /\ "spend" \in Steps /\ reg'[c] = tokens_milli
      BY <1>0, <3>1 DEF Steps
    <3>3. present /\ t[c] <= last_ns + NsPerMs - 1 /\ Packet <= tokens_milli
      BY <1>0, <1>00, <1>2, <2>1, <2>3 DEF Turn
    <3>4. Turn(c)' /\ Capped(f, c)' /\ Settling(f, g, c)'
      BY <1>4, <2>1, <3>1, <3>2, <3>3 DEF Turn, Capped, Settling
    <3> QED
      BY <1>7, <2>1, <3>1, <3>2, <3>4 DEF Goal
  <2> QED
    BY <1>0, <1>00, <2>2, <2>3
<1>20. ASSUME NEW x \in Nat, Packet <= x, x <= B, NEW l \in Nat, t[c] <= l + NsPerMs - 1,
              l <= now, Stamped(passed, l), Pot(passed, evicted + 1, f, g, x, l),
              pc' = [pc EXCEPT ![c] = "idle"], passed' = Append(passed, Metered(t[c])),
              present' = TRUE, tokens_milli' = x - Packet, last_ns' = l,
              UNCHANGED <<now, evicted>>
       PROVE  Goal
  <2>1. Pot(passed', evicted + 1, f, g, x - Packet, l)
    <3>1. evicted + 1 \in Nat \ {0} /\ x \in Int /\ l \in Int /\ x <= f.burst_pkts * Packet
      BY <1>0, <1>20 DEF B
    <3> QED
      BY <1>0, <1>4, <1>20, <3>1, PotSpend
  <2>2. /\ DOMAIN passed = 1 .. Len(passed) /\ DOMAIN passed' = 1 .. Len(passed) + 1
        /\ Len(passed) \in Nat
        /\ \A i \in 1 .. Len(passed) : passed'[i] = passed[i]
        /\ passed'[Len(passed) + 1] = Metered(t[c]) /\ Metered(t[c]).at = t[c]
    BY <1>0, <1>20, RecordFacts DEF Metered
  <2>3. \A i \in DOMAIN passed' : passed'[i].at <= now'
    BY <1>4, <1>5, <1>20, <2>2
  <2>4. Stamped(passed', last_ns')
    <3> SUFFICES ASSUME NEW i \in DOMAIN passed', passed'[i].metered
                 PROVE  passed'[i].at <= l + NsPerMs - 1
      BY <1>20 DEF Stamped
    <3>1. CASE i \in DOMAIN passed
      <4>1. passed'[i] = passed[i]
        BY <2>2, <3>1
      <4> QED
        BY <1>20, <3>1, <4>1, Zenon DEF Stamped
    <3>2. CASE i \notin DOMAIN passed
      BY <1>20, <2>2, <3>2
    <3> QED
      BY <3>1, <3>2
  <2>5. present' => tokens_milli' <= f.burst_pkts * Packet
    BY <1>00, <1>1, <1>20 DEF B
  <2>6. IF present' THEN Pot(passed', evicted' + 1, f, g, tokens_milli', last_ns')
                    ELSE Pot(passed', evicted', f, g, 0, last_ns')
    BY <1>20, <2>1
  <2> QED
    BY <1>3, <1>8, <1>20, <2>3, <2>4, <2>5, <2>6, TurnStep DEF Goal
<1>21. CASE Fresh(c)
  <2> DEFINE x == IF cap[c] > Packet THEN cap[c] ELSE Packet
  <2>1. /\ UNCHANGED <<now, evicted>> /\ pc[c] = "fresh" /\ present' = TRUE
        /\ last_ns' = t[c] /\ tokens_milli' = (IF cap[c] > Packet THEN cap[c] - Packet ELSE 0)
        /\ pc' = [pc EXCEPT ![c] = "idle"] /\ passed' = Append(passed, Metered(t[c]))
    BY <1>21 DEF Fresh, bounds, Pass, Done, Metered
  <2>2. ~present /\ Packet <= f.burst_pkts * Packet /\ cap[c] <= f.burst_pkts * Packet
    BY <1>2, <2>1 DEF Turn, Capped
  <2>3. x \in Nat /\ Packet <= x /\ x <= B /\ tokens_milli' = x - Packet
    BY <1>0, <1>00, <1>1, <2>1, <2>2 DEF B
  <2> HIDE DEF x
  <2>4. Pot(passed, evicted + 1, f, g, x, t[c])
    <3>1. Pot(passed, evicted, f, g, 0, last_ns)
      BY <1>6, <2>1, <2>2 DEF Here
    <3>2. Pot(passed, evicted, f, g, 0, t[c])
      <4>1. 0 \in Int /\ 0 <= 0 /\ last_ns \in Int /\ t[c] \in Int
            /\ f.burst_pkts <= f.burst_pkts /\ g.rate_pps <= g.rate_pps
        BY <1>0, <1>1
      <4> QED
        BY <1>0, <1>4, <1>5, <3>1, <4>1, PotMore
    <3>3. x \in Int /\ t[c] \in Int /\ x <= f.burst_pkts * Packet
      BY <1>0, <2>3 DEF B
    <3> QED
      BY <1>0, <3>2, <3>3, PotBurst
  <2>5. t[c] <= t[c] + NsPerMs - 1
    BY <1>0, <1>00
  <2>6. Stamped(passed, t[c])
    <3> SUFFICES ASSUME NEW i \in DOMAIN passed PROVE passed[i].at <= t[c] + NsPerMs - 1
      BY DEF Stamped
    <3>1. passed[i].at <= t[c] /\ passed[i].at \in Nat
      BY <1>0, <1>4, CostSince
    <3> QED
      BY <1>0, <1>00, <3>1
  <2> QED
    BY <1>0, <1>4, <1>20, <2>1, <2>3, <2>4, <2>5, <2>6 DEF Goal
<1>22. CASE Spend(c)
  <2>1. /\ UNCHANGED <<now, evicted, present, last_ns>> /\ pc[c] = "spend"
        /\ \E v \in {reg[c], tokens_milli} : tokens_milli' = Wrap(v - Packet)
        /\ pc' = [pc EXCEPT ![c] = "idle"] /\ passed' = Append(passed, Metered(t[c]))
    BY <1>22 DEF Spend, bounds, Pass, Done, Metered
  <2>2. present /\ t[c] <= last_ns + NsPerMs - 1 /\ reg[c] = tokens_milli
        /\ Packet <= tokens_milli
    BY <1>2, <2>1 DEF Turn
  <2>3. tokens_milli' = tokens_milli - Packet
    <3>1. tokens_milli <= B /\ B < Modulus
      BY <1>2, <2>2, ThrottleAssumption DEF B
    <3>2. tokens_milli - Packet \in Nat /\ tokens_milli - Packet < Modulus
      BY <1>0, <1>00, <1>1, <2>2, <3>1
    <3>3. Wrap(tokens_milli - Packet) = tokens_milli - Packet
      BY <3>2, WrapFacts
    <3> QED
      BY <2>1, <2>2, <3>3
  <2>4. present' = TRUE
    BY <1>0, <2>1, <2>2
  <2>5. tokens_milli <= B /\ Pot(passed, evicted + 1, f, g, tokens_milli, last_ns)
    BY <1>2, <1>6, <2>1, <2>2 DEF Here
  <2> QED
    BY <1>0, <1>5, <1>20, <2>1, <2>2, <2>3, <2>4, <2>5 DEF Goal
<1> QED
  BY <1>11, <1>12, <1>13, <1>15, <1>16, <1>17, <1>18, <1>19, <1>21, <1>22 DEF Classify, Goal

(* Once two CPUs have met, that is on record. *)
LEMMA OverlapStays == ThrottleTypeOK /\ [Next]_vars /\ ~overlapped' => ~overlapped
<1> SUFFICES ASSUME ThrottleTypeOK, [Next]_vars, ~overlapped' PROVE ~overlapped
  OBVIOUS
<1>1. ASSUME NEW c \in CPUs, Arrive(c) PROVE ~overlapped
  BY <1>1 DEF Arrive
<1>2. ASSUME NEW c \in CPUs, Classify(c) PROVE ~overlapped
  BY <1>2 DEF Classify, LookupBan, LookupConfig, LookupBucket, Fresh, Elapsed, RefillLoad,
              RefillStore, Stamp, Test, Spend
<1>3. CASE SetBan \/ SetConfig \/ Evict \/ Tick \/ UNCHANGED vars
  BY <1>3 DEF SetBan, SetConfig, Evict, Tick, vars
<1> QED
  BY <1>1, <1>2, <1>3 DEF Next

(* The surroundings, and a packet that comes when no CPU is at work.       *)
LEMMA OutsidePaid ==
    ASSUME ThrottleTypeOK, ThrottleTypeOK', ~overlapped, ~overlapped', InTurn,
           \A d \in CPUs : Turn(d), NEW f \in Configs, NEW g \in Configs, Paid(f, g),
           (\E c \in CPUs : Arrive(c)) \/ SetBan \/ SetConfig \/ Evict \/ Tick \/ UNCHANGED vars
    PROVE  InTurn' /\ (\A d \in CPUs : Turn(d)') /\ Paid(f, g)'
<1> USE DEF Goto
<1>0. /\ now \in Nat /\ tokens_milli \in Nat /\ last_ns \in Nat /\ evicted \in Nat
      /\ present \in BOOLEAN /\ pc \in [CPUs -> Steps] /\ t \in [CPUs -> Nat]
      /\ passed \in Seq(Records)
  BY DEF ThrottleTypeOK
<1>00. \A i \in DOMAIN passed : passed[i].at \in Nat
  BY <1>0, CostSince
<1>1. ASSUME NEW c \in CPUs, Arrive(c)
      PROVE  InTurn' /\ (\A d \in CPUs : Turn(d)') /\ Paid(f, g)'
  <2>1. /\ \A d \in CPUs : pc[d] = "idle"
        /\ pc' = [pc EXCEPT ![c] = "ban"] /\ t' = [t EXCEPT ![c] = now]
        /\ UNCHANGED <<now, present, tokens_milli, last_ns, evicted, passed>>
    BY <1>1 DEF Arrive, bucketVars
  <2>2. /\ pc'[c] = "ban" /\ t'[c] = now
        /\ \A d \in CPUs : d # c => pc'[d] = "idle"
    BY <1>0, <2>1
  <2>3. InTurn'
    BY <2>1, <2>2 DEF InTurn
  <2>4. ASSUME NEW d \in CPUs PROVE Turn(d)' /\ Capped(f, d)' /\ Settling(f, g, d)'
    <3>1. CASE d = c
      <4>1. now <= now /\ last_ns <= now /\ \A i \in DOMAIN passed : passed[i].at <= now
        BY <1>0 DEF InTurn
      <4> QED
        BY <2>1, <2>2, <3>1, <4>1 DEF Turn, Capped, Settling
    <3>2. CASE d # c
      BY <2>2, <3>2 DEF Turn, Capped, Settling
    <3> QED
      BY <3>1, <3>2
  <2>5. Settled(f, g) /\ (present => tokens_milli <= f.burst_pkts * Packet)
    BY DEF Paid
  <2>6. Settled(f, g)'
    BY <2>1, <2>2, <2>5 DEF Settled
  <2> QED
    BY <2>1, <2>3, <2>4, <2>5, <2>6 DEF Paid
<1>2. ASSUME UNCHANGED <<present, tokens_milli, last_ns, evicted, passed, pc, t, cap, reg>>,
             now' \in Nat, now <= now'
      PROVE  InTurn' /\ (\A d \in CPUs : Turn(d)') /\ Paid(f, g)'
  <2>1. InTurn'
    BY <1>0, <1>00, <1>2 DEF InTurn
  <2>2. ASSUME NEW d \in CPUs PROVE Turn(d)'
    <3>1. Turn(d) /\ t[d] \in Nat
      BY <1>0
    <3>2. t[d] <= now => t[d] <= now'
      BY <1>0, <1>2, <3>1
    <3> QED
      BY <1>2, <3>1, <3>2 DEF Turn
  <2>3. Paid(f, g)'
    BY <1>2 DEF Paid, Settled, Settling, Capped
  <2> QED
    BY <2>1, <2>2, <2>3
<1>3. CASE SetBan \/ SetConfig \/ UNCHANGED vars
  <2>1. UNCHANGED <<now, present, tokens_milli, last_ns, evicted, passed, pc, t, cap, reg>>
    BY <1>3 DEF SetBan, SetConfig, vars, bucketVars, cpuVars, bounds
  <2> QED
    BY <1>0, <1>2, <2>1
<1>4. CASE Tick
  BY <1>0, <1>2, <1>4 DEF Tick, bucketVars, cpuVars, bounds
<1>5. CASE Evict
  <2>1. /\ present /\ \A c \in CPUs : pc[c] \in {"idle", "ban", "config"}
        /\ present' = FALSE /\ evicted' = evicted + 1
        /\ UNCHANGED <<now, tokens_milli, last_ns, passed, pc, t, cap, reg>>
    BY <1>5 DEF Evict, cpuVars
  <2>2. InTurn'
    BY <2>1 DEF InTurn
  <2>3. ASSUME NEW d \in CPUs PROVE Turn(d)' /\ Capped(f, d)' /\ Settling(f, g, d)'
    BY <2>1 DEF Turn, Capped, Settling
  <2>4. Pot(passed, evicted + 1, f, g, tokens_milli, last_ns)
    BY <2>1 DEF Paid, Settled
  <2>5. Pot(passed, evicted + 1, f, g, 0, last_ns)
    <3>1. /\ f.burst_pkts <= f.burst_pkts /\ g.rate_pps <= g.rate_pps /\ 0 <= tokens_milli
          /\ last_ns <= last_ns /\ evicted + 1 \in Nat
      BY <1>0, ConfigFacts
    <3>2. Stamped(passed, last_ns) /\ 0 \in Int /\ tokens_milli \in Int /\ last_ns \in Int
      BY <1>0 DEF InTurn
    <3> QED
      BY <1>0, <2>4, <3>1, <3>2, PotMore
  <2>6. Settled(f, g)'
    BY <2>1, <2>5 DEF Settled
  <2>7. ~present'
    BY <2>1
  <2> QED
    BY <2>2, <2>3, <2>6, <2>7 DEF Paid
<1> QED
  BY <1>1, <1>3, <1>4, <1>5

(* The invariant holds and is kept. *)
LEMMA ThrottleInvInit == Init => ThrottleInv
<1> SUFFICES ASSUME Init PROVE ThrottleInv
  OBVIOUS
<1>0. MaxTime \in Nat /\ 0 \in Nat /\ NsPerMs \in Nat
  BY ThrottleAssumption
<1>1. ThrottleTypeOK
  <2>1. present \in BOOLEAN /\ overlapped \in BOOLEAN
    BY Zenon DEF Init
  <2>2. passed \in Seq(Records)
    BY DEF Init
  <2>3. /\ pc \in [CPUs -> Steps] /\ t \in [CPUs -> Nat] /\ cap \in [CPUs -> Nat]
        /\ reg \in [CPUs -> Nat]
    BY DEF Init, Steps
  <2> QED
    BY <1>0, <2>1, <2>2, <2>3 DEF Init, ThrottleTypeOK
<1>2. passed = <<>> /\ DOMAIN passed = {} /\ \A c \in CPUs : pc[c] = "idle"
  BY DEF Init
<1>3. InTurn
  BY <1>2 DEF Init, InTurn, Stamped
<1>4. \A c \in CPUs : Turn(c)
  BY <1>2 DEF Turn
<1>5. Paid(cfg, cfg)
  BY <1>2 DEF Init, Paid, Settled, Settling, Capped, Pot
<1> QED
  BY <1>1, <1>3, <1>4, <1>5 DEF ThrottleInv, ThrottleTypeOK

(* Every step of every CPU, of the setting and of the map keeps the        *)
(* invariant.                                                              *)
LEMMA ThrottleInvStep == ThrottleInv /\ [Next]_vars => ThrottleInv'
<1> SUFFICES ASSUME ThrottleInv, [Next]_vars PROVE ThrottleInv'
  OBVIOUS
<1>1. ThrottleTypeOK /\ ThrottleTypeOK'
  BY ThrottleTypeStep DEF ThrottleInv
<1>2. ASSUME ~overlapped'
      PROVE  InTurn' /\ (\A c \in CPUs : Turn(c)') /\ \E f, g \in Configs : Paid(f, g)'
  <2>1. ~overlapped
    BY <1>1, <1>2, OverlapStays
  <2>2. InTurn /\ (\A c \in CPUs : Turn(c)) /\ \E f, g \in Configs : Paid(f, g)
    BY <2>1 DEF ThrottleInv
  <2>3. PICK f0 \in Configs, g0 \in Configs : Paid(f0, g0)
    BY <2>2
  <2>4. PICK f \in Configs, g \in Configs :
          Paid(f, g) /\ cfg.burst_pkts <= f.burst_pkts /\ cfg.rate_pps <= g.rate_pps
    BY <1>1, <2>2, <2>3, Raise
  <2>5. InTurn' /\ (\A c \in CPUs : Turn(c)') /\ Paid(f, g)'
    <3>1. CASE \E c \in CPUs : Classify(c)
      BY <1>1, <2>1, <2>2, <2>4, <3>1, ClassifyPaid
    <3>2. CASE ~\E c \in CPUs : Classify(c)
      <4>1. (\E c \in CPUs : Arrive(c)) \/ SetBan \/ SetConfig \/ Evict \/ Tick
            \/ UNCHANGED vars
        BY <3>2 DEF Next
      <4> QED
        BY <1>1, <1>2, <2>1, <2>2, <2>4, <4>1, OutsidePaid
    <3> QED
      BY <3>1, <3>2
  <2> QED
    BY <2>5
<1> QED
  BY <1>1, <1>2 DEF ThrottleInv

-------------------------------------------------------------------------------
(* The bound on what was passed, in the amounts above. *)
Bound(s, e) ==
    \A i, j \in {k \in DOMAIN s : s[k].metered} :
        s[i].at <= s[j].at =>
            \E f, g \in Configs :
                Cost(Cardinality(Between(s, s[i].at, s[j].at)))
                  <= Allowed(1 + e, f) + Earned(g, s[j].at - s[i].at + NsPerMs - 1)

(* AdmissionBound in terms of the amounts above. *)
LEMMA BoundIs == AdmissionBound <=> (~overlapped => Bound(passed, evicted))
BY Zenon DEF AdmissionBound, Bound, Cost, Allowed, Earned, Between

(* An eviction allows more, and a packet not metered counts for nothing. *)
LEMMA BoundEvict ==
    ASSUME NEW s \in Seq(Records), NEW e \in Nat, Bound(s, e)
    PROVE  Bound(s, e + 1)
<1> SUFFICES ASSUME NEW i \in {k \in DOMAIN s : s[k].metered},
                    NEW j \in {k \in DOMAIN s : s[k].metered}, s[i].at <= s[j].at
             PROVE  \E f, g \in Configs :
                      Cost(Cardinality(Between(s, s[i].at, s[j].at)))
                        <= Allowed(1 + (e + 1), f) + Earned(g, s[j].at - s[i].at + NsPerMs - 1)
  BY DEF Bound
<1> DEFINE C == Cost(Cardinality(Between(s, s[i].at, s[j].at)))
           d == s[j].at - s[i].at + NsPerMs - 1
<1>1. PICK f \in Configs, g \in Configs : C <= Allowed(1 + e, f) + Earned(g, d)
  BY DEF Bound
<1>2. C \in Nat
  <2>1. Between(s, s[i].at, s[j].at) \subseteq DOMAIN s /\ IsFiniteSet(DOMAIN s)
    <3>1. DOMAIN s = 1 .. Len(s) /\ Len(s) \in Nat
      OBVIOUS
    <3>2. IsFiniteSet(1 .. Len(s))
      BY <3>1, FS_Interval
    <3> QED
      BY <3>1, <3>2 DEF Between
  <2>2. Cardinality(Between(s, s[i].at, s[j].at)) \in Nat
    BY <2>1, FS_Subset, FS_CardinalityType
  <2> QED
    BY <2>2, CostFacts
<1>3. d \in Int
  <2>1. s[i].at \in Nat /\ s[j].at \in Nat /\ NsPerMs \in Nat
    BY CostSince, ThrottleAssumption
  <2> QED
    BY <2>1
<1> HIDE DEF C, d
<1>4. 1 + (e + 1) = (1 + e) + 1 /\ 1 + e \in Nat
  OBVIOUS
<1> DEFINE n == 1 + e
<1> HIDE DEF n
<1>5. Allowed(n, f) \in Int /\ Allowed(1, f) \in Int /\ Allowed(1, f) >= 0
      /\ Allowed(n + 1, f) = Allowed(n, f) + Allowed(1, f)
  BY <1>4, AllowedTypes DEF n
<1>6. Earned(g, d) \in Int
  BY <1>3, EarnedTypes
<1>7. C <= Allowed(n + 1, f) + Earned(g, d)
  BY <1>1, <1>2, <1>5, <1>6 DEF n
<1> QED
  BY <1>4, <1>7 DEF C, d, n

(* A packet that the throttle was not asked about changes no bound. *)
LEMMA BoundUnmetered ==
    ASSUME NEW s \in Seq(Records), NEW e \in Nat, NEW a \in Nat, Bound(s, e)
    PROVE  Bound(Append(s, Unmetered(a)), e)
<1> DEFINE r == Append(s, Unmetered(a))
<1>0. /\ DOMAIN s = 1 .. Len(s) /\ DOMAIN r = 1 .. Len(s) + 1 /\ Len(s) \in Nat
      /\ \A i \in 1 .. Len(s) : r[i] = s[i]
      /\ r[Len(s) + 1] = Unmetered(a)
  BY RecordFacts
<1>1. Unmetered(a).metered = FALSE
  BY DEF Unmetered
<1> HIDE DEF r
<1>2. ASSUME NEW k \in DOMAIN r, r[k].metered
      PROVE  k \in DOMAIN s /\ r[k] = s[k]
  BY <1>0, <1>1, <1>2
<1>3. {k \in DOMAIN r : r[k].metered} = {k \in DOMAIN s : s[k].metered}
  BY <1>0, <1>2
<1>4. \A b, z : Between(r, b, z) = Between(s, b, z)
  <2> SUFFICES ASSUME NEW b, NEW z PROVE Between(r, b, z) = Between(s, b, z)
    OBVIOUS
  <2> QED
    BY <1>0, <1>2 DEF Between
<1>5. \A i \in {k \in DOMAIN s : s[k].metered} : r[i] = s[i]
  BY <1>0
<1>6. Bound(r, e)
  <2> SUFFICES ASSUME NEW i \in {k \in DOMAIN s : s[k].metered},
                      NEW j \in {k \in DOMAIN s : s[k].metered}, r[i].at <= r[j].at
               PROVE  \E f, g \in Configs :
                        Cost(Cardinality(Between(r, r[i].at, r[j].at)))
                          <= Allowed(1 + e, f) + Earned(g, r[j].at - r[i].at + NsPerMs - 1)
    BY <1>3, Zenon DEF Bound
  <2>1. r[i] = s[i] /\ r[j] = s[j]
    BY <1>5
  <2>2. Between(r, r[i].at, r[j].at) = Between(s, s[i].at, s[j].at)
    BY <1>4, <2>1
  <2>3. s[i].at <= s[j].at
    BY <2>1
  <2>4. \E f, g \in Configs :
          Cost(Cardinality(Between(s, s[i].at, s[j].at)))
            <= Allowed(1 + e, f) + Earned(g, s[j].at - s[i].at + NsPerMs - 1)
    BY <2>3, Zenon DEF Bound
  <2> QED
    BY <2>1, <2>2, <2>4
<1> QED
  BY <1>6 DEF r

(* A packet passed no earlier than the others, and paid for. *)
LEMMA BoundMetered ==
    ASSUME NEW s \in Seq(Records), NEW e \in Nat, NEW a \in Nat, Bound(s, e),
           \A i \in DOMAIN s : s[i].at <= a,
           NEW f \in Configs, NEW g \in Configs, NEW x \in Nat, NEW l \in Nat, l <= a,
           Pot(Append(s, Metered(a)), e + 1, f, g, x, l)
    PROVE  Bound(Append(s, Metered(a)), e)
<1> DEFINE r == Append(s, Metered(a))
<1>0. /\ DOMAIN s = 1 .. Len(s) /\ DOMAIN r = 1 .. Len(s) + 1 /\ Len(s) \in Nat
      /\ \A i \in 1 .. Len(s) : r[i] = s[i] /\ s[i].at \in Nat
      /\ r[Len(s) + 1] = Metered(a) /\ r \in Seq(Records)
  BY RecordFacts
<1>1. Metered(a).metered = TRUE /\ Metered(a).at = a
  BY DEF Metered
<1> HIDE DEF r
<1>2. \A k \in DOMAIN r : r[k].at \in Nat /\ r[k].at <= a
  BY <1>0, <1>1
<1> SUFFICES ASSUME NEW i \in {k \in DOMAIN r : r[k].metered},
                    NEW j \in {k \in DOMAIN r : r[k].metered}, r[i].at <= r[j].at
             PROVE  \E f1, g1 \in Configs :
                      Cost(Cardinality(Between(r, r[i].at, r[j].at)))
                        <= Allowed(1 + e, f1) + Earned(g1, r[j].at - r[i].at + NsPerMs - 1)
  BY DEF Bound, r
<1>3. i \in DOMAIN r /\ j \in DOMAIN r /\ r[i].at \in Nat /\ r[j].at \in Nat
      /\ r[i].at <= a /\ r[j].at <= a
  BY <1>2
<1>4. CASE r[j].at = a
  <2> DEFINE b == r[i].at
             C == Cost(Cardinality(Since(r, b)))
             d == l - b + NsPerMs - 1
             z == a - b + NsPerMs - 1
  <2>1. Between(r, b, a) = Since(r, b)
    BY <1>2, <1>3 DEF Between, Since
  <2>2. C + Worth(x) <= Allowed(e + 1, f) + Earned(g, d)
    <3>1. r[i].metered /\ i \in DOMAIN r
      BY Zenon
    <3> QED
      BY <3>1, Zenon DEF Pot, r
  <2>3. C \in Nat
    BY <1>0, <1>3, CostSince
  <2>4. d \in Int /\ z \in Int /\ d <= z
    <3>1. b \in Nat /\ NsPerMs \in Nat
      BY <1>3, ThrottleAssumption
    <3> HIDE DEF b
    <3> QED
      BY <3>1
  <2> HIDE DEF C, d, z
  <2>5. Worth(x) \in Int /\ Worth(x) >= 0
    <3>1. x \in Int /\ 0 \in Int /\ 0 <= x
      OBVIOUS
    <3>2. Worth(0) <= Worth(x) /\ Worth(0) = 0 /\ Worth(x) \in Int
      BY <3>1, CostFacts
    <3> QED
      BY <3>2
  <2>6. Allowed(e + 1, f) \in Int /\ 1 + e = e + 1
    <3>1. e + 1 \in Nat /\ 1 + e = e + 1
      OBVIOUS
    <3> QED
      BY <3>1, AllowedTypes
  <2>7. Earned(g, d) \in Int /\ Earned(g, z) \in Int /\ Earned(g, d) <= Earned(g, z)
    BY <2>4, EarnedTypes
  <2>8. C <= Allowed(e + 1, f) + Earned(g, z)
    BY <2>2, <2>3, <2>5, <2>6, <2>7
  <2> QED
    BY <1>4, <2>1, <2>6, <2>8 DEF C, z
<1>5. CASE r[j].at # a
  <2>1. i \in DOMAIN s /\ j \in DOMAIN s /\ r[i] = s[i] /\ r[j] = s[j]
    BY <1>0, <1>1, <1>3, <1>5
  <2>2. Between(r, r[i].at, r[j].at) = Between(s, s[i].at, s[j].at)
    <3>1. ASSUME NEW k \in DOMAIN r, r[k].at \in r[i].at .. r[j].at
          PROVE  k \in DOMAIN s /\ r[k] = s[k]
      BY <1>0, <1>1, <1>3, <1>5, <3>1
    <3> QED
      BY <1>0, <2>1, <3>1 DEF Between
  <2>3. s[i].metered /\ s[j].metered
    BY <2>1, Zenon
  <2> QED
    BY <2>1, <2>2, <2>3, Zenon DEF Bound
<1> QED
  BY <1>4, <1>5

(* How a step may change what was passed. *)
LEMMA PassedSteps ==
    ASSUME ThrottleInv, ThrottleInv', [Next]_vars, ~overlapped'
    PROVE  \/ passed' = passed /\ evicted' \in {evicted, evicted + 1}
           \/ \E c \in CPUs : /\ passed' = Append(passed, Unmetered(t[c])) /\ evicted' = evicted
                              /\ t[c] \in Nat
           \/ \E c \in CPUs : /\ passed' = Append(passed, Metered(t[c])) /\ evicted' = evicted
                              /\ pc[c] # "idle" /\ pc' = [pc EXCEPT ![c] = "idle"] /\ present'
                              /\ last_ns' \in {last_ns, t[c]} /\ t[c] \in Nat
<1>0. ThrottleTypeOK /\ ~overlapped
  BY OverlapStays DEF ThrottleInv
<1>00. pc \in [CPUs -> Steps] /\ t \in [CPUs -> Nat] /\ present \in BOOLEAN
  BY <1>0 DEF ThrottleTypeOK
<1>1. ASSUME NEW c \in CPUs, Arrive(c) PROVE passed' = passed /\ evicted' = evicted
  BY <1>1 DEF Arrive
<1>2. ASSUME NEW c \in CPUs, Classify(c), ~LookupConfig(c), ~Fresh(c), ~Spend(c)
      PROVE  passed' = passed /\ evicted' = evicted
  BY <1>2 DEF Classify, LookupBan, LookupBucket, Elapsed, RefillLoad, RefillStore, Stamp,
              Test, bounds
<1>3. ASSUME NEW c \in CPUs, LookupConfig(c)
      PROVE  passed' \in {passed, Append(passed, Unmetered(t[c]))} /\ evicted' = evicted
  BY <1>0, <1>3 DEF LookupConfig, Pass, Unmetered, bounds
<1>4. ASSUME NEW c \in CPUs, Fresh(c) \/ Spend(c)
      PROVE  /\ passed' = Append(passed, Metered(t[c])) /\ evicted' = evicted
             /\ pc[c] # "idle" /\ pc' = [pc EXCEPT ![c] = "idle"] /\ present' /\ last_ns' \in {last_ns, t[c]}
  <2>1. /\ passed' = Append(passed, Metered(t[c])) /\ evicted' = evicted
        /\ pc[c] # "idle" /\ pc' = [pc EXCEPT ![c] = "idle"]
        /\ last_ns' \in {last_ns, t[c]}
    BY <1>0, <1>4 DEF Fresh, Spend, Pass, Done, Goto, Metered, bounds
  <2>2. present'
    <3>1. CASE Fresh(c)
      BY <3>1 DEF Fresh
    <3>2. CASE Spend(c)
      <4>1. Turn(c) /\ pc[c] = "spend" /\ present' = present
        BY <1>0, <3>2 DEF ThrottleInv, Spend
      <4> QED
        BY <4>1 DEF Turn
    <3> QED
      BY <1>4, <3>1, <3>2
  <2> QED
    BY <1>00, <2>1, <2>2
<1>5. CASE SetBan \/ SetConfig \/ Evict \/ Tick \/ UNCHANGED vars
  BY <1>5 DEF SetBan, SetConfig, Evict, Tick, vars, bounds
<1>6. ASSUME NEW c \in CPUs, Classify(c)
      PROVE  \/ passed' = passed /\ evicted' = evicted
             \/ passed' = Append(passed, Unmetered(t[c])) /\ evicted' = evicted
             \/ /\ passed' = Append(passed, Metered(t[c])) /\ evicted' = evicted
                /\ pc[c] # "idle" /\ pc' = [pc EXCEPT ![c] = "idle"] /\ present'
                /\ last_ns' \in {last_ns, t[c]}
  BY <1>2, <1>3, <1>4, <1>6
<1>7. \A c \in CPUs : t[c] \in Nat
  BY <1>00
<1>8. CASE \E c \in CPUs : Classify(c)
  BY <1>6, <1>7, <1>8
<1> QED
  BY <1>1, <1>5, <1>8 DEF Next

(* While no two CPUs work on the source's packets at once, in no stretch   *)
(* of time does the throttle pass more of them than a burst, one more for  *)
(* each eviction, and the rate earn (shield_guard.bpf.c:191-226): for any  *)
(* settings and changes of them, any clock and any number of CPUs.         *)
THEOREM ThrottleAdmits == Spec => []AdmissionBound
<1> DEFINE Paying == ThrottleInv /\ (~overlapped => Bound(passed, evicted))
<1>1. Init => Paying
  <2> SUFFICES ASSUME Init PROVE Paying
    OBVIOUS
  <2>1. DOMAIN passed = {}
    BY DEF Init
  <2> QED
    BY <2>1, ThrottleInvInit DEF Bound
<1>2. Paying /\ [Next]_vars => Paying'
  <2> SUFFICES ASSUME Paying, [Next]_vars, ~overlapped' PROVE Bound(passed', evicted')
    BY ThrottleInvStep
  <2>0. ThrottleInv /\ ThrottleInv'
    BY ThrottleInvStep
  <2>1. ~overlapped /\ Bound(passed, evicted)
    BY <2>0, OverlapStays DEF ThrottleInv
  <2>2. passed \in Seq(Records) /\ evicted \in Nat /\ last_ns \in Nat
        /\ tokens_milli' \in Nat /\ last_ns' \in Nat
    BY <2>0 DEF ThrottleInv, ThrottleTypeOK
  <2>3. CASE passed' = passed /\ evicted' \in {evicted, evicted + 1}
    BY <2>1, <2>2, <2>3, BoundEvict
  <2>4. ASSUME NEW c \in CPUs, passed' = Append(passed, Unmetered(t[c])),
               evicted' = evicted, t[c] \in Nat
        PROVE  Bound(passed', evicted')
    BY <2>1, <2>2, <2>4, BoundUnmetered
  <2>5. ASSUME NEW c \in CPUs, passed' = Append(passed, Metered(t[c])), evicted' = evicted,
               pc[c] # "idle", pc' = [pc EXCEPT ![c] = "idle"], present', last_ns' \in {last_ns, t[c]},
               t[c] \in Nat
        PROVE  Bound(passed', evicted')
    <3>1. last_ns <= t[c] /\ \A i \in DOMAIN passed : passed[i].at <= t[c]
      BY <2>0, <2>1, <2>5 DEF ThrottleInv, Turn
    <3>2. last_ns' <= t[c]
      BY <2>2, <2>5, <3>1
    <3>3. PICK f \in Configs, g \in Configs : Paid(f, g)'
      BY <2>0 DEF ThrottleInv
    <3>4. \A d \in CPUs : pc'[d] \notin {"store", "stamp"}
      <4>1. pc \in [CPUs -> Steps] /\ \A d \in CPUs : d # c => pc[d] = "idle"
        BY <2>0, <2>1, <2>5 DEF ThrottleInv, ThrottleTypeOK, InTurn
      <4> QED
        BY <2>5, <4>1
    <3>5. Pot(passed', evicted' + 1, f, g, tokens_milli', last_ns')
      BY <2>5, <3>3, <3>4 DEF Paid, Settled
    <3> QED
      BY <2>1, <2>2, <2>5, <3>1, <3>2, <3>5, BoundMetered
  <2> QED
    BY <2>0, <2>3, <2>4, <2>5, PassedSteps
<1>3. Paying => AdmissionBound
  BY BoundIs
<1> QED
  BY <1>1, <1>2, <1>3, PTL DEF Spec
===============================================================================
