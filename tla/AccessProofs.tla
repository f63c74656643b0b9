----------------------------- MODULE AccessProofs -----------------------------
(***************************************************************************)
(* The accept stage, for every set of listeners, every policy and every    *)
(* schedule of connections, bans, evictions and ticks: whom the connection *)
(* rate refuses, how many it lets in, and that a missing banlist is said.  *)
(***************************************************************************)
EXTENDS Access, FiniteSetTheorems, TLAPS

Outcomes == {"allow", "banned", "conn-rate"}
Conn == [port : Ports, node : Nodes, at : Nat, listed : BOOLEAN, unread : BOOLEAN,
         out : Outcomes]

(* The keys the dict may hold. *)
CKey(l, n, w) == <<"conn", l, n, w>>
WKey(t, l) == <<"warn", t, l>>
KeySet == {CKey(l, n, w) : l \in Ports, n \in Nodes, w \in Nat}
            \cup {WKey(t, l) : t \in {"nobanfile", "banload"}, l \in Ports}

AccessTypes ==
    /\ DOMAIN dict \subseteq KeySet /\ dict \in [DOMAIN dict -> Nat]
    /\ now \in Nat /\ conns \in Seq(Conn) /\ evicted \in Seq(KeySet)
    /\ \A i \in 1 .. Len(conns) : conns[i].at <= now

(* The connections of a node to a listener in window w that ended in outs, *)
(* and the times a key was dropped.                                        *)
Counted == {"allow", "conn-rate"}
Hits(l, n, w, outs) ==
    {i \in DOMAIN conns : /\ conns[i].port = l /\ conns[i].node = n /\ conns[i].out \in outs
                          /\ conns[i].at \div policy[l].connWindow = w}
Drops(k) == {i \in DOMAIN evicted : evicted[i] = k}

(* A counter is behind the connections it counts, by what was dropped with *)
(* it: never ahead of them, and never by more than a rate for each drop.   *)
Behind(l, n, w) ==
    Count(CKey(l, n, w)) <= Cardinality(Hits(l, n, w, Counted))
Covered(l, n, w) ==
    policy[l].connRate # 0 =>
      LET paid == policy[l].connRate * Cardinality(Drops(CKey(l, n, w)))
      IN  /\ Cardinality(Hits(l, n, w, {"allow"})) <= paid + Count(CKey(l, n, w))
          /\ Cardinality(Hits(l, n, w, {"allow"})) <= paid + policy[l].connRate

(* A warning's gate is closed only after the warning was logged. *)
Gated ==
    /\ warned \subseteq [port : Ports, at : Nat]
    /\ \A t \in {"nobanfile", "banload"}, l \in Ports :
          WKey(t, l) \in DOMAIN dict => \E w \in warned : w.port = l /\ w.at <= Len(conns)

-------------------------------------------------------------------------------
(* The policy of a listener. *)
LEMMA PolicyFacts ==
    ASSUME NEW l \in Ports
    PROVE  policy[l].connRate \in Nat /\ policy[l].connWindow \in Nat \ {0}
BY AccessAssumption

(* Windows: a time is in the window its quotient names, and a stretch as   *)
(* long as a window meets at most two.                                     *)
LEMMA DivFacts ==
    ASSUME NEW x \in Nat, NEW W \in Nat \ {0}
    PROVE  /\ x \div W \in Nat
           /\ (x \div W) * W <= x /\ x < (x \div W) * W + W
OBVIOUS

(* Multiplying by a window keeps the order. *)
LEMMA MulMono ==
    ASSUME NEW a \in Int, NEW b \in Int, NEW W \in Nat, a <= b
    PROVE  a * W <= b * W
OBVIOUS

(* A stretch as long as a window meets its first window and at most the    *)
(* next.                                                                   *)
LEMMA TwoWindows ==
    ASSUME NEW t \in Nat, NEW W \in Nat \ {0}, NEW x \in t .. t + W - 1
    PROVE  x \div W = t \div W \/ x \div W = t \div W + 1
<1>0. PICK a, q : a = x \div W /\ q = t \div W
  OBVIOUS
<1>1. /\ x \in Nat /\ a \in Nat /\ q \in Nat
      /\ a * W <= x /\ x < a * W + W /\ q * W <= t /\ t < q * W + W
  BY <1>0, DivFacts
<1>2. PICK aw, qw : aw = a * W /\ qw = q * W
  OBVIOUS
<1>3. aw \in Int /\ qw \in Int
  BY <1>1, <1>2
<1>4. ~(a <= q - 1)
  <2> SUFFICES ASSUME a <= q - 1 PROVE FALSE
    OBVIOUS
  <2>1. (a + 1) * W <= q * W
    BY <1>1, MulMono
  <2>2. (a + 1) * W = a * W + W
    BY <1>1
  <2> QED
    BY <1>1, <1>2, <1>3, <2>1, <2>2
<1>5. ~(q + 2 <= a)
  <2> SUFFICES ASSUME q + 2 <= a PROVE FALSE
    OBVIOUS
  <2>1. (q + 2) * W <= a * W
    BY <1>1, MulMono
  <2>2. (q + 2) * W = q * W + W + W
    BY <1>1
  <2> QED
    BY <1>1, <1>2, <1>3, <2>1, <2>2
<1> QED
  BY <1>0, <1>1, <1>4, <1>5

-------------------------------------------------------------------------------
(* Index sets of a sequence are finite. *)
LEMMA IndexSets ==
    ASSUME NEW S, NEW s \in Seq(S), NEW A \in SUBSET DOMAIN s
    PROVE  IsFiniteSet(A) /\ Cardinality(A) \in Nat
<1>1. DOMAIN s = 1 .. Len(s) /\ Len(s) \in Nat
  OBVIOUS
<1>2. IsFiniteSet(1 .. Len(s))
  BY <1>1, FS_Interval
<1>3. IsFiniteSet(A)
  BY <1>1, <1>2, FS_Subset
<1> QED
  BY <1>3, FS_CardinalityType

(* What one more connection adds to the sets. *)
LEMMA HitsGrow ==
    ASSUME AccessTypes, NEW r \in Conn, conns' = Append(conns, r),
           NEW l, NEW n, NEW w, NEW outs
    PROVE  /\ IsFiniteSet(Hits(l, n, w, outs)) /\ Cardinality(Hits(l, n, w, outs)) \in Nat
           /\ IF /\ r.port = l /\ r.node = n /\ r.out \in outs
                 /\ r.at \div policy[l].connWindow = w
              THEN Cardinality(Hits(l, n, w, outs)') = Cardinality(Hits(l, n, w, outs)) + 1
              ELSE Cardinality(Hits(l, n, w, outs)') = Cardinality(Hits(l, n, w, outs))
<1>0. conns \in Seq(Conn) /\ DOMAIN conns = 1 .. Len(conns) /\ Len(conns) \in Nat
  BY DEF AccessTypes
<1>1. /\ DOMAIN conns' = 1 .. Len(conns) + 1 /\ conns'[Len(conns) + 1] = r
      /\ \A i \in 1 .. Len(conns) : conns'[i] = conns[i]
  BY <1>0
<1> DEFINE A == Hits(l, n, w, outs)
           hit == /\ r.port = l /\ r.node = n /\ r.out \in outs
                  /\ r.at \div policy[l].connWindow = w
<1>2. A \subseteq DOMAIN conns
  BY DEF Hits
<1>3. IsFiniteSet(A) /\ Cardinality(A) \in Nat
  BY <1>0, <1>2, IndexSets
<1>4. Len(conns) + 1 \notin A
  BY <1>0, <1>2
<1>5. CASE hit
  <2>1. A' = A \cup {Len(conns) + 1}
    BY <1>0, <1>1, <1>5 DEF Hits
  <2> HIDE DEF A
  <2>2. Cardinality(A \cup {Len(conns) + 1}) = Cardinality(A) + 1
    BY <1>3, <1>4, FS_AddElement
  <2> QED
    BY <1>3, <1>5, <2>1, <2>2 DEF A
<1>6. CASE ~hit
  <2>1. A' = A
    BY <1>0, <1>1, <1>6 DEF Hits
  <2> HIDE DEF A
  <2> QED
    BY <1>3, <1>6, <2>1 DEF A
<1> QED
  BY <1>5, <1>6

-------------------------------------------------------------------------------
(* Keys of different counters, and of warnings, differ. *)
LEMMA KeysDiffer ==
    /\ \A l, n, w, l2, n2, w2 : CKey(l, n, w) = CKey(l2, n2, w2) => l = l2 /\ n = n2 /\ w = w2
    /\ \A l, n, w, t, l2 : CKey(l, n, w) # WKey(t, l2)
    /\ \A t, l, t2, l2 : WKey(t, l) = WKey(t2, l2) => t = t2 /\ l = l2
BY DEF CKey, WKey

(* One call of access(), by what it does to the dict and the history. *)
Admits(l, n, r, counted) ==
    /\ r \in Conn /\ r.port = l /\ r.node = n /\ r.at = now /\ conns' = Append(conns, r)
    /\ counted \in BOOLEAN
    /\ counted => r.out \in Counted
    /\ r.out = "conn-rate" => counted /\ Count(CounterKey(l, n)) + 1 > policy[l].connRate
    /\ r.out = "allow" /\ policy[l].connRate # 0
          => counted /\ ~(Count(CounterKey(l, n)) + 1 > policy[l].connRate)
    /\ \A k : (\A t, l2 : k # WKey(t, l2)) =>
          Count(k)' = IF counted /\ k = CounterKey(l, n) THEN Count(k) + 1 ELSE Count(k)
    /\ UNCHANGED <<now, evicted>>

(* A call of access judges one connection, as Admits says. *)
LEMMA AccessEffect ==
    ASSUME AccessTypes, NEW l \in Ports, NEW n \in Nodes, access(l, n)
    PROVE  \E r, counted : Admits(l, n, r, counted)
<1> DEFINE w == Warn(l)
           rated == policy[l].connRate # 0
           c == CounterKey(l, n)
           counted == ~isBanned(l, n) /\ rated
           outcome == IF isBanned(l, n) THEN "banned"
                      ELSE IF rated /\ Exceeds(l, n) THEN "conn-rate" ELSE "allow"
           unread == policy[l].banFile /\ list = "unreadable"
           r == [port |-> l, node |-> n, at |-> now, listed |-> n \in banned,
                 unread |-> unread, out |-> outcome]
<1>0. now \in Nat
  BY DEF AccessTypes
<1>1. /\ dict' = IF isBanned(l, n) \/ ~rated THEN w.dict ELSE With(w.dict, c, Count(c) + 1)
      /\ conns' = Append(conns, r) /\ UNCHANGED <<now, evicted>>
  BY DEF access
<1>2. outcome \in Outcomes
  BY DEF Outcomes
<1>3. r \in Conn
  <2>1. (n \in banned) \in BOOLEAN /\ unread \in BOOLEAN
    OBVIOUS
  <2> HIDE DEF outcome, unread
  <2> QED
    BY <1>0, <1>2, <2>1 DEF Conn
<1>4. r.port = l /\ r.node = n /\ r.at = now /\ r.out = outcome
  OBVIOUS
<1>5. w.dict = dict \/ \E t : w.dict = With(dict, WKey(t, l), 1)
  BY DEF Warn, WarnKey, WKey
<1>6. ASSUME NEW k, \A t, l2 : k # WKey(t, l2)
      PROVE  /\ k \in DOMAIN w.dict <=> k \in DOMAIN dict
             /\ k \in DOMAIN dict => w.dict[k] = dict[k]
  <2> HIDE DEF w
  <2>1. CASE w.dict = dict
    BY <2>1
  <2>2. ASSUME NEW t, w.dict = With(dict, WKey(t, l), 1)
        PROVE  /\ k \in DOMAIN w.dict <=> k \in DOMAIN dict
               /\ k \in DOMAIN dict => w.dict[k] = dict[k]
    <3>1. k # WKey(t, l)
      BY <1>6
    <3> QED
      BY <2>2, <3>1 DEF With
  <2> QED
    BY <1>5, <2>1, <2>2
<1>7. ASSUME NEW k, \A t, l2 : k # WKey(t, l2)
      PROVE  Count(k)' = IF counted /\ k = c THEN Count(k) + 1 ELSE Count(k)
  <2> HIDE DEF w, c
  <2>1. CASE counted
    <3>1. dict' = With(w.dict, c, Count(c) + 1)
      BY <1>1, <2>1
    <3> QED
      BY <1>6, <1>7, <2>1, <3>1 DEF Count, Keys, With
  <2>2. CASE ~counted
    <3>1. dict' = w.dict
      BY <1>1, <2>2
    <3> QED
      BY <1>6, <1>7, <2>2, <3>1 DEF Count, Keys
  <2> QED
    BY <2>1, <2>2
<1>8. /\ counted => outcome \in Counted
      /\ outcome = "conn-rate" => counted /\ Count(c) + 1 > policy[l].connRate
      /\ outcome = "allow" /\ policy[l].connRate # 0
            => counted /\ ~(Count(c) + 1 > policy[l].connRate)
  BY DEF Counted, Exceeds
<1>9. counted \in BOOLEAN
  OBVIOUS
<1>10. Admits(l, n, r, counted)
  <2> HIDE DEF outcome, counted, c, unread
  <2> QED
    BY <1>1, <1>3, <1>4, <1>7, <1>8, <1>9 DEF Admits, c
<1> QED
  BY <1>10

(* An eviction. *)
LEMMA EvictEffect ==
    ASSUME AccessTypes, Evict
    PROVE  \E k \in DOMAIN dict :
              /\ evicted' = Append(evicted, k) /\ DOMAIN dict' = DOMAIN dict \ {k}
              /\ \A x \in DOMAIN dict \ {k} : dict'[x] = dict[x]
              /\ \A x : Count(x)' = IF x = k THEN 0 ELSE Count(x)
              /\ UNCHANGED <<now, conns, warned>>
<1>1. PICK k \in DOMAIN dict : /\ dict' = Restrict(dict, DOMAIN dict \ {k})
                               /\ evicted' = Append(evicted, k)
                               /\ UNCHANGED <<now, conns, warned>>
  BY DEF Evict, Keys
<1>2. DOMAIN dict' = DOMAIN dict \ {k} /\ \A x \in DOMAIN dict \ {k} : dict'[x] = dict[x]
  BY <1>1 DEF Restrict
<1>3. \A x : Count(x)' = IF x = k THEN 0 ELSE Count(x)
  BY <1>2 DEF Count, Keys
<1> QED
  BY <1>1, <1>2, <1>3

(* Types. *)
LEMMA AccessTypesStep ==
    ASSUME AccessTypes, [Next]_vars
    PROVE  AccessTypes'
<1>0. /\ DOMAIN dict \subseteq KeySet /\ dict \in [DOMAIN dict -> Nat]
      /\ now \in Nat /\ conns \in Seq(Conn) /\ evicted \in Seq(KeySet)
      /\ \A i \in 1 .. Len(conns) : conns[i].at <= now
  BY DEF AccessTypes
<1>1. ASSUME NEW l \in Ports, NEW n \in Nodes, access(l, n) PROVE AccessTypes'
  <2>1. PICK r, counted : Admits(l, n, r, counted)
    BY <1>1, AccessEffect
  <2>2. /\ r \in Conn /\ r.at = now /\ conns' = Append(conns, r) /\ UNCHANGED <<now, evicted>>
    BY <2>1 DEF Admits
  <2>3. conns' \in Seq(Conn) /\ \A i \in 1 .. Len(conns') : conns'[i].at <= now'
    <3>1. conns' \in Seq(Conn) /\ Len(conns') = Len(conns) + 1 /\ conns'[Len(conns) + 1] = r
          /\ Len(conns) \in Nat /\ \A i \in 1 .. Len(conns) : conns'[i] = conns[i]
      BY <1>0, <2>2
    <3>2. ASSUME NEW i \in 1 .. Len(conns') PROVE conns'[i].at <= now'
      <4>1. i \in 1 .. Len(conns) \/ i = Len(conns) + 1
        BY <3>1
      <4> QED
        BY <1>0, <2>2, <3>1, <4>1
    <3> QED
      BY <3>1, <3>2
  <2>4. CounterKey(l, n) \in KeySet
    <3>1. Window(l) \in Nat
      BY <1>0, PolicyFacts, DivFacts DEF Window
    <3> QED
      BY <3>1 DEF CounterKey, CKey, KeySet
  <2>5. DOMAIN dict' \subseteq KeySet /\ dict' \in [DOMAIN dict' -> Nat]
    <3> DEFINE w == Warn(l)
    <3>1. DOMAIN w.dict \subseteq KeySet /\ w.dict \in [DOMAIN w.dict -> Nat]
      <4>1. CASE Trouble(l) # "none" /\ WarnKey(Trouble(l), l) \notin Keys
        <5>1. Trouble(l) \in {"nobanfile", "banload"}
          BY <4>1 DEF Trouble
        <5>2. WKey(Trouble(l), l) \in KeySet
          BY <5>1 DEF KeySet
        <5>3. w.dict = With(dict, WKey(Trouble(l), l), 1)
          BY <4>1 DEF Warn, WarnKey, WKey
        <5> QED
          BY <1>0, <5>2, <5>3 DEF With
      <4>2. CASE ~(Trouble(l) # "none" /\ WarnKey(Trouble(l), l) \notin Keys)
        <5>1. w.dict = dict
          BY <4>2 DEF Warn
        <5> QED
          BY <1>0, <5>1
      <4> QED
        BY <4>1, <4>2
    <3>2. Count(CounterKey(l, n)) + 1 \in Nat
      BY <1>0 DEF Count, Keys
    <3>3. dict' = w.dict \/ dict' = With(w.dict, CounterKey(l, n), Count(CounterKey(l, n)) + 1)
      BY <1>1 DEF access
    <3> HIDE DEF w
    <3> QED
      BY <2>4, <3>1, <3>2, <3>3 DEF With
  <2> QED
    BY <1>0, <2>2, <2>3, <2>5 DEF AccessTypes
<1>2. CASE Evict
  <2>1. PICK k \in DOMAIN dict :
              /\ evicted' = Append(evicted, k) /\ DOMAIN dict' = DOMAIN dict \ {k}
              /\ dict' = Restrict(dict, DOMAIN dict \ {k})
              /\ UNCHANGED <<now, conns>>
    BY <1>2 DEF Evict, Keys, Restrict
  <2>2. dict' \in [DOMAIN dict' -> Nat]
    BY <1>0, <2>1 DEF Restrict
  <2>3. k \in KeySet /\ DOMAIN dict' \subseteq KeySet
    BY <1>0, <2>1
  <2>4. evicted' \in Seq(KeySet)
    BY <1>0, <2>1, <2>3
  <2>5. conns' \in Seq(Conn) /\ now' \in Nat /\ \A i \in 1 .. Len(conns') : conns'[i].at <= now'
    BY <1>0, <2>1
  <2> QED
    BY <2>2, <2>3, <2>4, <2>5 DEF AccessTypes
<1>3. CASE Tick
  <2>1. now' = now + 1 /\ UNCHANGED <<dict, conns, evicted>>
    BY <1>3 DEF Tick
  <2>2. \A i \in 1 .. Len(conns) : conns[i].at \in Nat
    <3>1. \A i \in 1 .. Len(conns) : conns[i] \in Conn
      BY <1>0
    <3> QED
      BY <3>1 DEF Conn
  <2>3. \A i \in 1 .. Len(conns') : conns'[i].at <= now'
    BY <1>0, <2>1, <2>2
  <2> QED
    BY <1>0, <2>1, <2>3 DEF AccessTypes
<1>4. CASE BanlistChange \/ UNCHANGED vars
  BY <1>0, <1>4 DEF BanlistChange, vars, AccessTypes
<1> QED
  BY <1>1, <1>2, <1>3, <1>4 DEF Next

-------------------------------------------------------------------------------
(* Counters are numbers. *)
LEMMA CountType ==
    ASSUME AccessTypes, NEW k
    PROVE  Count(k) \in Nat
BY DEF AccessTypes, Count, Keys

(* What one more drop adds. *)
LEMMA DropsGrow ==
    ASSUME AccessTypes, NEW d \in KeySet, evicted' = Append(evicted, d), NEW k
    PROVE  /\ Cardinality(Drops(k)) \in Nat
           /\ Cardinality(Drops(k)') = IF d = k THEN Cardinality(Drops(k)) + 1
                                                ELSE Cardinality(Drops(k))
<1>0. evicted \in Seq(KeySet) /\ DOMAIN evicted = 1 .. Len(evicted) /\ Len(evicted) \in Nat
  BY DEF AccessTypes
<1>1. /\ DOMAIN evicted' = 1 .. Len(evicted) + 1 /\ evicted'[Len(evicted) + 1] = d
      /\ \A i \in 1 .. Len(evicted) : evicted'[i] = evicted[i]
  BY <1>0
<1> DEFINE A == Drops(k)
<1>2. A \subseteq DOMAIN evicted
  BY DEF Drops
<1>3. IsFiniteSet(A) /\ Cardinality(A) \in Nat
  BY <1>0, <1>2, IndexSets
<1>4. Len(evicted) + 1 \notin A
  BY <1>0, <1>2
<1>5. CASE d = k
  <2>1. A' = A \cup {Len(evicted) + 1}
    BY <1>0, <1>1, <1>5 DEF Drops
  <2> HIDE DEF A
  <2>2. Cardinality(A \cup {Len(evicted) + 1}) = Cardinality(A) + 1
    BY <1>3, <1>4, FS_AddElement
  <2> QED
    BY <1>3, <1>5, <2>1, <2>2 DEF A
<1>6. CASE d # k
  <2>1. A' = A
    BY <1>0, <1>1, <1>6 DEF Drops
  <2> HIDE DEF A
  <2> QED
    BY <1>3, <1>6, <2>1 DEF A
<1> QED
  BY <1>5, <1>6

(* A counted connection is the counter's own. *)
LEMMA AdmitsCounts ==
    ASSUME AccessTypes, NEW l0 \in Ports, NEW n0 \in Nodes, NEW r, NEW counted,
           Admits(l0, n0, r, counted), NEW l \in Ports, NEW n \in Nodes, NEW w \in Nat
    PROVE  LET hit == l = l0 /\ n = n0 /\ w = now \div policy[l].connWindow
           IN  /\ hit /\ counted => /\ Count(CKey(l, n, w))' = Count(CKey(l, n, w)) + 1
                                    /\ r.out \in Counted
               /\ ~(hit /\ counted) => Count(CKey(l, n, w))' = Count(CKey(l, n, w))
               /\ hit /\ r.out = "allow" /\ policy[l].connRate # 0
                     => counted /\ Count(CKey(l, n, w)) + 1 <= policy[l].connRate
<1> DEFINE hit == l = l0 /\ n = n0 /\ w = now \div policy[l].connWindow
           k == CKey(l, n, w)
<1>1. \A t, l2 : k # WKey(t, l2)
  BY KeysDiffer
<1>2. CounterKey(l0, n0) = CKey(l0, n0, now \div policy[l0].connWindow)
  BY DEF CounterKey, CKey, Window
<1>3. k = CounterKey(l0, n0) <=> hit
  BY <1>2, KeysDiffer
<1>4. Count(k)' = IF counted /\ k = CounterKey(l0, n0) THEN Count(k) + 1 ELSE Count(k)
  BY <1>1 DEF Admits
<1>5. Count(k) \in Nat /\ policy[l].connRate \in Nat
  BY CountType, PolicyFacts
<1>6. hit => /\ counted => r.out \in Counted
             /\ r.out = "allow" /\ policy[l].connRate # 0
                  => counted /\ ~(Count(k) + 1 > policy[l].connRate)
  BY <1>3 DEF Admits
<1> HIDE DEF k, hit
<1>7. /\ hit /\ counted => Count(k)' = Count(k) + 1
      /\ ~(hit /\ counted) => Count(k)' = Count(k)
  BY <1>3, <1>4
<1> QED
  BY <1>5, <1>6, <1>7 DEF k, hit

(* A call of access() keeps the counters behind, and covered. *)
LEMMA AccessCounts ==
    ASSUME AccessTypes, NEW l0 \in Ports, NEW n0 \in Nodes, access(l0, n0),
           NEW l \in Ports, NEW n \in Nodes, NEW w \in Nat, Behind(l, n, w), Covered(l, n, w)
    PROVE  Behind(l, n, w)' /\ Covered(l, n, w)'
<1>1. PICK r, counted : Admits(l0, n0, r, counted)
  BY AccessEffect
<1>2. /\ r \in Conn /\ r.port = l0 /\ r.node = n0 /\ r.at = now /\ conns' = Append(conns, r)
      /\ evicted' = evicted
  BY <1>1 DEF Admits
<1>3. PICK k, hit : /\ k = CKey(l, n, w)
                    /\ hit <=> l = l0 /\ n = n0 /\ w = now \div policy[l].connWindow
  <2>1. \E x : x <=> l = l0 /\ n = n0 /\ w = now \div policy[l].connWindow
    BY Zenon
  <2> QED
    BY <2>1
<1>4. /\ hit /\ counted => Count(k)' = Count(k) + 1 /\ r.out \in Counted
      /\ ~(hit /\ counted) => Count(k)' = Count(k)
      /\ hit /\ r.out = "allow" /\ policy[l].connRate # 0
            => counted /\ Count(k) + 1 <= policy[l].connRate
  BY <1>1, <1>3, AdmitsCounts
<1>5. Count(k) \in Nat /\ policy[l].connRate \in Nat
  BY CountType, PolicyFacts
<1> DEFINE H == Hits(l, n, w, Counted)
           A == Hits(l, n, w, {"allow"})
<1>6. /\ Cardinality(H) \in Nat
      /\ hit /\ r.out \in Counted => Cardinality(H') = Cardinality(H) + 1
      /\ ~(hit /\ r.out \in Counted) => Cardinality(H') = Cardinality(H)
  BY <1>2, <1>3, HitsGrow
<1>7. /\ Cardinality(A) \in Nat
      /\ hit /\ r.out = "allow" => Cardinality(A') = Cardinality(A) + 1
      /\ ~(hit /\ r.out = "allow") => Cardinality(A') = Cardinality(A)
  BY <1>2, <1>3, HitsGrow
<1> HIDE DEF H, A
<1>8. Count(k) <= Cardinality(H)
  BY <1>3 DEF Behind, H
<1>9. Count(k)' <= Cardinality(H')
  BY <1>4, <1>5, <1>6, <1>8
<1>10. Behind(l, n, w)'
  BY <1>3, <1>9 DEF Behind, H
<1>11. Covered(l, n, w)'
  <2> SUFFICES ASSUME policy[l].connRate # 0 PROVE Covered(l, n, w)'
    BY DEF Covered
  <2>1. PICK paid : paid = policy[l].connRate * Cardinality(Drops(k))
    OBVIOUS
  <2>2. paid \in Int
    <3>1. Drops(k) \subseteq DOMAIN evicted
      BY DEF Drops
    <3>2. Cardinality(Drops(k)) \in Nat
      BY <3>1, IndexSets DEF AccessTypes
    <3> QED
      BY <1>5, <2>1, <3>2
  <2>3. Drops(k)' = Drops(k)
    BY <1>2 DEF Drops
  <2>4. Cardinality(A) <= paid + Count(k) /\ Cardinality(A) <= paid + policy[l].connRate
    BY <1>3, <2>1 DEF Covered, A
  <2>5. Cardinality(A') <= paid + Count(k)' /\ Cardinality(A') <= paid + policy[l].connRate
    <3>1. CASE hit /\ r.out = "allow"
      BY <1>4, <1>5, <1>7, <2>2, <2>4, <3>1
    <3>2. CASE ~(hit /\ r.out = "allow")
      BY <1>4, <1>5, <1>7, <2>2, <2>4, <3>2
    <3> QED
      BY <3>1, <3>2
  <2> QED
    BY <1>3, <2>1, <2>3, <2>5 DEF Covered, A
<1> QED
  BY <1>10, <1>11

(* So does an eviction: the next rate's worth is paid for by the drop. *)
LEMMA EvictCounts ==
    ASSUME AccessTypes, Evict,
           NEW l \in Ports, NEW n \in Nodes, NEW w \in Nat, Behind(l, n, w), Covered(l, n, w)
    PROVE  Behind(l, n, w)' /\ Covered(l, n, w)'
<1>1. PICK d \in DOMAIN dict :
              /\ evicted' = Append(evicted, d)
              /\ \A x : Count(x)' = IF x = d THEN 0 ELSE Count(x)
              /\ UNCHANGED conns
  BY EvictEffect
<1>2. d \in KeySet
  BY DEF AccessTypes
<1>3. PICK k : k = CKey(l, n, w)
  OBVIOUS
<1>4. Count(k) \in Nat /\ policy[l].connRate \in Nat
  BY CountType, PolicyFacts
<1>5. /\ Cardinality(Drops(k)) \in Nat
      /\ Cardinality(Drops(k)') = IF d = k THEN Cardinality(Drops(k)) + 1
                                           ELSE Cardinality(Drops(k))
  BY <1>1, <1>2, DropsGrow
<1> DEFINE H == Hits(l, n, w, Counted)
           A == Hits(l, n, w, {"allow"})
<1>6. H' = H /\ A' = A
  BY <1>1 DEF Hits
<1>7. Cardinality(H) \in Nat /\ Cardinality(A) \in Nat
  <2>1. H \subseteq DOMAIN conns /\ A \subseteq DOMAIN conns
    BY DEF Hits
  <2> QED
    BY <2>1, IndexSets DEF AccessTypes
<1> HIDE DEF H, A
<1>8. Count(k)' = IF k = d THEN 0 ELSE Count(k)
  BY <1>1
<1>9. Count(k) <= Cardinality(H)
  BY <1>3 DEF Behind, H
<1>10. Count(k)' <= Cardinality(H')
  BY <1>4, <1>6, <1>7, <1>8, <1>9
<1>11. Behind(l, n, w)'
  BY <1>3, <1>10 DEF Behind, H
<1>12. Covered(l, n, w)'
  <2> SUFFICES ASSUME policy[l].connRate # 0 PROVE Covered(l, n, w)'
    BY DEF Covered
  <2>1. PICK paid, more : /\ paid = policy[l].connRate * Cardinality(Drops(k))
                          /\ more = policy[l].connRate * Cardinality(Drops(k)')
    OBVIOUS
  <2>2. paid \in Int /\ more = IF d = k THEN paid + policy[l].connRate ELSE paid
    <3>1. PICK c, q : c = Cardinality(Drops(k)) /\ q = policy[l].connRate
      OBVIOUS
    <3>2. c \in Nat /\ q \in Nat
      BY <1>4, <1>5, <3>1
    <3>3. q * (c + 1) = q * c + q /\ q * c \in Int
      BY <3>2
    <3> QED
      BY <1>5, <2>1, <3>1, <3>3
  <2>4. Cardinality(A) <= paid + Count(k) /\ Cardinality(A) <= paid + policy[l].connRate
    BY <1>3, <2>1 DEF Covered, A
  <2>5. Cardinality(A') <= more + Count(k)' /\ Cardinality(A') <= more + policy[l].connRate
    BY <1>4, <1>6, <1>7, <1>8, <2>2, <2>4
  <2> QED
    BY <1>3, <2>1, <2>5 DEF Covered, A
<1> QED
  BY <1>11, <1>12

-------------------------------------------------------------------------------
(* A warning that was logged before a connection was logged before it      *)
(* whatever comes next.                                                    *)
LEMMA WarnedStays ==
    ASSUME warned \subseteq [port : Ports, at : Nat], warned \subseteq warned',
           NEW i \in Nat, NEW j \in Nat, i <= j, NEW l,
           \E x \in warned : x.port = l /\ x.at <= i
    PROVE  \E x \in warned' : x.port = l /\ x.at <= j
<1>1. PICK x \in warned : x.port = l /\ x.at <= i
  OBVIOUS
<1>2. x \in [port : Ports, at : Nat]
  BY <1>1
<1>3. x.at \in Nat
  BY <1>2
<1>4. x.at <= j /\ x \in warned'
  BY <1>1, <1>3
<1> QED
  BY <1>1, <1>4

(* A call of access() that meets one of the two troubles has warned. *)
LEMMA AccessWarns ==
    ASSUME AccessTypes, Gated, NEW l \in Ports, NEW n \in Nodes, access(l, n)
    PROVE  /\ warned' \subseteq [port : Ports, at : Nat] /\ warned \subseteq warned'
           /\ Len(conns') = Len(conns) + 1
           /\ Trouble(l) # "none" => \E x \in warned' : x.port = l /\ x.at <= Len(conns')
           /\ \A t, l2 : WKey(t, l2) \in DOMAIN dict' \ DOMAIN dict
                            => l2 = l /\ Trouble(l) # "none"
<1>0. conns \in Seq(Conn) /\ Len(conns) \in Nat /\ warned \subseteq [port : Ports, at : Nat]
  BY DEF AccessTypes, Gated
<1>1. Len(conns') = Len(conns) + 1
  BY <1>0 DEF access
<1> DEFINE w == Warn(l)
           c == CounterKey(l, n)
<1>2. /\ dict' = w.dict \/ dict' = With(w.dict, c, Count(c) + 1)
      /\ warned' = warned \cup {[port |-> l, at |-> Len(conns')] : s \in w.said}
  BY DEF access
<1>3. [port |-> l, at |-> Len(conns')] \in [port : Ports, at : Nat]
  BY <1>0, <1>1
<1>4. \A t, l2 : c # WKey(t, l2)
  BY DEF CounterKey, WKey
<1>5. CASE Trouble(l) # "none" /\ WKey(Trouble(l), l) \notin DOMAIN dict
  <2>1. w = [dict |-> With(dict, WKey(Trouble(l), l), 1), said |-> {Trouble(l)}]
    BY <1>5 DEF Warn, WarnKey, WKey, Keys
  <2>2. w.dict = With(dict, WKey(Trouble(l), l), 1) /\ w.said = {Trouble(l)}
    BY <2>1
  <2> HIDE DEF w, c
  <2>3. warned' = warned \cup {[port |-> l, at |-> Len(conns')]}
    BY <1>2, <2>2
  <2>4. DOMAIN dict' \subseteq DOMAIN dict \cup {WKey(Trouble(l), l), c}
    BY <1>2, <2>2 DEF With
  <2>5. \A t, l2 : WKey(t, l2) \in DOMAIN dict' \ DOMAIN dict => l2 = l
    BY <1>4, <2>4, KeysDiffer
  <2>6. PICK x : x = [port |-> l, at |-> Len(conns')]
    OBVIOUS
  <2>7. x \in warned' /\ x.port = l /\ x.at <= Len(conns')
    BY <1>0, <1>1, <2>3, <2>6
  <2> QED
    BY <1>0, <1>1, <1>3, <1>5, <2>3, <2>5, <2>7
<1>6. CASE ~(Trouble(l) # "none" /\ WKey(Trouble(l), l) \notin DOMAIN dict)
  <2>1. w = [dict |-> dict, said |-> {}]
    BY <1>6 DEF Warn, WarnKey, WKey, Keys
  <2>2. w.dict = dict /\ w.said = {}
    BY <2>1
  <2> HIDE DEF w, c
  <2>3. warned' = warned
    BY <1>2, <2>2
  <2>4. DOMAIN dict' \subseteq DOMAIN dict \cup {c}
    BY <1>2, <2>2 DEF With
  <2>5. \A t, l2 : WKey(t, l2) \notin DOMAIN dict' \ DOMAIN dict
    BY <1>4, <2>4
  <2>6. Trouble(l) # "none" => \E x \in warned' : x.port = l /\ x.at <= Len(conns')
    <3> SUFFICES ASSUME Trouble(l) # "none"
                 PROVE  \E x \in warned' : x.port = l /\ x.at <= Len(conns')
      OBVIOUS
    <3>1. Trouble(l) \in {"nobanfile", "banload"}
      BY DEF Trouble
    <3>2. \E x \in warned : x.port = l /\ x.at <= Len(conns)
      BY <1>6, <3>1 DEF Gated
    <3>3. Len(conns) <= Len(conns') /\ Len(conns') \in Nat
      BY <1>0, <1>1
    <3> QED
      BY <1>0, <2>3, <3>2, <3>3, WarnedStays
  <2> QED
    BY <1>0, <1>1, <2>3, <2>5, <2>6
<1> QED
  BY <1>5, <1>6

(* The gates, every step. *)
LEMMA GatedStep ==
    ASSUME AccessTypes, Gated, [Next]_vars
    PROVE  Gated'
<1>0. Len(conns) \in Nat /\ warned \subseteq [port : Ports, at : Nat]
  BY DEF AccessTypes, Gated
<1>1. ASSUME NEW l \in Ports, NEW n \in Nodes, access(l, n) PROVE Gated'
  <2>1. /\ warned' \subseteq [port : Ports, at : Nat] /\ warned \subseteq warned'
        /\ Len(conns') = Len(conns) + 1
        /\ Trouble(l) # "none" => \E x \in warned' : x.port = l /\ x.at <= Len(conns')
        /\ \A t, l2 : WKey(t, l2) \in DOMAIN dict' \ DOMAIN dict
                            => l2 = l /\ Trouble(l) # "none"
    BY <1>1, AccessWarns
  <2>2. ASSUME NEW t \in {"nobanfile", "banload"}, NEW l2 \in Ports, WKey(t, l2) \in DOMAIN dict'
        PROVE  \E x \in warned' : x.port = l2 /\ x.at <= Len(conns')
    <3>1. CASE WKey(t, l2) \in DOMAIN dict
      <4>1. \E x \in warned : x.port = l2 /\ x.at <= Len(conns)
        BY <3>1 DEF Gated
      <4>2. Len(conns) <= Len(conns') /\ Len(conns') \in Nat
        BY <1>0, <2>1
      <4> QED
        BY <1>0, <2>1, <4>1, <4>2, WarnedStays
    <3>2. CASE WKey(t, l2) \notin DOMAIN dict
      BY <2>1, <2>2, <3>2
    <3> QED
      BY <3>1, <3>2
  <2> QED
    BY <2>1, <2>2 DEF Gated
<1>2. CASE Evict
  <2>1. DOMAIN dict' \subseteq DOMAIN dict /\ UNCHANGED <<conns, warned>>
    BY <1>2, EvictEffect
  <2> QED
    BY <2>1 DEF Gated
<1>3. CASE BanlistChange \/ Tick \/ UNCHANGED vars
  BY <1>3 DEF BanlistChange, Tick, vars, Gated
<1> QED
  BY <1>1, <1>2, <1>3 DEF Next

(* The ways the banlist can be found. *)
ListKnown == list \in {"whole", "gone", "unreadable"}

(* Whoever is listed and gets in got in past a warning, or while the list  *)
(* was there and could not be read.                                        *)
LEMMA SaidStep ==
    ASSUME AccessTypes, Gated, ListKnown, MissingListIsSaid, [Next]_vars
    PROVE  MissingListIsSaid'
<1>0. conns \in Seq(Conn) /\ Len(conns) \in Nat /\ warned \subseteq [port : Ports, at : Nat]
      /\ DOMAIN conns = 1 .. Len(conns)
  BY DEF AccessTypes, Gated
<1>1. ASSUME NEW l \in Ports, NEW n \in Nodes, access(l, n) PROVE MissingListIsSaid'
  <2>1. /\ warned \subseteq warned' /\ Len(conns') = Len(conns) + 1
        /\ Trouble(l) # "none" => \E x \in warned' : x.port = l /\ x.at <= Len(conns')
    BY <1>1, AccessWarns
  <2> DEFINE outcome == IF isBanned(l, n) THEN "banned"
                        ELSE IF policy[l].connRate # 0 /\ Exceeds(l, n) THEN "conn-rate"
                        ELSE "allow"
             unread == policy[l].banFile /\ list = "unreadable"
             r == [port |-> l, node |-> n, at |-> now, listed |-> n \in banned,
                   unread |-> unread, out |-> outcome]
  <2>2. conns' = Append(conns, r) /\ (outcome = "allow" => ~isBanned(l, n))
    BY <1>1 DEF access
  <2>3. /\ conns'[Len(conns) + 1].port = l /\ conns'[Len(conns) + 1].listed = (n \in banned)
        /\ conns'[Len(conns) + 1].unread = unread
        /\ conns'[Len(conns) + 1].out = outcome /\ DOMAIN conns' = 1 .. Len(conns) + 1
        /\ \A i \in 1 .. Len(conns) : conns'[i] = conns[i]
    BY <1>0, <2>2
  <2> HIDE DEF outcome
  <2>4. ASSUME NEW i \in DOMAIN conns', conns'[i].listed, conns'[i].out = "allow",
               ~conns'[i].unread
        PROVE  \E x \in warned' : x.port = conns'[i].port /\ x.at <= i
    <3>1. CASE i \in 1 .. Len(conns)
      <4>1. \E x \in warned : x.port = conns[i].port /\ x.at <= i
        BY <1>0, <2>3, <2>4, <3>1 DEF MissingListIsSaid, Warned
      <4>2. i \in Nat /\ i <= i /\ conns'[i] = conns[i]
        BY <2>3, <3>1
      <4> QED
        BY <1>0, <2>1, <4>1, <4>2, WarnedStays
    <3>2. CASE i = Len(conns) + 1
      <4>1. n \in banned /\ ~isBanned(l, n) /\ ~unread
        BY <2>2, <2>3, <2>4, <3>2
      <4>2. Trouble(l) # "none"
        BY <4>1 DEF isBanned, Trouble, ListKnown
      <4> QED
        BY <2>1, <2>3, <3>2, <4>2
    <3> QED
      BY <1>0, <2>3, <2>4, <3>1, <3>2
  <2> QED
    BY <2>4 DEF MissingListIsSaid, Warned
<1>2. CASE Evict \/ BanlistChange \/ Tick \/ UNCHANGED vars
  BY <1>2 DEF Evict, BanlistChange, Tick, vars, MissingListIsSaid, Warned
<1> QED
  BY <1>1, <1>2 DEF Next

-------------------------------------------------------------------------------
(* The connections a refusal of connection i rests on. *)
Own(i, l, n, t, u) == {j \in Between(l, n, {"allow", "conn-rate"}, t, u) : j <= i}

(* A refusal: the counter was at the rate, and it is behind. *)
LEMMA RefusedStep ==
    ASSUME AccessTypes, \A l \in Ports, n \in Nodes, w \in Nat : Behind(l, n, w),
           RefusedOnlyOverOwnRate, [Next]_vars
    PROVE  RefusedOnlyOverOwnRate'
<1>0. conns \in Seq(Conn) /\ Len(conns) \in Nat /\ DOMAIN conns = 1 .. Len(conns) /\ now \in Nat
      /\ \A i \in 1 .. Len(conns) : conns[i].at <= now
  BY DEF AccessTypes
<1>1. ASSUME NEW l \in Ports, NEW n \in Nodes, access(l, n) PROVE RefusedOnlyOverOwnRate'
  <2>1. PICK r, counted : Admits(l, n, r, counted)
    BY <1>1, AccessEffect
  <2>2. /\ r \in Conn /\ r.port = l /\ r.node = n /\ r.at = now /\ conns' = Append(conns, r)
        /\ r.out = "conn-rate" => Count(CounterKey(l, n)) + 1 > policy[l].connRate
    BY <2>1 DEF Admits
  <2>3. /\ DOMAIN conns' = 1 .. Len(conns) + 1 /\ conns'[Len(conns) + 1] = r
        /\ \A i \in 1 .. Len(conns) : conns'[i] = conns[i]
        /\ conns' \in Seq(Conn)
    BY <1>0, <2>2
  <2>4. ASSUME NEW i \in DOMAIN conns', conns'[i].out = "conn-rate",
               NEW m, NEW o, NEW a, NEW t, m = conns'[i].port, o = conns'[i].node,
               a = conns'[i].at, t = (a \div policy[m].connWindow) * policy[m].connWindow
        PROVE  Cardinality(Own(i, m, o, t, a)') > policy[m].connRate
    <3>1. CASE i \in 1 .. Len(conns)
      <4>1. conns'[i] = conns[i]
        BY <2>3, <3>1
      <4>2. Cardinality(Own(i, m, o, t, a)) > policy[m].connRate
        BY <1>0, <2>4, <3>1, <4>1 DEF RefusedOnlyOverOwnRate, Own
      <4>3. Own(i, m, o, t, a)' = Own(i, m, o, t, a)
        BY <1>0, <2>3, <3>1 DEF Own, Between
      <4> QED
        BY <4>2, <4>3
    <3>2. CASE i = Len(conns) + 1
      <4>1. m = l /\ o = n /\ a = now /\ r.out = "conn-rate"
        BY <2>2, <2>3, <2>4, <3>2
      <4>2. PICK w : w = now \div policy[l].connWindow
        OBVIOUS
      <4>3. /\ policy[l].connWindow \in Nat \ {0} /\ policy[l].connRate \in Nat /\ w \in Nat
            /\ t = w * policy[l].connWindow
        BY <1>0, <2>4, <4>1, <4>2, PolicyFacts, DivFacts
      <4>4. CounterKey(l, n) = CKey(l, n, w)
        BY <4>2 DEF CounterKey, CKey, Window
      <4>5. Count(CKey(l, n, w)) + 1 > policy[l].connRate /\ Count(CKey(l, n, w)) \in Nat
        BY <2>2, <4>1, <4>4, CountType
      <4>6. Count(CKey(l, n, w)) <= Cardinality(Hits(l, n, w, Counted))
        BY <4>3 DEF Behind
      <4>7. /\ Cardinality(Hits(l, n, w, Counted)) \in Nat
            /\ Cardinality(Hits(l, n, w, Counted)') = Cardinality(Hits(l, n, w, Counted)) + 1
        <5>1. r.port = l /\ r.node = n /\ r.out \in Counted
              /\ r.at \div policy[l].connWindow = w
          BY <2>2, <4>1, <4>2 DEF Counted
        <5> QED
          BY <2>2, <5>1, HitsGrow
      <4>8. Hits(l, n, w, Counted)' \subseteq Own(i, m, o, t, a)'
        <5>1. ASSUME NEW j \in Hits(l, n, w, Counted)'
              PROVE  j \in Own(i, m, o, t, a)'
          <6>1. /\ j \in DOMAIN conns' /\ conns'[j].port = l /\ conns'[j].node = n
                /\ conns'[j].out \in {"allow", "conn-rate"}
                /\ conns'[j].at \div policy[l].connWindow = w
            BY DEF Hits, Counted
          <6>2. j \in 1 .. Len(conns) \/ j = Len(conns) + 1
            BY <1>0, <2>3, <6>1
          <6>3. conns'[j].at <= now
            BY <1>0, <2>2, <2>3, <6>2
          <6>4. conns'[j].at \in Nat
            <7>1. conns'[j] \in Conn
              BY <2>3, <6>1
            <7> QED
              BY <7>1 DEF Conn
          <6>5. t <= conns'[j].at
            <7>1. PICK x : x = conns'[j].at
              OBVIOUS
            <7>2. x \in Nat /\ x \div policy[l].connWindow = w
              BY <6>1, <6>4, <7>1
            <7> QED
              BY <4>3, <7>1, <7>2, DivFacts
          <6>6. t \in Nat
            BY <4>3
          <6>7. conns'[j].at \in t .. a /\ j <= i
            BY <1>0, <3>2, <4>1, <6>2, <6>3, <6>4, <6>5, <6>6
          <6> QED
            BY <4>1, <6>1, <6>7 DEF Own, Between
        <5> QED
          BY <5>1
      <4>9. PICK A, B : A = Hits(l, n, w, Counted)' /\ B = Own(i, m, o, t, a)'
        OBVIOUS
      <4>10. A \subseteq B /\ B \subseteq DOMAIN conns'
        BY <4>8, <4>9 DEF Own, Between
      <4>11. IsFiniteSet(B) /\ Cardinality(B) \in Nat
        BY <2>3, <4>10, IndexSets
      <4>12. Cardinality(A) <= Cardinality(B)
        BY <4>10, <4>11, FS_Subset
      <4>13. Cardinality(A) > policy[l].connRate /\ Cardinality(A) \in Nat
        BY <4>3, <4>5, <4>6, <4>7, <4>9
      <4> QED
        BY <4>1, <4>3, <4>9, <4>11, <4>12, <4>13
    <3> QED
      BY <1>0, <2>3, <2>4, <3>1, <3>2
  <2> QED
    BY <2>4 DEF RefusedOnlyOverOwnRate, Own, Between
<1>2. CASE Evict \/ BanlistChange \/ Tick \/ UNCHANGED vars
  <2>1. UNCHANGED conns
    BY <1>2 DEF Evict, BanlistChange, Tick, vars
  <2> QED
    BY <2>1 DEF RefusedOnlyOverOwnRate, Between
<1> QED
  BY <1>1, <1>2 DEF Next

-------------------------------------------------------------------------------
(* The inductive invariant. *)
Kept == \A l \in Ports, n \in Nodes, w \in Nat : Behind(l, n, w) /\ Covered(l, n, w)

AccessInv ==
    AccessTypes /\ Gated /\ ListKnown /\ Kept /\ MissingListIsSaid /\ RefusedOnlyOverOwnRate

(* The accept stage starts with it, and every step keeps it. *)
LEMMA AccessInvHolds == Spec => []AccessInv
<1>1. Init => AccessInv
  <2> SUFFICES ASSUME Init PROVE AccessInv
    OBVIOUS
  <2>1. /\ dict = [k \in {} |-> 0] /\ DOMAIN dict = {} /\ now = 0 /\ conns = <<>>
        /\ warned = {} /\ evicted = <<>> /\ list = "whole"
    BY DEF Init
  <2>2. AccessTypes
    BY <2>1 DEF AccessTypes
  <2>3. Gated
    BY <2>1 DEF Gated
  <2>4. ListKnown /\ MissingListIsSaid /\ RefusedOnlyOverOwnRate
    BY <2>1 DEF ListKnown, MissingListIsSaid, RefusedOnlyOverOwnRate
  <2>5. ASSUME NEW l \in Ports, NEW n \in Nodes, NEW w \in Nat
        PROVE  Behind(l, n, w) /\ Covered(l, n, w)
    <3>1. /\ Hits(l, n, w, Counted) = {} /\ Hits(l, n, w, {"allow"}) = {}
          /\ Drops(CKey(l, n, w)) = {} /\ Count(CKey(l, n, w)) = 0
      BY <2>1 DEF Hits, Drops, Count, Keys
    <3>2. Cardinality({}) = 0
      BY FS_EmptySet
    <3>3. policy[l].connRate \in Nat
      BY PolicyFacts
    <3>4. policy[l].connRate * 0 = 0
      BY <3>3
    <3>5. Behind(l, n, w)
      BY <3>1, <3>2 DEF Behind
    <3>6. PICK q : q = policy[l].connRate
      OBVIOUS
    <3>7. 0 <= q * 0 + 0 /\ 0 <= q * 0 + q
      BY <3>3, <3>4, <3>6
    <3>8. Covered(l, n, w)
      BY <3>1, <3>2, <3>6, <3>7 DEF Covered
    <3> QED
      BY <3>5, <3>8
  <2> QED
    BY <2>2, <2>3, <2>4, <2>5 DEF AccessInv, Kept
<1>2. AccessInv /\ [Next]_vars => AccessInv'
  <2> SUFFICES ASSUME AccessInv, [Next]_vars PROVE AccessInv'
    OBVIOUS
  <2>0. AccessTypes /\ Gated /\ ListKnown /\ Kept /\ MissingListIsSaid
        /\ RefusedOnlyOverOwnRate
    BY DEF AccessInv
  <2>1. AccessTypes' /\ Gated'
    BY <2>0, AccessTypesStep, GatedStep
  <2>2. MissingListIsSaid' /\ RefusedOnlyOverOwnRate'
    BY <2>0, SaidStep, RefusedStep DEF Kept
  <2>4. ListKnown'
    BY <2>0 DEF ListKnown, Next, access, Evict, BanlistChange, Tick, vars
  <2>3. ASSUME NEW l \in Ports, NEW n \in Nodes, NEW w \in Nat
        PROVE  Behind(l, n, w)' /\ Covered(l, n, w)'
    <3>0. Behind(l, n, w) /\ Covered(l, n, w)
      BY <2>0 DEF Kept
    <3>1. CASE Evict
      BY <2>0, <3>0, <3>1, EvictCounts
    <3>2. CASE \E l0 \in Ports, n0 \in Nodes : access(l0, n0)
      BY <2>0, <3>0, <3>2, AccessCounts
    <3>3. CASE BanlistChange \/ Tick \/ UNCHANGED vars
      <4>1. UNCHANGED <<dict, conns, evicted>>
        BY <3>3 DEF BanlistChange, Tick, vars
      <4>2. /\ Hits(l, n, w, Counted)' = Hits(l, n, w, Counted)
            /\ Hits(l, n, w, {"allow"})' = Hits(l, n, w, {"allow"})
            /\ Drops(CKey(l, n, w))' = Drops(CKey(l, n, w))
            /\ Count(CKey(l, n, w))' = Count(CKey(l, n, w))
        BY <4>1 DEF Hits, Drops, Count, Keys, CKey
      <4> QED
        BY <3>0, <4>2 DEF Behind, Covered
    <3> QED
      BY <3>1, <3>2, <3>3 DEF Next
  <2> QED
    BY <2>1, <2>2, <2>3, <2>4 DEF AccessInv, Kept
<1> QED
  BY <1>1, <1>2, PTL DEF Spec

(* Without a banlist, and with one that is missing, no listed node gets in *)
(* without a word about that listener, for every policy and every schedule *)
(* of connections, evictions and changes of the banlist.                   *)
THEOREM MissingListWarned == Spec => []MissingListIsSaid
<1>1. AccessInv => MissingListIsSaid
  BY DEF AccessInv
<1> QED
  BY <1>1, AccessInvHolds, PTL

(* A node is refused for its rate only over the rate of that listener, in  *)
(* that window, whatever it or others do elsewhere.                        *)
THEOREM RefusedOverOwnRate == Spec => []RefusedOnlyOverOwnRate
<1>1. AccessInv => RefusedOnlyOverOwnRate
  BY DEF AccessInv
<1> QED
  BY <1>1, AccessInvHolds, PTL

(* In any stretch of time as long as a window, a node gets in at most      *)
(* twice the rate, plus as much for every time a counter of its was        *)
(* dropped: for every rate, window, stretch and number of evictions.       *)
THEOREM AcceptedInTwoWindows == Spec => []AcceptedBound
<1>1. AccessInv => AcceptedBound
  <2> SUFFICES ASSUME AccessInv, NEW l \in Ports, NEW n \in Nodes, NEW t \in 0 .. MaxTime,
                      policy[l].connRate # 0
               PROVE  Cardinality(Between(l, n, {"allow"}, t, t + policy[l].connWindow - 1))
                        <= policy[l].connRate *
                             (2 + Cardinality({i \in DOMAIN evicted :
                                evicted[i][1] = "conn" /\ evicted[i][2] = l
                                   /\ evicted[i][3] = n}))
    BY DEF AcceptedBound
  <2>0. AccessTypes /\ Kept
    BY DEF AccessInv
  <2>1. /\ conns \in Seq(Conn) /\ evicted \in Seq(KeySet) /\ t \in Nat
        /\ \A i \in DOMAIN conns : conns[i] \in Conn
    <3>1. MaxTime \in Nat
      BY AccessAssumption
    <3> QED
      BY <2>0, <3>1 DEF AccessTypes
  <2>2. PICK W, q, rate : /\ W = policy[l].connWindow /\ q = t \div W
                          /\ rate = policy[l].connRate
    OBVIOUS
  <2>3. W \in Nat \ {0} /\ rate \in Nat /\ q \in Nat
    BY <2>1, <2>2, PolicyFacts, DivFacts
  <2> DEFINE all == {i \in DOMAIN evicted : evicted[i][1] = "conn" /\ evicted[i][2] = l
                                               /\ evicted[i][3] = n}
             d1 == Drops(CKey(l, n, q))
             d2 == Drops(CKey(l, n, q + 1))
             h1 == Hits(l, n, q, {"allow"})
             h2 == Hits(l, n, q + 1, {"allow"})
             in == Between(l, n, {"allow"}, t, t + W - 1)
  <2>4. in \subseteq h1 \cup h2
    <3> SUFFICES ASSUME NEW i \in in PROVE i \in h1 \cup h2
      OBVIOUS
    <3>1. /\ i \in DOMAIN conns /\ conns[i].port = l /\ conns[i].node = n
          /\ conns[i].out \in {"allow"} /\ conns[i].at \in t .. t + W - 1
      BY DEF Between
    <3>2. PICK x : x = conns[i].at
      OBVIOUS
    <3>3. x \in t .. t + W - 1
      BY <3>1, <3>2
    <3>4. x \div W = q \/ x \div W = q + 1
      BY <2>1, <2>2, <2>3, <3>3, TwoWindows
    <3> QED
      BY <2>2, <3>1, <3>2, <3>4 DEF Hits
  <2>5. d1 \subseteq all /\ d2 \subseteq all /\ d1 \cap d2 = {}
    <3>1. d1 \cap d2 = {}
      <4>1. CKey(l, n, q) # CKey(l, n, q + 1)
        BY <2>3, KeysDiffer
      <4> QED
        BY <4>1 DEF Drops
    <3>2. \A w : /\ CKey(l, n, w)[1] = "conn" /\ CKey(l, n, w)[2] = l
                 /\ CKey(l, n, w)[3] = n
      BY DEF CKey
    <3> QED
      BY <3>1, <3>2 DEF Drops
  <2>6. /\ all \subseteq DOMAIN evicted /\ d1 \subseteq DOMAIN evicted /\ d2 \subseteq DOMAIN evicted
        /\ h1 \subseteq DOMAIN conns /\ h2 \subseteq DOMAIN conns /\ in \subseteq DOMAIN conns
    BY DEF Drops, Hits, Between
  <2>7. /\ Covered(l, n, q) /\ Covered(l, n, q + 1)
    BY <2>0, <2>3 DEF Kept
  <2>8. /\ Cardinality(h1) <= rate * Cardinality(d1) + rate
        /\ Cardinality(h2) <= rate * Cardinality(d2) + rate
    BY <2>2, <2>7 DEF Covered
  <2> HIDE DEF all, d1, d2, h1, h2, in
  <2>9. /\ IsFiniteSet(all) /\ Cardinality(all) \in Nat
        /\ IsFiniteSet(d1) /\ Cardinality(d1) \in Nat /\ IsFiniteSet(d2) /\ Cardinality(d2) \in Nat
    BY <2>1, <2>6, IndexSets
  <2>10. /\ IsFiniteSet(h1) /\ Cardinality(h1) \in Nat
         /\ IsFiniteSet(h2) /\ Cardinality(h2) \in Nat /\ Cardinality(in) \in Nat
    BY <2>1, <2>6, IndexSets
  <2>11. Cardinality(in) <= Cardinality(h1) + Cardinality(h2)
    <3>1. /\ IsFiniteSet(h1 \cup h2)
          /\ Cardinality(h1 \cup h2)
               = Cardinality(h1) + Cardinality(h2) - Cardinality(h1 \cap h2)
      BY <2>10, FS_Union
    <3>2. Cardinality(h1 \cap h2) \in Nat
      BY <2>10, FS_Intersection, FS_CardinalityType
    <3>3. Cardinality(in) <= Cardinality(h1 \cup h2)
      BY <2>4, <3>1, FS_Subset
    <3> QED
      BY <2>10, <3>1, <3>2, <3>3
  <2>12. Cardinality(d1) + Cardinality(d2) <= Cardinality(all)
    <3>1. Cardinality(d1 \cup d2)
            = Cardinality(d1) + Cardinality(d2) - Cardinality(d1 \cap d2)
      BY <2>9, FS_Union
    <3>2. Cardinality(d1 \cap d2) = 0
      BY <2>5, FS_EmptySet
    <3>3. Cardinality(d1 \cup d2) <= Cardinality(all)
      <4>1. d1 \cup d2 \subseteq all
        BY <2>5
      <4> QED
        BY <2>9, <4>1, FS_Subset
    <3> QED
      BY <2>9, <3>1, <3>2, <3>3
  <2>13. PICK x, y, z : x = Cardinality(d1) /\ y = Cardinality(d2) /\ z = Cardinality(all)
    OBVIOUS
  <2>14. x \in Nat /\ y \in Nat /\ z \in Nat /\ x + y <= z
    BY <2>9, <2>12, <2>13
  <2>15. Cardinality(in) <= (rate * x + rate) + (rate * y + rate)
    <3>1. PICK u, v : u = rate * x + rate /\ v = rate * y + rate
      OBVIOUS
    <3>2. u \in Int /\ v \in Int
      BY <2>3, <2>14, <3>1
    <3>3. Cardinality(h1) <= u /\ Cardinality(h2) <= v
      BY <2>8, <2>13, <3>1
    <3>4. Cardinality(in) <= u + v
      BY <2>10, <2>11, <3>2, <3>3
    <3> QED
      BY <3>1, <3>4
  <2>16. (rate * x + rate) + (rate * y + rate) = (2 + x + y) * rate
    BY <2>3, <2>14
  <2>17. (2 + x + y) * rate <= (2 + z) * rate
    BY <2>3, <2>14, MulMono
  <2>18. (2 + z) * rate = rate * (2 + z) /\ (2 + x + y) * rate \in Int /\ rate * (2 + z) \in Int
    BY <2>3, <2>14
  <2>19. PICK e, f : e = (2 + x + y) * rate /\ f = rate * (2 + z)
    OBVIOUS
  <2>20. e \in Int /\ f \in Int /\ e <= f /\ Cardinality(in) <= e
    BY <2>15, <2>16, <2>17, <2>18, <2>19
  <2>21. Cardinality(in) <= f
    BY <2>10, <2>20
  <2> QED
    BY <2>2, <2>13, <2>19, <2>21 DEF in, all
<1> QED
  BY <1>1, AccessInvHolds, PTL
===============================================================================
