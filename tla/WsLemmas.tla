------------------------------- MODULE WsLemmas -------------------------------
(***************************************************************************)
(* What the operators of the WebSocket engine compute, for every input:    *)
(* takeToken() to the unit, and checkFilters() for every list of filters.  *)
(* A recursive function is reasoned about by induction over the naturals;  *)
(* the induction is stated for a set, {n \in Nat : ...}, where the library *)
(* states it for a predicate.                                              *)
(***************************************************************************)
EXTENDS WsFilters, Buckets, FiniteSetTheorems, SequenceTheorems, WellFoundedInduction, TLAPS

(* Every set of naturals that is not empty has a least member. *)
LEMMA LeastNat ==
    ASSUME NEW T, T \subseteq Nat, T # {}
    PROVE  \E n \in T : \A m \in T : n <= m
<1>1. \E x \in T : \A y \in T : ~ (<<y, x>> \in OpToRel(<, Nat))
  BY NatLessThanWellFounded, WFMin
<1>2. PICK x \in T : \A y \in T : ~ (<<y, x>> \in OpToRel(<, Nat))
  BY <1>1
<1>3. ASSUME NEW y \in T PROVE ~(y < x)
  BY <1>2 DEF OpToRel
<1> QED
  BY <1>3

(* Induction, for a set instead of a predicate. *)
LEMMA NatInd ==
    ASSUME NEW T, 0 \in T, \A n \in Nat : n \in T => n + 1 \in T
    PROVE  Nat \subseteq T
<1> SUFFICES ASSUME Nat \ T # {} PROVE FALSE
  OBVIOUS
<1>1. PICK n \in Nat \ T : \A m \in Nat \ T : n <= m
  BY LeastNat
<1>2. n # 0 /\ n - 1 \in Nat
  BY <1>1
<1>3. n - 1 \in T
  BY <1>1, <1>2
<1>4. (n - 1) + 1 = n
  BY <1>2
<1> QED
  BY <1>1, <1>2, <1>3, <1>4

(* Joining and appending commute. *)
LEMMA ConcatAppend ==
    ASSUME NEW S, NEW s \in Seq(S), NEW t \in Seq(S), NEW x \in S
    PROVE  s \o Append(t, x) = Append(s \o t, x)
<1>1. s \o t \in Seq(S) /\ <<x>> \in Seq(S)
  OBVIOUS
<1>2. Append(t, x) = t \o <<x>> /\ Append(s \o t, x) = (s \o t) \o <<x>>
  BY <1>1, AppendIsConcat
<1> QED
  BY <1>1, <1>2, ConcatAssociative

-------------------------------------------------------------------------------
(* The token bucket. *)

(* refill() keeps the bucket's rate and size, never overfills it, and adds *)
(* at most what the rate earned since the bucket was last looked at.  It   *)
(* falls short of that only if something was added to the bucket, or has   *)
(* fallen short before, and never where the bucket runs over.              *)
LEMMA RefillBound ==
    ASSUME NEW bk \in BucketType, NEW n \in Int, NEW lost \in BOOLEAN
    PROVE  LET full == bk.tokens + (n - bk.t) * bk.rate
               cap == bk.burst * Token
               f == refill(bk, n, lost)
           IN  /\ f = [rate |-> bk.rate, burst |-> bk.burst,
                       tokens |-> IF full < cap THEN full ELSE cap,
                       short |-> f.short, t |-> n]
               /\ f \in BucketType
               /\ f.tokens <= cap /\ f.tokens <= full
               /\ f.short => bk.short \/ full # bk.tokens
               /\ f.short => full <= cap \/ full = bk.tokens
<1> DEFINE full == bk.tokens + (n - bk.t) * bk.rate
           cap == bk.burst * Token
           held == IF full < cap THEN full ELSE cap
           s == IF full = bk.tokens THEN bk.short
                ELSE lost /\ full <= cap /\ (bk.short \/ Rounds(bk, n))
           f == refill(bk, n, lost)
<1>1. /\ bk.rate \in Nat /\ bk.burst \in Nat /\ bk.short \in BOOLEAN
      /\ bk.tokens \in Int /\ bk.t \in Int
      /\ bk = [rate |-> bk.rate, burst |-> bk.burst, tokens |-> bk.tokens,
               short |-> bk.short, t |-> bk.t]
  BY DEF BucketType
<1>2. full \in Int
  BY <1>1
<1>3. cap \in Int
  BY <1>1 DEF Token
<1>4. f = [bk EXCEPT !.tokens = held, !.short = s, !.t = n]
  BY DEF refill, Capacity
<1>5. s \in BOOLEAN
  BY <1>1
<1>6. /\ s => bk.short \/ full # bk.tokens
      /\ s => full <= cap \/ full = bk.tokens
  OBVIOUS
<1> HIDE DEF full, cap, s, f
<1>7. held \in Int /\ held <= cap /\ held <= full
  BY <1>2, <1>3
<1> HIDE DEF held
<1>8. f = [rate |-> bk.rate, burst |-> bk.burst, tokens |-> held, short |-> s, t |-> n]
  BY <1>1, <1>4
<1>9. f \in BucketType /\ f.short = s /\ f.tokens = held
  BY <1>1, <1>5, <1>7, <1>8 DEF BucketType
<1>10. f = [rate |-> bk.rate, burst |-> bk.burst, tokens |-> held,
            short |-> f.short, t |-> n]
  BY <1>8, <1>9
<1> QED
  BY <1>6, <1>7, <1>9, <1>10 DEF full, cap, held, f

(* What a take does to the bucket, to the unit: a granted one found a      *)
(* token in the refilled bucket and removed it, a refused one only         *)
(* refilled, and is refused for want of a token or for rounding.           *)
LEMMA TakeExact ==
    ASSUME NEW bk \in BucketType, NEW n \in Int, NEW lost \in BOOLEAN
    PROVE  LET full == bk.tokens + (n - bk.t) * bk.rate
               cap == bk.burst * Token
               held == IF full < cap THEN full ELSE cap
               r == takeToken(bk, n, lost)
           IN  /\ r.ok \in BOOLEAN /\ r.b \in BucketType
               /\ r.b.rate = bk.rate /\ r.b.burst = bk.burst /\ r.b.t = n
               /\ r.ok => Token <= held /\ r.b.tokens = held - Token
               /\ ~r.ok => /\ r.b.tokens = held
                           /\ held < Token \/ (held = Token /\ r.b.short)
               /\ r.b.short => bk.short \/ full # bk.tokens
               /\ r.b.short => full <= cap \/ full = bk.tokens
<1> DEFINE full == bk.tokens + (n - bk.t) * bk.rate
           cap == bk.burst * Token
           held == IF full < cap THEN full ELSE cap
           f == refill(bk, n, lost)
           r == takeToken(bk, n, lost)
<1>1. /\ f = [rate |-> bk.rate, burst |-> bk.burst, tokens |-> held,
              short |-> f.short, t |-> n]
      /\ f \in BucketType
      /\ f.short => bk.short \/ full # bk.tokens
      /\ f.short => full <= cap \/ full = bk.tokens
  BY RefillBound
<1>2. r = IF f.tokens < Token \/ (f.tokens = Token /\ f.short)
          THEN [ok |-> FALSE, b |-> f]
          ELSE [ok |-> TRUE, b |-> [f EXCEPT !.tokens = f.tokens - Token]]
  BY DEF takeToken
<1> HIDE DEF f, full, cap, held, r
<1>3. /\ f.rate = bk.rate /\ f.burst = bk.burst /\ f.tokens = held /\ f.t = n
      /\ held \in Int /\ f.short \in BOOLEAN /\ Token \in Int /\ held - Token \in Int
  BY <1>1 DEF BucketType, Token
<1>4. CASE f.tokens < Token \/ (f.tokens = Token /\ f.short)
  <2>1. r.ok = FALSE /\ r.b = f
    BY <1>2, <1>4
  <2> QED
    BY <1>1, <1>3, <1>4, <2>1 DEF full, cap, held, r
<1>5. CASE ~(f.tokens < Token \/ (f.tokens = Token /\ f.short))
  <2> DEFINE g == [rate |-> bk.rate, burst |-> bk.burst, tokens |-> held - Token,
                   short |-> f.short, t |-> n]
  <2>1. [f EXCEPT !.tokens = f.tokens - Token] = g
    BY <1>1, <1>3
  <2>2. r.ok = TRUE /\ r.b = g
    BY <1>2, <1>5, <2>1
  <2>3. g \in BucketType
    BY <1>3 DEF BucketType
  <2>4. Token <= held
    BY <1>3, <1>5
  <2>5. /\ g.rate = bk.rate /\ g.burst = bk.burst /\ g.tokens = held - Token
        /\ g.short = f.short /\ g.t = n
    OBVIOUS
  <2> HIDE DEF g
  <2>6. /\ r.ok \in BOOLEAN /\ r.b \in BucketType
        /\ r.b.rate = bk.rate /\ r.b.burst = bk.burst /\ r.b.t = n
        /\ r.ok /\ Token <= held /\ r.b.tokens = held - Token
        /\ r.b.short => bk.short \/ full # bk.tokens
        /\ r.b.short => full <= cap \/ full = bk.tokens
    BY <1>1, <2>2, <2>3, <2>4, <2>5
  <2> QED
    BY <2>6 DEF full, cap, held, r
<1> QED
  BY <1>4, <1>5

(* What a take may leave in the bucket. *)
LEMMA TakeEffect ==
    ASSUME NEW bk \in BucketType, NEW n \in Int, NEW lost \in BOOLEAN
    PROVE  LET r == takeToken(bk, n, lost)
           IN  /\ r.ok \in BOOLEAN
               /\ r.b \in BucketType
               /\ r.b.rate = bk.rate /\ r.b.burst = bk.burst /\ r.b.t = n
               /\ r.b.tokens <= bk.burst * Token
               /\ r.ok => /\ 0 <= r.b.tokens
                          /\ r.b.tokens + Token <= bk.burst * Token
                          /\ r.b.tokens + Token
                               <= bk.tokens + (n - bk.t) * bk.rate
               /\ ~r.ok => r.b.tokens <= bk.tokens + (n - bk.t) * bk.rate
<1> DEFINE full == bk.tokens + (n - bk.t) * bk.rate
           cap == bk.burst * Token
           held == IF full < cap THEN full ELSE cap
           r == takeToken(bk, n, lost)
<1>1. /\ r.ok \in BOOLEAN /\ r.b \in BucketType
      /\ r.b.rate = bk.rate /\ r.b.burst = bk.burst /\ r.b.t = n
      /\ r.ok => Token <= held /\ r.b.tokens = held - Token
      /\ ~r.ok => r.b.tokens = held
  BY TakeExact
<1>2. full \in Int /\ cap \in Int
  BY DEF BucketType, Token
<1>3. Token \in Int /\ 0 <= Token
  BY DEF Token
<1> HIDE DEF full, cap, r
<1>4. held \in Int /\ held <= full /\ held <= cap
  BY <1>2
<1> HIDE DEF held
<1> DEFINE has == r.b.tokens
<1>5. /\ r.ok => Token <= held /\ has = held - Token
      /\ ~r.ok => has = held
  BY <1>1
<1> HIDE DEF has
<1>6. /\ has <= cap
      /\ r.ok => 0 <= has /\ has + Token <= cap /\ has + Token <= full
      /\ ~r.ok => has <= full
  BY <1>1, <1>2, <1>3, <1>4, <1>5
<1> QED
  BY <1>1, <1>6 DEF full, cap, has, r

(* Earnings over adjacent intervals add up. *)
LEMMA Earn ==
    ASSUME NEW r \in Nat, NEW x \in Int, NEW y \in Int, NEW z \in Int
    PROVE  (z - y) * r + r * (y - x) = r * (z - x)
OBVIOUS

(* The arithmetic of one take: p units admitted so far, tokens tk before   *)
(* and tk2 after, c units spent now, e1 earned before and e2 since.        *)
LEMMA Chain ==
    ASSUME NEW p \in Int, NEW tk \in Int, NEW tk2 \in Int, NEW c \in Int,
           NEW cap \in Int, NEW e1 \in Int, NEW e2 \in Int, NEW e3 \in Int,
           p + tk <= cap + e1, tk2 + c <= tk + e2, e2 + e1 = e3
    PROVE  (p + c) + tk2 <= cap + e3
OBVIOUS

-------------------------------------------------------------------------------
(* The query budget. *)

(* A field has as many places as it counts for. *)
LEMMA PlacesCounted ==
    ASSUME NEW v, IsValue(v), NEW i, NEW k
    PROVE  LET P == {<<i, k, j>> : j \in Places(v)}
           IN  /\ IsFiniteSet(P) /\ Cardinality(P) = FieldItems(v) /\ FieldItems(v) \in Nat
<1> DEFINE P == {<<i, k, j>> : j \in Places(v)}
<1>1. IsFiniteSet(Places(v)) /\ Cardinality(Places(v)) = FieldItems(v) /\ FieldItems(v) \in Nat
  <2>1. CASE v.kind = "array"
    <3>1. Len(v.lens) \in Nat
      BY <2>1 DEF IsValue
    <3>2. IsFiniteSet(0 .. Len(v.lens)) /\ Cardinality(0 .. Len(v.lens)) = Len(v.lens) + 1
      BY <3>1, FS_Interval
    <3> QED
      BY <2>1, <3>1, <3>2 DEF Places, FieldItems
  <2>2. CASE v.kind # "array"
    <3>1. Places(v) = {0} /\ FieldItems(v) = 1
      BY <2>2 DEF Places, FieldItems
    <3>2. IsFiniteSet({0}) /\ Cardinality({0}) = 1
      BY FS_Singleton, Zenon
    <3> QED
      BY <3>1, <3>2
  <2> QED
    BY <2>1, <2>2
<1>2. ExistsBijection(Places(v), P)
  <2> DEFINE b == [j \in Places(v) |-> <<i, k, j>>]
  <2>1. b \in Bijection(Places(v), P)
    BY DEF Bijection, Injection, Surjection, IsInjective
  <2> QED
    BY <2>1 DEF ExistsBijection
<1> HIDE DEF P
<1> QED
  BY <1>1, <1>2, FS_Bijection DEF P

(* The loop's sum over the fields, in whatever order they come. *)
Sums(g, r) ==
    r = [s \in SUBSET DOMAIN g |->
            IF s = {} THEN 0
            ELSE r[s \ {CHOOSE y \in s : TRUE}] + FieldItems(g[CHOOSE y \in s : TRUE])]

(* One more field adds its places, and none that were there before. *)
LEMMA OneMoreField ==
    ASSUME NEW g, NEW i, NEW s, NEW x \in s, IsFiniteSet(ItemsOf(i, g, s \ {x})), IsValue(g[x])
    PROVE  /\ IsFiniteSet(ItemsOf(i, g, s))
           /\ Cardinality(ItemsOf(i, g, s))
                = Cardinality(ItemsOf(i, g, s \ {x})) + FieldItems(g[x])
<1> DEFINE P == {<<i, x, j>> : j \in Places(g[x])}
           Q == ItemsOf(i, g, s \ {x})
<1>1. ItemsOf(i, g, s) = Q \cup P
  BY DEF ItemsOf
<1>2. Q \cap P = {}
  BY DEF ItemsOf
<1>3. IsFiniteSet(P) /\ Cardinality(P) = FieldItems(g[x]) /\ FieldItems(g[x]) \in Nat
  BY PlacesCounted
<1> HIDE DEF P, Q
<1>4. IsFiniteSet(Q) /\ Cardinality(Q) \in Nat
  BY FS_CardinalityType DEF Q
<1>5. Cardinality(Q \cup P) = Cardinality(Q) + Cardinality(P) - 0 /\ IsFiniteSet(Q \cup P)
  BY <1>2, <1>3, <1>4, FS_Union, FS_EmptySet
<1> QED
  BY <1>1, <1>3, <1>4, <1>5 DEF Q

(* The items of finitely many fields are counted by any sum over them. *)
LEMMA ItemsCounted ==
    ASSUME NEW g, IsFiniteSet(DOMAIN g), \A k \in DOMAIN g : IsValue(g[k]), NEW i
    PROVE  /\ \A s \in SUBSET DOMAIN g : IsFiniteSet(ItemsOf(i, g, s))
           /\ \A r : Sums(g, r) => \A s \in SUBSET DOMAIN g : r[s] = Cardinality(ItemsOf(i, g, s))
<1> DEFINE S == DOMAIN g
           T == {n \in Nat : \A s \in SUBSET S : Cardinality(s) = n =>
                    /\ IsFiniteSet(ItemsOf(i, g, s))
                    /\ \A r : Sums(g, r) => r[s] = Cardinality(ItemsOf(i, g, s))}
<1>1. \A s \in SUBSET S : IsFiniteSet(s) /\ Cardinality(s) \in Nat
  BY FS_Subset, FS_CardinalityType
<1>2. 0 \in T
  <2> SUFFICES ASSUME NEW s \in SUBSET S, Cardinality(s) = 0
               PROVE  /\ IsFiniteSet(ItemsOf(i, g, s))
                      /\ \A r : Sums(g, r) => r[s] = Cardinality(ItemsOf(i, g, s))
    OBVIOUS
  <2>1. s = {}
    BY <1>1, FS_EmptySet
  <2>2. ItemsOf(i, g, s) = {}
    BY <2>1 DEF ItemsOf
  <2> QED
    BY <2>1, <2>2, FS_EmptySet DEF Sums
<1>3. ASSUME NEW n \in Nat, n \in T PROVE n + 1 \in T
  <2> SUFFICES ASSUME NEW s \in SUBSET S, Cardinality(s) = n + 1
               PROVE  /\ IsFiniteSet(ItemsOf(i, g, s))
                      /\ \A r : Sums(g, r) => r[s] = Cardinality(ItemsOf(i, g, s))
    OBVIOUS
  <2> DEFINE x == CHOOSE y \in s : TRUE
             u == s \ {x}
  <2>1. s # {}
    <3>1. n + 1 # 0
      OBVIOUS
    <3> QED
      BY <3>1, FS_EmptySet
  <2>2. x \in s
    BY <2>1
  <2> HIDE DEF x
  <2>3. u \in SUBSET S /\ Cardinality(u) = n
    <3>1. Cardinality(u) = Cardinality(s) - 1
      BY <1>1, <2>2, FS_RemoveElement
    <3> QED
      BY <3>1
  <2>4. /\ IsFiniteSet(ItemsOf(i, g, u))
        /\ \A r : Sums(g, r) => r[u] = Cardinality(ItemsOf(i, g, u))
    BY <1>3, <2>3
  <2>5. /\ IsFiniteSet(ItemsOf(i, g, s))
        /\ Cardinality(ItemsOf(i, g, s)) = Cardinality(ItemsOf(i, g, u)) + FieldItems(g[x])
    BY <2>2, <2>4, OneMoreField
  <2>6. ASSUME NEW r, Sums(g, r) PROVE r[s] = r[u] + FieldItems(g[x])
    BY <2>1, <2>6 DEF Sums, x
  <2> QED
    BY <2>4, <2>5, <2>6
<1>4. Nat \subseteq T
  <2> HIDE DEF T
  <2> QED
    BY <1>2, <1>3, NatInd
<1>5. ASSUME NEW s \in SUBSET S PROVE Cardinality(s) \in T
  BY <1>1, <1>4
<1> QED
  BY <1>5

(* FilterItems() of a filter is the number of its items. *)
LEMMA FilterCounted ==
    ASSUME NEW f, IsFilter(f), NEW i
    PROVE  /\ IsFiniteSet(ItemsOf(i, f.f, DOMAIN f.f))
           /\ FilterItems(f) = Cardinality(ItemsOf(i, f.f, DOMAIN f.f))
<1> DEFINE g == f.f
           q == [s \in SUBSET DOMAIN g |-> Cardinality(ItemsOf(i, g, s))]
<1>1. IsFiniteSet(DOMAIN g) /\ \A k \in DOMAIN g : IsValue(g[k])
  BY DEF IsFilter
<1> HIDE DEF g
<1>2. /\ \A s \in SUBSET DOMAIN g : IsFiniteSet(ItemsOf(i, g, s))
      /\ \A r : Sums(g, r) => \A s \in SUBSET DOMAIN g : r[s] = Cardinality(ItemsOf(i, g, s))
  BY <1>1, ItemsCounted
<1>3. Sums(g, q)
  <2> SUFFICES ASSUME NEW s \in SUBSET DOMAIN g
               PROVE  q[s] = IF s = {} THEN 0
                             ELSE q[s \ {CHOOSE y \in s : TRUE}]
                                    + FieldItems(g[CHOOSE y \in s : TRUE])
    BY DEF Sums
  <2>1. CASE s = {}
    <3>1. ItemsOf(i, g, s) = {}
      BY <2>1 DEF ItemsOf
    <3> QED
      BY <2>1, <3>1, FS_EmptySet
  <2>2. CASE s # {}
    <3> DEFINE x == CHOOSE y \in s : TRUE
    <3>1. x \in s
      BY <2>2
    <3> HIDE DEF x
    <3>2. s \ {x} \in SUBSET DOMAIN g /\ IsFiniteSet(ItemsOf(i, g, s \ {x})) /\ IsValue(g[x])
      BY <1>1, <1>2, <3>1
    <3>3. Cardinality(ItemsOf(i, g, s)) = Cardinality(ItemsOf(i, g, s \ {x})) + FieldItems(g[x])
      BY <3>1, <3>2, OneMoreField
    <3>4. q[s] = q[s \ {x}] + FieldItems(g[x])
      BY <3>2, <3>3
    <3> QED
      BY <2>2, <3>4 DEF x
  <2> QED
    BY <2>1, <2>2
<1> HIDE DEF q
<1>4. PICK r : FilterItems(f) = r[DOMAIN g] /\ ((\E p : Sums(g, p)) => Sums(g, r))
  BY DEF FilterItems, Sums, FoldFunction, FoldFunctionOnSet, MapThenFoldSet, g
<1>5. r[DOMAIN g] = Cardinality(ItemsOf(i, g, DOMAIN g))
  BY <1>2, <1>3, <1>4
<1> QED
  BY <1>2, <1>4, <1>5 DEF g

(* The loop over the filters, as the function it computes. *)
ScanOf(fs, n, r) ==
    r = [i \in 0 .. n |-> IF i = 0 THEN [fault |-> "none", items |-> 0]
                          ELSE ScanFilter(r[i - 1], fs[i])]

(* The loop has a result for every list. *)
LEMMA ScanExists ==
    ASSUME NEW fs, Len(fs) \in Nat
    PROVE  \E r : ScanOf(fs, Len(fs), r) /\ ScanFilters(fs) = r[Len(fs)]
<1> DEFINE T == {n \in Nat : \E r : ScanOf(fs, n, r)}
<1>1. 0 \in T
  <2> DEFINE r == [i \in 0 .. 0 |-> [fault |-> "none", items |-> 0]]
  <2>1. ScanOf(fs, 0, r)
    BY DEF ScanOf
  <2> QED
    BY <2>1
<1>2. ASSUME NEW n \in Nat, n \in T PROVE n + 1 \in T
  <2>1. PICK r : ScanOf(fs, n, r)
    BY <1>2
  <2> DEFINE q == [i \in 0 .. n + 1 |-> IF i = n + 1 THEN ScanFilter(r[n], fs[n + 1]) ELSE r[i]]
  <2>2. \A i \in 0 .. n : q[i] = r[i]
    OBVIOUS
  <2>3. q[n + 1] = ScanFilter(r[n], fs[n + 1]) /\ DOMAIN q = 0 .. n + 1
    OBVIOUS
  <2> HIDE DEF q
  <2>4. ASSUME NEW i \in 0 .. n + 1
        PROVE  q[i] = IF i = 0 THEN [fault |-> "none", items |-> 0]
                      ELSE ScanFilter(q[i - 1], fs[i])
    <3>1. CASE i = n + 1
      <4>1. i # 0 /\ i - 1 = n /\ n \in 0 .. n
        BY <3>1
      <4> QED
        BY <2>2, <2>3, <3>1, <4>1
    <3>2. CASE i # n + 1 /\ i # 0
      <4>1. i \in 0 .. n /\ i - 1 \in 0 .. n
        BY <3>2
      <4>2. r[i] = ScanFilter(r[i - 1], fs[i])
        BY <2>1, <3>2, <4>1 DEF ScanOf
      <4> QED
        BY <2>2, <3>2, <4>1, <4>2
    <3>3. CASE i = 0
      <4>1. i \in 0 .. n
        BY <3>3
      <4> QED
        BY <2>1, <2>2, <3>3, <4>1 DEF ScanOf
    <3> QED
      BY <3>1, <3>2, <3>3
  <2>5. ScanOf(fs, n + 1, q)
    <3>1. q = [i \in 0 .. n + 1 |-> q[i]]
      BY <2>3 DEF q
    <3> QED
      BY <2>4, <3>1 DEF ScanOf
  <2> QED
    BY <2>5
<1>3. \E r : ScanOf(fs, Len(fs), r)
  <2> HIDE DEF T
  <2>1. Len(fs) \in T
    BY <1>1, <1>2, NatInd
  <2> QED
    BY <2>1 DEF T
<1>4. \E r : ScanFilters(fs) = r[Len(fs)]
              /\ ((\E q : ScanOf(fs, Len(fs), q)) => ScanOf(fs, Len(fs), r))
  BY DEF ScanFilters, ScanOf
<1> QED
  BY <1>3, <1>4

(* A filter without a fault is sound, and the other way round. *)
LEMMA FaultMeansUnsound ==
    ASSUME NEW f, IsFilter(f)
    PROVE  FilterFault(f) = "none" <=> Sound(f)
<1>1. isNarrowing(DOMAIN f.f) <=> DOMAIN f.f \cap Narrowing # {}
  BY DEF isNarrowing
<1>2. LimitExceeded(f) <=>
        ~\A k \in DOMAIN f.f : k = "limit" /\ f.f[k].kind = "number" => f.f[k].num <= maxLimit
  <2>1. ASSUME "limit" \in DOMAIN f.f, f.f["limit"].kind = "number"
        PROVE  f.f["limit"].num > maxLimit <=> ~(f.f["limit"].num <= maxLimit)
    <3>1. f.f["limit"].num \in Int
      BY <2>1 DEF IsFilter, IsValue
    <3> QED
      BY <3>1, FilterAssumption
  <2> QED
    BY <2>1 DEF LimitExceeded
<1>3. ASSUME NEW k \in DOMAIN f.f
      PROVE  StringTooLong(f.f[k]) <=>
               ~(f.f[k].kind \in {"array", "string"} =>
                   \A j \in DOMAIN f.f[k].lens : f.f[k].lens[j] <= maxFilterValue)
  <2>1. ASSUME f.f[k].kind \in {"array", "string"}, NEW j \in DOMAIN f.f[k].lens
        PROVE  f.f[k].lens[j] > maxFilterValue <=> ~(f.f[k].lens[j] <= maxFilterValue)
    <3>1. f.f[k].lens \in Seq(Nat)
      BY <2>1 DEF IsFilter, IsValue
    <3>2. f.f[k].lens[j] \in Nat
      BY <2>1, <3>1
    <3> QED
      BY <3>2, FilterAssumption
  <2> QED
    BY <2>1 DEF StringTooLong
<1>4. FilterFault(f) = "none" <=>
        /\ f.obj /\ ~(requireNarrowing /\ ~isNarrowing(DOMAIN f.f))
        /\ ~LimitExceeded(f) /\ ~\E k \in DOMAIN f.f : StringTooLong(f.f[k])
  BY DEF FilterFault
<1> QED
  BY <1>1, <1>2, <1>3, <1>4 DEF Sound

(* The first n filters of a list, as the loop has seen them. *)
ItemsUpTo(fs, n) == UNION {ItemsOf(i, fs[i].f, DOMAIN fs[i].f) : i \in 1 .. n}

(* What the loop knows after i filters: no fault if they were all sound,   *)
(* and then the number of their items.                                     *)
LEMMA ScanKnows ==
    ASSUME NEW fs, Len(fs) \in Nat, \A i \in 1 .. Len(fs) : IsFilter(fs[i]),
           NEW r, ScanOf(fs, Len(fs), r)
    PROVE  \A n \in 0 .. Len(fs) :
              /\ IsFiniteSet(ItemsUpTo(fs, n))
              /\ r[n].fault = "none" <=> \A i \in 1 .. n : Sound(fs[i])
              /\ r[n].fault = "none" => r[n].items = Cardinality(ItemsUpTo(fs, n))
<1> DEFINE Known(n) == /\ IsFiniteSet(ItemsUpTo(fs, n))
                       /\ r[n].fault = "none" <=> \A i \in 1 .. n : Sound(fs[i])
                       /\ r[n].fault = "none" => r[n].items = Cardinality(ItemsUpTo(fs, n))
           T == {n \in Nat : n <= Len(fs) => Known(n)}
<1>1. 0 \in T
  <2>1. r[0] = [fault |-> "none", items |-> 0]
    BY DEF ScanOf
  <2>2. ItemsUpTo(fs, 0) = {}
    BY DEF ItemsUpTo
  <2> QED
    BY <2>1, <2>2, FS_EmptySet
<1>2. ASSUME NEW n \in Nat, n \in T PROVE n + 1 \in T
  <2> SUFFICES ASSUME n + 1 <= Len(fs) PROVE Known(n + 1)
    OBVIOUS
  <2>1. Known(n)
    BY <1>2
  <2> DEFINE f == fs[n + 1]
             own == ItemsOf(n + 1, f.f, DOMAIN f.f)
             old == ItemsUpTo(fs, n)
  <2>2. r[n + 1] = ScanFilter(r[n], f)
    <3>1. n + 1 \in 0 .. Len(fs) /\ n + 1 # 0 /\ (n + 1) - 1 = n
      OBVIOUS
    <3> QED
      BY <3>1 DEF ScanOf
  <2>3. IsFilter(f)
    OBVIOUS
  <2>4. FilterFault(f) = "none" <=> Sound(f)
    BY <2>3, FaultMeansUnsound
  <2>5. IsFiniteSet(own) /\ FilterItems(f) = Cardinality(own)
    BY <2>3, FilterCounted
  <2>6. ItemsUpTo(fs, n + 1) = old \cup own
    <3>1. 1 .. n + 1 = (1 .. n) \cup {n + 1}
      OBVIOUS
    <3> QED
      BY <3>1 DEF ItemsUpTo
  <2>7. old \cap own = {}
    <3>1. ASSUME NEW x \in old, x \in own PROVE FALSE
      <4>1. PICK i \in 1 .. n : x \in ItemsOf(i, fs[i].f, DOMAIN fs[i].f)
        BY <3>1 DEF ItemsUpTo
      <4>2. x[1] = i
        BY <4>1 DEF ItemsOf
      <4>3. x[1] = n + 1
        BY <3>1 DEF ItemsOf
      <4> QED
        BY <4>1, <4>2, <4>3
    <3> QED
      BY <3>1
  <2>8. (\A i \in 1 .. n + 1 : Sound(fs[i])) <=> Sound(f) /\ \A i \in 1 .. n : Sound(fs[i])
    <3>1. 1 .. n + 1 = (1 .. n) \cup {n + 1}
      OBVIOUS
    <3> QED
      BY <3>1
  <2> HIDE DEF own, old, f
  <2>9. IsFiniteSet(old) /\ Cardinality(old) \in Nat /\ Cardinality(own) \in Nat
    BY <2>1, <2>5, FS_CardinalityType DEF old
  <2>10. IsFiniteSet(old \cup own) /\ Cardinality(old \cup own) = Cardinality(old) + Cardinality(own)
    <3>1. /\ IsFiniteSet(old \cup own)
          /\ Cardinality(old \cup own) = Cardinality(old) + Cardinality(own) - Cardinality({})
      BY <2>5, <2>7, <2>9, FS_Union
    <3> QED
      BY <2>9, <3>1, FS_EmptySet
  <2>11. CASE r[n].fault # "none"
    <3>1. r[n + 1] = r[n]
      BY <2>2, <2>11 DEF ScanFilter
    <3>2. ~\A i \in 1 .. n : Sound(fs[i])
      BY <2>1, <2>11
    <3> QED
      BY <2>6, <2>8, <2>10, <2>11, <3>1, <3>2
  <2>12. CASE r[n].fault = "none"
    <3>1. /\ r[n + 1].fault = FilterFault(f)
          /\ FilterFault(f) = "none" => r[n + 1].items = r[n].items + FilterItems(f)
      BY <2>2, <2>12 DEF ScanFilter
    <3>2. (\A i \in 1 .. n : Sound(fs[i])) /\ r[n].items = Cardinality(old)
      BY <2>1, <2>12 DEF old
    <3> QED
      BY <2>4, <2>5, <2>6, <2>8, <2>10, <3>1, <3>2
  <2> QED
    BY <2>11, <2>12
<1>3. Nat \subseteq T
  <2> HIDE DEF T
  <2> QED
    BY <1>1, <1>2, NatInd
<1> QED
  BY <1>3

(* checkFilters() lets a query through exactly when each of its filters is *)
(* sound by itself and all of them together stay within the item budget:   *)
(* the early returns of its loop (shield_ws.js:135-174) lose no field and  *)
(* count none twice, for every list of filters.                            *)
THEOREM BudgetExact ==
    ASSUME NEW fs, Len(fs) \in Nat, DOMAIN fs = 1 .. Len(fs),
           \A i \in DOMAIN fs : IsFilter(fs[i])
    PROVE  checkFilters(fs) = "none" <=> WithinBudget(fs)
<1>1. PICK r : ScanOf(fs, Len(fs), r) /\ ScanFilters(fs) = r[Len(fs)]
  BY ScanExists
<1> DEFINE n == Len(fs)
           scan == r[n]
<1>2. /\ IsFiniteSet(ItemsUpTo(fs, n))
      /\ scan.fault = "none" <=> \A i \in 1 .. n : Sound(fs[i])
      /\ scan.fault = "none" => scan.items = Cardinality(ItemsUpTo(fs, n))
  BY <1>1, ScanKnows
<1>3. ItemsUpTo(fs, n) = Items(fs)
  BY DEF ItemsUpTo, Items
<1>4. Cardinality(Items(fs)) \in Nat
  BY <1>2, <1>3, FS_CardinalityType
<1>5. checkFilters(fs) = "none" <=>
        /\ ~(n < 1) /\ ~(n > maxFilters) /\ scan.fault = "none"
        /\ ~(scan.items > maxFilterItems)
  BY <1>1 DEF checkFilters
<1> HIDE DEF scan
<1>6. scan.fault = "none" =>
        (~(scan.items > maxFilterItems) <=> Cardinality(Items(fs)) <= maxFilterItems)
  BY <1>2, <1>3, <1>4, FilterAssumption
<1>7. ~(n < 1) /\ ~(n > maxFilters) <=> n \in 1 .. maxFilters
  BY FilterAssumption
<1> QED
  BY <1>2, <1>5, <1>6, <1>7 DEF WithinBudget
===============================================================================
