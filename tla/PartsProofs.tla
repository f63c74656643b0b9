------------------------------ MODULE PartsProofs ------------------------------
(***************************************************************************)
(* The parts of the program that are specified by themselves: a token      *)
(* bucket, the handshake sniffer and the query budget of the WebSocket     *)
(* engine; a connection, the log tail and the JSON of the dashboard; the   *)
(* compiler that the build script picks.                                   *)
(***************************************************************************)
EXTENDS WsLemmas, TokenBucket, WsHandshake, Dashboard, MCAlgorithms

(***************************************************************************)
(* The bucket, for every rate, burst and pattern of clock steps.  The      *)
(* inductive invariant is a potential argument: for each admission i, the  *)
(* messages admitted since i plus the tokens still in the bucket never     *)
(* exceed what the burst and the rate have paid for since i.               *)
(***************************************************************************)
(* The potential of the bucket, counted from admission i. *)
Paid(i) ==
    (Len(admitted) - i + 1) * Token + b.tokens
        <= Burst * Token + Rate * (b.t - admitted[i])

IInv ==
    /\ TypeOK
    /\ \A i \in 1 .. Len(admitted) : Paid(i)
    /\ AdmissionBound

(* A granted or refused take preserves the potential of every admission,   *)
(* and a granted one starts a potential of its own.                        *)
LEMMA TakePreserves == IInv /\ Take => IInv'
<1> SUFFICES ASSUME IInv, Take PROVE IInv'
  OBVIOUS
<1>0. PICK lost \in BOOLEAN :
        LET r == takeToken(b, now, lost)
        IN  /\ b' = r.b /\ refused' = ~r.ok
            /\ admitted' = IF r.ok THEN Append(admitted, now) ELSE admitted
  BY DEF Take
<1> DEFINE r == takeToken(b, now, lost)
           N == Len(admitted)
<1>1. /\ b \in BucketType /\ b.rate = Rate /\ b.burst = Burst
      /\ now \in Int /\ admitted \in Seq(Int) /\ refused \in BOOLEAN
      /\ stepped \in BOOLEAN /\ b.tokens \in Int /\ b.t \in Int
      /\ N \in Nat /\ Rate \in Nat /\ Burst \in Nat
      /\ \A i \in 1 .. N : admitted[i] \in Int
  BY BucketAssumption DEF IInv, TypeOK, BucketType
<1>2. /\ r.ok \in BOOLEAN /\ r.b \in BucketType
      /\ r.b.rate = Rate /\ r.b.burst = Burst /\ r.b.t = now
      /\ r.b.tokens <= Burst * Token /\ r.b.tokens \in Int
      /\ r.ok => /\ 0 <= r.b.tokens /\ r.b.tokens + Token <= Burst * Token
                 /\ r.b.tokens + Token <= b.tokens + (now - b.t) * Rate
      /\ ~r.ok => r.b.tokens <= b.tokens + (now - b.t) * Rate
  BY <1>1, TakeEffect DEF BucketType
<1>3. /\ b' = r.b /\ refused' = ~r.ok /\ now' = now /\ stepped' = stepped
      /\ admitted' = IF r.ok THEN Append(admitted, now) ELSE admitted
  BY <1>0 DEF Take
<1> HIDE DEF r
<1>4. \A i \in 1 .. N :
        (now - b.t) * Rate + Rate * (b.t - admitted[i])
            = Rate * (now - admitted[i])
  BY <1>1, Earn
<1>5. TypeOK'
  BY <1>1, <1>2, <1>3 DEF TypeOK
<1>6. CASE r.ok
  <2>1. /\ admitted' = Append(admitted, now) /\ Len(admitted') = N + 1
        /\ \A i \in 1 .. N : admitted'[i] = admitted[i]
        /\ admitted'[N + 1] = now
    BY <1>1, <1>3, <1>6
  <2>2. ASSUME NEW i \in 1 .. N
        PROVE  ((N + 1) - i + 1) * Token + r.b.tokens
                 <= Burst * Token + Rate * (now - admitted[i])
    <3>1. (N - i + 1) * Token + b.tokens
             <= Burst * Token + Rate * (b.t - admitted[i])
      BY <2>2 DEF IInv, Paid
    <3>2. ((N + 1) - i + 1) * Token = (N - i + 1) * Token + Token
      BY <1>1, <2>2 DEF Token
    <3>3. /\ Rate * (b.t - admitted[i]) \in Int
          /\ Rate * (now - admitted[i]) \in Int
          /\ (now - b.t) * Rate \in Int /\ Burst * Token \in Int
          /\ (N - i + 1) * Token \in Int /\ Token \in Int
      BY <1>1, <2>2 DEF Token
    <3>4. /\ r.b.tokens + Token <= b.tokens + (now - b.t) * Rate
          /\ (now - b.t) * Rate + Rate * (b.t - admitted[i])
               = Rate * (now - admitted[i])
      BY <1>2, <1>4, <1>6, <2>2
    <3>5. ((N - i + 1) * Token + Token) + r.b.tokens
             <= Burst * Token + Rate * (now - admitted[i])
      <4> DEFINE p == (N - i + 1) * Token
                 cap == Burst * Token
                 e1 == Rate * (b.t - admitted[i])
                 e2 == (now - b.t) * Rate
                 e3 == Rate * (now - admitted[i])
                 had == b.tokens
                 has == r.b.tokens
      <4>1. /\ p \in Int /\ cap \in Int /\ e1 \in Int /\ e2 \in Int
            /\ e3 \in Int /\ Token \in Int /\ had \in Int /\ has \in Int
        BY <1>1, <1>2, <3>3
      <4>2. /\ p + had <= cap + e1
            /\ has + Token <= had + e2
            /\ e2 + e1 = e3
        BY <3>1, <3>4
      <4> HIDE DEF p, cap, e1, e2, e3, had, has
      <4>3. (p + Token) + has <= cap + e3
        BY <4>1, <4>2
      <4> QED
        BY <4>3 DEF p, cap, e3, has
    <3> QED
      BY <3>2, <3>5
  <2>3. ((N + 1) - (N + 1) + 1) * Token + r.b.tokens
           <= Burst * Token + Rate * (now - now)
    BY <1>1, <1>2, <1>6 DEF Token
  <2>4. \A i \in 1 .. N + 1 :
          ((N + 1) - i + 1) * Token + r.b.tokens
             <= Burst * Token + Rate * (now - admitted'[i])
    <3> SUFFICES ASSUME NEW i \in 1 .. N + 1
                 PROVE  ((N + 1) - i + 1) * Token + r.b.tokens
                          <= Burst * Token + Rate * (now - admitted'[i])
      OBVIOUS
    <3>1. CASE i \in 1 .. N
      <4>1. admitted'[i] = admitted[i]
        BY <2>1, <3>1
      <4> QED
        BY <2>2, <3>1, <4>1
    <3>2. CASE i = N + 1
      BY <2>1, <2>3, <3>2
    <3> QED
      BY <1>1, <3>1, <3>2
  <2>5. \A i \in 1 .. Len(admitted') : Paid(i)'
    BY <1>2, <1>3, <2>1, <2>4 DEF Paid
  <2>6. ASSUME NEW i \in 1 .. N + 1, NEW j \in 1 .. N + 1, i <= j
        PROVE  (j - i + 1) * Token
                 <= Burst * Token + Rate * (admitted'[j] - admitted'[i])
    <3>1. CASE j = N + 1
      <4>1. ((N + 1) - i + 1) * Token + r.b.tokens
               <= Burst * Token + Rate * (now - admitted'[i])
        BY <2>4
      <4>2. admitted'[i] \in Int
        BY <1>1, <2>1
      <4> DEFINE lhs == ((N + 1) - i + 1) * Token
                 rhs == Burst * Token + Rate * (now - admitted'[i])
      <4>3. lhs \in Int
        BY <1>1 DEF Token
      <4>5. rhs \in Int
        BY <1>1, <4>2 DEF Token
      <4>6. r.b.tokens \in Int /\ 0 <= r.b.tokens
        BY <1>2, <1>6
      <4>7. lhs + r.b.tokens <= rhs
        BY <4>1
      <4> HIDE DEF lhs, rhs
      <4>4. lhs <= rhs
        BY <4>3, <4>5, <4>6, <4>7
      <4> QED
        BY <2>1, <3>1, <4>4 DEF lhs, rhs
    <3>2. CASE j # N + 1
      <4>1. i \in 1 .. N /\ j \in 1 .. N
        BY <1>1, <2>6, <3>2
      <4> QED
        BY <2>1, <2>6, <4>1 DEF IInv, AdmissionBound
    <3> QED
      BY <3>1, <3>2
  <2> QED
    BY <1>5, <2>1, <2>5, <2>6 DEF IInv, AdmissionBound
<1>7. CASE ~r.ok
  <2>1. admitted' = admitted
    BY <1>3, <1>7
  <2>2. ASSUME NEW i \in 1 .. N
        PROVE  (N - i + 1) * Token + r.b.tokens
                 <= Burst * Token + Rate * (now - admitted[i])
    <3>1. (N - i + 1) * Token + b.tokens
             <= Burst * Token + Rate * (b.t - admitted[i])
      BY <2>2 DEF IInv, Paid
    <3>2. /\ Rate * (b.t - admitted[i]) \in Int
          /\ Rate * (now - admitted[i]) \in Int
          /\ (now - b.t) * Rate \in Int /\ Burst * Token \in Int
          /\ (N - i + 1) * Token \in Int
      BY <1>1, <2>2 DEF Token
    <3>3. /\ r.b.tokens <= b.tokens + (now - b.t) * Rate
          /\ (now - b.t) * Rate + Rate * (b.t - admitted[i])
               = Rate * (now - admitted[i])
      BY <1>2, <1>4, <1>7, <2>2
    <3>4. ((N - i + 1) * Token + 0) + r.b.tokens
             <= Burst * Token + Rate * (now - admitted[i])
      <4> DEFINE p == (N - i + 1) * Token
                 cap == Burst * Token
                 e1 == Rate * (b.t - admitted[i])
                 e2 == (now - b.t) * Rate
                 e3 == Rate * (now - admitted[i])
      <4>1. /\ p \in Int /\ cap \in Int /\ e1 \in Int /\ e2 \in Int
            /\ e3 \in Int /\ b.tokens \in Int /\ r.b.tokens \in Int
        BY <1>1, <1>2, <3>2
      <4>2. /\ p + b.tokens <= cap + e1
            /\ r.b.tokens <= b.tokens + e2
            /\ e2 + e1 = e3
        BY <3>1, <3>3
      <4> HIDE DEF p, cap, e1, e2, e3
      <4>3. r.b.tokens + 0 <= b.tokens + e2
        BY <4>1, <4>2
      <4>4. (p + 0) + r.b.tokens <= cap + e3
        BY <4>1, <4>2, <4>3, Chain
      <4> QED
        BY <4>4 DEF p, cap, e3
    <3>5. (N - i + 1) * Token + 0 = (N - i + 1) * Token
      BY <3>2
    <3> QED
      BY <3>4, <3>5
  <2>3. \A i \in 1 .. Len(admitted') : Paid(i)'
    BY <1>2, <1>3, <2>1, <2>2 DEF Paid
  <2>4. AdmissionBound'
    BY <2>1 DEF IInv, AdmissionBound
  <2> QED
    BY <1>5, <2>3, <2>4 DEF IInv
<1> QED
  BY <1>2, <1>6, <1>7

(* A new bucket is full, and nothing has been taken from it. *)
LEMMA InitIInv == Init => IInv
<1> SUFFICES ASSUME Init PROVE IInv
  OBVIOUS
<1>1. /\ admitted = <<>> /\ Len(admitted) = 0 /\ now = 0
      /\ refused = FALSE /\ stepped = FALSE
      /\ b = [rate |-> Rate, burst |-> Burst, tokens |-> Burst * Token,
              short |-> FALSE, t |-> 0]
  BY DEF Init, bucket
<1>2. Rate \in Nat /\ Burst \in Nat /\ Burst * Token \in Int
  BY BucketAssumption DEF Token
<1>3. Burst * Token <= Burst * Token
  BY <1>2
<1>4. b \in BucketType /\ b.rate = Rate /\ b.burst = Burst
      /\ b.tokens = Burst * Token
  BY <1>1, <1>2 DEF BucketType
<1>5. admitted \in Seq(Int) /\ now \in Int
  BY <1>1
<1>6. refused \in BOOLEAN /\ stepped \in BOOLEAN
  BY <1>1
<1>7. TypeOK
  BY <1>3, <1>4, <1>5, <1>6 DEF TypeOK
<1> QED
  BY <1>1, <1>7 DEF IInv, AdmissionBound

(* No step of the clock or of the bucket breaks the invariant. *)
LEMMA NextIInv == IInv /\ [Next]_vars => IInv'
<1> SUFFICES ASSUME IInv, [Next]_vars PROVE IInv'
  OBVIOUS
<1>1. CASE Take
  BY <1>1, TakePreserves
<1>2. ASSUME UNCHANGED <<b, admitted, refused>>, now' \in Int,
             stepped' \in BOOLEAN
      PROVE  IInv'
  BY <1>2 DEF IInv, TypeOK, Paid, AdmissionBound
<1>3. CASE Advance
  <2>1. now' \in Int /\ stepped' \in BOOLEAN
    BY <1>3, BucketAssumption DEF Advance, IInv, TypeOK
  <2> QED
    BY <1>2, <1>3, <2>1 DEF Advance
<1>4. CASE SetBack
  <2>1. now' \in Int /\ stepped' \in BOOLEAN
    BY <1>4, BucketAssumption DEF SetBack, IInv, TypeOK
  <2> QED
    BY <1>2, <1>4, <2>1 DEF SetBack
<1>5. CASE UNCHANGED vars
  BY <1>2, <1>5 DEF vars, IInv, TypeOK
<1> QED
  BY <1>1, <1>3, <1>4, <1>5 DEF Next

(* The bucket never holds more than its size and its fields keep their     *)
(* types: what every comparison in takeToken() assumes.                    *)
THEOREM BucketTypeCorrect == Spec => []TypeOK
<1>1. IInv => TypeOK
  BY DEF IInv
<1> QED
  BY <1>1, InitIInv, NextIInv, PTL DEF Spec

(* The admission bound holds for every rate, every burst and every way the *)
(* wall clock moves, backwards included.                                   *)
THEOREM BucketAdmission == Spec => []AdmissionBound
<1>1. IInv => AdmissionBound
  BY DEF IInv
<1> QED
  BY <1>1, InitIInv, NextIInv, PTL DEF Spec

-----------------------------------------------------------------------------
(* The other direction.  While the clock has only moved forward the bucket *)
(* is, to the unit, what some admission left of a full one: nothing was    *)
(* charged yet, or the bucket was full when admission i was charged and    *)
(* has not been since.  It falls short of that by rounding only if time    *)
(* has passed since then.                                                  *)
FullAt(i) ==
    b.tokens = Burst * Token + Rate * (b.t - admitted[i]) - (Len(admitted) - i + 1) * Token

Since(i) == FullAt(i) /\ admitted[i] <= b.t /\ (b.short => admitted[i] < b.t)

Exact ==
    ~stepped =>
        /\ b.t <= now
        /\ refused => RefusedOnlyOverRate
        /\ ~refused => \/ Len(admitted) = 0 /\ b.tokens = Burst * Token /\ ~b.short
                       \/ \E i \in 1 .. Len(admitted) : Since(i)

(* A message charged while the clock has only moved forward. *)
LEMMA TakeKeepsExact == IInv /\ Exact /\ Take => Exact'
<1> SUFFICES ASSUME IInv, Exact, Take, ~stepped'
             PROVE  /\ b'.t <= now' /\ (refused' => RefusedOnlyOverRate')
                    /\ ~refused' =>
                         \/ Len(admitted') = 0 /\ b'.tokens = Burst * Token /\ ~b'.short
                         \/ \E i \in 1 .. Len(admitted') : Since(i)'
  BY DEF Exact
<1>0. PICK lost \in BOOLEAN :
        LET r == takeToken(b, now, lost)
        IN  /\ b' = r.b /\ refused' = ~r.ok
            /\ admitted' = IF r.ok THEN Append(admitted, now) ELSE admitted
  BY DEF Take
<1> DEFINE r == takeToken(b, now, lost)
           N == Len(admitted)
           cap == Burst * Token
           full == b.tokens + (now - b.t) * Rate
           held == IF full < cap THEN full ELSE cap
<1>1. /\ b \in BucketType /\ b.rate = Rate /\ b.burst = Burst
      /\ now \in Int /\ admitted \in Seq(Int)
      /\ b.tokens \in Int /\ b.t \in Int /\ b.short \in BOOLEAN
      /\ N \in Nat /\ Rate \in Nat /\ Burst \in Nat
      /\ \A i \in 1 .. N : admitted[i] \in Int
  BY BucketAssumption DEF IInv, TypeOK, BucketType
<1>2. /\ b' = r.b /\ refused' = ~r.ok /\ now' = now /\ ~stepped /\ ~refused
      /\ admitted' = IF r.ok THEN Append(admitted, now) ELSE admitted
  BY <1>0 DEF Take
<1>3. /\ b.t <= now
      /\ (N = 0 /\ b.tokens = cap /\ ~b.short) \/ \E i \in 1 .. N : Since(i)
  BY <1>2 DEF Exact
<1>4. /\ r.ok \in BOOLEAN /\ r.b.t = now
      /\ r.ok => Token <= held /\ r.b.tokens = held - Token
      /\ ~r.ok => held < Token \/ (held = Token /\ r.b.short)
      /\ r.b.short => b.short \/ full # b.tokens
      /\ r.b.short => full <= cap \/ full = b.tokens
  BY <1>1, TakeExact
<1>5. (now - b.t) * Rate \in Int /\ cap \in Int /\ full \in Int /\ Token \in Int
  BY <1>1 DEF Token
<1>6. 0 <= (now - b.t) * Rate /\ (b.t = now => (now - b.t) * Rate = 0)
  BY <1>1, <1>3
<1>7. /\ b.tokens <= cap
      /\ b.tokens <= full /\ (full # b.tokens => b.t < now)
  <2>1. b.tokens <= cap
    BY DEF IInv, TypeOK
  <2> HIDE DEF cap
  <2> QED
    BY <1>1, <1>3, <1>5, <1>6, <2>1
<1> HIDE DEF r, cap
<1>8. ASSUME NEW i \in 1 .. N, FullAt(i)
      PROVE  full = cap + Rate * (now - admitted[i]) - (N - i + 1) * Token
  <2> DEFINE e1 == Rate * (b.t - admitted[i])
             e2 == (now - b.t) * Rate
             e3 == Rate * (now - admitted[i])
             p == (N - i + 1) * Token
  <2>1. e2 + e1 = e3
    BY <1>1, Earn
  <2>2. b.tokens = cap + e1 - p
    BY <1>8 DEF FullAt, cap
  <2>3. e1 \in Int /\ e2 \in Int /\ e3 \in Int /\ p \in Int
    <3>1. admitted[i] \in Int
      BY <1>1
    <3>0. Rate \in Int /\ b.t \in Int /\ now \in Int
      BY <1>1
    <3>2. e1 \in Int /\ e2 \in Int /\ e3 \in Int
      BY <3>0, <3>1
    <3>3. p \in Int
      BY <1>1 DEF Token
    <3> QED
      BY <3>2, <3>3
  <2> HIDE DEF e1, e2, e3, p
  <2>4. b.tokens + e2 = cap + e3 - p
    BY <1>5, <2>1, <2>2, <2>3
  <2> QED
    BY <2>4 DEF e2, e3, p
<1> HIDE DEF full
<1>9. b'.t = now /\ b'.t <= now' /\ b'.short = r.b.short
  BY <1>1, <1>2, <1>4
\* A bucket that falls short has been refilled since it was full.
<1>10. r.b.short => /\ full <= cap
                    /\ \E i \in 1 .. N : FullAt(i) /\ admitted[i] < now
  <2> SUFFICES ASSUME r.b.short
               PROVE  full <= cap /\ \E i \in 1 .. N : FullAt(i) /\ admitted[i] < now
    OBVIOUS
  <2>1. full <= cap
    BY <1>4, <1>5, <1>7
  <2>2. b.short \/ full # b.tokens
    BY <1>4
  <2>3. ~(N = 0 /\ b.tokens = cap /\ ~b.short)
    BY <1>1, <1>5, <1>7, <2>1, <2>2
  <2>4. PICK i \in 1 .. N : Since(i)
    BY <1>3, <2>3
  <2>5. admitted[i] \in Int
    BY <1>1
  <2>6. admitted[i] < now
    BY <1>1, <1>3, <1>7, <2>2, <2>4, <2>5 DEF Since
  <2> QED
    BY <2>1, <2>4, <2>6 DEF Since
<1>11. CASE ~r.ok
  <2>1. admitted' = admitted /\ b'.t = now /\ refused'
    BY <1>2, <1>4, <1>11
  <2>2. CASE held < Token /\ cap <= full
    <3>1. cap < Token
      BY <1>5, <2>2
    <3>2. Burst = 0
      BY <1>1, <3>1 DEF cap, Token
    <3> QED
      BY <1>9, <2>1, <3>2 DEF RefusedOnlyOverRate
  <2>3. CASE held < Token /\ ~(cap <= full)
    <3>1. PICK i \in 1 .. N : FullAt(i)
      BY <1>3, <1>5, <1>7, <2>3 DEF Since
    <3>2. full < Token
      BY <1>5, <2>3
    <3>3. full = cap + Rate * (now - admitted[i]) - (N - i + 1) * Token
      BY <1>8, <3>1
    <3>4. (N - i + 2) * Token > cap + Rate * (now - admitted[i])
      <4> DEFINE e == Rate * (now - admitted[i])
                 p == (N - i + 1) * Token
      <4>1. e \in Int
        BY <1>1
      <4>2. (N - i + 2) * Token = p + Token /\ p \in Int
        BY <1>1 DEF Token
      <4> HIDE DEF e, p
      <4>3. full = cap + e - p
        BY <3>3 DEF e, p
      <4>4. p + Token > cap + e
        BY <1>5, <3>2, <4>1, <4>2, <4>3
      <4> QED
        BY <4>2, <4>4 DEF e
    <3>5. RefusedOnlyOverRate'
      BY <2>1, <3>4 DEF RefusedOnlyOverRate, cap
    <3> QED
      BY <1>9, <2>1, <3>5
  <2>4. CASE held = Token /\ r.b.short
    <3>1. PICK i \in 1 .. N : FullAt(i) /\ admitted[i] < now
      BY <1>10, <2>4
    <3>2. full = Token
      BY <1>5, <1>10, <2>4
    <3>3. full = cap + Rate * (now - admitted[i]) - (N - i + 1) * Token
      BY <1>8, <3>1
    <3>4. (N - i + 2) * Token = cap + Rate * (now - admitted[i])
      <4> DEFINE e == Rate * (now - admitted[i])
                 p == (N - i + 1) * Token
      <4>1. e \in Int
        BY <1>1
      <4>2. (N - i + 2) * Token = p + Token /\ p \in Int
        BY <1>1 DEF Token
      <4> HIDE DEF e, p
      <4>3. full = cap + e - p
        BY <3>3 DEF e, p
      <4>4. p + Token = cap + e
        BY <1>5, <3>2, <4>1, <4>2, <4>3
      <4> QED
        BY <4>2, <4>4 DEF e
    <3>5. now > admitted[i]
      BY <1>1, <3>1
    <3>6. RefusedOnlyOverRate'
      BY <2>1, <3>4, <3>5 DEF RefusedOnlyOverRate, cap
    <3> QED
      BY <1>9, <2>1, <3>6
  <2> QED
    BY <1>4, <1>11, <2>2, <2>3, <2>4
<1>12. CASE r.ok
  <2>1. /\ admitted' = Append(admitted, now) /\ Len(admitted') = N + 1
        /\ \A i \in 1 .. N : admitted'[i] = admitted[i]
        /\ admitted'[N + 1] = now /\ b'.t = now /\ b'.tokens = held - Token /\ ~refused'
    <3>1. r.b.t = now /\ r.b.tokens = held - Token
      BY <1>4, <1>12
    <3> HIDE DEF held
    <3>2. /\ admitted' = Append(admitted, now) /\ b'.t = now /\ b'.tokens = held - Token
          /\ ~refused'
      BY <1>2, <1>12, <3>1
    <3> QED
      BY <1>1, <3>2
  <2>2. CASE cap <= full /\ ~r.b.short
    <3>1. held = cap
      BY <1>5, <2>2
    <3>2. Rate * (now - now) = 0 /\ ((N + 1) - (N + 1) + 1) * Token = Token
      BY <1>1 DEF Token
    <3>3. b'.tokens = cap + Rate * (now - now) - ((N + 1) - (N + 1) + 1) * Token
      BY <1>5, <2>1, <3>1, <3>2
    <3>6. PICK k \in Nat : k = N + 1
      BY <1>1
    <3>4. FullAt(k)' /\ admitted'[k] <= b'.t
      BY <1>1, <2>1, <3>3, <3>6 DEF FullAt, cap
    <3>5. k \in 1 .. Len(admitted') /\ Since(k)'
      BY <1>1, <1>9, <2>1, <2>2, <3>4, <3>6 DEF Since
    <3> QED
      BY <1>9, <2>1, <3>5
  <2>3. CASE ~(cap <= full) \/ r.b.short
    <3>1. PICK i \in 1 .. N : /\ FullAt(i) /\ admitted[i] <= now
                              /\ r.b.short => admitted[i] < now
      <4>1. CASE r.b.short
        <5>1. \A i \in 1 .. N : admitted[i] < now => admitted[i] <= now
          BY <1>1
        <5> QED
          BY <1>10, <4>1, <5>1
      <4>2. CASE ~r.b.short
        <5>1. PICK i \in 1 .. N : Since(i)
          BY <1>3, <1>5, <1>7, <2>3, <4>2
        <5>2. admitted[i] <= now
          BY <1>1, <1>3, <5>1 DEF Since
        <5> QED
          BY <4>2, <5>1, <5>2 DEF Since
      <4> QED
        BY <4>1, <4>2
    <3>2. held = full
      BY <1>5, <1>10, <2>3
    <3>3. full = cap + Rate * (now - admitted[i]) - (N - i + 1) * Token
      BY <1>8, <3>1
    <3>4. b'.tokens = cap + Rate * (now - admitted'[i]) - ((N + 1) - i + 1) * Token
      <4> DEFINE e == Rate * (now - admitted[i])
                 p == (N - i + 1) * Token
      <4>1. e \in Int
        BY <1>1
      <4>2. ((N + 1) - i + 1) * Token = p + Token /\ p \in Int
        BY <1>1 DEF Token
      <4>5. admitted'[i] = admitted[i]
        BY <2>1
      <4> HIDE DEF e, p
      <4>3. full = cap + e - p
        BY <3>3 DEF e, p
      <4>4. b'.tokens = cap + e - (p + Token)
        BY <1>5, <2>1, <3>2, <4>1, <4>2, <4>3
      <4> QED
        BY <4>2, <4>4, <4>5 DEF e
    <3>5. Since(i)'
      BY <1>9, <2>1, <3>1, <3>4 DEF FullAt, Since, cap
    <3>6. i \in 1 .. Len(admitted')
      BY <1>1, <2>1
    <3> QED
      BY <1>9, <2>1, <3>5, <3>6
  <2> QED
    BY <2>2, <2>3
<1> QED
  BY <1>4, <1>11, <1>12

(* A client within its rate is never cut: for every rate, burst and run of *)
(* the clock forward, and however the refills are rounded, takeToken()     *)
(* refuses only a message that came, with those before it, faster than the *)
(* bucket pays for, or just as fast and not in one burst.                  *)
THEOREM BucketRefusal == Spec => []RefusedOnlyOverRate
<1>1. Init => Exact
  <2> SUFFICES ASSUME Init PROVE Exact
    OBVIOUS
  <2>1. /\ b.t <= now /\ Len(admitted) = 0 /\ b.tokens = Burst * Token /\ ~b.short
        /\ ~refused
    BY DEF Init, bucket
  <2> QED
    BY <2>1 DEF Exact
<1>2. IInv /\ Exact /\ [Next]_vars => Exact'
  <2> SUFFICES ASSUME IInv, Exact, [Next]_vars PROVE Exact'
    OBVIOUS
  <2>1. CASE Take
    BY <2>1, TakeKeepsExact
  <2>2. CASE Advance
    <3>1. b.t <= now => b.t <= now'
      BY <2>2, BucketAssumption DEF Advance, IInv, TypeOK, BucketType
    <3>2. UNCHANGED <<b, admitted, refused, stepped>>
      BY <2>2 DEF Advance
    <3> QED
      BY <3>1, <3>2 DEF Exact, RefusedOnlyOverRate, Since, FullAt
  <2>3. CASE SetBack
    BY <2>3 DEF SetBack, Exact
  <2>4. CASE UNCHANGED vars
    BY <2>4 DEF vars, Exact, RefusedOnlyOverRate, Since, FullAt
  <2> QED
    BY <2>1, <2>2, <2>3, <2>4 DEF Next
<1>3. Exact => RefusedOnlyOverRate
  BY DEF Exact, RefusedOnlyOverRate
<1> QED
  BY <1>1, <1>2, <1>3, InitIInv, NextIInv, PTL DEF Spec

-------------------------------------------------------------------------------
(***************************************************************************)
(* The sniffer, for every stream and every way it is cut into reads.  What *)
(* is held has no end of header; a new one can only lie across the seam,   *)
(* two bytes before it or later, which is where the scan resumes.          *)
(***************************************************************************)
(* Where a blank line ends in buf. *)
Hits(buf, from) == {i \in 0 .. Len(buf) - 2 : i >= from /\ EndsHeader(buf, i)}
Past(buf, i) == IF ByteAt(buf, i + 1) = "LF" THEN i + 2 ELSE i + 3

(* headerBlockEnd() answers -1 or the index past the first hit. *)
LEMMA BlockEnd ==
    ASSUME NEW buf, Len(buf) \in Nat, NEW from \in Int
    PROVE  \/ Hits(buf, from) = {} /\ headerBlockEnd(buf, from) = -1
           \/ \E i \in Hits(buf, from) :
                 /\ \A j \in Hits(buf, from) : i <= j
                 /\ headerBlockEnd(buf, from) = Past(buf, i)
<1> DEFINE H == Hits(buf, from)
<1>1. headerBlockEnd(buf, from) = IF H = {} THEN -1 ELSE Past(buf, Min(H))
  BY DEF headerBlockEnd, Hits, Past
<1>2. H \subseteq Nat
  BY DEF Hits
<1> HIDE DEF H
<1>3. CASE H # {}
  <2>1. \E d \in H : \A m \in H : d <= m
    BY <1>2, <1>3, LeastNat
  <2>2. Min(H) \in H /\ \A m \in H : Min(H) <= m
    BY <2>1 DEF Min
  <2> QED
    BY <1>1, <1>3, <2>2 DEF H
<1> QED
  BY <1>1, <1>3 DEF H

(* A hit needs its bytes and no others. *)
LEMMA HitBytes ==
    ASSUME NEW buf, Len(buf) \in Nat, NEW from \in Int, NEW i \in Int
    PROVE  i \in Hits(buf, from) <=>
              /\ i >= 0 /\ i >= from /\ i + 2 <= Len(buf)
              /\ buf[i + 1] = "LF"
              /\ \/ buf[i + 2] = "LF"
                 \/ buf[i + 2] = "CR" /\ i + 3 <= Len(buf) /\ buf[i + 3] = "LF"
<1>1. (i + 1) + 1 = i + 2 /\ (i + 2) + 1 = i + 3
  OBVIOUS
<1> QED
  BY <1>1 DEF Hits, EndsHeader, ByteAt

(* What a prefix of the stream shows of it. *)
LEMMA Prefix ==
    ASSUME NEW S, NEW s \in Seq(S), NEW d \in 0 .. Len(s)
    PROVE  /\ SubSeq(s, 1, d) \in Seq(S) /\ Len(SubSeq(s, 1, d)) = d
           /\ \A i \in 1 .. d : SubSeq(s, 1, d)[i] = s[i]
OBVIOUS

(* A prefix with a hit has the first hit of the whole, and ends after it.  *)
LEMMA SameEnd ==
    ASSUME NEW S, NEW s \in Seq(S), NEW d \in 0 .. Len(s),
           headerBlockEnd(SubSeq(s, 1, d), 0) >= 0
    PROVE  /\ headerBlockEnd(s, 0) = headerBlockEnd(SubSeq(s, 1, d), 0)
           /\ headerBlockEnd(s, 0) \in 2 .. d
<1> DEFINE p == SubSeq(s, 1, d)
<1>1. p \in Seq(S) /\ Len(p) = d /\ \A i \in 1 .. d : p[i] = s[i]
  BY Prefix
<1>2. Len(s) \in Nat /\ d \in Nat /\ d <= Len(s)
  OBVIOUS
<1> HIDE DEF p
<1>3. PICK i \in Hits(p, 0) : /\ \A j \in Hits(p, 0) : i <= j
                              /\ headerBlockEnd(p, 0) = Past(p, i)
  <2>1. Len(p) \in Nat
    BY <1>1
  <2>2. headerBlockEnd(p, 0) # -1
    BY DEF p
  <2> QED
    BY <2>1, <2>2, BlockEnd
<1>4. i \in Int
  BY <1>1 DEF Hits
<1>5. /\ i >= 0 /\ i + 2 <= d
      /\ p[i + 1] = "LF"
      /\ \/ p[i + 2] = "LF"
         \/ p[i + 2] = "CR" /\ i + 3 <= d /\ p[i + 3] = "LF"
  BY <1>1, <1>2, <1>3, <1>4, HitBytes
<1>6. p[i + 1] = s[i + 1] /\ p[i + 2] = s[i + 2] /\ (i + 3 <= d => p[i + 3] = s[i + 3])
  BY <1>1, <1>2, <1>4, <1>5
<1>7. i \in Hits(s, 0)
  BY <1>2, <1>4, <1>5, <1>6, HitBytes
<1>8. ASSUME NEW j \in Hits(s, 0), j < i PROVE FALSE
  <2>1. j \in Int
    BY <1>2 DEF Hits
  <2>2. /\ j >= 0 /\ s[j + 1] = "LF"
        /\ \/ s[j + 2] = "LF"
           \/ s[j + 2] = "CR" /\ s[j + 3] = "LF"
    BY <1>2, <2>1, <1>8, HitBytes
  <2>3. j + 3 <= d
    BY <1>2, <1>4, <1>5, <1>8, <2>1
  <2>4. p[j + 1] = s[j + 1] /\ p[j + 2] = s[j + 2] /\ p[j + 3] = s[j + 3]
    BY <1>1, <1>2, <2>1, <2>2, <2>3
  <2>5. j \in Hits(p, 0)
    <3>1. /\ j >= 0 /\ j + 2 <= Len(p) /\ p[j + 1] = "LF"
          /\ \/ p[j + 2] = "LF"
             \/ p[j + 2] = "CR" /\ j + 3 <= Len(p) /\ p[j + 3] = "LF"
      BY <1>1, <1>2, <2>1, <2>2, <2>3, <2>4
    <3>2. Len(p) \in Nat
      BY <1>1, <1>2
    <3> QED
      BY <2>1, <3>1, <3>2, HitBytes
  <2> QED
    BY <1>3, <1>4, <1>8, <2>1, <2>5
<1>9. PICK h \in Hits(s, 0) : /\ \A j \in Hits(s, 0) : h <= j
                              /\ headerBlockEnd(s, 0) = Past(s, h)
  BY <1>2, <1>7, BlockEnd
<1>10. h = i
  <2>1. h \in Int
    BY <1>2 DEF Hits
  <2>2. h <= i /\ ~(h < i)
    BY <1>7, <1>8, <1>9
  <2> QED
    BY <1>4, <2>1, <2>2
<1>11. Past(s, i) = Past(p, i)
  <2>1. (i + 1) + 1 = i + 2
    BY <1>4
  <2> QED
    BY <1>6, <2>1 DEF Past, ByteAt
<1>12. Past(p, i) \in 2 .. d
  <2>1. (i + 1) + 1 = i + 2
    BY <1>4
  <2>2. Past(p, i) = IF p[i + 2] = "LF" THEN i + 2 ELSE i + 3
    BY <2>1 DEF Past, ByteAt
  <2>3. "CR" # "LF"
    OBVIOUS
  <2> QED
    BY <1>2, <1>4, <1>5, <2>2, <2>3
<1> QED
  BY <1>3, <1>9, <1>10, <1>11, <1>12 DEF p

(* Where the first d bytes hold no end of header, a scan of more of them   *)
(* finds the same from two bytes before the end as from the start: an end  *)
(* mark that straddles the cut has its first LF in those two bytes.        *)
LEMMA ResumeScan ==
    ASSUME NEW S, NEW s \in Seq(S), NEW d \in 0 .. Len(s), NEW m \in d .. Len(s),
           headerBlockEnd(SubSeq(s, 1, d), 0) = -1
    PROVE  headerBlockEnd(SubSeq(s, 1, m), d - 2) = headerBlockEnd(SubSeq(s, 1, m), 0)
<1> DEFINE p == SubSeq(s, 1, d)
           q == SubSeq(s, 1, m)
<1>1. Len(p) = d /\ \A i \in 1 .. d : p[i] = s[i]
  BY Prefix
<1>2. Len(s) \in Nat /\ d \in Nat /\ m \in Nat /\ d <= m /\ m <= Len(s)
  OBVIOUS
<1>3. Len(q) = m /\ \A i \in 1 .. m : q[i] = s[i]
  BY <1>2, Prefix
<1> HIDE DEF p, q
<1>4. Hits(p, 0) = {}
  <2> SUFFICES ASSUME NEW i \in Hits(p, 0), headerBlockEnd(p, 0) = Past(p, i) PROVE FALSE
    BY <1>1, BlockEnd
  <2>1. i \in Nat
    BY <1>1 DEF Hits
  <2> QED
    BY <2>1 DEF Past, p
<1>5. Hits(q, d - 2) = Hits(q, 0)
  <2>1. ASSUME NEW i \in Hits(q, 0) PROVE i \in Hits(q, d - 2)
    <3>1. i \in Int
      BY <1>2, <1>3 DEF Hits
    <3>2. /\ i >= 0 /\ i + 2 <= m
          /\ q[i + 1] = "LF"
          /\ \/ q[i + 2] = "LF"
             \/ q[i + 2] = "CR" /\ i + 3 <= m /\ q[i + 3] = "LF"
      BY <1>2, <1>3, <2>1, <3>1, HitBytes
    <3>3. CASE i + 3 <= d
      <4>1. /\ p[i + 1] = q[i + 1] /\ p[i + 2] = q[i + 2] /\ p[i + 3] = q[i + 3]
        BY <1>1, <1>2, <1>3, <3>1, <3>2, <3>3
      <4>2. i \in Hits(p, 0)
        BY <1>1, <1>2, <3>1, <3>2, <3>3, <4>1, HitBytes
      <4> QED
        BY <1>4, <4>2
    <3>4. CASE ~(i + 3 <= d)
      <4>1. i >= d - 2 /\ d - 2 \in Int
        BY <1>2, <3>1, <3>4
      <4> QED
        BY <1>2, <1>3, <3>1, <3>2, <4>1, HitBytes
    <3> QED
      BY <3>3, <3>4
  <2>2. Hits(q, d - 2) \subseteq Hits(q, 0)
    BY <1>2, <1>3 DEF Hits
  <2> QED
    BY <2>1, <2>2
<1> QED
  BY <1>5 DEF headerBlockEnd, Hits, q

-------------------------------------------------------------------------------
(* While the sniffer waits it holds exactly what it has read, and has      *)
(* scanned it all.                                                         *)
HsInv ==
    /\ stream \in [1 .. StreamLen -> Alphabet]
    /\ got \in 0 .. StreamLen /\ hsReads \in Nat /\ killed \in BOOLEAN
    /\ mode \in {"handshake", "ws", "plain"}
    /\ mode = "handshake" /\ ~killed =>
          hs = Received /\ hsScanned = got /\ sent = <<>> /\ acc = <<>>
    /\ SameAsWholeScan

(* A function on 1 .. d is a sequence of length d. *)
LEMMA StreamSeq ==
    ASSUME HsInv
    PROVE  stream \in Seq(Alphabet) /\ Len(stream) = StreamLen /\ StreamLen \in Nat
BY HandshakeAssumption DEF HsInv

(* Before the first read there is no byte, and no blank line. *)
LEMMA HsInit0 == HsInit => HsInv
<1> SUFFICES ASSUME HsInit PROVE HsInv
  OBVIOUS
<1>1. /\ stream \in [1 .. StreamLen -> Alphabet] /\ got = 0 /\ hs = <<>>
      /\ hsReads = 0 /\ hsScanned = 0
      /\ mode = "handshake" /\ killed = FALSE /\ sent = <<>> /\ acc = <<>>
  BY DEF HsInit
<1>2. StreamLen \in Nat /\ stream \in Seq(Alphabet)
  BY <1>1, HandshakeAssumption
<1>3. Received = <<>> /\ Len(Received) = 0
  BY <1>1, <1>2 DEF Received
<1>4. Hits(Received, 0) = {}
  BY <1>3 DEF Hits
<1>5. headerBlockEnd(Received, 0) = -1
  BY <1>3, <1>4, BlockEnd
<1>6. SameAsWholeScan
  BY <1>1, <1>5 DEF SameAsWholeScan
<1>7. got \in 0 .. StreamLen /\ hsReads \in Nat
  BY <1>1, <1>2
<1>8. killed \in BOOLEAN /\ mode \in {"handshake", "ws", "plain"}
  BY <1>1
<1>9. hs = Received /\ hsScanned = got
  BY <1>1, <1>3
<1> QED
  BY <1>1, <1>6, <1>7, <1>8, <1>9 DEF HsInv

(* One read: what it makes of the bytes is what all of them make it. *)
LEMMA ReadKeeps == HsInv /\ Receive => HsInv'
<1> SUFFICES ASSUME HsInv, Receive PROVE HsInv'
  OBVIOUS
<1>1. stream \in Seq(Alphabet) /\ Len(stream) = StreamLen /\ StreamLen \in Nat
  BY StreamSeq
<1>2. mode = "handshake" /\ ~killed /\ stream' = stream
  BY DEF Receive
<1>3. /\ hs = SubSeq(stream, 1, got) /\ hsScanned = got /\ got \in 0 .. StreamLen
      /\ sent = <<>> /\ acc = <<>> /\ hsReads \in Nat
      /\ headerBlockEnd(SubSeq(stream, 1, got), 0) = -1
  BY <1>2 DEF HsInv, Received, SameAsWholeScan
<1> DEFINE B(k) == hs \o SubSeq(stream, got + 1, got + k)
<1>4. PICK k \in 1 .. StreamLen - got :
        /\ got' = got + k
        /\ hsReads' = hsReads + 1
        /\ \/ /\ hsReads' > maxHsReads
              /\ Kill /\ UNCHANGED <<hs, hsScanned>>
           \/ /\ hsReads' <= maxHsReads /\ Len(B(k)) > MAX_HANDSHAKE
              /\ Kill /\ hs' = B(k) /\ UNCHANGED hsScanned
           \/ /\ hsReads' <= maxHsReads /\ Len(B(k)) <= MAX_HANDSHAKE
              /\ hsScanned' = Len(B(k))
              /\ \/ /\ headerBlockEnd(B(k), ScanFrom) < 0
                    /\ hs' = B(k) /\ UNCHANGED <<mode, killed, sent, acc>>
                 \/ /\ headerBlockEnd(B(k), ScanFrom) >= 0
                    /\ Classify(B(k), headerBlockEnd(B(k), ScanFrom))
  BY Zenon DEF Receive
<1> DEFINE buf == SubSeq(stream, 1, got + k)
           end == headerBlockEnd(buf, 0)
<1>5. /\ got + k \in 0 .. StreamLen /\ got + k \in got .. StreamLen
      /\ got' \in 0 .. StreamLen /\ hsReads' \in Nat
  BY <1>1, <1>3, <1>4
<1>6. B(k) = buf
  BY <1>1, <1>3, <1>5
<1>7. buf \in Seq(Alphabet) /\ Len(buf) = got + k /\ \A i \in 1 .. got + k : buf[i] = stream[i]
  BY <1>1, <1>5, Prefix
<1>8. Received' = buf /\ FirstEnd' = headerBlockEnd(stream, 0)
  BY <1>2, <1>4 DEF Received, FirstEnd
<1>9. headerBlockEnd(B(k), ScanFrom) = end
  BY <1>1, <1>3, <1>5, <1>6, ResumeScan DEF ScanFrom
<1> HIDE DEF B, buf, end
<1>10. /\ got' = got + k
       /\ hsReads' = hsReads + 1
       /\ \/ /\ hsReads' > maxHsReads
             /\ Kill /\ UNCHANGED <<hs, hsScanned>>
          \/ /\ hsReads' <= maxHsReads /\ Len(buf) > MAX_HANDSHAKE
             /\ Kill /\ hs' = buf /\ UNCHANGED hsScanned
          \/ /\ hsReads' <= maxHsReads /\ Len(buf) <= MAX_HANDSHAKE
             /\ hsScanned' = Len(buf)
             /\ \/ /\ end < 0
                   /\ hs' = buf /\ UNCHANGED <<mode, killed, sent, acc>>
                \/ end >= 0 /\ Classify(buf, end)
  BY <1>4, <1>6, <1>9, Zenon
<1>11. ASSUME Kill, \/ hsReads' > maxHsReads \/ got' > MAX_HANDSHAKE
                    \/ FirstEnd' > 0 /\ hasBareLf(stream, FirstEnd') /\ FirstEnd' <= got'
       PROVE  HsInv'
  <2>1. killed' = TRUE /\ mode' = mode
    BY <1>11 DEF Kill
  <2>2. SameAsWholeScan'
    BY <1>2, <1>11, <2>1 DEF SameAsWholeScan
  <2> QED
    BY <1>2, <1>5, <2>1, <2>2 DEF HsInv
<1>12. CASE /\ end < 0
            /\ hsScanned' = Len(buf) /\ hs' = buf /\ UNCHANGED <<mode, killed, sent, acc>>
  <2>1. end = -1
    <3>1. Len(buf) \in Nat
      BY <1>5, <1>7
    <3>2. ASSUME NEW i \in Hits(buf, 0) PROVE ~(Past(buf, i) < 0)
      BY <3>1 DEF Hits, Past
    <3>3. \/ end = -1
          \/ \E i \in Hits(buf, 0) : end = Past(buf, i)
      BY <3>1, BlockEnd DEF end
    <3> QED
      BY <1>12, <3>2, <3>3
  <2>2. SameAsWholeScan'
    BY <1>2, <1>8, <1>12, <2>1 DEF SameAsWholeScan, end
  <2>3. hs' = Received' /\ hsScanned' = got' /\ sent' = <<>> /\ acc' = <<>>
    BY <1>3, <1>4, <1>7, <1>8, <1>12
  <2>4. killed' \in BOOLEAN /\ mode' \in {"handshake", "ws", "plain"}
    BY <1>2, <1>12 DEF HsInv
  <2>5. stream' \in [1 .. StreamLen -> Alphabet]
    BY <1>2 DEF HsInv
  <2> QED
    BY <1>5, <2>2, <2>3, <2>4, <2>5 DEF HsInv
<1>13. CASE end >= 0 /\ Classify(buf, end)
  <2>1. FirstEnd' = end /\ end \in 2 .. got + k
    BY <1>1, <1>5, <1>8, <1>13, SameEnd DEF buf, end
  <2>2. hasBareLf(buf, end) <=> hasBareLf(stream, end)
    <3>1. ASSUME NEW i \in 0 .. end - 1
          PROVE  /\ buf[i + 1] = stream[i + 1]
                 /\ i # 0 => buf[(i - 1) + 1] = stream[(i - 1) + 1]
      <4>1. i + 1 \in 1 .. got + k /\ (i # 0 => (i - 1) + 1 \in 1 .. got + k)
        BY <1>5, <2>1
      <4> QED
        BY <1>7, <4>1
    <3> QED
      BY <3>1 DEF hasBareLf, ByteAt
  <2>3. SubSeq(buf, 1, end) = SubSeq(stream, 1, end)
    BY <1>1, <1>5, <1>7, <2>1
  <2>5. CASE hasBareLf(buf, end)
    <3>1. Kill
      BY <1>13, <2>5 DEF Classify
    <3>2. FirstEnd' > 0 /\ hasBareLf(stream, FirstEnd') /\ FirstEnd' <= got'
      BY <1>4, <1>5, <2>1, <2>2, <2>5
    <3> QED
      BY <1>11, <3>1, <3>2
  <2>6. CASE ~hasBareLf(buf, end)
    <3> DEFINE head == SubSeq(stream, 1, end)
               rest == SubSeq(buf, end + 1, Len(buf))
    <3>1. /\ killed' = killed
          /\ IF asksUpgrade(head)
             THEN mode' = "ws" /\ sent' = Utf8(head) /\ acc' = rest
             ELSE mode' = "plain" /\ sent' = Utf8(head) \o rest /\ acc' = acc
      BY <1>13, <2>3, <2>6 DEF Classify
    <3>2. rest = SubSeq(Received', FirstEnd' + 1, got')
      BY <1>4, <1>7, <1>8, <2>1
    <3> HIDE DEF head, rest
    <3>4. /\ mode' = "ws" => asksUpgrade(head) /\ sent' = Utf8(head) /\ acc' = rest
          /\ mode' = "plain" => /\ ~asksUpgrade(head)
                                /\ sent' = Utf8(head) \o rest /\ acc' = <<>>
      BY <1>3, <3>1
    <3>5. ~(FirstEnd' > 0 /\ hasBareLf(stream, FirstEnd'))
      BY <2>1, <2>2, <2>6
    <3>6. SubSeq(stream', 1, FirstEnd') = head
      BY <1>2, <2>1 DEF head
    <3>7. /\ ~killed' /\ killed' \in BOOLEAN
          /\ mode' \in {"ws", "plain"} /\ mode' \in {"handshake", "ws", "plain"}
      BY <1>2, <3>1 DEF HsInv
    <3>8. SameAsWholeScan'
      BY <1>2, <3>2, <3>4, <3>5, <3>6, <3>7 DEF SameAsWholeScan
    <3>9. stream' \in [1 .. StreamLen -> Alphabet]
      BY <1>2 DEF HsInv
    <3> QED
      BY <1>5, <3>7, <3>8, <3>9 DEF HsInv
  <2> QED
    BY <2>5, <2>6
<1> QED
  BY <1>4, <1>7, <1>10, <1>11, <1>12, <1>13

(* The sniffer decides as if it had seen the whole stream at once: for     *)
(* every stream, every way of cutting it into reads and every limit.       *)
THEOREM SniffsAsWhole == HsSpec => []SameAsWholeScan
<1>1. HsInv /\ UNCHANGED hsVars => HsInv'
  <2> SUFFICES ASSUME HsInv, UNCHANGED hsVars PROVE HsInv'
    OBVIOUS
  <2>1. Received' = Received /\ FirstEnd' = FirstEnd
    BY DEF hsVars, Received, FirstEnd
  <2>2. SameAsWholeScan'
    BY <2>1 DEF hsVars, SameAsWholeScan, HsInv
  <2> QED
    BY <2>1, <2>2 DEF HsInv, hsVars
<1>2. HsInv /\ [HsNext]_hsVars => HsInv'
  BY <1>1, ReadKeeps DEF HsNext
<1>3. HsInv => SameAsWholeScan
  BY DEF HsInv
<1> QED
  BY <1>2, <1>3, HsInit0, PTL DEF HsSpec

-------------------------------------------------------------------------------
(***************************************************************************)
(* What a connection can make the server read, for every value of the      *)
(* limits.  ReadBounded is not inductive: what may still come depends on   *)
(* where read_request is.  Accounted keeps the books: every byte read so   *)
(* far is in the request line, in the headers already counted in total or  *)
(* in the line being read, which take() keeps within MaxRequestLine.       *)
(***************************************************************************)
Accounted ==
    /\ n \in Nat /\ total \in Nat /\ consumed \in Nat
    /\ n <= MaxRequestLine
    /\ pc = "line" => consumed = n /\ total = 0
    /\ pc = "headers" => /\ consumed <= MaxRequestLine + total + n
                         /\ total <= MaxHeaderBytes

ReadInv == Accounted /\ ReadBounded

(* A step that takes nothing from the peer and leaves read_request's       *)
(* variables alone, at most to answer, keeps the books.                    *)
LEMMA ReadInvAlone ==
    ASSUME ReadInv, UNCHANGED <<n, total, consumed>>,
           pc' = pc \/ pc' \notin {"line", "headers"}
    PROVE  ReadInv'
BY DEF ReadInv, Accounted, ReadBounded

(* Every step of the connection, its peer, nginx and logrotate keeps the   *)
(* books.                                                                  *)
LEMMA ReadInvStep == ReadInv /\ [UiNext]_uiVars => ReadInv'
<1> SUFFICES ASSUME ReadInv, [UiNext]_uiVars PROVE ReadInv'
  OBVIOUS
<1>0. MaxRequestLine \in Nat /\ MaxRequestLine > 0 /\ MaxHeaderBytes \in Nat
  BY DashboardAssumption
<1>1. CASE Accept
  BY <1>0, <1>1 DEF Accept, ReadInv, Accounted, ReadBounded
<1>2. ASSUME NEW byte \in {"\r", "\n", "other"}, PeerSends(byte) PROVE ReadInv'
  <2>1. /\ n' = n + 1 /\ consumed' = consumed + 1 /\ total' = total /\ pc' = pc
        /\ n < MaxRequestLine /\ pc \in {"line", "headers"}
    BY <1>0, <1>2 DEF PeerSends, Reading, Returned, ReadInv, Accounted
  <2> QED
    BY <1>0, <2>1 DEF ReadInv, Accounted, ReadBounded
<1>3. CASE RequestLine
  <2>1. /\ pc = "line" /\ n' = 0 /\ UNCHANGED <<total, consumed>>
        /\ pc' \in {"headers", "write"}
    BY <1>3 DEF RequestLine, TakeLine, Error, Respond
  <2> QED
    BY <1>0, <2>1 DEF ReadInv, Accounted, ReadBounded
<1>4. CASE HeaderLine
  <2>1. pc = "headers" /\ n' = 0 /\ consumed' = consumed
    BY <1>4 DEF HeaderLine, TakeLine
  <2>2. \/ pc' = "route" /\ total' = total
        \/ pc' = "write" /\ total' = total + n
        \/ pc' = "headers" /\ total' = total + n /\ ~(total' > MaxHeaderBytes)
    BY <1>4 DEF HeaderLine, Error, Respond, HeaderBytes
  <2> QED
    BY <1>0, <2>1, <2>2 DEF ReadInv, Accounted, ReadBounded
<1>5. CASE \/ Boot \/ Unreadable \/ PeerCloses \/ Route \/ CheckRequest \/ Open
           \/ SeekEnd \/ SeekBack \/ Read \/ Write
  <2>1. UNCHANGED <<n, total, consumed>>
    BY <1>5 DEF Boot, Unreadable, PeerCloses, Route, CheckRequest, Open, SeekEnd,
       SeekBack, Read, Write, peerVars
  <2>2. pc' = pc \/ pc' \notin {"line", "headers"}
    BY <1>5 DEF Boot, Unreadable, PeerCloses, Route, CheckRequest, Open, SeekEnd,
       SeekBack, Read, Write, Error, Respond
  <2> QED
    BY <2>1, <2>2, ReadInvAlone
<1>6. CASE Append1 \/ Rotate \/ Truncate \/ Reconfigure \/ UNCHANGED uiVars
  BY <1>6, ReadInvAlone
     DEF Append1, Rotate, Truncate, Reconfigure, uiVars, peerVars
<1> QED
  BY <1>1, <1>2, <1>3, <1>4, <1>5, <1>6 DEF UiNext, Server

(* However the peer cuts and ends its lines, and whatever the limits are   *)
(* set to, read_request takes no more from a connection than two request   *)
(* lines and the header budget (ui/src/http.rs:146-180).                   *)
THEOREM ConnectionReadBounded == UiSpec => []ReadBounded
<1>1. UiInit => ReadInv
  BY DashboardAssumption DEF UiInit, ReadInv, Accounted, ReadBounded
<1>2. ReadInv => ReadBounded
  BY DEF ReadInv
<1> QED
  BY <1>1, <1>2, ReadInvStep, PTL DEF UiSpec

-------------------------------------------------------------------------------
(***************************************************************************)
(* What tail() serves, for every log and every value of the limits.  First *)
(* what Lines cuts a buffer into: its ends are the one increasing sequence *)
(* of the positions that end a line, so that the ends of a window are those*)
(* of the log that lie in it, moved, and all lines but the first, which may*)
(* be a fragment, are lines of the log.                                    *)
(***************************************************************************)
EndSet(s) == {i \in 1 .. Len(s) : s[i][2] = 0 \/ i = Len(s)}

Increasing(e) == \A i, j \in DOMAIN e : i < j => e[i] < e[j]

EndsRun(s, m, e) ==
    e = [i \in 0 .. m |->
            IF i = 0 THEN <<>>
            ELSE e[i - 1] \o (IF s[i][2] = 0 \/ i = Len(s) THEN <<i>> ELSE <<>>)]

(* The loop over the bytes has a result for every buffer. *)
LEMMA EndsExist ==
    ASSUME NEW s, Len(s) \in Nat
    PROVE  \E e : EndsRun(s, Len(s), e) /\ LineEnds(s) = e[Len(s)]
<1> DEFINE add(i) == IF s[i][2] = 0 \/ i = Len(s) THEN <<i>> ELSE <<>>
           T == {m \in Nat : \E e : EndsRun(s, m, e)}
<1>1. 0 \in T
  <2> DEFINE e == [i \in 0 .. 0 |-> <<>>]
  <2>1. EndsRun(s, 0, e)
    BY DEF EndsRun
  <2> QED
    BY <2>1
<1>2. ASSUME NEW m \in Nat, m \in T PROVE m + 1 \in T
  <2>1. PICK e : EndsRun(s, m, e)
    BY <1>2
  <2> DEFINE q == [i \in 0 .. m + 1 |-> IF i = m + 1 THEN e[m] \o add(m + 1) ELSE e[i]]
  <2>2. \A i \in 0 .. m : q[i] = e[i]
    OBVIOUS
  <2>3. q[m + 1] = e[m] \o add(m + 1) /\ DOMAIN q = 0 .. m + 1
    <3> HIDE DEF add
    <3>1. m + 1 \in 0 .. m + 1
      OBVIOUS
    <3> QED
      BY <3>1
  <2>4. q = [i \in 0 .. m + 1 |-> q[i]]
    OBVIOUS
  <2>e. \A i \in 0 .. m : e[i] = IF i = 0 THEN <<>> ELSE e[i - 1] \o add(i)
    BY <2>1 DEF EndsRun
  <2> HIDE DEF q, add
  <2>5. ASSUME NEW i \in 0 .. m + 1
        PROVE  q[i] = IF i = 0 THEN <<>> ELSE q[i - 1] \o add(i)
    <3>1. CASE i = m + 1
      <4>1. i # 0 /\ i - 1 = m /\ m \in 0 .. m
        BY <3>1
      <4> QED
        BY <2>2, <2>3, <3>1, <4>1
    <3>2. CASE i # m + 1 /\ i # 0
      <4>1. i \in 0 .. m /\ i - 1 \in 0 .. m
        BY <3>2
      <4> QED
        BY <2>e, <2>2, <3>2, <4>1
    <3>3. CASE i = 0
      <4>1. i \in 0 .. m
        BY <3>3
      <4> QED
        BY <2>e, <2>2, <3>3, <4>1
    <3> QED
      BY <3>1, <3>2, <3>3
  <2>6. EndsRun(s, m + 1, q)
    BY <2>4, <2>5 DEF EndsRun, add
  <2> QED
    BY <2>6
<1>3. \E e : EndsRun(s, Len(s), e)
  <2> HIDE DEF T
  <2>1. Len(s) \in T
    BY <1>1, <1>2, NatInd
  <2> QED
    BY <2>1 DEF T
<1>4. \E e : LineEnds(s) = e[Len(s)]
              /\ ((\E q : EndsRun(s, Len(s), q)) => EndsRun(s, Len(s), e))
  BY DEF LineEnds, EndsRun
<1> QED
  BY <1>3, <1>4

(* The ends of a buffer are the positions of its newlines and its last     *)
(* byte, in order.                                                         *)
LEMMA EndsFacts ==
    ASSUME NEW s, Len(s) \in Nat
    PROVE  /\ LineEnds(s) \in Seq(Nat) /\ Increasing(LineEnds(s))
           /\ \A k \in DOMAIN LineEnds(s) : LineEnds(s)[k] \in EndSet(s)
           /\ \A x \in EndSet(s) : \E k \in DOMAIN LineEnds(s) : LineEnds(s)[k] = x
<1>1. PICK e : EndsRun(s, Len(s), e) /\ LineEnds(s) = e[Len(s)]
  BY EndsExist
<1> DEFINE S(i) == {x \in EndSet(s) : x <= i}
           Good(i) == /\ e[i] \in Seq(Nat) /\ Increasing(e[i])
                      /\ \A k \in DOMAIN e[i] : e[i][k] \in S(i)
                      /\ \A x \in S(i) : \E k \in DOMAIN e[i] : e[i][k] = x
           T == {i \in Nat : i <= Len(s) => Good(i)}
<1>2. 0 \in T
  <2>1. e[0] = <<>>
    BY <1>1 DEF EndsRun
  <2>2. S(0) = {}
    BY DEF EndSet
  <2>3. e[0] \in Seq(Nat) /\ DOMAIN e[0] = {}
    BY <2>1
  <2>4. Increasing(e[0])
    BY <2>3 DEF Increasing
  <2>5. Good(0)
    BY <2>2, <2>3, <2>4
  <2> QED
    BY <2>5
<1>3. ASSUME NEW i \in Nat, i \in T PROVE i + 1 \in T
  <2> SUFFICES ASSUME i + 1 <= Len(s) PROVE Good(i + 1)
    OBVIOUS
  <2>1. Good(i)
    BY <1>3
  <2>2. i + 1 \in 0 .. Len(s) /\ i + 1 # 0 /\ (i + 1) - 1 = i
    OBVIOUS
  <2>3. e[i + 1] = e[i] \o (IF s[i + 1][2] = 0 \/ i + 1 = Len(s) THEN <<i + 1>> ELSE <<>>)
    BY <1>1, <2>2 DEF EndsRun
  <2>4. e[i] \in Seq(Nat)
    BY <2>1
  <2>5. CASE s[i + 1][2] = 0 \/ i + 1 = Len(s)
    <3>1. S(i + 1) = S(i) \cup {i + 1}
      BY <2>5 DEF EndSet
    <3>2. /\ e[i + 1] = e[i] \o <<i + 1>> /\ e[i + 1] \in Seq(Nat)
          /\ Len(e[i + 1]) = Len(e[i]) + 1 /\ e[i + 1][Len(e[i]) + 1] = i + 1
          /\ \A k \in 1 .. Len(e[i]) : e[i + 1][k] = e[i][k]
      <4>1. e[i + 1] = e[i] \o <<i + 1>>
        BY <2>3, <2>5
      <4> HIDE DEF Good, S
      <4>2. <<i + 1>> \in Seq(Nat) /\ Len(<<i + 1>>) = 1 /\ <<i + 1>>[1] = i + 1
        OBVIOUS
      <4> QED
        BY <2>4, <4>1, <4>2, ConcatProperties, LenProperties
    <3>3. DOMAIN e[i] = 1 .. Len(e[i]) /\ DOMAIN e[i + 1] = 1 .. (Len(e[i]) + 1) /\ Len(e[i]) \in Nat
      BY <2>4, <3>2
    <3>4. \A k \in DOMAIN e[i + 1] : e[i + 1][k] \in S(i + 1)
      <4> SUFFICES ASSUME NEW k \in DOMAIN e[i + 1] PROVE e[i + 1][k] \in S(i) \cup {i + 1}
        BY <3>1
      <4>1. k \in DOMAIN e[i] \/ k = Len(e[i]) + 1
        BY <3>3
      <4> HIDE DEF S
      <4> QED
        BY <2>1, <3>2, <3>3, <4>1
    <3>5. \A x \in S(i + 1) : \E k \in DOMAIN e[i + 1] : e[i + 1][k] = x
      <4> SUFFICES ASSUME NEW x \in S(i) \cup {i + 1}
                   PROVE  \E k \in DOMAIN e[i + 1] : e[i + 1][k] = x
        BY <3>1
      <4> HIDE DEF S
      <4>1. CASE x = i + 1
        <5>1. Len(e[i]) + 1 \in DOMAIN e[i + 1]
          BY <3>3
        <5> QED
          BY <3>2, <4>1, <5>1
      <4>2. CASE x \in S(i)
        <5>1. PICK k \in DOMAIN e[i] : e[i][k] = x
          BY <2>1, <4>2
        <5>2. k \in DOMAIN e[i + 1] /\ e[i + 1][k] = x
          BY <3>2, <3>3, <5>1
        <5> QED
          BY <5>2
      <4> QED
        BY <4>1, <4>2
    <3>6. \A k \in DOMAIN e[i] : e[i][k] < i + 1
      BY <2>1, <2>4 DEF EndSet
    <3>7. Increasing(e[i + 1])
      <4> SUFFICES ASSUME NEW k \in DOMAIN e[i + 1], NEW j \in DOMAIN e[i + 1], k < j
                   PROVE  e[i + 1][k] < e[i + 1][j]
        BY DEF Increasing
      <4> HIDE DEF S, Good
      <4>1. k \in DOMAIN e[i] /\ e[i + 1][k] = e[i][k]
        BY <3>2, <3>3
      <4>2. CASE j = Len(e[i]) + 1
        BY <3>2, <3>6, <4>1, <4>2
      <4>3. CASE j # Len(e[i]) + 1
        <5>1. j \in DOMAIN e[i] /\ e[i + 1][j] = e[i][j]
          BY <3>2, <3>3, <4>3
        <5>2. Increasing(e[i])
          BY <2>1 DEF Good
        <5> QED
          BY <4>1, <5>1, <5>2 DEF Increasing
      <4> QED
        BY <4>2, <4>3
    <3> QED
      BY <3>2, <3>4, <3>5, <3>7
  <2>6. CASE ~(s[i + 1][2] = 0 \/ i + 1 = Len(s))
    <3>1. S(i + 1) = S(i)
      BY <2>6 DEF EndSet
    <3>2. e[i + 1] = e[i]
      BY <2>3, <2>4, <2>6
    <3> QED
      BY <2>1, <3>1, <3>2
  <2> QED
    BY <2>5, <2>6
<1>4. Good(Len(s))
  <2> HIDE DEF T
  <2>1. Len(s) \in T
    BY <1>2, <1>3, NatInd
  <2> QED
    BY <2>1 DEF T
<1>5. S(Len(s)) = EndSet(s)
  BY DEF EndSet
<1> QED
  BY <1>1, <1>4, <1>5

(* Of two increasing sequences with the same members, each begins with the *)
(* other.                                                                  *)
LEMMA EndsBegin ==
    ASSUME NEW e \in Seq(Nat), NEW f \in Seq(Nat), Increasing(e), Increasing(f),
           \A k \in DOMAIN e : \E j \in DOMAIN f : f[j] = e[k],
           \A k \in DOMAIN f : \E j \in DOMAIN e : e[j] = f[k]
    PROVE  \A k \in DOMAIN e : k \in DOMAIN f /\ f[k] = e[k]
<1> DEFINE T == {k \in DOMAIN e : ~(k \in DOMAIN f /\ f[k] = e[k])}
<1> SUFFICES ASSUME T # {} PROVE FALSE
  OBVIOUS
<1>0. DOMAIN e = 1 .. Len(e) /\ DOMAIN f = 1 .. Len(f) /\ Len(e) \in Nat /\ Len(f) \in Nat
  BY LenProperties
<1>t. T \subseteq Nat
  BY <1>0
<1>m. \A k \in DOMAIN e : k \in T \/ (k \in DOMAIN f /\ f[k] = e[k])
  OBVIOUS
<1>n. \A k \in T : k \in DOMAIN e /\ ~(k \in DOMAIN f /\ f[k] = e[k])
  OBVIOUS
<1>v. (\A k \in DOMAIN e : e[k] \in Nat) /\ (\A k \in DOMAIN f : f[k] \in Nat)
  BY <1>0, LenProperties
<1> HIDE DEF T
<1>1. PICK k \in T : \A j \in T : k <= j
  BY <1>t, LeastNat
<1>k. k \in DOMAIN e /\ k \in 1 .. Len(e) /\ ~(k \in DOMAIN f /\ f[k] = e[k])
  BY <1>0, <1>n, <1>1
<1>2. \A j \in 1 .. k - 1 : j \in DOMAIN f /\ f[j] = e[j]
  <2> SUFFICES ASSUME NEW j \in 1 .. k - 1 PROVE j \in DOMAIN f /\ f[j] = e[j]
    OBVIOUS
  <2>0. /\ k \in Nat /\ Len(e) \in Nat /\ k <= Len(e)
        /\ DOMAIN e = 1 .. Len(e)
    BY <1>0, <1>k
  <2>1. j \in DOMAIN e /\ j < k
    BY <2>0
  <2>2. j \notin T
    BY <1>0, <1>1, <1>k, <1>t, <2>1
  <2> QED
    BY <1>m, <2>1, <2>2
<1>3. PICK j \in DOMAIN f : f[j] = e[k]
  BY <1>k
<1>4. ~(j < k)
  <2> SUFFICES ASSUME j < k PROVE FALSE
    OBVIOUS
  <2>1. f[j] = e[j] /\ j \in DOMAIN e
    <3>0. \A x \in 1 .. Len(f), y \in 1 .. Len(e) :
              x < y => x \in 1 .. y - 1 /\ x \in 1 .. Len(e)
      BY <1>0
    <3>1. j \in 1 .. k - 1 /\ j \in 1 .. Len(e)
      BY <1>0, <1>k, <3>0
    <3> QED
      BY <1>0, <1>2, <3>1
  <2>2. e[j] < e[k]
    BY <1>k, <2>1 DEF Increasing
  <2> QED
    BY <1>k, <1>v, <1>3, <2>1, <2>2
<1>5. k \in DOMAIN f
  BY <1>0, <1>k, <1>3, <1>4
<1>6. PICK i \in DOMAIN e : e[i] = f[k]
  BY <1>5
<1>7. ~(i < k)
  <2> SUFFICES ASSUME i < k PROVE FALSE
    OBVIOUS
  <2>1. f[i] = e[i] /\ i \in DOMAIN f
    <3>1. i \in 1 .. k - 1
      BY <1>0, <1>k
    <3> QED
      BY <1>2, <3>1
  <2>2. f[i] < f[k]
    BY <1>5, <2>1 DEF Increasing
  <2> QED
    BY <1>5, <1>v, <1>6, <2>1, <2>2
<1>8. f[k] <= f[j] /\ e[k] <= e[i]
  <2>1. k = j \/ k < j
    BY <1>0, <1>k, <1>4
  <2>2. k = i \/ k < i
    BY <1>0, <1>k, <1>7
  <2>3. k \in DOMAIN e /\ f[k] \in Nat /\ f[j] \in Nat /\ e[k] \in Nat /\ e[i] \in Nat
    BY <1>k, <1>5, <1>v
  <2>4. k < j => f[k] < f[j]
    BY <1>5 DEF Increasing
  <2>5. k < i => e[k] < e[i]
    BY <1>k DEF Increasing
  <2>0. \A x, y \in Nat : x < y \/ x = y => x <= y
    OBVIOUS
  <2>6. f[k] <= f[j]
    BY <2>0, <2>1, <2>3, <2>4
  <2>7. e[k] <= e[i]
    BY <2>0, <2>2, <2>3, <2>5
  <2> QED
    BY <2>6, <2>7
<1>9. f[k] = e[k]
  BY <1>k, <1>v, <1>3, <1>5, <1>6, <1>8
<1> QED
  BY <1>k, <1>5, <1>9

(* So they are equal. *)
LEMMA EndsUnique ==
    ASSUME NEW e \in Seq(Nat), NEW f \in Seq(Nat), Increasing(e), Increasing(f),
           \A k \in DOMAIN e : \E j \in DOMAIN f : f[j] = e[k],
           \A k \in DOMAIN f : \E j \in DOMAIN e : e[j] = f[k]
    PROVE  e = f
<1>1. \A k \in DOMAIN e : k \in DOMAIN f /\ f[k] = e[k]
  BY EndsBegin
<1>2. \A k \in DOMAIN f : k \in DOMAIN e /\ e[k] = f[k]
  BY EndsBegin
<1>3. DOMAIN e = DOMAIN f
  BY <1>1, <1>2
<1>4. e = [k \in DOMAIN e |-> e[k]] /\ f = [k \in DOMAIN f |-> f[k]]
  BY LenProperties
<1> QED
  BY <1>1, <1>3, <1>4

(* The ends of a window that reaches the end of the log are the ends of    *)
(* the log behind its start, from some p-th on.                            *)
LEMMA WindowEnds ==
    ASSUME NEW S, NEW s \in Seq(S), NEW a \in Nat, a < Len(s)
    PROVE  LET w == SubSeq(s, a + 1, Len(s))
           IN  \E p \in DOMAIN LineEnds(s) :
                 /\ p > 1 => LineEnds(s)[p - 1] <= a
                 /\ LineEnds(s)[p] > a
                 /\ Len(LineEnds(w)) = Len(LineEnds(s)) - p + 1
                 /\ \A k \in 1 .. (Len(LineEnds(s)) - p + 1) :
                        LineEnds(w)[k] = LineEnds(s)[k + p - 1] - a
<1> DEFINE w == SubSeq(s, a + 1, Len(s))
           e == LineEnds(s)
           f == LineEnds(w)
           T == {k \in DOMAIN e : e[k] > a}
<1>1. Len(s) \in Nat /\ \A i \in 1 .. Len(s) : s[i] \in S
  BY LenProperties, ElementOfSeq
<1>2. Len(w) = Len(s) - a /\ Len(w) \in Nat /\ \A i \in 1 .. Len(s) - a : w[i] = s[a + i]
  <2>1. \A i \in a + 1 .. Len(s) : s[i] \in S
    BY <1>1
  <2>2. /\ Len(w) = IF a + 1 <= Len(s) THEN Len(s) - (a + 1) + 1 ELSE 0
        /\ \A i \in 1 .. Len(s) - (a + 1) + 1 : w[i] = s[(a + 1) + i - 1]
    <3>1. a + 1 \in Int /\ Len(s) \in Int
      BY <1>1
    <3> QED
      BY <2>1, <3>1, SubSeqProperties
  <2>3. \A i \in 1 .. Len(s) - a : (a + 1) + i - 1 = a + i
    BY <1>1
  <2>4. Len(s) - (a + 1) + 1 = Len(s) - a /\ a + 1 <= Len(s) /\ Len(s) - a \in Nat
    BY <1>1
  <2> HIDE DEF w
  <2> QED
    BY <2>2, <2>3, <2>4
<1> HIDE DEF w
<1>3. \A i \in 1 .. Len(w) : i \in EndSet(w) <=> i + a \in EndSet(s)
  <2> SUFFICES ASSUME NEW i \in 1 .. Len(w) PROVE i \in EndSet(w) <=> i + a \in EndSet(s)
    OBVIOUS
  <2>1. i + a \in 1 .. Len(s) /\ w[i] = s[i + a] /\ (i = Len(w) <=> i + a = Len(s))
    BY <1>1, <1>2
  <2> QED
    BY <2>1 DEF EndSet
<1>4. /\ e \in Seq(Nat) /\ Increasing(e)
      /\ \A k \in DOMAIN e : e[k] \in EndSet(s)
      /\ \A x \in EndSet(s) : \E k \in DOMAIN e : e[k] = x
  BY <1>1, EndsFacts
<1>5. /\ f \in Seq(Nat) /\ Increasing(f)
      /\ \A k \in DOMAIN f : f[k] \in EndSet(w)
      /\ \A x \in EndSet(w) : \E k \in DOMAIN f : f[k] = x
  BY <1>2, EndsFacts
<1> HIDE DEF e, f
<1>6. DOMAIN e = 1 .. Len(e) /\ Len(e) \in Nat /\ DOMAIN f = 1 .. Len(f) /\ Len(f) \in Nat
  BY <1>4, <1>5, LenProperties
<1>7. \A k \in DOMAIN e : e[k] \in 1 .. Len(s)
  BY <1>4 DEF EndSet
<1>8. PICK p \in T : \A k \in T : p <= k
  <2>1. Len(s) \in EndSet(s)
    BY <1>1 DEF EndSet
  <2>2. T # {} /\ T \subseteq Nat
    BY <1>1, <1>4, <1>6, <2>1
  <2> HIDE DEF T
  <2> QED
    BY <2>2, LeastNat
<1>9. p \in DOMAIN e /\ e[p] > a /\ p \in 1 .. Len(e)
  BY <1>6, <1>8
<1>10. \A k \in DOMAIN e : e[k] > a <=> k >= p
  <2> SUFFICES ASSUME NEW k \in DOMAIN e PROVE e[k] > a <=> k >= p
    OBVIOUS
  <2>1. e[k] > a => k >= p
    BY <1>6, <1>8, <1>9
  <2>2. k = p => e[k] > a
    BY <1>9
  <2>3. k > p => e[p] < e[k]
    BY <1>4, <1>9 DEF Increasing
  <2>4. e[k] \in Nat /\ e[p] \in Nat /\ k \in Nat /\ p \in Nat
    BY <1>1, <1>6, <1>7, <1>9
  <2> HIDE DEF T
  <2> QED
    BY <1>9, <2>1, <2>2, <2>3, <2>4
<1> HIDE DEF T
<1> DEFINE N == Len(e) - p + 1
           g == [k \in 1 .. N |-> e[k + p - 1] - a]
<1>11. N \in Nat /\ \A k \in 1 .. N : k + p - 1 \in DOMAIN e /\ k + p - 1 >= p
  BY <1>6, <1>9
<1>12. \A k \in 1 .. N : g[k] = e[k + p - 1] - a /\ g[k] \in 1 .. Len(w) /\ g[k] + a = e[k + p - 1]
  <2> SUFFICES ASSUME NEW k \in 1 .. N PROVE e[k + p - 1] - a \in 1 .. Len(w)
                                             /\ (e[k + p - 1] - a) + a = e[k + p - 1]
    OBVIOUS
  <2>1. k + p - 1 \in DOMAIN e /\ e[k + p - 1] \in 1 .. Len(s) /\ e[k + p - 1] > a
    BY <1>7, <1>10, <1>11
  <2> QED
    BY <1>1, <1>2, <2>1
<1>13. DOMAIN g = 1 .. N
  OBVIOUS
<1>14. g \in Seq(Nat)
  <2>1. \A k \in 1 .. N : g[k] \in Nat
    BY <1>2, <1>12
  <2> QED
    BY <1>11, <1>13, <2>1, IsASeq
<1> HIDE DEF g, N
<1>15. Increasing(g)
  <2> SUFFICES ASSUME NEW i \in 1 .. N, NEW j \in 1 .. N, i < j PROVE g[i] < g[j]
    BY <1>13 DEF Increasing
  <2>1. i + p - 1 < j + p - 1
    BY <1>9, <1>11
  <2>2. e[i + p - 1] < e[j + p - 1]
    BY <1>4, <1>11, <2>1 DEF Increasing
  <2>3. e[i + p - 1] \in Nat /\ e[j + p - 1] \in Nat
    BY <1>7, <1>11
  <2> QED
    BY <1>12, <2>2, <2>3
<1>16. \A k \in DOMAIN g : \E j \in DOMAIN f : f[j] = g[k]
  <2> SUFFICES ASSUME NEW k \in 1 .. N PROVE \E j \in DOMAIN f : f[j] = g[k]
    BY <1>13
  <2>1. g[k] + a \in EndSet(s)
    BY <1>4, <1>11, <1>12
  <2> QED
    BY <1>3, <1>5, <1>12, <2>1
<1>17. \A k \in DOMAIN f : \E j \in DOMAIN g : g[j] = f[k]
  <2> SUFFICES ASSUME NEW k \in DOMAIN f PROVE \E j \in DOMAIN g : g[j] = f[k]
    OBVIOUS
  <2>1. f[k] \in EndSet(w) /\ f[k] \in 1 .. Len(w)
    BY <1>5 DEF EndSet
  <2>2. PICK j \in DOMAIN e : e[j] = f[k] + a
    BY <1>3, <1>4, <2>1
  <2>3. e[j] > a
    BY <2>1, <2>2
  <2>4. j >= p
    BY <1>10, <2>3
  <2>5. j - p + 1 \in 1 .. N /\ (j - p + 1) + p - 1 = j
    BY <1>6, <1>9, <2>4 DEF N
  <2>6. g[j - p + 1] = e[j] - a
    BY <1>12, <2>5
  <2>7. (f[k] + a) - a = f[k]
    BY <2>1
  <2> QED
    BY <1>13, <2>2, <2>5, <2>6, <2>7
<1>18. f = g
  BY <1>5, <1>14, <1>15, <1>16, <1>17, EndsUnique
<1>19. Len(f) = N
  <2>1. \A x, y \in Nat : 1 .. x = 1 .. y => x = y
    OBVIOUS
  <2> QED
    BY <1>6, <1>11, <1>13, <1>18, <2>1
<1>20. p > 1 => e[p - 1] <= a
  <2> SUFFICES ASSUME p > 1 PROVE e[p - 1] <= a
    OBVIOUS
  <2>1. p - 1 \in DOMAIN e /\ ~(p - 1 >= p)
    BY <1>6, <1>9
  <2>2. e[p - 1] \in Nat
    BY <1>7, <2>1
  <2> QED
    BY <1>10, <2>1, <2>2
<1>21. \A k \in 1 .. (Len(e) - p + 1) : f[k] = e[k + p - 1] - a
  BY <1>12, <1>18 DEF N
<1> QED
  BY <1>9, <1>19, <1>20, <1>21 DEF N, e, f, w

(* The lines lie between the ends. *)
LEMMA LinesFacts ==
    ASSUME NEW S, NEW s \in Seq(S)
    PROVE  /\ Lines(s) \in Seq(Seq(S)) /\ Len(Lines(s)) = Len(LineEnds(s))
           /\ \A k \in 1 .. Len(LineEnds(s)) :
                  /\ Lines(s)[k] = SubSeq(s, IF k = 1 THEN 1 ELSE LineEnds(s)[k - 1] + 1, LineEnds(s)[k])
                  /\ Len(Lines(s)[k]) = LineEnds(s)[k] - (IF k = 1 THEN 0 ELSE LineEnds(s)[k - 1])
<1> DEFINE e == LineEnds(s)
           from(k) == IF k = 1 THEN 1 ELSE e[k - 1] + 1
<1>1. Len(s) \in Nat /\ \A i \in 1 .. Len(s) : s[i] \in S
  BY LenProperties, ElementOfSeq
<1>2. e \in Seq(Nat) /\ Increasing(e) /\ \A k \in DOMAIN e : e[k] \in EndSet(s)
  BY <1>1, EndsFacts
<1>3. DOMAIN e = 1 .. Len(e) /\ Len(e) \in Nat
  BY <1>2, LenProperties
<1>4. Lines(s) = [k \in 1 .. Len(e) |-> SubSeq(s, from(k), e[k])]
  BY <1>3 DEF Lines
<1> HIDE DEF e
<1>5. ASSUME NEW k \in 1 .. Len(e)
      PROVE  /\ SubSeq(s, from(k), e[k]) \in Seq(S)
             /\ Len(SubSeq(s, from(k), e[k])) = e[k] - (IF k = 1 THEN 0 ELSE e[k - 1])
  <2>1. e[k] \in 1 .. Len(s)
    BY <1>2, <1>3 DEF EndSet
  <2>2. k # 1 => e[k - 1] \in 1 .. Len(s) /\ e[k - 1] < e[k]
    <3> SUFFICES ASSUME k # 1 PROVE e[k - 1] \in 1 .. Len(s) /\ e[k - 1] < e[k]
      OBVIOUS
    <3>1. k - 1 \in DOMAIN e /\ k \in DOMAIN e /\ k - 1 < k
      BY <1>3
    <3> QED
      BY <1>2, <3>1 DEF EndSet, Increasing
  <2>3. from(k) \in 1 .. e[k] /\ from(k) - 1 = IF k = 1 THEN 0 ELSE e[k - 1]
    BY <1>1, <2>1, <2>2
  <2> HIDE DEF from
  <2>4. \A i \in from(k) .. e[k] : s[i] \in S
    BY <1>1, <2>1, <2>3
  <2>5. from(k) \in Int /\ e[k] \in Int /\ from(k) <= e[k]
    BY <1>1, <2>1, <2>3
  <2>6. /\ SubSeq(s, from(k), e[k]) \in Seq(S)
        /\ Len(SubSeq(s, from(k), e[k])) = e[k] - from(k) + 1
    BY <2>4, <2>5, SubSeqProperties
  <2>7. e[k] - from(k) + 1 = e[k] - (from(k) - 1)
    BY <2>5
  <2> QED
    BY <2>3, <2>6, <2>7
<1> HIDE DEF from
<1>6. \A k \in 1 .. Len(e) : Lines(s)[k] = SubSeq(s, from(k), e[k]) /\ Lines(s)[k] \in Seq(S)
  BY <1>4, <1>5
<1>7. Lines(s) \in Seq(Seq(S)) /\ Len(Lines(s)) = Len(e)
  <2>1. \A k \in 1 .. Len(e) : SubSeq(s, from(k), e[k]) \in Seq(S)
    BY <1>5
  <2>2. Lines(s) \in Seq(Seq(S))
    BY <1>3, <1>4, <2>1, IsASeq
  <2>3. DOMAIN Lines(s) = 1 .. Len(e)
    BY <1>4
  <2>4. DOMAIN Lines(s) = 1 .. Len(Lines(s)) /\ Len(Lines(s)) \in Nat
    BY <2>2, LenProperties
  <2> QED
    BY <1>3, <2>2, <2>3, <2>4
<1> QED
  BY <1>5, <1>6, <1>7 DEF e, from

(* All lines of a window but the first, which may be a fragment, are the   *)
(* lines of the log behind the one the window begins in.                   *)
LEMMA WindowLines ==
    ASSUME NEW S, NEW s \in Seq(S), NEW a \in Nat, a < Len(s)
    PROVE  LET w == SubSeq(s, a + 1, Len(s))
           IN  /\ Lines(w) # <<>> /\ Lines(w) \in Seq(Seq(S))
               /\ \E p \in 1 .. Len(Lines(s)) :
                    /\ p > 1 => LineEnds(s)[p - 1] <= a
                    /\ Tail(Lines(w)) = SubSeq(Lines(s), p + 1, Len(Lines(s)))
<1> DEFINE w == SubSeq(s, a + 1, Len(s))
           e == LineEnds(s)
           f == LineEnds(w)
<1>1. Len(s) \in Nat /\ \A i \in 1 .. Len(s) : s[i] \in S
  BY LenProperties, ElementOfSeq
<1>2. w \in Seq(S) /\ Len(w) = Len(s) - a
  <2>1. a + 1 \in Int /\ Len(s) \in Int /\ a + 1 <= Len(s) /\ Len(s) - (a + 1) + 1 = Len(s) - a
    BY <1>1
  <2>2. \A i \in a + 1 .. Len(s) : s[i] \in S
    BY <1>1
  <2> QED
    BY <2>1, <2>2, SubSeqProperties
<1>3. PICK p \in DOMAIN e :
         /\ p > 1 => e[p - 1] <= a
         /\ e[p] > a
         /\ Len(f) = Len(e) - p + 1
         /\ \A k \in 1 .. (Len(e) - p + 1) : f[k] = e[k + p - 1] - a
  BY WindowEnds
<1> DEFINE N == Len(e) - p + 1
<1>4. /\ e \in Seq(Nat) /\ Increasing(e)
      /\ \A k \in DOMAIN e : e[k] \in EndSet(s)
  BY <1>1, EndsFacts
<1>6. /\ Lines(s) \in Seq(Seq(S)) /\ Len(Lines(s)) = Len(e)
      /\ \A k \in 1 .. Len(e) :
            Lines(s)[k] = SubSeq(s, IF k = 1 THEN 1 ELSE e[k - 1] + 1, e[k])
  BY LinesFacts
<1>7. /\ Lines(w) \in Seq(Seq(S)) /\ Len(Lines(w)) = Len(f)
      /\ \A k \in 1 .. Len(f) :
            Lines(w)[k] = SubSeq(w, IF k = 1 THEN 1 ELSE f[k - 1] + 1, f[k])
  BY <1>2, LinesFacts
<1>w. w = SubSeq(s, a + 1, Len(s))
  OBVIOUS
<1> HIDE DEF w, e, f
<1>5. DOMAIN e = 1 .. Len(e) /\ Len(e) \in Nat /\ p \in 1 .. Len(e)
  BY <1>3, <1>4, LenProperties
<1>8. N \in Nat /\ N >= 1 /\ Len(Lines(w)) = N /\ Len(f) = N
  BY <1>3, <1>5, <1>7
<1>9. ASSUME NEW k \in 2 .. N
      PROVE  Lines(w)[k] = Lines(s)[k + p - 1]
  <2>1. /\ k - 1 \in 1 .. N /\ k \in 1 .. N /\ k # 1
        /\ k + p - 1 \in 1 .. Len(e) /\ k + p - 1 # 1 /\ (k - 1) + p - 1 \in 1 .. Len(e)
        /\ (k + p - 1) - 1 = (k - 1) + p - 1 /\ (k - 1) + p - 1 >= p
        /\ (k - 1) + p - 1 < k + p - 1
    BY <1>5, <1>8
  <2> DEFINE x == e[(k - 1) + p - 1]
             y == e[k + p - 1]
  <2>2. f[k - 1] = x - a /\ f[k] = y - a
    BY <1>3, <2>1
  <2>3. x \in 1 .. Len(s) /\ y \in 1 .. Len(s) /\ e[p] \in 1 .. Len(s)
    BY <1>4, <1>5, <2>1 DEF EndSet
  <2>4. x < y
    BY <1>4, <1>5, <2>1 DEF Increasing
  <2>5. x > a
    <3>1. (k - 1) + p - 1 = p \/ e[p] < x
      BY <1>4, <1>5, <2>1 DEF Increasing
    <3> HIDE DEF x
    <3>2. (k - 1) + p - 1 = p => x = e[p]
      BY DEF x
    <3> QED
      BY <1>1, <1>3, <2>3, <3>1, <3>2
  <2>6. Lines(s)[k + p - 1] = SubSeq(s, x + 1, y)
    BY <1>6, <2>1
  <2>7. Lines(w)[k] = SubSeq(w, (x - a) + 1, y - a)
    BY <1>7, <1>8, <2>1, <2>2
  <2> HIDE DEF x, y
  <2>8. /\ a + 1 \in 1 .. Len(s) /\ Len(s) \in 1 .. Len(s)
        /\ (x - a) + 1 \in 1 .. Len(s) - (a + 1) + 1 /\ y - a \in 1 .. Len(s) - (a + 1) + 1
        /\ (a + 1) + ((x - a) + 1) - 1 = x + 1 /\ (a + 1) + (y - a) - 1 = y
    BY <1>1, <2>3, <2>4, <2>5
  <2>9. SubSeq(w, (x - a) + 1, y - a)
          = SubSeq(s, (a + 1) + ((x - a) + 1) - 1, (a + 1) + (y - a) - 1)
    <3>1. \A i, j \in 1 .. Len(s) : \A u, v \in 1 .. j - i + 1 :
              SubSeq(SubSeq(s, i, j), u, v) = SubSeq(s, i + u - 1, i + v - 1)
      BY SubSeqOfSubSeq
    <3> QED
      BY <1>w, <2>8, <3>1
  <2> QED
    BY <2>6, <2>7, <2>8, <2>9
<1>10. Lines(w) # <<>>
  BY <1>8
<1>11. /\ Tail(Lines(w)) \in Seq(Seq(S)) /\ Len(Tail(Lines(w))) = N - 1
       /\ \A k \in 1 .. N - 1 : Tail(Lines(w))[k] = Lines(w)[k + 1]
  BY <1>7, <1>8, <1>10, HeadTailProperties
<1> DEFINE r == SubSeq(Lines(s), p + 1, Len(e))
<1>12. /\ r \in Seq(Seq(S)) /\ Len(r) = N - 1
       /\ \A k \in 1 .. N - 1 : r[k] = Lines(s)[(p + 1) + k - 1]
  <2>1. \A i \in p + 1 .. Len(e) : Lines(s)[i] \in Seq(S)
    BY <1>5, <1>6, ElementOfSeq
  <2>2. p + 1 \in Int /\ Len(e) \in Int
    BY <1>5
  <2>3. /\ r \in Seq(Seq(S)) /\ Len(r) = IF p + 1 <= Len(e) THEN Len(e) - (p + 1) + 1 ELSE 0
        /\ \A k \in 1 .. Len(e) - (p + 1) + 1 : r[k] = Lines(s)[(p + 1) + k - 1]
    BY <2>1, <2>2, SubSeqProperties
  <2>4. /\ N - 1 = Len(e) - (p + 1) + 1
        /\ N - 1 = IF p + 1 <= Len(e) THEN Len(e) - (p + 1) + 1 ELSE 0
    BY <1>5
  <2> HIDE DEF r, N
  <2> QED
    BY <2>3, <2>4
<1>13. \A k \in 1 .. N - 1 : Tail(Lines(w))[k] = r[k]
  <2> SUFFICES ASSUME NEW k \in 1 .. N - 1 PROVE Tail(Lines(w))[k] = r[k]
    OBVIOUS
  <2>1. k + 1 \in 2 .. N /\ (k + 1) + p - 1 = (p + 1) + k - 1
    BY <1>5, <1>8
  <2> QED
    BY <1>9, <1>11, <1>12, <2>1
<1>14. Tail(Lines(w)) = r
  <2> HIDE DEF r, N
  <2> QED
    BY <1>11, <1>12, <1>13, SeqEqual
<1> QED
  BY <1>3, <1>5, <1>6, <1>7, <1>10, <1>14 DEF w, e, f

(* The last lines of a list, as many as there are. *)
LEMMA LastOfFacts ==
    ASSUME NEW S, NEW s \in Seq(S), NEW k \in Nat
    PROVE  LET m == IF k <= Len(s) THEN k ELSE Len(s)
           IN  /\ LastOf(s, k) = SubSeq(s, Len(s) - m + 1, Len(s))
               /\ LastOf(s, k) \in Seq(S) /\ Len(LastOf(s, k)) = m
<1> DEFINE m == IF k <= Len(s) THEN k ELSE Len(s)
<1>1. Len(s) \in Nat
  BY LenProperties
<1>2. Max({1, Len(s) - k + 1}) = Len(s) - m + 1
  <2> DEFINE x == Len(s) - k + 1
             M == Len(s) - m + 1
  <2>1. M \in {1, x} /\ \A y \in {1, x} : M >= y
    <3>1. CASE k <= Len(s)
      <4>1. M = x /\ x >= 1
        BY <1>1, <3>1
      <4> QED
        BY <1>1, <4>1
    <3>2. CASE ~(k <= Len(s))
      <4>1. M = 1 /\ 1 >= x /\ 1 >= 1
        BY <1>1, <3>2
      <4> HIDE DEF M, x
      <4> QED
        BY <4>1
    <3> QED
      BY <3>1, <3>2
  <2>2. \A z \in {1, x} : (\A y \in {1, x} : z >= y) => z = M
    BY <1>1
  <2> HIDE DEF M
  <2>3. Max({1, x}) = M
    BY <2>1, <2>2 DEF Max
  <2> QED
    BY <2>3 DEF M
<1>3. m \in Nat /\ m <= Len(s) /\ Len(s) - m + 1 \in Int /\ Len(s) \in Int
  BY <1>1
<1>4. LastOf(s, k) = SubSeq(s, Len(s) - m + 1, Len(s))
  BY <1>2 DEF LastOf
<1> HIDE DEF m
<1>5. \A i \in Len(s) - m + 1 .. Len(s) : s[i] \in S
  BY <1>1, <1>3, ElementOfSeq
<1>6. /\ SubSeq(s, Len(s) - m + 1, Len(s)) \in Seq(S)
      /\ Len(SubSeq(s, Len(s) - m + 1, Len(s)))
           = IF Len(s) - m + 1 <= Len(s) THEN Len(s) - (Len(s) - m + 1) + 1 ELSE 0
  BY <1>3, <1>5, SubSeqProperties
<1>7. (IF Len(s) - m + 1 <= Len(s) THEN Len(s) - (Len(s) - m + 1) + 1 ELSE 0) = m
  BY <1>1, <1>3
<1> QED
  BY <1>4, <1>6, <1>7 DEF m

FlatRun(ss, m, e) ==
    e = [i \in 1 .. m |-> IF i = 1 THEN ss[i] ELSE e[i - 1] \o ss[i]]

(* FlattenSeq has a result for every list. *)
LEMMA FlatExists ==
    ASSUME NEW ss, Len(ss) \in Nat, Len(ss) # 0
    PROVE  \E e : FlatRun(ss, Len(ss), e) /\ FlattenSeq(ss) = e[Len(ss)]
<1> DEFINE T == {m \in Nat : \E e : FlatRun(ss, m, e)}
<1>1. 0 \in T
  <2> DEFINE e == [i \in 1 .. 0 |-> ss[i]]
  <2>1. \A i \in 1 .. 0 : FALSE
    OBVIOUS
  <2>2. FlatRun(ss, 0, e)
    BY <2>1 DEF FlatRun
  <2> QED
    BY <2>2
<1>2. ASSUME NEW m \in Nat, m \in T PROVE m + 1 \in T
  <2>1. PICK e : FlatRun(ss, m, e)
    BY <1>2
  <2> DEFINE last == IF m = 0 THEN ss[1] ELSE e[m] \o ss[m + 1]
             q == [i \in 1 .. m + 1 |-> IF i = m + 1 THEN last ELSE e[i]]
  <2>e. \A i \in 1 .. m : e[i] = IF i = 1 THEN ss[i] ELSE e[i - 1] \o ss[i]
    BY <2>1 DEF FlatRun
  <2>l. (m = 0 => last = ss[1]) /\ (m # 0 => last = e[m] \o ss[m + 1])
    OBVIOUS
  <2> HIDE DEF last
  <2>2. \A i \in 1 .. m : q[i] = e[i]
    OBVIOUS
  <2>3. q[m + 1] = last
    <3>1. m + 1 \in 1 .. m + 1
      OBVIOUS
    <3> QED
      BY <3>1
  <2>4. q = [i \in 1 .. m + 1 |-> q[i]]
    OBVIOUS
  <2> HIDE DEF q
  <2>5. ASSUME NEW i \in 1 .. m + 1
        PROVE  q[i] = IF i = 1 THEN ss[i] ELSE q[i - 1] \o ss[i]
    <3>1. CASE i = m + 1 /\ i # 1
      <4>1. m # 0 /\ i - 1 = m /\ m \in 1 .. m
        BY <3>1
      <4> QED
        BY <2>l, <2>2, <2>3, <3>1, <4>1
    <3>2. CASE i = m + 1 /\ i = 1
      <4>1. m = 0
        BY <3>2
      <4> QED
        BY <2>l, <2>3, <3>2, <4>1
    <3>3. CASE i # m + 1
      <4>1. i \in 1 .. m /\ (i # 1 => i - 1 \in 1 .. m)
        BY <3>3
      <4> QED
        BY <2>e, <2>2, <4>1
    <3> QED
      BY <3>1, <3>2, <3>3
  <2>6. FlatRun(ss, m + 1, q)
    BY <2>4, <2>5 DEF FlatRun
  <2> QED
    BY <2>6
<1>3. \E e : FlatRun(ss, Len(ss), e)
  <2> HIDE DEF T
  <2>1. Len(ss) \in T
    BY <1>1, <1>2, NatInd
  <2> QED
    BY <2>1 DEF T
<1>4. \E e : FlattenSeq(ss) = e[Len(ss)]
              /\ ((\E q : FlatRun(ss, Len(ss), q)) => FlatRun(ss, Len(ss), e))
  BY DEF FlattenSeq, FlatRun
<1> QED
  BY <1>3, <1>4

(* Pieces that lie end to end are as long together as from the start of    *)
(* the first to the end of the last.                                       *)
LEMMA FlatLength ==
    ASSUME NEW S, NEW ss \in Seq(Seq(S)), ss # <<>>, NEW h \in [0 .. Len(ss) -> Nat],
           \A k \in 1 .. Len(ss) : Len(ss[k]) = h[k] - h[k - 1]
    PROVE  Len(FlattenSeq(ss)) = h[Len(ss)] - h[0]
<1>1. Len(ss) \in Nat /\ Len(ss) # 0 /\ \A k \in 1 .. Len(ss) : ss[k] \in Seq(S)
  BY EmptySeq, LenProperties, ElementOfSeq
<1>2. PICK e : FlatRun(ss, Len(ss), e) /\ FlattenSeq(ss) = e[Len(ss)]
  BY <1>1, FlatExists
<1>e. \A i \in 1 .. Len(ss) : e[i] = IF i = 1 THEN ss[i] ELSE e[i - 1] \o ss[i]
  BY <1>2 DEF FlatRun
<1>h. \A i \in 0 .. Len(ss) : h[i] \in Nat
  OBVIOUS
<1> DEFINE Good(i) == e[i] \in Seq(S) /\ Len(e[i]) = h[i] - h[0]
           T == {i \in Nat : i + 1 <= Len(ss) => Good(i + 1)}
<1>3. 0 \in T
  <2>1. 1 \in 1 .. Len(ss) /\ 0 + 1 = 1
    BY <1>1
  <2>2. e[1] = ss[1]
    BY <1>e, <2>1
  <2>3. Len(ss[1]) = h[1] - h[1 - 1] /\ 1 - 1 = 0
    BY <2>1
  <2>4. Good(1)
    BY <1>1, <2>1, <2>2, <2>3
  <2> QED
    BY <2>1, <2>4
<1>4. ASSUME NEW i \in Nat, i \in T PROVE i + 1 \in T
  <2> SUFFICES ASSUME (i + 1) + 1 <= Len(ss) PROVE Good((i + 1) + 1)
    OBVIOUS
  <2> DEFINE j == i + 1
  <2>1. Good(j)
    BY <1>1, <1>4
  <2>2. j + 1 \in 1 .. Len(ss) /\ j + 1 # 1 /\ (j + 1) - 1 = j /\ j \in 0 .. Len(ss)
        /\ j + 1 \in 0 .. Len(ss) /\ 0 \in 0 .. Len(ss)
    BY <1>1
  <2> HIDE DEF j
  <2>3. e[j + 1] = e[j] \o ss[j + 1]
    BY <1>e, <2>2
  <2>4. Len(ss[j + 1]) = h[j + 1] - h[j] /\ ss[j + 1] \in Seq(S)
    BY <1>1, <2>2
  <2>5. e[j + 1] \in Seq(S) /\ Len(e[j + 1]) = Len(e[j]) + Len(ss[j + 1])
    <3>1. e[j] \in Seq(S) /\ ss[j + 1] \in Seq(S)
      BY <2>1, <2>4
    <3> HIDE DEF Good
    <3> QED
      BY <2>3, <3>1, ConcatProperties
  <2>6. h[j + 1] \in Nat /\ h[j] \in Nat /\ h[0] \in Nat
    BY <1>h, <2>2
  <2>7. (h[j] - h[0]) + (h[j + 1] - h[j]) = h[j + 1] - h[0]
    BY <2>6
  <2>8. Good(j + 1)
    BY <2>1, <2>4, <2>5, <2>7
  <2> QED
    BY <2>8 DEF j
<1>5. Good(Len(ss))
  <2>1. Len(ss) - 1 \in Nat /\ (Len(ss) - 1) + 1 = Len(ss)
    BY <1>1
  <2> HIDE DEF T
  <2>2. Len(ss) - 1 \in T
    BY <1>3, <1>4, <2>1, NatInd
  <2>3. Len(ss) <= Len(ss)
    BY <1>1
  <2> QED
    BY <2>1, <2>2, <2>3 DEF T
<1> QED
  BY <1>2, <1>5

(* The last lines of a log, from the p-th on, have all its bytes behind    *)
(* the end of the line before.                                             *)
LEMMA LastBytes ==
    ASSUME NEW S, NEW s \in Seq(S), s # <<>>, NEW p \in 1 .. Len(Lines(s))
    PROVE  Len(FlattenSeq(SubSeq(Lines(s), p, Len(Lines(s)))))
             = Len(s) - (IF p = 1 THEN 0 ELSE LineEnds(s)[p - 1])
<1> DEFINE e == LineEnds(s)
           L == Lines(s)
           ss == SubSeq(L, p, Len(L))
           start(k) == IF k = 1 THEN 0 ELSE e[k - 1]
<1>1. Len(s) \in Nat /\ Len(s) # 0
  BY EmptySeq, LenProperties
<1>2. /\ L \in Seq(Seq(S)) /\ Len(L) = Len(e)
      /\ \A k \in 1 .. Len(e) : Len(L[k]) = e[k] - start(k)
  BY LinesFacts
<1>3. /\ e \in Seq(Nat) /\ Increasing(e)
      /\ \A k \in DOMAIN e : e[k] \in EndSet(s)
      /\ \A x \in EndSet(s) : \E k \in DOMAIN e : e[k] = x
  BY <1>1, EndsFacts
<1> HIDE DEF e, L
<1>4. DOMAIN e = 1 .. Len(e) /\ Len(e) \in Nat /\ p \in 1 .. Len(e)
  BY <1>2, <1>3, LenProperties DEF L
<1>5. \A k \in 1 .. Len(e) : e[k] \in 1 .. Len(s)
  BY <1>3, <1>4 DEF EndSet
<1>6. e[Len(e)] = Len(s)
  <2>1. Len(s) \in EndSet(s)
    BY <1>1 DEF EndSet
  <2>2. PICK k \in DOMAIN e : e[k] = Len(s)
    BY <1>3, <2>1
  <2>3. k = Len(e) \/ k < Len(e)
    BY <1>4
  <2>4. k < Len(e) => e[k] < e[Len(e)]
    BY <1>3, <1>4 DEF Increasing
  <2>5. e[Len(e)] \in 1 .. Len(s)
    BY <1>4, <1>5
  <2> QED
    BY <1>1, <2>2, <2>3, <2>4, <2>5
<1> DEFINE N == Len(e) - p + 1
           h == [k \in 0 .. N |-> start(p + k)]
<1>7. N \in Nat /\ N >= 1
  BY <1>4
<1>8. /\ ss \in Seq(Seq(S)) /\ Len(ss) = N
      /\ \A k \in 1 .. N : ss[k] = L[p + k - 1]
  <2>1. \A i \in p .. Len(L) : L[i] \in Seq(S)
    BY <1>2, <1>4, ElementOfSeq
  <2>2. p \in Int /\ Len(L) \in Int /\ p <= Len(L) /\ Len(L) - p + 1 = N
    BY <1>2, <1>4
  <2> HIDE DEF N
  <2> QED
    BY <2>1, <2>2, SubSeqProperties
<1>9. \A k \in 1 .. Len(e) + 1 : start(k) \in Nat
  <2> SUFFICES ASSUME NEW k \in 1 .. Len(e) + 1 PROVE start(k) \in Nat
    OBVIOUS
  <2>1. k # 1 => k - 1 \in 1 .. Len(e)
    BY <1>4
  <2> QED
    BY <1>5, <2>1
<1>s. start(Len(e) + 1) = Len(s)
  <2>1. Len(e) + 1 # 1 /\ (Len(e) + 1) - 1 = Len(e)
    BY <1>4
  <2> QED
    BY <1>6, <2>1
<1>t. \A k \in 1 .. Len(e) : start(k + 1) = e[k]
  <2> SUFFICES ASSUME NEW k \in 1 .. Len(e) PROVE start(k + 1) = e[k]
    OBVIOUS
  <2>1. k + 1 # 1 /\ (k + 1) - 1 = k
    BY <1>4
  <2> QED
    BY <2>1
<1>p. start(p) = IF p = 1 THEN 0 ELSE e[p - 1]
  OBVIOUS
<1> HIDE DEF start, ss
<1>10. h \in [0 .. N -> Nat]
  <2>1. \A k \in 0 .. N : p + k \in 1 .. Len(e) + 1
    BY <1>4
  <2> QED
    BY <1>9, <2>1
<1>11. \A k \in 1 .. N : Len(ss[k]) = h[k] - h[k - 1]
  <2> SUFFICES ASSUME NEW k \in 1 .. N PROVE Len(ss[k]) = h[k] - h[k - 1]
    OBVIOUS
  <2>1. /\ p + k - 1 \in 1 .. Len(e) /\ (p + k - 1) + 1 = p + k /\ p + (k - 1) = p + k - 1
        /\ k \in 0 .. N /\ k - 1 \in 0 .. N
    BY <1>4, <1>7
  <2>2. h[k] = start(p + k) /\ h[k - 1] = start(p + k - 1)
    BY <2>1
  <2>3. start(p + k) = e[p + k - 1]
    BY <1>t, <2>1
  <2>4. Len(ss[k]) = e[p + k - 1] - start(p + k - 1)
    BY <1>2, <1>8, <2>1
  <2> QED
    BY <2>2, <2>3, <2>4
<1>12. h[N] = Len(s) /\ h[0] = start(p)
  <2>1. N \in 0 .. N /\ 0 \in 0 .. N /\ p + N = Len(e) + 1 /\ p + 0 = p
    BY <1>4, <1>7
  <2>2. h[N] = start(p + N) /\ h[0] = start(p + 0)
    BY <2>1
  <2> QED
    BY <1>s, <2>1, <2>2
<1> HIDE DEF h, N
<1>13. ss # <<>>
  BY <1>7, <1>8
<1>14. Len(FlattenSeq(ss)) = h[N] - h[0]
  BY <1>8, <1>10, <1>11, <1>13, FlatLength
<1> QED
  BY <1>12, <1>14, <1>p DEF ss, L, e

(* An empty buffer has no lines. *)
LEMMA NoLines == Lines(<<>>) = <<>>
<1>1. Len(<<>>) = 0 /\ <<>> \in Seq(Nat)
  OBVIOUS
<1>2. LineEnds(<<>>) \in Seq(Nat) /\ \A k \in DOMAIN LineEnds(<<>>) : LineEnds(<<>>)[k] \in EndSet(<<>>)
  BY <1>1, EndsFacts
<1>3. EndSet(<<>>) = {}
  BY <1>1 DEF EndSet
<1>4. DOMAIN LineEnds(<<>>) = {}
  BY <1>2, <1>3
<1>5. Len(LineEnds(<<>>)) = 0
  <2>1. DOMAIN LineEnds(<<>>) = 1 .. Len(LineEnds(<<>>)) /\ Len(LineEnds(<<>>)) \in Nat
    BY <1>2, LenProperties
  <2>2. \A x \in Nat : 1 .. x = {} => x = 0
    OBVIOUS
  <2> QED
    BY <1>4, <2>1, <2>2
<1>6. Lines(<<>>) \in Seq(Seq(Nat)) /\ Len(Lines(<<>>)) = 0
  BY <1>1, <1>5, LinesFacts
<1> QED
  BY <1>6

(* What is asked of the lines that tail() serves of a log. *)
Recent(s, ls) ==
    LET m == Len(ls)
    IN  /\ m <= lines /\ ls = LastOf(Lines(s), m)
        /\ \/ m = lines \/ m = Len(Lines(s))
           \/ Len(FlattenSeq(LastOf(Lines(s), m + 1))) >= MaxTailBytes

(* tail() keeps that promise for the window it read: the whole log, or its *)
(* last MaxTailBytes bytes.                                                *)
LEMMA ServedRecent ==
    ASSUME NEW S, NEW s \in Seq(S), lines \in Nat, len = Len(s), want \in Nat,
           want = len \/ (want < len /\ want = MaxTailBytes),
           Served(SubSeq(s, Len(s) - want + 1, Len(s))) # <<>>
    PROVE  Recent(s, Served(SubSeq(s, Len(s) - want + 1, Len(s))))
<1> DEFINE L == Lines(s)
           buf == SubSeq(s, Len(s) - want + 1, Len(s))
           ls == Served(buf)
           m == Len(ls)
<1>1. Len(s) \in Nat
  BY LenProperties
<1>2. L \in Seq(Seq(S)) /\ Len(L) \in Nat
  BY LinesFacts, LenProperties
<1>b. buf = SubSeq(s, Len(s) - want + 1, Len(s)) /\ ls # <<>>
  OBVIOUS
<1>3. CASE want = len
  <2>1. Len(s) - want + 1 = 1
    BY <1>1, <1>3
  <2>2. buf = s
    BY <2>1, SubSeqFull
  <2>3. ls = LastOf(L, lines)
    <3> HIDE DEF buf
    <3>1. ~(want < len)
      BY <1>1, <1>3
    <3> QED
      BY <2>2, <3>1 DEF Served
  <2> HIDE DEF buf, ls, L
  <2>4. /\ m = IF lines <= Len(L) THEN lines ELSE Len(L)
        /\ ls = SubSeq(L, Len(L) - m + 1, Len(L))
    <3> DEFINE x == IF lines <= Len(L) THEN lines ELSE Len(L)
    <3>1. /\ LastOf(L, lines) = SubSeq(L, Len(L) - x + 1, Len(L))
          /\ Len(LastOf(L, lines)) = x
      BY <1>2, LastOfFacts
    <3> HIDE DEF x
    <3>2. m = x /\ ls = SubSeq(L, Len(L) - x + 1, Len(L))
      BY <2>3, <3>1
    <3>3. ls = SubSeq(L, Len(L) - m + 1, Len(L))
      BY <3>2
    <3> QED
      BY <3>2, <3>3 DEF x
  <2>5. m \in Nat /\ m <= Len(L) /\ m <= lines /\ (m = lines \/ m = Len(L))
    BY <1>2, <2>4
  <2> HIDE DEF m
  <2>6. LastOf(L, m) = SubSeq(L, Len(L) - m + 1, Len(L))
    BY <1>2, <2>5, LastOfFacts
  <2> QED
    BY <2>4, <2>5, <2>6 DEF Recent, m, ls, L, buf
<1>4. CASE want < len /\ want = MaxTailBytes
  <2> DEFINE a == Len(s) - want
             t == Tail(Lines(buf))
  <2>1. a \in Nat /\ a + 1 = Len(s) - want + 1 /\ Len(s) - a = want
    BY <1>1, <1>4
  <2>2. want # 0
    <3> SUFFICES ASSUME want = 0 PROVE FALSE
      OBVIOUS
    <3>1. Len(s) < Len(s) - want + 1 /\ Len(s) - want + 1 \in Int /\ Len(s) \in Int
      BY <1>1
    <3>2. buf = <<>>
      BY <3>1, SubSeqEmpty
    <3>3. Lines(buf) = <<>>
      BY <3>2, NoLines
    <3>4. ls = LastOf(<<>>, lines)
      <4> HIDE DEF buf
      <4> QED
        BY <3>3 DEF Served
    <3>5. <<>> \in Seq(Nat) /\ Len(<<>>) = 0
      OBVIOUS
    <3> HIDE DEF ls, buf
    <3>6. ls \in Seq(Nat) /\ Len(ls) = IF lines <= 0 THEN lines ELSE 0
      BY <3>4, <3>5, LastOfFacts
    <3>7. Len(ls) = 0
      BY <3>6
    <3> QED
      BY <1>b, <3>6, <3>7
  <2>3. a < Len(s)
    BY <1>1, <1>4, <2>2
  <2>4. /\ Lines(buf) # <<>>
        /\ \E p \in 1 .. Len(L) : /\ p > 1 => LineEnds(s)[p - 1] <= a
                                  /\ t = SubSeq(L, p + 1, Len(L))
    <3>1. buf = SubSeq(s, a + 1, Len(s))
      BY <2>1
    <3> HIDE DEF a, buf
    <3> QED
      BY <2>1, <2>3, <3>1, WindowLines
  <2>5. PICK p \in 1 .. Len(L) : /\ p > 1 => LineEnds(s)[p - 1] <= a
                                 /\ t = SubSeq(L, p + 1, Len(L))
    BY <2>4
  <2>6. ls = LastOf(t, lines)
    <3> HIDE DEF buf
    <3> QED
      BY <1>4, <2>4 DEF Served
  <2> HIDE DEF ls, t, buf, L
  <2>7. /\ t \in Seq(Seq(S)) /\ Len(t) = Len(L) - p
    <3>1. \A i \in p + 1 .. Len(L) : L[i] \in Seq(S)
      BY <1>2, ElementOfSeq
    <3>2. p + 1 \in Int /\ Len(L) \in Int
      BY <1>2
    <3>3. /\ t \in Seq(Seq(S))
          /\ Len(t) = IF p + 1 <= Len(L) THEN Len(L) - (p + 1) + 1 ELSE 0
      BY <2>5, <3>1, <3>2, SubSeqProperties
    <3>4. (IF p + 1 <= Len(L) THEN Len(L) - (p + 1) + 1 ELSE 0) = Len(L) - p
      BY <1>2
    <3> QED
      BY <3>3, <3>4
  <2>8. /\ ls \in Seq(Seq(S)) /\ m = (IF lines <= Len(t) THEN lines ELSE Len(t))
        /\ ls = SubSeq(t, Len(t) - m + 1, Len(t))
    <3> DEFINE x == IF lines <= Len(t) THEN lines ELSE Len(t)
    <3>1. /\ LastOf(t, lines) = SubSeq(t, Len(t) - x + 1, Len(t))
          /\ LastOf(t, lines) \in Seq(Seq(S)) /\ Len(LastOf(t, lines)) = x
      BY <2>7, LastOfFacts
    <3> HIDE DEF x
    <3>2. ls \in Seq(Seq(S)) /\ m = x /\ ls = SubSeq(t, Len(t) - x + 1, Len(t))
      BY <2>6, <3>1
    <3>3. ls = SubSeq(t, Len(t) - m + 1, Len(t))
      BY <3>2
    <3> QED
      BY <3>2, <3>3 DEF x
  <2>9. m \in Nat /\ m # 0
    BY <1>b, <2>8, EmptySeq
  <2> HIDE DEF m
  <2>10. /\ m <= lines /\ m <= Len(L) /\ m <= Len(t)
         /\ (m = lines \/ m = Len(L) - p)
    BY <1>2, <2>7, <2>8
  <2>11. LastOf(L, m) = SubSeq(L, Len(L) - m + 1, Len(L))
    BY <1>2, <2>9, <2>10, LastOfFacts
  <2>12. ls = LastOf(L, m)
    <3>1. \A i, j \in 1 .. Len(L) : \A u, v \in 1 .. j - i + 1 :
              SubSeq(SubSeq(L, i, j), u, v) = SubSeq(L, i + u - 1, i + v - 1)
      BY <1>2, SubSeqOfSubSeq
    <3>2. /\ p + 1 \in 1 .. Len(L) /\ Len(L) \in 1 .. Len(L)
          /\ Len(t) - m + 1 \in 1 .. Len(L) - (p + 1) + 1 /\ Len(t) \in 1 .. Len(L) - (p + 1) + 1
          /\ (p + 1) + (Len(t) - m + 1) - 1 = Len(L) - m + 1
          /\ (p + 1) + Len(t) - 1 = Len(L)
      BY <1>2, <2>7, <2>9, <2>10
    <3>3. SubSeq(SubSeq(L, p + 1, Len(L)), Len(t) - m + 1, Len(t))
            = SubSeq(L, (p + 1) + (Len(t) - m + 1) - 1, (p + 1) + Len(t) - 1)
      BY <3>1, <3>2
    <3> QED
      BY <2>5, <2>8, <2>11, <3>2, <3>3
  <2>13. m = lines \/ Len(FlattenSeq(LastOf(L, m + 1))) >= MaxTailBytes
    <3> SUFFICES ASSUME m # lines
                 PROVE  Len(FlattenSeq(LastOf(L, m + 1))) >= MaxTailBytes
      OBVIOUS
    <3>1. /\ m + 1 \in Nat /\ m + 1 <= Len(L) /\ Len(L) - (m + 1) + 1 = p
      BY <1>2, <2>9, <2>10
    <3>2. LastOf(L, m + 1) = SubSeq(L, Len(L) - (m + 1) + 1, Len(L))
      BY <1>2, <3>1, LastOfFacts
    <3>3. LastOf(L, m + 1) = SubSeq(L, p, Len(L))
      BY <3>1, <3>2
    <3>4. s # <<>>
      BY <2>1, <2>3
    <3>5. Len(FlattenSeq(SubSeq(L, p, Len(L)))) = Len(s) - (IF p = 1 THEN 0 ELSE LineEnds(s)[p - 1])
      BY <3>4, LastBytes DEF L
    <3>6. CASE p = 1
      <4>1. Len(FlattenSeq(LastOf(L, m + 1))) = Len(s) - 0
        BY <3>3, <3>5, <3>6
      <4>2. Len(s) - 0 >= want
        BY <1>1, <1>4
      <4> QED
        BY <1>4, <4>1, <4>2
    <3>7. CASE p # 1
      <4>1. p > 1 /\ p - 1 \in 1 .. Len(LineEnds(s))
        <5>1. Len(L) = Len(LineEnds(s))
          BY LinesFacts DEF L
        <5> QED
          BY <1>2, <3>7, <5>1
      <4>2. LineEnds(s) \in Seq(Nat)
        BY <1>1, EndsFacts
      <4>3. LineEnds(s)[p - 1] \in Nat
        BY <4>1, <4>2, ElementOfSeq
      <4>4. LineEnds(s)[p - 1] <= a
        BY <2>5, <4>1
      <4>5. Len(FlattenSeq(LastOf(L, m + 1))) = Len(s) - LineEnds(s)[p - 1]
        BY <3>3, <3>5, <3>7
      <4>6. Len(s) - LineEnds(s)[p - 1] >= want
        BY <1>1, <2>1, <4>3, <4>4
      <4> QED
        BY <1>4, <4>5, <4>6
    <3> QED
      BY <3>6, <3>7
  <2> QED
    BY <2>10, <2>12, <2>13 DEF Recent, m, ls, L, buf
<1> QED
  BY <1>3, <1>4

(***************************************************************************)
(* The state of tail() between its calls, as far as the open file was left *)
(* alone: at the second seek the length is still that of the file, and at  *)
(* the read the window still shows the end of the log as it was then,      *)
(* whatever nginx has appended and logrotate has moved away since.         *)
(***************************************************************************)
Byte == Nat \X Nat

Placed == want = len \/ (want < len /\ want = MaxTailBytes)

TailState ==
    /\ file \in Seq(Byte) /\ fd \in Seq(Byte) /\ atSeek \in Seq(Byte)
    /\ len \in Nat /\ pos \in Nat /\ want \in Nat /\ lines \in Nat /\ written \in Nat
    /\ moved \in BOOLEAN
    /\ file = Missing \/ Len(file) # 1
    /\ TailAt /\ fd = AtPath => file # Missing
    /\ pc = "seek" /\ ~moved => len = Len(Content) /\ Placed
    /\ pc = "read" /\ ~moved =>
          /\ len = Len(atSeek) /\ Placed /\ pos = len - want
          /\ len <= Len(Content) /\ \A i \in 1 .. len : Content[i] = atSeek[i]

TailInv == TailState /\ TailIsRecent

(* A step outside tail() leaves its state alone and answers with no lines. *)
LEMMA TailAlone ==
    ASSUME TailInv, UNCHANGED <<file, fd, atSeek, len, pos, want, written, moved>>,
           lines' \in Nat,
           \/ pc' = pc /\ lines' = lines /\ resp' = resp
           \/ pc' \notin {"length", "seek", "read"} /\ (pc' = "write" => resp'.lines = <<>>)
    PROVE  TailInv'
<1>1. Content' = Content
  BY DEF Content
<1>2. TailState'
  BY <1>1 DEF TailInv, TailState, TailAt, Placed
<1>3. TailIsRecent'
  <2>1. CASE pc' = pc /\ lines' = lines /\ resp' = resp
    BY <2>1 DEF TailInv, TailIsRecent
  <2>2. CASE pc' = "write" => resp'.lines = <<>>
    BY <2>2 DEF TailIsRecent
  <2> QED
    BY <2>1, <2>2
<1> QED
  BY <1>2, <1>3 DEF TailInv

(* Every step of the server outside tail() is one. *)
LEMMA ServerAlone ==
    ASSUME TailInv,
           \/ Boot \/ Unreadable \/ RequestLine \/ HeaderLine \/ Route \/ CheckRequest
           \/ Write \/ PeerCloses \/ (\E x \in {"\r", "\n", "other"} : PeerSends(x))
           \/ Reconfigure \/ UNCHANGED uiVars
    PROVE  TailInv'
<1>1. UNCHANGED <<file, fd, atSeek, len, pos, want, written, moved>>
  BY DEF Boot, Unreadable, RequestLine, HeaderLine, Route, CheckRequest, Write,
     PeerCloses, PeerSends, Reconfigure, uiVars, tailVars, world
<1>2. CASE Boot \/ Unreadable \/ RequestLine \/ HeaderLine \/ Route \/ Write
  <2>1. lines' = lines
    BY <1>2 DEF Boot, Unreadable, RequestLine, HeaderLine, Route, Write
  <2>2. \/ pc' = pc /\ lines' = lines /\ resp' = resp
        \/ pc' \notin {"length", "seek", "read"} /\ (pc' = "write" => resp'.lines = <<>>)
    <3>1. CASE Boot
      BY <3>1 DEF Boot
    <3>2. CASE Unreadable
      BY <3>2 DEF Unreadable, Error, Respond
    <3>3. CASE RequestLine
      BY <3>3 DEF RequestLine, Error, Respond
    <3>4. CASE HeaderLine
      BY <3>4, <2>1 DEF HeaderLine, Error, Respond
    <3>5. CASE Route
      BY <3>5 DEF Route, Error, Respond
    <3>6. CASE Write
      BY <3>6 DEF Write
    <3> QED
      BY <1>2, <3>1, <3>2, <3>3, <3>4, <3>5, <3>6
  <2>3. lines' \in Nat
    BY <2>1 DEF TailInv, TailState
  <2> QED
    BY <1>1, <2>2, <2>3, TailAlone
<1>3. CASE CheckRequest
  <2>1. \/ pc' = "open"
        \/ pc' = "write" /\ resp'.lines = <<>>
    BY <1>3 DEF CheckRequest, Error, Respond
  <2>2. \/ lines' = lines
        \/ \E k \in Asked : lines' = Clamp(IF k = 0 THEN 100 ELSE k)
    BY <1>3 DEF CheckRequest
  <2>3. \A k \in Nat : Clamp(k) \in Nat
    <3> SUFFICES ASSUME NEW k \in Nat PROVE Clamp(k) \in Nat
      OBVIOUS
    <3>1. MaxTailLines \in Nat
      BY DashboardAssumption
    <3>2. \E x \in {k, MaxTailLines} : \A y \in {k, MaxTailLines} : x <= y
      BY <3>1
    <3>3. Min({k, MaxTailLines}) \in {k, MaxTailLines}
      BY <3>2 DEF Min
    <3> DEFINE z == Min({k, MaxTailLines})
    <3>4. z \in Nat
      BY <3>1, <3>3
    <3> HIDE DEF z
    <3>5. \E x \in {1, z} : \A y \in {1, z} : x >= y
      BY <3>4
    <3>6. Max({1, z}) \in {1, z}
      BY <3>5 DEF Max
    <3>7. Max({1, z}) \in Nat
      BY <3>4, <3>6
    <3> QED
      BY <3>7 DEF Clamp, z
  <2>4. lines' \in Nat
    <3>1. lines \in Nat
      BY DEF TailInv, TailState
    <3>2. \A k \in Asked : (IF k = 0 THEN 100 ELSE k) \in Nat
      BY DashboardAssumption
    <3> QED
      BY <2>2, <2>3, <3>1, <3>2
  <2> QED
    BY <1>1, <2>1, <2>4, TailAlone
<1>4. CASE PeerCloses \/ (\E x \in {"\r", "\n", "other"} : PeerSends(x))
           \/ Reconfigure \/ UNCHANGED uiVars
  <2>1. pc' = pc /\ lines' = lines /\ resp' = resp
    BY <1>4 DEF PeerCloses, PeerSends, Reconfigure, uiVars
  <2>2. lines' \in Nat
    BY <2>1 DEF TailInv, TailState
  <2> QED
    BY <1>1, <2>1, <2>2, TailAlone
<1> QED
  BY <1>2, <1>3, <1>4

(* A connection starts with tail()'s variables empty. *)
LEMMA TailAccept == TailInv /\ Accept => TailInv'
<1> SUFFICES ASSUME TailInv, Accept PROVE TailInv'
  OBVIOUS
<1>1. /\ pc' = "line" /\ lines' = 0 /\ fd' = AtPath /\ len' = 0 /\ pos' = 0 /\ want' = 0
      /\ atSeek' = <<>> /\ moved' = FALSE /\ file' = file /\ written' = written
  BY DEF Accept, world
<1>2. AtPath \in Seq(Byte)
  BY DEF AtPath, Byte
<1>3. TailState'
  <2>1. file' \in Seq(Byte) /\ fd' \in Seq(Byte) /\ atSeek' \in Seq(Byte)
    BY <1>1, <1>2 DEF TailInv, TailState
  <2>2. /\ len' \in Nat /\ pos' \in Nat /\ want' \in Nat /\ lines' \in Nat
        /\ written' \in Nat /\ moved' \in BOOLEAN
        /\ file' = Missing \/ Len(file') # 1
    BY <1>1 DEF TailInv, TailState
  <2> QED
    BY <1>1, <2>1, <2>2 DEF TailState, TailAt
<1> QED
  BY <1>1, <1>3 DEF TailInv, TailIsRecent

(* tail() opens the log, or finds that there is none. *)
LEMMA TailOpen == TailInv /\ Open => TailInv'
<1> SUFFICES ASSUME TailInv, Open PROVE TailInv'
  OBVIOUS
<1>1. UNCHANGED <<file, fd, atSeek, len, pos, want, written, moved, lines>> /\ lines' \in Nat
  BY DEF Open, tailVars, world, TailInv, TailState
<1>2. CASE pc' = "write" /\ resp'.lines = <<>>
  BY <1>1, <1>2, TailAlone
<1>3. CASE pc' = "length" /\ file # Missing
  BY <1>1, <1>3 DEF TailInv, TailState, TailIsRecent, TailAt
<1> QED
  BY <1>2, <1>3 DEF Open, Error, Respond

(* The first seek gives the length, and the window its size. *)
LEMMA TailSeekEnd == TailInv /\ SeekEnd => TailInv'
<1> SUFFICES ASSUME TailInv, SeekEnd PROVE TailInv'
  OBVIOUS
<1>1. /\ UNCHANGED <<file, fd, atSeek, pos, written, moved, lines>>
      /\ pc = "length" /\ pc' = "seek" /\ len' = Len(Content)
      /\ want' = Min({MaxTailBytes, len'})
  BY DEF SeekEnd, world
<1>2. Content' = Content /\ Content \in Seq(Byte)
  BY <1>1 DEF Content, TailInv, TailState
<1>3. len' \in Nat
  BY <1>1, <1>2, LenProperties
<1>4. want' \in Nat /\ (want' = len' \/ (want' < len' /\ want' = MaxTailBytes))
  <2>1. MaxTailBytes \in Nat
    BY DashboardAssumption
  <2>2. \E x \in {MaxTailBytes, len'} : \A y \in {MaxTailBytes, len'} : x <= y
    BY <1>3, <2>1
  <2>3. /\ want' \in {MaxTailBytes, len'}
        /\ \A y \in {MaxTailBytes, len'} : want' <= y
    BY <1>1, <2>2 DEF Min
  <2> QED
    BY <1>3, <2>1, <2>3
<1>5. TailState'
  BY <1>1, <1>2, <1>3, <1>4 DEF TailInv, TailState, TailAt, Placed
<1> QED
  BY <1>1, <1>5 DEF TailInv, TailIsRecent

(* The second seek places the window at the end of the file, or fails.     *)
LEMMA TailSeekBack == TailInv /\ SeekBack => TailInv'
<1> SUFFICES ASSUME TailInv, SeekBack PROVE TailInv'
  OBVIOUS
<1>1. /\ UNCHANGED <<file, fd, len, want, written, moved, lines>>
      /\ pc = "seek" /\ atSeek' = Content
      /\ IF want > Len(Content) THEN Error(500) /\ UNCHANGED pos
         ELSE pos' = Len(Content) - want /\ pc' = "read" /\ UNCHANGED resp
  BY DEF SeekBack, world
<1>2. Content' = Content /\ Content \in Seq(Byte)
  BY <1>1 DEF Content, TailInv, TailState
<1>3. Len(Content) \in Nat /\ want \in Nat
  BY <1>2, LenProperties DEF TailInv, TailState
<1>4. CASE want > Len(Content)
  <2>1. pc' = "write" /\ resp'.lines = <<>> /\ pos' = pos
    BY <1>1, <1>4 DEF Error, Respond
  <2>2. TailState'
    BY <1>1, <1>2, <2>1 DEF TailInv, TailState, TailAt
  <2> QED
    BY <2>1, <2>2 DEF TailInv, TailIsRecent
<1>5. CASE ~(want > Len(Content))
  <2>1. pos' = Len(Content) - want /\ pc' = "read" /\ pos' \in Nat
    BY <1>1, <1>3, <1>5
  <2>2. ~moved => len = Len(Content) /\ Placed
    BY <1>1 DEF TailInv, TailState
  <2>3. Len(atSeek') = Len(Content) /\ len' = len /\ want' = want /\ moved' = moved
    BY <1>1
  <2>4. Placed' <=> Placed
    BY <2>3 DEF Placed
  <2>5. ~moved' =>
           /\ len' = Len(atSeek') /\ Placed' /\ pos' = len' - want'
           /\ len' <= Len(Content') /\ \A i \in 1 .. len' : Content'[i] = atSeek'[i]
    BY <1>1, <1>2, <1>3, <2>1, <2>2, <2>3, <2>4
  <2>6. TailState'
    BY <1>1, <1>2, <2>1, <2>5 DEF TailInv, TailState, TailAt
  <2> QED
    BY <2>1, <2>6 DEF TailInv, TailIsRecent
<1> QED
  BY <1>4, <1>5

(* The read serves the lines of that window. *)
LEMMA TailRead == TailInv /\ Read => TailInv'
<1> SUFFICES ASSUME TailInv, Read PROVE TailInv'
  OBVIOUS
<1>1. /\ UNCHANGED <<file, fd, atSeek, len, pos, want, written, moved, lines>>
      /\ pc = "read" /\ pc' = "write"
      /\ \/ resp'.lines = <<>>
         \/ /\ ~(pos + want > Len(Content))
            /\ resp'.lines = Served(SubSeq(Content, pos + 1, pos + want))
  BY DEF Read, Error, Respond, tailVars, world
<1>2. TailState'
  BY <1>1 DEF TailInv, TailState, TailAt
<1>3. TailIsRecent'
  <2> SUFFICES ASSUME resp'.lines # <<>>, ~moved
               PROVE  Recent(atSeek, resp'.lines)
    BY <1>1 DEF TailIsRecent, Recent
  <2>1. /\ len = Len(atSeek) /\ Placed /\ pos = len - want
        /\ len <= Len(Content) /\ \A i \in 1 .. len : Content[i] = atSeek[i]
        /\ len \in Nat /\ want \in Nat /\ atSeek \in Seq(Byte) /\ lines \in Nat
    BY <1>1 DEF TailInv, TailState
  <2>2. Content \in Seq(Byte)
    BY DEF Content, TailInv, TailState
  <2>3. want <= len
    BY <2>1 DEF Placed
  <2>4. pos + 1 = len - want + 1 /\ pos + want = len /\ pos + 1 \in Int /\ len \in Int
        /\ pos + 1 >= 1
    BY <2>1, <2>3
  <2> DEFINE u == SubSeq(Content, len - want + 1, len)
             v == SubSeq(atSeek, len - want + 1, len)
             d == len - want + 1
  <2>5. u = v
    <3>1. d \in Int /\ d >= 1 /\ len \in Int
      BY <2>4
    <3>2. \A i \in d .. len : i \in 1 .. len /\ Content[i] = atSeek[i] /\ atSeek[i] \in Byte
      <4>1. \A i \in d .. len : i \in 1 .. len
        BY <3>1
      <4> HIDE DEF d
      <4>2. \A i \in 1 .. len : atSeek[i] \in Byte
        BY <2>1, ElementOfSeq
      <4> QED
        BY <2>1, <4>1, <4>2
    <3>3. /\ u \in Seq(Byte) /\ Len(u) = (IF d <= len THEN len - d + 1 ELSE 0)
          /\ \A i \in 1 .. len - d + 1 : u[i] = Content[d + i - 1]
      <4> HIDE DEF d
      <4>1. \A i \in d .. len : Content[i] \in Byte
        BY <3>2
      <4> QED
        BY <3>1, <4>1, SubSeqProperties DEF d
    <3>4. /\ v \in Seq(Byte) /\ Len(v) = (IF d <= len THEN len - d + 1 ELSE 0)
          /\ \A i \in 1 .. len - d + 1 : v[i] = atSeek[d + i - 1]
      <4>1. \A i \in d .. len : atSeek[i] \in Byte
        BY <3>2
      <4> QED
        BY <3>1, <4>1, SubSeqProperties
    <3> HIDE DEF d, u, v
    <3>5. Len(u) = Len(v) /\ \A i \in 1 .. Len(u) : i \in 1 .. len - d + 1 /\ d + i - 1 \in d .. len
      BY <3>1, <3>3, <3>4
    <3>6. \A i \in 1 .. Len(u) : u[i] = v[i]
      BY <3>2, <3>3, <3>4, <3>5
    <3> QED
      BY <3>3, <3>4, <3>5, <3>6, SeqEqual
  <2>6. resp'.lines = Served(u)
    <3> HIDE DEF u
    <3>1. SubSeq(Content, pos + 1, pos + want) = u
      BY <2>4 DEF u
    <3> QED
      BY <1>1, <3>1
  <2> HIDE DEF u
  <2>7. resp'.lines = Served(SubSeq(atSeek, Len(atSeek) - want + 1, Len(atSeek)))
    BY <2>1, <2>5, <2>6
  <2>8. want = len \/ (want < len /\ want = MaxTailBytes)
    BY <2>1 DEF Placed
  <2>9. Recent(atSeek, Served(SubSeq(atSeek, Len(atSeek) - want + 1, Len(atSeek))))
    BY <2>1, <2>7, <2>8, ServedRecent
  <2> QED
    BY <2>7, <2>9
<1> QED
  BY <1>2, <1>3 DEF TailInv

(* A line of the log has at least two bytes. *)
LEMMA LineFacts ==
    ASSUME NEW k \in Nat
    PROVE  Line(k) \in Seq(Byte) /\ Len(Line(k)) >= 2
<1> DEFINE l == 2 + (k % 3)
<1>1. l \in Nat /\ l >= 2
  OBVIOUS
<1>2. Line(k) = [i \in 1 .. l |-> <<k, l - i>>]
  BY DEF Line
<1> HIDE DEF l
<1>3. \A i \in 1 .. l : <<k, l - i>> \in Byte
  BY <1>1 DEF Byte
<1>4. Line(k) \in Seq(Byte)
  <2>1. Line(k) \in [1 .. l -> Byte]
    BY <1>2, <1>3
  <2> QED
    BY <1>1, <2>1
<1>5. Len(Line(k)) = l
  <2>1. DOMAIN Line(k) = 1 .. l
    BY <1>2
  <2>2. DOMAIN Line(k) = 1 .. Len(Line(k)) /\ Len(Line(k)) \in Nat
    BY <1>4, LenProperties
  <2>3. \A x, y \in Nat : 1 .. x = 1 .. y => x = y
    OBVIOUS
  <2> QED
    BY <1>1, <2>1, <2>2, <2>3
<1> QED
  BY <1>1, <1>4, <1>5

(* A step of the world keeps what was answered, and marks the file as      *)
(* moved when tail() can see it change for the worse.                      *)
LEMMA WorldKeeps ==
    ASSUME TailInv, UNCHANGED <<pc, resp, lines, atSeek>>, moved \in BOOLEAN,
           moved' = moved \/ moved' = TRUE
    PROVE  TailIsRecent'
BY DEF TailInv, TailIsRecent

(* nginx appends a line. *)
LEMMA TailAppend == TailInv /\ Append1 => TailInv'
<1> SUFFICES ASSUME TailInv, Append1 PROVE TailInv'
  OBVIOUS
<1> DEFINE old == IF file = Missing THEN <<>> ELSE file
<1>1. /\ written' = written + 1 /\ file' = old \o Line(written')
      /\ moved' = (moved \/ (pc = "seek" /\ fd = AtPath))
      /\ UNCHANGED <<pc, lines, resp, fd, len, pos, want, atSeek>>
  BY DEF Append1, tailVars
<1>2. /\ file \in Seq(Byte) /\ fd \in Seq(Byte) /\ atSeek \in Seq(Byte)
      /\ len \in Nat /\ pos \in Nat /\ want \in Nat /\ lines \in Nat /\ written \in Nat
      /\ moved \in BOOLEAN /\ TailState
  BY DEF TailInv, TailState
<1>3. old \in Seq(Byte) /\ written' \in Nat
  BY <1>1, <1>2
<1> HIDE DEF old
<1>4. Line(written') \in Seq(Byte) /\ Len(Line(written')) >= 2
  BY <1>3, LineFacts
<1>5. /\ file' \in Seq(Byte) /\ Len(file') = Len(old) + Len(Line(written'))
      /\ \A i \in 1 .. Len(old) : file'[i] = old[i]
  <2>1. Len(old) \in Nat /\ Len(Line(written')) \in Nat
    BY <1>3, <1>4, LenProperties
  <2>2. \A i \in 1 .. Len(old) : i \in 1 .. Len(old) + Len(Line(written')) /\ i <= Len(old)
    BY <2>1
  <2> QED
    BY <1>1, <1>3, <1>4, <2>2, ConcatProperties
<1>6. Len(file') \in Nat /\ Len(old) \in Nat /\ Len(file') >= Len(old) /\ Len(file') # 1
  BY <1>3, <1>4, <1>5, LenProperties
<1>7. file' # Missing
  <2>1. Len(Missing) = 1
    BY DEF Missing
  <2> QED
    BY <1>6, <2>1
<1>8. pc = "seek" /\ ~moved' => Content' = Content /\ ~moved
  BY <1>1, <1>2 DEF Content
<1>9. ASSUME pc = "read", ~moved'
      PROVE  /\ ~moved /\ len <= Len(Content')
             /\ \A i \in 1 .. len : Content'[i] = atSeek[i]
  <2>1. /\ ~moved /\ len = Len(atSeek)
        /\ len <= Len(Content) /\ \A i \in 1 .. len : Content[i] = atSeek[i]
    BY <1>1, <1>2, <1>9 DEF TailState
  <2>2. CASE fd # AtPath
    BY <1>1, <2>1, <2>2 DEF Content
  <2>3. CASE fd = AtPath
    <3>1. file # Missing
      BY <1>2, <1>9, <2>3 DEF TailState, TailAt
    <3>2. old = Content /\ Content' = file'
      BY <1>1, <2>3, <3>1 DEF Content, old
    <3> QED
      <4>1. len <= Len(old) /\ \A i \in 1 .. len : i \in 1 .. Len(old)
        BY <1>2, <1>6, <2>1, <3>2
      <4>2. len <= Len(Content')
        BY <1>2, <1>6, <3>2, <4>1
      <4>3. \A i \in 1 .. len : file'[i] = Content[i]
        BY <1>5, <3>2, <4>1
      <4> QED
        BY <2>1, <3>2, <4>2, <4>3
  <2> QED
    BY <2>2, <2>3
<1>10. moved' \in BOOLEAN /\ (moved' = moved \/ moved' = TRUE)
  BY <1>1, <1>2
<1>12. pc = "seek" /\ ~moved' => len' = Len(Content') /\ Placed'
  <2> SUFFICES ASSUME pc = "seek", ~moved' PROVE len' = Len(Content') /\ Placed'
    OBVIOUS
  <2>1. len = Len(Content) /\ Placed
    BY <1>2, <1>8 DEF TailState
  <2> QED
    BY <1>1, <1>8, <2>1 DEF Placed
<1>13. pc = "read" /\ ~moved' =>
          /\ len' = Len(atSeek') /\ Placed' /\ pos' = len' - want'
          /\ len' <= Len(Content') /\ \A i \in 1 .. len' : Content'[i] = atSeek'[i]
  <2> SUFFICES ASSUME pc = "read", ~moved'
               PROVE  /\ len' = Len(atSeek') /\ Placed' /\ pos' = len' - want'
                      /\ len' <= Len(Content') /\ \A i \in 1 .. len' : Content'[i] = atSeek'[i]
    OBVIOUS
  <2>1. len = Len(atSeek) /\ Placed /\ pos = len - want
    BY <1>2, <1>9 DEF TailState
  <2>2. Placed'
    BY <1>1, <2>1 DEF Placed
  <2> QED
    BY <1>1, <1>9, <2>1, <2>2
<1>14. TailState'
  BY <1>1, <1>2, <1>3, <1>5, <1>6, <1>7, <1>10, <1>12, <1>13 DEF TailState
<1>15. TailIsRecent'
  BY <1>1, <1>2, <1>10, WorldKeeps
<1> QED
  BY <1>14, <1>15 DEF TailInv

(* logrotate moves the file away: the open one keeps its bytes. *)
LEMMA TailRotate == TailInv /\ Rotate => TailInv'
<1> SUFFICES ASSUME TailInv, Rotate PROVE TailInv'
  OBVIOUS
<1>1. /\ file # Missing /\ file' = Missing
      /\ fd' = (IF TailAt /\ fd = AtPath THEN file ELSE fd)
      /\ UNCHANGED <<pc, lines, resp, written, len, pos, want, atSeek, moved>>
  BY DEF Rotate, tailVars
<1>2. /\ file \in Seq(Byte) /\ fd \in Seq(Byte) /\ atSeek \in Seq(Byte)
      /\ moved \in BOOLEAN /\ TailState
  BY DEF TailInv, TailState
<1>3. file' \in Seq(Byte) /\ fd' \in Seq(Byte)
  BY <1>1, <1>2 DEF Missing, Byte
<1>4. file # AtPath
  <2>1. Len(file) # 1
    BY <1>1, <1>2 DEF TailState
  <2>2. Len(AtPath) = 1
    BY DEF AtPath
  <2> QED
    BY <2>1, <2>2
<1>5. TailAt => fd' # AtPath /\ Content' = Content
  BY <1>1, <1>4 DEF Content
<1>6. TailState'
  BY <1>1, <1>2, <1>3, <1>5 DEF TailState, TailAt, Placed
<1>7. TailIsRecent'
  BY <1>1, <1>2, WorldKeeps
<1> QED
  BY <1>6, <1>7 DEF TailInv

(* logrotate empties the file in place. *)
LEMMA TailTruncate == TailInv /\ Truncate => TailInv'
<1> SUFFICES ASSUME TailInv, Truncate PROVE TailInv'
  OBVIOUS
<1>1. /\ file # Missing /\ file' = <<>>
      /\ moved' = (moved \/ (pc \in {"seek", "read"} /\ fd = AtPath))
      /\ UNCHANGED <<pc, lines, resp, written, fd, len, pos, want, atSeek>>
  BY DEF Truncate, tailVars
<1>2. /\ file \in Seq(Byte) /\ fd \in Seq(Byte) /\ atSeek \in Seq(Byte)
      /\ moved \in BOOLEAN /\ TailState
  BY DEF TailInv, TailState
<1>3. file' \in Seq(Byte) /\ Len(file') = 0 /\ file' # Missing
  <2>1. Len(Missing) = 1
    BY DEF Missing
  <2>2. Len(file') = 0 /\ file' \in Seq(Byte)
    BY <1>1
  <2> QED
    BY <2>1, <2>2
<1>4. pc \in {"seek", "read"} /\ ~moved' => Content' = Content /\ ~moved
  BY <1>1, <1>2 DEF Content
<1>5. moved' \in BOOLEAN /\ (moved' = moved \/ moved' = TRUE)
  BY <1>1, <1>2
<1>6. TailState'
  BY <1>1, <1>2, <1>3, <1>4, <1>5 DEF TailState, TailAt, Placed
<1>7. TailIsRecent'
  BY <1>1, <1>2, <1>5, WorldKeeps
<1> QED
  BY <1>6, <1>7 DEF TailInv

(* Whatever a client asks for, however long the log's lines are next to    *)
(* MAX_TAIL_BYTES, and whatever nginx and logrotate do between the calls   *)
(* of tail() (ui/src/collect.rs:243-261): it serves whole lines, the last  *)
(* ones of the log as it was when the window was placed, as many as were   *)
(* asked for or as fit.                                                    *)
THEOREM TailServesTheEnd == UiSpec => []TailIsRecent
<1>1. UiInit => TailInv
  <2> SUFFICES ASSUME UiInit PROVE TailInv
    OBVIOUS
  <2>1. file = Missing /\ fd = AtPath /\ atSeek = <<>> /\ pc = "boot"
    BY DEF UiInit
  <2>2. file \in Seq(Byte) /\ fd \in Seq(Byte) /\ atSeek \in Seq(Byte)
    BY <2>1 DEF Missing, AtPath, Byte
  <2>3. TailState
    BY <2>1, <2>2 DEF UiInit, TailState, TailAt
  <2> QED
    BY <2>1, <2>3 DEF TailInv, TailIsRecent
<1>2. TailInv /\ [UiNext]_uiVars => TailInv'
  BY ServerAlone, TailAccept, TailOpen, TailSeekEnd, TailSeekBack, TailRead,
     TailAppend, TailRotate, TailTruncate DEF UiNext, Server
<1>3. TailInv => TailIsRecent
  BY DEF TailInv
<1> QED
  BY <1>1, <1>2, <1>3, PTL DEF UiSpec

-------------------------------------------------------------------------------
(***************************************************************************)
(* The query budget, from BudgetExact: every list the run enumerates is a  *)
(* list of filters.                                                        *)
(***************************************************************************)
Queries == UNION {[1 .. k -> Filters] : k \in 0 .. 3}

(* The lists of the run are lists of filters. *)
LEMMA QueriesAreFilters ==
    ASSUME NEW q \in Queries
    PROVE  /\ Len(q) \in Nat /\ DOMAIN q = 1 .. Len(q)
           /\ \A i \in DOMAIN q : IsFilter(q[i])
<1>1. PICK k \in 0 .. 3 : q \in [1 .. k -> Filters]
  BY DEF Queries
<1>2. k \in Nat /\ q \in Seq(Filters) /\ Len(q) = k /\ DOMAIN q = 1 .. k
  BY <1>1
<1>3. ASSUME NEW v \in Values PROVE IsValue(v)
  <2>1. \A l : Lone(l).kind = "string" /\ Lone(l).lens = <<l>>
    BY DEF Lone
  <2>2. \A l : Array(l).kind = "array" /\ Array(l).lens = l
    BY DEF Array
  <2>3. \A l : Number(l).kind = "number" /\ Number(l).num = l
    BY DEF Number
  <2>4. <<1>> \in Seq(Nat) /\ <<4>> \in Seq(Nat) /\ <<>> \in Seq(Nat) /\ <<0, 3>> \in Seq(Nat)
        /\ <<1, 13>> \in Seq(Nat) /\ <<2, 2, 2>> \in Seq(Nat)
    OBVIOUS
  <2>5. CASE v \in {Lone(1), Lone(4)}
    BY <2>1, <2>4, <2>5 DEF IsValue
  <2>6. CASE v \in {Number(1), Number(9)}
    BY <2>3, <2>6 DEF IsValue
  <2>7. CASE v = [kind |-> "other"]
    BY <2>7 DEF IsValue
  <2>8. CASE v \in {Array(<<>>), Array(<<0, 3>>), Array(<<1, 13>>), Array(<<2, 2, 2>>)}
    BY <2>2, <2>4, <2>8 DEF IsValue
  <2> QED
    BY <2>5, <2>6, <2>7, <2>8 DEF Values
<1>4. ASSUME NEW f \in Filters PROVE IsFilter(f)
  <2>1. \/ f = [obj |-> FALSE, f |-> <<>>]
        \/ \E g : /\ f = [obj |-> TRUE, f |-> g]
                  /\ \/ \E ks \in {{}, {"kinds"}, {"limit"}, {"x"}} : g \in [ks -> Values]
                     \/ g \in [{"kinds", "limit"} -> {Lone(4), Number(9), Array(<<0, 3>>)}]
    <3> DEFINE Kss == {{}, {"kinds"}, {"limit"}, {"x"}}
               G == UNION {[ks -> Values] : ks \in Kss}
               H == [{"kinds", "limit"} -> {Lone(4), Number(9), Array(<<0, 3>>)}]
    <3>1. Filters = {[obj |-> FALSE, f |-> <<>>]} \cup {[obj |-> TRUE, f |-> g] : g \in G \cup H}
      BY DEF Filters
    <3>2. \A g \in G : \E ks \in Kss : g \in [ks -> Values]
      OBVIOUS
    <3> HIDE DEF G, H, Kss
    <3>3. CASE f # [obj |-> FALSE, f |-> <<>>]
      <4>1. PICK g \in G \cup H : f = [obj |-> TRUE, f |-> g]
        BY <3>1, <3>3
      <4>2. g \in H \/ \E ks \in Kss : g \in [ks -> Values]
        BY <3>2
      <4> QED
        BY <4>1, <4>2 DEF H, Kss
    <3> QED
      BY <3>3
  <2>2. {Lone(4), Number(9), Array(<<0, 3>>)} \subseteq Values
    BY DEF Values
  <2>3. \A x : IsFiniteSet({x})
    BY FS_Singleton
  <2>4. IsFiniteSet({})
    BY FS_EmptySet
  <2>5. IsFiniteSet({"kinds", "limit"})
    <3>1. {"kinds", "limit"} = {"kinds"} \cup {"limit"}
      OBVIOUS
    <3>2. IsFiniteSet({"kinds"})
      BY <2>3
    <3> QED
      BY <3>1, <3>2, FS_AddElement
  <2>6. DOMAIN <<>> = {}
    OBVIOUS
  <2>7. ASSUME NEW g, NEW ks, IsFiniteSet(ks), g \in [ks -> Values], f.f = g PROVE IsFilter(f)
    <3>1. DOMAIN f.f = ks /\ \A x \in ks : f.f[x] \in Values
      BY <2>7
    <3> QED
      BY <1>3, <2>7, <3>1 DEF IsFilter
  <2>8. CASE f = [obj |-> FALSE, f |-> <<>>]
    <3>1. DOMAIN f.f = {}
      BY <2>6, <2>8
    <3> QED
      BY <2>4, <3>1 DEF IsFilter
  <2>9. CASE f # [obj |-> FALSE, f |-> <<>>]
    <3>1. PICK g : /\ f = [obj |-> TRUE, f |-> g]
                   /\ \/ \E ks \in {{}, {"kinds"}, {"limit"}, {"x"}} : g \in [ks -> Values]
                      \/ g \in [{"kinds", "limit"} -> {Lone(4), Number(9), Array(<<0, 3>>)}]
      BY <2>1, <2>9
    <3>2. f.f = g
      BY <3>1
    <3>3. CASE \E ks \in {{}, {"kinds"}, {"limit"}, {"x"}} : g \in [ks -> Values]
      <4>1. PICK ks \in {{}, {"kinds"}, {"limit"}, {"x"}} : g \in [ks -> Values]
        BY <3>3
      <4>2. IsFiniteSet(ks)
        BY <2>3, <2>4, <4>1
      <4> QED
        BY <2>7, <3>2, <4>1, <4>2
    <3>4. CASE g \in [{"kinds", "limit"} -> {Lone(4), Number(9), Array(<<0, 3>>)}]
      <4>1. g \in [{"kinds", "limit"} -> Values]
        BY <2>2, <3>4
      <4> QED
        BY <2>5, <2>7, <3>2, <4>1
    <3> QED
      BY <3>1, <3>3, <3>4
  <2> QED
    BY <2>8, <2>9
<1> QED
  BY <1>2, <1>4

(* Whatever the limits, checkFilters() accepts exactly the queries within  *)
(* their budget (shield_ws.js:125-180).                                    *)
THEOREM BudgetChecked == AlgSpec => []AcceptsExactlyWithinBudget
<1> DEFINE I == alg = "filters" => in \in Queries /\ (done => out = checkFilters(in))
<1>1. AlgInit => I
  BY DEF AlgInit, Queries
<1>2. I /\ [AlgNext]_algVars => I'
  BY DEF AlgNext, Run, algVars
<1>3. ASSUME I PROVE AcceptsExactlyWithinBudget
  <2> SUFFICES ASSUME Did("filters") PROVE (out = "none") = WithinBudget(in)
    BY DEF AcceptsExactlyWithinBudget
  <2>1. in \in Queries /\ out = checkFilters(in)
    BY <1>3 DEF Did
  <2>2. checkFilters(in) = "none" <=> WithinBudget(in)
    BY <2>1, QueriesAreFilters, BudgetExact
  <2>3. WithinBudget(in) \in BOOLEAN
    BY DEF WithinBudget
  <2> QED
    BY <2>1, <2>2, <2>3
<1> QED
  BY <1>1, <1>2, <1>3, PTL DEF AlgSpec

-------------------------------------------------------------------------------
(***************************************************************************)
(* The documents of json.rs, for every text.  Means(C, d, ts): wherever a  *)
(* reader that stands outside a string meets d, a text over the alphabet   *)
(* C, it finds the tokens ts in it and stands outside a string again.      *)
(* What json.rs writes is put together from strings and punctuation, and   *)
(* so is what it means.                                                    *)
(***************************************************************************)
ReadRun(r, d, m, e) ==
    e = [i \in 0 .. m |-> IF i = 0 THEN r ELSE ReadChar(e[i - 1], d[i])]

(* The reader has a state after every document. *)
LEMMA ReadExists ==
    ASSUME NEW r, NEW d, Len(d) \in Nat
    PROVE  \E e : ReadRun(r, d, Len(d), e) /\ ReadFrom(r, d) = e[Len(d)]
<1> DEFINE T == {m \in Nat : \E e : ReadRun(r, d, m, e)}
<1>1. 0 \in T
  <2> DEFINE e == [i \in 0 .. 0 |-> r]
  <2>1. ReadRun(r, d, 0, e)
    BY DEF ReadRun
  <2> QED
    BY <2>1
<1>2. ASSUME NEW m \in Nat, m \in T PROVE m + 1 \in T
  <2>1. PICK e : ReadRun(r, d, m, e)
    BY <1>2
  <2> DEFINE q == [i \in 0 .. m + 1 |-> IF i = m + 1 THEN ReadChar(e[m], d[m + 1]) ELSE e[i]]
  <2>2. \A i \in 0 .. m : q[i] = e[i]
    OBVIOUS
  <2>3. q[m + 1] = ReadChar(e[m], d[m + 1])
    <3>1. m + 1 \in 0 .. m + 1
      OBVIOUS
    <3> QED
      BY <3>1
  <2>4. q = [i \in 0 .. m + 1 |-> q[i]]
    OBVIOUS
  <2>5. \A i \in 0 .. m : e[i] = IF i = 0 THEN r ELSE ReadChar(e[i - 1], d[i])
    BY <2>1 DEF ReadRun
  <2> HIDE DEF q
  <2>6. ASSUME NEW i \in 0 .. m + 1
        PROVE  q[i] = IF i = 0 THEN r ELSE ReadChar(q[i - 1], d[i])
    <3>1. CASE i = m + 1
      <4>1. i # 0 /\ i - 1 = m /\ m \in 0 .. m
        BY <3>1
      <4> QED
        BY <2>2, <2>3, <3>1, <4>1
    <3>2. CASE i # m + 1
      <4>1. i \in 0 .. m /\ (i # 0 => i - 1 \in 0 .. m)
        BY <3>2
      <4> QED
        BY <2>2, <2>5, <4>1
    <3> QED
      BY <3>1, <3>2
  <2>7. ReadRun(r, d, m + 1, q)
    BY <2>4, <2>6 DEF ReadRun
  <2> QED
    BY <2>7
<1>3. \E e : ReadRun(r, d, Len(d), e)
  <2> HIDE DEF T
  <2>1. Len(d) \in T
    BY <1>1, <1>2, NatInd
  <2> QED
    BY <2>1 DEF T
<1>4. \E e : ReadFrom(r, d) = e[Len(d)]
              /\ ((\E q : ReadRun(r, d, Len(d), q)) => ReadRun(r, d, Len(d), e))
  BY DEF ReadFrom, ReadRun
<1> QED
  BY <1>3, <1>4

(* Nothing changes nothing. *)
LEMMA ReadNone == ASSUME NEW r PROVE ReadFrom(r, <<>>) = r
<1>1. PICK e : ReadRun(r, <<>>, Len(<<>>), e) /\ ReadFrom(r, <<>>) = e[Len(<<>>)]
  BY ReadExists
<1> QED
  BY <1>1 DEF ReadRun

(* One more character is one more step. *)
LEMMA ReadMore ==
    ASSUME NEW S, NEW r, NEW d \in Seq(S), NEW c \in S
    PROVE  ReadFrom(r, Append(d, c)) = ReadChar(ReadFrom(r, d), c)
<1> DEFINE m == Len(d)
           t == Append(d, c)
<1>1. /\ m \in Nat /\ Len(t) = m + 1 /\ t[m + 1] = c
      /\ \A i \in 1 .. m : t[i] = d[i]
  OBVIOUS
<1> HIDE DEF t, m
<1>2. PICK e : ReadRun(r, d, m, e) /\ ReadFrom(r, d) = e[m]
  BY <1>1, ReadExists DEF m
<1>3. PICK q : ReadRun(r, t, m + 1, q) /\ ReadFrom(r, t) = q[m + 1]
  <2>1. Len(t) \in Nat
    BY <1>1
  <2> QED
    BY <1>1, <2>1, ReadExists
<1>4. \A i \in 0 .. m : e[i] = IF i = 0 THEN r ELSE ReadChar(e[i - 1], d[i])
  BY <1>2 DEF ReadRun
<1>5. \A i \in 0 .. m + 1 : q[i] = IF i = 0 THEN r ELSE ReadChar(q[i - 1], t[i])
  BY <1>3 DEF ReadRun
<1> DEFINE T == {i \in Nat : i <= m => q[i] = e[i]}
<1>6. 0 \in T
  <2>1. 0 \in 0 .. m /\ 0 \in 0 .. m + 1
    BY <1>1
  <2> QED
    BY <1>4, <1>5, <2>1
<1>7. ASSUME NEW i \in Nat, i \in T PROVE i + 1 \in T
  <2> SUFFICES ASSUME i + 1 <= m PROVE q[i + 1] = e[i + 1]
    OBVIOUS
  <2>1. /\ i + 1 \in 0 .. m /\ i + 1 \in 0 .. m + 1 /\ i + 1 \in 1 .. m
        /\ i + 1 # 0 /\ (i + 1) - 1 = i /\ i <= m
    BY <1>1
  <2>2. q[i] = e[i]
    BY <1>7, <2>1
  <2> HIDE DEF T
  <2> QED
    BY <1>1, <1>4, <1>5, <2>1, <2>2
<1>8. q[m] = e[m]
  <2> HIDE DEF T
  <2>1. m \in T
    BY <1>1, <1>6, <1>7, NatInd
  <2>2. m <= m
    BY <1>1
  <2> QED
    BY <2>1, <2>2 DEF T
<1>9. m + 1 \in 0 .. m + 1 /\ m + 1 # 0 /\ (m + 1) - 1 = m
  BY <1>1
<1>10. q[m + 1] = ReadChar(q[m], t[m + 1])
  BY <1>5, <1>9
<1> HIDE DEF T
<1> QED
  BY <1>1, <1>2, <1>3, <1>8, <1>10 DEF t

(* A document is read part by part. *)
LEMMA ReadJoin ==
    ASSUME NEW S, NEW r, NEW d \in Seq(S)
    PROVE  \A t \in Seq(S) : ReadFrom(r, d \o t) = ReadFrom(ReadFrom(r, d), t)
<1> DEFINE T == {m \in Nat : \A t \in Seq(S) : Len(t) = m =>
                    ReadFrom(r, d \o t) = ReadFrom(ReadFrom(r, d), t)}
<1>1. 0 \in T
  <2> SUFFICES ASSUME NEW t \in Seq(S), Len(t) = 0
               PROVE  ReadFrom(r, d \o t) = ReadFrom(ReadFrom(r, d), t)
    OBVIOUS
  <2>1. t = <<>> /\ d \o t = d
    BY EmptySeq, ConcatEmptySeq
  <2> QED
    BY <2>1, ReadNone
<1>2. ASSUME NEW m \in Nat, m \in T PROVE m + 1 \in T
  <2> SUFFICES ASSUME NEW t \in Seq(S), Len(t) = m + 1
               PROVE  ReadFrom(r, d \o t) = ReadFrom(ReadFrom(r, d), t)
    OBVIOUS
  <2>1. t # <<>>
    OBVIOUS
  <2>2. PICK u \in Seq(S) : \E x \in S : t = Append(u, x)
    BY <2>1, SequenceEmptyOrAppend
  <2>3. PICK x \in S : t = Append(u, x)
    BY <2>2
  <2>4. Len(u) = m
    BY <2>3
  <2>5. ReadFrom(r, d \o u) = ReadFrom(ReadFrom(r, d), u)
    BY <1>2, <2>4
  <2>6. d \o t = Append(d \o u, x) /\ d \o u \in Seq(S)
    BY <2>3, ConcatAppend
  <2>7. ReadFrom(ReadFrom(r, d), t) = ReadChar(ReadFrom(ReadFrom(r, d), u), x)
    BY <2>3, ReadMore
  <2>8. ReadFrom(r, d \o t) = ReadChar(ReadFrom(r, d \o u), x)
    <3> DEFINE v == d \o u
    <3>1. v \in Seq(S) /\ d \o t = Append(v, x)
      BY <2>6
    <3> HIDE DEF v
    <3>2. ReadFrom(r, Append(v, x)) = ReadChar(ReadFrom(r, v), x)
      BY <3>1, ReadMore
    <3> QED
      BY <3>1, <3>2 DEF v
  <2> QED
    BY <2>5, <2>7, <2>8
<1>3. Nat \subseteq T
  <2> HIDE DEF T
  <2> QED
    BY <1>1, <1>2, NatInd
<1> QED
  BY <1>3

(* One character, and two. *)
LEMMA ReadOne ==
    ASSUME NEW S, NEW r, NEW c \in S
    PROVE  ReadFrom(r, <<c>>) = ReadChar(r, c)
<1>1. <<>> \in Seq(S) /\ <<c>> = Append(<<>>, c)
  OBVIOUS
<1>2. \A d \in Seq(S), z \in S : ReadFrom(r, Append(d, z)) = ReadChar(ReadFrom(r, d), z)
  BY ReadMore
<1>3. ReadFrom(r, Append(<<>>, c)) = ReadChar(ReadFrom(r, <<>>), c)
  BY <1>1, <1>2
<1> QED
  BY <1>1, <1>3, ReadNone

(* One character, and two. *)
LEMMA ReadTwo ==
    ASSUME NEW S, NEW r, NEW c \in S, NEW x \in S, NEW d, d = <<c, x>>
    PROVE  ReadFrom(r, d) = ReadChar(ReadChar(r, c), x)
<1>1. <<c>> \in Seq(S) /\ d = Append(<<c>>, x)
  OBVIOUS
<1>2. \A t \in Seq(S), z \in S : ReadFrom(r, Append(t, z)) = ReadChar(ReadFrom(r, t), z)
  BY ReadMore
<1>3. ReadFrom(r, Append(<<c>>, x)) = ReadChar(ReadFrom(r, <<c>>), x)
  BY <1>1, <1>2
<1> QED
  BY <1>1, <1>3, ReadOne

(* The characters of JSON itself. *)
Marks == {Quote, Backslash, "\n", "\r", "\t", "^A", "^B", "n", "r", "t", "u",
          "0", "1", "2", "{", "}", "[", "]", ":", ","}

TokenOf(C) == [p : {"text"} \cup C, s : Seq(C)]
ReaderOf(C) == [mode : {"out", "in", "escape", "hex", "bad"}, s : Seq(C),
                hex : Seq(C), toks : Seq(TokenOf(C))]

(* Outside a string: a quote starts one, anything else is punctuation. *)
LEMMA ReadOut ==
    ASSUME NEW C, NEW r \in ReaderOf(C), r.mode = "out", NEW c \in C
    PROVE  /\ c = Quote => /\ ReadChar(r, c) \in ReaderOf(C)
                           /\ ReadChar(r, c).mode = "in" /\ ReadChar(r, c).s = <<>>
                           /\ ReadChar(r, c).toks = r.toks
           /\ c # Quote => /\ ReadChar(r, c) \in ReaderOf(C)
                           /\ ReadChar(r, c).mode = "out"
                           /\ ReadChar(r, c).toks = Append(r.toks, Punct(c))
<1>1. CASE c = Quote
  <2>1. ReadChar(r, c) = [r EXCEPT !.mode = "in", !.s = <<>>]
    BY <1>1 DEF ReadChar, ReaderOf
  <2>2. <<>> \in Seq(C)
    BY EmptySeq
  <2> QED
    BY <1>1, <2>1, <2>2 DEF ReaderOf
<1>2. CASE c # Quote
  <2>1. ReadChar(r, c) = [r EXCEPT !.toks = Append(@, Punct(c))]
    BY <1>2 DEF ReadChar, ReaderOf
  <2>2. Punct(c) \in TokenOf(C)
    BY DEF Punct, TokenOf
  <2>3. r.toks \in Seq(TokenOf(C))
    BY DEF ReaderOf
  <2>4. Append(r.toks, Punct(c)) \in Seq(TokenOf(C))
    BY <2>2, <2>3, AppendProperties
  <2> QED
    BY <1>2, <2>1, <2>4 DEF ReaderOf
<1> QED
  BY <1>1, <1>2

(* Inside one: a quote ends it, a backslash escapes, and what is no        *)
(* character of JSON's own stands for itself.                              *)
LEMMA ReadIn ==
    ASSUME NEW C, NEW r \in ReaderOf(C), r.mode = "in", NEW c \in C
    PROVE  /\ c = Quote => /\ ReadChar(r, c) \in ReaderOf(C)
                           /\ ReadChar(r, c).mode = "out"
                           /\ ReadChar(r, c).toks = Append(r.toks, Text(r.s))
           /\ c = Backslash => /\ ReadChar(r, c) \in ReaderOf(C)
                               /\ ReadChar(r, c).mode = "escape"
                               /\ ReadChar(r, c).s = r.s /\ ReadChar(r, c).toks = r.toks
           /\ c \notin Special => /\ ReadChar(r, c) \in ReaderOf(C)
                                  /\ ReadChar(r, c).mode = "in"
                                  /\ ReadChar(r, c).s = Append(r.s, c)
                                  /\ ReadChar(r, c).toks = r.toks
<1>0. r.toks \in Seq(TokenOf(C)) /\ r.s \in Seq(C) /\ r.hex \in Seq(C)
  BY DEF ReaderOf
<1>q. Quote # Backslash /\ Quote \in Special /\ Backslash \in Special
  BY DEF Quote, Backslash, Special
<1>1. CASE c = Quote
  <2>1. ReadChar(r, c) = [r EXCEPT !.mode = "out", !.toks = Append(@, Text(r.s))]
    BY <1>q, <1>1 DEF ReadChar, ReaderOf
  <2>2. Text(r.s) \in TokenOf(C)
    BY <1>0 DEF Text, TokenOf
  <2>3. Append(r.toks, Text(r.s)) \in Seq(TokenOf(C))
    BY <1>0, <2>2, AppendProperties
  <2> QED
    BY <1>q, <1>1, <2>1, <2>3 DEF ReaderOf
<1>2. CASE c = Backslash
  <2>1. ReadChar(r, c) = [r EXCEPT !.mode = "escape"]
    BY <1>q, <1>2 DEF ReadChar, ReaderOf
  <2> QED
    BY <1>q, <1>2, <2>1 DEF ReaderOf
<1>3. CASE c \notin Special
  <2>1. ReadChar(r, c) = [r EXCEPT !.s = Append(@, c)]
    BY <1>q, <1>3 DEF ReadChar, ReaderOf
  <2>2. Append(r.s, c) \in Seq(C)
    BY <1>0, AppendProperties
  <2> QED
    BY <1>q, <1>3, <2>1, <2>2 DEF ReaderOf
<1> QED
  BY <1>1, <1>2, <1>3

(* After a backslash: a letter for a character, or u and four digits. *)
LEMMA ReadEscape ==
    ASSUME NEW C, Marks \subseteq C, NEW r \in ReaderOf(C), r.mode = "escape", NEW c \in C
    PROVE  /\ c # "u" => /\ ReadChar(r, c) \in ReaderOf(C)
                         /\ ReadChar(r, c).mode = "in"
                         /\ ReadChar(r, c).s = Append(r.s, Unescaped(c))
                         /\ ReadChar(r, c).toks = r.toks
           /\ c = "u" => /\ ReadChar(r, c) \in ReaderOf(C)
                         /\ ReadChar(r, c).mode = "hex" /\ ReadChar(r, c).hex = <<>>
                         /\ ReadChar(r, c).s = r.s /\ ReadChar(r, c).toks = r.toks
<1>0. r.toks \in Seq(TokenOf(C)) /\ r.s \in Seq(C) /\ r.hex \in Seq(C)
  BY DEF ReaderOf
<1>1. CASE c # "u"
  <2>1. ReadChar(r, c) = [r EXCEPT !.mode = "in", !.s = Append(@, Unescaped(c))]
    BY <1>1 DEF ReadChar, ReaderOf
  <2>2. Unescaped(c) \in C
    BY DEF Unescaped, Marks
  <2>3. Append(r.s, Unescaped(c)) \in Seq(C)
    BY <1>0, <2>2, AppendProperties
  <2> QED
    BY <1>1, <2>1, <2>3 DEF ReaderOf
<1>2. CASE c = "u"
  <2>1. ReadChar(r, c) = [r EXCEPT !.mode = "hex", !.hex = <<>>]
    BY <1>2 DEF ReadChar, ReaderOf
  <2>2. <<>> \in Seq(C)
    BY EmptySeq
  <2> QED
    BY <1>2, <2>1, <2>2 DEF ReaderOf
<1> QED
  BY <1>1, <1>2

(* The digits: the fourth makes a character. *)
LEMMA ReadHex ==
    ASSUME NEW C, Marks \subseteq C, NEW r \in ReaderOf(C), r.mode = "hex", NEW c \in C
    PROVE  /\ Len(r.hex) < 3 => /\ ReadChar(r, c) \in ReaderOf(C)
                                /\ ReadChar(r, c).mode = "hex"
                                /\ ReadChar(r, c).hex = Append(r.hex, c)
                                /\ ReadChar(r, c).s = r.s /\ ReadChar(r, c).toks = r.toks
           /\ \A k \in Controls : Len(r.hex) = 3 /\ Append(r.hex, c) = Hex(k) =>
                                /\ ReadChar(r, c) \in ReaderOf(C)
                                /\ ReadChar(r, c).mode = "in"
                                /\ ReadChar(r, c).s = Append(r.s, k)
                                /\ ReadChar(r, c).toks = r.toks
<1>0. r.toks \in Seq(TokenOf(C)) /\ r.s \in Seq(C) /\ r.hex \in Seq(C)
  BY DEF ReaderOf
<1>1. ASSUME Len(r.hex) < 3
      PROVE  /\ ReadChar(r, c) \in ReaderOf(C)
             /\ ReadChar(r, c).mode = "hex"
             /\ ReadChar(r, c).hex = Append(r.hex, c)
             /\ ReadChar(r, c).s = r.s /\ ReadChar(r, c).toks = r.toks
  <2>1. ReadChar(r, c) = [r EXCEPT !.hex = Append(@, c)]
    BY <1>0, <1>1 DEF ReadChar, ReaderOf
  <2>2. Append(r.hex, c) \in Seq(C)
    BY <1>0, AppendProperties
  <2> QED
    BY <2>1, <2>2 DEF ReaderOf
<1>2. ASSUME NEW k \in Controls, Len(r.hex) = 3, Append(r.hex, c) = Hex(k)
      PROVE  /\ ReadChar(r, c) \in ReaderOf(C)
             /\ ReadChar(r, c).mode = "in"
             /\ ReadChar(r, c).s = Append(r.s, k)
             /\ ReadChar(r, c).toks = r.toks
  <2> DEFINE z == CHOOSE j \in Controls : Hex(j) = Append(r.hex, c)
  <2>1. z = k
    <3>1. \A j \in Controls : Hex(j) = Hex(k) => j = k
      BY DEF Controls, Hex
    <3> QED
      BY <1>2, <3>1
  <2>2. ReadChar(r, c) = [r EXCEPT !.mode = "in", !.s = Append(@, z)]
    BY <1>2 DEF ReadChar, ReaderOf
  <2> HIDE DEF z
  <2>3. Append(r.s, k) \in Seq(C)
    <3>1. k \in C
      BY DEF Controls, Marks
    <3> QED
      BY <1>0, <3>1, AppendProperties
  <2> QED
    BY <2>1, <2>2, <2>3 DEF ReaderOf
<1> QED
  BY <1>1, <1>2

(* Digits, one after the other. *)
LEMMA Appended ==
    ASSUME NEW S, NEW y \in S, NEW z \in S
    PROVE  /\ Len(<<y>>) = 1 /\ Append(<<y>>, z) = <<y, z>>
           /\ Len(<<y, y>>) = 2 /\ Append(<<y, y>>, z) = <<y, y, z>>
           /\ Len(<<y, y, y>>) = 3 /\ Append(<<y, y, y>>, z) = <<y, y, y, z>>
<1>1. Len(<<y>>) = 1 /\ Len(<<y, y>>) = 2 /\ Len(<<y, y, y>>) = 3
  OBVIOUS
<1>2. <<y>> \in Seq(S) /\ <<y, y>> \in Seq(S) /\ <<y, y, y>> \in Seq(S)
  OBVIOUS
<1>3. <<y, z>> = Append(<<y>>, z)
  BY <1>2
<1>4. <<y, y, z>> = Append(<<y, y>>, z)
  BY <1>2
<1>5. <<y, y, y, z>> = Append(<<y, y, y>>, z)
  BY <1>2
<1> QED
  BY <1>1, <1>3, <1>4, <1>5

(* What json.rs writes for a character inside a string is read as that     *)
(* character.                                                              *)
LEMMA EscapeRead ==
    ASSUME NEW C, Marks \subseteq C, NEW r \in ReaderOf(C), r.mode = "in", NEW c \in C
    PROVE  /\ Escape(c) \in Seq(C)
           /\ ReadFrom(r, Escape(c)) \in ReaderOf(C)
           /\ ReadFrom(r, Escape(c)).mode = "in"
           /\ ReadFrom(r, Escape(c)).s = Append(r.s, c)
           /\ ReadFrom(r, Escape(c)).toks = r.toks
<1> DEFINE q == ReadChar(r, Backslash)
<1>0. /\ Backslash \in C /\ Quote \in C /\ "n" \in C /\ "r" \in C /\ "t" \in C /\ "u" \in C
      /\ "0" \in C /\ "1" \in C /\ "2" \in C
  BY DEF Marks
<1>a. ASSUME NEW w, NEW y \in C, NEW z \in C
      PROVE  ReadFrom(w, <<y, z>>) = ReadChar(ReadChar(w, y), z)
  <2> DEFINE d == <<y, z>>
  <2>1. d = <<y, z>>
    OBVIOUS
  <2> HIDE DEF d
  <2>2. ReadFrom(w, d) = ReadChar(ReadChar(w, y), z)
    BY <2>1, ReadTwo
  <2> QED
    BY <2>1, <2>2
<1>b. \A w : \A d, t \in Seq(C) : ReadFrom(w, d \o t) = ReadFrom(ReadFrom(w, d), t)
  BY ReadJoin
<1>t. \A y, z \in C : /\ Len(<<y>>) = 1 /\ Append(<<y>>, z) = <<y, z>>
                      /\ Len(<<y, y>>) = 2 /\ Append(<<y, y>>, z) = <<y, y, z>>
                      /\ Len(<<y, y, y>>) = 3 /\ Append(<<y, y, y>>, z) = <<y, y, y, z>>
  BY Appended
<1>1. q \in ReaderOf(C) /\ q.mode = "escape" /\ q.s = r.s /\ q.toks = r.toks
  BY <1>0, ReadIn
<1>2. ASSUME NEW x \in C, x # "u"
      PROVE  /\ <<Backslash, x>> \in Seq(C)
             /\ ReadFrom(r, <<Backslash, x>>) \in ReaderOf(C)
             /\ ReadFrom(r, <<Backslash, x>>).mode = "in"
             /\ ReadFrom(r, <<Backslash, x>>).s = Append(r.s, Unescaped(x))
             /\ ReadFrom(r, <<Backslash, x>>).toks = r.toks
  <2>1. ReadFrom(r, <<Backslash, x>>) = ReadChar(q, x)
    BY <1>0, <1>a
  <2> HIDE DEF q
  <2>2. /\ ReadChar(q, x) \in ReaderOf(C) /\ ReadChar(q, x).mode = "in"
        /\ ReadChar(q, x).s = Append(q.s, Unescaped(x)) /\ ReadChar(q, x).toks = q.toks
    BY <1>1, <1>2, ReadEscape
  <2>3. <<Backslash, x>> \in Seq(C)
    BY <1>0
  <2> QED
    BY <1>1, <2>1, <2>2, <2>3
<1>3. CASE c \in {Quote, Backslash}
  <2>1. Escape(c) = <<Backslash, c>>
    BY <1>3 DEF Escape, Quote, Backslash, Controls
  <2>2. Unescaped(c) = c /\ c # "u"
    BY <1>3 DEF Unescaped, Quote, Backslash
  <2> QED
    BY <1>2, <2>1, <2>2
<1>4. CASE c = "\n"
  <2>1. Escape(c) = <<Backslash, "n">>
    BY <1>4 DEF Escape, Quote, Backslash, Controls
  <2>2. Unescaped("n") = c
    BY <1>4 DEF Unescaped
  <2> QED
    BY <1>0, <1>2, <2>1, <2>2
<1>5. CASE c = "\r"
  <2>1. Escape(c) = <<Backslash, "r">>
    BY <1>5 DEF Escape, Quote, Backslash, Controls
  <2>2. Unescaped("r") = c
    BY <1>5 DEF Unescaped
  <2> QED
    BY <1>0, <1>2, <2>1, <2>2
<1>6. CASE c = "\t"
  <2>1. Escape(c) = <<Backslash, "t">>
    BY <1>6 DEF Escape, Quote, Backslash, Controls
  <2>2. Unescaped("t") = c
    BY <1>6 DEF Unescaped
  <2> QED
    BY <1>0, <1>2, <2>1, <2>2
<1>7. CASE c \in Controls
  <2> DEFINE x == IF c = "^A" THEN "1" ELSE "2"
             r1 == ReadChar(q, "u")
             r2 == ReadChar(r1, "0")
             r3 == ReadChar(r2, "0")
             r4 == ReadChar(r3, "0")
             r5 == ReadChar(r4, x)
  <2>1. Escape(c) = <<Backslash, "u">> \o Hex(c)
    BY <1>7 DEF Escape, Quote, Backslash, Controls
  <2>2. Hex(c) = <<"0", "0", "0", x>> /\ x \in C
    BY <1>0 DEF Hex
  <2> HIDE DEF x
  <2>3. /\ <<"0", "0">> \in Seq(C) /\ <<"0", x>> \in Seq(C) /\ <<Backslash, "u">> \in Seq(C)
        /\ <<"0", "0", "0", x>> = <<"0", "0">> \o <<"0", x>>
        /\ <<"0", "0", "0", x>> \in Seq(C)
    BY <1>0, <2>2
  <2>4. ReadFrom(r, <<Backslash, "u">> \o Hex(c)) = ReadFrom(ReadFrom(r, <<Backslash, "u">>), Hex(c))
    <3> DEFINE d == <<Backslash, "u">>
               h == Hex(c)
    <3>1. d \in Seq(C) /\ h \in Seq(C)
      BY <2>2, <2>3
    <3> HIDE DEF d, h
    <3>2. ReadFrom(r, d \o h) = ReadFrom(ReadFrom(r, d), h)
      BY <1>b, <3>1
    <3> QED
      BY <3>2 DEF d, h
  <2>5. ReadFrom(r, <<Backslash, "u">>) = r1
    BY <1>0, <1>a
  <2> HIDE DEF q
  <2>6. /\ r1 \in ReaderOf(C) /\ r1.mode = "hex" /\ r1.hex = <<>> /\ r1.s = r.s
        /\ r1.toks = r.toks
    BY <1>0, <1>1, ReadEscape
  <2>7. ReadFrom(r1, <<"0", "0">> \o <<"0", x>>) = ReadFrom(ReadFrom(r1, <<"0", "0">>), <<"0", x>>)
    BY <1>b, <2>3
  <2> HIDE DEF r1
  <2>8. ReadFrom(r1, <<"0", "0">>) = r3
    BY <1>0, <1>a
  <2>9. ReadFrom(r3, <<"0", x>>) = r5
    <3> HIDE DEF r3
    <3> QED
      BY <1>0, <1>a, <2>2
  <2>10. r2 \in ReaderOf(C) /\ r2.mode = "hex" /\ r2.hex = <<"0">> /\ r2.s = r.s /\ r2.toks = r.toks
    <3>1. Len(r1.hex) < 3 /\ Append(r1.hex, "0") = <<"0">>
      BY <2>6
    <3> QED
      BY <1>0, <2>6, <3>1, ReadHex
  <2> HIDE DEF r2
  <2>11. r3 \in ReaderOf(C) /\ r3.mode = "hex" /\ r3.hex = <<"0", "0">> /\ r3.s = r.s
         /\ r3.toks = r.toks
    <3>0. Len(<<"0">>) = 1 /\ Append(<<"0">>, "0") = <<"0", "0">>
      BY <1>0, <1>t, <2>2
    <3>1. Len(r2.hex) < 3 /\ Append(r2.hex, "0") = <<"0", "0">>
      BY <2>10, <3>0
    <3> QED
      BY <1>0, <2>10, <3>1, ReadHex
  <2> HIDE DEF r3
  <2>12. r4 \in ReaderOf(C) /\ r4.mode = "hex" /\ r4.hex = <<"0", "0", "0">> /\ r4.s = r.s
         /\ r4.toks = r.toks
    <3>0. Len(<<"0", "0">>) = 2 /\ Append(<<"0", "0">>, "0") = <<"0", "0", "0">>
      BY <1>0, <1>t, <2>2
    <3>1. Len(r3.hex) < 3 /\ Append(r3.hex, "0") = <<"0", "0", "0">>
      BY <2>11, <3>0
    <3> QED
      BY <1>0, <2>11, <3>1, ReadHex
  <2> HIDE DEF r4
  <2>13. r5 \in ReaderOf(C) /\ r5.mode = "in" /\ r5.s = Append(r.s, c) /\ r5.toks = r.toks
    <3>0. Len(<<"0", "0", "0">>) = 3 /\ Append(<<"0", "0", "0">>, x) = <<"0", "0", "0", x>>
      BY <1>0, <1>t, <2>2
    <3>1. Len(r4.hex) = 3 /\ Append(r4.hex, x) = Hex(c)
      BY <2>2, <2>12, <3>0
    <3>2. \A k \in Controls : Len(r4.hex) = 3 /\ Append(r4.hex, x) = Hex(k) =>
             /\ ReadChar(r4, x) \in ReaderOf(C)
             /\ ReadChar(r4, x).mode = "in"
             /\ ReadChar(r4, x).s = Append(r4.s, k)
             /\ ReadChar(r4, x).toks = r4.toks
      BY <2>2, <2>12, ReadHex
    <3> QED
      BY <1>7, <2>12, <3>1, <3>2
  <2>14. ReadFrom(r, Escape(c)) = r5
    BY <2>1, <2>2, <2>3, <2>4, <2>5, <2>7, <2>8, <2>9
  <2>15. Escape(c) \in Seq(C)
    BY <2>1, <2>2, <2>3, ConcatProperties
  <2> HIDE DEF r5
  <2> QED
    BY <2>13, <2>14, <2>15
<1>8. CASE c \notin Special
  <2>1. Escape(c) = <<c>>
    BY <1>8 DEF Escape, Special
  <2>2. ReadFrom(r, <<c>>) = ReadChar(r, c)
    BY ReadOne
  <2>3. <<c>> \in Seq(C)
    OBVIOUS
  <2> QED
    BY <1>8, <2>1, <2>2, <2>3, ReadIn
<1> QED
  BY <1>3, <1>4, <1>5, <1>6, <1>7, <1>8 DEF Special

(* The characters between the quotes are read as the text. *)
LEMMA BodyRead ==
    ASSUME NEW C, Marks \subseteq C, NEW r \in ReaderOf(C), r.mode = "in", r.s = <<>>,
           NEW t \in Seq(C)
    PROVE  LET d == FlattenSeq([i \in DOMAIN t |-> Escape(t[i])])
           IN  /\ d \in Seq(C) /\ ReadFrom(r, d) \in ReaderOf(C)
               /\ ReadFrom(r, d).mode = "in" /\ ReadFrom(r, d).s = t
               /\ ReadFrom(r, d).toks = r.toks
<1> DEFINE ss == [i \in DOMAIN t |-> Escape(t[i])]
           N == Len(t)
           Good(d, x) == /\ d \in Seq(C) /\ ReadFrom(r, d) \in ReaderOf(C)
                         /\ ReadFrom(r, d).mode = "in" /\ ReadFrom(r, d).s = x
                         /\ ReadFrom(r, d).toks = r.toks
<1>1. N \in Nat /\ DOMAIN t = 1 .. N /\ \A i \in 1 .. N : t[i] \in C
  BY LenProperties, ElementOfSeq
<1>2. \A i \in 1 .. N : Escape(t[i]) \in Seq(C)
  BY <1>1, EscapeRead
<1>3. ss \in Seq(Seq(C)) /\ Len(ss) = N /\ \A i \in 1 .. N : ss[i] = Escape(t[i])
  <2>1. ss \in [1 .. N -> Seq(C)]
    BY <1>1, <1>2
  <2> QED
    BY <1>1, <2>1
<1> HIDE DEF ss, N
<1>4. CASE N = 0
  <2>1. t = <<>> /\ ss = <<>>
    BY <1>3, <1>4, EmptySeq DEF N
  <2>2. FlattenSeq(ss) = <<>>
    BY <1>3, <1>4, <2>1 DEF FlattenSeq
  <2>3. ReadFrom(r, <<>>) = r
    BY ReadNone
  <2>4. <<>> \in Seq(C)
    BY EmptySeq
  <2> QED
    BY <2>1, <2>2, <2>3, <2>4 DEF ss
<1>5. CASE N # 0
  <2>1. PICK e : FlatRun(ss, N, e) /\ FlattenSeq(ss) = e[N]
    BY <1>1, <1>3, <1>5, FlatExists
  <2>2. \A i \in 1 .. N : e[i] = IF i = 1 THEN ss[i] ELSE e[i - 1] \o ss[i]
    BY <2>1 DEF FlatRun
  <2> DEFINE T == {i \in Nat : i + 1 <= N => Good(e[i + 1], SubSeq(t, 1, i + 1))}
  <2>3. 0 \in T
    <3>1. 1 \in 1 .. N /\ 0 + 1 = 1
      BY <1>1, <1>5
    <3>2. e[1] = Escape(t[1]) /\ t[1] \in C
      BY <1>1, <1>3, <2>2, <3>1
    <3>3. SubSeq(t, 1, 1) = Append(<<>>, t[1])
      <4>1. SubSeq(t, 1, 1) = <<t[1]>>
        <5>1. 1 \in Int /\ \A k \in 1 .. 1 : t[k] \in C
          BY <3>2
        <5>2. /\ SubSeq(t, 1, 1) \in Seq(C) /\ Len(SubSeq(t, 1, 1)) = IF 1 <= 1 THEN 1 - 1 + 1 ELSE 0
              /\ \A k \in 1 .. 1 - 1 + 1 : SubSeq(t, 1, 1)[k] = t[1 + k - 1]
          BY <5>1, SubSeqProperties
        <5>3. Len(SubSeq(t, 1, 1)) = 1 /\ SubSeq(t, 1, 1)[1] = t[1]
          BY <5>2
        <5>4. <<t[1]>> \in Seq(C) /\ Len(<<t[1]>>) = 1 /\ <<t[1]>>[1] = t[1]
          BY <3>2
        <5>5. \A k \in 1 .. Len(<<t[1]>>) : <<t[1]>>[k] = SubSeq(t, 1, 1)[k]
          BY <5>3, <5>4
        <5> QED
          BY <5>2, <5>3, <5>4, <5>5, SeqEqual
      <4>2. <<t[1]>> = Append(<<>>, t[1])
        BY <3>2
      <4> QED
        BY <4>1, <4>2
    <3>4. Good(e[1], Append(<<>>, t[1]))
      <4>1. /\ Escape(t[1]) \in Seq(C)
            /\ ReadFrom(r, Escape(t[1])) \in ReaderOf(C)
            /\ ReadFrom(r, Escape(t[1])).mode = "in"
            /\ ReadFrom(r, Escape(t[1])).s = Append(r.s, t[1])
            /\ ReadFrom(r, Escape(t[1])).toks = r.toks
        BY <3>2, EscapeRead
      <4> QED
        BY <3>2, <4>1
    <3> HIDE DEF Good
    <3> QED
      BY <3>1, <3>3, <3>4
  <2>4. ASSUME NEW i \in Nat, i \in T PROVE i + 1 \in T
    <3> SUFFICES ASSUME (i + 1) + 1 <= N PROVE Good(e[(i + 1) + 1], SubSeq(t, 1, (i + 1) + 1))
      OBVIOUS
    <3> DEFINE j == i + 1
               q == ReadFrom(r, e[j])
    <3>1. Good(e[j], SubSeq(t, 1, j))
      BY <1>1, <2>4
    <3>2. j + 1 \in 1 .. N /\ j + 1 # 1 /\ (j + 1) - 1 = j /\ j \in 1 .. N /\ j \in Nat
      BY <1>1
    <3> HIDE DEF T
    <3>3. e[j + 1] = e[j] \o ss[j + 1] /\ ss[j + 1] = Escape(t[j + 1]) /\ t[j + 1] \in C
      BY <1>1, <1>3, <2>2, <3>2
    <3> HIDE DEF j
    <3>4. /\ e[j] \in Seq(C) /\ q \in ReaderOf(C) /\ q.mode = "in"
          /\ q.s = SubSeq(t, 1, j) /\ q.toks = r.toks
      BY <3>1
    <3> HIDE DEF Good
    <3>q. q = ReadFrom(r, e[j])
      OBVIOUS
    <3> HIDE DEF q
    <3>5. /\ Escape(t[j + 1]) \in Seq(C)
          /\ ReadFrom(q, Escape(t[j + 1])) \in ReaderOf(C)
          /\ ReadFrom(q, Escape(t[j + 1])).mode = "in"
          /\ ReadFrom(q, Escape(t[j + 1])).s = Append(q.s, t[j + 1])
          /\ ReadFrom(q, Escape(t[j + 1])).toks = q.toks
      BY <3>3, <3>4, EscapeRead
    <3>6. ReadFrom(r, e[j] \o Escape(t[j + 1])) = ReadFrom(q, Escape(t[j + 1]))
      BY <3>4, <3>5, <3>q, ReadJoin
    <3>7. e[j] \o Escape(t[j + 1]) \in Seq(C)
      BY <3>4, <3>5, ConcatProperties
    <3>8. SubSeq(t, 1, j + 1) = Append(SubSeq(t, 1, j), t[j + 1])
      <4>1. SubSeq(t, 1, j + 1) = SubSeq(t, 1, (j + 1) - 1) \o <<t[j + 1]>>
        <5>1. 1 \in 1 .. Len(t) /\ j + 1 \in 1 .. Len(t)
          BY <1>1, <3>2 DEF N
        <5> QED
          BY <5>1, SubSeqRecursiveSecond
      <4>2. SubSeq(t, 1, j) \in Seq(C)
        <5>1. \A k \in 1 .. j : t[k] \in C
          BY <1>1, <3>2
        <5>2. 1 \in Int /\ j \in Int
          BY <3>2
        <5> QED
          BY <5>1, <5>2, SubSeqProperties
      <4>3. Append(SubSeq(t, 1, j), t[j + 1]) = SubSeq(t, 1, j) \o <<t[j + 1]>>
        BY <3>3, <4>2, AppendIsConcat
      <4> QED
        BY <3>2, <4>1, <4>3
    <3>9. Good(e[j + 1], SubSeq(t, 1, j + 1))
      BY <3>3, <3>4, <3>5, <3>6, <3>7, <3>8 DEF Good
    <3> QED
      BY <3>9 DEF j
  <2>5. Good(e[N], SubSeq(t, 1, N))
    <3>1. N - 1 \in Nat /\ (N - 1) + 1 = N /\ N <= N
      BY <1>1, <1>5
    <3> HIDE DEF T
    <3>2. N - 1 \in T
      BY <2>3, <2>4, <3>1, NatInd
    <3> QED
      BY <3>1, <3>2 DEF T
  <2>6. SubSeq(t, 1, N) = t
    BY SubSeqFull DEF N
  <2> QED
    BY <2>1, <2>5, <2>6 DEF ss
<1> QED
  BY <1>4, <1>5

(* What a part of a document means, wherever it stands outside a string.   *)
Means(C, d, ts) ==
    /\ d \in Seq(C) /\ ts \in Seq(TokenOf(C))
    /\ \A r \in ReaderOf(C) : r.mode = "out" =>
          /\ ReadFrom(r, d) \in ReaderOf(C) /\ ReadFrom(r, d).mode = "out"
          /\ ReadFrom(r, d).toks = r.toks \o ts

(* Nothing means nothing. *)
LEMMA MeansNone == ASSUME NEW C PROVE Means(C, <<>>, <<>>)
<1>1. <<>> \in Seq(C) /\ <<>> \in Seq(TokenOf(C))
  BY EmptySeq
<1>2. ASSUME NEW r \in ReaderOf(C), r.mode = "out"
      PROVE  ReadFrom(r, <<>>) = r /\ r.toks \o <<>> = r.toks
  <2>1. r.toks \in Seq(TokenOf(C))
    BY DEF ReaderOf
  <2> QED
    BY <2>1, ReadNone, ConcatEmptySeq
<1> QED
  BY <1>1, <1>2 DEF Means

(* Parts mean together what they mean one after the other. *)
LEMMA MeansJoin ==
    ASSUME NEW C, NEW d, NEW ts, Means(C, d, ts), NEW f, NEW us, Means(C, f, us)
    PROVE  Means(C, d \o f, ts \o us)
<1>1. d \in Seq(C) /\ ts \in Seq(TokenOf(C)) /\ f \in Seq(C) /\ us \in Seq(TokenOf(C))
  BY DEF Means
<1>2. d \o f \in Seq(C) /\ ts \o us \in Seq(TokenOf(C))
  BY <1>1, ConcatProperties
<1>3. ASSUME NEW r \in ReaderOf(C), r.mode = "out"
      PROVE  /\ ReadFrom(r, d \o f) \in ReaderOf(C) /\ ReadFrom(r, d \o f).mode = "out"
             /\ ReadFrom(r, d \o f).toks = r.toks \o (ts \o us)
  <2> DEFINE q == ReadFrom(r, d)
  <2>1. q \in ReaderOf(C) /\ q.mode = "out" /\ q.toks = r.toks \o ts
    BY <1>3 DEF Means
  <2>2. ReadFrom(r, d \o f) = ReadFrom(q, f)
    BY <1>1, ReadJoin
  <2> HIDE DEF q
  <2>3. /\ ReadFrom(q, f) \in ReaderOf(C) /\ ReadFrom(q, f).mode = "out"
        /\ ReadFrom(q, f).toks = q.toks \o us
    BY <2>1 DEF Means
  <2>4. r.toks \in Seq(TokenOf(C))
    BY DEF ReaderOf
  <2>5. (r.toks \o ts) \o us = r.toks \o (ts \o us)
    <3>1. \A x, y, z \in Seq(TokenOf(C)) : (x \o y) \o z = x \o (y \o z)
      BY ConcatAssociative
    <3> QED
      BY <1>1, <2>4, <3>1
  <2> QED
    BY <2>1, <2>2, <2>3, <2>5
<1> QED
  BY <1>2, <1>3 DEF Means

(* A character that is no quote means itself. *)
LEMMA MeansPunct ==
    ASSUME NEW C, NEW c \in C, c # Quote
    PROVE  Means(C, <<c>>, <<Punct(c)>>)
<1>1. <<c>> \in Seq(C) /\ Punct(c) \in TokenOf(C)
  BY DEF Punct, TokenOf
<1>2. <<Punct(c)>> \in Seq(TokenOf(C))
  BY <1>1
<1>3. ASSUME NEW r \in ReaderOf(C), r.mode = "out"
      PROVE  /\ ReadFrom(r, <<c>>) \in ReaderOf(C) /\ ReadFrom(r, <<c>>).mode = "out"
             /\ ReadFrom(r, <<c>>).toks = r.toks \o <<Punct(c)>>
  <2>1. ReadFrom(r, <<c>>) = ReadChar(r, c)
    BY ReadOne
  <2>2. r.toks \in Seq(TokenOf(C))
    BY DEF ReaderOf
  <2>3. Append(r.toks, Punct(c)) = r.toks \o <<Punct(c)>>
    BY <1>1, <2>2, AppendIsConcat
  <2> QED
    <3>1. /\ ReadChar(r, c) \in ReaderOf(C) /\ ReadChar(r, c).mode = "out"
          /\ ReadChar(r, c).toks = Append(r.toks, Punct(c))
      BY <1>3, ReadOut
    <3> QED
      BY <2>1, <2>3, <3>1
<1> QED
  BY <1>1, <1>2, <1>3 DEF Means

(* push_str: a text between quotes means that text, whatever is in it. *)
LEMMA MeansText ==
    ASSUME NEW C, Marks \subseteq C, NEW t \in Seq(C)
    PROVE  Means(C, push_str(t), <<Text(t)>>)
<1> DEFINE d == FlattenSeq([i \in DOMAIN t |-> Escape(t[i])])
<1>0. Quote \in C /\ <<Quote>> \in Seq(C)
  <2>1. Quote \in C
    BY DEF Marks
  <2> QED
    BY <2>1
<1>j. \A w : \A x, y \in Seq(C) : ReadFrom(w, x \o y) = ReadFrom(ReadFrom(w, x), y)
  BY ReadJoin
<1>1. Text(t) \in TokenOf(C)
  BY DEF Text, TokenOf
<1>2. <<Text(t)>> \in Seq(TokenOf(C))
  BY <1>1
<1>3. push_str(t) = (<<Quote>> \o d) \o <<Quote>>
  BY DEF push_str
<1>d. d \in Seq(C)
  <2> DEFINE r == [mode |-> "in", s |-> <<>>, hex |-> <<>>, toks |-> <<>>]
  <2>1. <<>> \in Seq(C) /\ <<>> \in Seq(TokenOf(C))
    BY EmptySeq
  <2>2. r \in ReaderOf(C) /\ r.mode = "in" /\ r.s = <<>>
    BY <2>1 DEF ReaderOf
  <2> HIDE DEF r
  <2> QED
    BY <2>2, BodyRead
<1>4. ASSUME NEW r \in ReaderOf(C), r.mode = "out"
      PROVE  /\ ReadFrom(r, push_str(t)) \in ReaderOf(C)
             /\ ReadFrom(r, push_str(t)).mode = "out"
             /\ ReadFrom(r, push_str(t)).toks = r.toks \o <<Text(t)>>
  <2> DEFINE r1 == ReadFrom(r, <<Quote>>)
             r2 == ReadFrom(r1, d)
  <2>1. r1 = ReadChar(r, Quote)
    BY <1>0, ReadOne
  <2>2. r1 \in ReaderOf(C) /\ r1.mode = "in" /\ r1.s = <<>> /\ r1.toks = r.toks
    BY <1>0, <1>4, <2>1, ReadOut
  <2>3. ReadFrom(r, <<Quote>> \o d) = r2
    <3> HIDE DEF d
    <3> QED
      BY <1>0, <1>d, <1>j
  <2>4. <<Quote>> \o d \in Seq(C)
    BY <1>0, <1>d, ConcatProperties
  <2> HIDE DEF r1
  <2>5. r2 \in ReaderOf(C) /\ r2.mode = "in" /\ r2.s = t /\ r2.toks = r.toks
    BY <2>2, BodyRead
  <2> HIDE DEF r2
  <2>6. ReadFrom(r, (<<Quote>> \o d) \o <<Quote>>) = ReadFrom(r2, <<Quote>>)
    <3> DEFINE x == <<Quote>> \o d
    <3>1. x \in Seq(C) /\ ReadFrom(r, x) = r2
      BY <2>3, <2>4
    <3> HIDE DEF x
    <3>2. ReadFrom(r, x \o <<Quote>>) = ReadFrom(r2, <<Quote>>)
      BY <1>0, <1>j, <3>1
    <3> QED
      BY <3>2 DEF x
  <2>7. ReadFrom(r2, <<Quote>>) = ReadChar(r2, Quote)
    BY <1>0, ReadOne
  <2>8. /\ ReadChar(r2, Quote) \in ReaderOf(C) /\ ReadChar(r2, Quote).mode = "out"
        /\ ReadChar(r2, Quote).toks = Append(r2.toks, Text(r2.s))
    BY <1>0, <2>5, ReadIn
  <2>9. r.toks \in Seq(TokenOf(C))
    BY DEF ReaderOf
  <2>10. Append(r.toks, Text(t)) = r.toks \o <<Text(t)>>
    BY <1>1, <2>9, AppendIsConcat
  <2> QED
    BY <1>3, <2>5, <2>6, <2>7, <2>8, <2>10
<1>5. push_str(t) \in Seq(C)
  BY <1>0, <1>3, <1>d, ConcatProperties
<1> QED
  BY <1>2, <1>4, <1>5 DEF Means

(* The pieces of a list, one after the other. *)
LEMMA FlatType ==
    ASSUME NEW S, NEW ss \in Seq(Seq(S))
    PROVE  FlattenSeq(ss) \in Seq(S)
<1>1. Len(ss) \in Nat /\ \A k \in 1 .. Len(ss) : ss[k] \in Seq(S)
  BY LenProperties, ElementOfSeq
<1>2. CASE Len(ss) = 0
  <2>1. ss = <<>>
    BY <1>2, EmptySeq
  <2>2. FlattenSeq(ss) = ss
    BY <1>2 DEF FlattenSeq
  <2> QED
    BY <2>1, <2>2, EmptySeq
<1>3. CASE Len(ss) # 0
  <2>1. PICK e : FlatRun(ss, Len(ss), e) /\ FlattenSeq(ss) = e[Len(ss)]
    BY <1>1, <1>3, FlatExists
  <2>2. \A i \in 1 .. Len(ss) : e[i] = IF i = 1 THEN ss[i] ELSE e[i - 1] \o ss[i]
    BY <2>1 DEF FlatRun
  <2> DEFINE T == {i \in Nat : i + 1 <= Len(ss) => e[i + 1] \in Seq(S)}
  <2>3. 0 \in T
    <3>1. 1 \in 1 .. Len(ss) /\ 0 + 1 = 1
      BY <1>1, <1>3
    <3> QED
      BY <1>1, <2>2, <3>1
  <2>4. ASSUME NEW i \in Nat, i \in T PROVE i + 1 \in T
    <3> SUFFICES ASSUME (i + 1) + 1 <= Len(ss) PROVE e[(i + 1) + 1] \in Seq(S)
      OBVIOUS
    <3>1. e[i + 1] \in Seq(S)
      BY <1>1, <2>4
    <3>2. (i + 1) + 1 \in 1 .. Len(ss) /\ (i + 1) + 1 # 1 /\ ((i + 1) + 1) - 1 = i + 1
      BY <1>1
    <3>3. e[(i + 1) + 1] = e[i + 1] \o ss[(i + 1) + 1] /\ ss[(i + 1) + 1] \in Seq(S)
      BY <1>1, <2>2, <3>2
    <3> QED
      BY <3>1, <3>3, ConcatProperties
  <2>5. Len(ss) - 1 \in Nat /\ (Len(ss) - 1) + 1 = Len(ss) /\ Len(ss) <= Len(ss)
    BY <1>1, <1>3
  <2> HIDE DEF T
  <2>6. Len(ss) - 1 \in T
    BY <2>3, <2>4, <2>5, NatInd
  <2> QED
    BY <2>1, <2>5, <2>6 DEF T
<1> QED
  BY <1>2, <1>3

(* A list of parts means what they mean, one after the other. *)
LEMMA MeansFlat ==
    ASSUME NEW C, NEW m \in Nat, NEW ds \in [1 .. m -> Seq(C)],
           NEW ts \in [1 .. m -> Seq(TokenOf(C))],
           \A i \in 1 .. m : Means(C, ds[i], ts[i])
    PROVE  Means(C, FlattenSeq(ds), FlattenSeq(ts))
<1>1. ds \in Seq(Seq(C)) /\ Len(ds) = m /\ ts \in Seq(Seq(TokenOf(C))) /\ Len(ts) = m
  OBVIOUS
<1>2. CASE m = 0
  <2>1. ds = <<>> /\ ts = <<>>
    BY <1>1, <1>2, EmptySeq
  <2>2. FlattenSeq(ds) = ds /\ FlattenSeq(ts) = ts
    BY <1>1, <1>2 DEF FlattenSeq
  <2> QED
    BY <2>1, <2>2, MeansNone
<1>3. CASE m # 0
  <2>1. PICK e : FlatRun(ds, m, e) /\ FlattenSeq(ds) = e[m]
    BY <1>1, <1>3, FlatExists
  <2>2. PICK f : FlatRun(ts, m, f) /\ FlattenSeq(ts) = f[m]
    BY <1>1, <1>3, FlatExists
  <2>3. \A i \in 1 .. m : e[i] = IF i = 1 THEN ds[i] ELSE e[i - 1] \o ds[i]
    BY <2>1 DEF FlatRun
  <2>4. \A i \in 1 .. m : f[i] = IF i = 1 THEN ts[i] ELSE f[i - 1] \o ts[i]
    BY <2>2 DEF FlatRun
  <2> DEFINE T == {i \in Nat : i + 1 <= m => Means(C, e[i + 1], f[i + 1])}
  <2>5. 0 \in T
    <3>1. 1 \in 1 .. m /\ 0 + 1 = 1
      BY <1>3
    <3>2. e[1] = ds[1] /\ f[1] = ts[1]
      BY <2>3, <2>4, <3>1
    <3> QED
      BY <3>1, <3>2
  <2>6. ASSUME NEW i \in Nat, i \in T PROVE i + 1 \in T
    <3> SUFFICES ASSUME (i + 1) + 1 <= m PROVE Means(C, e[(i + 1) + 1], f[(i + 1) + 1])
      OBVIOUS
    <3>1. Means(C, e[i + 1], f[i + 1])
      BY <2>6
    <3>2. (i + 1) + 1 \in 1 .. m /\ (i + 1) + 1 # 1 /\ ((i + 1) + 1) - 1 = i + 1
      OBVIOUS
    <3>3. /\ e[(i + 1) + 1] = e[i + 1] \o ds[(i + 1) + 1]
          /\ f[(i + 1) + 1] = f[i + 1] \o ts[(i + 1) + 1]
      BY <2>3, <2>4, <3>2
    <3>4. Means(C, ds[(i + 1) + 1], ts[(i + 1) + 1])
      BY <3>2
    <3> QED
      BY <3>1, <3>3, <3>4, MeansJoin
  <2>7. m - 1 \in Nat /\ (m - 1) + 1 = m /\ m <= m
    BY <1>3
  <2> HIDE DEF T
  <2>8. m - 1 \in T
    BY <2>5, <2>6, <2>7, NatInd
  <2> QED
    BY <2>1, <2>2, <2>7, <2>8 DEF T
<1> QED
  BY <1>2, <1>3

(* So does one with commas, and an object or an array of them. *)
LEMMA MeansCommas ==
    ASSUME NEW C, Marks \subseteq C, NEW m \in Nat, NEW ds, DOMAIN ds = 1 .. m,
           NEW ts, DOMAIN ts = 1 .. m, \A i \in 1 .. m : Means(C, ds[i], ts[i])
    PROVE  /\ Means(C, Commas(ds), Join(ts))
           /\ Means(C, Obj(ds), Braces(ts)) /\ Means(C, arr(ds), Brackets(ts))
<1> DEFINE es == [i \in 1 .. m |-> IF i > 1 THEN <<",">> \o ds[i] ELSE ds[i]]
           us == [i \in 1 .. m |-> IF i > 1 THEN <<Punct(",")>> \o ts[i] ELSE ts[i]]
<1>0. "," \in C /\ "{" \in C /\ "}" \in C /\ "[" \in C /\ "]" \in C
  BY DEF Marks
<1>1. /\ Means(C, <<",">>, <<Punct(",")>>)
      /\ Means(C, <<"{">>, <<Punct("{")>>) /\ Means(C, <<"}">>, <<Punct("}")>>)
      /\ Means(C, <<"[">>, <<Punct("[")>>) /\ Means(C, <<"]">>, <<Punct("]")>>)
  <2>1. "," # Quote /\ "{" # Quote /\ "}" # Quote /\ "[" # Quote /\ "]" # Quote
    BY DEF Quote
  <2> QED
    BY <1>0, <2>1, MeansPunct
<1>2. ASSUME NEW i \in 1 .. m PROVE Means(C, es[i], us[i])
  <2>1. CASE i > 1
    <3>1. es[i] = <<",">> \o ds[i] /\ us[i] = <<Punct(",")>> \o ts[i]
      BY <2>1
    <3> QED
      BY <1>1, <3>1, MeansJoin
  <2>2. CASE ~(i > 1)
    BY <2>2
  <2> QED
    BY <2>1, <2>2
<1>3. es \in [1 .. m -> Seq(C)] /\ us \in [1 .. m -> Seq(TokenOf(C))]
  <2>1. \A i \in 1 .. m : es[i] \in Seq(C) /\ us[i] \in Seq(TokenOf(C))
    BY <1>2 DEF Means
  <2>2. DOMAIN es = 1 .. m /\ es = [i \in 1 .. m |-> es[i]]
    OBVIOUS
  <2>3. DOMAIN us = 1 .. m /\ us = [i \in 1 .. m |-> us[i]]
    OBVIOUS
  <2> HIDE DEF es, us
  <2> QED
    BY <2>1, <2>2, <2>3
<1>4. Commas(ds) = FlattenSeq(es) /\ Join(ts) = FlattenSeq(us)
  BY DEF Commas, Join
<1> HIDE DEF es, us
<1>5. Means(C, Commas(ds), Join(ts))
  BY <1>2, <1>3, <1>4, MeansFlat
<1>6. Means(C, <<"{">> \o Commas(ds), <<Punct("{")>> \o Join(ts))
  BY <1>1, <1>5, MeansJoin
<1>7. Means(C, (<<"{">> \o Commas(ds)) \o <<"}">>, (<<Punct("{")>> \o Join(ts)) \o <<Punct("}")>>)
  BY <1>1, <1>6, MeansJoin
<1>8. Means(C, <<"[">> \o Commas(ds), <<Punct("[")>> \o Join(ts))
  BY <1>1, <1>5, MeansJoin
<1>9. Means(C, (<<"[">> \o Commas(ds)) \o <<"]">>, (<<Punct("[")>> \o Join(ts)) \o <<Punct("]")>>)
  BY <1>1, <1>8, MeansJoin
<1> QED
  BY <1>5, <1>7, <1>9 DEF Obj, arr, Braces, Brackets

(* A member of an object, and one whose value is a text. *)
LEMMA MeansNamed ==
    ASSUME NEW C, Marks \subseteq C, NEW k \in C
    PROVE  /\ \A v, tv : Means(C, v, tv) => Means(C, Raw(<<k>>, v), Named(k, tv))
           /\ \A t \in Seq(C) : Means(C, StrMember(<<k>>, t), Named(k, <<Text(t)>>))
<1>1. <<k>> \in Seq(C)
  OBVIOUS
<1>2. Means(C, push_str(<<k>>), <<Text(<<k>>)>>)
  BY <1>1, MeansText
<1>3. Means(C, <<":">>, <<Punct(":")>>)
  <2>1. ":" \in C /\ ":" # Quote
    BY DEF Marks, Quote
  <2> QED
    BY <2>1, MeansPunct
<1>4. Means(C, push_str(<<k>>) \o <<":">>, <<Text(<<k>>)>> \o <<Punct(":")>>)
  BY <1>2, <1>3, MeansJoin
<1>5. <<Text(<<k>>), Punct(":")>> = <<Text(<<k>>)>> \o <<Punct(":")>>
  OBVIOUS
<1>6. ASSUME NEW v, NEW tv, Means(C, v, tv) PROVE Means(C, Raw(<<k>>, v), Named(k, tv))
  <2>1. Means(C, (push_str(<<k>>) \o <<":">>) \o v, (<<Text(<<k>>)>> \o <<Punct(":")>>) \o tv)
    BY <1>4, <1>6, MeansJoin
  <2> QED
    BY <1>5, <2>1 DEF Raw, Named
<1>7. ASSUME NEW t \in Seq(C) PROVE Means(C, StrMember(<<k>>, t), Named(k, <<Text(t)>>))
  BY <1>6, MeansText DEF StrMember
<1> QED
  BY <1>6, <1>7

(* A reader finds in a document what it means. *)
LEMMA TokensAre ==
    ASSUME NEW C, NEW d, NEW ts, Means(C, d, ts)
    PROVE  Tokens(d) = ts
<1> DEFINE r == [mode |-> "out", s |-> <<>>, hex |-> <<>>, toks |-> <<>>]
<1>1. <<>> \in Seq(C) /\ <<>> \in Seq(TokenOf(C))
  BY EmptySeq
<1>2. r \in ReaderOf(C) /\ r.mode = "out" /\ r.toks = <<>>
  BY <1>1 DEF ReaderOf
<1>3. Tokens(d) = ReadFrom(r, d).toks
  BY DEF Tokens
<1> HIDE DEF r
<1>4. ReadFrom(r, d).toks = <<>> \o ts /\ ts \in Seq(TokenOf(C))
  BY <1>2 DEF Means
<1> QED
  BY <1>3, <1>4, ConcatEmptySeq

(* Objects of one, three and six members, as json.rs is used. *)
LEMMA MeansObjects ==
    ASSUME NEW C, Marks \subseteq C,
           NEW d1, NEW d2, NEW d3, NEW d4, NEW d5, NEW d6,
           NEW t1, NEW t2, NEW t3, NEW t4, NEW t5, NEW t6
    PROVE  /\ Means(C, d1, t1) => Means(C, Obj(<<d1>>), Braces(<<t1>>))
           /\ Means(C, d1, t1) /\ Means(C, d2, t2) /\ Means(C, d3, t3)
                 => Means(C, Obj(<<d1, d2, d3>>), Braces(<<t1, t2, t3>>))
           /\ (/\ Means(C, d1, t1) /\ Means(C, d2, t2) /\ Means(C, d3, t3)
               /\ Means(C, d4, t4) /\ Means(C, d5, t5) /\ Means(C, d6, t6))
                 => Means(C, Obj(<<d1, d2, d3, d4, d5, d6>>),
                             Braces(<<t1, t2, t3, t4, t5, t6>>))
<1>1. ASSUME Means(C, d1, t1) PROVE Means(C, Obj(<<d1>>), Braces(<<t1>>))
  <2> DEFINE ds == <<d1>>
             ts == <<t1>>
  <2>1. DOMAIN ds = 1 .. 1 /\ DOMAIN ts = 1 .. 1 /\ ds[1] = d1 /\ ts[1] = t1
    OBVIOUS
  <2>2. \A i \in 1 .. 1 : i = 1
    OBVIOUS
  <2> HIDE DEF ds, ts
  <2>3. \A i \in 1 .. 1 : Means(C, ds[i], ts[i])
    BY <1>1, <2>1, <2>2
  <2>4. Means(C, Obj(ds), Braces(ts))
    BY <2>1, <2>3, MeansCommas
  <2> QED
    BY <2>4 DEF ds, ts
<1>2. ASSUME Means(C, d1, t1), Means(C, d2, t2), Means(C, d3, t3)
      PROVE  Means(C, Obj(<<d1, d2, d3>>), Braces(<<t1, t2, t3>>))
  <2> DEFINE ds == <<d1, d2, d3>>
             ts == <<t1, t2, t3>>
  <2>1. /\ DOMAIN ds = 1 .. 3 /\ ds[1] = d1 /\ ds[2] = d2 /\ ds[3] = d3
        /\ DOMAIN ts = 1 .. 3 /\ ts[1] = t1 /\ ts[2] = t2 /\ ts[3] = t3
    OBVIOUS
  <2>2. \A i \in 1 .. 3 : i = 1 \/ i = 2 \/ i = 3
    OBVIOUS
  <2> HIDE DEF ds, ts
  <2>3. \A i \in 1 .. 3 : Means(C, ds[i], ts[i])
    BY <1>2, <2>1, <2>2
  <2>4. Means(C, Obj(ds), Braces(ts))
    BY <2>1, <2>3, MeansCommas
  <2> QED
    BY <2>4 DEF ds, ts
<1>3. ASSUME Means(C, d1, t1), Means(C, d2, t2), Means(C, d3, t3),
             Means(C, d4, t4), Means(C, d5, t5), Means(C, d6, t6)
      PROVE  Means(C, Obj(<<d1, d2, d3, d4, d5, d6>>), Braces(<<t1, t2, t3, t4, t5, t6>>))
  <2> DEFINE ds == <<d1, d2, d3, d4, d5, d6>>
             ts == <<t1, t2, t3, t4, t5, t6>>
  <2>1. /\ DOMAIN ds = 1 .. 6 /\ ds[1] = d1 /\ ds[2] = d2 /\ ds[3] = d3
        /\ ds[4] = d4 /\ ds[5] = d5 /\ ds[6] = d6
        /\ DOMAIN ts = 1 .. 6 /\ ts[1] = t1 /\ ts[2] = t2 /\ ts[3] = t3
        /\ ts[4] = t4 /\ ts[5] = t5 /\ ts[6] = t6
    OBVIOUS
  <2>2. \A i \in 1 .. 6 : i = 1 \/ i = 2 \/ i = 3 \/ i = 4 \/ i = 5 \/ i = 6
    OBVIOUS
  <2> HIDE DEF ds, ts
  <2>3. \A i \in 1 .. 6 : Means(C, ds[i], ts[i])
    BY <1>3, <2>1, <2>2
  <2>4. Means(C, Obj(ds), Braces(ts))
    BY <2>1, <2>3, MeansCommas
  <2> QED
    BY <2>4 DEF ds, ts
<1> QED
  BY <1>1, <1>2, <1>3

(* The names of the members. *)
MemberNames ==
    {"service", "kind", "lines", "error", "profile", "name", "port", "upstream", "preset",
     "limits", "key", "value", "source"}

(* The answer with the lines of a log says what it was made from. *)
LEMMA LogsExact ==
    ASSUME NEW C, Marks \cup MemberNames \subseteq C,
           NEW x \in Seq(C), NEW y \in Seq(C), NEW ts \in Seq(Seq(C))
    PROVE  Tokens(LogsBody(x, y, ts)) =
               Braces(<<Named("service", <<Text(x)>>), Named("kind", <<Text(y)>>),
                        Named("lines", Brackets([i \in DOMAIN ts |-> <<Text(ts[i])>>]))>>)
<1>0. /\ Marks \subseteq C
      /\ "service" \in C /\ "kind" \in C /\ "lines" \in C
  BY DEF MemberNames
<1>m. \A k \in C : /\ \A v, tv : Means(C, v, tv) => Means(C, Raw(<<k>>, v), Named(k, tv))
                   /\ \A t \in Seq(C) : Means(C, StrMember(<<k>>, t), Named(k, <<Text(t)>>))
  BY <1>0, MeansNamed
<1> DEFINE ds == [i \in DOMAIN ts |-> push_str(ts[i])]
           us == [i \in DOMAIN ts |-> <<Text(ts[i])>>]
           m == Len(ts)
<1>1. m \in Nat /\ DOMAIN ts = 1 .. m /\ \A i \in 1 .. m : ts[i] \in Seq(C)
  BY LenProperties, ElementOfSeq
<1>2. \A i \in 1 .. m : Means(C, push_str(ts[i]), <<Text(ts[i])>>)
  BY <1>0, <1>1, MeansText
<1>3. /\ DOMAIN ds = 1 .. m /\ DOMAIN us = 1 .. m
      /\ \A i \in 1 .. m : ds[i] = push_str(ts[i]) /\ us[i] = <<Text(ts[i])>>
  BY <1>1
<1> HIDE DEF ds, us, m
<1>4. Means(C, arr(ds), Brackets(us))
  <2>1. \A i \in 1 .. m : Means(C, ds[i], us[i])
    BY <1>2, <1>3
  <2> QED
    BY <1>0, <1>1, <1>3, <2>1, MeansCommas
<1>5. /\ Means(C, StrMember(<<"service">>, x), Named("service", <<Text(x)>>))
      /\ Means(C, StrMember(<<"kind">>, y), Named("kind", <<Text(y)>>))
      /\ Means(C, Raw(<<"lines">>, arr(ds)), Named("lines", Brackets(us)))
  BY <1>0, <1>m, <1>4
<1>6. Means(C, Obj(<<StrMember(<<"service">>, x), StrMember(<<"kind">>, y),
                     Raw(<<"lines">>, arr(ds))>>),
            Braces(<<Named("service", <<Text(x)>>), Named("kind", <<Text(y)>>),
                     Named("lines", Brackets(us))>>))
  BY <1>0, <1>5, MeansObjects
<1>7. LogsBody(x, y, ts) = Obj(<<StrMember(<<"service">>, x), StrMember(<<"kind">>, y),
                                 Raw(<<"lines">>, arr(ds))>>)
  BY DEF LogsBody, str_arr, ds
<1>8. Tokens(LogsBody(x, y, ts)) =
          Braces(<<Named("service", <<Text(x)>>), Named("kind", <<Text(y)>>),
                   Named("lines", Brackets(us))>>)
  BY <1>6, <1>7, TokensAre
<1> QED
  BY <1>8 DEF us

(* Over every alphabet and for every text, the answers with log lines      *)
(* (main.rs:257-264), a service (collect.rs:268-282) or an error           *)
(* (http.rs:66-74) say what they were made from: no text in them ends      *)
(* early, runs on or becomes punctuation (push_str, json.rs:13-29).        *)
THEOREM DocumentsExact ==
    ASSUME NEW C, Marks \cup MemberNames \subseteq C,
           NEW x \in Seq(C), NEW y \in Seq(C), NEW ts \in Seq(Seq(C)),
           NEW z \in [profile : Seq(C), name : Seq(C), port : Seq(C), upstream : Seq(C),
                      preset : Seq(C),
                      limits : Seq([key : Seq(C), val : Seq(C), src : Seq(C)])]
    PROVE  /\ Tokens(LogsBody(x, y, ts)) =
                Braces(<<Named("service", <<Text(x)>>), Named("kind", <<Text(y)>>),
                         Named("lines", Brackets([i \in DOMAIN ts |-> <<Text(ts[i])>>]))>>)
           /\ Tokens(service_json(z)) = Braces(
                <<Named("profile", <<Text(z.profile)>>), Named("name", <<Text(z.name)>>),
                  Named("port", <<Text(z.port)>>), Named("upstream", <<Text(z.upstream)>>),
                  Named("preset", <<Text(z.preset)>>),
                  Named("limits", Brackets([i \in DOMAIN z.limits |->
                      Braces(<<Named("key", <<Text(z.limits[i].key)>>),
                               Named("value", <<Text(z.limits[i].val)>>),
                               Named("source", <<Text(z.limits[i].src)>>)>>)]))>>)
           /\ Tokens(ErrorBody(x)) = Braces(<<Named("error", <<Text(x)>>)>>)
<1>0. /\ Marks \subseteq C
      /\ "service" \in C /\ "kind" \in C /\ "lines" \in C /\ "error" \in C /\ "profile" \in C
      /\ "name" \in C /\ "port" \in C /\ "upstream" \in C /\ "preset" \in C
      /\ "limits" \in C /\ "key" \in C /\ "value" \in C /\ "source" \in C
  BY DEF MemberNames
<1>m. \A k \in C : /\ \A v, tv : Means(C, v, tv) => Means(C, Raw(<<k>>, v), Named(k, tv))
                   /\ \A t \in Seq(C) : Means(C, StrMember(<<k>>, t), Named(k, <<Text(t)>>))
  BY <1>0, MeansNamed
<1>1. Tokens(LogsBody(x, y, ts)) =
          Braces(<<Named("service", <<Text(x)>>), Named("kind", <<Text(y)>>),
                   Named("lines", Brackets([i \in DOMAIN ts |-> <<Text(ts[i])>>]))>>)
  BY LogsExact
<1>2. Tokens(service_json(z)) = Braces(
          <<Named("profile", <<Text(z.profile)>>), Named("name", <<Text(z.name)>>),
            Named("port", <<Text(z.port)>>), Named("upstream", <<Text(z.upstream)>>),
            Named("preset", <<Text(z.preset)>>),
            Named("limits", Brackets([i \in DOMAIN z.limits |->
                Braces(<<Named("key", <<Text(z.limits[i].key)>>),
                         Named("value", <<Text(z.limits[i].val)>>),
                         Named("source", <<Text(z.limits[i].src)>>)>>)]))>>)
  <2> DEFINE ls == z.limits
             m == Len(ls)
             D(i) == Obj(<<StrMember(<<"key">>, ls[i].key), StrMember(<<"value">>, ls[i].val),
                           StrMember(<<"source">>, ls[i].src)>>)
             U(i) == Braces(<<Named("key", <<Text(ls[i].key)>>),
                              Named("value", <<Text(ls[i].val)>>),
                              Named("source", <<Text(ls[i].src)>>)>>)
             ds == [i \in DOMAIN ls |-> D(i)]
             us == [i \in DOMAIN ls |-> U(i)]
  <2>0. /\ z.profile \in Seq(C) /\ z.name \in Seq(C) /\ z.port \in Seq(C)
        /\ z.upstream \in Seq(C) /\ z.preset \in Seq(C)
    OBVIOUS
  <2>1. ls \in Seq([key : Seq(C), val : Seq(C), src : Seq(C)])
    OBVIOUS
  <2>2. m \in Nat /\ DOMAIN ls = 1 .. m
    <3> HIDE DEF ls
    <3> QED
      BY <2>1, LenProperties
  <2>3. \A i \in 1 .. m : ls[i].key \in Seq(C) /\ ls[i].val \in Seq(C) /\ ls[i].src \in Seq(C)
    <3> HIDE DEF ls
    <3>1. \A i \in 1 .. m : ls[i] \in [key : Seq(C), val : Seq(C), src : Seq(C)]
      BY <2>1, ElementOfSeq
    <3> QED
      BY <3>1
  <2> HIDE DEF ls
  <2>4. ASSUME NEW i \in 1 .. m PROVE Means(C, D(i), U(i))
    <3>1. ls[i].key \in Seq(C) /\ ls[i].val \in Seq(C) /\ ls[i].src \in Seq(C)
      BY <2>3
    <3>2. /\ Means(C, StrMember(<<"key">>, ls[i].key), Named("key", <<Text(ls[i].key)>>))
          /\ Means(C, StrMember(<<"value">>, ls[i].val), Named("value", <<Text(ls[i].val)>>))
          /\ Means(C, StrMember(<<"source">>, ls[i].src), Named("source", <<Text(ls[i].src)>>))
      BY <1>0, <1>m, <3>1
    <3> QED
      BY <1>0, <3>2, MeansObjects
  <2> HIDE DEF D, U, m
  <2>5. /\ DOMAIN ds = 1 .. m /\ DOMAIN us = 1 .. m
        /\ \A i \in 1 .. m : ds[i] = D(i) /\ us[i] = U(i)
    BY <2>2
  <2> HIDE DEF ds, us
  <2>6. Means(C, arr(ds), Brackets(us))
    <3>1. \A i \in 1 .. m : Means(C, ds[i], us[i])
      BY <2>4, <2>5
    <3> QED
      BY <1>0, <2>2, <2>5, <3>1, MeansCommas
  <2>7. /\ Means(C, StrMember(<<"profile">>, z.profile), Named("profile", <<Text(z.profile)>>))
        /\ Means(C, StrMember(<<"name">>, z.name), Named("name", <<Text(z.name)>>))
        /\ Means(C, StrMember(<<"port">>, z.port), Named("port", <<Text(z.port)>>))
    BY <1>0, <1>m, <2>0
  <2>8. /\ Means(C, StrMember(<<"upstream">>, z.upstream), Named("upstream", <<Text(z.upstream)>>))
        /\ Means(C, StrMember(<<"preset">>, z.preset), Named("preset", <<Text(z.preset)>>))
        /\ Means(C, Raw(<<"limits">>, arr(ds)), Named("limits", Brackets(us)))
    BY <1>0, <1>m, <2>0, <2>6
  <2>9. Means(C, Obj(<<StrMember(<<"profile">>, z.profile), StrMember(<<"name">>, z.name),
                       StrMember(<<"port">>, z.port), StrMember(<<"upstream">>, z.upstream),
                       StrMember(<<"preset">>, z.preset), Raw(<<"limits">>, arr(ds))>>),
              Braces(<<Named("profile", <<Text(z.profile)>>), Named("name", <<Text(z.name)>>),
                       Named("port", <<Text(z.port)>>), Named("upstream", <<Text(z.upstream)>>),
                       Named("preset", <<Text(z.preset)>>), Named("limits", Brackets(us))>>))
    BY <1>0, <2>7, <2>8, MeansObjects
  <2>10. service_json(z) =
             Obj(<<StrMember(<<"profile">>, z.profile), StrMember(<<"name">>, z.name),
                   StrMember(<<"port">>, z.port), StrMember(<<"upstream">>, z.upstream),
                   StrMember(<<"preset">>, z.preset), Raw(<<"limits">>, arr(ds))>>)
    BY DEF service_json, ds, D, ls
  <2>11. Tokens(service_json(z)) =
             Braces(<<Named("profile", <<Text(z.profile)>>), Named("name", <<Text(z.name)>>),
                      Named("port", <<Text(z.port)>>), Named("upstream", <<Text(z.upstream)>>),
                      Named("preset", <<Text(z.preset)>>), Named("limits", Brackets(us))>>)
    BY <2>9, <2>10, TokensAre
  <2> QED
    BY <2>11 DEF us, U, ls
<1>3. Tokens(ErrorBody(x)) = Braces(<<Named("error", <<Text(x)>>)>>)
  <2>1. Means(C, StrMember(<<"error">>, x), Named("error", <<Text(x)>>))
    BY <1>0, <1>m
  <2>2. Means(C, Obj(<<StrMember(<<"error">>, x)>>), Braces(<<Named("error", <<Text(x)>>)>>))
    BY <1>0, <2>1, MeansObjects
  <2> QED
    BY <2>2, TokensAre DEF ErrorBody
<1> QED
  BY <1>1, <1>2, <1>3

(* The texts of the run are over the alphabet and the names together. *)
LEMMA TextsAreTexts ==
    ASSUME NEW C, Chars \subseteq C, NEW ts \in Texts
    PROVE  ts \in Seq(Seq(C))
<1>1. \A most \in Nat : \A s \in BoundedSeq(Chars, most) : s \in Seq(C)
  <2> SUFFICES ASSUME NEW most \in Nat, NEW s \in BoundedSeq(Chars, most) PROVE s \in Seq(C)
    OBVIOUS
  <2>1. PICK m \in 0 .. most : s \in [1 .. m -> Chars]
    BY DEF BoundedSeq, SeqOf
  <2>2. s \in [1 .. m -> C] /\ m \in Nat
    <3> HIDE DEF Chars
    <3> QED
      BY <2>1
  <2> QED
    BY <2>2
<1>2. CASE \E s \in BoundedSeq(Chars, 3) : ts = <<s>>
  <2>1. PICK s \in Seq(C) : ts = <<s>>
    BY <1>1, <1>2
  <2> QED
    BY <2>1
<1>3. CASE \E s, t \in BoundedSeq(Chars, 1) : ts = <<s, t>>
  <2>1. PICK s, t \in Seq(C) : ts = <<s, t>>
    BY <1>1, <1>3
  <2> QED
    BY <2>1
<1>4. CASE ts = <<>>
  BY <1>4, EmptySeq
<1> QED
  BY <1>2, <1>3, <1>4 DEF Texts

(* So no text in a log line, a limit or an error message that the run      *)
(* tries gets out of the string that json.rs puts it in.                   *)
THEOREM DocumentsChecked == AlgSpec => []NothingBreaksOut
<1> DEFINE Made(ts) == <<Tokens(LogsBody(<<"u">>, <<"u">>, ts)),
                         Tokens(service_json(Service(ts))),
                         Tokens(ErrorBody(FlattenSeq(ts)))>>
           I == alg = "json" => in \in Texts /\ (done => out = Made(in))
<1>1. AlgInit => I
  <2> HIDE DEF Made
  <2> QED
    BY DEF AlgInit
<1>2. I /\ [AlgNext]_algVars => I'
  <2> SUFFICES ASSUME I, [AlgNext]_algVars PROVE I'
    OBVIOUS
  <2>1. CASE Run
    <3>1. alg' = alg /\ in' = in /\ (alg = "json" => out' = Made(in))
      BY <2>1 DEF Run
    <3> HIDE DEF Made
    <3> QED
      BY <3>1
  <2>2. CASE UNCHANGED algVars
    <3> HIDE DEF Made
    <3> QED
      BY <2>2 DEF algVars
  <2> QED
    BY <2>1, <2>2 DEF AlgNext
<1>3. ASSUME I PROVE NothingBreaksOut
  <2> SUFFICES ASSUME Did("json") PROVE NothingBreaksOut
    BY DEF NothingBreaksOut
  <2> DEFINE C == Chars \cup Marks \cup MemberNames
             s == Service(in)
             R == [key : Seq(C), val : Seq(C), src : Seq(C)]
  <2>1. in \in Texts /\ out = Made(in)
    <3> HIDE DEF Made
    <3> QED
      BY <1>3 DEF Did
  <2>2. Chars \subseteq C /\ Marks \cup MemberNames \subseteq C
    OBVIOUS
  <2>3. Quote \in C /\ Backslash \in C /\ "u" \in C
    BY DEF Chars
  <2> HIDE DEF C
  <2>4. in \in Seq(Seq(C))
    BY <2>1, <2>2, TextsAreTexts
  <2>5. <<"u">> \in Seq(C) /\ <<Quote>> \in Seq(C) /\ <<Backslash>> \in Seq(C) /\ <<>> \in Seq(C)
    BY <2>3, EmptySeq
  <2>6. FlattenSeq(in) \in Seq(C)
    BY <2>4, FlatType
  <2>7. Len(in) \in Nat /\ DOMAIN in = 1 .. Len(in) /\ \A i \in 1 .. Len(in) : in[i] \in Seq(C)
    BY <2>4, LenProperties, ElementOfSeq
  <2>8. Limits(in) \in Seq(R) /\ DOMAIN Limits(in) = DOMAIN in
    <3>1. \A i \in 1 .. Len(in) : 1 \in 1 .. Len(in)
      BY <2>7
    <3>2. \A i \in 1 .. Len(in) : [key |-> <<"u">>, val |-> in[i], src |-> in[1]] \in R
      BY <2>5, <2>7, <3>1
    <3> HIDE DEF R
    <3>3. Limits(in) \in [1 .. Len(in) -> R]
      BY <2>7, <3>2 DEF Limits
    <3> QED
      BY <2>7, <3>3
  <2>9. \A i \in DOMAIN in : /\ Limits(in)[i].key = <<"u">> /\ Limits(in)[i].val = in[i]
                             /\ Limits(in)[i].src = in[1]
    BY DEF Limits
  <2> HIDE DEF R
  <2>10. s.limits = Limits(in)
    BY DEF Service
  <2>11. s \in [profile : Seq(C), name : Seq(C), port : Seq(C), upstream : Seq(C),
                preset : Seq(C), limits : Seq(R)]
    BY <2>5, <2>8 DEF Service
  <2> HIDE DEF s
  <2>12. out[1] = Braces(<<Named("service", <<Text(<<"u">>)>>), Named("kind", <<Text(<<"u">>)>>),
                           Named("lines", Brackets([i \in DOMAIN in |-> <<Text(in[i])>>]))>>)
    <3>1. out[1] = Tokens(LogsBody(<<"u">>, <<"u">>, in))
      BY <2>1
    <3> HIDE DEF Made
    <3> QED
      BY <2>2, <2>4, <2>5, <3>1, LogsExact
  <2>13. out[2] = Braces(
             <<Named("profile", <<Text(s.profile)>>), Named("name", <<Text(s.name)>>),
               Named("port", <<Text(s.port)>>), Named("upstream", <<Text(s.upstream)>>),
               Named("preset", <<Text(s.preset)>>),
               Named("limits", Brackets([i \in DOMAIN in |->
                   Braces(<<Named("key", <<Text(<<"u">>)>>), Named("value", <<Text(in[i])>>),
                            Named("source", <<Text(in[1])>>)>>)]))>>)
    <3>1. out[2] = Tokens(service_json(s))
      BY <2>1 DEF s
    <3> HIDE DEF Made
    <3> DEFINE L(i) == Braces(<<Named("key", <<Text(s.limits[i].key)>>),
                                Named("value", <<Text(s.limits[i].val)>>),
                                Named("source", <<Text(s.limits[i].src)>>)>>)
               K(i) == Braces(<<Named("key", <<Text(<<"u">>)>>), Named("value", <<Text(in[i])>>),
                                Named("source", <<Text(in[1])>>)>>)
    <3>2. Tokens(service_json(s)) = Braces(
              <<Named("profile", <<Text(s.profile)>>), Named("name", <<Text(s.name)>>),
                Named("port", <<Text(s.port)>>), Named("upstream", <<Text(s.upstream)>>),
                Named("preset", <<Text(s.preset)>>),
                Named("limits", Brackets([i \in DOMAIN s.limits |-> L(i)]))>>)
      BY <2>2, <2>4, <2>5, <2>11, DocumentsExact DEF R
    <3>3. \A i \in DOMAIN in : L(i) = K(i)
      BY <2>9, <2>10
    <3>4. DOMAIN s.limits = DOMAIN in
      BY <2>8, <2>10
    <3> HIDE DEF L, K
    <3>5. [i \in DOMAIN s.limits |-> L(i)] = [i \in DOMAIN in |-> K(i)]
      BY <3>3, <3>4
    <3> QED
      BY <3>1, <3>2, <3>5 DEF K
  <2>14. out[3] = Braces(<<Named("error", <<Text(FlattenSeq(in))>>)>>)
    <3>1. out[3] = Tokens(ErrorBody(FlattenSeq(in)))
      BY <2>1
    <3> HIDE DEF Made
    <3> QED
      BY <2>2, <2>4, <2>5, <2>6, <2>11, <3>1, DocumentsExact DEF R
  <2> QED
    BY <2>12, <2>13, <2>14 DEF NothingBreaksOut, s
<1> QED
  BY <1>1, <1>2, <1>3, PTL DEF AlgSpec

-------------------------------------------------------------------------------
(***************************************************************************)
(* The compiler, for every host.  Sorting by ranks puts every element at a *)
(* place of its own, since of two elements one precedes the other and so   *)
(* has fewer before it.                                                    *)
(***************************************************************************)
(* Of two elements, the one that precedes the other has the lower rank, so *)
(* that the ranks are all the places there are.                            *)
LEMMA Ranks ==
    ASSUME NEW N \in Nat, NEW key \in [1 .. N -> Int]
    PROVE  /\ \A i \in 1 .. N : Rank(key, i) \in 1 .. N
           /\ \A i, j \in 1 .. N : Precedes(key, i, j) => Rank(key, i) < Rank(key, j)
           /\ \A k \in 1 .. N : \E i \in 1 .. N : Rank(key, i) = k
<1> DEFINE Ahead(i) == {j \in 1 .. N : Precedes(key, j, i)}
<1>0. IsFiniteSet(1 .. N) /\ Cardinality(1 .. N) = N
  <2>1. IsFiniteSet(1 .. N) /\ Cardinality(1 .. N) = IF 1 > N THEN 0 ELSE N - 1 + 1
    BY FS_Interval
  <2> QED
    BY <2>1
<1>1. \A i \in 1 .. N : Rank(key, i) = Cardinality(Ahead(i)) + 1
  BY DEF Rank
<1>2. ASSUME NEW i \in 1 .. N
      PROVE  /\ IsFiniteSet(Ahead(i)) /\ Cardinality(Ahead(i)) \in Nat
             /\ Cardinality(Ahead(i)) < N
  <2>1. Ahead(i) \in SUBSET (1 .. N) /\ i \notin Ahead(i)
    <3>1. ~Precedes(key, i, i)
      BY DEF Precedes
    <3> QED
      BY <3>1
  <2> HIDE DEF Ahead
  <2>2. /\ IsFiniteSet(Ahead(i)) /\ Cardinality(Ahead(i)) <= N
        /\ N = Cardinality(Ahead(i)) => 1 .. N = Ahead(i)
    BY <1>0, <2>1, FS_Subset
  <2>3. Cardinality(Ahead(i)) \in Nat
    BY <2>2, FS_CardinalityType
  <2> QED
    BY <2>1, <2>2, <2>3
<1>3. ASSUME NEW i \in 1 .. N, NEW j \in 1 .. N, Precedes(key, i, j)
      PROVE  Cardinality(Ahead(i)) < Cardinality(Ahead(j))
  <2>1. Ahead(i) \in SUBSET Ahead(j)
    <3>1. ASSUME NEW k \in 1 .. N, Precedes(key, k, i) PROVE Precedes(key, k, j)
      <4>1. key[i] \in Int /\ key[j] \in Int /\ key[k] \in Int
        OBVIOUS
      <4> QED
        BY <1>3, <3>1, <4>1 DEF Precedes
    <3> QED
      BY <3>1
  <2>2. i \in Ahead(j) /\ i \notin Ahead(i)
    <3>1. ~Precedes(key, i, i)
      BY DEF Precedes
    <3> QED
      BY <1>3, <3>1
  <2> HIDE DEF Ahead
  <2>3. /\ Cardinality(Ahead(i)) <= Cardinality(Ahead(j))
        /\ Cardinality(Ahead(j)) = Cardinality(Ahead(i)) => Ahead(j) = Ahead(i)
    BY <1>2, <2>1, FS_Subset
  <2>4. Cardinality(Ahead(i)) \in Nat /\ Cardinality(Ahead(j)) \in Nat
    BY <1>2
  <2>5. Ahead(j) # Ahead(i)
    BY <2>2
  <2> QED
    BY <2>3, <2>4, <2>5
<1> HIDE DEF Ahead
<1>4. \A i \in 1 .. N : Rank(key, i) \in 1 .. N
  <2> SUFFICES ASSUME NEW i \in 1 .. N PROVE Rank(key, i) \in 1 .. N
    OBVIOUS
  <2>1. Cardinality(Ahead(i)) \in Nat /\ Cardinality(Ahead(i)) < N
    BY <1>2
  <2> QED
    BY <1>1, <2>1
<1>5. \A i, j \in 1 .. N : Precedes(key, i, j) => Rank(key, i) < Rank(key, j)
  <2> SUFFICES ASSUME NEW i \in 1 .. N, NEW j \in 1 .. N, Precedes(key, i, j)
               PROVE  Rank(key, i) < Rank(key, j)
    OBVIOUS
  <2>1. Cardinality(Ahead(i)) < Cardinality(Ahead(j))
    BY <1>3
  <2>2. Cardinality(Ahead(i)) \in Nat /\ Cardinality(Ahead(j)) \in Nat
    BY <1>2
  <2> QED
    BY <1>1, <2>1, <2>2
<1>6. ASSUME NEW k \in 1 .. N PROVE \E i \in 1 .. N : Rank(key, i) = k
  <2> DEFINE f == [i \in 1 .. N |-> Rank(key, i)]
  <2>1. f \in [1 .. N -> 1 .. N]
    BY <1>4
  <2>2. ASSUME NEW i \in 1 .. N, NEW j \in 1 .. N, f[i] = f[j] PROVE i = j
    <3>1. Rank(key, i) = Rank(key, j)
      BY <2>2
    <3>2. Rank(key, i) \in Int
      BY <1>4
    <3>3. ~Precedes(key, i, j) /\ ~Precedes(key, j, i)
      BY <1>5, <3>1, <3>2
    <3>4. key[i] \in Int /\ key[j] \in Int
      OBVIOUS
    <3> QED
      BY <3>3, <3>4 DEF Precedes
  <2>3. f \in Injection(1 .. N, 1 .. N)
    BY <2>1, <2>2 DEF Injection, IsInjective
  <2>4. f \in Surjection(1 .. N, 1 .. N)
    BY <1>0, <2>3, FS_Injection
  <2>5. \E i \in 1 .. N : f[i] = k
    BY <2>4 DEF Surjection
  <2> QED
    BY <2>5
<1> QED
  BY <1>4, <1>5, <1>6

(* sort_by_key: every element once, none before one that precedes it. *)
LEMMA Sorted ==
    ASSUME NEW S, NEW s \in Seq(S), NEW key \in [1 .. Len(s) -> Int]
    PROVE  LET N == Len(s)
           IN  \E p \in [1 .. N -> 1 .. N] :
                  /\ sort_by_key(s, key) \in Seq(S) /\ Len(sort_by_key(s, key)) = N
                  /\ \A k \in 1 .. N : sort_by_key(s, key)[k] = s[p[k]]
                  /\ \A i \in 1 .. N : \E k \in 1 .. N : p[k] = i
                  /\ \A k, l \in 1 .. N : k < l => ~Precedes(key, p[l], p[k])
<1> DEFINE N == Len(s)
           p == [k \in 1 .. N |-> CHOOSE i \in 1 .. N : Rank(key, i) = k]
           t == sort_by_key(s, key)
<1>1. N \in Nat /\ DOMAIN s = 1 .. N /\ \A i \in 1 .. N : s[i] \in S
  BY LenProperties, ElementOfSeq
<1>2. t = [k \in 1 .. N |-> s[p[k]]]
  BY <1>1 DEF sort_by_key
<1> HIDE DEF N, t
<1>3. /\ \A i \in 1 .. N : Rank(key, i) \in 1 .. N
      /\ \A i, j \in 1 .. N : Precedes(key, i, j) => Rank(key, i) < Rank(key, j)
      /\ \A k \in 1 .. N : \E i \in 1 .. N : Rank(key, i) = k
  BY <1>1, Ranks DEF N
<1>4. \A k \in 1 .. N : p[k] \in 1 .. N /\ Rank(key, p[k]) = k
  BY <1>3
<1>5. p \in [1 .. N -> 1 .. N]
  BY <1>4
<1> HIDE DEF p
<1>6. t \in [1 .. N -> S]
  BY <1>1, <1>2, <1>4
<1>7. t \in Seq(S) /\ Len(t) = N
  BY <1>1, <1>6
<1>8. ASSUME NEW i \in 1 .. N PROVE \E k \in 1 .. N : p[k] = i
  <2> DEFINE k == Rank(key, i)
  <2>1. k \in 1 .. N /\ p[k] \in 1 .. N /\ Rank(key, p[k]) = k
    BY <1>3, <1>4
  <2>2. ~Precedes(key, p[k], i) /\ ~Precedes(key, i, p[k])
    <3>1. Rank(key, p[k]) = Rank(key, i) /\ Rank(key, i) \in Int
      BY <2>1
    <3>2. ~(Rank(key, p[k]) < Rank(key, i)) /\ ~(Rank(key, i) < Rank(key, p[k]))
      BY <3>1
    <3> HIDE DEF k
    <3> QED
      BY <1>3, <2>1, <3>2
  <2>3. key[i] \in Int /\ key[p[k]] \in Int /\ i \in Int /\ p[k] \in Int
    BY <1>1, <2>1 DEF N
  <2>4. p[k] = i
    BY <2>2, <2>3 DEF Precedes
  <2> QED
    BY <2>1, <2>4
<1>9. \A k, l \in 1 .. N : k < l => ~Precedes(key, p[l], p[k])
  <2> SUFFICES ASSUME NEW k \in 1 .. N, NEW l \in 1 .. N, k < l, Precedes(key, p[l], p[k])
               PROVE  FALSE
    OBVIOUS
  <2>1. p[k] \in 1 .. N /\ p[l] \in 1 .. N /\ Rank(key, p[k]) = k /\ Rank(key, p[l]) = l
    BY <1>4
  <2>2. Rank(key, p[l]) < Rank(key, p[k])
    BY <1>3, <2>1
  <2>3. k \in Int /\ l \in Int
    OBVIOUS
  <2> QED
    BY <2>1, <2>2, <2>3
<1> QED
  BY <1>2, <1>5, <1>7, <1>8, <1>9 DEF N, t

(* What a list holds when something is put at its end. *)
LEMMA ContainsMore ==
    ASSUME NEW S, NEW s \in Seq(S), NEW x
    PROVE  /\ \A y \in S : Contains(Append(s, y), x) <=> Contains(s, x) \/ x = y
           /\ \A t \in Seq(S) : Contains(s \o t, x) <=> Contains(s, x) \/ Contains(t, x)
<1>1. ASSUME NEW y \in S PROVE Contains(Append(s, y), x) <=> Contains(s, x) \/ x = y
  <2> DEFINE t == Append(s, y)
             m == Len(s)
  <2>1. /\ m \in Nat /\ Len(t) = m + 1 /\ t[m + 1] = y
        /\ \A i \in 1 .. m : t[i] = s[i]
    OBVIOUS
  <2> HIDE DEF t, m
  <2>2. \A i \in 1 .. m + 1 : i = m + 1 \/ i \in 1 .. m
    BY <2>1
  <2>3. m + 1 \in 1 .. m + 1 /\ \A i \in 1 .. m : i \in 1 .. m + 1
    BY <2>1
  <2> QED
    BY <2>1, <2>2, <2>3 DEF Contains, t, m
<1>2. ASSUME NEW t \in Seq(S) PROVE Contains(s \o t, x) <=> Contains(s, x) \/ Contains(t, x)
  <2> DEFINE u == s \o t
             m == Len(s)
             k == Len(t)
  <2>1. /\ m \in Nat /\ k \in Nat /\ Len(u) = m + k
        /\ \A i \in 1 .. m + k : u[i] = IF i <= m THEN s[i] ELSE t[i - m]
    BY LenProperties, ConcatProperties
  <2> HIDE DEF u, m, k
  <2>2. ASSUME Contains(u, x) PROVE Contains(s, x) \/ Contains(t, x)
    <3>1. PICK i \in 1 .. m + k : u[i] = x
      BY <2>1, <2>2 DEF Contains
    <3>2. (i <= m => i \in 1 .. m) /\ (~(i <= m) => i - m \in 1 .. k)
      BY <2>1
    <3> QED
      BY <2>1, <3>1, <3>2 DEF Contains, m, k
  <2>3. ASSUME Contains(s, x) PROVE Contains(u, x)
    <3>1. PICK i \in 1 .. m : s[i] = x
      BY <2>3 DEF Contains, m
    <3>2. i \in 1 .. m + k /\ i <= m
      BY <2>1
    <3> QED
      BY <2>1, <3>1, <3>2 DEF Contains
  <2>4. ASSUME Contains(t, x) PROVE Contains(u, x)
    <3>1. PICK i \in 1 .. k : t[i] = x
      BY <2>4 DEF Contains, k
    <3>2. i + m \in 1 .. m + k /\ ~(i + m <= m) /\ (i + m) - m = i
      BY <2>1
    <3>3. u[i + m] = x
      BY <2>1, <3>1, <3>2
    <3> QED
      BY <2>1, <3>2, <3>3 DEF Contains
  <2> QED
    BY <2>2, <2>3, <2>4 DEF u
<1> QED
  BY <1>1, <1>2

(* The pieces of a list hold together what the list holds. *)
LEMMA FlatContains ==
    ASSUME NEW S, NEW ss \in Seq(Seq(S)), NEW x
    PROVE  Contains(FlattenSeq(ss), x) <=> \E k \in 1 .. Len(ss) : Contains(ss[k], x)
<1>1. Len(ss) \in Nat /\ \A k \in 1 .. Len(ss) : ss[k] \in Seq(S)
  BY LenProperties, ElementOfSeq
<1>2. CASE Len(ss) = 0
  <2>1. ss = <<>>
    BY <1>2, EmptySeq
  <2>2. FlattenSeq(ss) = ss
    BY <1>2 DEF FlattenSeq
  <2> QED
    BY <1>2, <2>1, <2>2 DEF Contains
<1>3. CASE Len(ss) # 0
  <2>1. PICK e : FlatRun(ss, Len(ss), e) /\ FlattenSeq(ss) = e[Len(ss)]
    BY <1>1, <1>3, FlatExists
  <2>2. \A i \in 1 .. Len(ss) : e[i] = IF i = 1 THEN ss[i] ELSE e[i - 1] \o ss[i]
    BY <2>1 DEF FlatRun
  <2> DEFINE T == {i \in Nat : i + 1 <= Len(ss) =>
                      /\ e[i + 1] \in Seq(S)
                      /\ Contains(e[i + 1], x) <=> \E k \in 1 .. i + 1 : Contains(ss[k], x)}
  <2>3. 0 \in T
    <3>1. 1 \in 1 .. Len(ss) /\ 0 + 1 = 1 /\ \A k \in 1 .. 1 : k = 1
      BY <1>1, <1>3
    <3>2. e[1] = ss[1] /\ ss[1] \in Seq(S)
      BY <1>1, <2>2, <3>1
    <3>3. Contains(e[1], x) <=> \E k \in 1 .. 1 : Contains(ss[k], x)
      BY <3>1, <3>2
    <3> QED
      BY <3>1, <3>2, <3>3
  <2>4. ASSUME NEW i \in Nat, i \in T PROVE i + 1 \in T
    <3> DEFINE j == i + 1
    <3> SUFFICES ASSUME j + 1 <= Len(ss)
                 PROVE  /\ e[j + 1] \in Seq(S)
                        /\ Contains(e[j + 1], x) <=> \E k \in 1 .. j + 1 : Contains(ss[k], x)
      OBVIOUS
    <3>1. e[j] \in Seq(S) /\ (Contains(e[j], x) <=> \E k \in 1 .. j : Contains(ss[k], x))
      BY <1>1, <2>4
    <3>2. /\ j + 1 \in 1 .. Len(ss) /\ j + 1 # 1 /\ (j + 1) - 1 = j /\ j \in Nat
          /\ \A k \in 1 .. j + 1 : k = j + 1 \/ k \in 1 .. j
          /\ j + 1 \in 1 .. j + 1 /\ \A k \in 1 .. j : k \in 1 .. j + 1
      BY <1>1
    <3> HIDE DEF T, j
    <3>3. e[j + 1] = e[j] \o ss[j + 1] /\ ss[j + 1] \in Seq(S)
      BY <1>1, <2>2, <3>2
    <3>4. e[j] \o ss[j + 1] \in Seq(S)
      BY <3>1, <3>3, ConcatProperties
    <3>5. Contains(e[j] \o ss[j + 1], x) <=> Contains(e[j], x) \/ Contains(ss[j + 1], x)
      BY <3>1, <3>3, ContainsMore
    <3> QED
      BY <3>1, <3>2, <3>3, <3>4, <3>5
  <2>5. Len(ss) - 1 \in Nat /\ (Len(ss) - 1) + 1 = Len(ss) /\ Len(ss) <= Len(ss)
    BY <1>1, <1>3
  <2> HIDE DEF T
  <2>6. Len(ss) - 1 \in T
    BY <2>3, <2>4, <2>5, NatInd
  <2>7. Contains(e[Len(ss)], x) <=> \E k \in 1 .. Len(ss) : Contains(ss[k], x)
    BY <2>5, <2>6 DEF T
  <2> QED
    BY <2>1, <2>7
<1> QED
  BY <1>2, <1>3

VersionedRun(names, m, e) ==
    e = [i \in 0 .. m |->
            IF i = 0 THEN <<>>
            ELSE IF names[i].v >= 0 /\ ~Contains(e[i - 1], names[i])
                 THEN Append(e[i - 1], names[i]) ELSE e[i - 1]]

(* The loop of clang_candidates has a result on every PATH. *)
LEMMA VersionedExists ==
    ASSUME NEW path, Len(FlattenSeq(path)) \in Nat
    PROVE  LET names == FlattenSeq(path)
           IN  \E e : VersionedRun(names, Len(names), e) /\ Versioned(path) = e[Len(names)]
<1> DEFINE names == FlattenSeq(path)
           Step(q, k) == IF names[k].v >= 0 /\ ~Contains(q, names[k])
                         THEN Append(q, names[k]) ELSE q
           T == {m \in Nat : \E e : VersionedRun(names, m, e)}
<1>0. \A m, e : VersionedRun(names, m, e) <=>
          e = [i \in 0 .. m |-> IF i = 0 THEN <<>> ELSE Step(e[i - 1], i)]
  BY DEF VersionedRun
<1>4. \E e : Versioned(path) = e[Len(names)]
              /\ ((\E q : VersionedRun(names, Len(names), q)) => VersionedRun(names, Len(names), e))
  BY DEF Versioned, VersionedRun
<1> HIDE DEF Step, names
<1>1. 0 \in T
  <2> DEFINE e == [i \in 0 .. 0 |-> <<>>]
  <2>1. e = [i \in 0 .. 0 |-> IF i = 0 THEN <<>> ELSE Step(e[i - 1], i)]
    OBVIOUS
  <2> HIDE DEF e
  <2>2. VersionedRun(names, 0, e)
    BY <1>0, <2>1
  <2> QED
    BY <2>2
<1>2. ASSUME NEW m \in Nat, m \in T PROVE m + 1 \in T
  <2>1. PICK e : VersionedRun(names, m, e)
    BY <1>2
  <2>5. \A i \in 0 .. m : e[i] = IF i = 0 THEN <<>> ELSE Step(e[i - 1], i)
    BY <1>0, <2>1
  <2> DEFINE q == [i \in 0 .. m + 1 |-> IF i = m + 1 THEN Step(e[m], m + 1) ELSE e[i]]
  <2>2. \A i \in 0 .. m : q[i] = e[i]
    OBVIOUS
  <2>3. q[m + 1] = Step(e[m], m + 1)
    <3>1. m + 1 \in 0 .. m + 1
      OBVIOUS
    <3> QED
      BY <3>1
  <2>4. q = [i \in 0 .. m + 1 |-> q[i]]
    OBVIOUS
  <2> HIDE DEF q
  <2>6. ASSUME NEW i \in 0 .. m + 1
        PROVE  q[i] = IF i = 0 THEN <<>> ELSE Step(q[i - 1], i)
    <3>1. CASE i = m + 1
      <4>1. i # 0 /\ i - 1 = m /\ m \in 0 .. m
        BY <3>1
      <4> QED
        BY <2>2, <2>3, <3>1, <4>1
    <3>2. CASE i # m + 1
      <4>1. i \in 0 .. m /\ (i # 0 => i - 1 \in 0 .. m)
        BY <3>2
      <4> QED
        BY <2>2, <2>5, <4>1
    <3> QED
      BY <3>1, <3>2
  <2>7. q = [i \in 0 .. m + 1 |-> IF i = 0 THEN <<>> ELSE Step(q[i - 1], i)]
    BY <2>4, <2>6
  <2>8. VersionedRun(names, m + 1, q)
    BY <1>0, <2>7
  <2> QED
    BY <2>8
<1>3. \E e : VersionedRun(names, Len(names), e)
  <2> HIDE DEF T
  <2>0. Len(names) \in Nat
    BY DEF names
  <2>1. Len(names) \in T
    BY <1>1, <1>2, <2>0, NatInd
  <2> QED
    BY <2>1 DEF T
<1> QED
  BY <1>3, <1>4 DEF names

(* Versioned: the names of PATH that end in a number, and no others. *)
LEMMA VersionedFacts ==
    ASSUME NEW N, \A x \in N : x.v \in Int, NEW path \in Seq(Seq(N))
    PROVE  /\ Versioned(path) \in Seq(N)
           /\ \A x \in N : Contains(Versioned(path), x) <=>
                 x.v >= 0 /\ Contains(FlattenSeq(path), x)
<1> DEFINE names == FlattenSeq(path)
           M == Len(names)
<1>1. names \in Seq(N)
  BY FlatType
<1> HIDE DEF names
<1>2. M \in Nat /\ \A i \in 1 .. M : names[i] \in N
  BY <1>1, LenProperties, ElementOfSeq
<1>3. PICK e : VersionedRun(names, M, e) /\ Versioned(path) = e[M]
  BY <1>2, VersionedExists DEF names
<1>4. \A i \in 0 .. M : e[i] = IF i = 0 THEN <<>>
                               ELSE IF names[i].v >= 0 /\ ~Contains(e[i - 1], names[i])
                                    THEN Append(e[i - 1], names[i]) ELSE e[i - 1]
  BY <1>3 DEF VersionedRun
<1> DEFINE Good(i) == /\ e[i] \in Seq(N)
                      /\ \A x \in N : Contains(e[i], x) <=>
                            x.v >= 0 /\ \E j \in 1 .. i : names[j] = x
           T == {i \in Nat : i <= M => Good(i)}
<1>5. 0 \in T
  <2>1. e[0] = <<>>
    BY <1>2, <1>4
  <2>2. <<>> \in Seq(N) /\ \A x \in N : ~Contains(<<>>, x)
    BY EmptySeq DEF Contains
  <2>3. \A j \in 1 .. 0 : FALSE
    OBVIOUS
  <2>4. Good(0)
    BY <2>1, <2>2, <2>3
  <2> HIDE DEF Good
  <2> QED
    BY <2>4
<1>6. ASSUME NEW i \in Nat, i \in T PROVE i + 1 \in T
  <2> SUFFICES ASSUME i + 1 <= M PROVE Good(i + 1)
    OBVIOUS
  <2> DEFINE y == names[i + 1]
  <2>1. /\ e[i] \in Seq(N)
        /\ \A x \in N : Contains(e[i], x) <=> x.v >= 0 /\ \E j \in 1 .. i : names[j] = x
    BY <1>2, <1>6
  <2>2. /\ i + 1 \in 0 .. M /\ i + 1 # 0 /\ (i + 1) - 1 = i /\ i + 1 \in 1 .. M
        /\ \A j \in 1 .. i + 1 : j = i + 1 \/ j \in 1 .. i
        /\ i + 1 \in 1 .. i + 1 /\ \A j \in 1 .. i : j \in 1 .. i + 1
    BY <1>2
  <2>3. /\ y \in N
        /\ e[i + 1] = IF y.v >= 0 /\ ~Contains(e[i], y) THEN Append(e[i], y) ELSE e[i]
    BY <1>2, <1>4, <2>2
  <2>4. \A x \in N : (\E j \in 1 .. i + 1 : names[j] = x)
                         <=> (\E j \in 1 .. i : names[j] = x) \/ x = y
    BY <2>2
  <2> HIDE DEF y, T
  <2>5. CASE y.v >= 0 /\ ~Contains(e[i], y)
    <3>1. e[i + 1] = Append(e[i], y)
      BY <2>3, <2>5
    <3>2. Append(e[i], y) \in Seq(N)
      BY <2>1, <2>3
    <3>3. \A x \in N : Contains(Append(e[i], y), x) <=> Contains(e[i], x) \/ x = y
      BY <2>1, <2>3, ContainsMore
    <3> QED
      BY <2>1, <2>4, <2>5, <3>1, <3>2, <3>3
  <2>6. CASE ~(y.v >= 0 /\ ~Contains(e[i], y))
    <3>1. e[i + 1] = e[i]
      BY <2>3, <2>6
    <3> QED
      BY <2>1, <2>3, <2>4, <2>6, <3>1
  <2> QED
    BY <2>5, <2>6
<1> HIDE DEF Good
<1>7. Good(M)
  <2>1. M <= M
    BY <1>2
  <2> HIDE DEF T
  <2>2. M \in T
    BY <1>2, <1>5, <1>6, NatInd
  <2> QED
    BY <2>1, <2>2 DEF T
<1>8. \A x : Contains(names, x) <=> \E j \in 1 .. M : names[j] = x
  BY DEF Contains
<1> QED
  BY <1>3, <1>7, <1>8 DEF Good, names

(* pick_clang: the first candidate that runs, if one does. *)
LEMMA FirstThatRuns ==
    ASSUME NEW cs, Len(cs) \in Nat, NEW works
    PROVE  \/ /\ pick_clang(cs, works) = None
              /\ \A i \in 1 .. Len(cs) : cs[i] \notin works
           \/ \E i \in 1 .. Len(cs) :
                 /\ pick_clang(cs, works) = cs[i] /\ cs[i] \in works
                 /\ \A j \in 1 .. Len(cs) : j < i => cs[j] \notin works
<1> DEFINE I == {i \in 1 .. Len(cs) : cs[i] \in works}
<1>1. pick_clang(cs, works) =
          IF (IF I # {} THEN Min(I) ELSE 0) = 0 THEN None
          ELSE cs[IF I # {} THEN Min(I) ELSE 0]
  BY DEF pick_clang, SelectInSeq
<1>2. CASE I = {}
  BY <1>1, <1>2
<1>3. CASE I # {}
  <2>1. PICK m \in I : \A j \in I : m <= j
    <3>1. I \subseteq Nat
      OBVIOUS
    <3> QED
      BY <1>3, <3>1, LeastNat
  <2>2. Min(I) \in I /\ \A j \in I : Min(I) <= j
    <3> HIDE DEF I
    <3> QED
      BY <2>1 DEF Min
  <2>3. Min(I) # 0 /\ Min(I) \in 1 .. Len(cs) /\ cs[Min(I)] \in works
    BY <2>2
  <2>4. pick_clang(cs, works) = cs[Min(I)]
    BY <1>1, <1>3, <2>3
  <2>5. \A j \in 1 .. Len(cs) : j < Min(I) => cs[j] \notin works
    <3>1. \A j \in 1 .. Len(cs) : cs[j] \in works => Min(I) <= j
      BY <2>2
    <3> DEFINE a == Min(I)
    <3>2. a \in Int
      BY <2>3
    <3> HIDE DEF a
    <3> QED
      BY <3>1, <3>2 DEF a
  <2> QED
    BY <2>3, <2>4, <2>5
<1> QED
  BY <1>2, <1>3

(* The candidates: plain clang, then every versioned name of PATH, none    *)
(* before a newer one (build.rs:106).                                      *)
LEMMA Candidates ==
    ASSUME NEW N, \A x \in N : x.v \in Int, NEW path \in Seq(Seq(N))
    PROVE  LET cs == clang_candidates(path)
           IN  /\ Len(cs) \in Nat /\ Len(cs) >= 1 /\ cs[1] = Clang
               /\ \A i \in 2 .. Len(cs) : cs[i] \in N /\ cs[i].v >= 0
                                          /\ Contains(FlattenSeq(path), cs[i])
               /\ \A x \in N : x.v >= 0 /\ Contains(FlattenSeq(path), x)
                                 => \E i \in 2 .. Len(cs) : cs[i] = x
               /\ \A i, j \in 2 .. Len(cs) : i < j => cs[j].v <= cs[i].v
<1> DEFINE found == Versioned(path)
           M == Len(found)
           key == [i \in DOMAIN found |-> Age(found[i])]
           t == sort_by_key(found, key)
           cs == <<Clang>> \o t
<1>1. /\ found \in Seq(N)
      /\ \A x \in N : Contains(found, x) <=> x.v >= 0 /\ Contains(FlattenSeq(path), x)
  BY VersionedFacts
<1>2. clang_candidates(path) = cs
  BY DEF clang_candidates
<1> HIDE DEF found
<1>3. M \in Nat /\ DOMAIN found = 1 .. M /\ \A i \in 1 .. M : found[i] \in N
  BY <1>1, LenProperties, ElementOfSeq
<1>4. \A i \in 1 .. M : key[i] = -found[i].v /\ found[i].v \in Int
  BY <1>3 DEF Age
<1>5. key \in [1 .. M -> Int]
  BY <1>3, <1>4
<1> HIDE DEF key, M
<1>6. PICK p \in [1 .. M -> 1 .. M] :
          /\ t \in Seq(N) /\ Len(t) = M /\ \A k \in 1 .. M : t[k] = found[p[k]]
          /\ \A i \in 1 .. M : \E k \in 1 .. M : p[k] = i
          /\ \A k, l \in 1 .. M : k < l => ~Precedes(key, p[l], p[k])
  BY <1>1, <1>5, Sorted DEF M
<1> HIDE DEF t
<1>7. Len(cs) = M + 1 /\ cs[1] = Clang /\ \A i \in 2 .. M + 1 : cs[i] = t[i - 1]
  <2> DEFINE U == N \cup {Clang}
  <2>1. <<Clang>> \in Seq(U) /\ Len(<<Clang>>) = 1 /\ <<Clang>>[1] = Clang
    <3>1. Clang \in U
      OBVIOUS
    <3> QED
      BY <3>1
  <2>2. t \in Seq(U)
    <3>1. Len(t) \in Nat /\ t \in [1 .. Len(t) -> N]
      BY <1>3, <1>6
    <3>2. t \in [1 .. Len(t) -> U]
      BY <3>1
    <3> QED
      BY <3>1, <3>2
  <2> HIDE DEF U
  <2>3. /\ Len(<<Clang>> \o t) = Len(<<Clang>>) + Len(t)
        /\ \A i \in 1 .. Len(<<Clang>>) + Len(t) :
              (<<Clang>> \o t)[i] = IF i <= Len(<<Clang>>) THEN <<Clang>>[i]
                                    ELSE t[i - Len(<<Clang>>)]
    BY <2>1, <2>2, ConcatProperties
  <2> QED
    BY <1>3, <1>6, <2>1, <2>3
<1> HIDE DEF cs
<1>8. ASSUME NEW i \in 2 .. M + 1
      PROVE  /\ i - 1 \in 1 .. M /\ p[i - 1] \in 1 .. M /\ cs[i] = found[p[i - 1]]
             /\ cs[i] \in N /\ key[p[i - 1]] = -cs[i].v /\ cs[i].v \in Int
             /\ cs[i].v >= 0 /\ Contains(FlattenSeq(path), cs[i])
  <2>1. i - 1 \in 1 .. M
    BY <1>3
  <2>2. p[i - 1] \in 1 .. M /\ cs[i] = found[p[i - 1]]
    BY <1>6, <1>7, <2>1
  <2>3. cs[i] \in N /\ Contains(found, cs[i])
    BY <1>3, <2>2 DEF Contains, M
  <2> QED
    BY <1>1, <1>4, <2>1, <2>2, <2>3
<1>9. ASSUME NEW x \in N, x.v >= 0, Contains(FlattenSeq(path), x)
      PROVE  \E i \in 2 .. M + 1 : cs[i] = x
  <2>1. PICK j \in 1 .. M : found[j] = x
    BY <1>1, <1>9 DEF Contains, M
  <2>2. PICK k \in 1 .. M : p[k] = j
    BY <1>6
  <2>3. k + 1 \in 2 .. M + 1 /\ (k + 1) - 1 = k
    BY <1>3
  <2>4. cs[k + 1] = x
    <3>1. cs[k + 1] = t[k]
      BY <1>7, <2>3
    <3>2. t[k] = found[p[k]]
      BY <1>6
    <3> QED
      BY <2>1, <2>2, <3>1, <3>2
  <2> QED
    BY <2>3, <2>4
<1>10. ASSUME NEW i \in 2 .. M + 1, NEW j \in 2 .. M + 1, i < j
       PROVE  cs[j].v <= cs[i].v
  <2>1. /\ i - 1 \in 1 .. M /\ key[p[i - 1]] = -cs[i].v /\ cs[i].v \in Int
        /\ j - 1 \in 1 .. M /\ key[p[j - 1]] = -cs[j].v /\ cs[j].v \in Int
    BY <1>8
  <2>2. i - 1 < j - 1
    BY <1>3, <1>10
  <2>3. ~Precedes(key, p[j - 1], p[i - 1])
    BY <1>6, <2>1, <2>2
  <2>4. ~(-cs[j].v < -cs[i].v)
    BY <2>1, <2>3 DEF Precedes
  <2> QED
    BY <2>1, <2>4
<1>11. M + 1 \in Nat /\ M + 1 >= 1
  BY <1>3
<1> QED
  BY <1>2, <1>7, <1>8, <1>9, <1>10, <1>11

(* On every host: whatever is on PATH and whatever runs, build.rs compiles *)
(* with the operator's compiler or not at all, and where none is named     *)
(* with plain clang or else with the newest that runs (build.rs:14-135).   *)
THEOREM BuildBest ==
    ASSUME NEW N, \A x \in N : x.v \in Int, NEW env, env.path \in Seq(Seq(N)),
           env.prebuilt = "unset"
    PROVE  BestChoice(env, build(env))
<1> DEFINE cs == IF env.clang # None THEN <<env.clang>> ELSE clang_candidates(env.path)
           c == pick_clang(cs, env.works)
           made == build(env)
           names == FlattenSeq(env.path)
           onPath == UNION {ToSet(env.path[i]) : i \in DOMAIN env.path}
<1>1. /\ (c = None \/ ~env.compiles) => made.how = "panic"
      /\ ~(c = None \/ ~env.compiles) => made.how = "compiled" /\ made.by = c
  BY DEF build
<1>2. \A x : x \in onPath <=> Contains(names, x)
  <2>1. \A x : Contains(names, x) <=> \E k \in 1 .. Len(env.path) : Contains(env.path[k], x)
    BY FlatContains
  <2>2. DOMAIN env.path = 1 .. Len(env.path)
    BY LenProperties
  <2>3. \A k \in 1 .. Len(env.path) : \A x : x \in ToSet(env.path[k]) <=> Contains(env.path[k], x)
    <3> SUFFICES ASSUME NEW k \in 1 .. Len(env.path), NEW x
                 PROVE  x \in ToSet(env.path[k]) <=> Contains(env.path[k], x)
      OBVIOUS
    <3>1. env.path[k] \in Seq(N)
      BY ElementOfSeq
    <3>2. DOMAIN env.path[k] = 1 .. Len(env.path[k])
      BY <3>1, LenProperties
    <3> QED
      BY <3>2 DEF ToSet, Contains
  <2> QED
    BY <2>1, <2>2, <2>3
<1>3. \A x : Contains(names, x) => x \in N
  <2>1. names \in Seq(N)
    BY FlatType
  <2> HIDE DEF names
  <2>2. \A i \in 1 .. Len(names) : names[i] \in N
    BY <2>1, ElementOfSeq
  <2> QED
    BY <2>2 DEF Contains
<1> HIDE DEF made, names, onPath
<1>4. CASE env.clang # None
  <2>1. cs = <<env.clang>>
    BY <1>4
  <2>2. Len(cs) = 1 /\ cs[1] = env.clang
    BY <2>1
  <2>3. Usable(env) = {env.clang} \cap env.works
    BY <1>4 DEF Usable
  <2> HIDE DEF cs
  <2>4. \A i \in 1 .. Len(cs) : i = 1
    BY <2>2
  <2>5. \/ c = None /\ \A i \in 1 .. Len(cs) : cs[i] \notin env.works
        \/ \E i \in 1 .. Len(cs) : c = cs[i] /\ cs[i] \in env.works
    <3>1. Len(cs) \in Nat
      BY <2>2
    <3> QED
      BY <3>1, FirstThatRuns
  <2> HIDE DEF c
  <2>6. (c = None /\ env.clang \notin env.works) \/ (c = env.clang /\ env.clang \in env.works)
    <3>1. 1 \in 1 .. Len(cs)
      BY <2>2
    <3> QED
      BY <2>2, <2>4, <2>5, <3>1
  <2> QED
    BY <1>1, <1>4, <2>3, <2>6 DEF BestChoice, made
<1>5. CASE env.clang = None
  <2>1. cs = clang_candidates(env.path)
    BY <1>5
  <2> HIDE DEF cs
  <2>2. /\ Len(cs) \in Nat /\ Len(cs) >= 1 /\ cs[1] = Clang
        /\ \A i \in 2 .. Len(cs) : cs[i] \in N /\ cs[i].v >= 0 /\ Contains(names, cs[i])
        /\ \A x \in N : x.v >= 0 /\ Contains(names, x) => \E i \in 2 .. Len(cs) : cs[i] = x
        /\ \A i, j \in 2 .. Len(cs) : i < j => cs[j].v <= cs[i].v
    BY <2>1, Candidates DEF names
  <2>3. Usable(env) = ({Clang} \cup {x \in onPath : x.v >= 0}) \cap env.works
    BY <1>5 DEF Usable, onPath
  <2>4. \A x : x \in Usable(env) <=>
            x \in env.works /\ \E i \in 1 .. Len(cs) : cs[i] = x
    <3>1. 1 \in 1 .. Len(cs) /\ \A i \in 1 .. Len(cs) : i = 1 \/ i \in 2 .. Len(cs)
      BY <2>2
    <3>2. \A i \in 2 .. Len(cs) : i \in 1 .. Len(cs)
      BY <2>2
    <3>3. ASSUME NEW x PROVE x \in {Clang} \cup {y \in onPath : y.v >= 0}
                               <=> \E i \in 1 .. Len(cs) : cs[i] = x
      <4>1. ASSUME x \in onPath, x.v >= 0 PROVE \E i \in 1 .. Len(cs) : cs[i] = x
        BY <1>2, <1>3, <2>2, <3>2, <4>1
      <4>2. ASSUME NEW i \in 1 .. Len(cs), cs[i] = x
            PROVE  x = Clang \/ (x \in onPath /\ x.v >= 0)
        BY <1>2, <2>2, <3>1, <4>2
      <4> QED
        BY <2>2, <3>1, <4>1, <4>2
    <3> QED
      BY <2>3, <3>3
  <2>5. \A i \in 1 .. Len(cs) : cs[i] # None
    <3>1. Clang # None /\ None.v = -3
      BY DEF Clang, None
    <3>2. \A i \in 1 .. Len(cs) : i = 1 \/ i \in 2 .. Len(cs)
      BY <2>2
    <3>3. \A i \in 2 .. Len(cs) : cs[i].v \in Int /\ cs[i].v >= 0
      BY <2>2
    <3>4. ~(-3 >= 0)
      OBVIOUS
    <3> QED
      BY <2>2, <3>1, <3>2, <3>3, <3>4
  <2>6. \/ /\ c = None /\ \A i \in 1 .. Len(cs) : cs[i] \notin env.works
        \/ \E i \in 1 .. Len(cs) : /\ c = cs[i] /\ cs[i] \in env.works
                                   /\ \A j \in 1 .. Len(cs) : j < i => cs[j] \notin env.works
    BY <2>2, FirstThatRuns
  <2> HIDE DEF c
  <2>7. CASE c = None
    <3>1. Usable(env) = {}
      BY <2>4, <2>5, <2>6, <2>7
    <3> QED
      BY <1>1, <2>7, <3>1 DEF BestChoice, made
  <2>8. CASE c # None
    <3>1. PICK i \in 1 .. Len(cs) : /\ c = cs[i] /\ cs[i] \in env.works
                                    /\ \A j \in 1 .. Len(cs) : j < i => cs[j] \notin env.works
      BY <2>6, <2>8
    <3>2. c \in Usable(env)
      BY <2>4, <3>1
    <3>3. CASE i = 1
      <4>1. c = Clang
        BY <2>2, <3>1, <3>3
      <4> QED
        BY <1>1, <2>8, <3>2, <4>1 DEF BestChoice, made
    <3>4. CASE i # 1
      <4>1. i \in 2 .. Len(cs) /\ 1 \in 1 .. Len(cs) /\ 1 < i
        BY <2>2, <3>4
      <4>2. Clang \notin env.works
        BY <2>2, <3>1, <4>1
      <4>3. Clang \notin Usable(env)
        BY <2>4, <4>2
      <4>4. ASSUME NEW x \in Usable(env) PROVE x.v <= c.v
        <5>1. PICK j \in 1 .. Len(cs) : cs[j] = x /\ x \in env.works
          BY <2>4
        <5>2. ~(j < i)
          BY <3>1, <5>1
        <5>3. j \in 2 .. Len(cs) /\ (i = j \/ i < j)
          BY <2>2, <4>1, <5>2
        <5>4. x.v \in Int /\ c.v \in Int
          BY <2>2, <3>1, <4>1, <5>1, <5>3
        <5>5. CASE i = j
          BY <3>1, <5>1, <5>4, <5>5
        <5>6. CASE i < j
          BY <2>2, <3>1, <4>1, <5>1, <5>3, <5>6
        <5> QED
          BY <5>3, <5>5, <5>6
      <4> QED
        BY <1>1, <2>8, <3>2, <4>3, <4>4 DEF BestChoice, made
    <3> QED
      BY <3>3, <3>4
  <2> QED
    BY <2>7, <2>8
<1> QED
  BY <1>4, <1>5

(* So on every host that the run tries. *)
THEOREM BuildChecked == AlgSpec => []BestCompiler
<1> DEFINE I == alg = "build" => in \in Hosts /\ (done => out = build(in))
<1>1. AlgInit => I
  BY DEF AlgInit
<1>2. I /\ [AlgNext]_algVars => I'
  BY DEF AlgNext, Run, algVars
<1>3. ASSUME I PROVE BestCompiler
  <2> SUFFICES ASSUME Did("build"), in.prebuilt = "unset" PROVE BestChoice(in, out)
    BY DEF BestCompiler
  <2> DEFINE N == {Tidy, Clang14, Clang19, Clang019}
             D == {UnreadableDir, <<Tidy>>, <<Clang14>>, <<Clang14, Clang19>>, <<Clang019>>}
  <2>1. in \in Hosts /\ out = build(in)
    BY <1>3 DEF Did
  <2>2. in.path \in BoundedSeq(D, 2)
    BY <2>1 DEF Hosts
  <2>3. \A x \in N : x.v \in Int
    BY DEF Tidy, Clang14, Clang19, Clang019
  <2>4. Tidy \in N /\ Clang14 \in N /\ Clang19 \in N /\ Clang019 \in N
    OBVIOUS
  <2> HIDE DEF N
  <2>5. D \subseteq Seq(N)
    <3>1. <<Tidy>> \in Seq(N) /\ <<Clang14>> \in Seq(N) /\ <<Clang019>> \in Seq(N)
      BY <2>4
    <3>2. <<Clang14, Clang19>> \in Seq(N)
      BY <2>4
    <3>3. UnreadableDir \in Seq(N)
      BY EmptySeq DEF UnreadableDir
    <3> QED
      BY <3>1, <3>2, <3>3
  <2> HIDE DEF D
  <2>6. in.path \in Seq(Seq(N))
    <3>1. PICK m \in 0 .. 2 : in.path \in [1 .. m -> D]
      BY <2>2 DEF BoundedSeq, SeqOf
    <3>2. m \in Nat /\ in.path \in [1 .. m -> Seq(N)]
      BY <2>5, <3>1
    <3> QED
      BY <3>2
  <2> QED
    BY <2>1, <2>3, <2>6, BuildBest
<1> QED
  BY <1>1, <1>2, <1>3, PTL DEF AlgSpec
===============================================================================
