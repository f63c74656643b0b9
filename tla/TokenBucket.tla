---------------------------- MODULE TokenBucket ----------------------------
(***************************************************************************)
(* One token bucket of a WebSocket session (bMsg, bEvent or bReq of        *)
(* core/njs/shield_ws.js) and the messages charged to it.  A refused take  *)
(* ends the session (inspect() calls violate()), so nothing happens after  *)
(* it.  The clock is the wall clock: besides running it may be stepped in  *)
(* either direction while the session is open.                             *)
(***************************************************************************)
EXTENDS Buckets, Sequences

CONSTANTS Rate,      \* tokens per second, ws_*_rate
          Burst,     \* bucket size in tokens, ws_*_burst
          Steps,     \* amounts in ms by which the clock is seen to advance
          BackSteps, \* amounts in ms by which the clock may be set back
          MaxTime,   \* bound: largest clock value
          MaxTakes   \* bound: most messages charged

ASSUME BucketAssumption ==
    /\ Rate \in Nat /\ Burst \in Nat
    /\ Steps \subseteq Nat /\ BackSteps \subseteq Nat
    /\ MaxTime \in Nat /\ MaxTakes \in Nat

VARIABLES b,        \* the bucket
          now,      \* Date.now()
          admitted, \* history: the clock at each take that was granted
          refused,  \* the session was ended by a refused take
          stepped   \* history: the clock has been set back
vars == <<b, now, admitted, refused, stepped>>

Init ==
    /\ now = 0
    /\ b = bucket(Rate, Burst, now)
    /\ admitted = <<>>
    /\ refused = FALSE
    /\ stepped = FALSE

(* A message is charged to the bucket. *)
Take ==
    /\ ~refused
    /\ Len(admitted) < MaxTakes
    /\ \E lost \in BOOLEAN :
        LET r == takeToken(b, now, lost)
        IN  /\ b' = r.b
            /\ refused' = ~r.ok
            /\ admitted' = IF r.ok THEN Append(admitted, now) ELSE admitted
    /\ UNCHANGED <<now, stepped>>

Advance ==
    /\ \E d \in Steps : now + d <= MaxTime /\ now' = now + d
    /\ UNCHANGED <<b, admitted, refused, stepped>>

SetBack ==
    /\ \E d \in BackSteps : d <= now /\ now' = now - d
    /\ stepped' = TRUE
    /\ UNCHANGED <<b, admitted, refused>>

Next == Take \/ Advance \/ SetBack

Spec == Init /\ [][Next]_vars
-----------------------------------------------------------------------------
TypeOK ==
    /\ b \in BucketType /\ b.rate = Rate /\ b.burst = Burst
    /\ b.tokens <= Burst * Token
    /\ now \in Int
    /\ admitted \in Seq(Int)
    /\ refused \in BOOLEAN
    /\ stepped \in BOOLEAN

(* Between any two messages the session got through, it got through no     *)
(* more than the burst plus what the rate earned in the time between them: *)
(* what takeToken() is for.  The bound is over every pair of admissions,   *)
(* not over the session's total, and it holds across clock steps.          *)
AdmissionBound ==
    \A i, j \in 1 .. Len(admitted) :
        i <= j => (j - i + 1) * Token
                    <= Burst * Token + Rate * (admitted[j] - admitted[i])

(* A client within its rate is never cut: while the clock has only moved   *)
(* forward, takeToken() refuses a message only if, since some message      *)
(* admitted before, more came than the burst and the rate paid for; or     *)
(* exactly as many, where the refills of the time between have lost the    *)
(* last bit of a token to rounding.  A burst from a full bucket, which no  *)
(* refill comes between, is always granted.                                *)
RefusedOnlyOverRate ==
    refused /\ ~stepped =>
        \/ Burst = 0
        \/ \E i \in 1 .. Len(admitted) :
              LET came == (Len(admitted) - i + 2) * Token
                  paid == Burst * Token + Rate * (b.t - admitted[i])
              IN  came > paid \/ (came = paid /\ b.t > admitted[i])
=============================================================================
