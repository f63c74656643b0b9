------------------------------- MODULE Buckets -------------------------------
(***************************************************************************)
(* The token bucket of the WebSocket engine: bucket() and takeToken() in   *)
(* core/njs/shield_ws.js.  Time is in milliseconds and a token is Token    *)
(* units, one unit per millisecond and token per second.                   *)
(*                                                                         *)
(* The code keeps the tokens as a floating-point number, which rounding    *)
(* moves a little off the units: by far less than one unit, in a session   *)
(* of any length, so that it shows only where the number is compared with  *)
(* the whole token it should be, and only if it has come to lie below.     *)
(* The field short says that it has.                                       *)
(***************************************************************************)
EXTENDS Integers

Token == 1000

(* The number of units the bucket can hold. *)
Capacity(b) == b.burst * Token

bucket(rate, burst, now) ==
    [rate |-> rate, burst |-> burst, tokens |-> burst * Token, short |-> FALSE,
     t |-> now]

(* Slips of the refill, for the mutation runs: an uncapped bucket, and one *)
(* that counts whole seconds only.                                         *)
refill_uncapped(b, now, lost) ==
    [b EXCEPT !.tokens = @ + (now - b.t) * b.rate, !.t = now]
refill_whole_seconds(b, now, lost) ==
    LET full == b.tokens + ((now - b.t) \div 1000) * b.rate * Token
    IN  [b EXCEPT !.tokens = IF full < Capacity(b) THEN full ELSE Capacity(b),
                  !.t = now]

(* Whole seconds, and whole tokens, are exact in floating point. *)
Rounds(b, now) == (now - b.t) % 1000 # 0 \/ b.tokens % Token # 0

(* The bucket topped up for the time since it was last looked at, but for  *)
(* what rounding lost, which is a choice of the caller's.  Adding nothing  *)
(* and Math.min() with the burst lose nothing.  The clock is Date.now():   *)
(* it may have been stepped back, in which case the "refill" is negative.  *)
refill(b, now, lost) ==
    LET full == b.tokens + (now - b.t) * b.rate
    IN  [b EXCEPT !.tokens = IF full < Capacity(b) THEN full ELSE Capacity(b),
                  !.short = IF full = b.tokens THEN @
                            ELSE /\ lost /\ full <= Capacity(b)
                                 /\ @ \/ Rounds(b, now),
                  !.t = now]

(* takeToken refills in both outcomes and spends only when it says yes. *)
takeToken(b, now, lost) ==
    LET r == refill(b, now, lost)
    IN  IF r.tokens < Token \/ (r.tokens = Token /\ r.short)
        THEN [ok |-> FALSE, b |-> r]
        ELSE [ok |-> TRUE, b |-> [r EXCEPT !.tokens = @ - Token]]

BucketType == [rate : Nat, burst : Nat, tokens : Int, short : BOOLEAN, t : Int]
==============================================================================
