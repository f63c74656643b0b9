------------------------------ MODULE HttpQuery ------------------------------
(***************************************************************************)
(* How the dashboard reads a request target (ui/src/http.rs): the split    *)
(* into path and query, the pairs of the query, and percent-decoding.      *)
(* Text is a sequence of bytes, given as numbers.                          *)
(***************************************************************************)
EXTENDS Integers, Sequences, SequencesExt

Space == 32
Percent == 37
Amp == 38
Plus == 43
Equals == 61
Question == 63

Digits == 48 .. 57
Letters == 97 .. 102 \cup 65 .. 70 \* a to f, A to F
IsHex(b) == b \in Digits \cup Letters
HexValue(b) ==
    CASE b \in Digits -> b - 48 [] b >= 97 -> b - 87 [] OTHER -> b - 55

(* u8::from_str_radix(h, 16) of two bytes, or -1: a plus sign before a     *)
(* digit is a number too.                                                  *)
Radix16(h, l) ==
    IF ~IsHex(l) THEN -1
    ELSE IF h = Plus THEN HexValue(l)
    ELSE IF IsHex(h) THEN 16 * HexValue(h) + HexValue(l) ELSE -1

(* String::from_utf8_lossy, where no two bytes form a character together. *)
Replacement == 65533
Lossy(s) == [i \in DOMAIN s |-> IF s[i] < 128 THEN s[i] ELSE Replacement]

(* Does an escape start at position i? *)
Escaped(s, i) ==
    s[i] = Percent /\ i + 2 <= Len(s) /\ Radix16(s[i + 1], s[i + 2]) >= 0

percent_decode(s) ==
    LET from[i \in 1 .. Len(s) + 1] ==
            IF i > Len(s) THEN <<>>
            ELSE IF Escaped(s, i)
                 THEN <<Radix16(s[i + 1], s[i + 2])>> \o from[i + 3]
            ELSE <<IF s[i] = Plus THEN Space ELSE s[i]>> \o from[i + 1]
    IN  Lossy(from[1])

(* str::split_once: before and after the first c; all of s if there is none. *)
Before(s, c) == LET i == SelectInSeq(s, LAMBDA b : b = c)
                IN  IF i = 0 THEN s ELSE SubSeq(s, 1, i - 1)
After(s, c) == LET i == SelectInSeq(s, LAMBDA b : b = c)
               IN  IF i = 0 THEN <<>> ELSE SubSeq(s, i + 1, Len(s))

(* str::split: what is between the occurrences of c. *)
Split(s, c) ==
    LET cuts == {0, Len(s) + 1} \cup {i \in DOMAIN s : s[i] = c}
        at == SetToSortSeq(cuts, <)
    IN  [k \in 1 .. Len(at) - 1 |-> SubSeq(s, at[k] + 1, at[k + 1] - 1)]

(* The slip decodes the query before it takes it apart. *)
parse_query_decoded(q) ==
    LET parts == SelectSeq(Split(percent_decode(q), Amp), LAMBDA p : p # <<>>)
    IN  [i \in DOMAIN parts |->
            <<Before(parts[i], Equals), After(parts[i], Equals)>>]
parse_query(q) ==
    LET parts == SelectSeq(Split(q, Amp), LAMBDA p : p # <<>>)
    IN  [i \in DOMAIN parts |-> <<percent_decode(Before(parts[i], Equals)),
                                  percent_decode(After(parts[i], Equals))>>]

read_target(target) ==
    [path |-> percent_decode(Before(target, Question)),
     query |-> parse_query(After(target, Question))]

(* Request::param: the first value given for a key. *)
Absent == <<-1>>
param(query, key) ==
    LET i == SelectInSeq(query, LAMBDA kv : kv[1] = key)
    IN  IF i = 0 THEN Absent ELSE query[i][2]
==============================================================================
