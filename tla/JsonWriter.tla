------------------------------ MODULE JsonWriter ------------------------------
(***************************************************************************)
(* The JSON writer of the dashboard (ui/src/json.rs).  A document is a     *)
(* sequence of characters; those that mean something to JSON are           *)
(* themselves, two characters stand for the C0 controls without an escape  *)
(* of their own, and a number is one character, its value.                 *)
(***************************************************************************)
EXTENDS Sequences, SequencesExt

Quote == "\""
Backslash == "\\"
Controls == {"^A", "^B"}

(* A control character as four hexadecimal digits. *)
Hex(c) == <<"0", "0", "0", IF c = "^A" THEN "1" ELSE "2">>

(* The slip: quotes only, as if nothing else ended or extended a string.   *)
Escape_quotes_only(c) == IF c = Quote THEN <<Backslash, Quote>> ELSE <<c>>
Escape(c) ==
    CASE c \in {Quote, Backslash} -> <<Backslash, c>>
      [] c = "\n" -> <<Backslash, "n">>
      [] c = "\r" -> <<Backslash, "r">>
      [] c = "\t" -> <<Backslash, "t">>
      [] c \in Controls -> <<Backslash, "u">> \o Hex(c)
      [] OTHER -> <<c>>

push_str(s) ==
    <<Quote>> \o FlattenSeq([i \in DOMAIN s |-> Escape(s[i])]) \o <<Quote>>

(* Parts with a comma between each two of them. *)
Commas(parts) ==
    FlattenSeq([i \in DOMAIN parts |->
                  IF i > 1 THEN <<",">> \o parts[i] ELSE parts[i]])

(* The members of an object: Obj::raw and its likes, and Obj::str. *)
Raw(k, v) == push_str(k) \o <<":">> \o v
StrMember(k, s) == Raw(k, push_str(s))

Obj(members) == <<"{">> \o Commas(members) \o <<"}">>
arr(items) == <<"[">> \o Commas(items) \o <<"]">>
str_arr(strings) == arr([i \in DOMAIN strings |-> push_str(strings[i])])
-------------------------------------------------------------------------------
(***************************************************************************)
(* What a reader makes of a document: a sequence of strings and of         *)
(* punctuation.  The reader knows no more than RFC 8259: a string ends at  *)
(* the first quote that is not escaped, and holds no control character.    *)
(***************************************************************************)
Text(s) == [p |-> "text", s |-> s]
Punct(c) == [p |-> c, s |-> <<>>]

Special == Controls \cup {"\n", "\r", "\t", Quote, Backslash}

Unescaped(c) ==
    CASE c = "n" -> "\n" [] c = "r" -> "\r" [] c = "t" -> "\t" [] OTHER -> c

ReadChar(r, c) ==
    CASE r.mode = "bad" -> r
      [] r.mode = "out" /\ c = Quote -> [r EXCEPT !.mode = "in", !.s = <<>>]
      [] r.mode = "out" /\ c # Quote -> [r EXCEPT !.toks = Append(@, Punct(c))]
      [] r.mode = "in" /\ c = Quote ->
            [r EXCEPT !.mode = "out", !.toks = Append(@, Text(r.s))]
      [] r.mode = "in" /\ c = Backslash -> [r EXCEPT !.mode = "escape"]
      [] r.mode = "in" /\ c \in Special \ {Quote, Backslash} ->
            [r EXCEPT !.mode = "bad"]
      [] r.mode = "in" /\ c \notin Special -> [r EXCEPT !.s = Append(@, c)]
      [] r.mode = "escape" /\ c = "u" -> [r EXCEPT !.mode = "hex", !.hex = <<>>]
      [] r.mode = "escape" /\ c # "u" ->
            [r EXCEPT !.mode = "in", !.s = Append(@, Unescaped(c))]
      [] r.mode = "hex" /\ Len(r.hex) < 3 -> [r EXCEPT !.hex = Append(@, c)]
      [] r.mode = "hex" /\ Len(r.hex) = 3 ->
            [r EXCEPT !.mode = "in",
                      !.s = Append(@, CHOOSE k \in Controls :
                                          Hex(k) = Append(r.hex, c))]

ReadFrom(r, doc) ==
    LET upTo[i \in 0 .. Len(doc)] ==
            IF i = 0 THEN r ELSE ReadChar(upTo[i - 1], doc[i])
    IN  upTo[Len(doc)]
Tokens(doc) ==
    ReadFrom([mode |-> "out", s |-> <<>>, hex |-> <<>>, toks |-> <<>>], doc).toks
===============================================================================
