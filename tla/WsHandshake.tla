------------------------------ MODULE WsHandshake ------------------------------
(***************************************************************************)
(* The handshake sniffer of core/njs/shield_ws.js, byte by byte: the       *)
(* 'handshake' branch of onData() with headerBlockEnd() and hasBareLf().   *)
(* WsEngine takes the head of a session as one piece of known class; this  *)
(* module is about how the piece is found in bytes that arrive in reads of *)
(* any size.                                                               *)
(*                                                                         *)
(* A byte is "CR", "LF", "x" for any other of UTF-8 text and "B" for one   *)
(* that is no part of any; "U" stands for the text "upgrade: websocket",   *)
(* and "R" for the replacement character U+FFFD.  Indices of buffers are   *)
(* the code's, from 0.                                                     *)
(***************************************************************************)
EXTENDS Integers, Sequences, FiniteSetsExt

CONSTANTS Alphabet,      \* subset of {"CR", "LF", "x", "U", "B"}
          StreamLen,     \* bound: bytes the client sends
          MaxOdd,        \* bound: of them, "U" and "B", each
          maxHsReads,    \* ws_max_hs_reads
          MAX_HANDSHAKE

ASSUME HandshakeAssumption ==
    /\ Alphabet \subseteq {"CR", "LF", "x", "U", "B"}
    /\ {StreamLen, MaxOdd, maxHsReads, MAX_HANDSHAKE} \subseteq Nat

VARIABLES stream,    \* all the bytes the client will send
          got,       \* how many have been read
          hs,        \* st.hs, the bytes held
          hsReads, hsScanned,
          mode,      \* "handshake", "ws", "plain"
          killed,
          sent,      \* bytes forwarded upstream
          acc        \* bytes handed to the frame parser
hsVars == <<stream, got, hs, hsReads, hsScanned, mode, killed, sent, acc>>

HsInit ==
    /\ stream \in [1 .. StreamLen -> Alphabet]
    /\ \A c \in {"U", "B"} : Quantify(DOMAIN stream, LAMBDA i : stream[i] = c) <= MaxOdd
    /\ got = 0 /\ hs = <<>> /\ hsReads = 0 /\ hsScanned = 0
    /\ mode = "handshake" /\ killed = FALSE /\ sent = <<>> /\ acc = <<>>

ByteAt(buf, i) == buf[i + 1]

(* Does a blank line end at the LF at index i? *)
EndsHeader(buf, i) ==
    /\ ByteAt(buf, i) = "LF"
    /\ \/ ByteAt(buf, i + 1) = "LF"
       \/ /\ ByteAt(buf, i + 1) = "CR"
          /\ i + 2 < Len(buf) /\ ByteAt(buf, i + 2) = "LF"

(* The index past the first blank line at or after from, or -1.  Indices   *)
(* below 0 read as no byte.                                                *)
headerBlockEnd(buf, from) ==
    LET hits == {i \in 0 .. Len(buf) - 2 : i >= from /\ EndsHeader(buf, i)}
    IN  IF hits = {} THEN -1
        ELSE LET i == Min(hits)
             IN  IF ByteAt(buf, i + 1) = "LF" THEN i + 2 ELSE i + 3

hasBareLf(buf, upto) ==
    \E i \in 0 .. upto - 1 :
        /\ ByteAt(buf, i) = "LF"
        /\ i = 0 \/ ByteAt(buf, i - 1) # "CR"

(* /\r\nupgrade:[ \t]*websocket/i *)
asksUpgrade(head) ==
    \E i \in 0 .. Len(head) - 3 :
        /\ ByteAt(head, i) = "CR" /\ ByteAt(head, i + 1) = "LF"
        /\ ByteAt(head, i + 2) = "U"

(* Where the scan of a new read resumes.  The slip forgets that the end    *)
(* mark can be split one byte from its end.                                *)
ScanFrom_one_back == hsScanned - 1
ScanFrom == hsScanned - 2

Kill == killed' = TRUE /\ UNCHANGED <<mode, sent, acc>>

(* The head goes upstream as toString() and Buffer.from() leave it: what   *)
(* is no UTF-8 is replaced.                                                *)
Utf8(head) == [i \in DOMAIN head |-> IF head[i] = "B" THEN "R" ELSE head[i]]

(* The whole header block is in buf, up to end; what follows it is passed  *)
(* on byte for byte.                                                       *)
Classify(buf, end) ==
    LET head == SubSeq(buf, 1, end)
        rest == SubSeq(buf, end + 1, Len(buf))
    IN  IF hasBareLf(buf, end) THEN Kill /\ hs' = buf
        ELSE /\ hs' = <<>> /\ UNCHANGED killed
             /\ IF asksUpgrade(head)
                THEN mode' = "ws" /\ sent' = Utf8(head) /\ acc' = rest
                ELSE mode' = "plain" /\ sent' = Utf8(head) \o rest /\ UNCHANGED acc

Receive ==
    /\ mode = "handshake" /\ ~killed
    /\ \E k \in 1 .. StreamLen - got :
        LET buf == hs \o SubSeq(stream, got + 1, got + k)
            end == headerBlockEnd(buf, ScanFrom)
        IN  /\ got' = got + k
            /\ hsReads' = hsReads + 1
            /\ \/ /\ hsReads' > maxHsReads
                  /\ Kill /\ UNCHANGED <<hs, hsScanned>>
               \/ /\ hsReads' <= maxHsReads /\ Len(buf) > MAX_HANDSHAKE
                  /\ Kill /\ hs' = buf /\ UNCHANGED hsScanned
               \/ /\ hsReads' <= maxHsReads /\ Len(buf) <= MAX_HANDSHAKE
                  /\ hsScanned' = Len(buf)
                  /\ \/ /\ end < 0
                        /\ hs' = buf /\ UNCHANGED <<mode, killed, sent, acc>>
                     \/ end >= 0 /\ Classify(buf, end)
    /\ UNCHANGED stream

HsNext == Receive

HsSpec == HsInit /\ [][HsNext]_hsVars
-------------------------------------------------------------------------------
Received == SubSeq(stream, 1, got)
FirstEnd == headerBlockEnd(stream, 0)

(* The sniffer does what one that saw all the bytes at once would do,      *)
(* however they were cut into reads.  While it waits there is no end of    *)
(* header in what it has (a missed one would hold the session, uninspected *)
(* and unanswered, until a later blank line).  It refuses only for reads   *)
(* or bytes over the limit or for a bare LF in the head.  What it lets on  *)
(* ends at the first blank line, has no bare LF before it (the http stage  *)
(* then sees the same line ends), and is an upgrade or not.  The head goes *)
(* upstream as text; every byte read after it goes, unchanged and in       *)
(* order, to the frame parser of an upgrade, or upstream otherwise.        *)
SameAsWholeScan ==
    LET head == SubSeq(stream, 1, FirstEnd)
        rest == SubSeq(Received, FirstEnd + 1, got)
        bareLf == FirstEnd > 0 /\ hasBareLf(stream, FirstEnd)
    IN  CASE killed ->
                \/ hsReads > maxHsReads \/ got > MAX_HANDSHAKE
                \/ bareLf /\ FirstEnd <= got
          [] ~killed /\ mode = "handshake" -> headerBlockEnd(Received, 0) = -1
          [] ~killed /\ mode = "ws" ->
                ~bareLf /\ asksUpgrade(head) /\ sent = Utf8(head) /\ acc = rest
          [] ~killed /\ mode = "plain" ->
                /\ ~bareLf /\ ~asksUpgrade(head)
                /\ sent = Utf8(head) \o rest /\ acc = <<>>
===============================================================================
