------------------------------ MODULE Dashboard ------------------------------
(***************************************************************************)
(* shield-ui at work (ui/src/main.rs, http.rs and tail of collect.rs): one *)
(* connection at a time, which is all a connection sees of the others, and *)
(* the world around it: a peer that sends what it likes when it likes, or  *)
(* nothing, a configuration that changes, and nginx and logrotate working  *)
(* on the log while it is read.                                            *)
(*                                                                         *)
(* A byte of a log is <<line, k>>: the k-th last byte of that line, so that*)
(* k = 0 is its newline.  What a request asks for is abstract (HttpQuery   *)
(* has how it is spelled), and so are the bytes of a header, apart from    *)
(* the carriage return that alone makes an empty line.                     *)
(***************************************************************************)
EXTENDS Integers, Sequences, SequencesExt

CONSTANTS
    MaxRequestLine, \* MAX_REQUEST_LINE, in bytes
    MaxHeaderBytes, \* MAX_HEADER_BYTES
    MaxHeaders,     \* MAX_HEADERS
    MaxTailBytes,   \* MAX_TAIL_BYTES
    MaxTailLines,   \* MAX_TAIL_LINES
    Asked,          \* values of n that a client gives; 0 for one that is no number
    MaxLog,         \* bound: lines ever written to the log
    MaxConns        \* bound: connections

ASSUME DashboardAssumption ==
    /\ MaxRequestLine \in Nat \ {0} /\ MaxHeaderBytes \in Nat /\ MaxHeaders \in Nat \ {0}
    /\ MaxTailBytes \in Nat /\ MaxTailLines \in Nat \ {0} /\ Asked \subseteq Nat

VARIABLES
    pc, conns,
    n, cr, nl,     \* the line read so far: its bytes, are they a lone "\r",
                   \* and has its newline come
    eof,           \* has the peer closed its side
    headers, total, \* the header loop: i and total
    lines,         \* api_logs: how many lines to serve
    resp,          \* the response: its status and, of a log, the lines
    listed,        \* is the service in the configuration
    file,          \* the log, or Missing
    written,       \* lines ever written to it
    fd,            \* the open file, if it is no longer the one at the path
    len, pos, want, \* tail()
    consumed,      \* history: bytes read from the peer
    atSeek,        \* history: the open file at the second seek
    moved          \* history: did the open file change under tail()

peerVars == <<n, cr, nl, eof, headers, total, consumed>>
tailVars == <<len, pos, want, atSeek>>
world == <<listed, file, written>>
uiVars == <<pc, conns, peerVars, lines, resp, world, fd, tailVars, moved>>

Missing == <<<<0, 0>>>>
AtPath == <<<<0, 1>>>>
NoResponse == [status |-> 0, lines |-> <<>>]

Content == IF fd = AtPath THEN file ELSE fd

(* The bytes of the i-th line; lengths differ. *)
Line(i) == LET l == 2 + (i % 3) IN [k \in 1 .. l |-> <<i, l - k>>]

UiInit ==
    /\ pc = "boot" /\ conns = 0 /\ n = 0 /\ cr = FALSE /\ nl = FALSE /\ eof = FALSE
    /\ headers = 0 /\ total = 0 /\ lines = 0 /\ resp = NoResponse
    /\ listed \in BOOLEAN /\ file = Missing /\ written = 0 /\ fd = AtPath
    /\ len = 0 /\ pos = 0 /\ want = 0
    /\ consumed = 0 /\ atSeek = <<>> /\ moved = FALSE

(* main: a routable address needs --insecure-bind. *)
Boot ==
    /\ pc = "boot"
    /\ \E loopback, insecure \in BOOLEAN :
          pc' = IF loopback \/ insecure THEN "closed" ELSE "refused"
    /\ UNCHANGED <<conns, peerVars, lines, resp, world, fd, tailVars, moved>>

(* serve: a new connection, on a thread of its own. *)
Accept ==
    /\ pc = "closed" /\ conns < MaxConns /\ conns' = conns + 1 /\ pc' = "line"
    /\ n' = 0 /\ cr' = FALSE /\ nl' = FALSE /\ eof' = FALSE /\ headers' = 0 /\ total' = 0
    /\ consumed' = 0 /\ lines' = 0 /\ resp' = NoResponse /\ fd' = AtPath
    /\ len' = 0 /\ pos' = 0 /\ want' = 0 /\ atSeek' = <<>> /\ moved' = FALSE
    /\ UNCHANGED world

Respond(status, ls) == pc' = "write" /\ resp' = [status |-> status, lines |-> ls]
Error(status) == Respond(status, <<>>)
------------------------------------------------------------------------------
(* read_request.  read_line, bounded by take(), comes back at a newline,   *)
(* after MaxRequestLine bytes or at the end of the stream.  A byte counts  *)
(* when read_line takes it; the BufReader may hold a buffer more.          *)
Reading == pc \in {"line", "headers"}
Returned == nl \/ eof \/ n = MaxRequestLine

PeerSends(b) ==
    /\ Reading /\ ~Returned /\ n' = n + 1 /\ consumed' = consumed + 1
    /\ nl' = (b = "\n")
    /\ cr' = IF b = "\n" THEN cr ELSE n = 0 /\ b = "\r"
    /\ UNCHANGED <<pc, conns, eof, headers, total, lines, resp, world, fd,
                   tailVars, moved>>

PeerCloses ==
    /\ Reading /\ ~eof /\ eof' = TRUE
    /\ UNCHANGED <<pc, conns, n, cr, nl, headers, total, consumed, lines, resp,
                   world, fd, tailVars, moved>>

(* An error instead: nothing came for READ_TIMEOUT, the connection was     *)
(* reset, or what came is no UTF-8.  The slip reads without a timeout.     *)
Unreadable_no_timeout ==
    /\ Reading /\ Returned /\ n > 0 /\ Error(400)
    /\ UNCHANGED <<conns, peerVars, lines, world, fd, tailVars, moved>>
Unreadable ==
    /\ Reading /\ (~Returned \/ n > 0) /\ Error(400)
    /\ UNCHANGED <<conns, peerVars, lines, world, fd, tailVars, moved>>

TakeLine == Returned /\ n' = 0 /\ cr' = FALSE /\ nl' = FALSE

RequestLine ==
    /\ pc = "line" /\ TakeLine
    /\ \E get \in BOOLEAN :
          IF n = 0 THEN Error(400)
          ELSE IF n >= MaxRequestLine /\ ~nl THEN Error(413)
          ELSE IF ~get THEN Error(405)
          ELSE pc' = "headers" /\ UNCHANGED resp
    /\ UNCHANGED <<conns, eof, headers, total, consumed, lines, world, fd,
                   tailVars, moved>>

(* What a header adds to the total.  The slip overlooks one cut short by   *)
(* take().                                                                 *)
HeaderBytes_whole == IF nl THEN n ELSE 0
HeaderBytes == n

(* One turn of the header loop, up to the check at the head of the next. *)
HeaderLine ==
    /\ pc = "headers" /\ TakeLine
    /\ IF n = 0 \/ (nl /\ (n = 1 \/ (n = 2 /\ cr)))
       THEN pc' = "route" /\ UNCHANGED <<headers, total, resp>>
       ELSE /\ total' = total + HeaderBytes /\ headers' = headers + 1
            /\ IF total' > MaxHeaderBytes \/ headers' >= MaxHeaders
               THEN Error(413) ELSE UNCHANGED <<pc, resp>>
    /\ UNCHANGED <<conns, eof, consumed, lines, world, fd, tailVars, moved>>
------------------------------------------------------------------------------
(* handle: the page and the status always come, the bans if the tool runs. *)
Route ==
    /\ pc = "route"
    /\ \/ \E status \in {200, 404, 500} : Error(status)
       \/ pc' = "logs" /\ UNCHANGED resp
    /\ UNCHANGED <<conns, peerVars, lines, world, fd, tailVars, moved>>

(* known_services: the names that shield-config gives at this moment; one  *)
(* that fails gives none.                                                  *)
Known(configRuns) == configRuns /\ listed

(* api_logs, up to tail: the parameters and the name. *)
Clamp(k) == Max({1, Min({k, MaxTailLines})})
CheckRequest ==
    /\ pc = "logs"
    /\ \E valid, configRuns \in BOOLEAN, k \in Asked :
        IF ~valid THEN Error(400) /\ UNCHANGED lines
        ELSE IF ~Known(configRuns) THEN Error(404) /\ UNCHANGED lines
        ELSE /\ pc' = "open" /\ UNCHANGED resp
             /\ lines' = Clamp(IF k = 0 THEN 100 ELSE k)
    /\ UNCHANGED <<conns, peerVars, world, fd, tailVars, moved>>

(* tail: open, ask for the length, seek back from the end, read. *)
Open ==
    /\ pc = "open"
    /\ \/ file = Missing /\ Respond(200, <<>>)
       \/ file # Missing /\ pc' = "length" /\ UNCHANGED resp
       \/ file # Missing /\ Error(500) \* no permission, no descriptors
    /\ UNCHANGED <<conns, peerVars, lines, world, fd, tailVars, moved>>

SeekEnd ==
    /\ pc = "length" /\ len' = Len(Content) /\ want' = Min({MaxTailBytes, len'})
    /\ pc' = "seek"
    /\ UNCHANGED <<conns, peerVars, lines, resp, world, fd, pos, atSeek, moved>>

SeekBack ==
    /\ pc = "seek" /\ atSeek' = Content
    /\ IF want > Len(Content) THEN Error(500) /\ UNCHANGED pos
       ELSE pos' = Len(Content) - want /\ pc' = "read" /\ UNCHANGED resp
    /\ UNCHANGED <<conns, peerVars, lines, world, fd, len, want, moved>>

(* str::lines, each line with its newline: where the lines end, and the    *)
(* bytes from one end to the next.                                         *)
LineEnds(buf) ==
    LET upTo[i \in 0 .. Len(buf)] ==
            IF i = 0 THEN <<>>
            ELSE upTo[i - 1] \o (IF buf[i][2] = 0 \/ i = Len(buf) THEN <<i>> ELSE <<>>)
    IN  upTo[Len(buf)]
Lines(buf) ==
    LET ends == LineEnds(buf)
    IN  [k \in DOMAIN ends |->
            SubSeq(buf, IF k = 1 THEN 1 ELSE ends[k - 1] + 1, ends[k])]
LastOf(s, k) == SubSeq(s, Max({1, Len(s) - k + 1}), Len(s))

(* What tail() serves of the bytes it read.  The slip keeps the fragment.  *)
Served_fragment(buf) == LastOf(Lines(buf), lines)
Served(buf) ==
    LET all == Lines(buf)
    IN  LastOf(IF want < len /\ all # <<>> THEN Tail(all) ELSE all, lines)

Read ==
    /\ pc = "read"
    /\ IF pos + want > Len(Content) THEN Error(500)
       ELSE Respond(200, Served(SubSeq(Content, pos + 1, pos + want)))
    /\ UNCHANGED <<conns, peerVars, lines, world, fd, tailVars, moved>>
------------------------------------------------------------------------------
(* write_response and shutdown; each write comes back, with an error if    *)
(* the peer takes nothing for WRITE_TIMEOUT.                               *)
Write ==
    /\ pc = "write" /\ pc' = "closed"
    /\ UNCHANGED <<conns, peerVars, lines, resp, world, fd, tailVars, moved>>
------------------------------------------------------------------------------
(* The world: nginx appends whole lines, logrotate moves the file away or  *)
(* empties it, an operator edits the configuration.                        *)
TailAt == pc \in {"length", "seek", "read"}

Append1 ==
    /\ written < MaxLog /\ written' = written + 1
    /\ file' = (IF file = Missing THEN <<>> ELSE file) \o Line(written')
    /\ moved' = (moved \/ (pc = "seek" /\ fd = AtPath))
    /\ UNCHANGED <<pc, conns, peerVars, lines, resp, listed, fd, tailVars>>

Rotate ==
    /\ file # Missing /\ file' = Missing
    /\ fd' = IF TailAt /\ fd = AtPath THEN file ELSE fd
    /\ UNCHANGED <<pc, conns, peerVars, lines, resp, listed, written, tailVars, moved>>

Truncate ==
    /\ file \notin {Missing, <<>>} /\ file' = <<>>
    /\ moved' = (moved \/ (pc \in {"seek", "read"} /\ fd = AtPath))
    /\ UNCHANGED <<pc, conns, peerVars, lines, resp, listed, written, fd, tailVars>>

Reconfigure ==
    /\ listed' = ~listed
    /\ UNCHANGED <<pc, conns, peerVars, lines, resp, file, written, fd, tailVars, moved>>

Server ==
    \/ Unreadable \/ RequestLine \/ HeaderLine
    \/ Route \/ CheckRequest \/ Open \/ SeekEnd \/ SeekBack \/ Read \/ Write

UiNext ==
    \/ Boot \/ Accept \/ Server
    \/ PeerCloses \/ \E b \in {"\r", "\n", "other"} : PeerSends(b)
    \/ Append1 \/ Rotate \/ Truncate \/ Reconfigure

UiSpec == UiInit /\ [][UiNext]_uiVars

(* A thread is scheduled, the tools it runs end, and a read or a write on  *)
(* the socket that nothing else ends is ended by its timeout.  The peer    *)
(* owes nothing.                                                           *)
FairSpec == UiSpec /\ WF_uiVars(Server)
------------------------------------------------------------------------------
(* A connection costs the server a bounded number of bytes, however the    *)
(* peer cuts and ends its lines: one request line, the header budget and   *)
(* the line that broke it, beside what one buffer reads ahead.             *)
ReadBounded == consumed <= 2 * MaxRequestLine + MaxHeaderBytes

(* Every connection comes to its end, and its thread with it, whatever the *)
(* peer sends and however slowly.                                          *)
EveryConnectionEnds == pc = "line" ~> pc = "closed"

(* /api/logs serves whole lines, the last ones of the log as it was when   *)
(* tail() placed its window, as many as were asked for or as fit into the  *)
(* window, and never more; rotation, and lines appended after that moment, *)
(* change nothing.  Only a file that is written to between the two seeks,  *)
(* or emptied under the read, is excepted.                                 *)
TailIsRecent ==
    resp.status = 200 /\ pc = "write" /\ resp.lines # <<>> /\ ~moved =>
        LET all == Lines(atSeek)
            m == Len(resp.lines)
        IN  /\ m <= lines /\ resp.lines = LastOf(all, m)
            /\ \/ m = lines \/ m = Len(all)
               \/ Len(FlattenSeq(LastOf(all, m + 1))) >= MaxTailBytes
==============================================================================
