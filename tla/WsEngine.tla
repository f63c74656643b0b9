------------------------------- MODULE WsEngine -------------------------------
(***************************************************************************)
(* One session of the WebSocket inspection engine, core/njs/shield_ws.js:  *)
(* the client on one side, the http stage and the relay on the other, and  *)
(* the two filter callbacks between them.                                  *)
(*                                                                         *)
(* njs runs a callback to its end before it starts another one.  A         *)
(* callback that reaches pump() is several steps here, one per turn of its *)
(* loop; pc is "pump" meanwhile and no other callback is enabled.          *)
(*                                                                         *)
(* The client's bytes are a handshake head of HsLen bytes followed by      *)
(* frames.  A byte of payload is a symbol; the other bytes of a frame are  *)
(* counted, not spelled out.  acc, the segments held in chunks and what is *)
(* still on the way are byte counts into `wire', the frames not parsed yet,*)
(* whose first one starts at the first byte of acc.                        *)
(***************************************************************************)
EXTENDS WsFilters, Buckets, FiniteSets

CONSTANTS
    cfg,       \* readCfg(): the policy of the session
    MAX_HANDSHAKE, MAX_PENDING_FRAMES, MAX_FRAGMENTS,
    MAX_CONTROL, \* 125, the longest payload of a control frame
    Frames,    \* the frames the client may send
    Grammar,   \* the payloads that parse as JSON, and what they say
    HsLen,     \* bytes in the client's handshake head
    HsClasses, \* what that head may be: "ws", "plain", "bare-lf"
    ReadSizes, \* how many bytes a read may return, besides all there are
    Replies,   \* what the upstream may send: "101", "data"
    EngineErrors, \* can a callback throw
    BanEvents, \* can the client's address be banned or unbanned
    Ticks,     \* amounts in ms by which the clock is seen to advance
    MaxFrames, \* bound: frames the client sends
    MaxInFlight, \* bound: frames sent and not yet parsed
    MaxDown,   \* bound: chunks the upstream sends
    MaxTime    \* bound: clock

VARIABLES
    pc,        \* "idle", or "pump" inside pump()'s loop
    mode, killed,
    hsReads, hsBuf, hsClass, hsLeft,
    wire, unread, acc, pendingLen, need,
    msgReads, pending, msgText, nParts, msgLen, inMsg,
    subs, subCount, bMsg, bEvent, bReq,
    now, checkedResponse,
    banned, bannedSince, \* isBanned()'s answer now, and since when
    banCheckAt,
    eof,       \* the client has finished sending, and that was read
    up, down,  \* history: what was sent to either side, in order
    approved,  \* history: the texts that passed inspect(), in order
    consumed,  \* history: the frames taken off wire, in order
    passed,    \* history: where in consumed the frames are that inspect() passed
    verdicts   \* history: the verdicts logged

hsVars    == <<hsReads, hsBuf, hsClass, hsLeft>>
byteVars  == <<wire, unread, acc, pendingLen, need>>
msgVars   == <<msgReads, pending, msgText, nParts, msgLen, inMsg>>
limitVars == <<subs, subCount, bMsg, bEvent, bReq>>
banVars   == <<banned, bannedSince, banCheckAt>>
histVars  == <<approved, passed, consumed>>
vars == <<pc, mode, killed, hsVars, byteVars, msgVars, limitVars, now, banVars,
          checkedResponse, eof, up, down, histVars, verdicts>>

Ops == {"text", "cont", "bin", "reserved", "close", "ping"}
Control == {"close", "ping"}
Symbols == (UNION {{t[i] : i \in DOMAIN t} : t \in DOMAIN Grammar})
             \cup (UNION {{f.payload[i] : i \in DOMAIN f.payload} : f \in Frames})

(* form is the length encoding (7, 16 or 64 bits); hi says that the upper  *)
(* half of a 64-bit length is not zero.                                    *)
Frame == [op : Ops, fin : BOOLEAN, rsv : BOOLEAN, masked : BOOLEAN,
          form : {7, 16, 64}, hi : BOOLEAN, payload : Seq(Symbols)]

(* What the engine itself puts on the upstream connection. *)
HeadItem == [op |-> "head"]
RawItem == [op |-> "raw"]
ShieldClose == [op |-> "shield-close"]
EofItem == [op |-> "eof"]

ASSUME EngineAssumption ==
    /\ \A k \in {"maxMsg", "maxSubs", "maxHsReads", "maxMsgReads", "banRecheck",
                 "msgRate", "msgBurst", "eventRate", "eventBurst", "reqRate",
                 "reqBurst"} : cfg[k] \in Nat
    /\ cfg.banFile \in BOOLEAN
    /\ {MAX_HANDSHAKE, MAX_PENDING_FRAMES, MAX_FRAGMENTS, MAX_CONTROL} \subseteq Nat
    /\ HsLen \in Nat \ {0} /\ HsClasses \subseteq {"ws", "plain", "bare-lf"}
    /\ ReadSizes \subseteq Nat \ {0} /\ Replies \subseteq {"101", "data"}
    /\ Ticks \subseteq Nat /\ {BanEvents, EngineErrors} \subseteq BOOLEAN
    /\ {MaxFrames, MaxInFlight, MaxDown, MaxTime} \subseteq Nat

ASSUME FramesAssumption == Frames \subseteq Frame

ASSUME GrammarAssumption ==
    \A text \in DOMAIN Grammar :
        LET fs == Grammar[text].filters
        IN  /\ Len(fs) \in Nat /\ DOMAIN fs = 1 .. Len(fs)
            /\ \A i \in DOMAIN fs : IsFilter(fs[i])

Init ==
    /\ pc = "idle" /\ mode = "handshake" /\ killed = FALSE
    /\ hsReads = 0 /\ hsBuf = 0 /\ hsClass \in HsClasses /\ hsLeft = HsLen
    /\ wire = <<>> /\ unread = 0 /\ acc = 0 /\ pendingLen = 0 /\ need = 2
    /\ msgReads = 0 /\ pending = <<>> /\ msgText = <<>> /\ nParts = 0
    /\ msgLen = 0 /\ inMsg = FALSE
    /\ subs = {} /\ subCount = 0
    /\ now = 0
    /\ bMsg = bucket(cfg.msgRate, cfg.msgBurst, now)
    /\ bEvent = bucket(cfg.eventRate, cfg.eventBurst, now)
    /\ bReq = bucket(cfg.reqRate, cfg.reqBurst, now)
    /\ banned = FALSE /\ bannedSince = 0 /\ banCheckAt = now + cfg.banRecheck
    /\ checkedResponse = FALSE /\ eof = FALSE
    /\ up = <<>> /\ down = <<>> /\ approved = <<>> /\ passed = {} /\ consumed = <<>>
    /\ verdicts = <<>>
-------------------------------------------------------------------------------
(* Slips of violate(), for the mutation runs: held frames are let go with  *)
(* the Close, and a session already killed is killed again.                *)
violate_releases_held(rule, detail, dir) ==
    /\ ~killed /\ killed' = TRUE /\ pc' = "idle"
    /\ pending' = <<>> /\ msgText' = <<>> /\ nParts' = 0 /\ pendingLen' = 0
    /\ verdicts' = Append(verdicts, <<rule, detail>>)
    /\ down' = down \o <<"notice", "close">>
    /\ up' = IF dir = "upstream" THEN Append(up \o pending, ShieldClose) ELSE up
violate_again(rule, detail, dir) ==
    /\ killed' = TRUE /\ pc' = "idle"
    /\ pending' = <<>> /\ msgText' = <<>> /\ nParts' = 0 /\ pendingLen' = 0
    /\ verdicts' = Append(verdicts, <<rule, detail>>)
    /\ down' = down \o <<"notice", "close">>
    /\ up' = IF dir = "upstream" THEN Append(up, ShieldClose) ELSE up

(* violate(), from the callback of direction dir.  The closing frame for   *)
(* the relay goes out with s.send, which continues the direction of the    *)
(* callback it is called from.                                             *)
violate(rule, detail, dir) ==
    /\ ~killed
    /\ killed' = TRUE /\ pc' = "idle"
    /\ pending' = <<>> /\ msgText' = <<>> /\ nParts' = 0 /\ pendingLen' = 0
    /\ verdicts' = Append(verdicts, <<rule, detail>>)
    /\ IF dir = "upstream"
       THEN /\ down' = down \o <<"notice", "close">>
            /\ up' = Append(up, ShieldClose)
       ELSE /\ down' = down \o <<"notice", "close", "masked-close">>
            /\ up' = up

(* Everything a violation found by pump() leaves alone. *)
PumpViolate(rule, detail) ==
    /\ violate(rule, detail, "upstream")
    /\ UNCHANGED <<mode, hsVars, msgReads, msgLen, inMsg, now, banVars,
                   checkedResponse, eof>>
-------------------------------------------------------------------------------
(* inspect(): what a text says, and which rule it breaks first. *)
Nostr(text) == text \in DOMAIN Grammar /\ Grammar[text].nostr

(* The messages that carry a query.  The slip leaves NEG-OPEN out, which   *)
(* then passes as an ordinary message.                                     *)
QueryTypes_without_neg == {"REQ", "COUNT"}
QueryTypes == {"REQ", "COUNT", "NEG-OPEN"}

(* The slip lets one subscription too many in. *)
CapReached_off_by_one == subCount > cfg.maxSubs
CapReached == subCount >= cfg.maxSubs

(* The bucket a message is charged to; the slip lets AUTH off. *)
Charged_auth_free(text) ==
    IF Grammar[text].t = "EVENT" THEN "event"
    ELSE IF Grammar[text].t \in QueryTypes THEN "req" ELSE "none"
Charged(text) ==
    IF Grammar[text].t \in {"EVENT", "AUTH"} THEN "event"
    ELSE IF Grammar[text].t \in QueryTypes THEN "req" ELSE "none"

Opens(text) ==
    /\ Grammar[text].t \in {"REQ", "NEG-OPEN"}
    /\ Grammar[text].sid \notin subs

Closes(text) ==
    /\ Grammar[text].t \in {"CLOSE", "NEG-CLOSE"}
    /\ Grammar[text].sid \in subs

(* The checks that look at the message alone. *)
ContentRule(m) ==
    IF m.t = "EVENT" /\ ~m.event THEN "malformed"
    ELSE IF m.t = "EVENT" /\ m.kind \in cfg.kindDeny THEN "kind-denied"
    ELSE IF m.t \in QueryTypes /\ m.sid = "" THEN "malformed"
    ELSE IF /\ m.t \in QueryTypes
            /\ checkFilters(m.filters) # "none"
         THEN FaultRule(checkFilters(m.filters))
    ELSE "none"

(* What rounding takes from the two buckets that a message is charged to.  *)
Rounding == [msg : BOOLEAN, kind : BOOLEAN]

inspectRule(text, lost) ==
    LET m == Grammar[text] IN
    IF ~takeToken(bMsg, now, lost.msg).ok THEN "msg-rate"
    ELSE IF ~Nostr(text) THEN "malformed"
    ELSE IF m.t \notin cfg.types THEN "type-not-allowed"
    ELSE IF Charged(text) = "event" /\ ~takeToken(bEvent, now, lost.kind).ok
         THEN "event-rate"
    ELSE IF Charged(text) = "req" /\ ~takeToken(bReq, now, lost.kind).ok
         THEN "req-rate"
    ELSE IF ContentRule(m) # "none" THEN ContentRule(m)
    ELSE IF Opens(text) /\ CapReached THEN "too-many-subs"
    ELSE "none"

(* Buckets are charged as far as inspect() got; subscriptions change only  *)
(* when it got to its end.                                                 *)
ChargeBuckets(text, lost) ==
    LET typed == /\ takeToken(bMsg, now, lost.msg).ok /\ Nostr(text)
                 /\ Grammar[text].t \in cfg.types
    IN  /\ bMsg' = takeToken(bMsg, now, lost.msg).b
        /\ bEvent' = IF typed /\ Charged(text) = "event"
                     THEN takeToken(bEvent, now, lost.kind).b ELSE bEvent
        /\ bReq' = IF typed /\ Charged(text) = "req"
                   THEN takeToken(bReq, now, lost.kind).b ELSE bReq

AccountSubs(text) ==
    LET sid == Grammar[text].sid IN
    \/ Opens(text) /\ subs' = subs \cup {sid} /\ subCount' = subCount + 1
    \/ /\ Closes(text)
       /\ subs' = subs \ {sid}
       /\ subCount' = IF subCount > 0 THEN subCount - 1 ELSE subCount
    \/ ~Opens(text) /\ ~Closes(text) /\ UNCHANGED <<subs, subCount>>
-------------------------------------------------------------------------------
(* pump(): one turn of the loop looks at the frame at the head of acc. *)
HeadLen(f) == IF f.form = 7 THEN 2 ELSE IF f.form = 16 THEN 4 ELSE 10
Size(f) == HeadLen(f) + 4 + Len(f.payload)

(* The checks on the first two bytes, then those that need the length. *)
EarlyFault(f) == f.rsv \/ ~f.masked

(* A slip: there is no size cap. *)
HeaderRule_no_cap(f) ==
    IF f.op \in Control
    THEN IF ~f.fin \/ Len(f.payload) > MAX_CONTROL THEN "protocol" ELSE "none"
    ELSE IF f.op \notin {"text", "cont"} \/ (f.op = "text") = inMsg THEN "protocol"
    ELSE "none"

HeaderRule(f) ==
    IF f.form = 64 /\ f.hi THEN "oversized-message"
    ELSE IF f.op \in Control
         THEN IF ~f.fin \/ Len(f.payload) > MAX_CONTROL THEN "protocol" ELSE "none"
    ELSE IF f.op = "bin" THEN "binary-frame"
    ELSE IF f.op = "reserved" THEN "protocol"
    ELSE IF f.op = "text" /\ inMsg THEN "protocol"
    ELSE IF f.op = "cont" /\ ~inMsg THEN "protocol"
    ELSE IF msgLen + Len(f.payload) > cfg.maxMsg THEN "oversized-message"
    ELSE "none"

(* A slip: one byte too many is waited for. *)
PumpWait_one_more ==
    /\ pc = "pump" /\ ~killed
    /\ LET f == Head(wire) IN
       \/ acc < 2 /\ need' = 2
       \/ /\ acc >= 2 /\ wire # <<>> /\ ~EarlyFault(f)
          /\ acc < HeadLen(f) /\ need' = HeadLen(f)
       \/ /\ acc >= 2 /\ wire # <<>> /\ ~EarlyFault(f)
          /\ acc >= HeadLen(f) /\ HeaderRule(f) = "none"
          /\ acc < Size(f) /\ need' = Size(f) + 1
    /\ pc' = "idle"
    /\ UNCHANGED <<mode, killed, hsVars, wire, unread, acc, pendingLen, msgVars,
                   limitVars, now, banVars, checkedResponse, eof, up, down,
                   histVars, verdicts>>

(* The loop returns for want of bytes and says how many it waits for. *)
PumpWait ==
    /\ pc = "pump" /\ ~killed
    /\ LET f == Head(wire) IN
       \/ acc < 2 /\ need' = 2
       \/ /\ acc >= 2 /\ wire # <<>> /\ ~EarlyFault(f)
          /\ acc < HeadLen(f) /\ need' = HeadLen(f)
       \/ /\ acc >= 2 /\ wire # <<>> /\ ~EarlyFault(f)
          /\ acc >= HeadLen(f) /\ HeaderRule(f) = "none"
          /\ acc < Size(f) /\ need' = Size(f)
    /\ pc' = "idle"
    /\ UNCHANGED <<mode, killed, hsVars, wire, unread, acc, pendingLen, msgVars,
                   limitVars, now, banVars, checkedResponse, eof, up, down,
                   histVars, verdicts>>

(* The frame is refused on its header. *)
PumpReject ==
    /\ pc = "pump" /\ ~killed /\ acc >= 2 /\ wire # <<>>
    /\ LET f == Head(wire) IN
       \/ EarlyFault(f) /\ PumpViolate("protocol", "frame")
       \/ /\ ~EarlyFault(f) /\ acc >= HeadLen(f) /\ HeaderRule(f) # "none"
          /\ PumpViolate(HeaderRule(f), "frame")
    /\ UNCHANGED <<wire, unread, acc, need, limitVars, histVars>>

(* A whole, acceptable frame is at the head of acc: the rest of the turn.  *)
FrameReady(f) ==
    /\ pc = "pump" /\ ~killed /\ acc >= 2 /\ wire # <<>> /\ f = Head(wire)
    /\ ~EarlyFault(f) /\ acc >= HeadLen(f) /\ HeaderRule(f) = "none"
    /\ acc >= Size(f)

TakeFrame(f) ==
    /\ need' = 2
    /\ acc' = acc - Size(f)
    /\ wire' = Tail(wire)
    /\ consumed' = Append(consumed, f)
    /\ UNCHANGED unread

(* pending.push(raw) overran the limit on held frames. *)
PumpPendingFlood ==
    \E f \in Frames :
        /\ FrameReady(f) /\ TakeFrame(f)
        /\ Len(pending) + 1 > MAX_PENDING_FRAMES
        /\ PumpViolate("frame-flood", "pending")
        /\ UNCHANGED <<limitVars, approved, passed>>

(* A slip: a control frame always flushes. *)
PumpControl_overtakes ==
    \E f \in Frames :
        /\ FrameReady(f) /\ TakeFrame(f) /\ f.op \in Control
        /\ Len(pending) + 1 <= MAX_PENDING_FRAMES
        /\ pending' = <<>> /\ up' = up \o Append(pending, f)
        /\ UNCHANGED <<pc, mode, killed, hsVars, pendingLen, msgReads, msgText,
                       nParts, msgLen, inMsg, limitVars, now, banVars,
                       checkedResponse, eof, down, approved, passed, verdicts>>

(* A control frame waits behind a message that is only partly here. *)
PumpControl ==
    \E f \in Frames :
        /\ FrameReady(f) /\ TakeFrame(f) /\ f.op \in Control
        /\ Len(pending) + 1 <= MAX_PENDING_FRAMES
        /\ IF inMsg
           THEN pending' = Append(pending, f) /\ UNCHANGED up
           ELSE pending' = <<>> /\ up' = up \o Append(pending, f)
        /\ UNCHANGED <<pc, mode, killed, hsVars, pendingLen, msgReads, msgText,
                       nParts, msgLen, inMsg, limitVars, now, banVars,
                       checkedResponse, eof, down, approved, passed,
                       verdicts>>

DataReady(f) ==
    /\ FrameReady(f) /\ TakeFrame(f) /\ f.op \notin Control
    /\ Len(pending) + 1 <= MAX_PENDING_FRAMES

PumpFragmentFlood ==
    \E f \in Frames :
        /\ DataReady(f)
        /\ nParts + 1 > MAX_FRAGMENTS
        /\ PumpViolate("frame-flood", "fragments")
        /\ UNCHANGED <<limitVars, approved, passed>>

(* A fragment is held until its message is whole. *)
PumpFragment ==
    \E f \in Frames :
        /\ DataReady(f) /\ ~f.fin
        /\ nParts + 1 <= MAX_FRAGMENTS
        /\ pending' = Append(pending, f)
        /\ msgText' = msgText \o f.payload
        /\ nParts' = nParts + 1
        /\ msgLen' = msgLen + Len(f.payload)
        /\ inMsg' = TRUE
        /\ UNCHANGED <<pc, mode, killed, hsVars, pendingLen, msgReads, limitVars,
                       now, banVars, checkedResponse, eof, up, down, approved,
                       passed, verdicts>>

(* The last frame of a message: inspect() decides about all of it. *)
PumpMessage ==
    \E f \in Frames, lost \in Rounding :
        /\ DataReady(f) /\ f.fin
        /\ nParts + 1 <= MAX_FRAGMENTS
        /\ msgLen' = 0 /\ inMsg' = FALSE /\ msgReads' = 0
        /\ LET text == msgText \o f.payload IN
           /\ ChargeBuckets(text, lost)
           /\ \/ /\ inspectRule(text, lost) = "none"
                 /\ AccountSubs(text)
                 /\ approved' = Append(approved, text)
                 /\ passed' = passed \cup {Len(consumed')}
                 /\ up' = up \o Append(pending, f)
                 /\ pending' = <<>> /\ msgText' = <<>> /\ nParts' = 0
                 /\ UNCHANGED <<pc, killed, pendingLen, down, verdicts>>
              \/ /\ inspectRule(text, lost) # "none"
                 /\ violate(inspectRule(text, lost), "message", "upstream")
                 /\ UNCHANGED <<subs, subCount, approved, passed>>
        /\ UNCHANGED <<mode, hsVars, now, banVars, checkedResponse, eof>>
-------------------------------------------------------------------------------
(* onData(): the upstream callback, called with a read of k bytes. *)
Available == hsLeft + unread
Reads == {k \in ReadSizes : k <= Available} \cup ({Available} \ {0})

Least(x, y) == IF x < y THEN x ELSE y

(* The read takes what is left of the head before it takes frames. *)
Arrive(k) ==
    /\ hsLeft' = hsLeft - Least(k, hsLeft)
    /\ unread' = unread - (k - Least(k, hsLeft))

BanDue == mode # "plain" /\ cfg.banFile /\ now >= banCheckAt

(* A slip: the recheck timer is armed but the answer is not asked for. *)
RecheckPasses_unasked ==
    /\ banCheckAt' = IF BanDue THEN now + cfg.banRecheck ELSE banCheckAt
    /\ UNCHANGED <<banned, bannedSince>>

(* The mid-session ban check, when it lets the data through. *)
RecheckPasses ==
    /\ ~(BanDue /\ banned)
    /\ banCheckAt' = IF BanDue THEN now + cfg.banRecheck ELSE banCheckAt
    /\ UNCHANGED <<banned, bannedSince>>

Callback == pc = "idle" /\ ~killed

OnDataBanned ==
    /\ Callback /\ BanDue /\ banned
    /\ \/ \E k \in Reads : Arrive(k) /\ UNCHANGED eof
       \/ Available = 0 /\ ~eof /\ eof' = TRUE /\ UNCHANGED <<hsLeft, unread>>
    /\ banCheckAt' = now + cfg.banRecheck
    /\ violate("banned", "session-cut", "upstream")
    /\ UNCHANGED <<mode, hsReads, hsBuf, hsClass, wire, acc, need, msgReads,
                   msgLen, inMsg, limitVars, now, banned, bannedSince,
                   checkedResponse, histVars>>

OnDataPlain ==
    /\ Callback /\ mode = "plain"
    /\ \E k \in Reads : Arrive(k)
    /\ up' = Append(up, RawItem)
    /\ UNCHANGED <<pc, mode, killed, hsReads, hsBuf, hsClass, wire, acc,
                   pendingLen, need, msgVars, limitVars, now, banVars,
                   checkedResponse, eof, down, histVars, verdicts>>

(* The handshake is held until its head is whole, then classified. *)
HandshakeRefused(rule, detail) ==
    /\ violate(rule, detail, "upstream")
    /\ UNCHANGED <<mode, acc>>

HandshakeWaits ==
    UNCHANGED <<pc, mode, killed, acc, pendingLen, pending, msgText, nParts, up,
                down, verdicts>>

(* rest: the bytes read beyond the head. *)
HandshakeDone(rest) ==
    /\ \/ /\ hsClass = "ws"
          /\ mode' = "ws" /\ acc' = rest /\ pc' = "pump"
          /\ up' = Append(up, HeadItem)
       \/ /\ hsClass = "plain"
          /\ mode' = "plain"
          /\ up' = up \o IF rest > 0 THEN <<HeadItem, RawItem>> ELSE <<HeadItem>>
          /\ UNCHANGED <<acc, pc>>
    /\ UNCHANGED <<killed, pendingLen, pending, msgText, nParts, down, verdicts>>

OnDataHandshake ==
    /\ Callback /\ mode = "handshake" /\ RecheckPasses
    /\ \E k \in Reads :
        /\ Arrive(k)
        /\ hsReads' = hsReads + 1
        /\ hsBuf' = IF hsReads' > cfg.maxHsReads THEN hsBuf
                    ELSE IF hsBuf + k <= MAX_HANDSHAKE /\ hsLeft' = 0
                            /\ hsClass # "bare-lf" THEN 0
                    ELSE hsBuf + k
        /\ \/ /\ hsReads' > cfg.maxHsReads
              /\ HandshakeRefused("protocol", "handshake-drip")
           \/ /\ hsReads' <= cfg.maxHsReads /\ hsBuf + k > MAX_HANDSHAKE
              /\ HandshakeRefused("oversized-handshake", "handshake")
           \/ /\ hsReads' <= cfg.maxHsReads /\ hsBuf + k <= MAX_HANDSHAKE
              /\ \/ hsLeft' > 0 /\ HandshakeWaits
                 \/ /\ hsLeft' = 0 /\ hsClass = "bare-lf"
                    /\ HandshakeRefused("protocol", "handshake")
                 \/ hsLeft' = 0 /\ HandshakeDone(k - hsLeft)
    /\ UNCHANGED <<hsClass, wire, need, msgReads, msgLen, inMsg, limitVars, now,
                   checkedResponse, eof, histVars>>

(* A slip: exactly enough bytes are taken for too few. *)
TooFew_inclusive(k) == acc + pendingLen + k <= need
TooFew(k) == acc + pendingLen + k < need

(* Segments are held until there are as many bytes as pump() asked for. *)
OnDataWs ==
    /\ Callback /\ mode = "ws" /\ RecheckPasses
    /\ \E k \in Reads :
        /\ Arrive(k)
        /\ msgReads' = msgReads + 1
        /\ \/ /\ msgReads' > cfg.maxMsgReads
              /\ violate("frame-flood", "message-drip", "upstream")
              /\ UNCHANGED acc
           \/ /\ msgReads' <= cfg.maxMsgReads
              /\ IF TooFew(k)
                 THEN pendingLen' = pendingLen + k /\ UNCHANGED <<acc, pc>>
                 ELSE /\ acc' = acc + pendingLen + k
                      /\ pendingLen' = 0 /\ pc' = "pump"
              /\ UNCHANGED <<killed, pending, msgText, nParts, up, down, verdicts>>
    /\ UNCHANGED <<mode, hsReads, hsBuf, hsClass, wire, need, msgLen, inMsg,
                   limitVars, now, checkedResponse, eof, histVars>>

(* The client's end of stream arrives by itself, after the last data.  A   *)
(* message that is only partly here is not forwarded.                      *)
OnDataEof ==
    /\ Callback /\ Available = 0 /\ ~eof /\ RecheckPasses
    /\ eof' = TRUE
    /\ up' = Append(up, EofItem)
    /\ UNCHANGED <<pc, mode, killed, hsVars, byteVars, msgVars, limitVars, now,
                   checkedResponse, down, histVars, verdicts>>

(* Once the session is killed the callback returns at once. *)
OnDataKilled ==
    /\ killed /\ pc = "idle"
    /\ \/ Available > 0 /\ hsLeft' = 0 /\ unread' = 0 /\ UNCHANGED eof
       \/ Available = 0 /\ ~eof /\ eof' = TRUE /\ UNCHANGED <<hsLeft, unread>>
    /\ UNCHANGED <<pc, mode, killed, hsReads, hsBuf, hsClass, wire, acc,
                   pendingLen, need, msgVars, limitVars, now, banVars,
                   checkedResponse, up, down, histVars, verdicts>>

(* filter()'s catch around the upstream callback: an exception, at the     *)
(* start of a callback or in the middle of pump().                         *)
UpstreamThrows ==
    /\ EngineErrors
    /\ \/ pc = "pump" /\ UNCHANGED <<hsLeft, unread>>
       \/ Callback /\ \E k \in Reads : Arrive(k)
    /\ violate("engine-error", "exception", "upstream")
    /\ UNCHANGED <<mode, hsReads, hsBuf, hsClass, wire, acc, need, msgReads,
                   msgLen, inMsg, limitVars, now, banVars, checkedResponse, eof,
                   histVars>>
-------------------------------------------------------------------------------
FromRelay == SelectSeq(down, LAMBDA r : r \in {"101", "data"})

(* The downstream callback: relay to client, as it comes, killed or not.   *)
(* The first reply of a session taken for plain HTTP must not be a 101.    *)
Downstream ==
    /\ pc = "idle" /\ Len(FromRelay) < MaxDown
    /\ \E r \in Replies :
        LET first == mode = "plain" /\ ~checkedResponse IN
        /\ checkedResponse' = (checkedResponse \/ first)
        /\ \/ /\ first /\ r = "101" /\ ~killed
              /\ violate("protocol", "unclassified-upgrade", "downstream")
           \/ /\ first /\ r = "101" /\ killed
              /\ UNCHANGED <<killed, pc, pending, msgText, nParts, pendingLen,
                             verdicts, down, up>>
           \/ /\ ~(first /\ r = "101")
              /\ down' = Append(down, r)
              /\ UNCHANGED <<killed, pc, pending, msgText, nParts, pendingLen,
                             verdicts, up>>
    /\ UNCHANGED <<mode, hsVars, wire, unread, acc, need, msgReads, msgLen, inMsg,
                   limitVars, now, banVars, eof, histVars>>

(* filter()'s catch around the downstream callback. *)
DownstreamThrows ==
    /\ EngineErrors /\ pc = "idle"
    /\ violate("engine-error", "exception", "downstream")
    /\ UNCHANGED <<mode, hsVars, wire, unread, acc, need, msgReads, msgLen, inMsg,
                   limitVars, now, banVars, checkedResponse, eof, histVars>>
-------------------------------------------------------------------------------
(* The surroundings: the client sends, time passes, bans come and go.      *)
ClientSend ==
    /\ ~killed /\ ~eof /\ Len(consumed) + Len(wire) < MaxFrames
    /\ Len(wire) < MaxInFlight
    /\ \E f \in Frames : wire' = Append(wire, f) /\ unread' = unread + Size(f)
    /\ UNCHANGED <<pc, mode, killed, hsVars, acc, pendingLen, need, msgVars,
                   limitVars, now, banVars, checkedResponse, eof, up, down,
                   histVars, verdicts>>

(* A callback takes no time on the scale of the policy's timers. *)
Tick ==
    /\ pc = "idle" /\ ~killed
    /\ \E d \in Ticks : now + d <= MaxTime /\ now' = now + d
    /\ UNCHANGED <<pc, mode, killed, hsVars, byteVars, msgVars, limitVars, banVars,
                   checkedResponse, eof, up, down, histVars, verdicts>>

BanChange ==
    /\ BanEvents /\ ~killed
    /\ banned' = ~banned /\ bannedSince' = now
    /\ UNCHANGED <<pc, mode, killed, hsVars, byteVars, msgVars, limitVars, now,
                   banCheckAt, checkedResponse, eof, up, down, histVars, verdicts>>

Pump == \/ PumpWait \/ PumpReject \/ PumpPendingFlood \/ PumpControl
        \/ PumpFragmentFlood \/ PumpFragment \/ PumpMessage

OnData == \/ OnDataBanned \/ OnDataPlain \/ OnDataHandshake \/ OnDataWs
          \/ OnDataKilled

Next == \/ Pump \/ OnData \/ OnDataEof \/ UpstreamThrows
        \/ Downstream \/ DownstreamThrows
        \/ ClientSend \/ Tick \/ BanChange

Spec == Init /\ [][Next]_vars

(* nginx calls the filter for data that has arrived, and a callback once   *)
(* started runs to its end.                                                *)
FairSpec == Spec /\ WF_vars(Pump) /\ WF_vars(OnData)
-------------------------------------------------------------------------------
(* The session's subscription count is the number of ids it has open, and  *)
(* stays within SHIELD_WS_MAX_SUBS: inspect() keeps subs and subCount      *)
(* apart, and adjusts the one only if the other changed.                   *)
SubsAccounted == subCount = Cardinality(subs) /\ subCount <= cfg.maxSubs

(* Between callbacks no frame that could be decided sits in the buffers:   *)
(* onData() calls pump() only when `need' bytes are there, so a `need' set *)
(* too high anywhere would leave a complete message, or a refusable header,*)
(* waiting for bytes that do not come.                                     *)
DecideAt(f) ==
    IF EarlyFault(f) THEN 2
    ELSE IF HeaderRule(f) # "none" THEN HeadLen(f) ELSE Size(f)

PromptDecision ==
    pc = "idle" /\ mode = "ws" /\ ~killed /\ wire # <<>>
        => acc + pendingLen < DecideAt(Head(wire))

(* Between callbacks the unparsed bytes an open session holds are less     *)
(* than one maximal frame, and what is held of a message is within its     *)
(* limits, whatever the client sends and however it is cut into reads:     *)
(* need is set only after the header has been checked.                     *)
LongestPayload == IF cfg.maxMsg > MAX_CONTROL THEN cfg.maxMsg ELSE MAX_CONTROL

HeldBytesBounded ==
    pc = "idle" /\ mode = "ws" /\ ~killed =>
        /\ acc + pendingLen < 10 + 4 + LongestPayload
        /\ Len(msgText) = msgLen /\ msgLen <= cfg.maxMsg
        /\ nParts <= Len(pending) /\ Len(pending) <= MAX_PENDING_FRAMES

(* Frame i of the first n consumed can be released with them: if it is     *)
(* data, its message ends among them, in a frame that inspect() passed.    *)
Released(i, n) ==
    \/ consumed[i].op \in Control
    \/ \E j \in i .. n :
          /\ j \in passed
          /\ \A h \in i .. j - 1 : consumed[h].op \in Control \/ ~consumed[h].fin

(* What the relay gets of a WebSocket session: the handshake head, then a  *)
(* prefix of the client's frames, in order, none lost or repeated, each    *)
(* belonging to a message that was inspected whole and passed, then at     *)
(* most an end of stream or the engine's Close, and nothing after it.      *)
RelayGets(n, last) == up = <<HeadItem>> \o SubSeq(consumed, 1, n) \o last

OnlyApprovedUpstream ==
    mode = "ws" =>
        \E n \in 0 .. Len(consumed) :
            /\ \A i \in 1 .. n : Released(i, n)
            /\ \/ RelayGets(n, <<>>) \/ RelayGets(n, <<EofItem>>)
               \/ killed /\ RelayGets(n, <<ShieldClose>>)
               \/ killed /\ RelayGets(n, <<EofItem, ShieldClose>>)

(* A killed session logged exactly one verdict, an open one none: what     *)
(* fail2ban counts is one line per cut session, however many callbacks and *)
(* exceptions follow.                                                      *)
OneVerdictPerCut == Len(verdicts) = IF killed THEN 1 ELSE 0

(* A connected node that is banned gets no more bytes of a WebSocket       *)
(* session through once the recheck interval has passed: the cached        *)
(* deadline banCheckAt never postpones the check beyond it.                *)
BanCutsWithinRecheck ==
    [][up' # up /\ Last(up') # ShieldClose /\ mode = "ws" /\ cfg.banFile
           /\ cfg.banRecheck > 0 /\ banned
          => now < bannedSince + cfg.banRecheck]_vars

(* Every frame the client has sent whole is decided: forwarded, or the     *)
(* session is closed.  No cut of the stream into reads stalls the parser.  *)
EveryFrameDecided ==
    wire # <<>> /\ mode # "plain" ~> killed \/ mode = "plain" \/ wire = <<>>
-------------------------------------------------------------------------------
(* The relay's end of the connection: what an RFC 6455 endpoint            *)
(* reassembles from the bytes the engine let through.                      *)
RelayStep(r, item) ==
    CASE item.op \notin {"text", "cont"} -> r
      [] item.op = "text" /\ r.open -> [r EXCEPT !.confused = TRUE]
      [] item.op = "cont" /\ ~r.open -> [r EXCEPT !.confused = TRUE]
      [] OTHER ->
           IF item.fin
           THEN [r EXCEPT !.open = FALSE, !.text = <<>>,
                          !.msgs = Append(@, r.text \o item.payload)]
           ELSE [r EXCEPT !.open = TRUE, !.text = @ \o item.payload]

RelayAfter(items) ==
    LET after[i \in 0 .. Len(items)] ==
            IF i = 0
            THEN [open |-> FALSE, text |-> <<>>, msgs |-> <<>>, confused |-> FALSE]
            ELSE RelayStep(after[i - 1], items[i])
    IN  after[Len(items)]
Relay == RelayAfter(up)

(* The relay reassembles, message for message, exactly the texts that      *)
(* passed inspect(), and is never left inside a message: fragments are     *)
(* released together, control frames do not overtake them, and a refused   *)
(* message takes none of its fragments upstream (shield_ws.js header: "a   *)
(* rejected message is never seen by the upstream").                       *)
RelayReassembles ==
    pc = "idle" => LET r == Relay
                   IN  r.msgs = approved /\ ~r.open /\ ~r.confused

(* The texts the policy allows: an allowed type, an event of an allowed    *)
(* kind, a query within its budget under a usable subscription id.         *)
Allowed(m) ==
    /\ m.nostr /\ m.t \in cfg.types
    /\ m.t = "EVENT" => m.event /\ m.kind \notin cfg.kindDeny
    /\ m.t \in {"REQ", "COUNT", "NEG-OPEN"} => m.sid # "" /\ WithinBudget(m.filters)
AllowedTexts == {text \in DOMAIN Grammar : Allowed(Grammar[text])}

(* Every message the relay can reassemble is one the policy allows,        *)
(* NEG-OPEN included.                                                      *)
PolicyHolds == Range(Relay.msgs) \subseteq AllowedTexts

(* No more messages of a class reach the relay than its bucket pays for in *)
(* the life of the session: burst plus rate times time.                    *)
TextsOf(types) == {text \in DOMAIN Grammar : Grammar[text].t \in types}
EventTexts == TextsOf({"EVENT", "AUTH"})
QueryTexts == TextsOf({"REQ", "COUNT", "NEG-OPEN"})
CountOf(msgs, texts) == Cardinality({i \in DOMAIN msgs : msgs[i] \in texts})
RatesHold ==
    LET msgs == Relay.msgs IN
    /\ Len(msgs) * Token <= cfg.msgBurst * Token + now * cfg.msgRate
    /\ CountOf(msgs, EventTexts) * Token
          <= cfg.eventBurst * Token + now * cfg.eventRate
    /\ CountOf(msgs, QueryTexts) * Token
          <= cfg.reqBurst * Token + now * cfg.reqRate
===============================================================================
