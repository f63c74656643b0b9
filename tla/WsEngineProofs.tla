---------------------------- MODULE WsEngineProofs ----------------------------
(***************************************************************************)
(* One session of the WebSocket engine, for every policy, every set of     *)
(* frames and every way the client's bytes are cut into reads: what the    *)
(* relay gets, what is held back and for how long, and how a session ends. *)
(***************************************************************************)
EXTENDS WsEngine, WsLemmas

(* The types. *)
Sendable == Frames \cup {HeadItem, RawItem, ShieldClose, EofItem}

EngineTypes ==
    /\ pc \in {"idle", "pump"} /\ mode \in {"handshake", "ws", "plain"}
    /\ killed \in BOOLEAN /\ eof \in BOOLEAN /\ inMsg \in BOOLEAN /\ banned \in BOOLEAN
    /\ hsLeft \in Nat /\ unread \in Nat /\ acc \in Nat /\ pendingLen \in Nat
    /\ need \in Nat /\ nParts \in Nat /\ msgLen \in Nat /\ now \in Nat
    /\ bannedSince \in Nat /\ banCheckAt \in Nat /\ subCount \in Nat
    /\ wire \in Seq(Frames) /\ pending \in Seq(Frames) /\ consumed \in Seq(Frames)
    /\ msgText \in Seq(Symbols) /\ up \in Seq(Sendable)

(* Who may be where: a killed session is between callbacks, pump() runs in *)
(* WebSocket mode only and with no segment held back, the client's end of  *)
(* stream comes last, and before the handshake is decided nothing of the   *)
(* session has been looked at or sent on.                                  *)
Course ==
    /\ killed => pc = "idle"
    /\ pc = "pump" => mode = "ws" /\ pendingLen = 0
    /\ ~killed /\ eof => pc = "idle" /\ hsLeft + unread = 0
    /\ ~killed /\ mode # "ws" =>
          /\ consumed = <<>> /\ pending = <<>> /\ msgText = <<>> /\ msgLen = 0
          /\ ~inMsg /\ acc = 0 /\ pendingLen = 0
    /\ ~killed /\ mode = "handshake" => hsLeft > 0 /\ up = <<>>

(* The message in progress is within its limits, and outside of a message  *)
(* nothing is held.                                                        *)
Assembly ==
    ~killed => /\ Len(msgText) = msgLen /\ msgLen <= cfg.maxMsg
               /\ nParts <= Len(pending) /\ Len(pending) <= MAX_PENDING_FRAMES
               /\ ~inMsg => pending = <<>>

(* Between callbacks there are fewer bytes than pump() waits for, and it   *)
(* waits for no more than the decision takes.                              *)
Waiting ==
    ~killed /\ pc = "idle" /\ mode = "ws" =>
        /\ acc + pendingLen < need /\ need <= 10 + 4 + LongestPayload
        /\ wire = <<>> => need = 2
        /\ \A f \in Frames : wire # <<>> /\ f = Head(wire) => need <= DecideAt(f)

(* The recheck is never due later than an interval after a ban, and a      *)
(* callback that got to pump() was not past it.                            *)
Recheck ==
    /\ banCheckAt <= now + cfg.banRecheck
    /\ ~killed /\ banned => banCheckAt <= bannedSince + cfg.banRecheck
    /\ pc = "pump" /\ cfg.banFile /\ cfg.banRecheck > 0 /\ banned
          => now < bannedSince + cfg.banRecheck

(* Some n of the frames an open session has consumed have been sent on,    *)
(* the others are the ones it holds, and no message ends among those.      *)
Split(n) ==
    /\ n \in 0 .. Len(consumed)
    /\ pending = SubSeq(consumed, n + 1, Len(consumed))
    /\ RelayGets(n, IF eof THEN <<EofItem>> ELSE <<>>)
    /\ \A i \in 1 .. n : Released(i, n)
    /\ \A h \in n + 1 .. Len(consumed) : consumed[h].op \in Control \/ ~consumed[h].fin

Tally == /\ ~killed /\ mode = "ws" => \E n \in Nat : Split(n)
         /\ killed => OnlyApprovedUpstream

Ids == IsFiniteSet(subs) /\ SubsAccounted

-------------------------------------------------------------------------------
(* The constants. *)
LEMMA CfgFacts ==
    /\ cfg.maxMsg \in Nat /\ cfg.maxSubs \in Nat /\ cfg.banRecheck \in Nat
    /\ cfg.maxHsReads \in Nat /\ cfg.maxMsgReads \in Nat
    /\ MAX_PENDING_FRAMES \in Nat /\ MAX_CONTROL \in Nat /\ HsLen \in Nat \ {0}
BY EngineAssumption

(* A frame's length: header, mask and payload. *)
LEMMA FrameFacts ==
    ASSUME NEW f \in Frames
    PROVE  /\ f \in Frame /\ f.payload \in Seq(Symbols) /\ Len(f.payload) \in Nat
           /\ HeadLen(f) \in 2 .. 10 /\ Size(f) \in Nat
           /\ Size(f) = HeadLen(f) + 4 + Len(f.payload) /\ f.op \in Ops
<1>1. f \in Frame
  BY FramesAssumption
<1>2. f.payload \in Seq(Symbols) /\ f.op \in Ops
  BY <1>1 DEF Frame
<1>3. Len(f.payload) \in Nat
  BY <1>2
<1>4. HeadLen(f) \in 2 .. 10
  BY DEF HeadLen
<1> QED
  BY <1>1, <1>2, <1>3, <1>4 DEF Size

(* A read takes what is there, the rest of the head first. *)
LEMMA ReadFacts ==
    ASSUME EngineTypes, NEW k \in Reads
    PROVE  k \in Nat \ {0} /\ k <= hsLeft + unread
<1>1. hsLeft \in Nat /\ unread \in Nat
  BY DEF EngineTypes
<1>2. ReadSizes \subseteq Nat \ {0}
  BY EngineAssumption
<1> QED
  BY <1>1, <1>2 DEF Reads, Available

(* What is left of the head and of the frames after a read. *)
LEMMA ArriveFacts ==
    ASSUME EngineTypes, NEW k \in Reads, Arrive(k)
    PROVE  /\ hsLeft' \in Nat /\ unread' \in Nat
           /\ hsLeft' = 0 => k - hsLeft \in Nat
<1>1. hsLeft \in Nat /\ unread \in Nat /\ k \in Nat /\ k <= hsLeft + unread
  BY ReadFacts DEF EngineTypes
<1> QED
  BY <1>1 DEF Arrive, Least

-------------------------------------------------------------------------------
(* A session is open, is being cut, or has been cut.  Once cut, nothing    *)
(* more of it changes but what is read and thrown away, and what the relay *)
(* sends.                                                                  *)
Frozen ==
    UNCHANGED <<pc, mode, killed, wire, acc, pendingLen, need, msgText, pending, nParts, msgLen,
                inMsg, subs, subCount, now, banVars, up, histVars, verdicts>>

(* After the cut, onData returns at once and pump() does not loop          *)
(* (shield_ws.js:488, :379).                                               *)
LEMMA FrozenStep ==
    ASSUME EngineTypes, Course, killed, [Next]_vars
    PROVE  Frozen /\ hsLeft' \in Nat /\ unread' \in Nat /\ eof' \in BOOLEAN
<1> USE DEF Frozen
<1>0. pc = "idle" /\ hsLeft \in Nat /\ unread \in Nat /\ eof \in BOOLEAN
  BY DEF Course, EngineTypes
<1>1. ~Pump
  BY DEF Pump, PumpWait, PumpReject, PumpPendingFlood, PumpControl, PumpFragmentFlood,
         PumpFragment, PumpMessage, DataReady, FrameReady
<1>2. ~(OnDataBanned \/ OnDataPlain \/ OnDataHandshake \/ OnDataWs \/ OnDataEof)
  BY DEF OnDataBanned, OnDataPlain, OnDataHandshake, OnDataWs, OnDataEof, Callback
<1>3. ~(UpstreamThrows \/ DownstreamThrows)
  BY DEF UpstreamThrows, DownstreamThrows, violate
<1>4. ~(ClientSend \/ Tick \/ BanChange)
  BY DEF ClientSend, Tick, BanChange
<1>5. CASE OnDataKilled
  <2>1. Frozen
    BY <1>5 DEF OnDataKilled, msgVars, limitVars, banVars, histVars
  <2>2. hsLeft' \in Nat /\ unread' \in Nat
    BY <1>0, <1>5 DEF OnDataKilled
  <2>3. eof' \in BOOLEAN
    BY <1>0, <1>5, Zenon DEF OnDataKilled
  <2> QED
    BY <2>1, <2>2, <2>3
<1>6. CASE Downstream
  <2>1. UNCHANGED <<killed, pc, pending, msgText, nParts, pendingLen, verdicts, up>>
    BY <1>6 DEF Downstream, violate
  <2>2. UNCHANGED <<mode, hsVars, wire, unread, acc, need, msgReads, msgLen, inMsg,
                    limitVars, now, banVars, eof, histVars>>
    BY <1>6 DEF Downstream
  <2> QED
    BY <1>0, <2>1, <2>2 DEF hsVars, limitVars
<1>7. CASE UNCHANGED vars
  BY <1>0, <1>7 DEF vars, hsVars, byteVars, msgVars, limitVars, banVars, histVars
<1> QED
  BY <1>1, <1>2, <1>3, <1>4, <1>5, <1>6, <1>7 DEF Next, OnData

(* The cut itself. *)
Cut ==
    /\ killed' \in BOOLEAN
    /\ pc' = "idle" /\ mode' = mode /\ pending' = <<>> /\ msgText' = <<>> /\ nParts' = 0
    /\ pendingLen' = 0 /\ (\E x : verdicts' = Append(verdicts, x))
    /\ up' \in {up, Append(up, ShieldClose)}
    /\ consumed' = consumed \/ \E f \in Frames : consumed' = Append(consumed, f)
    /\ UNCHANGED <<approved, passed, subs, subCount, now, banned, bannedSince>>
    /\ banCheckAt' \in {banCheckAt, now + cfg.banRecheck}
    /\ hsLeft' \in Nat /\ unread' \in Nat /\ acc' \in Nat /\ need' \in Nat
    /\ wire' \in Seq(Frames) /\ msgLen' \in Nat /\ inMsg' \in BOOLEAN /\ eof' \in BOOLEAN

(* The step that ends an open session is a cut: one verdict, the closing   *)
(* frames, and what was held dropped.                                      *)
LEMMA CutStep ==
    ASSUME EngineTypes, ~killed, killed', [Next]_vars
    PROVE  Cut
<1>0. /\ hsLeft \in Nat /\ unread \in Nat /\ acc \in Nat /\ need \in Nat
      /\ wire \in Seq(Frames) /\ msgLen \in Nat /\ inMsg \in BOOLEAN /\ eof \in BOOLEAN
  BY DEF EngineTypes
<1>1. ASSUME NEW rule, NEW detail, NEW dir, violate(rule, detail, dir)
      PROVE  /\ pc' = "idle" /\ pending' = <<>> /\ msgText' = <<>> /\ nParts' = 0
             /\ pendingLen' = 0 /\ (\E x : verdicts' = Append(verdicts, x))
             /\ up' \in {up, Append(up, ShieldClose)} /\ killed' \in BOOLEAN
  <2>1. killed' \in BOOLEAN
    BY <1>1, Zenon DEF violate
  <2> QED
    BY <1>1, <2>1 DEF violate
<1>2. ASSUME NEW f, FrameReady(f), TakeFrame(f)
      PROVE  /\ f \in Frames => acc' \in Nat
             /\ need' \in Nat /\ wire' \in Seq(Frames) /\ unread' = unread
             /\ consumed' = Append(consumed, f)
  <2>1. wire # <<>> /\ wire' = Tail(wire) /\ acc' = acc - Size(f) /\ acc >= Size(f)
        /\ need' = 2 /\ unread' = unread /\ consumed' = Append(consumed, f)
    BY <1>2 DEF FrameReady, TakeFrame
  <2>2. f \in Frames => acc' \in Nat
    BY <1>0, <2>1, FrameFacts
  <2> QED
    BY <1>0, <2>1, <2>2
<1>3. ASSUME NEW rule, NEW detail, PumpViolate(rule, detail)
      PROVE  /\ violate(rule, detail, "upstream") /\ mode' = mode /\ hsLeft' = hsLeft
             /\ msgLen' = msgLen /\ inMsg' = inMsg /\ now' = now /\ eof' = eof
             /\ UNCHANGED <<banned, bannedSince, banCheckAt>>
  BY <1>3 DEF PumpViolate, hsVars, banVars
<1>4. CASE PumpReject
  <2>1. \E rule : PumpViolate(rule, "frame")
    BY <1>4 DEF PumpReject
  <2>2. UNCHANGED <<wire, unread, acc, need, subs, subCount, approved, passed, consumed>>
    BY <1>4 DEF PumpReject, limitVars, histVars
  <2> QED
    BY <1>0, <1>1, <1>3, <2>1, <2>2 DEF Cut
<1>5. CASE PumpPendingFlood \/ PumpFragmentFlood
  <2>1. PICK f \in Frames : /\ FrameReady(f) /\ TakeFrame(f)
                            /\ \E d : PumpViolate("frame-flood", d)
                            /\ UNCHANGED <<subs, subCount, approved, passed>>
    BY <1>5 DEF PumpPendingFlood, PumpFragmentFlood, DataReady, limitVars
  <2> QED
    BY <1>0, <1>1, <1>2, <1>3, <2>1 DEF Cut
<1>6. CASE PumpMessage
  <2>1. PICK f \in Frames :
          /\ FrameReady(f) /\ TakeFrame(f) /\ msgLen' = 0 /\ inMsg' = FALSE
          /\ \/ killed' = killed
             \/ /\ \E rule : violate(rule, "message", "upstream")
                /\ UNCHANGED <<subs, subCount, approved, passed>>
          /\ UNCHANGED <<mode, hsVars, now, banVars, checkedResponse, eof>>
    BY <1>6 DEF PumpMessage, DataReady
  <2>2. /\ \E rule : violate(rule, "message", "upstream")
        /\ UNCHANGED <<subs, subCount, approved, passed, mode, hsLeft, now, banned, bannedSince,
                       banCheckAt, eof>>
    BY <2>1 DEF hsVars, banVars
  <2>3. msgLen' \in Nat /\ inMsg' \in BOOLEAN
    BY <2>1
  <2> QED
    BY <1>0, <1>1, <1>2, <2>1, <2>2, <2>3 DEF Cut
<1>7. CASE OnDataBanned
  <2>1. /\ violate("banned", "session-cut", "upstream") /\ mode' = mode
        /\ UNCHANGED <<wire, acc, need, msgLen, inMsg, subs, subCount, now, banned,
                       bannedSince, approved, passed, consumed>>
        /\ banCheckAt' = now + cfg.banRecheck
    BY <1>7 DEF OnDataBanned, limitVars, histVars
  <2>2. hsLeft' \in Nat /\ unread' \in Nat /\ eof' \in BOOLEAN
    BY <1>0, <1>7, ArriveFacts DEF OnDataBanned
  <2> QED
    BY <1>0, <1>1, <2>1, <2>2 DEF Cut
<1>8. CASE OnDataHandshake
  <2>1. PICK k \in Reads :
          /\ Arrive(k)
          /\ (\E rule, detail : HandshakeRefused(rule, detail))
               \/ HandshakeWaits \/ HandshakeDone(k - hsLeft)
    BY <1>8 DEF OnDataHandshake
  <2>2. (\E rule, detail : violate(rule, detail, "upstream")) /\ UNCHANGED <<mode, acc>>
    BY <2>1 DEF HandshakeRefused, HandshakeWaits, HandshakeDone
  <2>3. hsLeft' \in Nat /\ unread' \in Nat
    BY <2>1, ArriveFacts
  <2>4. /\ UNCHANGED <<wire, need, msgLen, inMsg, subs, subCount, now, eof, approved, passed, consumed,
                       banned, bannedSince>>
        /\ banCheckAt' \in {banCheckAt, now + cfg.banRecheck}
    BY <1>8 DEF OnDataHandshake, RecheckPasses, limitVars, histVars
  <2> QED
    BY <1>0, <1>1, <2>2, <2>3, <2>4 DEF Cut
<1>9. CASE OnDataWs
  <2>1. PICK k \in Reads :
          /\ Arrive(k)
          /\ \/ violate("frame-flood", "message-drip", "upstream") /\ UNCHANGED acc
             \/ killed' = killed
    BY <1>9 DEF OnDataWs
  <2>2. hsLeft' \in Nat /\ unread' \in Nat
    BY <2>1, ArriveFacts
  <2>3. /\ UNCHANGED <<mode, wire, need, msgLen, inMsg, subs, subCount, now, eof, approved, passed,
                       consumed, banned, bannedSince>>
        /\ banCheckAt' \in {banCheckAt, now + cfg.banRecheck}
    BY <1>9 DEF OnDataWs, RecheckPasses, limitVars, histVars
  <2> QED
    BY <1>0, <1>1, <2>1, <2>2, <2>3 DEF Cut
<1>10. CASE UpstreamThrows
  <2>1. /\ violate("engine-error", "exception", "upstream")
        /\ UNCHANGED <<mode, wire, acc, need, msgLen, inMsg, subs, subCount, now, eof, approved, passed,
                       consumed, banned, bannedSince, banCheckAt>>
    BY <1>10 DEF UpstreamThrows, limitVars, histVars, banVars
  <2>2. hsLeft' \in Nat /\ unread' \in Nat
    BY <1>0, <1>10, ArriveFacts DEF UpstreamThrows
  <2> QED
    BY <1>0, <1>1, <2>1, <2>2 DEF Cut
<1>11. CASE Downstream \/ DownstreamThrows
  <2>1. /\ UNCHANGED <<mode, hsLeft, wire, unread, acc, need, msgLen, inMsg, subs, subCount,
                       now, eof, approved, passed, consumed, banned, bannedSince, banCheckAt>>
    BY <1>11 DEF Downstream, DownstreamThrows, hsVars, limitVars, histVars, banVars
  <2>2. \E rule, detail : violate(rule, detail, "downstream")
    BY <1>11 DEF Downstream, DownstreamThrows
  <2> QED
    BY <1>0, <1>1, <2>1, <2>2 DEF Cut
<1>12. ~(PumpWait \/ PumpControl \/ PumpFragment \/ OnDataPlain \/ OnDataEof \/ OnDataKilled
         \/ ClientSend \/ Tick \/ BanChange \/ UNCHANGED vars)
  BY DEF PumpWait, PumpControl, PumpFragment, OnDataPlain, OnDataEof, OnDataKilled,
         ClientSend, Tick, BanChange, vars
<1> QED
  BY <1>4, <1>5, <1>6, <1>7, <1>8, <1>9, <1>10, <1>11, <1>12 DEF Next, Pump, OnData

(* The steps of an open session, each with what it leaves alone. *)
HoldsHandshake(k) ==
    /\ Callback /\ mode = "handshake" /\ Arrive(k) /\ RecheckPasses /\ hsLeft' > 0
    /\ UNCHANGED <<pc, mode, killed, wire, acc, pendingLen, need, msgText, pending, nParts,
                   msgLen, inMsg, limitVars, now, eof, up, histVars, verdicts>>

GoesWs(k) ==
    /\ Callback /\ mode = "handshake" /\ Arrive(k) /\ RecheckPasses /\ hsLeft' = 0
    /\ mode' = "ws" /\ acc' = k - hsLeft /\ pc' = "pump" /\ up' = Append(up, HeadItem)
    /\ UNCHANGED <<killed, wire, pendingLen, need, msgText, pending, nParts,
                   msgLen, inMsg, limitVars, now, eof, histVars, verdicts>>

GoesPlain(k) ==
    /\ Callback /\ mode = "handshake" /\ Arrive(k) /\ RecheckPasses
    /\ mode' = "plain" /\ up' \in {up \o <<HeadItem, RawItem>>, up \o <<HeadItem>>}
    /\ UNCHANGED <<pc, killed, wire, acc, pendingLen, need, msgText, pending, nParts,
                   msgLen, inMsg, limitVars, now, eof, histVars, verdicts>>

HoldsSegment(k) ==
    /\ Callback /\ mode = "ws" /\ Arrive(k) /\ RecheckPasses
    /\ TooFew(k) /\ pendingLen' = pendingLen + k
    /\ UNCHANGED <<pc, mode, killed, wire, acc, need, msgText, pending, nParts,
                   msgLen, inMsg, limitVars, now, eof, up, histVars, verdicts>>

StartsPump(k) ==
    /\ Callback /\ mode = "ws" /\ Arrive(k) /\ RecheckPasses
    /\ acc' = acc + pendingLen + k /\ pendingLen' = 0 /\ pc' = "pump"
    /\ UNCHANGED <<mode, killed, wire, need, msgText, pending, nParts,
                   msgLen, inMsg, limitVars, now, eof, up, histVars, verdicts>>

PassesMessage(f) ==
    /\ DataReady(f) /\ f.fin /\ msgLen' = 0 /\ inMsg' = FALSE
    /\ LET text == msgText \o f.payload IN
       /\ \E lost \in Rounding : ChargeBuckets(text, lost) /\ inspectRule(text, lost) = "none"
       /\ AccountSubs(text)
       /\ approved' = Append(approved, text)
    /\ passed' = passed \cup {Len(consumed')} /\ up' = up \o Append(pending, f)
    /\ pending' = <<>> /\ msgText' = <<>> /\ nParts' = 0
    /\ UNCHANGED <<pc, mode, killed, hsLeft, pendingLen, now, banVars, eof, verdicts>>

Idles ==
    UNCHANGED <<pc, mode, killed, hsLeft, unread, wire, acc, pendingLen, need, msgText, pending,
                nParts, msgLen, inMsg, limitVars, now, banVars, eof, up, histVars, verdicts>>

OpenStep ==
    \/ PumpWait \/ PumpControl \/ PumpFragment \/ (\E f \in Frames : PassesMessage(f))
    \/ OnDataPlain \/ OnDataEof \/ ClientSend \/ Tick \/ BanChange \/ Idles
    \/ \E k \in Reads : \/ HoldsHandshake(k) \/ GoesWs(k) \/ GoesPlain(k)
                        \/ HoldsSegment(k) \/ StartsPump(k)

(* Every other step of an open session is of one of the kinds of           *)
(* OpenStep.                                                               *)
LEMMA OpenSteps ==
    ASSUME EngineTypes, ~killed, ~killed', [Next]_vars
    PROVE  OpenStep
<1>0. hsLeft \in Nat
  BY DEF EngineTypes
<1>1. \A rule, detail, dir : ~violate(rule, detail, dir)
  BY DEF violate
<1>2. ~(PumpReject \/ PumpPendingFlood \/ PumpFragmentFlood \/ OnDataBanned \/ UpstreamThrows
        \/ DownstreamThrows \/ OnDataKilled)
  BY <1>1 DEF PumpReject, PumpPendingFlood, PumpFragmentFlood, OnDataBanned, UpstreamThrows,
              DownstreamThrows, OnDataKilled, PumpViolate
<1>3. CASE PumpMessage
  <2>1. PICK f \in Frames, lost \in Rounding :
        /\ DataReady(f) /\ f.fin
        /\ msgLen' = 0 /\ inMsg' = FALSE
        /\ LET text == msgText \o f.payload IN
           /\ ChargeBuckets(text, lost)
           /\ \/ /\ inspectRule(text, lost) = "none"
                 /\ AccountSubs(text)
                 /\ approved' = Append(approved, text)
                 /\ passed' = passed \cup {Len(consumed')}
                 /\ up' = up \o Append(pending, f)
                 /\ pending' = <<>> /\ msgText' = <<>> /\ nParts' = 0
                 /\ UNCHANGED <<pc, killed, pendingLen, down, verdicts>>
              \/ violate(inspectRule(text, lost), "message", "upstream")
        /\ UNCHANGED <<mode, hsVars, now, banVars, checkedResponse, eof>>
    BY <1>3 DEF PumpMessage
  <2>2. PassesMessage(f)
    BY <1>1, <2>1 DEF PassesMessage, hsVars
  <2> QED
    BY <2>2 DEF OpenStep
<1>4. CASE OnDataHandshake
  <2>1. PICK k \in Reads :
          /\ Arrive(k)
          /\ \/ hsLeft' > 0 /\ HandshakeWaits
             \/ hsLeft' = 0 /\ HandshakeDone(k - hsLeft)
    BY <1>1, <1>4 DEF OnDataHandshake, HandshakeRefused
  <2>2. /\ Callback /\ mode = "handshake" /\ RecheckPasses
        /\ UNCHANGED <<wire, need, msgLen, inMsg, limitVars, now, eof, histVars>>
    BY <1>4 DEF OnDataHandshake, limitVars
  <2>3. HoldsHandshake(k) \/ GoesWs(k) \/ GoesPlain(k)
    BY <2>1, <2>2 DEF HoldsHandshake, GoesWs, GoesPlain, HandshakeWaits, HandshakeDone
  <2> QED
    BY <2>3 DEF OpenStep
<1>5. CASE OnDataWs
  <2>1. PICK k \in Reads :
          /\ Arrive(k)
          /\ IF TooFew(k)
             THEN pendingLen' = pendingLen + k /\ UNCHANGED <<acc, pc>>
             ELSE /\ acc' = acc + pendingLen + k
                  /\ pendingLen' = 0 /\ pc' = "pump"
          /\ UNCHANGED <<killed, pending, msgText, nParts, up, down, verdicts>>
    BY <1>1, <1>5 DEF OnDataWs
  <2>2. /\ Callback /\ mode = "ws" /\ RecheckPasses
        /\ UNCHANGED <<mode, wire, need, msgLen, inMsg, limitVars, now, eof, histVars>>
    BY <1>5 DEF OnDataWs, limitVars
  <2>3. HoldsSegment(k) \/ StartsPump(k)
    BY <2>1, <2>2 DEF HoldsSegment, StartsPump
  <2> QED
    BY <2>3 DEF OpenStep
<1>6. CASE Downstream
  <2>1. UNCHANGED <<killed, pc, pending, msgText, nParts, pendingLen, verdicts, up>>
    BY <1>1, <1>6 DEF Downstream
  <2>2. Idles
    BY <1>6, <2>1 DEF Downstream, Idles, hsVars, limitVars
  <2> QED
    BY <2>2 DEF OpenStep
<1>7. CASE UNCHANGED vars
  <2>1. Idles
    BY <1>7 DEF vars, Idles, hsVars, byteVars, msgVars, limitVars
  <2> QED
    BY <2>1 DEF OpenStep
<1> QED
  BY <1>2, <1>3, <1>4, <1>5, <1>6, <1>7 DEF OpenStep, Next, Pump, OnData

-------------------------------------------------------------------------------
(* A frame taken off the buffer. *)
LEMMA TakeFacts ==
    ASSUME EngineTypes, NEW f \in Frames, FrameReady(f), TakeFrame(f)
    PROVE  /\ acc' \in Nat /\ need' \in Nat /\ wire' \in Seq(Frames) /\ unread' = unread
           /\ consumed' = Append(consumed, f) /\ consumed' \in Seq(Frames)
           /\ Append(pending, f) \in Seq(Frames) /\ pc = "pump"
<1>1. acc \in Nat /\ wire \in Seq(Frames) /\ consumed \in Seq(Frames) /\ pending \in Seq(Frames)
  BY DEF EngineTypes
<1>2. wire # <<>> /\ wire' = Tail(wire) /\ acc' = acc - Size(f) /\ acc >= Size(f)
      /\ need' = 2 /\ unread' = unread /\ consumed' = Append(consumed, f) /\ pc = "pump"
  BY DEF FrameReady, TakeFrame
<1>3. acc' \in Nat
  BY <1>1, <1>2, FrameFacts
<1> QED
  BY <1>1, <1>2, <1>3

(* What may be sent on. *)
LEMMA SendFacts ==
    /\ \A e \in {HeadItem, RawItem, ShieldClose, EofItem} : e \in Sendable
    /\ Seq(Frames) \subseteq Seq(Sendable)
<1>1. Frames \subseteq Sendable
  BY DEF Sendable
<1>2. ASSUME NEW s \in Seq(Frames) PROVE s \in Seq(Sendable)
  <2>1. s \in [1 .. Len(s) -> Sendable] /\ Len(s) \in Nat
    BY <1>1
  <2> QED
    BY <2>1
<1> QED
  BY <1>2 DEF Sendable

(* Two sequences joined, and one item more. *)
LEMMA JoinFacts ==
    ASSUME NEW S, NEW s \in Seq(S), NEW t \in Seq(S)
    PROVE  /\ s \o t \in Seq(S) /\ Len(s \o t) = Len(s) + Len(t)
           /\ \A e \in S : Append(s, e) \in Seq(S)
OBVIOUS

(* Types and course, while the session is open. *)
LEMMA CourseOpen ==
    ASSUME EngineTypes, Course, ~killed, ~killed', OpenStep
    PROVE  EngineTypes' /\ Course'
<1>a. killed' \in BOOLEAN
  <2>1. killed' = killed
    BY DEF OpenStep, PumpWait, PumpControl, PumpFragment, PassesMessage, OnDataPlain, OnDataEof,
           ClientSend, Tick, BanChange, Idles, HoldsHandshake, GoesWs, GoesPlain, HoldsSegment,
           StartsPump
  <2> QED
    BY <2>1 DEF EngineTypes
<1>0. /\ pc \in {"idle", "pump"} /\ mode \in {"handshake", "ws", "plain"}
      /\ eof \in BOOLEAN /\ inMsg \in BOOLEAN /\ banned \in BOOLEAN
      /\ hsLeft \in Nat /\ unread \in Nat /\ acc \in Nat /\ pendingLen \in Nat
      /\ need \in Nat /\ nParts \in Nat /\ msgLen \in Nat /\ now \in Nat
      /\ bannedSince \in Nat /\ banCheckAt \in Nat /\ subCount \in Nat
      /\ wire \in Seq(Frames) /\ pending \in Seq(Frames) /\ consumed \in Seq(Frames)
      /\ msgText \in Seq(Symbols) /\ up \in Seq(Sendable)
  BY DEF EngineTypes
<1>1. /\ pc = "pump" => mode = "ws" /\ pendingLen = 0
      /\ eof => pc = "idle" /\ hsLeft + unread = 0
      /\ mode # "ws" =>
          /\ consumed = <<>> /\ pending = <<>> /\ msgText = <<>> /\ msgLen = 0
          /\ ~inMsg /\ acc = 0 /\ pendingLen = 0
      /\ mode = "handshake" => hsLeft > 0 /\ up = <<>>
  BY DEF Course
<1>2. cfg.banRecheck \in Nat
  BY CfgFacts
<1>3. RecheckPasses => banCheckAt' \in Nat /\ banned' = banned /\ bannedSince' = bannedSince
  BY <1>0, <1>2 DEF RecheckPasses
<1>4. CASE PumpWait
  <2>1. need' \in Nat
    <3>1. CASE wire = <<>>
      BY <1>4, <3>1 DEF PumpWait
    <3>2. CASE wire # <<>>
      <4>1. Head(wire) \in Frames
        BY <1>0, <3>2
      <4>2. HeadLen(Head(wire)) \in Nat /\ Size(Head(wire)) \in Nat
        BY <4>1, FrameFacts
      <4> QED
        BY <1>4, <4>2 DEF PumpWait
    <3> QED
      BY <3>1, <3>2
  <2>2. /\ pc = "pump" /\ pc' = "idle"
        /\ UNCHANGED <<mode, hsLeft, unread, wire, acc, pendingLen, msgText, pending, nParts,
                       msgLen, inMsg, subCount, now, banned, bannedSince, banCheckAt, eof, up,
                       consumed>>
    BY <1>4 DEF PumpWait, hsVars, msgVars, limitVars, banVars, histVars
  <2>3. EngineTypes'
    BY <1>a, <1>0, <2>1, <2>2 DEF EngineTypes
  <2>4. Course'
    BY <1>1, <2>2 DEF Course
  <2> QED
    BY <2>3, <2>4
<1>5. CASE PumpControl
  <2>1. PICK f \in Frames :
          /\ FrameReady(f) /\ TakeFrame(f)
          /\ IF inMsg
             THEN pending' = Append(pending, f) /\ UNCHANGED up
             ELSE pending' = <<>> /\ up' = up \o Append(pending, f)
          /\ UNCHANGED <<pc, mode, hsLeft, pendingLen, msgText, nParts,
                       msgLen, inMsg, subCount, now, banned, bannedSince, banCheckAt, eof>>
    BY <1>5 DEF PumpControl, hsVars, limitVars, banVars
  <2>2. /\ acc' \in Nat /\ need' \in Nat /\ wire' \in Seq(Frames) /\ unread' = unread
        /\ consumed' \in Seq(Frames) /\ Append(pending, f) \in Seq(Frames) /\ pc = "pump"
    BY <2>1, TakeFacts
  <2>3. pending' \in Seq(Frames) /\ up' \in Seq(Sendable)
    <3>1. Append(pending, f) \in Seq(Sendable)
      BY <2>2, SendFacts
    <3>2. CASE inMsg
      BY <1>0, <2>1, <2>2, <3>2
    <3>3. CASE ~inMsg
      <4>1. pending' = <<>> /\ up' = up \o Append(pending, f)
        BY <2>1, <3>3
      <4>2. up \o Append(pending, f) \in Seq(Sendable)
        BY <1>0, <3>1, JoinFacts
      <4> QED
        BY <4>1, <4>2
    <3> QED
      BY <3>2, <3>3
  <2>4. EngineTypes'
    BY <1>a, <1>0, <2>1, <2>2, <2>3 DEF EngineTypes
  <2>5. Course'
    BY <1>1, <2>1, <2>2 DEF Course
  <2> QED
    BY <2>4, <2>5
<1>6. CASE PumpFragment
  <2>1. PICK f \in Frames :
          /\ FrameReady(f) /\ TakeFrame(f)
          /\ pending' = Append(pending, f) /\ msgText' = msgText \o f.payload
          /\ nParts' = nParts + 1 /\ msgLen' = msgLen + Len(f.payload) /\ inMsg' = TRUE
          /\ UNCHANGED <<pc, mode, hsLeft, pendingLen, up, subCount, now, banned, bannedSince,
                         banCheckAt, eof>>
    BY <1>6 DEF PumpFragment, DataReady, hsVars, limitVars, banVars
  <2>2. /\ acc' \in Nat /\ need' \in Nat /\ wire' \in Seq(Frames) /\ unread' = unread
        /\ consumed' \in Seq(Frames) /\ Append(pending, f) \in Seq(Frames) /\ pc = "pump"
    BY <2>1, TakeFacts
  <2>3. msgText' \in Seq(Symbols) /\ msgLen' \in Nat /\ nParts' \in Nat
    BY <1>0, <2>1, FrameFacts
  <2>4. inMsg' \in BOOLEAN
    BY <2>1, Zenon
  <2>5. EngineTypes'
    BY <1>a, <1>0, <2>1, <2>2, <2>3, <2>4 DEF EngineTypes
  <2>6. Course'
    BY <1>1, <2>1, <2>2 DEF Course
  <2> QED
    BY <2>5, <2>6
<1>7. ASSUME NEW f \in Frames, PassesMessage(f) PROVE EngineTypes' /\ Course'
  <2>1. /\ FrameReady(f) /\ TakeFrame(f) /\ msgLen' = 0 /\ inMsg' = FALSE
        /\ pending' = <<>> /\ msgText' = <<>> /\ nParts' = 0 /\ up' = up \o Append(pending, f)
        /\ UNCHANGED <<pc, mode, hsLeft, pendingLen, now, banned, bannedSince, banCheckAt, eof>>
    BY <1>7 DEF PassesMessage, DataReady, banVars
  <2>2. /\ acc' \in Nat /\ need' \in Nat /\ wire' \in Seq(Frames) /\ unread' = unread
        /\ consumed' \in Seq(Frames) /\ Append(pending, f) \in Seq(Frames) /\ pc = "pump"
    BY <2>1, TakeFacts
  <2>3. up' \in Seq(Sendable)
    <3>1. Append(pending, f) \in Seq(Sendable)
      BY <2>2, SendFacts
    <3> QED
      BY <1>0, <2>1, <3>1
  <2>4. subCount' \in Nat
    <3>1. AccountSubs(msgText \o f.payload)
      BY <1>7 DEF PassesMessage
    <3>2. subCount' \in {subCount, subCount + 1} \/ (subCount > 0 /\ subCount' = subCount - 1)
      BY <3>1 DEF AccountSubs
    <3> QED
      BY <1>0, <3>2
  <2>5. pending' \in Seq(Frames) /\ msgText' \in Seq(Symbols) /\ msgLen' \in Nat
        /\ nParts' \in Nat
    BY <2>1
  <2>6. inMsg' \in BOOLEAN
    BY <2>1, Zenon
  <2>7. EngineTypes'
    BY <1>a, <1>0, <2>1, <2>2, <2>3, <2>4, <2>5, <2>6 DEF EngineTypes
  <2>8. Course'
    BY <1>1, <2>1, <2>2 DEF Course
  <2> QED
    BY <2>7, <2>8
<1>8. ASSUME NEW k \in Reads, HoldsHandshake(k) \/ GoesWs(k) \/ GoesPlain(k) \/ HoldsSegment(k)
                                \/ StartsPump(k)
      PROVE  EngineTypes' /\ Course'
  <2>1. k \in Nat \ {0} /\ k <= hsLeft + unread
    BY ReadFacts
  <2>2. Arrive(k) /\ pc = "idle" /\ RecheckPasses
    BY <1>8 DEF HoldsHandshake, GoesWs, GoesPlain, HoldsSegment, StartsPump, Callback
  <2>3. hsLeft' \in Nat /\ unread' \in Nat /\ (hsLeft' = 0 => k - hsLeft \in Nat)
    BY <2>2, ArriveFacts
  <2>4. ~eof
    BY <1>0, <1>1, <2>1
  <2>5. /\ banCheckAt' \in Nat /\ banned' = banned /\ bannedSince' = bannedSince
        /\ UNCHANGED <<wire, need, msgText, pending, nParts, msgLen, inMsg, subCount, now, eof,
                       consumed>>
    BY <1>3, <1>8, <2>2 DEF HoldsHandshake, GoesWs, GoesPlain, HoldsSegment, StartsPump, histVars,
           limitVars
  <2>6. CASE HoldsHandshake(k)
    <3>1. UNCHANGED <<pc, mode, acc, pendingLen, up>> /\ hsLeft' > 0
      BY <2>6 DEF HoldsHandshake
    <3>2. EngineTypes'
      BY <1>a, <1>0, <2>3, <2>5, <3>1 DEF EngineTypes
    <3> QED
      BY <1>1, <2>2, <2>4, <2>5, <3>1, <3>2 DEF Course
  <2>7. CASE GoesWs(k)
    <3>1. /\ mode = "handshake" /\ mode' = "ws" /\ acc' = k - hsLeft /\ pc' = "pump"
          /\ up' = Append(up, HeadItem) /\ hsLeft' = 0 /\ UNCHANGED pendingLen
      BY <2>7 DEF GoesWs
    <3>2. up' \in Seq(Sendable)
      BY <1>0, <3>1, SendFacts
    <3>3. EngineTypes'
      BY <1>a, <1>0, <2>3, <2>5, <3>1, <3>2 DEF EngineTypes
    <3> QED
      BY <1>1, <2>4, <2>5, <3>1, <3>3 DEF Course
  <2>8. CASE GoesPlain(k)
    <3>1. /\ mode = "handshake" /\ mode' = "plain" /\ UNCHANGED <<pc, acc, pendingLen>>
          /\ up' \in {up \o <<HeadItem, RawItem>>, up \o <<HeadItem>>}
      BY <2>8 DEF GoesPlain
    <3>2. <<HeadItem, RawItem>> \in Seq(Sendable) /\ <<HeadItem>> \in Seq(Sendable)
      BY SendFacts
    <3>3. up' \in Seq(Sendable)
      <4>1. /\ up \o <<HeadItem, RawItem>> \in Seq(Sendable)
            /\ up \o <<HeadItem>> \in Seq(Sendable)
        BY <1>0, <3>2, JoinFacts
      <4> QED
        BY <3>1, <4>1
    <3>4. EngineTypes'
      BY <1>a, <1>0, <2>3, <2>5, <3>1, <3>3 DEF EngineTypes
    <3> QED
      BY <1>1, <2>2, <2>4, <2>5, <3>1, <3>4 DEF Course
  <2>9. CASE HoldsSegment(k)
    <3>1. mode = "ws" /\ UNCHANGED <<pc, mode, acc, up>> /\ pendingLen' = pendingLen + k
      BY <2>9 DEF HoldsSegment
    <3>2. pendingLen' \in Nat
      BY <1>0, <2>1, <3>1
    <3>3. EngineTypes'
      BY <1>a, <1>0, <2>3, <2>5, <3>1, <3>2 DEF EngineTypes
    <3> QED
      BY <1>1, <2>2, <2>4, <2>5, <3>1, <3>3 DEF Course
  <2>10. CASE StartsPump(k)
    <3>1. /\ mode = "ws" /\ UNCHANGED <<mode, up>> /\ pendingLen' = 0 /\ pc' = "pump"
          /\ acc' = acc + pendingLen + k
      BY <2>10 DEF StartsPump
    <3>2. acc' \in Nat
      BY <1>0, <2>1, <3>1
    <3>3. EngineTypes'
      BY <1>a, <1>0, <2>3, <2>5, <3>1, <3>2 DEF EngineTypes
    <3> QED
      BY <1>1, <2>4, <2>5, <3>1, <3>3 DEF Course
  <2> QED
    BY <1>8, <2>6, <2>7, <2>8, <2>9, <2>10
<1>9. CASE OnDataPlain
  <2>1. PICK k \in Reads : Arrive(k)
    BY <1>9 DEF OnDataPlain
  <2>2. /\ mode = "plain" /\ pc = "idle" /\ up' = Append(up, RawItem)
        /\ UNCHANGED <<pc, mode, wire, acc, pendingLen, need, msgText, pending, nParts,
                       msgLen, inMsg, subCount, now, banned, bannedSince, banCheckAt, eof,
                       consumed>>
    BY <1>9 DEF OnDataPlain, Callback, msgVars, limitVars, banVars, histVars
  <2>3. hsLeft' \in Nat /\ unread' \in Nat
    BY <2>1, ArriveFacts
  <2>4. k \in Nat \ {0} /\ k <= hsLeft + unread
    BY ReadFacts
  <2>5. ~eof
    BY <1>0, <1>1, <2>4
  <2>6. up' \in Seq(Sendable)
    BY <1>0, <2>2, SendFacts
  <2>7. EngineTypes'
    BY <1>a, <1>0, <2>2, <2>3, <2>6 DEF EngineTypes
  <2> QED
    BY <1>1, <2>2, <2>5, <2>7 DEF Course
<1>10. CASE OnDataEof
  <2>1. /\ pc = "idle" /\ hsLeft + unread = 0 /\ eof' = TRUE /\ up' = Append(up, EofItem)
        /\ UNCHANGED <<pc, mode, hsLeft, unread, wire, acc, pendingLen, need, msgText, pending,
                       nParts, msgLen, inMsg, subCount, now, consumed>>
        /\ RecheckPasses
    BY <1>10 DEF OnDataEof, Callback, Available, hsVars, byteVars, msgVars, limitVars, histVars
  <2>2. up' \in Seq(Sendable)
    BY <1>0, <2>1, SendFacts
  <2>3. eof' \in BOOLEAN
    BY <2>1, Zenon
  <2>4. EngineTypes'
    BY <1>a, <1>0, <1>3, <2>1, <2>2, <2>3 DEF EngineTypes
  <2>5. mode # "handshake"
    BY <1>0, <1>1, <2>1
  <2> QED
    BY <1>0, <1>1, <2>1, <2>4, <2>5 DEF Course
<1>11. CASE ClientSend
  <2>1. PICK f \in Frames : wire' = Append(wire, f) /\ unread' = unread + Size(f)
    BY <1>11 DEF ClientSend
  <2>2. /\ ~eof
        /\ UNCHANGED <<pc, mode, hsLeft, acc, pendingLen, need, msgText, pending, nParts,
                       msgLen, inMsg, subCount, now, banned, bannedSince, banCheckAt, eof, up,
                       consumed>>
    BY <1>11 DEF ClientSend, hsVars, msgVars, limitVars, banVars, histVars
  <2>3. wire' \in Seq(Frames) /\ unread' \in Nat
    BY <1>0, <2>1, FrameFacts
  <2>4. EngineTypes'
    BY <1>a, <1>0, <2>2, <2>3 DEF EngineTypes
  <2> QED
    BY <1>1, <2>2, <2>4 DEF Course
<1>12. CASE Tick \/ BanChange \/ Idles
  <2>1. UNCHANGED <<pc, mode, hsLeft, unread, wire, acc, pendingLen, need, msgText, pending,
                    nParts, msgLen, inMsg, subCount, eof, up, consumed, banCheckAt>>
    BY <1>12 DEF Tick, BanChange, Idles, hsVars, byteVars, msgVars, limitVars, banVars, histVars
  <2>2. now' \in Nat /\ bannedSince' \in Nat
    <3>1. Ticks \subseteq Nat
      BY EngineAssumption
    <3>2. CASE Tick
      <4>1. PICK d \in Ticks : now' = now + d
        BY <3>2 DEF Tick
      <4>2. d \in Nat
        BY <3>1, <4>1
      <4>3. bannedSince' = bannedSince
        BY <3>2 DEF Tick, banVars
      <4> QED
        BY <1>0, <4>1, <4>2, <4>3
    <3>3. CASE BanChange
      BY <1>0, <3>3 DEF BanChange
    <3>4. CASE Idles
      BY <1>0, <3>4 DEF Idles, banVars
    <3> QED
      BY <1>12, <3>2, <3>3, <3>4
  <2>3. banned' \in BOOLEAN
    BY <1>0, <1>12 DEF Tick, BanChange, Idles, banVars
  <2>4. EngineTypes'
    BY <1>a, <1>0, <2>1, <2>2, <2>3 DEF EngineTypes
  <2> QED
    BY <1>1, <2>1, <2>4 DEF Course
<1> QED
  BY <1>4, <1>5, <1>6, <1>7, <1>8, <1>9, <1>10, <1>11, <1>12 DEF OpenStep

(* Types and course: every step. *)
LEMMA CourseStep ==
    ASSUME EngineTypes, Course, [Next]_vars
    PROVE  EngineTypes' /\ Course' /\ (killed' => killed \/ Cut) /\ (~killed' => OpenStep)
<1>1. CASE killed
  <2>1. Frozen /\ hsLeft' \in Nat /\ unread' \in Nat /\ eof' \in BOOLEAN
    BY <1>1, FrozenStep
  <2>2. EngineTypes'
    BY <2>1 DEF EngineTypes, Frozen, banVars, histVars
  <2> QED
    BY <1>1, <2>1, <2>2 DEF Course, Frozen
<1>2. CASE ~killed /\ killed'
  <2>1. Cut
    BY <1>2, CutStep
  <2>2. pending' \in Seq(Frames) /\ msgText' \in Seq(Symbols)
    BY <2>1 DEF Cut
  <2>3. consumed' \in Seq(Frames)
    <3>1. consumed \in Seq(Frames)
      BY DEF EngineTypes
    <3>2. consumed' = consumed \/ \E f \in Frames : consumed' = Append(consumed, f)
      BY <2>1 DEF Cut
    <3> QED
      BY <3>1, <3>2
  <2>4. up' \in Seq(Sendable)
    <3>1. up \in Seq(Sendable) /\ ShieldClose \in Sendable
      BY SendFacts DEF EngineTypes
    <3>2. Append(up, ShieldClose) \in Seq(Sendable)
      BY <3>1, JoinFacts
    <3> QED
      BY <2>1, <3>1, <3>2 DEF Cut
  <2>5. banCheckAt' \in Nat
    <3>1. now \in Nat /\ banCheckAt \in Nat /\ cfg.banRecheck \in Nat
      BY CfgFacts DEF EngineTypes
    <3> QED
      BY <2>1, <3>1 DEF Cut
  <2>6. /\ pc' = "idle" /\ mode' = mode /\ nParts' = 0 /\ pendingLen' = 0
        /\ UNCHANGED <<subCount, now, banned, bannedSince>> /\ killed' \in BOOLEAN
        /\ hsLeft' \in Nat /\ unread' \in Nat /\ acc' \in Nat /\ need' \in Nat
        /\ wire' \in Seq(Frames) /\ msgLen' \in Nat /\ inMsg' \in BOOLEAN /\ eof' \in BOOLEAN
    BY <2>1 DEF Cut
  <2>7. EngineTypes'
    BY <2>2, <2>3, <2>4, <2>5, <2>6 DEF EngineTypes
  <2> QED
    BY <1>2, <2>1, <2>6, <2>7 DEF Course
<1>3. CASE ~killed /\ ~killed'
  BY <1>3, OpenSteps, CourseOpen
<1> QED
  BY <1>1, <1>2, <1>3

-------------------------------------------------------------------------------
(* What an open session's steps leave alone: the verdicts, and but for a   *)
(* message that passes, the subscriptions.                                 *)
LEMMA OpenKeeps ==
    ASSUME OpenStep
    PROVE  /\ verdicts' = verdicts /\ killed' = killed
           /\ (\E f \in Frames : PassesMessage(f)) \/ UNCHANGED <<subs, subCount>>
<1> USE DEF limitVars
<1>1. CASE \E f \in Frames : PassesMessage(f)
  BY <1>1 DEF PassesMessage
<1>2. CASE PumpWait \/ PumpControl \/ PumpFragment
  BY <1>2 DEF PumpWait, PumpControl, PumpFragment
<1>3. CASE OnDataPlain \/ OnDataEof \/ ClientSend \/ Tick \/ BanChange \/ Idles
  BY <1>3 DEF OnDataPlain, OnDataEof, ClientSend, Tick, BanChange, Idles
<1>4. CASE \E k \in Reads : \/ HoldsHandshake(k) \/ GoesWs(k) \/ GoesPlain(k)
                            \/ HoldsSegment(k) \/ StartsPump(k)
  BY <1>4 DEF HoldsHandshake, GoesWs, GoesPlain, HoldsSegment, StartsPump
<1> QED
  BY <1>1, <1>2, <1>3, <1>4 DEF OpenStep

(* An open session has logged nothing, and only the cut logs a verdict. *)
Logged == (killed => \E x : verdicts = <<x>>) /\ (~killed => verdicts = <<>>)

(* A verdict is logged by the cut and by nothing else. *)
LEMMA LoggedStep ==
    ASSUME EngineTypes, Course, Logged, [Next]_vars
    PROVE  Logged'
<1>1. CASE killed
  <2>1. UNCHANGED <<killed, verdicts>>
    BY <1>1, FrozenStep DEF Frozen
  <2> QED
    BY <2>1 DEF Logged
<1>2. CASE ~killed /\ killed'
  <2>1. PICK x : verdicts' = Append(verdicts, x)
    BY <1>2, CutStep DEF Cut
  <2>2. verdicts = <<>>
    BY <1>2 DEF Logged
  <2>3. verdicts' = <<x>>
    BY <2>1, <2>2
  <2> QED
    BY <1>2, <2>3 DEF Logged
<1>3. CASE ~killed /\ ~killed'
  BY <1>3, OpenSteps, OpenKeeps DEF Logged
<1> QED
  BY <1>1, <1>2, <1>3

(* A message that passes opens a subscription only below the cap. *)
LEMMA OpensBelowCap ==
    ASSUME NEW text, NEW lost, inspectRule(text, lost) = "none", Opens(text)
    PROVE  ~CapReached
BY DEF inspectRule

(* The counter and the set of subscriptions change together. *)
LEMMA IdsStep ==
    ASSUME EngineTypes, Course, Ids, [Next]_vars
    PROVE  Ids'
<1>0. /\ subCount \in Nat /\ cfg.maxSubs \in Nat /\ IsFiniteSet(subs)
      /\ subCount = Cardinality(subs) /\ subCount <= cfg.maxSubs
  BY CfgFacts DEF EngineTypes, Ids, SubsAccounted
<1>1. CASE UNCHANGED <<subs, subCount>>
  BY <1>0, <1>1 DEF Ids, SubsAccounted
<1>2. ASSUME NEW f \in Frames, PassesMessage(f) PROVE Ids'
  <2>1. PICK text, lost : inspectRule(text, lost) = "none" /\ AccountSubs(text)
    BY <1>2 DEF PassesMessage
  <2>2. PICK sid : sid = Grammar[text].sid
    OBVIOUS
  <2>3. CASE Opens(text) /\ subs' = subs \cup {sid} /\ subCount' = subCount + 1
    <3>1. sid \notin subs /\ ~(subCount >= cfg.maxSubs)
      BY <2>1, <2>2, <2>3, OpensBelowCap DEF Opens, CapReached
    <3>2. IsFiniteSet(subs') /\ Cardinality(subs') = Cardinality(subs) + 1
      BY <1>0, <2>3, <3>1, FS_AddElement
    <3> QED
      BY <1>0, <2>3, <3>1, <3>2 DEF Ids, SubsAccounted
  <2>4. CASE /\ Closes(text) /\ subs' = subs \ {sid}
             /\ subCount' = IF subCount > 0 THEN subCount - 1 ELSE subCount
    <3>1. sid \in subs
      BY <2>2, <2>4 DEF Closes
    <3>2. IsFiniteSet(subs') /\ Cardinality(subs') = Cardinality(subs) - 1
      BY <1>0, <2>4, <3>1, FS_RemoveElement
    <3>3. subCount > 0
      BY <1>0, <3>1, FS_EmptySet
    <3> QED
      BY <1>0, <2>4, <3>2, <3>3 DEF Ids, SubsAccounted
  <2> QED
    BY <1>1, <2>1, <2>2, <2>3, <2>4 DEF AccountSubs
<1>3. CASE killed
  BY <1>1, <1>3, FrozenStep DEF Frozen
<1>4. CASE ~killed /\ killed'
  BY <1>1, <1>4, CutStep DEF Cut
<1>5. CASE ~killed /\ ~killed'
  BY <1>1, <1>2, <1>5, OpenSteps, OpenKeeps
<1> QED
  BY <1>3, <1>4, <1>5

-------------------------------------------------------------------------------
(* What a header that is let through says of the frame. *)
LEMMA HeaderFacts ==
    ASSUME NEW f \in Frames, HeaderRule(f) = "none"
    PROVE  /\ f.op \in Control => Len(f.payload) <= MAX_CONTROL
           /\ f.op \notin Control => /\ ~(msgLen + Len(f.payload) > cfg.maxMsg)
                                     /\ f.op \in {"text", "cont"}
                                     /\ f.op = "cont" <=> inMsg
<1>1. f.op \in Ops
  BY FrameFacts
<1>2. CASE f.op \in Control
  <2>1. ~(Len(f.payload) > MAX_CONTROL)
    BY <1>2 DEF HeaderRule
  <2> QED
    BY <1>2, <2>1, FrameFacts, CfgFacts
<1>3. CASE f.op \notin Control
  <2>1. f.op \in {"text", "cont"}
    BY <1>1, <1>3 DEF HeaderRule, Ops, Control
  <2>2. f.op = "cont" <=> inMsg
    BY <1>3, <2>1 DEF HeaderRule
  <2>3. ~(msgLen + Len(f.payload) > cfg.maxMsg)
    BY <1>3 DEF HeaderRule
  <2> QED
    BY <1>3, <2>1, <2>2, <2>3
<1> QED
  BY <1>2, <1>3

(* The steps of an open session that touch the message in progress. *)
LEMMA OpenHolds ==
    ASSUME OpenStep
    PROVE  \/ PumpControl \/ PumpFragment \/ \E f \in Frames : PassesMessage(f)
           \/ UNCHANGED <<msgText, pending, nParts, msgLen, inMsg, consumed, passed>>
<1> USE DEF msgVars, histVars
<1>1. CASE PumpWait
  BY <1>1 DEF PumpWait
<1>2. CASE OnDataPlain \/ OnDataEof \/ ClientSend \/ Tick \/ BanChange \/ Idles
  BY <1>2 DEF OnDataPlain, OnDataEof, ClientSend, Tick, BanChange, Idles
<1>3. CASE \E k \in Reads : \/ HoldsHandshake(k) \/ GoesWs(k) \/ GoesPlain(k)
                            \/ HoldsSegment(k) \/ StartsPump(k)
  BY <1>3 DEF HoldsHandshake, GoesWs, GoesPlain, HoldsSegment, StartsPump
<1> QED
  BY <1>1, <1>2, <1>3 DEF OpenStep

(* The message in progress stays within its limits. *)
LEMMA AssemblyStep ==
    ASSUME EngineTypes, Course, Assembly, [Next]_vars
    PROVE  Assembly'
<1>1. CASE killed'
  BY <1>1 DEF Assembly
<1>2. CASE killed /\ ~killed'
  BY <1>2, FrozenStep DEF Frozen
<1>3. CASE ~killed /\ ~killed'
  <2>0. /\ Len(msgText) = msgLen /\ msgLen <= cfg.maxMsg
        /\ nParts <= Len(pending) /\ Len(pending) <= MAX_PENDING_FRAMES
        /\ ~inMsg => pending = <<>>
    BY <1>3 DEF Assembly
  <2>1. /\ msgLen \in Nat /\ nParts \in Nat /\ pending \in Seq(Frames)
        /\ msgText \in Seq(Symbols) /\ cfg.maxMsg \in Nat /\ MAX_PENDING_FRAMES \in Nat
    BY CfgFacts DEF EngineTypes
  <2>2. CASE UNCHANGED <<msgText, pending, nParts, msgLen, inMsg>>
    BY <2>0, <2>2 DEF Assembly
  <2>3. CASE \E f \in Frames : PassesMessage(f)
    <3>1. pending' = <<>> /\ msgText' = <<>> /\ nParts' = 0 /\ msgLen' = 0
      BY <2>3 DEF PassesMessage
    <3> QED
      BY <2>1, <3>1 DEF Assembly
  <2>4. CASE PumpControl
    <3>1. PICK f \in Frames :
            /\ Len(pending) + 1 <= MAX_PENDING_FRAMES
            /\ IF inMsg THEN pending' = Append(pending, f) ELSE pending' = <<>>
            /\ UNCHANGED <<msgText, nParts, msgLen, inMsg>>
      BY <2>4 DEF PumpControl
    <3>2. CASE inMsg
      <4>1. pending' = Append(pending, f) /\ Len(pending') = Len(pending) + 1
            /\ Len(pending) \in Nat
        BY <2>1, <3>1, <3>2
      <4>2. /\ Len(msgText') = msgLen' /\ msgLen' <= cfg.maxMsg /\ inMsg'
        BY <2>0, <3>1, <3>2
      <4>3. nParts' <= Len(pending') /\ Len(pending') <= MAX_PENDING_FRAMES
        BY <2>0, <2>1, <3>1, <4>1
      <4> QED
        BY <4>2, <4>3 DEF Assembly
    <3>3. CASE ~inMsg
      <4>1. pending' = <<>> /\ pending = <<>>
        BY <2>0, <3>1, <3>3
      <4> QED
        BY <2>0, <3>1, <4>1 DEF Assembly
    <3> QED
      BY <3>2, <3>3
  <2>5. CASE PumpFragment
    <3>1. PICK f \in Frames :
            /\ FrameReady(f) /\ f.op \notin Control /\ Len(pending) + 1 <= MAX_PENDING_FRAMES
            /\ pending' = Append(pending, f) /\ msgText' = msgText \o f.payload
            /\ nParts' = nParts + 1 /\ msgLen' = msgLen + Len(f.payload) /\ inMsg' = TRUE
      BY <2>5 DEF PumpFragment, DataReady
    <3>2. ~(msgLen + Len(f.payload) > cfg.maxMsg)
      BY <3>1, HeaderFacts DEF FrameReady
    <3>3. f.payload \in Seq(Symbols) /\ Len(f.payload) \in Nat
      BY FrameFacts
    <3>4. Len(msgText') = Len(msgText) + Len(f.payload)
      BY <2>1, <3>1, <3>3
    <3>5. Len(pending') = Len(pending) + 1 /\ Len(pending) \in Nat
      BY <2>1, <3>1
    <3>6. Len(msgText') = msgLen' /\ msgLen' <= cfg.maxMsg
      BY <2>0, <2>1, <3>1, <3>2, <3>3, <3>4
    <3>7. nParts' <= Len(pending') /\ Len(pending') <= MAX_PENDING_FRAMES
      BY <2>0, <2>1, <3>1, <3>5
    <3> QED
      BY <3>1, <3>6, <3>7 DEF Assembly
  <2> QED
    BY <1>3, <2>2, <2>3, <2>4, <2>5, OpenSteps, OpenHolds
<1> QED
  BY <1>1, <1>2, <1>3

(* When a frame is decided: not before its first two bytes, once all of it *)
(* is there, and by the state of the message it belongs to.                *)
LEMMA DecideFacts ==
    ASSUME NEW f \in Frames
    PROVE  /\ DecideAt(f) \in Nat /\ DecideAt(f) >= 2
           /\ ~EarlyFault(f) => DecideAt(f) >= HeadLen(f)
           /\ ~EarlyFault(f) /\ HeaderRule(f) = "none" => DecideAt(f) = Size(f)
           /\ UNCHANGED <<inMsg, msgLen>> => DecideAt(f)' = DecideAt(f)
<1>1. HeadLen(f) \in 2 .. 10 /\ Size(f) \in Nat /\ Size(f) >= HeadLen(f)
  BY FrameFacts
<1>2. UNCHANGED <<inMsg, msgLen>> => HeaderRule(f)' = HeaderRule(f)
  BY DEF HeaderRule
<1>3. UNCHANGED <<inMsg, msgLen>> => DecideAt(f)' = DecideAt(f)
  BY <1>2 DEF DecideAt, EarlyFault, Size, HeadLen
<1> QED
  BY <1>1, <1>3 DEF DecideAt

(* Waiting: pump() leaves `need' at most at what the decision takes, and   *)
(* a segment is held only below it.                                        *)
LEMMA WaitingStep ==
    ASSUME EngineTypes, Course, Waiting, [Next]_vars
    PROVE  Waiting'
<1> SUFFICES ASSUME ~killed', pc' = "idle", mode' = "ws"
             PROVE  /\ acc' + pendingLen' < need' /\ need' <= 10 + 4 + LongestPayload
                    /\ wire' = <<>> => need' = 2
                    /\ \A f \in Frames : wire' # <<>> /\ f = Head(wire')
                                            => need' <= DecideAt(f)'
  BY DEF Waiting, LongestPayload
<1>0. /\ acc \in Nat /\ pendingLen \in Nat /\ need \in Nat /\ wire \in Seq(Frames)
      /\ MAX_CONTROL \in Nat /\ cfg.maxMsg \in Nat /\ msgLen \in Nat
  BY CfgFacts DEF EngineTypes
<1>1. LongestPayload \in Nat /\ LongestPayload >= MAX_CONTROL /\ LongestPayload >= cfg.maxMsg
  BY <1>0 DEF LongestPayload
<1>2. CASE killed
  BY <1>2, FrozenStep DEF Frozen
<1>3. CASE ~killed
  <2>0. OpenStep
    BY <1>3, OpenSteps
  <2>1. CASE pc = "idle" /\ mode = "ws" /\ UNCHANGED <<acc, need, wire, inMsg, msgLen>>
             /\ (pendingLen' = pendingLen \/ acc' + pendingLen' < need')
    <3>1. /\ acc + pendingLen < need /\ need <= 10 + 4 + LongestPayload
          /\ wire = <<>> => need = 2
          /\ \A f \in Frames : wire # <<>> /\ f = Head(wire) => need <= DecideAt(f)
      BY <1>3, <2>1 DEF Waiting
    <3>2. \A f \in Frames : DecideAt(f)' = DecideAt(f)
      BY <2>1, DecideFacts
    <3> QED
      BY <2>1, <3>1, <3>2
  <2>2. CASE PumpWait
    <3>1. /\ pc = "pump" /\ pendingLen' = 0
          /\ UNCHANGED <<acc, wire, inMsg, msgLen>>
      BY <2>2 DEF PumpWait, Course, msgVars
    <3>2. CASE acc < 2 /\ need' = 2
      <4>1. \A f \in Frames : DecideAt(f)' >= 2
        BY <3>1, DecideFacts
      <4> QED
        BY <1>0, <1>1, <3>1, <3>2, <4>1
    <3>3. CASE /\ wire # <<>> /\ ~EarlyFault(Head(wire))
               /\ acc < HeadLen(Head(wire)) /\ need' = HeadLen(Head(wire))
      <4>1. PICK f \in Frames : f = Head(wire)
        BY <1>0, <3>3
      <4>2. HeadLen(f) \in 2 .. 10 /\ DecideAt(f)' >= HeadLen(f)
        BY <3>1, <3>3, <4>1, FrameFacts, DecideFacts
      <4> QED
        BY <1>0, <1>1, <3>1, <3>3, <4>1, <4>2
    <3>4. CASE /\ wire # <<>> /\ ~EarlyFault(Head(wire)) /\ HeaderRule(Head(wire)) = "none"
               /\ acc < Size(Head(wire)) /\ need' = Size(Head(wire))
      <4>1. PICK f \in Frames : f = Head(wire)
        BY <1>0, <3>4
      <4>2. DecideAt(f)' = Size(f)
        BY <3>1, <3>4, <4>1, DecideFacts
      <4>3. Size(f) \in Nat /\ HeadLen(f) \in 2 .. 10 /\ Len(f.payload) \in Nat
            /\ Size(f) = HeadLen(f) + 4 + Len(f.payload)
        BY FrameFacts
      <4>4. Len(f.payload) <= LongestPayload
        <5>1. \/ Len(f.payload) <= MAX_CONTROL
              \/ ~(msgLen + Len(f.payload) > cfg.maxMsg)
          BY <3>4, <4>1, HeaderFacts
        <5> QED
          BY <1>0, <1>1, <4>3, <5>1
      <4> QED
        <5>1. need' = Size(f) /\ acc' + pendingLen' = acc /\ acc < Size(f)
          BY <1>0, <3>1, <3>4, <4>1
        <5>2. need' <= 10 + 4 + LongestPayload
          BY <1>1, <4>3, <4>4, <5>1
        <5>3. wire' # <<>> /\ Head(wire') = f /\ need' <= DecideAt(f)'
          BY <3>1, <3>4, <4>1, <4>2, <4>3, <5>1
        <5> QED
          BY <5>1, <5>2, <5>3
    <3> QED
      BY <2>2, <3>2, <3>3, <3>4 DEF PumpWait
  <2>3. ~(PumpControl \/ PumpFragment \/ \E f \in Frames : PassesMessage(f))
    BY DEF PumpControl, PumpFragment, PassesMessage, DataReady, FrameReady
  <2>4. CASE OnDataPlain \/ OnDataEof \/ Tick \/ BanChange \/ Idles
    <3>1. UNCHANGED <<pc, mode, acc, pendingLen, need, wire, inMsg, msgLen>>
      BY <2>4 DEF OnDataPlain, OnDataEof, Tick, BanChange, Idles, byteVars, msgVars
    <3> QED
      BY <2>1, <3>1
  <2>5. CASE ClientSend
    <3>1. PICK g \in Frames : wire' = Append(wire, g)
      BY <2>5 DEF ClientSend
    <3>2. UNCHANGED <<pc, mode, acc, pendingLen, need, inMsg, msgLen>>
      BY <2>5 DEF ClientSend, msgVars
    <3>3. /\ acc + pendingLen < need /\ need <= 10 + 4 + LongestPayload
          /\ wire = <<>> => need = 2
          /\ \A f \in Frames : wire # <<>> /\ f = Head(wire) => need <= DecideAt(f)
      BY <1>3, <3>2 DEF Waiting
    <3>4. \A f \in Frames : DecideAt(f)' = DecideAt(f) /\ DecideAt(f) >= 2
      BY <3>2, DecideFacts
    <3>5. wire' # <<>> /\ (wire # <<>> => Head(wire') = Head(wire))
      BY <1>0, <3>1
    <3> QED
      BY <3>2, <3>3, <3>4, <3>5
  <2>6. ASSUME NEW k \in Reads, HoldsSegment(k)
        PROVE  pc = "idle" /\ mode = "ws" /\ UNCHANGED <<acc, need, wire, inMsg, msgLen>>
               /\ acc' + pendingLen' < need'
    <3>1. k \in Nat
      BY ReadFacts
    <3>2. /\ pc = "idle" /\ mode = "ws" /\ UNCHANGED <<acc, need, wire, inMsg, msgLen>>
          /\ acc + pendingLen + k < need /\ pendingLen' = pendingLen + k
      BY <2>6 DEF HoldsSegment, Callback, TooFew
    <3> QED
      BY <1>0, <3>1, <3>2
  <2>7. ASSUME NEW k \in Reads
        PROVE  ~(HoldsHandshake(k) \/ GoesWs(k) \/ GoesPlain(k) \/ StartsPump(k))
    BY DEF HoldsHandshake, GoesWs, GoesPlain, StartsPump
  <2> QED
    BY <2>0, <2>1, <2>2, <2>3, <2>4, <2>5, <2>6, <2>7 DEF OpenStep
<1> QED
  BY <1>2, <1>3

-------------------------------------------------------------------------------
(* A callback the recheck lets through: an interval after a ban it is due. *)
LEMMA RecheckFacts ==
    ASSUME EngineTypes, Recheck, RecheckPasses, ~killed
    PROVE  /\ banCheckAt' <= now + cfg.banRecheck
           /\ banned => banCheckAt' <= bannedSince + cfg.banRecheck
           /\ banned /\ cfg.banFile /\ mode # "plain" => now < bannedSince + cfg.banRecheck
           /\ UNCHANGED <<banned, bannedSince>>
<1>0. now \in Nat /\ bannedSince \in Nat /\ banCheckAt \in Nat /\ cfg.banRecheck \in Nat
  BY CfgFacts DEF EngineTypes
<1>1. /\ banCheckAt <= now + cfg.banRecheck
      /\ banned => banCheckAt <= bannedSince + cfg.banRecheck
  BY DEF Recheck
<1>2. /\ ~(BanDue /\ banned) /\ UNCHANGED <<banned, bannedSince>>
      /\ banCheckAt' = IF BanDue THEN now + cfg.banRecheck ELSE banCheckAt
  BY DEF RecheckPasses
<1>3. CASE BanDue
  <2>1. banCheckAt' = now + cfg.banRecheck /\ ~banned
    BY <1>2, <1>3
  <2> QED
    BY <1>0, <1>2, <2>1
<1>4. CASE ~BanDue
  <2>1. banCheckAt' = banCheckAt
    BY <1>2, <1>4
  <2>2. cfg.banFile /\ mode # "plain" => now < banCheckAt
    BY <1>0, <1>4 DEF BanDue
  <2> QED
    BY <1>0, <1>1, <1>2, <2>1, <2>2
<1> QED
  BY <1>3, <1>4

(* Only a callback that has just looked at the list puts the recheck off. *)
LEMMA RecheckStep ==
    ASSUME EngineTypes, Course, Recheck, [Next]_vars
    PROVE  Recheck'
<1>0. now \in Nat /\ bannedSince \in Nat /\ banCheckAt \in Nat /\ cfg.banRecheck \in Nat
  BY CfgFacts DEF EngineTypes
<1>1. CASE killed
  <2>1. UNCHANGED <<pc, killed, now, banned, bannedSince, banCheckAt>>
    BY <1>1, FrozenStep DEF Frozen, banVars
  <2> QED
    BY <2>1 DEF Recheck
<1>2. CASE ~killed /\ killed'
  <2>1. /\ pc' = "idle" /\ UNCHANGED <<now, banned, bannedSince>>
        /\ banCheckAt' \in {banCheckAt, now + cfg.banRecheck}
    BY <1>2, CutStep DEF Cut
  <2>2. banCheckAt' <= now' + cfg.banRecheck
    BY <1>0, <2>1 DEF Recheck
  <2> QED
    BY <1>2, <2>1, <2>2 DEF Recheck
<1>3. CASE ~killed /\ ~killed'
  <2>0. OpenStep
    BY <1>3, OpenSteps
  <2>1. CASE UNCHANGED <<now, banned, bannedSince, banCheckAt>> /\ (pc' = pc \/ pc' = "idle")
    BY <1>3, <2>1 DEF Recheck
  <2>2. CASE RecheckPasses /\ now' = now /\ (mode # "plain" \/ pc' = "idle")
    <3>1. /\ banCheckAt' <= now + cfg.banRecheck
          /\ banned => banCheckAt' <= bannedSince + cfg.banRecheck
          /\ banned /\ cfg.banFile /\ mode # "plain" => now < bannedSince + cfg.banRecheck
          /\ UNCHANGED <<banned, bannedSince>>
      BY <1>3, <2>2, RecheckFacts
    <3> QED
      BY <2>2, <3>1 DEF Recheck
  <2>3. CASE PumpWait \/ PumpControl \/ PumpFragment \/ (\E f \in Frames : PassesMessage(f))
             \/ OnDataPlain \/ ClientSend \/ Idles
    <3>1. UNCHANGED <<now, banned, bannedSince, banCheckAt>>
      BY <2>3 DEF PumpWait, PumpControl, PumpFragment, PassesMessage, OnDataPlain, ClientSend,
                  Idles, banVars
    <3>2. pc' = pc \/ pc' = "idle"
      BY <2>3 DEF PumpWait, PumpControl, PumpFragment, PassesMessage, OnDataPlain, ClientSend,
                  Idles
    <3> QED
      BY <2>1, <3>1, <3>2
  <2>4. CASE OnDataEof
    BY <2>2, <2>4 DEF OnDataEof, Callback
  <2>5. ASSUME NEW k \in Reads, HoldsHandshake(k) \/ GoesWs(k) \/ GoesPlain(k)
                                  \/ HoldsSegment(k) \/ StartsPump(k)
        PROVE  RecheckPasses /\ now' = now /\ mode # "plain"
    BY <2>5 DEF HoldsHandshake, GoesWs, GoesPlain, HoldsSegment, StartsPump
  <2>6. CASE Tick
    <3>1. PICK d \in Ticks : now' = now + d
      BY <2>6 DEF Tick
    <3>2. d \in Nat
      <4>1. Ticks \subseteq Nat
        BY EngineAssumption
      <4> QED
        BY <4>1
    <3>3. pc' = "idle" /\ UNCHANGED <<killed, banned, bannedSince, banCheckAt>>
      BY <2>6 DEF Tick, banVars
    <3>4. banCheckAt' <= now' + cfg.banRecheck
      BY <1>0, <3>1, <3>2, <3>3 DEF Recheck
    <3> QED
      BY <3>3, <3>4 DEF Recheck
  <2>7. CASE BanChange
    <3>1. bannedSince' = now /\ UNCHANGED <<now, banCheckAt>>
      BY <2>7 DEF BanChange
    <3>2. banCheckAt' <= now' + cfg.banRecheck /\ banCheckAt' <= bannedSince' + cfg.banRecheck
      BY <3>1 DEF Recheck
    <3>3. cfg.banRecheck > 0 => now' < bannedSince' + cfg.banRecheck
      BY <1>0, <3>1
    <3> QED
      BY <3>2, <3>3 DEF Recheck
  <2> QED
    BY <2>0, <2>2, <2>3, <2>4, <2>5, <2>6, <2>7 DEF OpenStep
<1> QED
  BY <1>1, <1>2, <1>3

(* Bytes go on to the relay only before the interval is over. *)
LEMMA SendsInTime ==
    ASSUME EngineTypes, Course, Recheck, [Next]_vars,
           up' # up, Last(up') # ShieldClose, mode = "ws", cfg.banFile, cfg.banRecheck > 0, banned
    PROVE  now < bannedSince + cfg.banRecheck
<1>0. up \in Seq(Sendable) /\ ShieldClose \in Sendable
  BY SendFacts DEF EngineTypes
<1>1. ~killed
  BY FrozenStep DEF Frozen
<1>2. ~killed'
  <2>1. SUFFICES ASSUME killed' PROVE FALSE
    OBVIOUS
  <2>2. up' = Append(up, ShieldClose)
    BY <1>1, <2>1, CutStep DEF Cut
  <2>3. Last(up') = ShieldClose
    BY <1>0, <2>2 DEF Last
  <2> QED
    BY <2>3
<1>3. OpenStep
  BY <1>1, <1>2, OpenSteps
<1>4. CASE PumpControl \/ \E f \in Frames : PassesMessage(f)
  <2>1. pc = "pump"
    BY <1>4 DEF PumpControl, PassesMessage, DataReady, FrameReady
  <2> QED
    BY <2>1 DEF Recheck
<1>5. CASE OnDataEof
  <2>1. RecheckPasses
    BY <1>5 DEF OnDataEof
  <2> QED
    BY <1>1, <2>1, RecheckFacts
<1>6. ~(PumpWait \/ PumpFragment \/ OnDataPlain \/ ClientSend \/ Tick \/ BanChange \/ Idles)
  BY DEF PumpWait, PumpFragment, OnDataPlain, ClientSend, Tick, BanChange, Idles
<1>7. ~\E k \in Reads : \/ HoldsHandshake(k) \/ GoesWs(k) \/ GoesPlain(k)
                        \/ HoldsSegment(k) \/ StartsPump(k)
  BY DEF HoldsHandshake, GoesWs, GoesPlain, HoldsSegment, StartsPump
<1> QED
  BY <1>3, <1>4, <1>5, <1>6, <1>7 DEF OpenStep

-------------------------------------------------------------------------------
(* One frame more, and where the frames sent on end and the held ones      *)
(* begin.                                                                  *)
LEMMA SplitSeq ==
    ASSUME NEW S, NEW s \in Seq(S), NEW e \in S, NEW n \in 0 .. Len(s)
    PROVE  /\ SubSeq(s, 1, n) \in Seq(S) /\ SubSeq(s, n + 1, Len(s)) \in Seq(S)
           /\ SubSeq(Append(s, e), 1, n) = SubSeq(s, 1, n)
           /\ SubSeq(Append(s, e), n + 1, Len(s) + 1) = Append(SubSeq(s, n + 1, Len(s)), e)
           /\ SubSeq(s, 1, n) \o Append(SubSeq(s, n + 1, Len(s)), e)
                 = SubSeq(Append(s, e), 1, Len(s) + 1)
<1>0. Len(s) \in Nat /\ n \in Nat /\ n <= Len(s) /\ DOMAIN s = 1 .. Len(s)
      /\ s \in [1 .. Len(s) -> S]
  BY LenProperties
<1>1. /\ Append(s, e) \in Seq(S) /\ Len(Append(s, e)) = Len(s) + 1
      /\ \A i \in 1 .. Len(s) : Append(s, e)[i] = s[i]
      /\ Append(s, e)[Len(s) + 1] = e
  BY AppendProperties
<1> DEFINE a == SubSeq(s, 1, n)
           p == SubSeq(s, n + 1, Len(s))
           t == Append(s, e)
           q == SubSeq(t, n + 1, Len(s) + 1)
<1>2. a \in Seq(S) /\ Len(a) = n /\ \A i \in 1 .. n : a[i] = s[i]
  BY <1>0
<1>3. p \in Seq(S) /\ Len(p) = Len(s) - n /\ \A i \in 1 .. Len(s) - n : p[i] = s[n + i]
  <2>0. \A i \in n + 1 .. Len(s) : s[i] \in S
    BY <1>0
  <2>1. p \in Seq(S) /\ Len(p) = Len(s) - n
    <3>1. /\ p \in Seq(S)
          /\ Len(p) = IF n + 1 <= Len(s) THEN Len(s) - (n + 1) + 1 ELSE 0
      BY <1>0, <2>0, SubSeqProperties
    <3>2. PICK m : m = Len(s)
      OBVIOUS
    <3>3. m \in Nat /\ n \in Nat /\ n <= m
      BY <1>0, <3>2
    <3> HIDE DEF p
    <3>4. CASE n + 1 <= m
      BY <3>1, <3>2, <3>3, <3>4
    <3>5. CASE ~(n + 1 <= m)
      <4>1. m - n = 0
        BY <3>3, <3>5
      <4> QED
        BY <3>1, <3>2, <3>5, <4>1
    <3> QED
      BY <3>4, <3>5
  <2>2. ASSUME NEW i \in 1 .. Len(s) - n PROVE p[i] = s[n + i]
    BY <1>0
  <2> QED
    BY <2>1, <2>2
<1>4. SubSeq(t, 1, n) = a
  <2>1. SubSeq(t, 1, n) \in Seq(S) /\ Len(SubSeq(t, 1, n)) = n
        /\ \A i \in 1 .. n : SubSeq(t, 1, n)[i] = t[i]
    BY <1>0, <1>1
  <2> HIDE DEF t
  <2>2. \A i \in 1 .. n : SubSeq(t, 1, n)[i] = a[i]
    BY <1>0, <1>1, <1>2, <2>1 DEF t
  <2> QED
    BY <1>2, <2>1, <2>2, SeqEqual
<1>5. q \in Seq(S) /\ Len(q) = Len(s) - n + 1 /\ \A i \in 1 .. Len(s) - n + 1 : q[i] = t[n + i]
  BY <1>0, <1>1
<1>6. q = Append(p, e)
  <2>1. /\ Append(p, e) \in Seq(S) /\ Len(Append(p, e)) = Len(s) - n + 1
        /\ \A i \in 1 .. Len(s) - n : Append(p, e)[i] = s[n + i]
        /\ Append(p, e)[Len(s) - n + 1] = e
    <3> HIDE DEF p
    <3>1. Len(p) = Len(s) - n /\ p \in Seq(S)
      BY <1>3
    <3>2. /\ Append(p, e) \in Seq(S) /\ Len(Append(p, e)) = Len(p) + 1
          /\ \A i \in 1 .. Len(p) : Append(p, e)[i] = p[i]
          /\ Append(p, e)[Len(p) + 1] = e
      BY <3>1, AppendProperties
    <3> QED
      BY <1>0, <1>3, <3>1, <3>2
  <2>2. \A i \in 1 .. Len(s) - n : q[i] = s[n + i]
    BY <1>0, <1>1, <1>5
  <2>3. q[Len(s) - n + 1] = e
    BY <1>0, <1>1, <1>5
  <2> HIDE DEF q, p
  <2>4. ASSUME NEW i \in 1 .. Len(q) PROVE q[i] = Append(p, e)[i]
    <3>1. i \in 1 .. Len(s) - n \/ i = Len(s) - n + 1
      <4>1. Len(q) = Len(s) - n + 1
        BY <1>5
      <4>2. i \in 1 .. Len(s) - n + 1
        BY <4>1
      <4> QED
        BY <1>0, <4>2
    <3> QED
      BY <2>1, <2>2, <2>3, <3>1
  <2> QED
    BY <1>5, <2>1, <2>4, SeqEqual
<1>7. a \o q = SubSeq(t, 1, Len(s) + 1)
  <2>1. SubSeq(t, 1, n) \o SubSeq(t, n + 1, Len(s) + 1) = SubSeq(t, 1, Len(s) + 1)
    <3> HIDE DEF t
    <3>1. 1 \in 1 .. Len(t) + 1 /\ n \in 1 - 1 .. Len(t) /\ Len(s) + 1 \in n .. Len(t)
          /\ t \in Seq(S)
      BY <1>0, <1>1 DEF t
    <3> QED
      BY <3>1, ConcatAdjacentSubSeq
  <2> QED
    BY <1>4, <2>1
<1> QED
  BY <1>2, <1>3, <1>4, <1>6, <1>7

(* The held frames, with the one that is held next. *)
HeldFrom(s, n) == SubSeq(s, n + 1, Len(s))

(* A frame consumed is added to what is held. *)
LEMMA SplitHeld ==
    ASSUME NEW s \in Seq(Frames), NEW e \in Frames, NEW n \in 0 .. Len(s)
    PROVE  HeldFrom(Append(s, e), n) = Append(HeldFrom(s, n), e)
<1>1. SubSeq(Append(s, e), n + 1, Len(s) + 1) = Append(SubSeq(s, n + 1, Len(s)), e)
  BY SplitSeq
<1>2. Len(Append(s, e)) = Len(s) + 1
  BY AppendProperties
<1> QED
  BY <1>1, <1>2 DEF HeldFrom

(* Where the relay's items end: what is put after them comes last. *)
LEMMA JoinSeq ==
    ASSUME NEW S, NEW h \in Seq(S), NEW a \in Seq(S), NEW b \in Seq(S), NEW e \in S, NEW f \in S
    PROVE  /\ (h \o a) \o <<>> = h \o a
           /\ Append((h \o a) \o <<>>, e) = (h \o a) \o <<e>>
           /\ Append((h \o a) \o <<f>>, e) = (h \o a) \o <<f, e>>
           /\ ((h \o a) \o <<>>) \o b = (h \o (a \o b)) \o <<>>
<1>1. h \o a \in Seq(S) /\ a \o b \in Seq(S) /\ h \o (a \o b) \in Seq(S)
  BY ConcatProperties
<1>2. (h \o a) \o <<>> = h \o a /\ (h \o (a \o b)) \o <<>> = h \o (a \o b)
  BY <1>1, ConcatEmptySeq
<1>3. Append(h \o a, e) = (h \o a) \o <<e>>
  BY <1>1, AppendIsConcat
<1>4. Append((h \o a) \o <<f>>, e) = (h \o a) \o <<f, e>>
  <2>1. <<f>> \in Seq(S) /\ <<e>> \in Seq(S) /\ <<f>> \o <<e>> = <<f, e>>
    <3>1. <<f>> \in Seq(S) /\ <<e>> \in Seq(S) /\ <<f, e>> \in Seq(S)
      OBVIOUS
    <3>2. Append(<<f>>, e) \in Seq(S) /\ Len(Append(<<f>>, e)) = 2
          /\ Append(<<f>>, e)[1] = f /\ Append(<<f>>, e)[2] = e
      OBVIOUS
    <3>3. Len(<<f, e>>) = 2 /\ <<f, e>>[1] = f /\ <<f, e>>[2] = e
      OBVIOUS
    <3>4. \A i \in 1 .. 2 : i = 1 \/ i = 2
      OBVIOUS
    <3>5. Append(<<f>>, e) = <<f, e>>
      BY <3>1, <3>2, <3>3, <3>4, SeqEqual
    <3> QED
      BY <3>1, <3>5, AppendIsConcat
  <2>2. (h \o a) \o <<f>> \in Seq(S)
    BY <1>1, <2>1, ConcatProperties
  <2>3. Append((h \o a) \o <<f>>, e) = ((h \o a) \o <<f>>) \o <<e>>
    BY <2>2, AppendIsConcat
  <2>4. ((h \o a) \o <<f>>) \o <<e>> = (h \o a) \o (<<f>> \o <<e>>)
    BY <1>1, <2>1, ConcatAssociative
  <2> QED
    BY <2>1, <2>3, <2>4
<1>5. (h \o a) \o b = h \o (a \o b)
  BY ConcatAssociative
<1> QED
  BY <1>2, <1>3, <1>4, <1>5

(* A frame that can be released still can when more has been consumed. *)
LEMMA ReleasedStays ==
    ASSUME EngineTypes, NEW n \in 0 .. Len(consumed), NEW m \in Nat, n <= m,
           NEW i \in 1 .. n, Released(i, n), passed \subseteq passed',
           \A h \in 1 .. Len(consumed) : consumed'[h] = consumed[h]
    PROVE  Released(i, m)'
<1>0. Len(consumed) \in Nat
  BY DEF EngineTypes
<1>1. CASE consumed[i].op \in Control
  <2>1. consumed'[i] = consumed[i]
    BY <1>0
  <2> QED
    BY <1>1, <2>1 DEF Released
<1>2. CASE \E j \in i .. n :
              /\ j \in passed
              /\ \A h \in i .. j - 1 : consumed[h].op \in Control \/ ~consumed[h].fin
  <2>1. PICK j \in i .. n :
              /\ j \in passed
              /\ \A h \in i .. j - 1 : consumed[h].op \in Control \/ ~consumed[h].fin
    BY <1>2
  <2>2. j \in i .. m /\ j \in passed'
    BY <1>0, <2>1
  <2>3. ASSUME NEW h \in i .. j - 1 PROVE consumed'[h].op \in Control \/ ~consumed'[h].fin
    <3>1. h \in 1 .. Len(consumed)
      BY <1>0
    <3>2. consumed'[h] = consumed[h]
      BY <3>1
    <3> QED
      BY <2>1, <3>2
  <2> QED
    BY <2>2, <2>3 DEF Released
<1> QED
  BY <1>1, <1>2 DEF Released

(* A frame is consumed and held: nothing is sent on. *)
LEMMA HoldsFrame ==
    ASSUME EngineTypes, NEW n \in Nat, Split(n), NEW f \in Frames, ~eof, ~eof',
           f.op \in Control \/ ~f.fin,
           consumed' = Append(consumed, f), pending' = Append(pending, f),
           UNCHANGED <<up, passed>>
    PROVE  Split(n)'
<1>0. /\ consumed \in Seq(Frames) /\ Len(consumed) \in Nat /\ n \in 0 .. Len(consumed)
      /\ pending = SubSeq(consumed, n + 1, Len(consumed))
      /\ up = <<HeadItem>> \o SubSeq(consumed, 1, n) \o <<>>
      /\ \A i \in 1 .. n : Released(i, n)
      /\ \A h \in n + 1 .. Len(consumed) : consumed[h].op \in Control \/ ~consumed[h].fin
  BY DEF EngineTypes, Split, RelayGets
<1>1. /\ Len(consumed') = Len(consumed) + 1 /\ consumed'[Len(consumed) + 1] = f
      /\ \A h \in 1 .. Len(consumed) : consumed'[h] = consumed[h]
  BY <1>0, AppendProperties
<1>2. n \in 0 .. Len(consumed')
  BY <1>0, <1>1
<1>3. pending' = SubSeq(consumed', n + 1, Len(consumed'))
  <2>1. consumed \in Seq(Frames) /\ n \in 0 .. Len(consumed) /\ f \in Frames
    BY <1>0
  <2>2. pending = HeldFrom(consumed, n)
    BY <1>0 DEF HeldFrom
  <2>3. HeldFrom(Append(consumed, f), n) = Append(HeldFrom(consumed, n), f)
    BY <2>1, SplitHeld
  <2>4. pending' = HeldFrom(consumed', n)
    BY <2>2, <2>3
  <2> QED
    BY <2>4 DEF HeldFrom
<1>4. up' = <<HeadItem>> \o SubSeq(consumed', 1, n) \o <<>>
  BY <1>0, SplitSeq
<1>5. \A i \in 1 .. n : Released(i, n)'
  BY <1>0, <1>1, ReleasedStays
<1>6. ASSUME NEW h \in n + 1 .. Len(consumed')
      PROVE  consumed'[h].op \in Control \/ ~consumed'[h].fin
  <2>1. h \in n + 1 .. Len(consumed) \/ h = Len(consumed) + 1
    BY <1>0, <1>1
  <2>2. CASE h \in n + 1 .. Len(consumed)
    <3>1. h \in 1 .. Len(consumed)
      BY <1>0, <2>2
    <3> QED
      BY <1>0, <1>1, <2>2, <3>1
  <2>3. CASE h = Len(consumed) + 1
    BY <1>1, <2>3
  <2> QED
    BY <2>1, <2>2, <2>3
<1>7. RelayGets(n, IF eof THEN <<EofItem>> ELSE <<>>)'
  BY <1>4 DEF RelayGets
<1> QED
  BY <1>2, <1>3, <1>5, <1>6, <1>7 DEF Split

(* A frame is consumed and sent on, after all that was held. *)
LEMMA LetsGo ==
    ASSUME EngineTypes, NEW n \in Nat, Split(n), NEW f \in Frames, ~eof, ~eof',
           consumed' = Append(consumed, f), pending' = <<>>, up' = up \o Append(pending, f),
           passed \subseteq passed',
           \/ f.op \in Control /\ pending = <<>>
           \/ Len(consumed) + 1 \in passed'
    PROVE  \E m \in Nat : Split(m)'
<1>0. /\ consumed \in Seq(Frames) /\ Len(consumed) \in Nat /\ n \in 0 .. Len(consumed)
      /\ pending = SubSeq(consumed, n + 1, Len(consumed))
      /\ up = <<HeadItem>> \o SubSeq(consumed, 1, n) \o <<>>
      /\ \A i \in 1 .. n : Released(i, n)
      /\ \A h \in n + 1 .. Len(consumed) : consumed[h].op \in Control \/ ~consumed[h].fin
  BY DEF EngineTypes, Split, RelayGets
<1>1. /\ Len(consumed') = Len(consumed) + 1 /\ consumed'[Len(consumed) + 1] = f
      /\ \A h \in 1 .. Len(consumed) : consumed'[h] = consumed[h]
      /\ consumed' \in Seq(Frames)
  BY <1>0, AppendProperties
<1>2. PICK m \in Nat : m = Len(consumed) + 1
  BY <1>0
<1>3. pending' = SubSeq(consumed', m + 1, Len(consumed'))
  <2>1. m + 1 \in Int /\ Len(consumed') \in Int /\ Len(consumed') < m + 1
    BY <1>0, <1>1, <1>2
  <2> QED
    BY <2>1, SubSeqEmpty
<1>4. up' = <<HeadItem>> \o SubSeq(consumed', 1, m) \o <<>>
  <2>1. PICK a, b : a = SubSeq(consumed, 1, n) /\ b = Append(pending, f)
    OBVIOUS
  <2>2. a \in Seq(Frames) /\ b \in Seq(Frames) /\ a \o b = SubSeq(consumed', 1, m)
    <3>1. a \in Seq(Frames) /\ pending \in Seq(Frames) /\ a \o b = SubSeq(consumed', 1, m)
      BY <1>0, <1>2, <2>1, SplitSeq
    <3>2. b \in Seq(Frames)
      BY <2>1, <3>1, AppendProperties
    <3> QED
      BY <3>1, <3>2
  <2>3. a \in Seq(Sendable) /\ b \in Seq(Sendable) /\ <<HeadItem>> \in Seq(Sendable)
        /\ HeadItem \in Sendable
    BY <2>2, SendFacts
  <2>4. ((<<HeadItem>> \o a) \o <<>>) \o b = (<<HeadItem>> \o (a \o b)) \o <<>>
    BY <2>3, JoinSeq
  <2> QED
    BY <1>0, <2>1, <2>2, <2>4
<1>5. ASSUME NEW i \in 1 .. m PROVE Released(i, m)'
  <2>1. CASE i \in 1 .. n
    BY <1>0, <1>1, <1>2, <2>1, ReleasedStays
  <2>2. CASE i \notin 1 .. n
    <3>1. i \in n + 1 .. m
      BY <1>0, <1>2, <2>2
    <3>2. CASE m \in passed'
      <4>1. ASSUME NEW h \in i .. m - 1 PROVE consumed'[h].op \in Control \/ ~consumed'[h].fin
        <5>1. h \in n + 1 .. Len(consumed) /\ h \in 1 .. Len(consumed)
          BY <1>0, <1>2, <3>1
        <5> QED
          BY <1>0, <1>1, <5>1
      <4>2. m \in i .. m
        BY <1>2
      <4> QED
        BY <3>2, <4>1, <4>2 DEF Released
    <3>3. CASE f.op \in Control /\ pending = <<>>
      <4>1. Len(pending) = 0
        BY <3>3
      <4>2. Len(pending) = Len(consumed) - n
        <5>1. /\ \A h \in n + 1 .. Len(consumed) : consumed[h] \in Frames
              /\ n + 1 \in Int /\ Len(consumed) \in Int
          BY <1>0
        <5>2. Len(pending)
                = IF n + 1 <= Len(consumed) THEN Len(consumed) - (n + 1) + 1 ELSE 0
          BY <1>0, <5>1, SubSeqProperties
        <5>3. PICK l : l = Len(consumed)
          OBVIOUS
        <5>4. l \in Nat /\ n <= l /\ n \in Nat
          BY <1>0, <5>3
        <5>5. CASE n + 1 <= l
          BY <5>2, <5>3, <5>4, <5>5
        <5>6. CASE ~(n + 1 <= l)
          <6>1. l - n = 0
            BY <5>4, <5>6
          <6> QED
            BY <5>2, <5>3, <5>6, <6>1
        <5> QED
          BY <5>5, <5>6
      <4>3. n = Len(consumed)
        BY <1>0, <4>1, <4>2
      <4>4. i = Len(consumed) + 1
        BY <1>0, <1>2, <3>1, <4>3
      <4> QED
        BY <1>1, <3>3, <4>4 DEF Released
    <3> QED
      BY <1>2, <3>2, <3>3
  <2> QED
    BY <2>1, <2>2
<1>6. ~\E h \in m + 1 .. Len(consumed') : TRUE
  BY <1>0, <1>1, <1>2
<1>7. RelayGets(m, IF eof THEN <<EofItem>> ELSE <<>>)'
  BY <1>4 DEF RelayGets
<1>8. m \in 0 .. Len(consumed')
  BY <1>0, <1>1, <1>2
<1>9. Split(m)'
  BY <1>3, <1>5, <1>6, <1>7, <1>8 DEF Split
<1> QED
  BY <1>9

(* Nothing of what the relay has got changes. *)
LEMMA SplitStays ==
    ASSUME NEW n, Split(n), UNCHANGED <<consumed, passed, pending, up, eof>>
    PROVE  Split(n)'
<1>1. \A i \in 1 .. n : Released(i, n)'
  BY DEF Split, Released
<1>2. RelayGets(n, IF eof THEN <<EofItem>> ELSE <<>>)'
  BY DEF Split, RelayGets
<1> QED
  BY <1>1, <1>2 DEF Split

(* The relay's stream, while the session is open. *)
LEMMA TallyOpen ==
    ASSUME EngineTypes, Course, Assembly, Tally, ~killed, ~killed', OpenStep, mode' = "ws"
    PROVE  \E n \in Nat : Split(n)'
<1>0. mode = "ws" => \E n \in Nat : Split(n)
  BY DEF Tally
<1>1. CASE mode = "ws" /\ UNCHANGED <<consumed, passed, pending, up, eof>>
  BY <1>0, <1>1, SplitStays
<1>2. CASE PumpWait \/ ClientSend \/ Tick \/ BanChange \/ Idles
  <2>1. UNCHANGED <<mode, consumed, passed, pending, up, eof>>
    BY <1>2 DEF PumpWait, ClientSend, Tick, BanChange, Idles, msgVars, histVars
  <2> QED
    BY <1>1, <2>1
<1>3. ASSUME NEW k \in Reads, HoldsSegment(k) \/ StartsPump(k)
      PROVE  \E n \in Nat : Split(n)'
  <2>1. mode = "ws" /\ UNCHANGED <<consumed, passed, pending, up, eof>>
    BY <1>3 DEF HoldsSegment, StartsPump, histVars
  <2> QED
    BY <1>1, <2>1
<1>4. ASSUME NEW k \in Reads
      PROVE  ~(HoldsHandshake(k) \/ GoesPlain(k))
  BY DEF HoldsHandshake, GoesPlain
<1>5. ~OnDataPlain
  BY DEF OnDataPlain
<1>6. ASSUME NEW k \in Reads, GoesWs(k) PROVE \E n \in Nat : Split(n)'
  <2>1. /\ mode = "handshake" /\ up' = Append(up, HeadItem)
        /\ UNCHANGED <<pending, consumed, eof>>
    BY <1>6 DEF GoesWs, histVars
  <2>2. consumed = <<>> /\ pending = <<>> /\ up = <<>> /\ ~eof
    <3>1. k \in Nat \ {0} /\ k <= hsLeft + unread
      BY ReadFacts
    <3>2. hsLeft \in Nat /\ unread \in Nat
      BY DEF EngineTypes
    <3> QED
      BY <2>1, <3>1, <3>2 DEF Course
  <2>3. up' = <<HeadItem>> /\ consumed' = <<>> /\ pending' = <<>> /\ ~eof'
    BY <2>1, <2>2
  <2>4. SubSeq(<<>>, 1, 0) = <<>> /\ SubSeq(<<>>, 1, Len(<<>>)) = <<>>
        /\ Len(<<>>) = 0
    BY SubSeqEmpty
  <2>5. <<HeadItem>> \o <<>> \o <<>> = <<HeadItem>>
    <3>1. <<HeadItem>> \in Seq(Sendable)
      BY SendFacts
    <3> QED
      BY <3>1, ConcatEmptySeq
  <2>6. RelayGets(0, IF eof THEN <<EofItem>> ELSE <<>>)'
    BY <2>3, <2>4, <2>5 DEF RelayGets
  <2>7. Split(0)'
    BY <2>3, <2>4, <2>6 DEF Split
  <2> QED
    BY <2>7
<1>7. CASE OnDataEof
  <2>1. /\ ~eof /\ eof' = TRUE /\ up' = Append(up, EofItem)
        /\ UNCHANGED <<mode, consumed, passed, pending>>
    BY <1>7 DEF OnDataEof, msgVars, histVars
  <2>2. PICK n \in Nat : Split(n)
    BY <1>0, <2>1
  <2>3. /\ consumed \in Seq(Frames) /\ n \in 0 .. Len(consumed)
        /\ up = <<HeadItem>> \o SubSeq(consumed, 1, n) \o <<>>
    BY <2>1, <2>2 DEF EngineTypes, Split, RelayGets
  <2>4. SubSeq(consumed, 1, n) \in Seq(Sendable)
    <3>1. SubSeq(consumed, 1, n) \in Seq(Frames)
      BY <2>3
    <3> QED
      BY <3>1, SendFacts
  <2>5. <<HeadItem>> \in Seq(Sendable) /\ EofItem \in Sendable
    BY SendFacts
  <2>6. up' = <<HeadItem>> \o SubSeq(consumed, 1, n) \o <<EofItem>>
    BY <2>1, <2>3, <2>4, <2>5, JoinSeq
  <2>7. RelayGets(n, IF eof THEN <<EofItem>> ELSE <<>>)'
    BY <2>1, <2>6 DEF RelayGets
  <2>8. \A i \in 1 .. n : Released(i, n)'
    BY <2>1, <2>2 DEF Split, Released
  <2>9. Split(n)'
    BY <2>1, <2>2, <2>7, <2>8 DEF Split
  <2> QED
    BY <2>9
<1>8. CASE PumpControl
  <2>1. PICK f \in Frames :
          /\ FrameReady(f) /\ consumed' = Append(consumed, f) /\ f.op \in Control
          /\ IF inMsg
             THEN pending' = Append(pending, f) /\ UNCHANGED up
             ELSE pending' = <<>> /\ up' = up \o Append(pending, f)
          /\ UNCHANGED <<mode, eof, passed>>
    BY <1>8 DEF PumpControl, TakeFrame
  <2>2. ~eof /\ ~eof'
    BY <2>1 DEF FrameReady, Course
  <2>3. PICK n \in Nat : Split(n)
    BY <1>0, <2>1
  <2>4. CASE inMsg
    <3>1. Split(n)'
      BY <2>1, <2>2, <2>3, <2>4, HoldsFrame
    <3> QED
      BY <3>1
  <2>5. CASE ~inMsg
    <3>1. pending = <<>>
      BY <2>5 DEF Assembly
    <3> QED
      BY <2>1, <2>2, <2>3, <2>5, <3>1, LetsGo
  <2> QED
    BY <2>4, <2>5
<1>9. CASE PumpFragment
  <2>1. PICK f \in Frames :
          /\ FrameReady(f) /\ consumed' = Append(consumed, f) /\ ~f.fin
          /\ pending' = Append(pending, f)
          /\ UNCHANGED <<mode, eof, passed, up>>
    BY <1>9 DEF PumpFragment, DataReady, TakeFrame
  <2>2. ~eof /\ ~eof'
    BY <2>1 DEF FrameReady, Course
  <2>3. PICK n \in Nat : Split(n)
    BY <1>0, <2>1
  <2>4. Split(n)'
    BY <2>1, <2>2, <2>3, HoldsFrame
  <2> QED
    BY <2>4
<1>10. ASSUME NEW f \in Frames, PassesMessage(f) PROVE \E n \in Nat : Split(n)'
  <2>1. /\ FrameReady(f) /\ consumed' = Append(consumed, f)
        /\ passed' = passed \cup {Len(consumed')} /\ up' = up \o Append(pending, f)
        /\ pending' = <<>> /\ UNCHANGED <<mode, eof>>
    BY <1>10 DEF PassesMessage, DataReady, TakeFrame
  <2>2. ~eof /\ ~eof'
    BY <2>1 DEF FrameReady, Course
  <2>3. PICK n \in Nat : Split(n)
    BY <1>0, <2>1
  <2>4. Len(consumed) + 1 \in passed' /\ passed \subseteq passed'
    <3>1. Len(consumed') = Len(consumed) + 1
      BY <2>1 DEF EngineTypes
    <3> QED
      BY <2>1, <3>1
  <2> QED
    BY <2>1, <2>2, <2>3, <2>4, LetsGo
<1> QED
  BY <1>2, <1>3, <1>4, <1>5, <1>6, <1>7, <1>8, <1>9, <1>10 DEF OpenStep

(* What the open session sent on is all the relay gets, but for a Close. *)
LEMMA TallyCut ==
    ASSUME EngineTypes, Tally, ~killed, killed', Cut
    PROVE  OnlyApprovedUpstream'
<1> SUFFICES ASSUME mode' = "ws" PROVE OnlyApprovedUpstream'
  BY DEF OnlyApprovedUpstream
<1>1. /\ mode = "ws" /\ up' \in {up, Append(up, ShieldClose)}
      /\ consumed' = consumed \/ \E f \in Frames : consumed' = Append(consumed, f)
      /\ passed' = passed
  BY DEF Cut
<1>2. PICK n \in Nat : Split(n)
  BY <1>1 DEF Tally
<1>3. PICK last : last = IF eof THEN <<EofItem>> ELSE <<>>
  OBVIOUS
<1>4. /\ consumed \in Seq(Frames) /\ Len(consumed) \in Nat /\ n \in 0 .. Len(consumed)
      /\ up = <<HeadItem>> \o SubSeq(consumed, 1, n) \o last
      /\ \A i \in 1 .. n : Released(i, n)
  BY <1>2, <1>3 DEF EngineTypes, Split, RelayGets
<1>5. /\ Len(consumed') \in Nat /\ Len(consumed') >= Len(consumed)
      /\ \A h \in 1 .. Len(consumed) : consumed'[h] = consumed[h]
      /\ SubSeq(consumed', 1, n) = SubSeq(consumed, 1, n)
  <2>1. CASE consumed' = consumed
    BY <1>4, <2>1
  <2>2. ASSUME NEW f \in Frames, consumed' = Append(consumed, f)
        PROVE  /\ Len(consumed') \in Nat /\ Len(consumed') >= Len(consumed)
               /\ \A h \in 1 .. Len(consumed) : consumed'[h] = consumed[h]
               /\ SubSeq(consumed', 1, n) = SubSeq(consumed, 1, n)
    <3>1. Len(consumed') = Len(consumed) + 1
          /\ \A h \in 1 .. Len(consumed) : consumed'[h] = consumed[h]
      BY <1>4, <2>2, AppendProperties
    <3>2. SubSeq(consumed', 1, n) = SubSeq(consumed, 1, n)
      BY <1>4, <2>2, SplitSeq
    <3> QED
      BY <1>4, <3>1, <3>2
  <2> QED
    BY <1>1, <2>1, <2>2
<1>6. \A i \in 1 .. n : Released(i, n)'
  BY <1>1, <1>4, <1>5, ReleasedStays
<1>7. n \in 0 .. Len(consumed')
  BY <1>4, <1>5
<1>8. \/ RelayGets(n, <<>>)' \/ RelayGets(n, <<EofItem>>)'
      \/ RelayGets(n, <<ShieldClose>>)' \/ RelayGets(n, <<EofItem, ShieldClose>>)'
  <2>1. SubSeq(consumed, 1, n) \in Seq(Sendable)
    <3>1. SubSeq(consumed, 1, n) \in Seq(Frames)
      BY <1>4
    <3> QED
      BY <3>1, SendFacts
  <2>2. <<HeadItem>> \in Seq(Sendable) /\ EofItem \in Sendable /\ ShieldClose \in Sendable
    BY SendFacts
  <2>3. up' = up \/ up' = Append(up, ShieldClose)
    BY <1>1
  <2>4. PICK g : g = <<HeadItem>> \o SubSeq(consumed, 1, n)
    OBVIOUS
  <2>5. /\ Append(g \o <<>>, ShieldClose) = g \o <<ShieldClose>>
        /\ Append(g \o <<EofItem>>, ShieldClose) = g \o <<EofItem, ShieldClose>>
    <3>1. PICK a : a = SubSeq(consumed, 1, n)
      OBVIOUS
    <3>2. a \in Seq(Sendable) /\ g = <<HeadItem>> \o a
      BY <2>1, <2>4, <3>1
    <3> QED
      BY <2>2, <3>2, JoinSeq, SMTT(30)
  <2>6. up = g \o last
    BY <1>4, <2>4
  <2>7. \/ up' = g \o <<>> \/ up' = g \o <<EofItem>>
        \/ up' = g \o <<ShieldClose>> \/ up' = g \o <<EofItem, ShieldClose>>
    BY <1>3, <2>3, <2>5, <2>6
  <2>8. g = <<HeadItem>> \o SubSeq(consumed', 1, n)
    BY <1>5, <2>4
  <2> QED
    BY <2>7, <2>8 DEF RelayGets
<1> QED
  BY <1>6, <1>7, <1>8 DEF OnlyApprovedUpstream

(* Every step keeps the frames sent on, held and consumed in agreement. *)
LEMMA TallyStep ==
    ASSUME EngineTypes, Course, Assembly, Tally, [Next]_vars
    PROVE  Tally'
<1>1. CASE killed
  <2>1. UNCHANGED <<killed, mode, consumed, passed, up>>
    BY <1>1, FrozenStep DEF Frozen, histVars
  <2>2. OnlyApprovedUpstream
    BY <1>1 DEF Tally
  <2>3. OnlyApprovedUpstream'
    BY <2>1, <2>2 DEF OnlyApprovedUpstream, Released, RelayGets
  <2> QED
    BY <1>1, <2>1, <2>3 DEF Tally
<1>2. CASE ~killed /\ killed'
  BY <1>2, CutStep, TallyCut DEF Tally
<1>3. CASE ~killed /\ ~killed'
  BY <1>3, OpenSteps, TallyOpen DEF Tally
<1> QED
  BY <1>1, <1>2, <1>3

-------------------------------------------------------------------------------
(* The inductive invariant. *)
EngineInv ==
    /\ EngineTypes /\ Course /\ Logged /\ Ids /\ Assembly /\ Waiting /\ Recheck /\ Tally

(* A session starts with it. *)
LEMMA EngineInvInit == Init => EngineInv
<1> SUFFICES ASSUME Init PROVE EngineInv
  OBVIOUS
<1> USE DEF Init
<1>0. HsLen \in Nat \ {0} /\ cfg.banRecheck \in Nat /\ cfg.maxMsg \in Nat /\ cfg.maxSubs \in Nat
      /\ MAX_PENDING_FRAMES \in Nat
  BY CfgFacts
<1>1. EngineTypes
  <2>1. killed \in BOOLEAN /\ eof \in BOOLEAN /\ inMsg \in BOOLEAN /\ banned \in BOOLEAN
    BY Zenon
  <2>2. banCheckAt \in Nat /\ hsLeft \in Nat
    BY <1>0
  <2> QED
    BY <2>1, <2>2 DEF EngineTypes
<1>2. Course
  BY <1>0 DEF Course
<1>3. Logged
  BY DEF Logged
<1>4. Ids
  <2>1. IsFiniteSet({}) /\ Cardinality({}) = 0
    BY FS_EmptySet
  <2> QED
    BY <1>0, <2>1 DEF Ids, SubsAccounted
<1>5. Assembly
  BY <1>0 DEF Assembly
<1>6. Waiting
  BY DEF Waiting
<1>7. Recheck
  BY <1>0 DEF Recheck
<1>8. Tally
  BY DEF Tally
<1> QED
  BY <1>1, <1>2, <1>3, <1>4, <1>5, <1>6, <1>7, <1>8 DEF EngineInv

(* The invariant is an invariant. *)
LEMMA EngineInvHolds == Spec => []EngineInv
<1>1. EngineInv /\ [Next]_vars => EngineInv'
  <2> SUFFICES ASSUME EngineInv, [Next]_vars PROVE EngineInv'
    OBVIOUS
  <2>0. EngineTypes /\ Course /\ Logged /\ Ids /\ Assembly /\ Waiting /\ Recheck /\ Tally
    BY DEF EngineInv
  <2>1. EngineTypes' /\ Course'
    BY <2>0, CourseStep
  <2>2. Logged' /\ Ids'
    BY <2>0, LoggedStep, IdsStep
  <2>3. Assembly' /\ Waiting'
    BY <2>0, AssemblyStep, WaitingStep
  <2>4. Recheck' /\ Tally'
    BY <2>0, RecheckStep, TallyStep
  <2> QED
    BY <2>1, <2>2, <2>3, <2>4 DEF EngineInv
<1> QED
  BY <1>1, EngineInvInit, PTL DEF Spec

(* What the relay gets is the handshake head and a prefix of the client's  *)
(* frames, in order, each of a message that inspect() saw whole and let    *)
(* pass, then at most an end of stream and the engine's Close.             *)
THEOREM OnlyInspected == Spec => []OnlyApprovedUpstream
<1>1. EngineInv => OnlyApprovedUpstream
  <2> SUFFICES ASSUME EngineInv, ~killed, mode = "ws" PROVE OnlyApprovedUpstream
    BY DEF EngineInv, Tally, OnlyApprovedUpstream
  <2>1. PICK n \in Nat : Split(n)
    BY DEF EngineInv, Tally
  <2>2. /\ n \in 0 .. Len(consumed) /\ \A i \in 1 .. n : Released(i, n)
        /\ RelayGets(n, IF eof THEN <<EofItem>> ELSE <<>>)
    BY <2>1 DEF Split
  <2>3. RelayGets(n, <<EofItem>>) \/ RelayGets(n, <<>>)
    BY <2>2
  <2> QED
    BY <2>2, <2>3 DEF OnlyApprovedUpstream
<1> QED
  BY <1>1, EngineInvHolds, PTL

(* Between callbacks, what pump() could decide has been decided: the       *)
(* buffered bytes fall short of the frame at their head.                   *)
THEOREM DecidesPromptly == Spec => []PromptDecision
<1>1. EngineInv => PromptDecision
  <2> SUFFICES ASSUME EngineInv, pc = "idle", mode = "ws", ~killed, wire # <<>>
               PROVE  acc + pendingLen < DecideAt(Head(wire))
    BY DEF PromptDecision
  <2>1. /\ acc \in Nat /\ pendingLen \in Nat /\ need \in Nat /\ wire \in Seq(Frames)
    BY DEF EngineInv, EngineTypes
  <2>2. PICK f \in Frames : f = Head(wire)
    BY <2>1
  <2>3. acc + pendingLen < need /\ need <= DecideAt(f)
    BY <2>2 DEF EngineInv, Waiting
  <2>4. DecideAt(f) \in Nat
    BY DecideFacts
  <2>5. acc + pendingLen < DecideAt(f)
    BY <2>1, <2>3, <2>4
  <2> QED
    BY <2>2, <2>5
<1> QED
  BY <1>1, EngineInvHolds, PTL

(* What an open session holds between callbacks is bounded, whatever the   *)
(* client sends and however it is cut into reads.                          *)
THEOREM HoldsLittle == Spec => []HeldBytesBounded
<1>1. EngineInv => HeldBytesBounded
  <2> SUFFICES ASSUME EngineInv, pc = "idle", mode = "ws", ~killed
               PROVE  /\ acc + pendingLen < 10 + 4 + LongestPayload
                      /\ Len(msgText) = msgLen /\ msgLen <= cfg.maxMsg
                      /\ nParts <= Len(pending) /\ Len(pending) <= MAX_PENDING_FRAMES
    BY DEF HeldBytesBounded
  <2>1. acc \in Nat /\ pendingLen \in Nat /\ need \in Nat
    BY DEF EngineInv, EngineTypes
  <2>2. LongestPayload \in Nat
    BY CfgFacts DEF LongestPayload
  <2>3. acc + pendingLen < need /\ need <= 10 + 4 + LongestPayload
    BY DEF EngineInv, Waiting
  <2>4. acc + pendingLen < 10 + 4 + LongestPayload
    BY <2>1, <2>2, <2>3
  <2> QED
    BY <2>4 DEF EngineInv, Assembly
<1> QED
  BY <1>1, EngineInvHolds, PTL

(* subCount is the number of ids open, and within SHIELD_WS_MAX_SUBS. *)
THEOREM SubscriptionsCounted == Spec => []SubsAccounted
<1>1. EngineInv => SubsAccounted
  BY DEF EngineInv, Ids
<1> QED
  BY <1>1, EngineInvHolds, PTL

(* A cut session logged one verdict, an open one none, whatever callbacks  *)
(* and exceptions follow the cut.                                          *)
THEOREM OneVerdict == Spec => []OneVerdictPerCut
<1>1. EngineInv => OneVerdictPerCut
  BY DEF EngineInv, Logged, OneVerdictPerCut
<1> QED
  BY <1>1, EngineInvHolds, PTL

(* An interval after a ban no more bytes of a WebSocket session pass. *)
THEOREM BanCuts == Spec => BanCutsWithinRecheck
<1>1. EngineInv /\ [Next]_vars
        => [up' # up /\ Last(up') # ShieldClose /\ mode = "ws" /\ cfg.banFile
               /\ cfg.banRecheck > 0 /\ banned
            => now < bannedSince + cfg.banRecheck]_vars
  BY SendsInTime DEF EngineInv
<1> QED
  BY <1>1, EngineInvHolds, PTL DEF Spec, BanCutsWithinRecheck

-------------------------------------------------------------------------------
(* The relay's end of the connection.  A relay at rest is between messages *)
(* and has the texts m; its states in general.                             *)
AtRest(m) == [open |-> FALSE, text |-> <<>>, msgs |-> m, confused |-> FALSE]
RelayState == [open : BOOLEAN, text : Seq(Symbols), msgs : Seq(Seq(Symbols)),
               confused : BOOLEAN]

RunOf(items, n, r) ==
    r = [i \in 0 .. n |-> IF i = 0 THEN AtRest(<<>>) ELSE RelayStep(r[i - 1], items[i])]

(* A relay gets through every sequence of items. *)
LEMMA RunExists ==
    ASSUME NEW items, Len(items) \in Nat
    PROVE  \E r : RunOf(items, Len(items), r) /\ RelayAfter(items) = r[Len(items)]
<1> DEFINE T == {n \in Nat : \E r : RunOf(items, n, r)}
<1>1. 0 \in T
  <2> DEFINE r == [i \in 0 .. 0 |-> AtRest(<<>>)]
  <2>1. RunOf(items, 0, r)
    BY DEF RunOf
  <2> QED
    BY <2>1
<1>2. ASSUME NEW n \in Nat, n \in T PROVE n + 1 \in T
  <2>1. PICK r : RunOf(items, n, r)
    BY <1>2
  <2> DEFINE q == [i \in 0 .. n + 1 |->
                     IF i = n + 1 THEN RelayStep(r[n], items[n + 1]) ELSE r[i]]
  <2>2. \A i \in 0 .. n : q[i] = r[i]
    OBVIOUS
  <2>3. q[n + 1] = RelayStep(r[n], items[n + 1]) /\ DOMAIN q = 0 .. n + 1
    OBVIOUS
  <2> HIDE DEF q
  <2>4. ASSUME NEW i \in 0 .. n + 1
        PROVE  q[i] = IF i = 0 THEN AtRest(<<>>) ELSE RelayStep(q[i - 1], items[i])
    <3>1. CASE i = n + 1
      <4>1. i # 0 /\ i - 1 = n /\ n \in 0 .. n
        BY <3>1
      <4> QED
        BY <2>2, <2>3, <3>1, <4>1
    <3>2. CASE i # n + 1 /\ i # 0
      <4>1. i \in 0 .. n /\ i - 1 \in 0 .. n
        BY <3>2
      <4>2. r[i] = RelayStep(r[i - 1], items[i])
        BY <2>1, <3>2, <4>1 DEF RunOf
      <4> QED
        BY <2>2, <3>2, <4>1, <4>2
    <3>3. CASE i = 0
      <4>1. i \in 0 .. n
        BY <3>3
      <4> QED
        BY <2>1, <2>2, <3>3, <4>1 DEF RunOf
    <3> QED
      BY <3>1, <3>2, <3>3
  <2>5. RunOf(items, n + 1, q)
    <3>1. q = [i \in 0 .. n + 1 |-> q[i]]
      BY <2>3 DEF q
    <3> QED
      BY <2>4, <3>1 DEF RunOf
  <2> QED
    BY <2>5
<1>3. \E r : RunOf(items, Len(items), r)
  <2> HIDE DEF T
  <2>1. Len(items) \in T
    BY <1>1, <1>2, NatInd
  <2> QED
    BY <2>1 DEF T
<1>4. \E r : RelayAfter(items) = r[Len(items)]
              /\ ((\E q : RunOf(items, Len(items), q)) => RunOf(items, Len(items), r))
  BY DEF RelayAfter, RunOf, AtRest
<1> QED
  BY <1>3, <1>4

(* An item more is a step more. *)
LEMMA RelayTakes ==
    /\ RelayAfter(<<>>) = AtRest(<<>>)
    /\ \A s \in Seq(Sendable) : \A x \in Sendable :
          RelayAfter(Append(s, x)) = RelayStep(RelayAfter(s), x)
<1>1. RelayAfter(<<>>) = AtRest(<<>>)
  <2>1. PICK r : RunOf(<<>>, Len(<<>>), r) /\ RelayAfter(<<>>) = r[Len(<<>>)]
    BY RunExists
  <2> QED
    BY <2>1 DEF RunOf
<1>2. ASSUME NEW s \in Seq(Sendable), NEW x \in Sendable
      PROVE  RelayAfter(Append(s, x)) = RelayStep(RelayAfter(s), x)
  <2> DEFINE t == Append(s, x)
             n == Len(s)
  <2>1. /\ n \in Nat /\ Len(t) = n + 1 /\ t[n + 1] = x /\ \A i \in 1 .. n : t[i] = s[i]
    OBVIOUS
  <2> HIDE DEF t, n
  <2>2. PICK r : RunOf(s, n, r) /\ RelayAfter(s) = r[n]
    BY <2>1, RunExists DEF n
  <2>3. PICK q : RunOf(t, n + 1, q) /\ RelayAfter(t) = q[n + 1]
    <3>1. \E q : RunOf(t, Len(t), q) /\ RelayAfter(t) = q[Len(t)]
      BY <2>1, RunExists
    <3> QED
      BY <2>1, <3>1
  <2> DEFINE T == {i \in Nat : i <= n => q[i] = r[i]}
  <2>4. 0 \in T
    BY <2>1, <2>2, <2>3 DEF RunOf
  <2>5. ASSUME NEW i \in Nat, i \in T PROVE i + 1 \in T
    <3> SUFFICES ASSUME i + 1 <= n PROVE q[i + 1] = r[i + 1]
      OBVIOUS
    <3>1. /\ i + 1 \in 0 .. n /\ i + 1 \in 0 .. n + 1 /\ i + 1 # 0 /\ (i + 1) - 1 = i
          /\ i + 1 \in 1 .. n /\ i <= n
      BY <2>1
    <3>2. q[i + 1] = RelayStep(q[i], t[i + 1])
      BY <2>3, <3>1 DEF RunOf
    <3>3. r[i + 1] = RelayStep(r[i], s[i + 1])
      BY <2>2, <3>1 DEF RunOf
    <3> QED
      BY <2>1, <2>5, <3>1, <3>2, <3>3
  <2>6. q[n] = r[n]
    <3>1. Nat \subseteq T
      <4> HIDE DEF T
      <4> QED
        BY <2>4, <2>5, NatInd
    <3> QED
      BY <2>1, <3>1
  <2>7. q[n + 1] = RelayStep(q[n], t[n + 1])
    <3>1. n + 1 \in 0 .. n + 1 /\ n + 1 # 0 /\ (n + 1) - 1 = n
      BY <2>1
    <3> QED
      BY <2>3, <3>1 DEF RunOf
  <2> QED
    BY <2>1, <2>2, <2>3, <2>6, <2>7 DEF t
<1> QED
  BY <1>1, <1>2

(* What the relay does not count as part of a message. *)
LEMMA RelayIgnores ==
    ASSUME NEW r, NEW item, item.op \notin {"text", "cont"}
    PROVE  RelayStep(r, item) = r
BY DEF RelayStep

(* A frame that continues what the relay is in. *)
Continues(r, f) == (f.op = "cont" /\ r.open) \/ (f.op = "text" /\ ~r.open)

(* Such a frame is held, or is the last one of its message. *)
LEMMA RelayAdds ==
    ASSUME NEW r \in RelayState, NEW f, Continues(r, f)
    PROVE  /\ f.fin => RelayStep(r, f) =
                 [open |-> FALSE, text |-> <<>>,
                  msgs |-> Append(r.msgs, r.text \o f.payload), confused |-> r.confused]
           /\ ~f.fin => RelayStep(r, f) =
                 [open |-> TRUE, text |-> r.text \o f.payload, msgs |-> r.msgs,
                  confused |-> r.confused]
<1>1. /\ ~(f.op = "text" /\ r.open) /\ ~(f.op = "cont" /\ ~r.open)
      /\ ~(f.op \notin {"text", "cont"})
  BY DEF Continues
<1>2. RelayStep(r, f) =
         IF f.fin
         THEN [r EXCEPT !.open = FALSE, !.text = <<>>,
                        !.msgs = Append(@, r.text \o f.payload)]
         ELSE [r EXCEPT !.open = TRUE, !.text = @ \o f.payload]
  BY <1>1 DEF RelayStep
<1> QED
  BY <1>2 DEF RelayState

(* The same relay, with the texts m got before. *)
After(m, r) == [open |-> r.open, text |-> r.text, msgs |-> m \o r.msgs, confused |-> r.confused]

(* A step of the relay: its type, and that it does not look at the texts   *)
(* it has.                                                                 *)
LEMMA RelayStepFacts ==
    ASSUME NEW r \in RelayState, NEW item \in Sendable, NEW m \in Seq(Seq(Symbols))
    PROVE  /\ RelayStep(r, item) \in RelayState
           /\ RelayStep(After(m, r), item) = After(m, RelayStep(r, item))
<1>1. /\ r.open \in BOOLEAN /\ r.text \in Seq(Symbols) /\ r.msgs \in Seq(Seq(Symbols))
      /\ r.confused \in BOOLEAN
      /\ r = [open |-> r.open, text |-> r.text, msgs |-> r.msgs, confused |-> r.confused]
  BY DEF RelayState
<1>2. m \o r.msgs \in Seq(Seq(Symbols))
  BY <1>1
<1>3. After(m, r) \in RelayState
  BY <1>1, <1>2 DEF After, RelayState
<1>4. After(m, r).open = r.open /\ After(m, r).text = r.text
      /\ After(m, r).msgs = m \o r.msgs /\ After(m, r).confused = r.confused
  BY DEF After
<1>5. CASE item.op \notin {"text", "cont"}
  BY <1>5, RelayIgnores
<1>6. CASE (item.op = "text" /\ r.open) \/ (item.op = "cont" /\ ~r.open)
  <2>2. RelayStep(r, item) = [r EXCEPT !.confused = TRUE]
    BY <1>6 DEF RelayStep
  <2>3. RelayStep(After(m, r), item) = [After(m, r) EXCEPT !.confused = TRUE]
    BY <1>4, <1>6 DEF RelayStep
  <2>4. RelayStep(r, item) =
           [open |-> r.open, text |-> r.text, msgs |-> r.msgs, confused |-> TRUE]
    BY <2>2 DEF RelayState
  <2>5. RelayStep(After(m, r), item) =
           [open |-> r.open, text |-> r.text, msgs |-> m \o r.msgs, confused |-> TRUE]
    BY <2>3 DEF After
  <2>6. RelayStep(r, item) \in RelayState
    BY <1>1, <2>4 DEF RelayState
  <2> QED
    BY <2>4, <2>5, <2>6 DEF After
<1>7. CASE Continues(r, item)
  <2>1. item \in Frames
    BY <1>7 DEF Sendable, HeadItem, RawItem, ShieldClose, EofItem, Continues
  <2>2. item.payload \in Seq(Symbols)
    BY <2>1, FrameFacts DEF Frame
  <2>3. Continues(After(m, r), item)
    BY <1>4, <1>7 DEF Continues
  <2>4. PICK text \in Seq(Symbols) : text = r.text \o item.payload
    <3>1. r.text \o item.payload \in Seq(Symbols)
      BY <1>1, <2>2
    <3> QED
      BY <3>1
  <2>5. /\ Append(r.msgs, text) \in Seq(Seq(Symbols))
        /\ m \o Append(r.msgs, text) = Append(m \o r.msgs, text)
    <3> DEFINE S == Seq(Symbols)
    <3>1. r.msgs \in Seq(S) /\ m \in Seq(S) /\ text \in S
      BY <1>1, <2>4
    <3> HIDE DEF S
    <3>2. Append(r.msgs, text) \in Seq(S)
      BY <3>1
    <3>3. m \o Append(r.msgs, text) = Append(m \o r.msgs, text)
      BY <3>1, ConcatAppend
    <3> QED
      BY <3>2, <3>3 DEF S
  <2>6. CASE item.fin
    <3>1. RelayStep(r, item) =
             [open |-> FALSE, text |-> <<>>, msgs |-> Append(r.msgs, text),
              confused |-> r.confused]
      BY <1>7, <2>4, <2>6, RelayAdds
    <3>2. RelayStep(After(m, r), item) =
             [open |-> FALSE, text |-> <<>>, msgs |-> Append(m \o r.msgs, text),
              confused |-> r.confused]
      <4> DEFINE q == After(m, r)
      <4>1. q \in RelayState /\ Continues(q, item)
        BY <1>3, <2>3
      <4>2. q.text = r.text /\ q.msgs = m \o r.msgs /\ q.confused = r.confused
        BY <1>4
      <4> HIDE DEF q
      <4>3. RelayStep(q, item) =
               [open |-> FALSE, text |-> <<>>, msgs |-> Append(q.msgs, q.text \o item.payload),
                confused |-> q.confused]
        BY <4>1, <2>6, RelayAdds
      <4> QED
        BY <2>4, <4>2, <4>3 DEF q
    <3>3. RelayStep(r, item) \in RelayState
      <4>1. <<>> \in Seq(Symbols)
        OBVIOUS
      <4> QED
        BY <1>1, <2>5, <3>1, <4>1 DEF RelayState
    <3>4. After(m, RelayStep(r, item)) =
             [open |-> FALSE, text |-> <<>>, msgs |-> m \o Append(r.msgs, text),
              confused |-> r.confused]
      BY <3>1 DEF After
    <3> QED
      BY <2>5, <3>2, <3>3, <3>4
  <2>7. CASE ~item.fin
    <3>1. RelayStep(r, item) =
             [open |-> TRUE, text |-> text, msgs |-> r.msgs, confused |-> r.confused]
      BY <1>7, <2>4, <2>7, RelayAdds
    <3>2. RelayStep(After(m, r), item) =
             [open |-> TRUE, text |-> text, msgs |-> m \o r.msgs, confused |-> r.confused]
      <4> DEFINE q == After(m, r)
      <4>1. q \in RelayState /\ Continues(q, item)
        BY <1>3, <2>3
      <4>2. q.text = r.text /\ q.msgs = m \o r.msgs /\ q.confused = r.confused
        BY <1>4
      <4> HIDE DEF q
      <4>3. RelayStep(q, item) =
               [open |-> TRUE, text |-> q.text \o item.payload, msgs |-> q.msgs,
                confused |-> q.confused]
        BY <4>1, <2>7, RelayAdds
      <4> QED
        BY <2>4, <4>2, <4>3 DEF q
    <3>3. RelayStep(r, item) \in RelayState
      BY <1>1, <2>4, <3>1 DEF RelayState
    <3> QED
      BY <3>1, <3>2, <3>3 DEF After
  <2> QED
    BY <2>6, <2>7
<1>8. \/ item.op \notin {"text", "cont"}
      \/ (item.op = "text" /\ r.open) \/ (item.op = "cont" /\ ~r.open)
      \/ Continues(r, item)
  <2>1. CASE r.open
    BY <2>1 DEF Continues
  <2>2. CASE ~r.open
    BY <2>2 DEF Continues
  <2> QED
    BY <2>1, <2>2
<1> QED
  BY <1>5, <1>6, <1>7, <1>8

(* A relay at rest goes on as a new one would. *)
LEMMA RelayJoin ==
    ASSUME NEW s \in Seq(Sendable), NEW m \in Seq(Seq(Symbols)), RelayAfter(s) = AtRest(m)
    PROVE  \A t \in Seq(Sendable) : /\ RelayAfter(t) \in RelayState
                                    /\ RelayAfter(s \o t) = After(m, RelayAfter(t))
<1> DEFINE T == {n \in Nat : \A t \in Seq(Sendable) : Len(t) = n =>
                    /\ RelayAfter(t) \in RelayState
                    /\ RelayAfter(s \o t) = After(m, RelayAfter(t))}
<1>1. 0 \in T
  <2> SUFFICES ASSUME NEW t \in Seq(Sendable), Len(t) = 0
               PROVE  /\ RelayAfter(t) \in RelayState
                      /\ RelayAfter(s \o t) = After(m, RelayAfter(t))
    OBVIOUS
  <2>1. t = <<>> /\ s \o t = s
    BY EmptySeq, ConcatEmptySeq
  <2>2. RelayAfter(t) = AtRest(<<>>)
    BY <2>1, RelayTakes
  <2>3. m \o <<>> = m
    BY ConcatEmptySeq
  <2>4. AtRest(<<>>) \in RelayState
    BY DEF AtRest, RelayState
  <2>5. After(m, AtRest(<<>>)) = AtRest(m)
    BY <2>3 DEF After, AtRest
  <2> QED
    BY <2>1, <2>2, <2>4, <2>5
<1>2. ASSUME NEW n \in Nat, n \in T PROVE n + 1 \in T
  <2> SUFFICES ASSUME NEW t \in Seq(Sendable), Len(t) = n + 1
               PROVE  /\ RelayAfter(t) \in RelayState
                      /\ RelayAfter(s \o t) = After(m, RelayAfter(t))
    OBVIOUS
  <2>1. t # <<>>
    OBVIOUS
  <2>2. PICK u \in Seq(Sendable) : \E x \in Sendable : t = Append(u, x)
    BY <2>1, SequenceEmptyOrAppend
  <2>3. PICK x \in Sendable : t = Append(u, x)
    BY <2>2
  <2>4. Len(u) = n
    BY <2>3
  <2>5. RelayAfter(u) \in RelayState /\ RelayAfter(s \o u) = After(m, RelayAfter(u))
    BY <1>2, <2>4
  <2>6. s \o t = Append(s \o u, x) /\ s \o u \in Seq(Sendable)
    BY <2>3, ConcatAppend
  <2>7. /\ RelayAfter(t) = RelayStep(RelayAfter(u), x)
        /\ RelayAfter(s \o t) = RelayStep(RelayAfter(s \o u), x)
    BY <2>3, <2>6, RelayTakes
  <2> QED
    BY <2>5, <2>7, RelayStepFacts
<1>3. Nat \subseteq T
  <2> HIDE DEF T
  <2> QED
    BY <1>1, <1>2, NatInd
<1> QED
  BY <1>3

-------------------------------------------------------------------------------
(* What the relay has got makes up the texts that passed, and what an open *)
(* session holds is the beginning of the message it is in.                 *)
Reassembly ==
    /\ approved \in Seq(Seq(Symbols)) /\ RelayAfter(up) = AtRest(approved)
    /\ ~killed => RelayAfter(pending) =
                     [open |-> inMsg, text |-> msgText, msgs |-> <<>>, confused |-> FALSE]

(* What an open session sends on besides frames: the head, raw bytes and   *)
(* the end of stream.                                                      *)
LEMMA OpenSends ==
    ASSUME EngineTypes, OpenStep
    PROVE  \/ PumpControl \/ PumpFragment \/ \E f \in Frames : PassesMessage(f)
           \/ /\ UNCHANGED <<msgText, pending, inMsg, approved>>
              /\ \/ up' = up \/ up' = Append(Append(up, HeadItem), RawItem)
                 \/ \E e \in {HeadItem, RawItem, EofItem} : up' = Append(up, e)
<1> USE DEF msgVars, histVars
<1>1. CASE PumpWait
  BY <1>1 DEF PumpWait
<1>2. CASE OnDataPlain \/ OnDataEof \/ ClientSend \/ Tick \/ BanChange \/ Idles
  BY <1>2 DEF OnDataPlain, OnDataEof, ClientSend, Tick, BanChange, Idles
<1>3. CASE \E k \in Reads : \/ HoldsHandshake(k) \/ GoesWs(k)
                            \/ HoldsSegment(k) \/ StartsPump(k)
  BY <1>3 DEF HoldsHandshake, GoesWs, HoldsSegment, StartsPump
<1>4. CASE \E k \in Reads : GoesPlain(k)
  <2>1. /\ UNCHANGED <<msgText, pending, inMsg, approved>>
        /\ up' \in {up \o <<HeadItem, RawItem>>, up \o <<HeadItem>>}
    BY <1>4 DEF GoesPlain
  <2>2. up \in Seq(Sendable) /\ HeadItem \in Sendable /\ RawItem \in Sendable
    BY SendFacts DEF EngineTypes
  <2>3. up \o <<HeadItem>> = Append(up, HeadItem)
    BY <2>2, AppendIsConcat
  <2>4. up \o <<HeadItem, RawItem>> = Append(Append(up, HeadItem), RawItem)
    <3> DEFINE h == <<HeadItem>>
    <3>1. h \in Seq(Sendable) /\ <<HeadItem, RawItem>> = Append(h, RawItem)
      BY <2>2
    <3> HIDE DEF h
    <3>2. up \o Append(h, RawItem) = Append(up \o h, RawItem)
      BY <2>2, <3>1, ConcatAppend
    <3> QED
      BY <2>3, <3>1, <3>2 DEF h
  <2> QED
    BY <2>1, <2>3, <2>4
<1> QED
  BY <1>1, <1>2, <1>3, <1>4 DEF OpenStep

(* Something sent on that is no data frame leaves the relay where it is. *)
LEMMA RelayUnmoved ==
    ASSUME NEW s \in Seq(Sendable), NEW e \in Sendable, e.op \notin {"text", "cont"}
    PROVE  Append(s, e) \in Seq(Sendable) /\ RelayAfter(Append(s, e)) = RelayAfter(s)
BY RelayTakes, RelayIgnores

(* The frame the header checks let through continues the message held. *)
LEMMA HeldContinues ==
    ASSUME EngineTypes, Reassembly, ~killed, NEW f \in Frames, FrameReady(f), f.op \notin Control
    PROVE  /\ Append(pending, f) \in Seq(Sendable) /\ msgText \o f.payload \in Seq(Symbols)
           /\ f.fin => RelayAfter(Append(pending, f)) = AtRest(<<msgText \o f.payload>>)
           /\ ~f.fin => RelayAfter(Append(pending, f)) =
                 [open |-> TRUE, text |-> msgText \o f.payload, msgs |-> <<>>, confused |-> FALSE]
<1>1. /\ pending \in Seq(Sendable) /\ f \in Sendable /\ msgText \in Seq(Symbols)
      /\ f.payload \in Seq(Symbols) /\ inMsg \in BOOLEAN
  BY SendFacts, FrameFacts DEF EngineTypes, Sendable
<1>2. f.op \in {"text", "cont"} /\ (f.op = "cont" <=> inMsg)
  BY HeaderFacts DEF FrameReady
<1> DEFINE q == [open |-> inMsg, text |-> msgText, msgs |-> <<>>, confused |-> FALSE]
<1>3. q \in RelayState
  BY <1>1 DEF RelayState
<1>4. Continues(q, f)
  <2>1. CASE inMsg
    BY <1>2, <2>1 DEF Continues
  <2>2. CASE ~inMsg
    BY <1>2, <2>2 DEF Continues
  <2> QED
    BY <2>1, <2>2
<1>5. q.text = msgText /\ q.msgs = <<>> /\ q.confused = FALSE
  OBVIOUS
<1>6. RelayAfter(pending) = q
  BY DEF Reassembly
<1> HIDE DEF q
<1>7. RelayAfter(Append(pending, f)) = RelayStep(q, f)
  BY <1>1, <1>6, RelayTakes
<1>8. f.fin => RelayStep(q, f) =
         [open |-> FALSE, text |-> <<>>, msgs |-> Append(q.msgs, q.text \o f.payload),
          confused |-> q.confused]
  BY <1>3, <1>4, RelayAdds
<1>9. ~f.fin => RelayStep(q, f) =
         [open |-> TRUE, text |-> q.text \o f.payload, msgs |-> q.msgs, confused |-> q.confused]
  BY <1>3, <1>4, RelayAdds
<1>10. Append(<<>>, msgText \o f.payload) = <<msgText \o f.payload>>
  OBVIOUS
<1>11. Append(pending, f) \in Seq(Sendable) /\ msgText \o f.payload \in Seq(Symbols)
  BY <1>1
<1> QED
  BY <1>5, <1>7, <1>8, <1>9, <1>10, <1>11 DEF AtRest

(* Every step keeps it. *)
LEMMA ReassemblyStep ==
    ASSUME EngineTypes, Course, Assembly, Reassembly, [Next]_vars
    PROVE  Reassembly'
<1>0. /\ approved \in Seq(Seq(Symbols)) /\ RelayAfter(up) = AtRest(approved)
      /\ up \in Seq(Sendable) /\ pending \in Seq(Frames) /\ msgText \in Seq(Symbols)
  BY DEF Reassembly, EngineTypes
<1>i. /\ \A e \in {HeadItem, RawItem, ShieldClose, EofItem} :
            e \in Sendable /\ e.op \notin {"text", "cont"}
  BY SendFacts DEF HeadItem, RawItem, ShieldClose, EofItem
<1>1. CASE killed
  BY <1>0, <1>1, FrozenStep DEF Frozen, histVars, Reassembly
<1>2. CASE ~killed /\ killed'
  <2>1. approved' = approved /\ up' \in {up, Append(up, ShieldClose)}
    BY <1>2, CutStep DEF Cut
  <2>2. RelayAfter(Append(up, ShieldClose)) = RelayAfter(up)
    BY <1>0, <1>i, RelayUnmoved
  <2> QED
    BY <1>0, <1>2, <2>1, <2>2 DEF Reassembly
<1>3. CASE ~killed /\ ~killed'
  <2>0. RelayAfter(pending) =
           [open |-> inMsg, text |-> msgText, msgs |-> <<>>, confused |-> FALSE]
    BY <1>3 DEF Reassembly
  <2>1. CASE /\ UNCHANGED <<msgText, pending, inMsg, approved>>
             /\ \/ up' = up \/ up' = Append(Append(up, HeadItem), RawItem)
                \/ \E e \in {HeadItem, RawItem, EofItem} : up' = Append(up, e)
    <3>1. \A e \in {HeadItem, RawItem, EofItem} :
             Append(up, e) \in Seq(Sendable) /\ RelayAfter(Append(up, e)) = RelayAfter(up)
      BY <1>0, <1>i, RelayUnmoved
    <3>2. RelayAfter(Append(Append(up, HeadItem), RawItem)) = RelayAfter(up)
      BY <1>i, <3>1, RelayUnmoved
    <3>3. RelayAfter(up') = RelayAfter(up)
      BY <2>1, <3>1, <3>2
    <3> QED
      BY <1>0, <2>0, <2>1, <3>3 DEF Reassembly
  <2>2. CASE PumpControl
    <3>1. PICK f \in Frames :
            /\ f.op \in Control
            /\ IF inMsg THEN pending' = Append(pending, f) /\ up' = up
                        ELSE pending' = <<>> /\ up' = up \o Append(pending, f)
            /\ UNCHANGED <<msgText, inMsg, approved>>
      BY <2>2 DEF PumpControl
    <3>2. f \in Sendable /\ pending \in Seq(Sendable) /\ f.op \notin {"text", "cont"}
      BY <1>0, <3>1, SendFacts DEF Control, Sendable
    <3>3. CASE inMsg
      <4>1. RelayAfter(Append(pending, f)) = RelayAfter(pending)
        BY <3>2, RelayUnmoved
      <4> QED
        BY <1>0, <2>0, <3>1, <3>3, <4>1 DEF Reassembly
    <3>4. CASE ~inMsg
      <4>1. pending = <<>> /\ pending' = <<>>
        BY <1>3, <3>1, <3>4 DEF Assembly
      <4>2. up' = Append(up, f)
        <5>1. Append(<<>>, f) = <<f>> /\ up \o <<f>> = Append(up, f)
          BY <1>0, <3>2, AppendIsConcat
        <5> QED
          BY <3>1, <3>4, <4>1, <5>1
      <4>3. RelayAfter(up') = RelayAfter(up)
        BY <1>0, <3>2, <4>2, RelayUnmoved
      <4> QED
        BY <1>0, <2>0, <3>1, <4>1, <4>3 DEF Reassembly
    <3> QED
      BY <3>3, <3>4
  <2>3. CASE PumpFragment
    <3>1. PICK f \in Frames :
            /\ FrameReady(f) /\ f.op \notin Control /\ ~f.fin
            /\ pending' = Append(pending, f) /\ msgText' = msgText \o f.payload
            /\ inMsg' = TRUE /\ UNCHANGED <<up, approved>>
      BY <2>3 DEF PumpFragment, DataReady
    <3>2. RelayAfter(Append(pending, f)) =
             [open |-> TRUE, text |-> msgText \o f.payload, msgs |-> <<>>, confused |-> FALSE]
      BY <1>3, <3>1, HeldContinues
    <3> QED
      BY <1>0, <3>1, <3>2 DEF Reassembly
  <2>4. CASE \E f \in Frames : PassesMessage(f)
    <3>1. PICK f \in Frames : PassesMessage(f)
      BY <2>4
    <3>2. /\ FrameReady(f) /\ f.op \notin Control /\ f.fin
          /\ approved' = Append(approved, msgText \o f.payload)
          /\ up' = up \o Append(pending, f) /\ pending' = <<>> /\ msgText' = <<>>
          /\ inMsg' = FALSE
      BY <3>1 DEF PassesMessage, DataReady
    <3>3. PICK text \in Seq(Symbols) : text = msgText \o f.payload
      <4>1. msgText \o f.payload \in Seq(Symbols)
        BY <1>3, <3>2, HeldContinues
      <4> QED
        BY <4>1
    <3>4. RelayAfter(Append(pending, f)) = AtRest(<<text>>) /\ Append(pending, f) \in Seq(Sendable)
      BY <1>3, <3>2, <3>3, HeldContinues
    <3>5. RelayAfter(up') = After(approved, AtRest(<<text>>))
      BY <1>0, <3>2, <3>4, RelayJoin
    <3>6. approved' = approved \o <<text>> /\ approved' \in Seq(Seq(Symbols))
      <4> DEFINE S == Seq(Symbols)
      <4>1. approved \in Seq(S) /\ text \in S
        BY <1>0, <3>3
      <4> HIDE DEF S
      <4>2. Append(approved, text) = approved \o <<text>> /\ Append(approved, text) \in Seq(S)
        BY <4>1, AppendIsConcat
      <4> QED
        BY <3>2, <3>3, <4>2 DEF S
    <3>7. RelayAfter(up') = AtRest(approved')
      BY <3>5, <3>6 DEF After, AtRest
    <3>8. RelayAfter(pending') =
             [open |-> inMsg', text |-> msgText', msgs |-> <<>>, confused |-> FALSE]
      BY <3>2, RelayTakes DEF AtRest
    <3> QED
      BY <3>6, <3>7, <3>8 DEF Reassembly
  <2> QED
    BY <1>3, <2>1, <2>2, <2>3, <2>4, OpenSteps, OpenSends
<1> QED
  BY <1>1, <1>2, <1>3

(* And a session starts with it. *)
LEMMA ReassemblyHolds == Spec => []Reassembly
<1>1. Init => Reassembly
  <2> SUFFICES ASSUME Init PROVE Reassembly
    OBVIOUS
  <2>1. approved = <<>> /\ up = <<>> /\ pending = <<>> /\ msgText = <<>> /\ inMsg = FALSE
    BY DEF Init
  <2>2. RelayAfter(up) = AtRest(approved) /\ approved \in Seq(Seq(Symbols))
    BY <2>1, RelayTakes
  <2>3. RelayAfter(pending) =
           [open |-> inMsg, text |-> msgText, msgs |-> <<>>, confused |-> FALSE]
    BY <2>1, RelayTakes DEF AtRest
  <2> QED
    BY <2>2, <2>3 DEF Reassembly
<1>2. EngineInv /\ Reassembly /\ [Next]_vars => Reassembly'
  BY ReassemblyStep DEF EngineInv
<1> QED
  BY <1>1, <1>2, EngineInvHolds, PTL DEF Spec

(* The relay reassembles exactly the texts that passed inspect(), message  *)
(* for message, and is never left inside one.                              *)
THEOREM RelayGetsWhatPassed == Spec => []RelayReassembles
<1>1. Reassembly => RelayReassembles
  BY DEF Reassembly, RelayReassembles, Relay, AtRest
<1> QED
  BY <1>1, ReassemblyHolds, PTL

-------------------------------------------------------------------------------
(* What inspect() found when it lets a text pass. *)
LEMMA PassedFacts ==
    ASSUME NEW text, NEW lost, inspectRule(text, lost) = "none"
    PROVE  /\ text \in AllowedTexts
           /\ takeToken(bMsg, now, lost.msg).ok
           /\ Charged(text) = "event" => takeToken(bEvent, now, lost.kind).ok
           /\ Charged(text) = "req" => takeToken(bReq, now, lost.kind).ok
<1> DEFINE m == Grammar[text]
<1>1. /\ takeToken(bMsg, now, lost.msg).ok /\ Nostr(text) /\ m.t \in cfg.types
      /\ Charged(text) = "event" => takeToken(bEvent, now, lost.kind).ok
      /\ Charged(text) = "req" => takeToken(bReq, now, lost.kind).ok
      /\ ContentRule(m) = "none"
  BY DEF inspectRule
<1>2. text \in DOMAIN Grammar /\ m.nostr
  BY <1>1 DEF Nostr
<1> HIDE DEF m
<1>3. FaultRule(checkFilters(m.filters)) # "none"
  BY DEF FaultRule
<1>4. m.t = "EVENT" => m.event /\ m.kind \notin cfg.kindDeny
  BY <1>1 DEF ContentRule
<1>5. m.t \in QueryTypes => m.sid # "" /\ checkFilters(m.filters) = "none"
  BY <1>1, <1>3 DEF ContentRule, QueryTypes
<1>6. m.t \in {"REQ", "COUNT", "NEG-OPEN"} => WithinBudget(m.filters)
  <2>1. /\ Len(m.filters) \in Nat /\ DOMAIN m.filters = 1 .. Len(m.filters)
        /\ \A i \in DOMAIN m.filters : IsFilter(m.filters[i])
    BY <1>2, GrammarAssumption DEF m
  <2>2. checkFilters(m.filters) = "none" <=> WithinBudget(m.filters)
    BY <2>1, BudgetExact
  <2> QED
    BY <1>5, <2>2 DEF QueryTypes
<1>7. Allowed(m)
  BY <1>1, <1>2, <1>4, <1>5, <1>6 DEF Allowed, QueryTypes
<1> QED
  BY <1>1, <1>2, <1>7 DEF AllowedTexts, m

(* The other steps of a session approve nothing, charge no bucket of a     *)
(* session that stays open, and never set the clock back.                  *)
LEMMA OtherSteps ==
    ASSUME EngineTypes, Course, [Next]_vars
    PROVE  \/ ~killed /\ ~killed' /\ \E f \in Frames : PassesMessage(f)
           \/ approved' = approved /\ now' = now /\ killed'
           \/ /\ approved' = approved /\ now' \in Nat /\ now <= now' /\ ~killed
              /\ UNCHANGED <<bMsg, bEvent, bReq>>
<1>0. now \in Nat /\ Ticks \subseteq Nat
  BY CfgFacts, EngineAssumption DEF EngineTypes
<1>1. CASE killed
  BY <1>1, FrozenStep DEF Frozen, histVars
<1>2. CASE ~killed /\ killed'
  BY <1>2, CutStep DEF Cut
<1>3. CASE ~killed /\ ~killed'
  <2> USE DEF limitVars, histVars
  <2>1. OpenStep
    BY <1>3, OpenSteps
  <2>2. CASE Tick
    <3>1. PICK d \in Ticks : now' = now + d
      BY <2>2 DEF Tick
    <3>2. now' \in Nat /\ now <= now'
      BY <1>0, <3>1
    <3> QED
      BY <1>3, <2>2, <3>2 DEF Tick
  <2>3. CASE PumpWait \/ PumpControl \/ PumpFragment
    BY <1>0, <1>3, <2>3 DEF PumpWait, PumpControl, PumpFragment
  <2>4. CASE OnDataPlain \/ OnDataEof \/ ClientSend \/ BanChange \/ Idles
    BY <1>0, <1>3, <2>4 DEF OnDataPlain, OnDataEof, ClientSend, BanChange, Idles
  <2>5. CASE \E k \in Reads : \/ HoldsHandshake(k) \/ GoesWs(k) \/ GoesPlain(k)
                              \/ HoldsSegment(k) \/ StartsPump(k)
    BY <1>0, <1>3, <2>5 DEF HoldsHandshake, GoesWs, GoesPlain, HoldsSegment, StartsPump
  <2> QED
    BY <1>3, <2>1, <2>2, <2>3, <2>4, <2>5 DEF OpenStep
<1> QED
  BY <1>1, <1>2, <1>3

(* Nothing else is approved. *)
LEMMA ApprovedAllowed == Spec => [](\A i \in DOMAIN approved : approved[i] \in AllowedTexts)
<1> DEFINE I == \A i \in DOMAIN approved : approved[i] \in AllowedTexts
<1>1. Init => I
  BY DEF Init
<1>2. ASSUME EngineInv, Reassembly, I, [Next]_vars PROVE I'
  <2>1. CASE approved' = approved
    BY <1>2, <2>1
  <2>2. ASSUME NEW f \in Frames, PassesMessage(f) PROVE I'
    <3>1. PICK text, lost : inspectRule(text, lost) = "none" /\ approved' = Append(approved, text)
      BY <2>2 DEF PassesMessage
    <3>2. text \in AllowedTexts
      BY <3>1, PassedFacts
    <3>3. Len(approved) \in Nat /\ DOMAIN approved = 1 .. Len(approved)
      BY <1>2 DEF Reassembly
    <3>4. /\ DOMAIN approved' = 1 .. Len(approved) + 1
          /\ \A i \in 1 .. Len(approved) + 1 :
                approved'[i] = IF i = Len(approved) + 1 THEN text ELSE approved[i]
      BY <1>2, <3>1 DEF Reassembly
    <3> QED
      BY <1>2, <3>2, <3>3, <3>4
  <2> QED
    BY <1>2, <2>1, <2>2, OtherSteps DEF EngineInv
<1>3. EngineInv /\ Reassembly /\ I /\ [Next]_vars => I'
  BY <1>2
<1> QED
  BY <1>1, <1>3, EngineInvHolds, ReassemblyHolds, PTL DEF Spec

(* Every message the relay can reassemble is one the policy allows: an     *)
(* allowed type, an event of an allowed kind, a query, NEG-OPEN included,  *)
(* within its whole budget.                                                *)
THEOREM RelayGetsOnlyAllowed == Spec => []PolicyHolds
<1>1. Reassembly /\ (\A i \in DOMAIN approved : approved[i] \in AllowedTexts) => PolicyHolds
  BY DEF Reassembly, PolicyHolds, Relay, AtRest, Range
<1> QED
  BY <1>1, ReassemblyHolds, ApprovedAllowed, PTL

-------------------------------------------------------------------------------
(* n texts so far are paid for by the burst and the time that has passed;  *)
(* a bucket still has what is left of that.                                *)
Paid(n, rate, burst, at) == n * Token <= burst * Token + at * rate
Funds(bk, n, rate, burst, at) ==
    /\ bk \in BucketType /\ bk.rate = rate /\ bk.burst = burst
    /\ 0 <= bk.tokens /\ bk.t <= at
    /\ n * Token + bk.tokens <= burst * Token + rate * bk.t

(* What a bucket still has is not owed. *)
LEMMA FundsPay ==
    ASSUME NEW bk, NEW n \in Nat, NEW rate \in Nat, NEW burst \in Nat, NEW at \in Nat,
           Funds(bk, n, rate, burst, at)
    PROVE  Paid(n, rate, burst, at)
<1>1. bk.t \in Int /\ bk.tokens \in Int /\ bk.t <= at /\ 0 <= bk.tokens
      /\ n * Token + bk.tokens <= burst * Token + rate * bk.t
  BY DEF Funds, BucketType
<1>2. rate * bk.t <= at * rate
  <2>1. \A x \in Nat : rate * x >= 0
    OBVIOUS
  <2>2. rate * (at - bk.t) >= 0
    BY <1>1, <2>1
  <2>3. rate * (at - bk.t) = at * rate - rate * bk.t
    BY <1>1
  <2>4. rate * bk.t \in Int /\ at * rate \in Int
    BY <1>1
  <2> QED
    BY <2>2, <2>3, <2>4
<1>3. rate * bk.t \in Int /\ at * rate \in Int /\ n * Token \in Int /\ burst * Token \in Int
  BY <1>1 DEF Token
<1> QED
  BY <1>1, <1>2, <1>3 DEF Paid

(* A token that takeToken() grants pays for one more. *)
LEMMA FundsTake ==
    ASSUME NEW bk, NEW n \in Nat, NEW rate \in Nat, NEW burst \in Nat, NEW at \in Nat,
           Funds(bk, n, rate, burst, at), NEW lost \in BOOLEAN, takeToken(bk, at, lost).ok
    PROVE  Funds(takeToken(bk, at, lost).b, n + 1, rate, burst, at)
<1> DEFINE r == takeToken(bk, at, lost)
<1>1. /\ bk \in BucketType /\ bk.rate = rate /\ bk.burst = burst
      /\ n * Token + bk.tokens <= burst * Token + rate * bk.t
  BY DEF Funds
<1>2. /\ r.b \in BucketType /\ r.b.rate = rate /\ r.b.burst = burst /\ r.b.t = at
      /\ 0 <= r.b.tokens /\ r.b.tokens + Token <= bk.tokens + (at - bk.t) * rate
  BY <1>1, TakeEffect
<1>3. bk.tokens \in Int /\ bk.t \in Int /\ r.b.tokens \in Int
  BY <1>1, <1>2 DEF BucketType
<1> HIDE DEF r
<1>4. (at - bk.t) * rate + rate * bk.t = rate * at
  <2>1. (at - bk.t) * rate + rate * (bk.t - 0) = rate * (at - 0)
    BY <1>3, Earn
  <2> QED
    BY <1>3, <2>1
<1>5. (n + 1) * Token = n * Token + Token /\ n * Token \in Int /\ burst * Token \in Int
      /\ Token \in Int
  BY DEF Token
<1>6. rate * bk.t \in Int /\ (at - bk.t) * rate \in Int /\ rate * at \in Int
  BY <1>3
<1>7. (n * Token + Token) + r.b.tokens <= burst * Token + rate * at
  BY <1>1, <1>2, <1>3, <1>4, <1>5, <1>6, Chain
<1> QED
  BY <1>2, <1>5, <1>7 DEF Funds, r

(* The texts of a class, counted. *)
LEMMA CountAppend ==
    ASSUME NEW S, NEW s \in Seq(S), NEW x \in S, NEW texts
    PROVE  /\ CountOf(s, texts) \in Nat
           /\ x \in texts => CountOf(Append(s, x), texts) = CountOf(s, texts) + 1
           /\ x \notin texts => CountOf(Append(s, x), texts) = CountOf(s, texts)
<1> DEFINE n == Len(s)
           A == {i \in DOMAIN s : s[i] \in texts}
           t == Append(s, x)
           B == {i \in DOMAIN t : t[i] \in texts}
<1>1. /\ n \in Nat /\ DOMAIN s = 1 .. n /\ DOMAIN t = 1 .. n + 1
      /\ \A i \in 1 .. n : t[i] = s[i]
      /\ t[n + 1] = x
  OBVIOUS
<1>2. A \subseteq 1 .. n /\ n + 1 \notin A
  BY <1>1
<1>3. IsFiniteSet(A)
  <2>1. 1 \in Int /\ n \in Int
    BY <1>1
  <2>2. IsFiniteSet(1 .. n)
    BY <2>1, FS_Interval
  <2> HIDE DEF A
  <2> QED
    BY <1>2, <2>2, FS_Subset
<1>4. Cardinality(A) \in Nat
  BY <1>3, FS_CardinalityType
<1>5. x \in texts => B = A \cup {n + 1}
  BY <1>1
<1>6. x \notin texts => B = A
  BY <1>1
<1>7. Cardinality(A \cup {n + 1}) = Cardinality(A) + 1
  BY <1>2, <1>3, FS_AddElement
<1> QED
  BY <1>4, <1>5, <1>6, <1>7 DEF CountOf

(* All three classes. *)
AllPaid ==
    /\ Paid(Len(approved), cfg.msgRate, cfg.msgBurst, now)
    /\ Paid(CountOf(approved, EventTexts), cfg.eventRate, cfg.eventBurst, now)
    /\ Paid(CountOf(approved, QueryTexts), cfg.reqRate, cfg.reqBurst, now)

Accounts ==
    /\ AllPaid
    /\ ~killed =>
          /\ Funds(bMsg, Len(approved), cfg.msgRate, cfg.msgBurst, now)
          /\ Funds(bEvent, CountOf(approved, EventTexts), cfg.eventRate, cfg.eventBurst, now)
          /\ Funds(bReq, CountOf(approved, QueryTexts), cfg.reqRate, cfg.reqBurst, now)

(* The rates and bursts of the policy, and the counts. *)
LEMMA RateFacts ==
    ASSUME NEW msgs \in Seq(Seq(Symbols))
    PROVE  /\ cfg.msgRate \in Nat /\ cfg.msgBurst \in Nat /\ cfg.eventRate \in Nat
           /\ cfg.eventBurst \in Nat /\ cfg.reqRate \in Nat /\ cfg.reqBurst \in Nat
           /\ Len(msgs) \in Nat
           /\ CountOf(msgs, EventTexts) \in Nat /\ CountOf(msgs, QueryTexts) \in Nat
<1> DEFINE S == Seq(Symbols)
<1>1. msgs \in Seq(S) /\ <<>> \in S
  OBVIOUS
<1> HIDE DEF S
<1>2. CountOf(msgs, EventTexts) \in Nat /\ CountOf(msgs, QueryTexts) \in Nat
  BY <1>1, CountAppend
<1>3. Len(msgs) \in Nat
  BY <1>1
<1> QED
  BY <1>2, <1>3, EngineAssumption

(* A class is paid for by its bucket. *)
LEMMA FundsPayAll ==
    ASSUME NEW msgs \in Seq(Seq(Symbols)), NEW at \in Nat, NEW b1, NEW b2, NEW b3,
           Funds(b1, Len(msgs), cfg.msgRate, cfg.msgBurst, at),
           Funds(b2, CountOf(msgs, EventTexts), cfg.eventRate, cfg.eventBurst, at),
           Funds(b3, CountOf(msgs, QueryTexts), cfg.reqRate, cfg.reqBurst, at)
    PROVE  /\ Paid(Len(msgs), cfg.msgRate, cfg.msgBurst, at)
           /\ Paid(CountOf(msgs, EventTexts), cfg.eventRate, cfg.eventBurst, at)
           /\ Paid(CountOf(msgs, QueryTexts), cfg.reqRate, cfg.reqBurst, at)
BY RateFacts, FundsPay

(* The bucket a text is charged to is the one of its class. *)
LEMMA ChargedTo ==
    ASSUME NEW text \in DOMAIN Grammar
    PROVE  /\ Charged(text) = "event" <=> text \in EventTexts
           /\ Charged(text) = "req" <=> text \in QueryTexts
<1>1. /\ text \in EventTexts <=> Grammar[text].t \in {"EVENT", "AUTH"}
      /\ text \in QueryTexts <=> Grammar[text].t \in {"REQ", "COUNT", "NEG-OPEN"}
  BY DEF EventTexts, QueryTexts, TextsOf
<1> QED
  BY <1>1 DEF Charged, QueryTypes

(* A message that passes takes a token of every bucket it is charged to. *)
LEMMA AccountsPass ==
    ASSUME EngineTypes, Reassembly, Accounts, ~killed, NEW f \in Frames, PassesMessage(f)
    PROVE  /\ Funds(bMsg', Len(approved'), cfg.msgRate, cfg.msgBurst, now)
           /\ Funds(bEvent', CountOf(approved', EventTexts), cfg.eventRate, cfg.eventBurst, now)
           /\ Funds(bReq', CountOf(approved', QueryTexts), cfg.reqRate, cfg.reqBurst, now)
<1>1. /\ cfg.msgRate \in Nat /\ cfg.msgBurst \in Nat /\ cfg.eventRate \in Nat
      /\ cfg.eventBurst \in Nat /\ cfg.reqRate \in Nat /\ cfg.reqBurst \in Nat
      /\ now \in Nat /\ Len(approved) \in Nat
      /\ CountOf(approved, EventTexts) \in Nat /\ CountOf(approved, QueryTexts) \in Nat
  BY RateFacts DEF EngineTypes, Reassembly
<1>2. /\ Funds(bMsg, Len(approved), cfg.msgRate, cfg.msgBurst, now)
      /\ Funds(bEvent, CountOf(approved, EventTexts), cfg.eventRate, cfg.eventBurst, now)
      /\ Funds(bReq, CountOf(approved, QueryTexts), cfg.reqRate, cfg.reqBurst, now)
  BY DEF Accounts
<1>3. msgText \o f.payload \in Seq(Symbols)
  BY FrameFacts DEF EngineTypes
<1> DEFINE text == msgText \o f.payload
           S == Seq(Symbols)
<1>0. PICK lost \in Rounding :
        /\ ChargeBuckets(text, lost) /\ inspectRule(text, lost) = "none"
        /\ approved' = Append(approved, text)
  BY DEF PassesMessage
<1>4. /\ ChargeBuckets(text, lost) /\ inspectRule(text, lost) = "none"
      /\ approved' = Append(approved, text) /\ lost.msg \in BOOLEAN /\ lost.kind \in BOOLEAN
  BY <1>0 DEF Rounding
<1>5. approved \in Seq(S) /\ text \in S
  BY <1>3 DEF Reassembly
<1> HIDE DEF text, S
<1>6. /\ text \in AllowedTexts
      /\ takeToken(bMsg, now, lost.msg).ok
      /\ Charged(text) = "event" => takeToken(bEvent, now, lost.kind).ok
      /\ Charged(text) = "req" => takeToken(bReq, now, lost.kind).ok
  BY <1>4, PassedFacts
<1>7. text \in DOMAIN Grammar /\ Nostr(text) /\ Grammar[text].t \in cfg.types
  BY <1>6 DEF AllowedTexts, Allowed, Nostr
<1>8. /\ bMsg' = takeToken(bMsg, now, lost.msg).b
      /\ bEvent' = IF Charged(text) = "event" THEN takeToken(bEvent, now, lost.kind).b ELSE bEvent
      /\ bReq' = IF Charged(text) = "req" THEN takeToken(bReq, now, lost.kind).b ELSE bReq
  BY <1>4, <1>6, <1>7 DEF ChargeBuckets
<1>9. Len(approved') = Len(approved) + 1
  BY <1>4, <1>5
<1>10. Funds(bMsg', Len(approved'), cfg.msgRate, cfg.msgBurst, now)
  BY <1>1, <1>2, <1>4, <1>6, <1>8, <1>9, FundsTake
<1>11. Funds(bEvent', CountOf(approved', EventTexts), cfg.eventRate, cfg.eventBurst, now)
  <2>1. CASE Charged(text) = "event"
    <3>1. CountOf(approved', EventTexts) = CountOf(approved, EventTexts) + 1
      BY <1>4, <1>5, <1>7, <2>1, ChargedTo, CountAppend
    <3>2. bEvent' = takeToken(bEvent, now, lost.kind).b /\ takeToken(bEvent, now, lost.kind).ok
      BY <1>6, <1>8, <2>1
    <3> QED
      BY <1>1, <1>2, <1>4, <3>1, <3>2, FundsTake
  <2>2. CASE Charged(text) # "event"
    <3>1. CountOf(approved', EventTexts) = CountOf(approved, EventTexts)
      BY <1>4, <1>5, <1>7, <2>2, ChargedTo, CountAppend
    <3> QED
      BY <1>2, <1>8, <2>2, <3>1
  <2> QED
    BY <2>1, <2>2
<1>12. Funds(bReq', CountOf(approved', QueryTexts), cfg.reqRate, cfg.reqBurst, now)
  <2>1. CASE Charged(text) = "req"
    <3>1. CountOf(approved', QueryTexts) = CountOf(approved, QueryTexts) + 1
      BY <1>4, <1>5, <1>7, <2>1, ChargedTo, CountAppend
    <3>2. bReq' = takeToken(bReq, now, lost.kind).b /\ takeToken(bReq, now, lost.kind).ok
      BY <1>6, <1>8, <2>1
    <3> QED
      BY <1>1, <1>2, <1>4, <3>1, <3>2, FundsTake
  <2>2. CASE Charged(text) # "req"
    <3>1. CountOf(approved', QueryTexts) = CountOf(approved, QueryTexts)
      BY <1>4, <1>5, <1>7, <2>2, ChargedTo, CountAppend
    <3> QED
      BY <1>2, <1>8, <2>2, <3>1
  <2> QED
    BY <2>1, <2>2
<1> QED
  BY <1>10, <1>11, <1>12

(* A bucket keeps its funds while time passes. *)
LEMMA FundsLater ==
    ASSUME NEW bk, NEW n, NEW rate, NEW burst, NEW at \in Nat, NEW later \in Nat,
           at <= later, Funds(bk, n, rate, burst, at)
    PROVE  Funds(bk, n, rate, burst, later)
<1>1. bk \in BucketType /\ bk.t <= at
  BY DEF Funds
<1>2. bk.t \in Int
  BY <1>1 DEF BucketType
<1>3. bk.t <= later
  BY <1>1, <1>2
<1> QED
  BY <1>3 DEF Funds

(* Every step keeps the accounts. *)
LEMMA AccountsStep ==
    ASSUME EngineTypes, Course, Reassembly, Accounts, [Next]_vars, EngineTypes', Reassembly'
    PROVE  Accounts'
<1>0. now \in Nat /\ now' \in Nat /\ approved' \in Seq(Seq(Symbols))
  BY DEF EngineTypes, Reassembly
<1>1. CASE approved' = approved /\ now' = now /\ killed'
  BY <1>1 DEF Accounts, AllPaid
<1>2. ASSUME ~killed, ~killed', NEW f \in Frames, PassesMessage(f) PROVE Accounts'
  <2>1. now' = now
    BY <1>2 DEF PassesMessage
  <2>2. /\ Funds(bMsg', Len(approved'), cfg.msgRate, cfg.msgBurst, now')
        /\ Funds(bEvent', CountOf(approved', EventTexts), cfg.eventRate, cfg.eventBurst, now')
        /\ Funds(bReq', CountOf(approved', QueryTexts), cfg.reqRate, cfg.reqBurst, now')
    BY <1>2, <2>1, AccountsPass
  <2>3. AllPaid'
    BY <1>0, <2>2, FundsPayAll DEF AllPaid
  <2> QED
    BY <2>2, <2>3 DEF Accounts
<1>3. CASE /\ approved' = approved /\ now' \in Nat /\ now <= now' /\ ~killed
           /\ UNCHANGED <<bMsg, bEvent, bReq>>
  <2>1. /\ Funds(bMsg, Len(approved), cfg.msgRate, cfg.msgBurst, now)
        /\ Funds(bEvent, CountOf(approved, EventTexts), cfg.eventRate, cfg.eventBurst, now)
        /\ Funds(bReq, CountOf(approved, QueryTexts), cfg.reqRate, cfg.reqBurst, now)
    BY <1>3 DEF Accounts
  <2>2. /\ Funds(bMsg', Len(approved'), cfg.msgRate, cfg.msgBurst, now')
        /\ Funds(bEvent', CountOf(approved', EventTexts), cfg.eventRate, cfg.eventBurst, now')
        /\ Funds(bReq', CountOf(approved', QueryTexts), cfg.reqRate, cfg.reqBurst, now')
    BY <1>0, <1>3, <2>1, FundsLater
  <2>3. AllPaid'
    BY <1>0, <2>2, FundsPayAll DEF AllPaid
  <2> QED
    BY <2>2, <2>3 DEF Accounts
<1> QED
  BY <1>1, <1>2, <1>3, OtherSteps

(* A session starts with full buckets and nothing approved. *)
LEMMA AccountsInit == Init => Accounts
<1> SUFFICES ASSUME Init PROVE Accounts
  OBVIOUS
<1>1. approved = <<>> /\ now = 0
  BY DEF Init
<1>2. Len(approved) = 0 /\ CountOf(approved, EventTexts) = 0 /\ CountOf(approved, QueryTexts) = 0
  <2>1. \A texts : {i \in DOMAIN <<>> : <<>>[i] \in texts} = {}
    OBVIOUS
  <2> QED
    BY <1>1, <2>1, FS_EmptySet DEF CountOf
<1>3. ASSUME NEW rate \in Nat, NEW burst \in Nat
      PROVE  Funds(bucket(rate, burst, 0), 0, rate, burst, 0) /\ Paid(0, rate, burst, 0)
  <2>1. burst * Token \in Nat /\ rate * 0 = 0 /\ 0 * rate = 0 /\ 0 * Token = 0
    BY <1>3 DEF Token
  <2>2. /\ bucket(rate, burst, 0) \in BucketType /\ bucket(rate, burst, 0).rate = rate
        /\ bucket(rate, burst, 0).burst = burst /\ bucket(rate, burst, 0).t = 0
        /\ bucket(rate, burst, 0).tokens = burst * Token
    BY <2>1 DEF bucket, BucketType
  <2> QED
    BY <2>1, <2>2 DEF Funds, Paid
<1>4. /\ cfg.msgRate \in Nat /\ cfg.msgBurst \in Nat /\ cfg.eventRate \in Nat
      /\ cfg.eventBurst \in Nat /\ cfg.reqRate \in Nat /\ cfg.reqBurst \in Nat
  BY EngineAssumption
<1>5. /\ bMsg = bucket(cfg.msgRate, cfg.msgBurst, 0)
      /\ bEvent = bucket(cfg.eventRate, cfg.eventBurst, 0)
      /\ bReq = bucket(cfg.reqRate, cfg.reqBurst, 0)
  BY <1>1 DEF Init
<1> QED
  BY <1>1, <1>2, <1>3, <1>4, <1>5 DEF Accounts, AllPaid

(* In the life of a session no more messages of a class reach the relay    *)
(* than its bucket pays for: the burst, and the rate times the time.       *)
THEOREM RelayGetsAtRate == Spec => []RatesHold
<1>1. EngineInv /\ EngineInv' /\ Reassembly /\ Reassembly' /\ Accounts /\ [Next]_vars => Accounts'
  BY AccountsStep DEF EngineInv
<1>2. Reassembly /\ Accounts => RatesHold
  BY DEF Reassembly, Accounts, AllPaid, Paid, RatesHold, Relay, AtRest
<1> QED
  BY <1>1, <1>2, AccountsInit, EngineInvHolds, ReassemblyHolds, PTL DEF Spec
===============================================================================
