------------------------------ MODULE MCWsEngine ------------------------------
(***************************************************************************)
(* Small instances of WsEngine: its policies, grammars and frames.         *)
(***************************************************************************)
EXTENDS WsEngine, TLC

(* Payload symbols.  A text is the symbols of its fragments put together:  *)
(* "Ea" "Eb" is an event only as a whole.                                  *)
Obj(fs) == [obj |-> TRUE, f |-> fs]
Kinds(n) == [kind |-> "array", lens |-> [i \in 1 .. n |-> 0]]
Narrow == Obj([kinds |-> Kinds(1)])
Wide == Obj([since |-> [kind |-> "number", num |-> 1], ids |-> Kinds(2)])
Unbounded == Obj([limit |-> [kind |-> "number", num |-> 1]])
TooMany == Obj([kinds |-> Kinds(1), limit |-> [kind |-> "number", num |-> 9]])
NotAnObject == [obj |-> FALSE, f |-> <<>>]

Msg(t, sid, filters) ==
    [nostr |-> TRUE, t |-> t, sid |-> sid, event |-> TRUE, kind |-> 1,
     filters |-> filters]

FramingGrammar ==
    (<<"Ea", "Eb">> :> Msg("EVENT", "", <<>>)) @@
    (<<"R">> :> Msg("REQ", "a", <<Narrow>>)) @@
    (<<"Eb">> :> [Msg("EVENT", "", <<>>) EXCEPT !.nostr = FALSE])

PolicyGrammar ==
    (<<"Ra">> :> Msg("REQ", "a", <<Narrow>>)) @@
    (<<"Rx">> :> Msg("REQ", "", <<Narrow>>)) @@
    (<<"Nb">> :> Msg("NEG-OPEN", "b", <<Narrow>>)) @@
    (<<"Nu">> :> Msg("NEG-OPEN", "a", <<Unbounded>>)) @@
    (<<"Nn">> :> Msg("NEG-OPEN", "a", <<NotAnObject>>)) @@
    (<<"Qm">> :> Msg("COUNT", "a", <<Narrow, TooMany>>)) @@
    (<<"Qi">> :> Msg("COUNT", "a", <<Narrow, Wide>>)) @@
    (<<"Q0">> :> Msg("COUNT", "a", <<>>)) @@
    (<<"Ca">> :> Msg("CLOSE", "a", <<>>)) @@
    (<<"Xb">> :> Msg("NEG-CLOSE", "b", <<>>)) @@
    (<<"E1">> :> Msg("EVENT", "", <<>>)) @@
    (<<"E2">> :> [Msg("EVENT", "", <<>>) EXCEPT !.kind = 2]) @@
    (<<"Ex">> :> [Msg("EVENT", "", <<>>) EXCEPT !.event = FALSE]) @@
    (<<"A">> :> Msg("AUTH", "", <<>>)) @@
    (<<"Z">> :> Msg("ZAP", "", <<>>))

F(op, fin, payload) ==
    [op |-> op, fin |-> fin, rsv |-> FALSE, masked |-> TRUE, form |-> 7,
     hi |-> FALSE, payload |-> payload]

(* Whole and fragmented messages, control frames, every length encoding,   *)
(* and frames to refuse for each reason there is.                          *)
StreamFrames ==
    {F("text", FALSE, <<"Ea">>), F("cont", TRUE, <<"Eb">>),
     F("cont", FALSE, <<>>), F("cont", TRUE, <<"Eb", "Eb">>),
     F("text", TRUE, <<"Eb">>), F("bin", TRUE, <<>>), F("reserved", TRUE, <<>>),
     F("ping", TRUE, <<>>), F("ping", FALSE, <<>>), F("ping", TRUE, <<"Ea", "Ea">>),
     [F("ping", TRUE, <<>>) EXCEPT !.rsv = TRUE],
     [F("text", TRUE, <<>>) EXCEPT !.masked = FALSE],
     [F("text", TRUE, <<"R">>) EXCEPT !.form = 16],
     [F("text", TRUE, <<"R">>) EXCEPT !.form = 64],
     [F("text", TRUE, <<"R", "R", "R">>) EXCEPT !.form = 64],
     [F("text", TRUE, <<>>) EXCEPT !.form = 64, !.hi = TRUE]}

SessionFrames ==
    {F("text", TRUE, t) : t \in DOMAIN PolicyGrammar}
      \cup {F("text", FALSE, <<>>), F("cont", TRUE, <<>>)}

(* A roomy policy; each run tightens what it is about. *)
BaseCfg ==
    [maxMsg |-> 2, maxSubs |-> 1, maxHsReads |-> 2, maxMsgReads |-> 8,
     banRecheck |-> 2000, banFile |-> FALSE,
     msgRate |-> 1, msgBurst |-> 9, eventRate |-> 1, eventBurst |-> 9,
     reqRate |-> 1, reqBurst |-> 9,
     types |-> {"EVENT", "REQ", "CLOSE", "COUNT", "AUTH", "NEG-OPEN",
                "NEG-MSG", "NEG-CLOSE"},
     kindDeny |-> {2}]
SessionCfg == [BaseCfg EXCEPT !.msgBurst = 2, !.eventBurst = 1, !.reqBurst = 1,
                              !.banFile = TRUE, !.banRecheck = 1000]
===============================================================================
