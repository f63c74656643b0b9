----------------------------- MODULE MCAlgorithms -----------------------------
(***************************************************************************)
(* The functions of the program that keep no state, run over every small   *)
(* input and compared with what they are for: the query budget of the      *)
(* WebSocket engine, what the dashboard reads and writes, and the choice   *)
(* of a compiler.                                                          *)
(***************************************************************************)
EXTENDS WsFilters, HttpQuery, Collect, BpfBuild, FiniteSets

VARIABLES alg, in, out, done
algVars == <<alg, in, out, done>>
-------------------------------------------------------------------------------
(* checkFilters: lists of filters. *)
Lone(n) == [kind |-> "string", lens |-> <<n>>]
Array(lens) == [kind |-> "array", lens |-> lens]
Number(n) == [kind |-> "number", num |-> n]
Values == {Lone(1), Lone(4), Number(1), Number(9), [kind |-> "other"],
           Array(<<>>), Array(<<0, 3>>), Array(<<1, 13>>), Array(<<2, 2, 2>>)}
Filters ==
    {[obj |-> FALSE, f |-> <<>>]} \cup
    {[obj |-> TRUE, f |-> f] : f \in
        (UNION {[ks -> Values] : ks \in {{}, {"kinds"}, {"limit"}, {"x"}}})
            \cup [{"kinds", "limit"} -> {Lone(4), Number(9), Array(<<0, 3>>)}]}

(* Targets: a path and pairs, in one of the ways a client may spell them. *)
Bytes == {Space, Percent, Amp, Plus, Equals, Question, 97}
Pairs == BoundedSeq(Bytes, 2) \X BoundedSeq(Bytes, 1)
Targets ==
    [path : BoundedSeq(Bytes, 1), style : {"least", "all"},
     query : {<<p>> : p \in Pairs} \cup {<<p, q>> : p \in Pairs,
                                            q \in {<<<<97>>, <<97>>>>, <<<<>>, <<>>>>}}]
HexDigit(n) == IF n < 10 THEN 48 + n ELSE 87 + n
Encode(s, style) ==
    FlattenSeq([i \in DOMAIN s |->
        IF style = "least" /\ s[i] = Space THEN <<Plus>>
        ELSE IF style = "least" /\ s[i] = 97 THEN <<97>>
        ELSE <<Percent, HexDigit(s[i] \div 16), HexDigit(s[i] % 16)>>])
EncodePair(kv, style) ==
    Encode(kv[1], style) \o
    (IF style = "least" /\ kv[1] # <<>> /\ kv[2] = <<>> THEN <<>>
     ELSE <<Equals>> \o Encode(kv[2], style))
Spell(t) ==
    Encode(t.path, t.style) \o <<Question>> \o
    FlattenSeq([i \in DOMAIN t.query |->
        (IF i > 1 THEN <<Amp>> ELSE <<>>) \o EncodePair(t.query[i], t.style)])

(* Log lines and limits with every character that means something to JSON. *)
Chars == {Quote, Backslash, "\n", "^A", "^B", ",", "u"}
Texts == {<<s>> : s \in BoundedSeq(Chars, 3)} \cup
         {<<s, t>> : s, t \in BoundedSeq(Chars, 1)} \cup {<<>>}
Limits(ts) == [i \in DOMAIN ts |-> [key |-> <<"u">>, val |-> ts[i], src |-> ts[1]]]
Service(ts) == [profile |-> <<"u">>, name |-> <<Quote>>, port |-> <<>>,
                upstream |-> <<Backslash>>, preset |-> <<"u">>, limits |-> Limits(ts)]

(* Configurations: an order of keys, each missing, custom or from a preset. *)
Key(f, n) == <<f, n>>
Keys == <<Key("TCP", "CONN_RATE"), Key("HTTP", "CONN_RATE"), Key("WS", "MAX_SUBS"),
          Key("", "MAX_CONNS_PER_NODE"), Key("STRFRY", "CONN_RATE"),
          Key("CONNRATE", "TIMEOUT"), Key("", "LISTEN_PORT"), Key("TCP", "SERVICE")>>
Owner == [k \in ToSet(SubSeq(Keys, 1, 6)) |->
             CASE k[1] = "TCP" -> "tcp" [] k[1] = "HTTP" -> "http"
               [] k[1] = "CONNRATE" -> "core" [] OTHER -> "strfry"]
Sources == {<<"custom">>, <<"preset", "x", "strict">>}
ConfigLine(k, s) == <<s, k, <<"v">>>>
Enabled == {<<"strfry", "http">>, <<"tcp", "">>, <<"other", "tcp", "strfry">>,
            <<"tcp", "tcp">>}
Configs ==
    {<<<<<<"custom">>, Key("", "PROFILES"), p>>>> \o
        FlattenSeq([i \in DOMAIN Keys |->
            IF Keys[i] \in ks THEN <<ConfigLine(Keys[i], s)>>
            ELSE IF i % 2 = 0 THEN <<>> ELSE <<ConfigLine(Keys[i], <<"custom">>)>>])
        : p \in Enabled, ks \in SUBSET ToSet(Keys), s \in Sources}
    \cup {<<>>, <<<<<<"custom">>>>>>}

(* Tools: how each ended, and what shield-ban listed. *)
Ends(o) == {[exit |-> 0, out |-> o, stderr |-> <<"noise">>],
            [exit |-> -1, out |-> o, stderr |-> <<>>],
            [exit |-> 1, out |-> o, stderr |-> <<>>],
            [exit |-> 1, out |-> o, stderr |-> <<"why">>]}
BanLines == {<<"a", 0>>, <<"b", 5>>, <<"c", 9>>, <<"d", -1>>, <<"e">>}
Tools == [config : Ends(<<>>), guard : Ends(cmd_stats("7", TRUE)),
          bans : UNION {Ends(o) : o \in BoundedSeq(BanLines, 3)}]

(* Hosts: directories of PATH, what runs, what the operator set. *)
Clang14 == [v |-> 14, s |-> "clang-14"]
Clang19 == [v |-> 19, s |-> "clang-19"]
Clang019 == [v |-> 19, s |-> "clang-019"]
Tidy == [v |-> -1, s |-> "clang-tidy"]
Hosts == [path : BoundedSeq({UnreadableDir, <<Tidy>>, <<Clang14>>,
                             <<Clang14, Clang19>>, <<Clang019>>}, 2),
          works : SUBSET {Clang, Clang14, Clang19, Clang019},
          clang : {None, Clang14}, prebuilt : {"unset", "readable", "missing"},
          compiles : BOOLEAN, arch : {"arm"}, dirs : {{"arm-linux-gnueabi"}}]
-------------------------------------------------------------------------------
AlgInit ==
    /\ out = <<>> /\ done = FALSE
    /\ \/ alg = "filters" /\ in \in UNION {[1 .. n -> Filters] : n \in 0 .. 3}
       \/ alg = "target" /\ in \in Targets
       \/ alg = "json" /\ in \in Texts
       \/ alg = "config" /\ in \in Configs
       \/ alg = "status" /\ in \in Tools
       \/ alg = "build" /\ in \in Hosts

Now == 7 \* the dashboard's clock

Run ==
    /\ ~done /\ done' = TRUE
    /\ out' = CASE alg = "filters" -> checkFilters(in)
                [] alg = "target" -> read_target(Spell(in))
                [] alg = "json" -> <<Tokens(LogsBody(<<"u">>, <<"u">>, in)),
                                     Tokens(service_json(Service(in))),
                                     Tokens(ErrorBody(FlattenSeq(in)))>>
                [] alg = "config" -> services(load(in))
                [] alg = "status" -> api_status(in, Now)
                [] alg = "build" -> build(in)
    /\ UNCHANGED <<alg, in>>

AlgNext == Run
AlgSpec == AlgInit /\ [][AlgNext]_algVars

Did(a) == done /\ alg = a
-------------------------------------------------------------------------------
(* A query passes exactly when every filter is sound by itself and all of  *)
(* them together stay within the item budget: the early returns of the     *)
(* loop in checkFilters() lose no field and count none twice.              *)
AcceptsExactlyWithinBudget ==
    Did("filters") => (out = "none") = WithinBudget(in)

(* However a client spells a path and its parameters, read_request() gets  *)
(* back the text that was meant: an escaped &, =, ?, + or % is text, and   *)
(* the first of two values for a name is the one looked up.                *)
TargetUnderstood ==
    Did("target") =>
        /\ out.path = in.path /\ out.query = in.query
        /\ param(out.query, in.query[1][1]) = in.query[1][2]

(* Nothing in a log line, a limit or an error message gets out of the      *)
(* string that json.rs puts it in: a reader finds the same strings between *)
(* the same punctuation, whatever the text.                                *)
Join(parts) ==
    FlattenSeq([i \in DOMAIN parts |->
        IF i > 1 THEN <<Punct(",")>> \o parts[i] ELSE parts[i]])
Named(k, v) == <<Text(<<k>>), Punct(":")>> \o v
Braces(ms) == <<Punct("{")>> \o Join(ms) \o <<Punct("}")>>
Brackets(xs) == <<Punct("[")>> \o Join(xs) \o <<Punct("]")>>
NothingBreaksOut ==
    Did("json") =>
        LET T(s) == <<Text(s)>>
            s == Service(in)
        IN  /\ out[1] = Braces(<<Named("service", T(<<"u">>)),
                                 Named("kind", T(<<"u">>)),
                                 Named("lines", Brackets([i \in DOMAIN in |-> T(in[i])]))>>)
            /\ out[2] = Braces(
                   <<Named("profile", T(s.profile)), Named("name", T(s.name)),
                     Named("port", T(s.port)), Named("upstream", T(s.upstream)),
                     Named("preset", T(s.preset)),
                     Named("limits", Brackets([i \in DOMAIN in |->
                         Braces(<<Named("key", T(<<"u">>)), Named("value", T(in[i])),
                                  Named("source", T(in[1]))>>)]))>>)
            /\ out[3] = Braces(<<Named("error", T(FlattenSeq(in)))>>)

(* A service is listed once per mention of its profile, and of the limits  *)
(* that belong to a service it shows exactly its own, in the order of the  *)
(* configuration; what it shows are limits.                                *)
LimitsWithTheirService ==
    Did("config") =>
        LET cfg == load(in)
            asked == get(cfg, Key("", "PROFILES"), <<"strfry">>)
            OfService(e) == e.key \in DOMAIN Owner /\ Owner[e.key] # "core"
            Of(p) == SelectSeq(cfg, LAMBDA e : OfService(e) /\ Owner[e.key] = p)
        IN  /\ [i \in DOMAIN out |-> out[i].profile] =
                   SelectSeq(asked, LAMBDA p : p # "")
            /\ \A i \in DOMAIN out :
                  /\ SelectSeq(out[i].limits, OfService) = Of(out[i].profile)
                  /\ \A e \in ToSet(out[i].limits) : e.key \in DOMAIN Owner

(* As docs/admin-ui.md has it, a service with pinned limits reports its    *)
(* preset as custom rather than naming one that it no longer follows.      *)
PinnedReportsCustom ==
    Did("config") =>
        \A i \in DOMAIN out :
            (\E e \in ToSet(out[i].limits) : e.src = <<"custom">>)
               => out[i].preset = "custom"

(* Each panel of the status page tells what its own tool printed, or why   *)
(* that tool said nothing, whatever became of the other two; of the bans   *)
(* it shows the ones that last longest, permanent ones first; a row of the *)
(* guard has the label and the value of one that was printed.              *)
Outlasts(a, b) == a.until = 0 \/ (b.until # 0 /\ a.until >= b.until)
Printed == {[label |-> l, value |-> <<"7">>] :
               l \in {<<"passed">>, <<"dropped", "(ban)">>, <<"dropped", "(throttle)">>,
                      <<"not", "ipv6">>, <<"parse", "failed">>}}
           \cup {[label |-> <<"throttle">>, value |-> <<"7", "pkt/s", "...">>],
                 [label |-> <<"bans">>, value |-> <<"7", "active">>]}
StatusHonest ==
    Did("status") =>
        LET listed == {i \in DOMAIN in.bans.out :
                          Len(in.bans.out[i]) = 2 /\ in.bans.out[i][2] >= 0}
            shown == out.bans.rows
        IN  /\ \A t \in DOMAIN in :
                  /\ out[t].ok = (in[t].exit = 0)
                  /\ ~out[t].ok => /\ out[t].rows = <<>>
                                   /\ out[t].error = "why" <=> in[t].stderr = <<"why">>
            /\ out.bans.ok =>
                  /\ out.bans.count = Cardinality(listed)
                  /\ Len(shown) = Min({MaxShown, Cardinality(listed)})
                  /\ \A i \in DOMAIN shown :
                        /\ shown[i].remaining = Max({0, shown[i].until - Now})
                        /\ \A j \in i + 1 .. Len(shown) : Outlasts(shown[i], shown[j])
                        /\ Cardinality({k \in listed :
                              ~Outlasts(shown[i], [until |-> in.bans.out[k][2]])}) < i
            /\ ToSet(out.guard.rows) \subseteq Printed

(* The guard's panel shows every row that fips-guard stats printed, as the *)
(* comment in guard_stats() means it to, with labels that have spaces in   *)
(* them.                                                                   *)
EveryCounterShown ==
    Did("status") /\ out.guard.ok => Printed \subseteq ToSet(out.guard.rows)

(* The object is compiled by the operator's compiler or not at all; where  *)
(* none is named, by plain clang if that runs and by the newest that runs  *)
(* otherwise, so that the build fails only where nothing runs.             *)
Usable(env) ==
    LET found == {Clang} \cup
                 {n \in UNION {ToSet(env.path[i]) : i \in DOMAIN env.path} : n.v >= 0}
    IN  (IF env.clang # None THEN {env.clang} ELSE found) \cap env.works
BestChoice(env, made) ==
    IF made.how = "compiled"
    THEN /\ made.by \in Usable(env)
         /\ env.clang = None =>
               made.by = Clang \/ (Clang \notin Usable(env) /\
                                   \A c \in Usable(env) : c.v <= made.by.v)
    ELSE Usable(env) = {} \/ ~env.compiles
BestCompiler == Did("build") /\ in.prebuilt = "unset" => BestChoice(in, out)
===============================================================================
