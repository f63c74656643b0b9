------------------------------- MODULE Collect -------------------------------
(***************************************************************************)
(* What the dashboard makes of the tools it runs (ui/src/collect.rs and    *)
(* api_status of ui/src/main.rs).                                          *)
(*                                                                         *)
(* Text is abstract: a configuration key SHIELD_<FAMILY>_<NAME> is         *)
(* <<family, name>>, with "" for no family; a value is the sequence of its *)
(* comma-separated parts; a source is <<"custom">> or <<"preset", scope,   *)
(* level>>.  A line of shield-config or of shield-ban is the sequence of   *)
(* its fields, a line of fips-guard stats the sequence of its words, each  *)
(* with the number of spaces after it.                                     *)
(***************************************************************************)
EXTENDS Integers, Sequences, SequencesExt, JsonWriter, Sorting

CONSTANTS LimitNames, \* names with RATE, MAX, TIMEOUT or BURST in them
          MaxShown,   \* bans on the status page
          Forever     \* u64::MAX

(* run: a tool's output, or why there is none.  exit is -1 where the tool  *)
(* could not be started.                                                   *)
run(tool) ==
    IF tool.exit = 0 THEN [ok |-> TRUE, out |-> tool.out]
    ELSE [ok |-> FALSE,
          why |-> CASE tool.exit = -1 -> "os-error"
                    [] tool.exit > 0 /\ tool.stderr # <<>> -> Head(tool.stderr)
                    [] OTHER -> "exit-status"]
------------------------------------------------------------------------------
(* Config::load: SOURCE, KEY and, if there is one, VALUE. *)
load(lines) ==
    LET whole == SelectSeq(lines, LAMBDA l : Len(l) >= 2)
    IN  [i \in DOMAIN whole |->
            [src |-> whole[i][1], key |-> whole[i][2],
             val |-> IF Len(whole[i]) > 2 THEN whole[i][3] ELSE <<"">>]]

(* Config::get and Config::source, with what stands in for a missing key. *)
get(cfg, key, default) ==
    LET i == SelectInSeq(cfg, LAMBDA e : e.key = key)
    IN  IF i = 0 THEN default ELSE cfg[i].val
source(cfg, key) ==
    LET i == SelectInSeq(cfg, LAMBDA e : e.key = key)
    IN  IF i = 0 THEN <<"none">> ELSE cfg[i].src

(* The enabled profiles; a trailing comma leaves none behind it. *)
profiles(cfg) ==
    SelectSeq(get(cfg, <<"", "PROFILES">>, <<"strfry">>), LAMBDA p : p # "")

NoKey == <<"", "">>
Prefixed(f) == [service |-> <<f, "SERVICE">>, port |-> <<f, "LISTEN_PORT">>,
                upstream |-> <<f, "UPSTREAM">>, rate |-> <<f, "CONN_RATE">>]
keys_for(profile) ==
    CASE profile = "strfry" ->
            [service |-> NoKey, port |-> <<"", "LISTEN_PORT">>,
             upstream |-> <<"", "UPSTREAM">>, rate |-> <<"STRFRY", "CONN_RATE">>]
      [] profile = "http" -> Prefixed("HTTP")
      [] profile = "tcp" -> Prefixed("TCP")
      [] OTHER -> [service |-> NoKey, port |-> NoKey, upstream |-> NoKey,
                   rate |-> NoKey]

(* The slip takes every key without a family of its own for strfry's. *)
relevant_to_loose(key, profile) ==
    CASE profile = "http" -> key[1] = "HTTP"
      [] profile = "tcp" -> key[1] = "TCP"
      [] OTHER -> key[1] \notin {"HTTP", "TCP"}
relevant_to(key, profile) ==
    CASE profile = "http" -> key[1] = "HTTP"
      [] profile = "tcp" -> key[1] = "TCP"
      [] profile = "strfry" -> \/ key[1] \in {"WS", "STRFRY", "HANDSHAKE"}
                               \/ key = <<"", "MAX_CONNS_PER_NODE">>
      [] OTHER -> FALSE

service(cfg, profile) ==
    LET k == keys_for(profile)
        s == source(cfg, k.rate)
    IN  [profile |-> profile,
         name |-> IF k.service = NoKey THEN <<profile>>
                  ELSE get(cfg, k.service, <<profile>>),
         port |-> get(cfg, k.port, <<"">>),
         upstream |-> get(cfg, k.upstream, <<"">>),
         preset |-> IF s[1] = "preset" /\ Len(s) > 2 THEN s[3] ELSE "custom",
         limits |-> SelectSeq(cfg, LAMBDA e :
                        e.key[2] \in LimitNames /\ relevant_to(e.key, profile))]

services(cfg) ==
    [i \in DOMAIN profiles(cfg) |-> service(cfg, profiles(cfg)[i])]
------------------------------------------------------------------------------
(* A line of shield-ban list; an expiry that is no u64 is not a ban. *)
bans(lines) ==
    LET whole == SelectSeq(lines, LAMBDA l : Len(l) >= 2 /\ l[2] >= 0)
    IN  [i \in DOMAIN whole |-> [addr |-> whole[i][1], until |-> whole[i][2]]]

ban_json(b, now) ==
    [addr |-> b.addr, until |-> b.until, permanent |-> b.until = 0,
     remaining |-> IF b.until > now THEN b.until - now ELSE 0]

(* The order of the status page.  The slip forgets that 0 is no moment. *)
SortKey_plain(b) == b.until
SortKey(b) == IF b.until = 0 THEN Forever ELSE b.until
recent(bs) == Reverse(sort_by_key(bs, [i \in DOMAIN bs |-> SortKey(bs[i])]))

(* cmd_stats: the rows it prints, with the spaces between label and value. *)
Word(w, spaces) == [w |-> w, sp |-> spaces]
Row(label, pad, value) ==
    LET all == label \o value
    IN  [i \in DOMAIN all |->
            Word(all[i], IF i = Len(all) THEN 0 ELSE IF i = Len(label) THEN pad ELSE 1)]
cmd_stats(count, throttled) ==
    <<Row(<<"passed">>, 13, <<count>>),
      Row(<<"dropped", "(ban)">>, 6, <<count>>),
      Row(<<"dropped", "(throttle)">>, 1, <<count>>),
      Row(<<"not", "ipv6">>, 11, <<count>>),
      Row(<<"parse", "failed">>, 7, <<count>>),
      Row(<<"throttle">>, 11, IF throttled THEN <<count, "pkt/s", "...">>
                              ELSE <<"disabled">>),
      Row(<<"bans">>, 15, <<count, "active">>)>>

(* Where a row is cut: at the first two spaces in a row, if there are two. *)
CutAt(l) == SelectInSeq(l, LAMBDA x : x.sp >= 2)
Words(l) == [i \in DOMAIN l |-> l[i].w]
guard_stats(lines) ==
    LET cut == SelectSeq(lines, LAMBDA l : CutAt(l) > 0)
    IN  [i \in DOMAIN cut |->
            [label |-> Words(SubSeq(cut[i], 1, CutAt(cut[i]))),
             value |-> Words(SubSeq(cut[i], CutAt(cut[i]) + 1, Len(cut[i])))]]
------------------------------------------------------------------------------
(* api_status: three panels, each from its own tool. *)
ConfigPanel(r) ==
    IF r.ok THEN [ok |-> TRUE, rows |-> services(load(r.out))]
    ELSE [ok |-> FALSE, rows |-> <<>>, error |-> r.why]
BansPanel(r, now) ==
    IF r.ok
    THEN LET bs == bans(r.out)
             top == SubSeq(recent(bs), 1, Min({MaxShown, Len(bs)}))
         IN  [ok |-> TRUE, count |-> Len(bs),
              rows |-> [i \in DOMAIN top |-> ban_json(top[i], now)]]
    ELSE [ok |-> FALSE, count |-> 0, rows |-> <<>>, error |-> r.why]
GuardPanel(r) ==
    IF r.ok THEN [ok |-> TRUE, rows |-> guard_stats(r.out)]
    ELSE [ok |-> FALSE, rows |-> <<>>, error |-> r.why]

api_status(tools, now) ==
    [config |-> ConfigPanel(run(tools.config)),
     bans |-> BansPanel(run(tools.bans), now),
     guard |-> GuardPanel(run(tools.guard))]
------------------------------------------------------------------------------
(* The bodies of /api/logs and of an error, and a row of the services. *)
LogsBody(name, kind, lines) ==
    Obj(<<StrMember(<<"service">>, name), StrMember(<<"kind">>, kind),
          Raw(<<"lines">>, str_arr(lines))>>)
ErrorBody(msg) == Obj(<<StrMember(<<"error">>, msg)>>)
service_json(s) ==
    Obj(<<StrMember(<<"profile">>, s.profile), StrMember(<<"name">>, s.name),
          StrMember(<<"port">>, s.port), StrMember(<<"upstream">>, s.upstream),
          StrMember(<<"preset">>, s.preset),
          Raw(<<"limits">>, arr([i \in DOMAIN s.limits |->
              Obj(<<StrMember(<<"key">>, s.limits[i].key),
                    StrMember(<<"value">>, s.limits[i].val),
                    StrMember(<<"source">>, s.limits[i].src)>>)]))>>)
==============================================================================
