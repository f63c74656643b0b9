-------------------------------- MODULE Access --------------------------------
(***************************************************************************)
(* The accept stage of every listener: shield_core.access(), the js_access *)
(* hook of core/njs/shield_core.js.  Each connection has its own njs VM;   *)
(* what outlives it is the shared dict shield_connrate, which holds the    *)
(* connection counters of all listeners and the gates of the warnings.     *)
(* One call is one step: incr() and add() are atomic, and the only other   *)
(* state it reads is the banlist.                                          *)
(***************************************************************************)
EXTENDS Integers, Sequences, FiniteSets, Functions

CONSTANTS Ports,      \* listeners
          Nodes,      \* source addresses
          policy,     \* of each port: [banFile, connRate, connWindow]
          MaxTime,    \* bound: clock
          MaxConns,   \* bound: connections
          MaxEvicted, \* bound: entries the dict drops when its zone is full
          MaxChanges  \* bound: changes of the banlist

ASSUME AccessAssumption ==
    /\ \A l \in Ports : /\ policy[l].banFile \in BOOLEAN
                        /\ policy[l].connRate \in Nat
                        /\ policy[l].connWindow \in Nat \ {0}
    /\ {MaxTime, MaxConns, MaxEvicted, MaxChanges} \subseteq Nat

VARIABLES
    dict,      \* ngx.shared.shield_connrate: a function on the keys present
    banned,    \* the addresses with a ban in force
    list,      \* the banlist: "whole"; "gone", its stat fails; or "unreadable",
               \* the stat works and the read after it does not
    now,       \* seconds
    conns,     \* history: every connection and what became of it
    warned,    \* history: the warnings logged, with the connection's number
    evicted,   \* history: the keys dropped
    changes
vars == <<dict, banned, list, now, conns, warned, evicted, changes>>

(* A counter's key names listener, source and window.  The slip leaves the *)
(* listener out.                                                           *)
Window(l) == now \div policy[l].connWindow
CounterKey_address_only(l, n) == <<"conn", n, Window(l)>>
CounterKey(l, n) == <<"conn", l, n, Window(l)>>

(* warnPeriodically()'s keys; the slip has one for all listeners. *)
WarnKey_shared(what, l) == <<"warn", what>>
WarnKey(what, l) == <<"warn", what, l>>

Init ==
    /\ dict = [k \in {} |-> 0] /\ banned = {} /\ list = "whole" /\ now = 0
    /\ conns = <<>> /\ warned = {} /\ evicted = <<>> /\ changes = 0

Keys == DOMAIN dict
With(d, k, v) == [x \in DOMAIN d \cup {k} |-> IF x = k THEN v ELSE d[x]]
Count(k) == IF k \in Keys THEN dict[k] ELSE 0

(* isBanned(): a list that loadBans() does not get to read bans nobody; a  *)
(* new VM has no earlier view of it to keep.                               *)
isBanned(l, n) == policy[l].banFile /\ list = "whole" /\ n \in banned

(* What access() warns about, if anything: banLoadFailed is set where the  *)
(* stat fails, and cleared again before the read.                          *)
Trouble(l) == IF ~policy[l].banFile THEN "nobanfile"
              ELSE IF list = "gone" THEN "banload" ELSE "none"

(* dict.add(key, 1) gates the warning. *)
Warn(l) ==
    IF Trouble(l) # "none" /\ WarnKey(Trouble(l), l) \notin Keys
    THEN [dict |-> With(dict, WarnKey(Trouble(l), l), 1), said |-> {Trouble(l)}]
    ELSE [dict |-> dict, said |-> {}]

(* connRateExceeded().  The slip compares the count before this one.       *)
Exceeds_late(l, n) == Count(CounterKey(l, n)) > policy[l].connRate
Exceeds(l, n) == Count(CounterKey(l, n)) + 1 > policy[l].connRate

access(l, n) ==
    /\ Len(conns) < MaxConns
    /\ LET w == Warn(l)
           rated == policy[l].connRate # 0
           outcome == IF isBanned(l, n) THEN "banned"
                      ELSE IF rated /\ Exceeds(l, n) THEN "conn-rate" ELSE "allow"
       IN  /\ dict' = IF isBanned(l, n) \/ ~rated THEN w.dict
                      ELSE With(w.dict, CounterKey(l, n), Count(CounterKey(l, n)) + 1)
           /\ conns' = Append(conns, [port |-> l, node |-> n, at |-> now,
                                      listed |-> n \in banned,
                                      unread |-> policy[l].banFile /\ list = "unreadable",
                                      out |-> outcome])
           /\ warned' = warned \cup {[port |-> l, at |-> Len(conns')] : s \in w.said}
    /\ UNCHANGED <<banned, list, now, evicted, changes>>

(* The dict drops an entry: its timeout, or room for another one. *)
Evict ==
    /\ Len(evicted) < MaxEvicted
    /\ \E k \in Keys :
        /\ dict' = Restrict(dict, Keys \ {k})
        /\ evicted' = Append(evicted, k)
    /\ UNCHANGED <<banned, list, now, conns, warned, changes>>

BanlistChange ==
    /\ changes < MaxChanges /\ changes' = changes + 1
    /\ \/ /\ \E n \in Nodes : banned' = (banned \ {n}) \cup ({n} \ banned)
          /\ UNCHANGED list
       \/ list' \in {"whole", "gone", "unreadable"} \ {list} /\ UNCHANGED banned
    /\ UNCHANGED <<dict, now, conns, warned, evicted>>

Tick ==
    /\ now < MaxTime /\ now' = now + 1
    /\ UNCHANGED <<dict, banned, list, conns, warned, evicted, changes>>

Next ==
    \/ \E l \in Ports, n \in Nodes : access(l, n)
    \/ Evict \/ BanlistChange \/ Tick

Spec == Init /\ [][Next]_vars
-------------------------------------------------------------------------------
(* The connections of a node to a listener that ended in out, from t to u. *)
Between(l, n, outs, t, u) ==
    {i \in DOMAIN conns : /\ conns[i].port = l /\ conns[i].node = n
                          /\ conns[i].out \in outs /\ conns[i].at \in t .. u}

(* A node is refused for its rate at a listener only if it opened more     *)
(* connections to that listener, in that window, than that listener's own  *)
(* rate allows, whatever it does elsewhere (shield_core.js:173-186).       *)
RefusedOnlyOverOwnRate ==
    \A i \in DOMAIN conns :
        LET c == conns[i]
            w == policy[c.port].connWindow
            first == (c.at \div w) * w
        IN  c.out = "conn-rate" =>
              Cardinality({j \in Between(c.port, c.node, {"allow", "conn-rate"},
                                         first, c.at) : j <= i})
                 > policy[c.port].connRate

(* What the fixed windows add up to: in any stretch of time as long as a   *)
(* window a node gets at most twice the rate, plus as much for every time  *)
(* its counter was dropped.                                                *)
AcceptedBound ==
    \A l \in Ports, n \in Nodes, t \in 0 .. MaxTime :
        policy[l].connRate # 0 =>
          Cardinality(Between(l, n, {"allow"}, t, t + policy[l].connWindow - 1))
             <= policy[l].connRate *
                  (2 + Cardinality({i \in DOMAIN evicted :
                          evicted[i][1] = "conn" /\ evicted[i][2] = l
                             /\ evicted[i][3] = n}))

(* Ban enforcement is never off without a word, as the comment in access() *)
(* wants it: a listed node gets in only where, then or before, a warning   *)
(* was logged about that listener.                                         *)
Warned(i) == \E w \in warned : w.port = conns[i].port /\ w.at <= i
NeverSilentlyOff ==
    \A i \in DOMAIN conns :
        conns[i].listed /\ conns[i].out = "allow" => Warned(i)

(* What the code gives of that: where the listener has no banlist, or the  *)
(* list is missing, a listed node gets in only past a warning about that   *)
(* very listener, however the entries of the dict that gate the warnings   *)
(* are dropped.  A list that is there and cannot be read is excepted.      *)
MissingListIsSaid ==
    \A i \in DOMAIN conns :
        conns[i].listed /\ conns[i].out = "allow" /\ ~conns[i].unread => Warned(i)
===============================================================================
