----------------------------- MODULE BanRegistry -----------------------------
(***************************************************************************)
(* What an enforcement backend promises (docs/verdict-schema.md, the       *)
(* shield-ban CLI): a list of bans on which every ban and unban that is    *)
(* asked for takes effect once, at one moment, or not at all, and touches  *)
(* no other address.  Entries that have expired may be dropped at any      *)
(* time; an entry in force is dropped only by an unban of its address.     *)
(*                                                                         *)
(* A backend that may tear (MayTear) promises less: a request can also end *)
(* in the loss of entries, its own and others', but never adds one.  One   *)
(* on storage that may be lost (MayLose) may also find itself empty.       *)
(***************************************************************************)
EXTENDS BanEntries

CONSTANTS Clients, \* who asks: runs of the CLI
          Ttls,    \* ban lengths in seconds; 0 is a permanent ban
          MayTear, MayLose,
          MaxTime  \* bound: clock

VARIABLES bans, \* the registry
          todo, \* what each client has asked for and not got yet
          now   \* clock, in seconds
vars == <<bans, todo, now>>

Nothing == [op |-> "none"]

Init == bans = Empty /\ todo = [c \in Clients |-> Nothing] /\ now = 1

AskBan(c, ip, ttl) ==
    /\ todo[c] = Nothing
    /\ todo' = [todo EXCEPT ![c] =
                  [op |-> "ban", ip |-> ip,
                   until |-> IF ttl = 0 THEN Permanent ELSE now + ttl]]
    /\ UNCHANGED <<bans, now>>

AskUnban(c, ip) ==
    /\ todo[c] = Nothing
    /\ todo' = [todo EXCEPT ![c] = [op |-> "unban", ip |-> ip, until |-> NoBan]]
    /\ UNCHANGED <<bans, now>>

(* The request takes effect; expired entries may go with it. *)
Apply(c) ==
    /\ todo[c] # Nothing
    /\ bans' \in Lists
    /\ bans'[todo[c].ip] = todo[c].until
    /\ Pruned(bans, bans', todo[c].ip, now)
    /\ todo' = [todo EXCEPT ![c] = Nothing]
    /\ UNCHANGED now

(* The request fails, and nothing has happened. *)
Fail(c) ==
    /\ todo[c] # Nothing
    /\ todo' = [todo EXCEPT ![c] = Nothing]
    /\ UNCHANGED <<bans, now>>

(* The request fails and takes entries with it. *)
Tear(c) ==
    /\ MayTear /\ todo[c] # Nothing
    /\ bans' \in Lists /\ bans'[todo[c].ip] = NoBan
    /\ \A j \in Ips : bans'[j] \in {bans[j], NoBan}
    /\ todo' = [todo EXCEPT ![c] = Nothing]
    /\ UNCHANGED now

Expire(ip) ==
    /\ ~Active(bans[ip], now)
    /\ bans' = [bans EXCEPT ![ip] = NoBan]
    /\ UNCHANGED <<todo, now>>

(* The storage behind the registry is lost as a whole (MayLose). *)
Lose == MayLose /\ bans' = Empty /\ UNCHANGED <<todo, now>>

Tick == now < MaxTime /\ now' = now + 1 /\ UNCHANGED <<bans, todo>>

Next ==
    \/ \E c \in Clients, ip \in Ips :
          AskUnban(c, ip) \/ \E ttl \in Ttls : AskBan(c, ip, ttl)
    \/ \E c \in Clients : Apply(c) \/ Fail(c) \/ Tear(c)
    \/ \E ip \in Ips : Expire(ip)
    \/ Lose \/ Tick

Spec == Init /\ [][Next]_vars
==============================================================================
