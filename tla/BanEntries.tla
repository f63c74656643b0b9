------------------------------ MODULE BanEntries ------------------------------
(***************************************************************************)
(* Ban lists as every backend keeps them: for each address the second at   *)
(* which its ban ends, 0 for a ban that does not (fail2ban's bantime -1),  *)
(* and -1 here for an address that is not in the list.                     *)
(***************************************************************************)
EXTENDS Integers

CONSTANT Ips \* addresses

Permanent == 0
NoBan == -1

Lists == [Ips -> Int]
Empty == [ip \in Ips |-> NoBan]

(* Is an entry in force at time t? *)
Active(until, t) == until = Permanent \/ until > t

(* What the rest of a list may look like after an operation on ip at time  *)
(* t: every other entry is kept, unless it has expired.                    *)
Pruned(old, new, ip, t) ==
    \A j \in Ips \ {ip} :
        new[j] = old[j] \/ (new[j] = NoBan /\ ~Active(old[j], t))
===============================================================================
