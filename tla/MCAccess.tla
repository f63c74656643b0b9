------------------------------- MODULE MCAccess -------------------------------
(* Two listeners that differ in rate and window, and one without a banlist *)
(* or a rate.                                                              *)
EXTENDS Access, TLC

CONSTANTS ssh, relay, web

MCPolicy ==
    (ssh :> [banFile |-> TRUE, connRate |-> 1, connWindow |-> 2]) @@
    (relay :> [banFile |-> TRUE, connRate |-> 2, connWindow |-> 3]) @@
    (web :> [banFile |-> FALSE, connRate |-> 0, connWindow |-> 2])
===============================================================================
