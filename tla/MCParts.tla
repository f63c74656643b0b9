-------------------------------- MODULE MCParts --------------------------------
(***************************************************************************)
(* The parts that the rest of the system meets only by their results: a    *)
(* token bucket, the handshake sniffer, a connection of the dashboard, and *)
(* the functions that keep no state.  A behaviour is one of any one of     *)
(* them; the others stay as they start.                                    *)
(***************************************************************************)
EXTENDS TokenBucket, WsHandshake, Dashboard, MCAlgorithms

VARIABLE part \* the one that runs

(* The starting state of a part that does not run. *)
Resting(p) == part # p
PartsInit ==
    /\ part \in {"bucket", "sniffer", "dashboard", "functions"}
    /\ Init
    /\ \/ ~Resting("sniffer")
       \/ Resting("sniffer") /\ stream = [i \in 1 .. StreamLen |-> "CR"]
    /\ HsInit
    /\ \/ ~Resting("dashboard")
       \/ Resting("dashboard") /\ listed = FALSE
    /\ UiInit
    /\ \/ ~Resting("functions")
       \/ Resting("functions") /\ alg = "filters" /\ in = <<>>
    /\ AlgInit

PartsNext ==
    \/ part = "bucket" /\ Next /\ UNCHANGED <<part, hsVars, uiVars, algVars>>
    \/ part = "sniffer" /\ HsNext /\ UNCHANGED <<part, vars, uiVars, algVars>>
    \/ part = "dashboard" /\ UiNext /\ UNCHANGED <<part, vars, hsVars, algVars>>
    \/ part = "functions" /\ AlgNext /\ UNCHANGED <<part, vars, hsVars, uiVars>>

(* The fairness is the dashboard's. *)
PartsSpec ==
    /\ PartsInit /\ [][PartsNext]_<<part, vars, hsVars, uiVars, algVars>>
    /\ WF_uiVars(part = "dashboard" /\ Server)
===============================================================================
