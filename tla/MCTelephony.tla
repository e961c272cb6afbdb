------------------------------ MODULE MCTelephony ------------------------------
(* Checks the three parts of the telephony ledger.  They share its file and   *)
(* its writer lock but no rows: each behaviour exercises the part in `focus`. *)
EXTENDS Routes, Outbound, WarmTransfer

VARIABLE focus

CONSTANT Parts

TelephonyInit ==
    /\ focus \in Parts
    /\ RoutesInit /\ OutboundInit /\ WarmInit

TelephonyNext ==
    /\ \/ focus = "routes" /\ RoutesNext /\ UNCHANGED <<outboundVars, warmVars>>
       \/ focus = "outbound" /\ OutboundNext /\ UNCHANGED <<routesVars, warmVars>>
       \/ focus = "warm" /\ WarmNext /\ UNCHANGED <<routesVars, outboundVars>>
    /\ UNCHANGED focus

TelephonySpec == TelephonyInit /\ [][TelephonyNext]_<<routesVars, outboundVars, warmVars, focus>>

TelephonyTypeOK == RoutesTypeOK /\ OutboundTypeOK /\ WarmTypeOK
===============================================================================
