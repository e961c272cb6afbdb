--------------------------------- MODULE MCLive ---------------------------------
(* Checks the two ways a call comes in: the carriers' side with the telephony    *)
(* ledger, and the browser playground.  They share no state: each behaviour      *)
(* exercises the part in `focus`.                                                *)
EXTENDS MCTelephony, Playground

LiveInit ==
    /\ TelephonyInit /\ PageInit
    /\ focus # "page" => serving = CHOOSE r \in Runtimes : TRUE

LiveNext ==
    \/ TelephonyNext /\ UNCHANGED pageVars
    \/ focus = "page" /\ PageNext /\ UNCHANGED <<routesVars, outboundVars, warmVars, focus>>

LiveSpec == LiveInit /\ [][LiveNext]_<<routesVars, outboundVars, warmVars, pageVars, focus>>

LiveTypeOK == TelephonyTypeOK /\ PlaygroundTypeOK
=================================================================================
