--------------------------------- MODULE Routes ---------------------------------
(***************************************************************************)
(* Temporary routing of a phone number: point_inbound writes a rollback    *)
(* token to the telephony ledger and changes the number at the carrier,    *)
(* restore puts the settings of the token's snapshot back.                 *)
(*                                                                         *)
(* Each session (a development server, an operator's command, recovery     *)
(* after a crash) talks to the ledger and to the carrier in separate       *)
(* steps, and other people may change the number in between.               *)
(***************************************************************************)
EXTENDS Integers, FiniteSets

CONSTANTS
    Tokens,         \* routing tokens; each belongs to one point_inbound
    Restorers,      \* executions of restore
    Original, Foreign, \* settings: the number's first ones, and somebody else's
    NoToken,
    MaxForeign      \* bound: changes made by others

\* The settings a token's session applies: its own public URL.
Applied(k) == k

ASSUME RoutesAssumption ==
    /\ Original # Foreign /\ {Original, Foreign} \cap Tokens = {}
    /\ NoToken \notin Tokens /\ MaxForeign \in Nat

VARIABLES
    route,      \* the number's settings at the carrier
    routes,     \* table telephony_routes
    pointing,   \* per token: where its point_inbound is
    restoring,  \* per execution of restore: where it is
    foreignLeft \* changes that others may still make

routesVars == <<route, routes, pointing, restoring, foreignLeft>>

-----------------------------------------------------------------------------
Settings == Tokens \cup {Original, Foreign}

RouteStates == {"absent", "prepared", "applied", "ambiguous", "restored", "conflict", "failed"}

\* transition_route: compare and set on the state; a lost race is an error.
Transition(k, expected, state) ==
    routes' = IF routes[k].state \in expected THEN [routes EXCEPT ![k].state = state] ELSE routes

\* The current settings are the snapshot; until the row exists, the session's own.
PointInbound(k) ==
    /\ pointing[k] = "idle"
    /\ routes' = [routes EXCEPT ![k].snapshot = route]
    /\ pointing' = [pointing EXCEPT ![k] = "fetched"]
    /\ UNCHANGED <<route, restoring, foreignLeft>>

\* An update that is sent before its rollback data is durable.
SendUnprepared(k) ==
    /\ pointing[k] = "fetched"
    /\ pointing' = [pointing EXCEPT ![k] = "sent"]
    /\ UNCHANGED <<route, routes, restoring, foreignLeft>>

\* prepare_route makes the token durable, then the update is sent.
Prepare(k) ==
    /\ pointing[k] = "fetched"
    /\ routes' = [routes EXCEPT ![k].state = "prepared"]
    /\ pointing' = [pointing EXCEPT ![k] = "sent"]
    /\ UNCHANGED <<route, restoring, foreignLeft>>

\* The carrier may apply a request long after its sender gave up.
CarrierApplies(k) ==
    /\ pointing[k] \in {"sent", "late"}
    /\ route' = Applied(k)
    /\ pointing' = [pointing EXCEPT ![k] = IF @ = "sent" THEN "applied" ELSE "over"]
    /\ UNCHANGED <<routes, restoring, foreignLeft>>

CarrierRefuses(k) ==
    /\ pointing[k] = "sent"
    /\ pointing' = [pointing EXCEPT ![k] = "refused"]
    /\ UNCHANGED <<route, routes, restoring, foreignLeft>>

\* The session hears the carrier's answer ...
HearAnswer(k) ==
    /\ \/ pointing[k] = "applied" /\ Transition(k, {"prepared"}, "applied")
       \/ pointing[k] = "refused" /\ Transition(k, {"prepared"}, "failed")
    /\ pointing' = [pointing EXCEPT ![k] = "over"]
    /\ UNCHANGED <<route, restoring, foreignLeft>>

\* ... or nothing conclusive; or its process dies and nothing is written.
HearNoAnswer(k) ==
    /\ pointing[k] \in {"sent", "applied", "refused"}
    /\ Transition(k, {"prepared"}, "ambiguous") \/ UNCHANGED routes
    /\ pointing' = [pointing EXCEPT ![k] = IF @ = "sent" THEN "late" ELSE "over"]
    /\ UNCHANGED <<route, restoring, foreignLeft>>

-----------------------------------------------------------------------------
(* restore *)

IdleRestore == [pc |-> "idle", token |-> NoToken, seen |-> "absent"]

Restore(r, k) ==
    /\ restoring[r].pc = "idle"
    /\ routes[k].state \notin {"absent", "restored"}
    /\ restoring' = [restoring EXCEPT ![r] =
         [pc |-> "read", token |-> k, seen |-> routes[k].state]]
    /\ UNCHANGED <<route, routes, pointing, foreignLeft>>

\* The current settings decide: nothing to do, somebody else's, or the token's own.
Decide(r) ==
    LET k == restoring[r].token
        seen == {restoring[r].seen}
    IN  /\ restoring[r].pc = "read"
        /\ \/ /\ route = routes[k].snapshot
              /\ Transition(k, seen, "restored")
              /\ restoring' = [restoring EXCEPT ![r].pc = "over"]
           \/ /\ route \notin {routes[k].snapshot, Applied(k)}
              /\ Transition(k, seen, "conflict")
              /\ restoring' = [restoring EXCEPT ![r].pc = "over"]
           \/ /\ route = Applied(k) /\ route # routes[k].snapshot
              /\ restoring' = [restoring EXCEPT ![r].pc = "update"]
              /\ UNCHANGED routes
        /\ UNCHANGED <<route, pointing, foreignLeft>>

CarrierRestores(r) ==
    LET k == restoring[r].token
    IN  /\ restoring[r].pc = "update"
        /\ route' = routes[k].snapshot
        /\ restoring' = [restoring EXCEPT ![r].pc = "updated"]
        /\ UNCHANGED <<routes, pointing, foreignLeft>>

\* The confirmed restore is written; an unconfirmed one leaves the token open.
Confirm(r) ==
    /\ restoring[r].pc = "updated"
    /\ Transition(restoring[r].token, {restoring[r].seen}, "restored")
    /\ restoring' = [restoring EXCEPT ![r].pc = "over"]
    /\ UNCHANGED <<route, pointing, foreignLeft>>

GiveUp(r) ==
    /\ restoring[r].pc \in {"read", "update", "updated"}
    /\ restoring' = [restoring EXCEPT ![r].pc = "over"]
    /\ UNCHANGED <<route, routes, pointing, foreignLeft>>

\* Somebody else changes the number.
ForeignChange ==
    /\ foreignLeft > 0
    /\ route' = Foreign
    /\ foreignLeft' = foreignLeft - 1
    /\ UNCHANGED <<routes, pointing, restoring>>

-----------------------------------------------------------------------------
RoutesInit ==
    /\ route = Original
    /\ routes = [k \in Tokens |-> [state |-> "absent", snapshot |-> Original]]
    /\ pointing = [k \in Tokens |-> "idle"]
    /\ restoring = [r \in Restorers |-> IdleRestore]
    /\ foreignLeft = MaxForeign

RoutesNext ==
    \/ \E k \in Tokens :
         \/ PointInbound(k) \/ Prepare(k) \/ CarrierApplies(k) \/ CarrierRefuses(k)
         \/ HearAnswer(k) \/ HearNoAnswer(k)
    \/ \E r \in Restorers, k \in Tokens : Restore(r, k)
    \/ \E r \in Restorers : Decide(r) \/ CarrierRestores(r) \/ Confirm(r) \/ GiveUp(r)
    \/ ForeignChange

RoutesSpec == RoutesInit /\ [][RoutesNext]_routesVars

-----------------------------------------------------------------------------
(* Properties *)

RoutesTypeOK ==
    /\ route \in Settings
    /\ routes \in [Tokens -> [state : RouteStates, snapshot : Settings]]
    /\ pointing \in [Tokens -> {"idle", "fetched", "sent", "applied", "refused", "late", "over"}]
    /\ \A r \in Restorers :
         /\ restoring[r].pc \in {"idle", "read", "update", "updated", "over"}
         /\ restoring[r].token \in Tokens \cup {NoToken} /\ restoring[r].seen \in RouteStates
    /\ foreignLeft \in 0..MaxForeign

\* Undoing one token after the other leads through the least set of settings that has
\* the number's and, with a token's own, those that the token saved.
LeadsBack(S) == route \in S /\ \A k \in S \cap Tokens : routes[k].snapshot \in S

Trail == {x \in Settings : \A S \in SUBSET Settings : LeadsBack(S) => x \in S}

\* The tokens of the ledger lead from the number's settings back to settings no
\* session made: rollback data is durable before the number changes, and sessions
\* that point the number over each other cannot lose it.
NumberIsRecoverable ==
    /\ ~(Trail \subseteq Tokens)
    /\ \A k \in Trail \cap Tokens : routes[k].state # "absent"

===============================================================================
