------------------------------- MODULE MCDurable -------------------------------
(* Checks what stands behind a call: the host that owns it while it lasts, the    *)
(* delivery of its results and the recovery of stale calls.  Each behaviour       *)
(* exercises the part in `focus`: delivery or recovery with all they can meet, the*)
(* two together on the tables they share ("both", with smaller bounds), or the    *)
(* host, whose model has its own short row of a call.                             *)
EXTENDS Outbox, Recovery, PipecatHost, TLC

CONSTANTS c1, host, p1, p2, e1, e2

VARIABLE focus

CONSTANTS Parts,
          DeliveryTime,  \* bound: the clock of a behaviour that exercises delivery
          MaxIncidents   \* bound: crashes, faults, resets and reports where both parts move

TwoAttempts == <<0, 1>>

Symmetry == Permutations(EventIds)

durableVars == <<storeVars, deliveryVars, sweepVars, hostVars, focus>>

\* Delivery does not look at why a call ended: one reason stands for all.
OneReason == \A c \in Calls : calls[c].reason \in {"none", "provider_hangup"}

DurableInit == focus \in Parts /\ OutboxInit /\ RecoveryInit /\ HostInit

\* The delivery workers and the operator beside the sweeps, the calls' workers and the
\* carriers, on one repository.
BothNext ==
    \/ DeliveryNext /\ UNCHANGED sweepVars
    \/ RecoveryNext /\ UNCHANGED deliveryVars

\* Bounds of "both": what happens beside the workers' and the sweeps' own steps.
FewIncidents ==
    /\ crashes + faults + Cardinality(redelivered)
         + Cardinality({c \in Calls : heard[c].reports > 0}) <= MaxIncidents
    /\ \A c \in Calls : heard[c].reports <= 1

DurableNext ==
    /\ \/ /\ focus = "outbox" /\ OutboxNext /\ UNCHANGED <<sweepVars, hostVars>>
          /\ OneReason' /\ now' <= DeliveryTime
       \/ focus = "recovery" /\ RecoveryNext /\ UNCHANGED <<deliveryVars, hostVars>>
       \/ /\ focus = "both" /\ BothNext /\ UNCHANGED hostVars
          /\ FewIncidents' /\ now' <= DeliveryTime
       \/ focus = "host" /\ HostNext /\ UNCHANGED <<storeVars, deliveryVars, sweepVars>>
    /\ UNCHANGED focus

DurableSpec == DurableInit /\ [][DurableNext]_durableVars

Delivering(A) == focus = "outbox" /\ A /\ UNCHANGED <<sweepVars, hostVars, focus>>
Recovering(A) == focus = "recovery" /\ A /\ UNCHANGED <<deliveryVars, hostVars, focus>>

\* Each part's fairness, in the behaviours that exercise it.
DurableFairness ==
    /\ WF_hostVars(focus = "host" /\ Reservation)
    /\ \A c \in HostCalls : WF_hostVars(focus = "host" /\ CallGoesOn(c))
    /\ WF_durableVars(Delivering(OutboxTick /\ now' <= DeliveryTime))
    /\ WF_durableVars(Recovering(RecoveryTick))
    /\ \A w \in DeliveryWorkers :
         WF_durableVars(Delivering(DeliveryStep(w))) /\ WF_durableVars(Delivering(Restart(w)))
    /\ \A s \in Sweepers : WF_durableVars(Recovering(SweepStep(s)))

\* "delivery is attempted until the receiver acknowledges it or the delivery is
\* visibly dead-lettered", across crashes, lost answers and resets.
DeliveriesSettle == focus = "outbox" => EveryEventIsSettled

\* Once its worker is gone no call stays active: recovery ends it, through failed
\* passes and dying sweepers.
RecoveryEndsCalls == focus = "recovery" => AbandonedCallsEnd

DurableTypeOK == OutboxTypeOK /\ RecoveryTypeOK /\ HostTypeOK
===============================================================================
