-------------------------------- MODULE Outbox --------------------------------
(***************************************************************************)
(* Result delivery: DeliveryWorker over the repository's outbox, with the  *)
(* receiver's side of the webhook and the operator's `redeliver`.          *)
(*                                                                         *)
(* A pass leases a batch of due rows in one transaction and then, event by *)
(* event, posts the stored bytes and records the answer in a second one.   *)
(* Between the two the lease can lapse, the operator can reset the row and *)
(* the process can die.  The call's side is CallStore's, cut down to the   *)
(* methods that insert events.                                             *)
(***************************************************************************)
EXTENDS CallStore, Sequences

CONSTANTS
    DeliveryWorkers,    \* a worker's name is the lease_owner it claims with
    ContainerWorkers,   \* workers run by the container's _delivery_loop
    RetryDelays,        \* RETRY_DELAYS_SECONDS: entry n + 1 is the wait after attempt n
    ClaimLimit,         \* rows leased by one pass
    ClaimTTL,           \* ticks a claim is leased for
    MaxCrashes, MaxRedeliveries \* bounds

ASSUME OutboxAssumption ==
    /\ DeliveryWorkers \subseteq Owners /\ ContainerWorkers \subseteq DeliveryWorkers
    /\ RetryDelays \in Seq(Nat) /\ RetryDelays # << >>
    /\ ClaimLimit \in Nat \ {0} /\ ClaimTTL \in Nat \ {0}
    /\ MaxCrashes \in Nat /\ MaxRedeliveries \in Nat

VARIABLES
    running,        \* workers whose process is up
    claims,         \* per worker: the claims of its pass it has not tried yet
    attempt,        \* per worker: the attempt it has posted and not yet settled
    acknowledged,   \* events answered with success since their last reset
    redelivered,    \* events the operator has reset
    crashes         \* how many processes have died

deliveryVars == <<running, claims, attempt, acknowledged, redelivered, crashes>>

outboxVars == <<storeVars, deliveryVars>>

MaxDeliveryAttempts == Len(RetryDelays)

Claim == [event : EventIds, number : Nat]

NoAttempt == [event |-> NoEvent, number |-> 0, at |-> NoTime, success |-> FALSE]

Attempt == [event : EventIds, number : Nat, at : Time, success : BOOLEAN]

-----------------------------------------------------------------------------
(* What the SQL conditions say *)

\* A scan that forgets the rows whose claim lapsed.
DuePending(i, t) ==
    deliveries[i].status = "pending" /\ IsoLeq(deliveries[i].nextAt, t)

\* The due time alone, whatever the status.
DueByTime(i, t) == deliveries[i].nextAt # NoTime /\ IsoLeq(deliveries[i].nextAt, t)

\* WHERE status = 'pending' AND next_attempt_at <= ? OR
\*       status = 'delivering' AND lease_expires_at <= ?
Due(i, t) ==
    \/ deliveries[i].status = "pending" /\ IsoLeq(deliveries[i].nextAt, t)
    \/ deliveries[i].status = "delivering" /\ IsoLeq(deliveries[i].expires, t)

\* The oldest due rows, ClaimLimit of them when there are that many.
Batches(t) ==
    LET due == {i \in EventIds : Due(i, t)}
    IN  {batch \in SUBSET due :
           /\ Cardinality(batch) <= ClaimLimit
           /\ \A i \in due \ batch :
                /\ Cardinality(batch) = ClaimLimit
                /\ \A j \in batch :
                     IsoRank(deliveries[j].nextAt) <= IsoRank(deliveries[i].nextAt)}

\* The fence without the owner.
AnyoneHolds(w, claim) ==
    /\ deliveries[claim.event].status = "delivering"
    /\ deliveries[claim.event].attempts = claim.number

\* WHERE status = 'delivering' AND lease_owner = ? AND attempt_count = ?
ClaimHeld(w, claim) ==
    /\ deliveries[claim.event].status = "delivering"
    /\ deliveries[claim.event].owner = w
    /\ deliveries[claim.event].attempts = claim.number

Jittered(base) == {d \in 0 .. 2 * base : 8 * base <= 10 * d /\ 10 * d <= 12 * base}

EventsOf(c) == {i \in EventIds : Stored(i) /\ callEvents[i].call = c}

-----------------------------------------------------------------------------
(* The worker *)

Idle(w) == w \in running /\ claims[w] = {} /\ attempt[w] = NoAttempt

\* A claim counted in what the worker is told and not in the row.
ClaimUncounted(w, t) ==
    /\ Idle(w)
    /\ \E batch \in Batches(t) :
         /\ batch # {}
         /\ deliveries' = [i \in EventIds |->
              IF i \in batch
              THEN [deliveries[i] EXCEPT !.status = "delivering", !.owner = w,
                                         !.expires = Later(t, ClaimTTL)]
              ELSE deliveries[i]]
         /\ claims' = [claims EXCEPT ![w] =
              {[event |-> i, number |-> deliveries[i].attempts + 1] : i \in batch}]
    /\ UNCHANGED <<now, calls, recordings, callEvents, leases, running, attempt,
                   acknowledged, redelivered, crashes>>

\* claim_deliveries: due rows become "delivering", one attempt dearer.
ClaimDeliveries(w, t) ==
    /\ Idle(w)
    /\ \E batch \in Batches(t) :
         /\ batch # {}
         /\ deliveries' = [i \in EventIds |->
              IF i \in batch
              THEN [deliveries[i] EXCEPT !.status = "delivering", !.attempts = @ + 1,
                                         !.owner = w, !.expires = Later(t, ClaimTTL)]
              ELSE deliveries[i]]
         /\ claims' = [claims EXCEPT ![w] =
              {[event |-> i, number |-> deliveries[i].attempts + 1] : i \in batch}]
    /\ UNCHANGED <<now, calls, recordings, callEvents, leases, running, attempt,
                   acknowledged, redelivered, crashes>>

\* One POST.  Only a 2xx answer that comes back is a success: a lost request, a
\* lost answer and a refusal look the same to the worker.
Post(w, claim, success) ==
    /\ w \in running /\ attempt[w] = NoAttempt /\ claim \in claims[w]
    /\ claims' = [claims EXCEPT ![w] = @ \ {claim}]
    /\ attempt' = [attempt EXCEPT ![w] =
         [event |-> claim.event, number |-> claim.number, at |-> now, success |-> success]]
    /\ acknowledged' = IF success THEN acknowledged \cup {claim.event} ELSE acknowledged
    /\ UNCHANGED <<storeVars, running, redelivered, crashes>>

Settling(w) == w \in running /\ attempt[w] # NoAttempt

SettledAttempt(w) ==
    /\ attempt' = [attempt EXCEPT ![w] = NoAttempt]
    /\ UNCHANGED <<now, recordings, callEvents, leases, running, claims,
                   acknowledged, redelivered, crashes>>

\* The call is called delivered with its first delivered event.
AcknowledgeFirst(w) ==
    LET i == attempt[w].event
        c == callEvents[i].call
    IN  /\ Settling(w) /\ attempt[w].success /\ ClaimHeld(w, attempt[w])
        /\ deliveries' = [deliveries EXCEPT ![i].status = "delivered",
                                            ![i].owner = NoOwner, ![i].expires = NoTime]
        /\ calls' = [calls EXCEPT ![c].webhook = "delivered"]
        /\ SettledAttempt(w)

\* acknowledge_delivery: the call is delivered when all of its events are.
AcknowledgeDelivery(w) ==
    LET i == attempt[w].event
        c == callEvents[i].call
    IN  /\ Settling(w) /\ attempt[w].success /\ ClaimHeld(w, attempt[w])
        /\ deliveries' = [deliveries EXCEPT ![i].status = "delivered",
                                            ![i].owner = NoOwner, ![i].expires = NoTime]
        /\ calls' = IF \A j \in EventsOf(c) \ {i} : deliveries[j].status = "delivered"
                    THEN [calls EXCEPT ![c].webhook = "delivered"]
                    ELSE calls
        /\ SettledAttempt(w)

LastAttempt(number) == number >= MaxDeliveryAttempts

\* fail_delivery: back to pending after the next delay, or dead-lettered.
FailDelivery(w) ==
    LET i == attempt[w].event
        c == callEvents[i].call
        released == [deliveries[i] EXCEPT !.owner = NoOwner, !.expires = NoTime]
    IN  /\ Settling(w) /\ ~attempt[w].success /\ ClaimHeld(w, attempt[w])
        /\ IF LastAttempt(attempt[w].number)
           THEN /\ deliveries' = [deliveries EXCEPT ![i] =
                     [released EXCEPT !.status = "dead_lettered", !.nextAt = attempt[w].at]]
                /\ calls' = [calls EXCEPT ![c].webhook = "dead_lettered"]
           ELSE /\ \E d \in Jittered(RetryDelays[attempt[w].number + 1]) :
                     deliveries' = [deliveries EXCEPT ![i] =
                       [released EXCEPT !.status = "pending",
                                        !.nextAt = Later(attempt[w].at, d)]]
                /\ UNCHANGED calls
        /\ SettledAttempt(w)

\* "delivery claim was lost": the exception ends the pass with its other claims
\* still leased, and in the container it ends the process.
LoseClaim(w) ==
    /\ Settling(w) /\ ~ClaimHeld(w, attempt[w])
    /\ attempt' = [attempt EXCEPT ![w] = NoAttempt]
    /\ claims' = [claims EXCEPT ![w] = {}]
    /\ running' = running \ (ContainerWorkers \cap {w})
    /\ UNCHANGED <<storeVars, acknowledged, redelivered, crashes>>

\* The process dies, at any point of a pass.
Crash(w) ==
    /\ w \in running /\ crashes < MaxCrashes
    /\ crashes' = crashes + 1
    /\ running' = running \ {w}
    /\ attempt' = [attempt EXCEPT ![w] = NoAttempt]
    /\ claims' = [claims EXCEPT ![w] = {}]
    /\ UNCHANGED <<storeVars, acknowledged, redelivered>>

\* The deployment's restart policy.
Restart(w) ==
    /\ w \notin running
    /\ running' = running \cup {w}
    /\ UNCHANGED <<storeVars, claims, attempt, acknowledged, redelivered, crashes>>

\* redeliver: the operator resets the row, whatever state it is in.
Redeliver(i, t) ==
    /\ Stored(i) /\ i \notin redelivered /\ Cardinality(redelivered) < MaxRedeliveries
    /\ deliveries' = [deliveries EXCEPT ![i] = PendingDelivery(t)]
    /\ redelivered' = redelivered \cup {i}
    /\ acknowledged' = acknowledged \ {i}
    /\ UNCHANGED <<now, calls, recordings, callEvents, leases, running, claims, attempt,
                   crashes>>

-----------------------------------------------------------------------------
\* The repository methods that start a call, at the clock's origin, and insert
\* its events.
CallStep ==
    /\ \/ /\ now = 0
          /\ \E c \in Calls, o \in Owners \ DeliveryWorkers, recorded \in BOOLEAN :
                BeginCall(c, o, recorded, now)
       \/ \E l \in leases, reason \in EndedReasons, i \in EventIds :
             Terminalize(l, reason, "none", now, i)
       \/ \E c \in Calls, i \in EventIds : MarkRecordingReady(c, now, i)
    /\ UNCHANGED deliveryVars

OutboxTick == Tick /\ UNCHANGED deliveryVars

OutboxInit ==
    /\ Init
    /\ running = DeliveryWorkers
    /\ claims = [w \in DeliveryWorkers |-> {}]
    /\ attempt = [w \in DeliveryWorkers |-> NoAttempt]
    /\ acknowledged = {}
    /\ redelivered = {}
    /\ crashes = 0

Settle(w) == AcknowledgeDelivery(w) \/ FailDelivery(w) \/ LoseClaim(w)

PostAny(w) ==
    \E claim \in claims[w], success \in BOOLEAN : Post(w, claim, success)

DeliveryStep(w) ==
    \/ \E t \in ClockReadings : ClaimDeliveries(w, t)
    \/ PostAny(w)
    \/ Settle(w)

\* Delivery's own steps: the workers', their processes' and the operator's.
DeliveryNext ==
    \/ \E w \in DeliveryWorkers : DeliveryStep(w) \/ Crash(w) \/ Restart(w)
    \/ \E i \in EventIds : Redeliver(i, now)

OutboxNext == CallStep \/ OutboxTick \/ DeliveryNext

OutboxSpec == OutboxInit /\ [][OutboxNext]_outboxVars

\* The loops run a pass every second and a restart policy brings a dead process
\* back; HTTP attempts time out, so an attempt is always settled.
OutboxFairSpec ==
    /\ OutboxSpec
    /\ WF_outboxVars(OutboxTick)
    /\ \A w \in DeliveryWorkers :
         WF_outboxVars(DeliveryStep(w)) /\ WF_outboxVars(Restart(w))

-----------------------------------------------------------------------------
(* Properties *)

\* The worker's private state has its shape.
OutboxTypeOK ==
    /\ TypeOK
    /\ running \subseteq DeliveryWorkers
    /\ claims \in [DeliveryWorkers -> SUBSET Claim]
    /\ attempt \in [DeliveryWorkers -> Attempt \cup {NoAttempt}]
    /\ acknowledged \subseteq EventIds
    /\ redelivered \subseteq EventIds
    /\ crashes \in 0 .. MaxCrashes

\* A row says "delivered" only if the receiver acknowledged the event after its last
\* reset: an answer to a superseded attempt never settles the row again.
DeliveredMeansAcknowledged ==
    \A i \in EventIds : deliveries[i].status = "delivered" => i \in acknowledged

\* "simultaneous workers cannot send the same claimed attempt": between resets, an
\* attempt number of an event is held by one worker.
HeldBy(w) == claims[w] \cup
    (IF attempt[w] = NoAttempt THEN {}
     ELSE {[event |-> attempt[w].event, number |-> attempt[w].number]})

AttemptHasOneSender ==
    \A w, v \in DeliveryWorkers : \A claim \in HeldBy(w) \cap HeldBy(v) :
       w = v \/ claim.event \in redelivered

\* calls.webhook_status tells the truth about a finished call's deliveries, as long
\* as the operator has reset none of them.
WebhookStatusAgrees ==
    \A c \in Calls :
       Terminal(c) /\ EventsOf(c) \cap redelivered = {} =>
         LET statuses == {deliveries[i].status : i \in EventsOf(c)}
         IN  /\ calls[c].webhook = "dead_lettered" <=> "dead_lettered" \in statuses
             /\ calls[c].webhook = "pending" => statuses # {"delivered"}
             /\ calls[c].webhook = "delivered" =>
                  \A i \in TerminalEventsOf(c) : deliveries[i].status = "delivered"

\* A settled delivery is settled for good: only the operator reopens it.
OnlyTheOperatorReopens ==
    [][\A i \in EventIds :
         deliveries[i].status \in {"delivered", "dead_lettered"} =>
           \/ deliveries'[i] = deliveries[i]
           \/ i \in redelivered' \ redelivered]_outboxVars

\* "delivery is attempted until the receiver acknowledges it or the delivery is
\* visibly dead-lettered", across crashes, lost answers and resets.
EveryEventIsSettled ==
    \A i \in EventIds :
       Stored(i) ~> deliveries[i].status \in {"delivered", "dead_lettered"}

===============================================================================
