------------------------------ MODULE OutboxProofs ------------------------------
(***************************************************************************)
(* Proofs about result delivery: types, that an attempt has one sender,    *)
(* that "delivered" means acknowledged, that a call's webhook status tells *)
(* the truth, and that only the operator reopens a settled delivery; for   *)
(* any workers, retry delays, batch sizes, crashes and resets.             *)
(***************************************************************************)
EXTENDS Outbox, CallStoreProofs

(* The inductive invariant *)

\* Events are of finished calls, and a row of the outbox is of a stored event.
RowsInv ==
    \A i \in EventIds :
        /\ Stored(i) => callEvents[i].call \in Calls /\ Terminal(callEvents[i].call)
        /\ ~Stored(i) => deliveries[i].status = "none"

\* A number that a worker holds was counted in the event's row, unless the operator
\* has reset the row since.
HeldInv ==
    \A w \in DeliveryWorkers : \A claim \in HeldBy(w) :
        /\ claim.event \in EventIds /\ Stored(claim.event)
        /\ claim.event \in redelivered \/ claim.number <= deliveries[claim.event].attempts

\* A success whose claim still holds was acknowledged after the last reset: a worker
\* with an unsettled attempt claims nothing.
AckInv ==
    \A w \in DeliveryWorkers :
        attempt[w] # NoAttempt /\ attempt[w].success /\ ClaimHeld(w, attempt[w]) =>
            attempt[w].event \in acknowledged

\* WebhookStatusAgrees with its sets of statuses written out.
AgreesInv ==
    \A c \in Calls : Terminal(c) /\ (\A i \in EventsOf(c) : i \notin redelivered) =>
        /\ calls[c].webhook = "dead_lettered" <=>
             \E i \in EventsOf(c) : deliveries[i].status = "dead_lettered"
        /\ calls[c].webhook = "pending" =>
             EventsOf(c) = {} \/ \E i \in EventsOf(c) : deliveries[i].status # "delivered"
        /\ calls[c].webhook = "delivered" =>
             \A i \in TerminalEventsOf(c) : deliveries[i].status = "delivered"

OutboxInv ==
    /\ OutboxTypeOK /\ RowsInv /\ HeldInv /\ AckInv /\ AgreesInv
    /\ AttemptHasOneSender /\ DeliveredMeansAcknowledged

-----------------------------------------------------------------------------
(* What the steps have in common *)

\* The part of a call's row that delivery never touches.
SameCalls ==
    \A c \in Calls : calls'[c].status = calls[c].status /\ calls'[c].webhook = calls[c].webhook

LEMMA RowsKept ==
    ASSUME RowsInv, callEvents' = callEvents,
           \A c \in Calls : calls'[c].status = calls[c].status,
           \A i \in EventIds : Stored(i) \/ deliveries'[i] = deliveries[i]
    PROVE  RowsInv'
BY DEF RowsInv, Stored, Terminal

\* Nothing new is held, no event is forgotten, and a row is reset by the operator only.
LEMMA HeldKept ==
    ASSUME HeldInv, AttemptHasOneSender, redelivered \subseteq redelivered',
           \A w \in DeliveryWorkers : HeldBy(w)' \subseteq HeldBy(w),
           \A i \in EventIds : Stored(i) =>
               /\ Stored(i)'
               /\ i \in redelivered' \/ deliveries'[i].attempts = deliveries[i].attempts
    PROVE  HeldInv' /\ AttemptHasOneSender'
<1>1. HeldInv'
  <2> SUFFICES ASSUME NEW w \in DeliveryWorkers, NEW claim \in HeldBy(w)'
               PROVE  /\ claim.event \in EventIds /\ Stored(claim.event)'
                      /\ \/ claim.event \in redelivered'
                         \/ claim.number <= deliveries'[claim.event].attempts
      BY DEF HeldInv
  <2>1. claim \in HeldBy(w)
      OBVIOUS
  <2> QED
      BY <2>1 DEF HeldInv
<1>2. AttemptHasOneSender'
  <2> SUFFICES ASSUME NEW w \in DeliveryWorkers, NEW v \in DeliveryWorkers,
                      NEW claim \in HeldBy(w)' \cap HeldBy(v)'
               PROVE  w = v \/ claim.event \in redelivered'
      BY DEF AttemptHasOneSender
  <2>1. claim \in HeldBy(w) \cap HeldBy(v)
      OBVIOUS
  <2> QED
      BY <2>1 DEF AttemptHasOneSender
<1> QED
    BY <1>1, <1>2

LEMMA HoldingsKept ==
    ASSUME UNCHANGED <<claims, attempt>>
    PROVE  \A w \in DeliveryWorkers : HeldBy(w)' \subseteq HeldBy(w)
BY DEF HeldBy

\* No row enters or leaves a settled state.
LEMMA AgreesKept ==
    ASSUME AgreesInv, callEvents' = callEvents, SameCalls, redelivered \subseteq redelivered',
           \A i \in EventIds : \/ i \in redelivered'
                               \/ deliveries'[i].status = deliveries[i].status
                               \/ /\ deliveries[i].status \notin {"delivered", "dead_lettered"}
                                  /\ deliveries'[i].status \notin {"delivered", "dead_lettered"}
    PROVE  AgreesInv'
<1> SUFFICES ASSUME NEW c \in Calls, Terminal(c)', \A i \in EventsOf(c)' : i \notin redelivered'
             PROVE  /\ calls'[c].webhook = "dead_lettered" <=>
                         \E i \in EventsOf(c)' : deliveries'[i].status = "dead_lettered"
                    /\ calls'[c].webhook = "pending" =>
                         EventsOf(c)' = {} \/ \E i \in EventsOf(c)' : deliveries'[i].status # "delivered"
                    /\ calls'[c].webhook = "delivered" =>
                         \A i \in TerminalEventsOf(c)' : deliveries'[i].status = "delivered"
    BY DEF AgreesInv
<1>1. EventsOf(c)' = EventsOf(c) /\ TerminalEventsOf(c)' = TerminalEventsOf(c)
    BY DEF EventsOf, TerminalEventsOf, IsTerminalEvent, Stored
<1>2. Terminal(c) /\ calls'[c].webhook = calls[c].webhook
    BY DEF SameCalls, Terminal
<1>3. TerminalEventsOf(c) \subseteq EventsOf(c) /\ EventsOf(c) \subseteq EventIds
    BY DEF EventsOf, TerminalEventsOf, IsTerminalEvent
<1>4. \A i \in EventsOf(c) : i \notin redelivered /\ i \notin redelivered'
    BY <1>1
<1> QED
    BY <1>1, <1>2, <1>3, <1>4 DEF AgreesInv

-----------------------------------------------------------------------------
(* The repository's methods *)

\* What the methods that insert no event make of a row: it is settled as before.
SettledAsBefore(d) ==
    /\ Terminal(d)' <=> Terminal(d)
    /\ Terminal(d) => calls'[d].webhook = calls[d].webhook

LEMMA SettledRows ==
    ASSUME TypeOK, MethodStep, NEW d \in Calls, callEvents' = callEvents
    PROVE  SettledAsBefore(d)
<1> USE DEF Terminal, TerminalStatuses, Active
<1>0. calls \in [Calls -> CallRow] /\ calls[d] \in CallRow /\ leases \subseteq Lease
    BY DEF TypeOK
<1>1. CASE calls' = calls
    BY <1>1 DEF SettledAsBefore
<1>2. ASSUME NEW c \in Calls, c # d, \E row : calls' = [calls EXCEPT ![c] = row]
      PROVE  SettledAsBefore(d)
    BY <1>0, <1>2 DEF SettledAsBefore
<1>3. ASSUME NEW o \in Owners, NEW recorded, NEW t \in Time, BeginCall(d, o, recorded, t)
      PROVE  SettledAsBefore(d)
    BY <1>0, <1>3 DEF BeginCall, AbsentRow, SettledAsBefore
<1>4. ASSUME Active(d), NEW o \in Owners, NEW t \in Time, GrantNextGeneration(d, o, t)
      PROVE  SettledAsBefore(d)
  <2>1. calls'[d].status = calls[d].status
    BY <1>0, <1>4 DEF GrantNextGeneration, CallRow
  <2> QED
    BY <1>4, <2>1 DEF SettledAsBefore
<1>5. ASSUME NEW l \in leases, l.call = d, NEW t \in Time, RenewLease(l, t)
      PROVE  SettledAsBefore(d)
    BY <1>0, <1>5 DEF RenewLease, CallRow, SettledAsBefore
<1>6. ASSUME NEW l \in leases, l.call = d, NEW data, FlushResults(l, data)
      PROVE  SettledAsBefore(d)
    BY <1>0, <1>6 DEF FlushResults, CallRow, SettledAsBefore
<1>7. ASSUME NEW l \in leases, l.call = d, NEW state, UpdateProviderState(l, state)
      PROVE  SettledAsBefore(d)
    BY <1>0, <1>7 DEF UpdateProviderState, CallRow, SettledAsBefore
<1>8. ASSUME NEW state, RecordProviderObservation(d, state)
      PROVE  SettledAsBefore(d)
    BY <1>0, <1>8 DEF RecordProviderObservation, CallRow, SettledAsBefore
<1>9. ASSUME AppendTranscript(d) PROVE SettledAsBefore(d)
    BY <1>0, <1>9 DEF AppendTranscript, CallRow, SettledAsBefore
<1>10. ASSUME NEW i \in EventIds, NEW body \in Event, NEW t, InsertEvent(i, body, t) PROVE FALSE
    BY <1>10, NoEventAssumption DEF InsertEvent, FreshId, TypeOK
<1>11. ASSUME NEW c \in Calls,
              \/ \E o \in Owners, recorded \in BOOLEAN, t \in Time : BeginCall(c, o, recorded, t)
              \/ \E state \in ProviderStates : RecordProviderObservation(c, state)
              \/ AppendTranscript(c)
              \/ Active(c) /\ \E o \in Owners, t \in Time : GrantNextGeneration(c, o, t)
       PROVE  SettledAsBefore(d)
  <2>1. CASE c = d
    BY <1>3, <1>4, <1>8, <1>9, <1>11, <2>1
  <2>2. CASE c # d
    BY <1>0, <1>11, <2>2 DEF BeginCall, RecordProviderObservation, AppendTranscript,
       GrantNextGeneration, SettledAsBefore
  <2> QED
    BY <2>1, <2>2
<1>12. ASSUME NEW l \in leases,
              \/ \E t \in Time : RenewLease(l, t)
              \/ \E data \in Results : FlushResults(l, data)
              \/ \E state \in ProviderStates : UpdateProviderState(l, state)
       PROVE  SettledAsBefore(d)
  <2>1. CASE l.call = d
    BY <1>5, <1>6, <1>7, <1>12, <2>1
  <2>2. CASE l.call # d
    BY <1>0, <1>12, <2>2 DEF RenewLease, FlushResults, UpdateProviderState, SettledAsBefore
  <2> QED
    BY <2>1, <2>2
<1>13. ASSUME NEW l \in leases, NEW reason \in EndedReasons, NEW provider, NEW t,
              NEW i \in EventIds, Terminalize(l, reason, provider, t, i)
       PROVE  FALSE
  <2> DEFINE body == EventBody(l.call, EventTypeOf(reason), reason,
                        IF recordings[l.call] = "none" THEN "none" ELSE "pending")
  <2>1. body \in Event
    BY <1>0, BodyIsAnEvent DEF Lease, EventTypeOf, TerminalTypes
  <2>2. InsertEvent(i, body, t)
    BY <1>13 DEF Terminalize
  <2> QED
    BY <1>10, <2>1, <2>2
<1>14. ASSUME NEW c \in Calls, NEW t, NEW i \in EventIds, MarkRecordingReady(c, t, i) PROVE FALSE
  <2> DEFINE body == EventBody(c, RecordingReadyType, calls[c].reason, "ready")
  <2>1. body \in Event
    BY <1>0, BodyIsAnEvent DEF CallRow
  <2>2. InsertEvent(i, body, t)
    BY <1>14 DEF MarkRecordingReady
  <2> QED
    BY <1>10, <2>1, <2>2
<1> QED
    BY <1>1, <1>11, <1>12, <1>13, <1>14
       DEF MethodStep, HandoffCall, TakeoverExpiredCall, Tick, MarkRecordingFailed

\* What a worker has posted is one of the claims it holds.
LEMMA AttemptIsHeld ==
    ASSUME OutboxTypeOK, HeldInv, NEW w \in DeliveryWorkers, attempt[w] # NoAttempt
    PROVE  /\ attempt[w] \in Attempt /\ attempt[w].event \in EventIds
           /\ Stored(attempt[w].event)
           /\ \/ attempt[w].event \in redelivered
              \/ attempt[w].number <= deliveries[attempt[w].event].attempts
<1>1. attempt[w] \in Attempt
    BY DEF OutboxTypeOK
<1>2. [event |-> attempt[w].event, number |-> attempt[w].number] \in HeldBy(w)
    BY DEF HeldBy
<1> QED
    BY <1>1, <1>2 DEF HeldInv, Attempt

\* Settled attempts aside, a step that keeps the claims and the acknowledgements, and
\* only makes claims fail.
LEMMA AckKept ==
    ASSUME AckInv,
           \A w \in DeliveryWorkers : attempt'[w] # NoAttempt =>
               /\ attempt'[w] = attempt[w]
               /\ ClaimHeld(w, attempt[w])' =>
                    ClaimHeld(w, attempt[w]) /\ (attempt[w].event \in acknowledged =>
                                                 attempt[w].event \in acknowledged')
    PROVE  AckInv'
<1> SUFFICES ASSUME NEW w \in DeliveryWorkers, attempt'[w] # NoAttempt, attempt'[w].success,
                    ClaimHeld(w, attempt[w])'
             PROVE  attempt'[w].event \in acknowledged'
    BY DEF AckInv, ClaimHeld
<1> QED
    BY DEF AckInv

\* A new event belongs to a finished call and its row is pending; no worker knows it.
LEMMA InsertKeeps ==
    ASSUME OutboxInv, OutboxTypeOK', UNCHANGED <<claims, attempt, acknowledged, redelivered>>,
           NEW i \in EventIds, NEW c \in Calls, NEW body \in Event, NEW t, body.call = c,
           InsertEvent(i, body, t), Terminal(c)',
           \A d \in Calls \ {c} : calls'[d] = calls[d],
           \/ calls'[c] = calls[c] /\ body.type = RecordingReadyType
           \/ ~Terminal(c) /\ calls'[c].webhook = "pending"
    PROVE  OutboxInv'
<1> USE DEF OutboxInv
<1>1. /\ callEvents[i] = NoEvent /\ callEvents'[i] = body /\ deliveries'[i].status = "pending"
      /\ \A j \in EventIds \ {i} : /\ callEvents'[j] = callEvents[j]
                                   /\ deliveries'[j] = deliveries[j]
    BY DEF InsertEvent, FreshId, PendingDelivery, NoDelivery, OutboxTypeOK, TypeOK
<1>2. Stored(i)' /\ ~Stored(i) /\ \A j \in EventIds \ {i} : Stored(j)' <=> Stored(j)
    BY <1>1, NoEventAssumption DEF Stored
<1>3. RowsInv'
  <2> SUFFICES ASSUME NEW j \in EventIds
               PROVE  /\ Stored(j)' => /\ callEvents'[j].call \in Calls
                                       /\ calls'[callEvents'[j].call].status \in TerminalStatuses
                      /\ ~Stored(j)' => deliveries'[j].status = "none"
      BY DEF RowsInv, Terminal
  <2>1. CASE j = i
      BY <1>1, <1>2, <2>1 DEF Terminal
  <2>2. CASE j # i
      BY <1>1, <1>2, <2>2 DEF RowsInv, Terminal
  <2> QED
      BY <2>1, <2>2
<1>4. HeldInv' /\ AttemptHasOneSender'
    BY <1>1, <1>2, HeldKept, HoldingsKept
<1>5. AckInv'
  <2> SUFFICES ASSUME NEW w \in DeliveryWorkers, attempt'[w] # NoAttempt
               PROVE  /\ attempt'[w] = attempt[w]
                      /\ ClaimHeld(w, attempt[w])' =>
                           ClaimHeld(w, attempt[w]) /\ (attempt[w].event \in acknowledged =>
                                                        attempt[w].event \in acknowledged')
      BY AckKept
  <2>1. attempt[w].event \in EventIds \ {i}
      BY <1>2, AttemptIsHeld
  <2> QED
      BY <1>1, <2>1 DEF ClaimHeld
<1>6. DeliveredMeansAcknowledged'
    BY <1>1 DEF DeliveredMeansAcknowledged
<1>7. ASSUME NEW d \in Calls \ {c}
      PROVE  EventsOf(d)' = EventsOf(d) /\ TerminalEventsOf(d)' = TerminalEventsOf(d)
    BY <1>1, <1>2 DEF EventsOf, TerminalEventsOf, IsTerminalEvent, Stored
<1>8. EventsOf(c)' = EventsOf(c) \cup {i} /\ i \notin EventsOf(c)
    BY <1>1, <1>2 DEF EventsOf
<1>9. body.type = RecordingReadyType => TerminalEventsOf(c)' = TerminalEventsOf(c)
    BY <1>1, <1>2 DEF TerminalEventsOf, IsTerminalEvent, Stored, RecordingReadyType, TerminalTypes
<1>10. \A d \in Calls : EventsOf(d) \subseteq EventIds /\ TerminalEventsOf(d) \subseteq EventsOf(d)
    BY DEF EventsOf, TerminalEventsOf, IsTerminalEvent
<1>11. AgreesInv'
  <2> SUFFICES ASSUME NEW d \in Calls, Terminal(d)', \A j \in EventsOf(d)' : j \notin redelivered'
               PROVE  /\ calls'[d].webhook = "dead_lettered" <=>
                           \E j \in EventsOf(d)' : deliveries'[j].status = "dead_lettered"
                      /\ calls'[d].webhook = "pending" =>
                           \/ EventsOf(d)' = {}
                           \/ \E j \in EventsOf(d)' : deliveries'[j].status # "delivered"
                      /\ calls'[d].webhook = "delivered" =>
                           \A j \in TerminalEventsOf(d)' : deliveries'[j].status = "delivered"
      BY DEF AgreesInv
  <2>1. CASE d # c
    <3>1. /\ EventsOf(d)' = EventsOf(d) /\ TerminalEventsOf(d)' = TerminalEventsOf(d)
          /\ Terminal(d) /\ calls'[d] = calls[d]
        BY <1>7, <2>1 DEF Terminal
    <3>2. \A j \in EventsOf(d) : deliveries'[j] = deliveries[j] /\ j \notin redelivered
        BY <1>1, <1>2, <1>10, <3>1 DEF EventsOf
    <3> QED
        BY <1>10, <3>1, <3>2 DEF AgreesInv
  <2>2. CASE d = c /\ Terminal(c)
    <3>1. calls'[c] = calls[c] /\ TerminalEventsOf(c)' = TerminalEventsOf(c)
        BY <1>9, <2>2
    <3>2. \A j \in EventsOf(c) : deliveries'[j] = deliveries[j] /\ j \notin redelivered
        BY <1>1, <1>8, <1>10, <2>2
    <3> QED
        BY <1>1, <1>8, <1>10, <2>2, <3>1, <3>2 DEF AgreesInv
  <2>3. CASE d = c /\ ~Terminal(c)
    <3>1. EventsOf(c) = {}
        BY <2>3 DEF RowsInv, EventsOf
    <3> QED
        BY <1>1, <1>8, <2>3, <3>1 DEF Terminal
  <2> QED
      BY <2>1, <2>2, <2>3
<1> QED
    BY <1>3, <1>4, <1>5, <1>6, <1>11

\* A method without an event keeps the invariant of delivery, whoever calls it.
LEMMA QuietMethodKeeps ==
    ASSUME OutboxInv, OutboxTypeOK', UNCHANGED <<callEvents, deliveries>>, UNCHANGED deliveryVars,
           \A d \in Calls : SettledAsBefore(d)
    PROVE  OutboxInv'
<1> USE DEF OutboxInv, deliveryVars
<1>1. RowsInv'
    BY DEF RowsInv, Stored, SettledAsBefore
<1>2. HeldInv' /\ AttemptHasOneSender'
    BY HeldKept, HoldingsKept DEF Stored
<1>3. AckInv' /\ DeliveredMeansAcknowledged'
    BY DEF AckInv, ClaimHeld, DeliveredMeansAcknowledged
<1>4. \A d \in Calls : EventsOf(d)' = EventsOf(d) /\ TerminalEventsOf(d)' = TerminalEventsOf(d)
    BY DEF EventsOf, TerminalEventsOf, IsTerminalEvent, Stored
<1>5. AgreesInv'
    BY <1>4 DEF AgreesInv, SettledAsBefore
<1> QED
    BY <1>1, <1>2, <1>3, <1>5

\* Nor does one that inserts an event break it.
LEMMA MethodKeeps ==
    ASSUME OutboxInv, [MethodStep]_storeVars, UNCHANGED deliveryVars
    PROVE  OutboxInv'
<1> USE DEF OutboxInv
<1>1. TypeOK /\ TypeOK' /\ OutboxTypeOK'
  <2>1. TypeOK /\ TypeOK'
    BY NextTypeOK DEF OutboxTypeOK
  <2> QED
    BY <2>1 DEF OutboxTypeOK, deliveryVars
<1>2. UNCHANGED <<claims, attempt, acknowledged, redelivered>>
    BY DEF deliveryVars
<1>3. CASE UNCHANGED storeVars
    BY <1>1, <1>3, QuietMethodKeeps DEF storeVars, SettledAsBefore, Terminal
<1>4. ASSUME NEW l \in leases, NEW reason \in EndedReasons,
             NEW provider \in ProviderStates \cup {"none"}, NEW t \in Time, NEW i \in EventIds,
             Terminalize(l, reason, provider, t, i)
      PROVE  OutboxInv'
  <2> DEFINE c == l.call
             type == EventTypeOf(reason)
             recording == IF recordings[c] = "none" THEN "none" ELSE "pending"
             body == EventBody(c, type, reason, recording)
  <2>1. c \in Calls
      BY <1>1 DEF TypeOK, Lease
  <2>2. body \in Event /\ body.call = c
      BY <1>1, <2>1, BodyIsAnEvent DEF EventBody, EventTypeOf, TerminalTypes
  <2>3. InsertEvent(i, body, t)
      BY <1>4 DEF Terminalize
  <2>4. /\ \A d \in Calls \ {c} : calls'[d] = calls[d]
        /\ calls'[c].status = StatusOf(type) /\ calls'[c].webhook = "pending"
    <3>1. calls \in [Calls -> CallRow] /\ calls[c] \in CallRow
        BY <1>1, <2>1 DEF TypeOK
    <3>2. calls' = [calls EXCEPT ![c] =
                [calls[c] EXCEPT !.status = StatusOf(type), !.webhook = "pending",
                                 !.endedAt = t, !.reason = reason, !.provider = provider,
                                 !.expires = NoTime, !.by = l.gen]]
        BY <1>4 DEF Terminalize
    <3> HIDE DEF c, type
    <3> QED
        BY <2>1, <3>1, <3>2 DEF CallRow
  <2>5. ~Terminal(c) /\ Terminal(c)'
      BY <1>4, <2>4 DEF Terminalize, Active, Terminal, TerminalStatuses, StatusOf
  <2> HIDE DEF c, body
  <2> QED
      BY <1>1, <1>2, <2>1, <2>2, <2>3, <2>4, <2>5, InsertKeeps
<1>5. ASSUME NEW c \in Calls, NEW t \in Time, NEW i \in EventIds, MarkRecordingReady(c, t, i)
      PROVE  OutboxInv'
  <2> DEFINE body == EventBody(c, RecordingReadyType, calls[c].reason, "ready")
  <2>1. body \in Event /\ body.call = c /\ body.type = RecordingReadyType
      BY <1>1, BodyIsAnEvent DEF EventBody, TypeOK, CallRow
  <2>2. InsertEvent(i, body, t) /\ calls' = calls /\ Terminal(c) /\ Terminal(c)'
      BY <1>5 DEF MarkRecordingReady, Terminal
  <2> HIDE DEF body
  <2> QED
      BY <1>1, <1>2, <2>1, <2>2, InsertKeeps
<1>6. CASE MethodStep /\ UNCHANGED <<callEvents, deliveries>>
    BY <1>1, <1>6, SettledRows, QuietMethodKeeps
<1>7. MethodStep => \/ UNCHANGED <<callEvents, deliveries>>
                    \/ \E l \in leases, reason \in EndedReasons,
                          provider \in ProviderStates \cup {"none"}, t \in Time, i \in EventIds :
                         Terminalize(l, reason, provider, t, i)
                    \/ \E c \in Calls, t \in Time, i \in EventIds : MarkRecordingReady(c, t, i)
    BY DEF MethodStep, Tick, BeginCall, HandoffCall, TakeoverExpiredCall, GrantNextGeneration,
           RenewLease, FlushResults, UpdateProviderState, RecordProviderObservation,
           AppendTranscript, MarkRecordingFailed
<1> QED
    BY <1>3, <1>4, <1>5, <1>6, <1>7

-----------------------------------------------------------------------------
(* The workers *)

LEMMA ClaimKeeps ==
    ASSUME OutboxInv, NEW w \in DeliveryWorkers, NEW t \in ClockReadings, ClaimDeliveries(w, t)
    PROVE  OutboxInv'
<1> USE DEF OutboxInv
<1>1. PICK batch \in Batches(t) :
        /\ deliveries' = [i \in EventIds |->
              IF i \in batch
              THEN [deliveries[i] EXCEPT !.status = "delivering", !.attempts = @ + 1,
                                         !.owner = w, !.expires = Later(t, ClaimTTL)]
              ELSE deliveries[i]]
        /\ claims' = [claims EXCEPT ![w] =
              {[event |-> i, number |-> deliveries[i].attempts + 1] : i \in batch}]
    BY DEF ClaimDeliveries
<1>2. /\ claims[w] = {} /\ attempt[w] = NoAttempt
      /\ UNCHANGED <<now, calls, recordings, callEvents, leases, running, attempt,
                     acknowledged, redelivered, crashes>>
    BY DEF ClaimDeliveries, Idle
<1>3. batch \subseteq {i \in EventIds : Due(i, t)}
    BY DEF Batches
<1>4. \A i \in batch : /\ i \in EventIds /\ Stored(i)
                       /\ deliveries[i].status \in {"pending", "delivering"}
    BY <1>3 DEF Due, RowsInv
<1>5. deliveries \in [EventIds -> DeliveryRow]
    BY DEF OutboxTypeOK, TypeOK
<1>6. \A i \in batch : /\ deliveries'[i].status = "delivering" /\ deliveries'[i].owner = w
                       /\ deliveries'[i].attempts = deliveries[i].attempts + 1
                       /\ deliveries[i].attempts \in Nat
    BY <1>1, <1>4, <1>5 DEF DeliveryRow
<1>7. \A i \in EventIds \ batch : deliveries'[i] = deliveries[i]
    BY <1>1
<1>8. /\ claims'[w] = {[event |-> i, number |-> deliveries[i].attempts + 1] : i \in batch}
      /\ \A v \in DeliveryWorkers \ {w} : claims'[v] = claims[v]
    BY <1>1 DEF OutboxTypeOK
<1>9. OutboxTypeOK'
  <2>1. Later(t, ClaimTTL) \in Time /\ w \in Owners
      BY ClockReadingsAreTimes, OutboxAssumption, CallStoreAssumption
         DEF OutboxTypeOK, Later, Time
  <2>2. ASSUME NEW i \in EventIds PROVE deliveries'[i] \in DeliveryRow
    <3>1. deliveries[i] \in DeliveryRow
        BY <1>5
    <3>2. ASSUME NEW row \in DeliveryRow, NEW expires \in Time
          PROVE  [row EXCEPT !.status = "delivering", !.attempts = @ + 1, !.owner = w,
                             !.expires = expires] \in DeliveryRow
      <4>1. row.attempts + 1 \in Nat
          BY DEF DeliveryRow
      <4> QED
          BY <2>1, <4>1 DEF DeliveryRow, DeliveryStatuses
    <3> QED
        BY <1>1, <2>1, <3>1, <3>2
  <2>3. deliveries' \in [EventIds -> DeliveryRow]
      BY <1>1, <2>2
  <2>4. {[event |-> i, number |-> deliveries[i].attempts + 1] : i \in batch} \subseteq Claim
      BY <1>4, <1>6 DEF Claim
  <2>5. claims' \in [DeliveryWorkers -> SUBSET Claim]
      BY <1>1, <2>4 DEF OutboxTypeOK
  <2> QED
      BY <1>2, <2>3, <2>5 DEF OutboxTypeOK, TypeOK
<1>10. RowsInv'
    BY <1>2, <1>4, <1>7, RowsKept
<1>11. /\ HeldBy(w)' = claims'[w]
       /\ \A v \in DeliveryWorkers \ {w} : HeldBy(v)' = HeldBy(v)
    BY <1>2, <1>8 DEF HeldBy
<1>12. ASSUME NEW claim \in HeldBy(w)'
       PROVE  /\ claim.event \in batch
              /\ claim.number = deliveries[claim.event].attempts + 1
    BY <1>8, <1>11
<1>13. \A i \in EventIds : Stored(i)' <=> Stored(i)
    BY <1>2 DEF Stored
<1>14. HeldInv'
  <2> SUFFICES ASSUME NEW v \in DeliveryWorkers, NEW claim \in HeldBy(v)'
               PROVE  /\ claim.event \in EventIds /\ Stored(claim.event)'
                      /\ \/ claim.event \in redelivered'
                         \/ claim.number <= deliveries'[claim.event].attempts
      BY DEF HeldInv
  <2>1. CASE v = w
      BY <1>4, <1>6, <1>12, <1>13, <2>1
  <2>2. CASE v # w
    <3>1. /\ claim \in HeldBy(v) /\ claim.event \in EventIds /\ Stored(claim.event)
          /\ claim.event \in redelivered \/ claim.number <= deliveries[claim.event].attempts
        BY <1>11, <2>2 DEF HeldInv
    <3>2. claim.number \in Nat
        BY <3>1 DEF HeldBy, OutboxTypeOK, Claim, Attempt
    <3>3. CASE claim.event \in batch
        BY <1>2, <1>6, <1>13, <3>1, <3>2, <3>3
    <3>4. CASE claim.event \notin batch
        BY <1>2, <1>7, <1>13, <3>1, <3>4
    <3> QED
        BY <3>3, <3>4
  <2> QED
      BY <2>1, <2>2
<1>15. ASSUME NEW v \in DeliveryWorkers \ {w}, NEW claim \in HeldBy(w)' \cap HeldBy(v)'
       PROVE  claim.event \in redelivered'
  <2>1. claim.event \in batch /\ claim.number = deliveries[claim.event].attempts + 1
      BY <1>12
  <2>2. claim.event \in redelivered \/ claim.number <= deliveries[claim.event].attempts
      BY <1>11 DEF HeldInv
  <2> QED
      BY <1>2, <1>6, <2>1, <2>2
<1>16. AttemptHasOneSender'
  <2> SUFFICES ASSUME NEW u \in DeliveryWorkers, NEW v \in DeliveryWorkers,
                      NEW claim \in HeldBy(u)' \cap HeldBy(v)', u # v
               PROVE  claim.event \in redelivered'
      BY DEF AttemptHasOneSender
  <2>1. CASE u = w \/ v = w
      BY <1>15, <2>1
  <2>2. CASE u # w /\ v # w
      BY <1>2, <1>11, <2>2 DEF AttemptHasOneSender
  <2> QED
      BY <2>1, <2>2
<1>17. AckInv'
  <2> SUFFICES ASSUME NEW v \in DeliveryWorkers, attempt'[v] # NoAttempt
               PROVE  /\ attempt'[v] = attempt[v]
                      /\ ClaimHeld(v, attempt[v])' =>
                           ClaimHeld(v, attempt[v]) /\ (attempt[v].event \in acknowledged =>
                                                        attempt[v].event \in acknowledged')
      BY AckKept
  <2>1. v # w /\ attempt[v].event \in EventIds
      BY <1>2, AttemptIsHeld
  <2> QED
      BY <1>2, <1>6, <1>7, <2>1 DEF ClaimHeld
<1>18. DeliveredMeansAcknowledged'
    BY <1>2, <1>6, <1>7 DEF DeliveredMeansAcknowledged
<1>19. AgreesInv'
  <2>1. \A i \in EventIds : \/ deliveries'[i].status = deliveries[i].status
                            \/ /\ deliveries[i].status \notin {"delivered", "dead_lettered"}
                               /\ deliveries'[i].status \notin {"delivered", "dead_lettered"}
      BY <1>4, <1>6, <1>7
  <2> QED
      BY <1>2, <2>1, AgreesKept DEF SameCalls
<1> QED
    BY <1>9, <1>10, <1>14, <1>16, <1>17, <1>18, <1>19

\* A step that leaves the store alone.
LEMMA StoreUntouched ==
    ASSUME OutboxInv, UNCHANGED <<storeVars, redelivered>>,
           \A w \in DeliveryWorkers : HeldBy(w)' \subseteq HeldBy(w)
    PROVE  TypeOK' /\ RowsInv' /\ HeldInv' /\ AttemptHasOneSender' /\ AgreesInv'
<1> USE DEF OutboxInv, storeVars
<1>1. TypeOK'
    BY DEF OutboxTypeOK, TypeOK
<1>2. RowsInv'
    BY RowsKept
<1>3. HeldInv' /\ AttemptHasOneSender'
    BY HeldKept DEF Stored
<1>4. AgreesInv'
    BY AgreesKept DEF SameCalls
<1> QED
    BY <1>1, <1>2, <1>3, <1>4

LEMMA PostKeeps ==
    ASSUME OutboxInv, NEW w \in DeliveryWorkers, NEW claim \in claims[w], NEW success \in BOOLEAN,
           Post(w, claim, success)
    PROVE  OutboxInv'
<1> USE DEF OutboxInv
<1>1. claim \in Claim /\ attempt[w] = NoAttempt
    BY DEF Post, OutboxTypeOK
<1>2. /\ claims' = [claims EXCEPT ![w] = @ \ {claim}]
      /\ attempt' = [attempt EXCEPT ![w] = [event |-> claim.event, number |-> claim.number,
                                            at |-> now, success |-> success]]
      /\ UNCHANGED <<storeVars, running, redelivered, crashes>>
    BY DEF Post
<1>3. acknowledged' = IF success THEN acknowledged \cup {claim.event} ELSE acknowledged
    BY DEF Post
<1>4. /\ claims'[w] = claims[w] \ {claim}
      /\ attempt'[w] = [event |-> claim.event, number |-> claim.number, at |-> now,
                        success |-> success]
      /\ \A v \in DeliveryWorkers \ {w} : claims'[v] = claims[v] /\ attempt'[v] = attempt[v]
    BY <1>2 DEF OutboxTypeOK
<1>5. claim = [event |-> claim.event, number |-> claim.number]
    BY <1>1 DEF Claim
<1>6. \A v \in DeliveryWorkers : HeldBy(v)' \subseteq HeldBy(v)
  <2>1. HeldBy(w)' \subseteq HeldBy(w)
      BY <1>4, <1>5 DEF HeldBy
  <2>2. \A v \in DeliveryWorkers \ {w} : HeldBy(v)' \subseteq HeldBy(v)
      BY <1>4 DEF HeldBy
  <2> QED
      BY <2>1, <2>2
<1>7. TypeOK' /\ RowsInv' /\ HeldInv' /\ AttemptHasOneSender' /\ AgreesInv'
    BY <1>2, <1>6, StoreUntouched
<1>8. OutboxTypeOK'
  <2>1. claims' \in [DeliveryWorkers -> SUBSET Claim]
      BY <1>2 DEF OutboxTypeOK
  <2>2. attempt' \in [DeliveryWorkers -> Attempt \cup {NoAttempt}]
    <3>1. [event |-> claim.event, number |-> claim.number, at |-> now, success |-> success]
             \in Attempt
        BY <1>1 DEF Claim, Attempt, OutboxTypeOK, TypeOK, Time
    <3> QED
        BY <1>2, <3>1 DEF OutboxTypeOK
  <2>3. acknowledged' \subseteq EventIds
      BY <1>1, <1>3 DEF OutboxTypeOK, Claim
  <2> QED
      BY <1>2, <1>7, <2>1, <2>2, <2>3 DEF OutboxTypeOK
<1>9. AckInv'
  <2> SUFFICES ASSUME NEW v \in DeliveryWorkers, attempt'[v] # NoAttempt, attempt'[v].success,
                      ClaimHeld(v, attempt'[v])
               PROVE  attempt'[v].event \in acknowledged'
      BY <1>2 DEF AckInv, ClaimHeld, storeVars
  <2>1. CASE v = w
      BY <1>3, <1>4, <2>1
  <2>2. CASE v # w
      BY <1>3, <1>4, <2>2 DEF AckInv
  <2> QED
      BY <2>1, <2>2
<1>10. DeliveredMeansAcknowledged'
    BY <1>2, <1>3 DEF DeliveredMeansAcknowledged, storeVars
<1> QED
    BY <1>7, <1>8, <1>9, <1>10

\* A worker forgets its attempt, and perhaps its other claims.
LEMMA Forgets ==
    ASSUME OutboxInv, NEW w \in DeliveryWorkers,
           attempt' = [attempt EXCEPT ![w] = NoAttempt],
           claims' = claims \/ claims' = [claims EXCEPT ![w] = {}]
    PROVE  /\ claims' \in [DeliveryWorkers -> SUBSET Claim]
           /\ attempt' \in [DeliveryWorkers -> Attempt \cup {NoAttempt}]
           /\ \A v \in DeliveryWorkers : /\ HeldBy(v)' \subseteq HeldBy(v)
                                         /\ attempt'[v] # NoAttempt => /\ v # w
                                                                       /\ attempt'[v] = attempt[v]
<1> USE DEF OutboxInv
<1>1. claims' \in [DeliveryWorkers -> SUBSET Claim]
    BY DEF OutboxTypeOK
<1>2. /\ attempt' \in [DeliveryWorkers -> Attempt \cup {NoAttempt}]
      /\ attempt'[w] = NoAttempt /\ \A v \in DeliveryWorkers \ {w} : attempt'[v] = attempt[v]
    BY DEF OutboxTypeOK
<1>3. \A v \in DeliveryWorkers : claims'[v] \subseteq claims[v]
    BY DEF OutboxTypeOK
<1>4. \A v \in DeliveryWorkers : HeldBy(v)' \subseteq HeldBy(v)
    BY <1>2, <1>3 DEF HeldBy
<1> QED
    BY <1>1, <1>2, <1>4

LEMMA LostKeeps ==
    ASSUME OutboxInv, NEW w \in DeliveryWorkers, LoseClaim(w) \/ Crash(w)
    PROVE  OutboxInv'
<1> USE DEF OutboxInv
<1>1. /\ attempt' = [attempt EXCEPT ![w] = NoAttempt]
      /\ claims' = [claims EXCEPT ![w] = {}]
      /\ UNCHANGED <<storeVars, acknowledged, redelivered>>
    BY DEF LoseClaim, Crash
<1>2. running' \subseteq DeliveryWorkers /\ crashes' \in 0 .. MaxCrashes
    BY OutboxAssumption DEF LoseClaim, Crash, OutboxTypeOK
<1>3. /\ claims' \in [DeliveryWorkers -> SUBSET Claim]
      /\ attempt' \in [DeliveryWorkers -> Attempt \cup {NoAttempt}]
      /\ \A v \in DeliveryWorkers : HeldBy(v)' \subseteq HeldBy(v)
      /\ \A v \in DeliveryWorkers : attempt'[v] # NoAttempt => attempt'[v] = attempt[v]
    BY <1>1, Forgets
<1>4. TypeOK' /\ RowsInv' /\ HeldInv' /\ AttemptHasOneSender' /\ AgreesInv'
    BY <1>1, <1>3, StoreUntouched
<1>5. OutboxTypeOK'
    BY <1>1, <1>2, <1>3, <1>4 DEF OutboxTypeOK
<1>6. AckInv' /\ DeliveredMeansAcknowledged'
    BY <1>1, <1>3 DEF AckInv, ClaimHeld, DeliveredMeansAcknowledged, storeVars
<1> QED
    BY <1>4, <1>5, <1>6

LEMMA RestartKeeps ==
    ASSUME OutboxInv, NEW w \in DeliveryWorkers, Restart(w)
    PROVE  OutboxInv'
<1> USE DEF OutboxInv
<1>1. UNCHANGED <<storeVars, claims, attempt, acknowledged, redelivered, crashes>>
    BY DEF Restart
<1>2. TypeOK' /\ RowsInv' /\ HeldInv' /\ AttemptHasOneSender' /\ AgreesInv'
    BY <1>1, StoreUntouched, HoldingsKept
<1>3. OutboxTypeOK'
    BY <1>1, <1>2 DEF Restart, OutboxTypeOK
<1>4. AckInv' /\ DeliveredMeansAcknowledged'
    BY <1>1 DEF AckInv, ClaimHeld, DeliveredMeansAcknowledged, storeVars
<1> QED
    BY <1>2, <1>3, <1>4

LEMMA WebhookUpdate ==
    ASSUME NEW row \in CallRow, NEW webhook \in {"pending", "delivered", "dead_lettered"}
    PROVE  /\ [row EXCEPT !.webhook = webhook] \in CallRow
           /\ [row EXCEPT !.webhook = webhook].status = row.status
           /\ [row EXCEPT !.webhook = webhook].webhook = webhook
BY DEF CallRow

\* What settling an attempt does to the row of its event and to its call.
LEMMA SettledRow ==
    ASSUME OutboxInv, NEW w \in DeliveryWorkers, Settling(w), ClaimHeld(w, attempt[w]),
           SettledAttempt(w),
           NEW row \in DeliveryRow, row.attempts = deliveries[attempt[w].event].attempts,
           row.status \notin {"none", "delivering"},
           row.status = "delivered" => attempt[w].event \in acknowledged,
           deliveries' = [deliveries EXCEPT ![attempt[w].event] = row],
           NEW webhook \in {"pending", "delivered", "dead_lettered"},
           LET c == callEvents[attempt[w].event].call
           IN  \/ /\ calls' = calls
                  /\ row.status = "pending" \/
                       (row.status = "delivered" /\
                        \E j \in EventsOf(c) \ {attempt[w].event} :
                            deliveries[j].status # "delivered")
               \/ /\ calls' = [calls EXCEPT ![c].webhook = webhook]
                  /\ row.status = webhook
                  /\ webhook = "delivered" =>
                       \A j \in EventsOf(c) \ {attempt[w].event} :
                           deliveries[j].status = "delivered"
                  /\ webhook # "pending"
    PROVE  OutboxInv'
<1> DEFINE i == attempt[w].event
           c == callEvents[i].call
<1> USE DEF OutboxInv
<1>1. /\ i \in EventIds /\ Stored(i) /\ c \in Calls /\ Terminal(c)
      /\ deliveries[i].status = "delivering"
  <2>1. i \in EventIds /\ Stored(i)
      BY AttemptIsHeld DEF Settling
  <2> QED
      BY <2>1 DEF RowsInv, ClaimHeld
<1>2. /\ attempt' = [attempt EXCEPT ![w] = NoAttempt]
      /\ UNCHANGED <<now, recordings, callEvents, leases, running, claims, acknowledged,
                     redelivered, crashes>>
    BY DEF SettledAttempt
<1>3. /\ claims' \in [DeliveryWorkers -> SUBSET Claim]
      /\ attempt' \in [DeliveryWorkers -> Attempt \cup {NoAttempt}]
      /\ \A v \in DeliveryWorkers : HeldBy(v)' \subseteq HeldBy(v)
      /\ \A v \in DeliveryWorkers : attempt'[v] # NoAttempt => v # w /\ attempt'[v] = attempt[v]
    BY <1>2, Forgets
<1>4. calls \in [Calls -> CallRow] /\ deliveries \in [EventIds -> DeliveryRow]
    BY DEF OutboxTypeOK, TypeOK
<1>5. deliveries'[i] = row /\ \A j \in EventIds \ {i} : deliveries'[j] = deliveries[j]
    BY <1>1, <1>4
<1>6. /\ \A d \in Calls : calls'[d].status = calls[d].status
      /\ \A d \in Calls \ {c} : calls'[d] = calls[d]
      /\ calls' \in [Calls -> CallRow]
      /\ \/ /\ calls'[c] = calls[c]
            /\ \/ row.status = "pending"
               \/ /\ row.status = "delivered"
                  /\ \E j \in EventsOf(c) \ {i} : deliveries[j].status # "delivered"
         \/ /\ calls'[c].webhook = row.status /\ row.status \in {"delivered", "dead_lettered"}
            /\ row.status = "delivered" =>
                 \A j \in EventsOf(c) \ {i} : deliveries[j].status = "delivered"
  <2>1. CASE /\ calls' = calls
             /\ \/ row.status = "pending"
                \/ /\ row.status = "delivered"
                   /\ \E j \in EventsOf(c) \ {i} : deliveries[j].status # "delivered"
      BY <1>4, <2>1
  <2>2. CASE /\ calls' = [calls EXCEPT ![c].webhook = webhook]
             /\ row.status = webhook /\ webhook # "pending"
             /\ webhook = "delivered" =>
                  \A j \in EventsOf(c) \ {i} : deliveries[j].status = "delivered"
    <3> DEFINE new == [calls[c] EXCEPT !.webhook = webhook]
    <3>1. new \in CallRow /\ new.status = calls[c].status /\ new.webhook = webhook
      <4>1. calls[c] \in CallRow
          BY <1>1, <1>4
      <4> QED
          BY <4>1, WebhookUpdate
    <3>2. calls' = [calls EXCEPT ![c] = new]
        BY <1>1, <1>4, <2>2
    <3> HIDE DEF new
    <3>3. /\ calls' \in [Calls -> CallRow] /\ calls'[c] = new
          /\ \A d \in Calls \ {c} : calls'[d] = calls[d]
        BY <1>1, <1>4, <3>1, <3>2
    <3>4. \A d \in Calls : calls'[d].status = calls[d].status
        BY <3>1, <3>3
    <3> QED
        BY <2>2, <3>1, <3>3, <3>4
  <2> QED
      BY <2>1, <2>2
<1> HIDE DEF i, c
<1>8. OutboxTypeOK'
  <2>1. deliveries' \in [EventIds -> DeliveryRow]
      BY <1>4 DEF i
  <2> QED
      BY <1>2, <1>3, <1>6, <2>1 DEF OutboxTypeOK, TypeOK
<1>9. RowsInv'
    BY <1>1, <1>2, <1>5, <1>6, RowsKept
<1>10. HeldInv' /\ AttemptHasOneSender'
  <2>1. \A j \in EventIds : deliveries'[j].attempts = deliveries[j].attempts
      BY <1>5 DEF i
  <2> QED
      BY <1>2, <1>3, <2>1, HeldKept DEF Stored
<1>11. AckInv'
  <2> SUFFICES ASSUME NEW v \in DeliveryWorkers, attempt'[v] # NoAttempt
               PROVE  /\ attempt'[v] = attempt[v]
                      /\ ClaimHeld(v, attempt[v])' =>
                           ClaimHeld(v, attempt[v]) /\ (attempt[v].event \in acknowledged =>
                                                        attempt[v].event \in acknowledged')
      BY AckKept
  <2>1. attempt'[v] = attempt[v] /\ attempt[v].event \in EventIds
      BY <1>3, AttemptIsHeld
  <2> QED
      BY <1>2, <1>5, <2>1 DEF ClaimHeld
<1>12. DeliveredMeansAcknowledged'
    BY <1>2, <1>5 DEF DeliveredMeansAcknowledged, i
<1>13. AgreesInv'
  <2> SUFFICES ASSUME NEW d \in Calls, Terminal(d)', \A j \in EventsOf(d)' : j \notin redelivered'
               PROVE  /\ calls'[d].webhook = "dead_lettered" <=>
                           \E j \in EventsOf(d)' : deliveries'[j].status = "dead_lettered"
                      /\ calls'[d].webhook = "pending" =>
                           \/ EventsOf(d)' = {}
                           \/ \E j \in EventsOf(d)' : deliveries'[j].status # "delivered"
                      /\ calls'[d].webhook = "delivered" =>
                           \A j \in TerminalEventsOf(d)' : deliveries'[j].status = "delivered"
      BY DEF AgreesInv
  <2>1. /\ EventsOf(d)' = EventsOf(d) /\ TerminalEventsOf(d)' = TerminalEventsOf(d)
        /\ Terminal(d) /\ \A j \in EventsOf(d) : j \notin redelivered
        /\ EventsOf(d) \subseteq EventIds /\ TerminalEventsOf(d) \subseteq EventsOf(d)
      BY <1>2, <1>6 DEF EventsOf, TerminalEventsOf, IsTerminalEvent, Stored, Terminal
  <2>2. CASE d # c
    <3>1. i \notin EventsOf(d)
        BY <2>2 DEF EventsOf, c
    <3> QED
        BY <1>5, <1>6, <2>1, <2>2, <3>1 DEF AgreesInv
  <2>3. CASE d = c
    <3>1. i \in EventsOf(c)
        BY <1>1 DEF EventsOf, c
    <3>2. CASE calls'[c] = calls[c] /\ row.status = "pending"
        BY <1>1, <1>5, <2>1, <2>3, <3>1, <3>2 DEF AgreesInv
    <3>3. CASE /\ calls'[c] = calls[c] /\ row.status = "delivered"
               /\ \E j \in EventsOf(c) \ {i} : deliveries[j].status # "delivered"
        BY <1>1, <1>5, <2>1, <2>3, <3>1, <3>3 DEF AgreesInv
    <3>4. CASE /\ calls'[c].webhook = row.status /\ row.status = "delivered"
               /\ \A j \in EventsOf(c) \ {i} : deliveries[j].status = "delivered"
        BY <1>1, <1>5, <2>1, <2>3, <3>1, <3>4
    <3>5. CASE calls'[c].webhook = row.status /\ row.status = "dead_lettered"
        BY <1>1, <1>5, <2>1, <2>3, <3>1, <3>5
    <3> QED
        BY <1>6, <3>2, <3>3, <3>4, <3>5
  <2> QED
      BY <2>2, <2>3
<1> QED
    BY <1>8, <1>9, <1>10, <1>11, <1>12, <1>13

\* A row stays a row when its lease is dropped and its status and due time change.
LEMMA SettledIsARow ==
    ASSUME NEW row \in DeliveryRow, NEW status \in DeliveryStatuses
    PROVE  /\ [row EXCEPT !.status = status, !.owner = NoOwner, !.expires = NoTime] \in DeliveryRow
           /\ [row EXCEPT !.status = status, !.owner = NoOwner, !.expires = NoTime].status = status
           /\ [row EXCEPT !.status = status, !.owner = NoOwner, !.expires = NoTime].attempts
                = row.attempts
<1>1. NoTime \in Time
    BY DEF NoTime, Time
<1> QED
    BY <1>1 DEF DeliveryRow

LEMMA ReleasedIsARow ==
    ASSUME NEW row \in DeliveryRow
    PROVE  /\ [row EXCEPT !.owner = NoOwner, !.expires = NoTime] \in DeliveryRow
           /\ [row EXCEPT !.owner = NoOwner, !.expires = NoTime].attempts = row.attempts
<1>1. NoTime \in Time
    BY DEF NoTime, Time
<1> QED
    BY <1>1 DEF DeliveryRow

LEMMA AcknowledgeKeeps ==
    ASSUME OutboxInv, NEW w \in DeliveryWorkers, AcknowledgeDelivery(w)
    PROVE  OutboxInv'
<1> DEFINE i == attempt[w].event
           c == callEvents[i].call
           row == [deliveries[i] EXCEPT !.status = "delivered", !.owner = NoOwner,
                                        !.expires = NoTime]
<1> USE DEF OutboxInv
<1>1. Settling(w) /\ attempt[w].success /\ ClaimHeld(w, attempt[w]) /\ SettledAttempt(w)
    BY DEF AcknowledgeDelivery
<1>2. i \in EventIds /\ i \in acknowledged
    BY <1>1, AttemptIsHeld DEF Settling, AckInv
<1>3. deliveries[i] \in DeliveryRow
    BY <1>2 DEF OutboxTypeOK, TypeOK
<1>4. row \in DeliveryRow /\ row.status = "delivered" /\ row.attempts = deliveries[i].attempts
  <2>1. row = [deliveries[i] EXCEPT !.status = "delivered", !.owner = NoOwner,
                                    !.expires = NoTime]
      OBVIOUS
  <2>2. "delivered" \in DeliveryStatuses
      BY DEF DeliveryStatuses
  <2> HIDE DEF row, i
  <2> QED
      BY <1>3, <2>1, <2>2, SettledIsARow
<1>5. deliveries' = [deliveries EXCEPT ![i] = row]
    BY <1>2 DEF AcknowledgeDelivery, OutboxTypeOK, TypeOK
<1>6. \/ /\ calls' = calls
         /\ \E j \in EventsOf(c) \ {i} : deliveries[j].status # "delivered"
      \/ /\ calls' = [calls EXCEPT ![c].webhook = "delivered"]
         /\ \A j \in EventsOf(c) \ {i} : deliveries[j].status = "delivered"
    BY DEF AcknowledgeDelivery
<1> HIDE DEF row
<1> QED
    BY <1>1, <1>2, <1>4, <1>5, <1>6, SettledRow

LEMMA FailKeeps ==
    ASSUME OutboxInv, NEW w \in DeliveryWorkers, FailDelivery(w)
    PROVE  OutboxInv'
<1> DEFINE i == attempt[w].event
           c == callEvents[i].call
           released == [deliveries[i] EXCEPT !.owner = NoOwner, !.expires = NoTime]
<1> USE DEF OutboxInv
<1>1. Settling(w) /\ ClaimHeld(w, attempt[w]) /\ SettledAttempt(w)
    BY DEF FailDelivery
<1>2. i \in EventIds /\ attempt[w] \in Attempt /\ attempt[w].at \in Time
    BY <1>1, AttemptIsHeld DEF Settling, Attempt
<1>3. deliveries[i] \in DeliveryRow
    BY <1>2 DEF OutboxTypeOK, TypeOK
<1>r. released \in DeliveryRow /\ released.attempts = deliveries[i].attempts
  <2> HIDE DEF i
  <2> QED
      BY <1>3, ReleasedIsARow
<1>4. CASE LastAttempt(attempt[w].number)
  <2> DEFINE row == [released EXCEPT !.status = "dead_lettered", !.nextAt = attempt[w].at]
  <2>1. /\ deliveries' = [deliveries EXCEPT ![i] = row]
        /\ calls' = [calls EXCEPT ![c].webhook = "dead_lettered"]
      BY <1>4 DEF FailDelivery
  <2>2. /\ row \in DeliveryRow /\ row.status = "dead_lettered"
        /\ row.attempts = deliveries[i].attempts
    <3>1. "dead_lettered" \in DeliveryStatuses
        BY DEF DeliveryStatuses
    <3> HIDE DEF released, i
    <3> QED
        BY <1>2, <1>r, <3>1 DEF DeliveryRow
  <2> HIDE DEF row
  <2> QED
      BY <1>1, <2>1, <2>2, SettledRow
<1>5. CASE ~LastAttempt(attempt[w].number)
  <2>1. PICK d \in Jittered(RetryDelays[attempt[w].number + 1]) :
          deliveries' = [deliveries EXCEPT ![i] =
            [released EXCEPT !.status = "pending", !.nextAt = Later(attempt[w].at, d)]]
      BY <1>5 DEF FailDelivery
  <2>2. calls' = calls
      BY <1>5 DEF FailDelivery
  <2>3. Later(attempt[w].at, d) \in Time
      BY <1>2, CallStoreAssumption DEF Later, Time, Jittered
  <2> DEFINE row == [released EXCEPT !.status = "pending", !.nextAt = Later(attempt[w].at, d)]
  <2>4. row \in DeliveryRow /\ row.status = "pending" /\ row.attempts = deliveries[i].attempts
    <3>1. "pending" \in DeliveryStatuses
        BY DEF DeliveryStatuses
    <3> HIDE DEF released, i
    <3> QED
        BY <1>r, <2>3, <3>1 DEF DeliveryRow
  <2>5. deliveries' = [deliveries EXCEPT ![i] = row]
      BY <2>1
  <2> HIDE DEF row
  <2> QED
      BY <1>1, <2>2, <2>4, <2>5, SettledRow
<1> QED
    BY <1>4, <1>5

LEMMA RedeliverKeeps ==
    ASSUME OutboxInv, NEW i \in EventIds, Redeliver(i, now)
    PROVE  OutboxInv'
<1> USE DEF OutboxInv
<1>1. /\ Stored(i) /\ redelivered' = redelivered \cup {i} /\ acknowledged' = acknowledged \ {i}
      /\ UNCHANGED <<now, calls, recordings, callEvents, leases, running, claims, attempt,
                     crashes>>
    BY DEF Redeliver
<1>2. PendingDelivery(now) \in DeliveryRow /\ PendingDelivery(now).status = "pending"
  <2>1. now \in Time
      BY DEF OutboxTypeOK, TypeOK, Time
  <2>2. PendingDelivery(now) \in DeliveryRow
      BY <2>1, PendingDeliveryIsARow
  <2>3. PendingDelivery(now).status = "pending"
      BY DEF PendingDelivery, NoDelivery
  <2> QED
      BY <2>2, <2>3
<1>3. /\ deliveries' \in [EventIds -> DeliveryRow] /\ deliveries'[i].status = "pending"
      /\ \A j \in EventIds \ {i} : deliveries'[j] = deliveries[j]
    BY <1>2 DEF Redeliver, OutboxTypeOK, TypeOK
<1>4. OutboxTypeOK'
    BY <1>1, <1>3 DEF OutboxTypeOK, TypeOK
<1>5. RowsInv'
    BY <1>1, <1>3, RowsKept
<1>6. HeldInv' /\ AttemptHasOneSender'
    BY <1>1, <1>3, HeldKept, HoldingsKept DEF Stored
<1>7. AckInv'
  <2> SUFFICES ASSUME NEW v \in DeliveryWorkers, attempt'[v] # NoAttempt
               PROVE  /\ attempt'[v] = attempt[v]
                      /\ ClaimHeld(v, attempt[v])' =>
                           ClaimHeld(v, attempt[v]) /\ (attempt[v].event \in acknowledged =>
                                                        attempt[v].event \in acknowledged')
      BY AckKept
  <2>1. attempt[v].event \in EventIds
      BY <1>1, AttemptIsHeld
  <2> QED
      BY <1>1, <1>3, <2>1 DEF ClaimHeld
<1>8. DeliveredMeansAcknowledged'
    BY <1>1, <1>3 DEF DeliveredMeansAcknowledged
<1>9. AgreesInv'
    BY <1>1, <1>3, AgreesKept DEF SameCalls
<1> QED
    BY <1>4, <1>5, <1>6, <1>7, <1>8, <1>9

-----------------------------------------------------------------------------
LEMMA OutboxInvInit == OutboxInit => OutboxInv
<1> SUFFICES ASSUME OutboxInit PROVE OutboxInv
    OBVIOUS
<1> USE DEF OutboxInit
<1>1. TypeOK
    BY InitTypeOK
<1>2. OutboxTypeOK
    BY <1>1, OutboxAssumption DEF OutboxTypeOK
<1>3. \A i \in EventIds : ~Stored(i) /\ deliveries[i].status = "none"
    BY DEF Init, Stored, NoDelivery
<1>4. RowsInv /\ DeliveredMeansAcknowledged
    BY <1>3 DEF RowsInv, DeliveredMeansAcknowledged
<1>5. \A w \in DeliveryWorkers : HeldBy(w) = {}
    BY DEF HeldBy
<1>6. HeldInv /\ AttemptHasOneSender /\ AckInv
    BY <1>5 DEF HeldInv, AttemptHasOneSender, AckInv
<1>7. AgreesInv
    BY DEF AgreesInv, Init, Terminal, AbsentRow, TerminalStatuses
<1> QED
    BY <1>2, <1>4, <1>6, <1>7 DEF OutboxInv

LEMMA DeliveryNextKeeps == OutboxInv /\ DeliveryNext => OutboxInv'
<1>1. ASSUME OutboxInv, NEW w \in DeliveryWorkers, DeliveryStep(w) PROVE OutboxInv'
    BY <1>1, ClaimKeeps, PostKeeps, AcknowledgeKeeps, FailKeeps, LostKeeps
       DEF DeliveryStep, PostAny, Settle
<1> QED
    BY <1>1, LostKeeps, RestartKeeps, RedeliverKeeps DEF DeliveryNext

-----------------------------------------------------------------------------
(* Delivery among any callers *)

\* The delivery workers and the operator beside callers that use the repository's methods
\* as they like, with any lease they were ever given.
ServedNext == DeliveryNext \/ (MethodStep /\ UNCHANGED deliveryVars)

ServedSpec == OutboxInit /\ [][ServedNext]_outboxVars

LEMMA ServedInvNext == OutboxInv /\ [ServedNext]_outboxVars => OutboxInv'
<1> SUFFICES ASSUME OutboxInv, [ServedNext]_outboxVars PROVE OutboxInv'
    OBVIOUS
<1>1. CASE DeliveryNext
    BY <1>1, DeliveryNextKeeps
<1>2. CASE [MethodStep]_storeVars /\ UNCHANGED deliveryVars
    BY <1>2, MethodKeeps
<1> QED
    BY <1>1, <1>2 DEF ServedNext, outboxVars, deliveryVars

LEMMA ServedAlways == ServedSpec => []OutboxInv
BY OutboxInvInit, ServedInvNext, PTL DEF ServedSpec

\* The methods that Outbox lets callers use are some of those.
LEMMA CallStepIsAMethod ==
    ASSUME OutboxTypeOK, CallStep
    PROVE  MethodStep
<1>1. now \in Time
    BY DEF OutboxTypeOK, TypeOK, Time
<1>2. ASSUME NEW c \in Calls, NEW o \in Owners \ DeliveryWorkers, NEW recorded \in BOOLEAN,
             BeginCall(c, o, recorded, now)
      PROVE  MethodStep
    BY <1>1, <1>2 DEF MethodStep
<1>3. ASSUME NEW l \in leases, NEW reason \in EndedReasons, NEW i \in EventIds,
             Terminalize(l, reason, "none", now, i)
      PROVE  MethodStep
    BY <1>1, <1>3 DEF MethodStep
<1>4. ASSUME NEW c \in Calls, NEW i \in EventIds, MarkRecordingReady(c, now, i)
      PROVE  MethodStep
    BY <1>1, <1>4 DEF MethodStep
<1> QED
    BY <1>2, <1>3, <1>4 DEF CallStep

LEMMA OutboxStepIsServed == OutboxInv /\ [OutboxNext]_outboxVars => [ServedNext]_outboxVars
<1> SUFFICES ASSUME OutboxInv, OutboxNext PROVE ServedNext
    OBVIOUS
<1>1. CASE CallStep
    BY <1>1, CallStepIsAMethod DEF OutboxInv, ServedNext, CallStep
<1>2. CASE OutboxTick
    BY <1>2 DEF ServedNext, OutboxTick, MethodStep
<1> QED
    BY <1>1, <1>2 DEF OutboxNext, ServedNext

LEMMA OutboxIsServed == OutboxSpec => ServedSpec
BY OutboxInvInit, OutboxStepIsServed, ServedInvNext, PTL DEF OutboxSpec, ServedSpec

LEMMA OutboxAlways == OutboxSpec => []OutboxInv
BY OutboxIsServed, ServedAlways, PTL

-----------------------------------------------------------------------------
(* The theorems *)

\* The tables, the workers' claims and what the receiver acknowledged keep their types.
THEOREM OutboxTypeCorrect == OutboxSpec => []OutboxTypeOK
<1>1. OutboxInv => OutboxTypeOK
    BY DEF OutboxInv
<1> QED
    BY <1>1, OutboxAlways, PTL

\* claim_deliveries counts the attempt in the transaction that leases the row, so two
\* workers never hold the same attempt of an event the operator left alone.
THEOREM AttemptsHaveOneSender == OutboxSpec => []AttemptHasOneSender
<1>1. OutboxInv => AttemptHasOneSender
    BY DEF OutboxInv
<1> QED
    BY <1>1, OutboxAlways, PTL

\* A row is settled as delivered only for an answer to the attempt it is leased for, so a
\* late success never settles a row that was reset or leased again.
THEOREM DeliveredIsTrue == OutboxSpec => []DeliveredMeansAcknowledged
<1>1. OutboxInv => DeliveredMeansAcknowledged
    BY DEF OutboxInv
<1> QED
    BY <1>1, OutboxAlways, PTL

LEMMA AgreesSaysSo == OutboxInv => WebhookStatusAgrees
<1> SUFFICES ASSUME OutboxInv, NEW c \in Calls, Terminal(c), EventsOf(c) \cap redelivered = {}
             PROVE  LET statuses == {deliveries[i].status : i \in EventsOf(c)}
                    IN  /\ calls[c].webhook = "dead_lettered" <=> "dead_lettered" \in statuses
                        /\ calls[c].webhook = "pending" => statuses # {"delivered"}
                        /\ calls[c].webhook = "delivered" =>
                             \A i \in TerminalEventsOf(c) : deliveries[i].status = "delivered"
    BY DEF WebhookStatusAgrees
<1> DEFINE statuses == {deliveries[i].status : i \in EventsOf(c)}
<1>1. \A i \in EventsOf(c) : i \notin redelivered
    OBVIOUS
<1>2. calls[c].webhook = "dead_lettered" <=> "dead_lettered" \in statuses
    BY <1>1 DEF OutboxInv, AgreesInv
<1>3. calls[c].webhook = "pending" => statuses # {"delivered"}
  <2>1. CASE EventsOf(c) = {}
      BY <2>1
  <2>2. ASSUME NEW i \in EventsOf(c), deliveries[i].status # "delivered"
        PROVE  statuses # {"delivered"}
      BY <2>2
  <2> QED
      BY <1>1, <2>1, <2>2 DEF OutboxInv, AgreesInv
<1>4. calls[c].webhook = "delivered" =>
        \A i \in TerminalEventsOf(c) : deliveries[i].status = "delivered"
    BY <1>1 DEF OutboxInv, AgreesInv
<1> QED
    BY <1>2, <1>3, <1>4

\* calls.webhook_status, written with the rows in one transaction, agrees with them.
THEOREM WebhookStatusIsTrue == OutboxSpec => []WebhookStatusAgrees
BY AgreesSaysSo, OutboxAlways, PTL

\* A row leaves a settled state in the operator's transaction and in no other.
Reopens ==
    \A i \in EventIds :
        deliveries[i].status \in {"delivered", "dead_lettered"} =>
            \/ deliveries'[i] = deliveries[i]
            \/ i \in redelivered' \ redelivered

\* The worker that settles its attempt writes the row of that event, which it had claimed.
LEMMA SettlingWrites ==
    ASSUME OutboxInv, NEW w \in DeliveryWorkers, AcknowledgeDelivery(w) \/ FailDelivery(w)
    PROVE  /\ attempt[w].event \in EventIds
           /\ deliveries[attempt[w].event].status = "delivering"
           /\ \E new : /\ new.status \in {"delivered", "dead_lettered", "pending"}
                       /\ deliveries' = [deliveries EXCEPT ![attempt[w].event] = new]
<1> DEFINE i == attempt[w].event
           old == deliveries[i]
           Writes(row) == /\ row.status \in {"delivered", "dead_lettered", "pending"}
                          /\ deliveries' = [deliveries EXCEPT ![i] = row]
<1>1. attempt[w] # NoAttempt /\ old.status = "delivering"
    BY DEF AcknowledgeDelivery, FailDelivery, Settling, ClaimHeld
<1>2. i \in EventIds /\ deliveries \in [EventIds -> DeliveryRow]
    BY <1>1, AttemptIsHeld DEF OutboxInv, OutboxTypeOK, TypeOK
<1>3. old \in DeliveryRow
    BY <1>2
<1>4. ASSUME AcknowledgeDelivery(w) PROVE \E row : Writes(row)
  <2> DEFINE new == [old EXCEPT !.status = "delivered", !.owner = NoOwner, !.expires = NoTime]
  <2>1. deliveries' = [deliveries EXCEPT ![i] = new]
    BY <1>4 DEF AcknowledgeDelivery
  <2>2. new.status = "delivered"
    BY <1>3 DEF DeliveryRow
  <2>3. Writes(new)
    BY <2>1, <2>2
  <2> HIDE DEF new, Writes
  <2> QED
    BY <2>3
<1>5. ASSUME FailDelivery(w) PROVE \E row : Writes(row)
  <2> DEFINE new(status, at) == [[old EXCEPT !.owner = NoOwner, !.expires = NoTime]
                                     EXCEPT !.status = status, !.nextAt = at]
  <2>1. \A status, at : new(status, at).status = status
    BY <1>3 DEF DeliveryRow
  <2>2. CASE LastAttempt(attempt[w].number)
    <3>1. deliveries' = [deliveries EXCEPT ![i] = new("dead_lettered", attempt[w].at)]
      BY <1>5, <2>2 DEF FailDelivery
    <3> HIDE DEF new
    <3>2. Writes(new("dead_lettered", attempt[w].at))
      BY <2>1, <3>1
    <3> HIDE DEF Writes
    <3> QED
      BY <3>2
  <2>3. CASE ~LastAttempt(attempt[w].number)
    <3>1. PICK d : deliveries' = [deliveries EXCEPT ![i] = new("pending", Later(attempt[w].at, d))]
      BY <1>5, <2>3 DEF FailDelivery
    <3> HIDE DEF new
    <3>2. Writes(new("pending", Later(attempt[w].at, d)))
      BY <2>1, <3>1
    <3> HIDE DEF Writes
    <3> QED
      BY <3>2
  <2> QED
    BY <2>2, <2>3
<1> QED
    BY <1>1, <1>2, <1>4, <1>5

LEMMA StepsReopenNothing == OutboxInv /\ [ServedNext]_outboxVars => Reopens
<1> SUFFICES ASSUME OutboxInv, [ServedNext]_outboxVars, NEW i \in EventIds,
                    deliveries[i].status \in {"delivered", "dead_lettered"},
                    deliveries'[i] # deliveries[i]
             PROVE  i \in redelivered' \ redelivered
    BY DEF Reopens
<1>1. Stored(i)
    BY DEF OutboxInv, RowsInv
<1>2. ~MethodStep
  <2>1. deliveries \in [EventIds -> DeliveryRow]
      BY DEF OutboxInv, OutboxTypeOK, TypeOK
  <2>2. ASSUME NEW j \in EventIds, NEW body, NEW t, InsertEvent(j, body, t) PROVE FALSE
      BY <1>1, <2>1, <2>2 DEF InsertEvent, FreshId, Stored
  <2>3. ASSUME NEW l \in leases, NEW reason, NEW provider, NEW t, NEW j \in EventIds,
               Terminalize(l, reason, provider, t, j)
        PROVE  FALSE
    <3>1. PICK body : InsertEvent(j, body, t)
        BY <2>3 DEF Terminalize
    <3> QED
        BY <2>2, <3>1
  <2>4. ASSUME NEW c \in Calls, NEW t, NEW j \in EventIds, MarkRecordingReady(c, t, j) PROVE FALSE
    <3>1. PICK body : InsertEvent(j, body, t)
        BY <2>4 DEF MarkRecordingReady
    <3> QED
        BY <2>2, <3>1
  <2> QED
      BY <2>3, <2>4
         DEF MethodStep, Tick, BeginCall, HandoffCall, TakeoverExpiredCall, GrantNextGeneration,
             RenewLease, FlushResults, UpdateProviderState, RecordProviderObservation,
             AppendTranscript, MarkRecordingFailed
<1>3. ASSUME NEW w \in DeliveryWorkers, NEW t \in ClockReadings, ClaimDeliveries(w, t)
      PROVE  FALSE
  <2>1. ~Due(i, t)
      BY DEF Due
  <2> QED
      BY <1>3, <2>1 DEF ClaimDeliveries, Batches
<1>4. ASSUME NEW w \in DeliveryWorkers, AcknowledgeDelivery(w) \/ FailDelivery(w)
      PROVE  FALSE
  <2>1. PICK new : deliveries' = [deliveries EXCEPT ![attempt[w].event] = new]
      BY <1>4, SettlingWrites
  <2>2. attempt[w].event # i
      BY <1>4, SettlingWrites
  <2>3. deliveries \in [EventIds -> DeliveryRow]
      BY DEF OutboxInv, OutboxTypeOK, TypeOK
  <2> QED
      BY <2>1, <2>2, <2>3
<1>5. ASSUME NEW j \in EventIds, Redeliver(j, now) PROVE i \in redelivered' \ redelivered
    BY <1>5 DEF Redeliver, OutboxInv, OutboxTypeOK, TypeOK
<1>6. ASSUME NEW w \in DeliveryWorkers, NEW claim, NEW success, Post(w, claim, success) PROVE FALSE
    BY <1>6 DEF Post, storeVars
<1>7. ASSUME NEW w \in DeliveryWorkers, LoseClaim(w) \/ Crash(w) \/ Restart(w) PROVE FALSE
    BY <1>7 DEF LoseClaim, Crash, Restart, storeVars
<1>8. ~UNCHANGED outboxVars
    BY DEF outboxVars, deliveryVars, storeVars
<1>9. ASSUME NEW w \in DeliveryWorkers, DeliveryStep(w) PROVE FALSE
    BY <1>3, <1>4, <1>6, <1>7, <1>9 DEF DeliveryStep, PostAny, Settle
<1> QED
    BY <1>2, <1>5, <1>7, <1>8, <1>9 DEF ServedNext, DeliveryNext

\* Delivered and dead-lettered rows stay so until the operator resets them.
THEOREM SettledStaysSettled == OutboxSpec => OnlyTheOperatorReopens
<1>1. OutboxInv /\ [ServedNext]_outboxVars => [Reopens]_outboxVars
    BY StepsReopenNothing
<1>2. OutboxSpec => [][Reopens]_outboxVars
    BY <1>1, OutboxIsServed, ServedAlways, PTL DEF ServedSpec
<1> QED
    BY <1>2 DEF OnlyTheOperatorReopens, Reopens

-----------------------------------------------------------------------------
(* Delivery beside the repository's promise *)

\* What delivery reads and writes of a call: its webhook status, and nothing else of a
\* row that is stored; an event, never.
OnlyDelivers ==
    /\ callEvents' = callEvents
    /\ calls' \in [Calls -> CallRow]
    /\ \A c \in Calls :
         \/ calls'[c] = calls[c]
         \/ Terminal(c) /\ calls'[c] = [calls[c] EXCEPT !.webhook = calls'[c].webhook]
    /\ \A i \in EventIds : deliveries[i].status # "none" => deliveries'[i].status # "none"

LEMMA SettlingOnlyDelivers ==
    ASSUME OutboxInv, NEW w \in DeliveryWorkers, AcknowledgeDelivery(w) \/ FailDelivery(w)
    PROVE  OnlyDelivers
<1> DEFINE i == attempt[w].event
           c == callEvents[i].call
<1>1. /\ i \in EventIds /\ Stored(i) /\ c \in Calls /\ Terminal(c)
  <2>1. attempt[w] # NoAttempt
    BY DEF AcknowledgeDelivery, FailDelivery, Settling
  <2> QED
    BY <2>1, AttemptIsHeld DEF OutboxInv, RowsInv
<1>2. calls \in [Calls -> CallRow] /\ deliveries \in [EventIds -> DeliveryRow]
    BY DEF OutboxInv, OutboxTypeOK, TypeOK
<1>3. ASSUME NEW webhook \in {"delivered", "dead_lettered"},
             calls' = [calls EXCEPT ![c].webhook = webhook]
      PROVE  /\ calls' \in [Calls -> CallRow]
             /\ calls'[c] = [calls[c] EXCEPT !.webhook = calls'[c].webhook]
             /\ \A d \in Calls \ {c} : calls'[d] = calls[d]
  <2> DEFINE row == [calls[c] EXCEPT !.webhook = webhook]
  <2>1. calls' = [calls EXCEPT ![c] = row]
    BY <1>3
  <2>2. row \in CallRow /\ row.webhook = webhook
    <3>1. calls[c] \in CallRow
      BY <1>1, <1>2
    <3> HIDE DEF c
    <3> QED
      BY <3>1, WebhookUpdate
  <2>3. calls'[c] = row /\ \A d \in Calls \ {c} : calls'[d] = calls[d]
    BY <1>1, <1>2, <2>1
  <2>4. calls' \in [Calls -> CallRow]
    BY <1>1, <1>2, <2>1, <2>2, RowUpdate
  <2> QED
    BY <2>2, <2>3, <2>4
<1>4. callEvents' = callEvents
    BY DEF AcknowledgeDelivery, FailDelivery, SettledAttempt
<1>5. \/ calls' = calls
      \/ \E webhook \in {"delivered", "dead_lettered"} :
            calls' = [calls EXCEPT ![c].webhook = webhook]
    BY DEF AcknowledgeDelivery, FailDelivery
<1>6. \A j \in EventIds : deliveries'[j] = deliveries[j] \/ deliveries'[j].status # "none"
  <2>1. PICK new : /\ new.status \in {"delivered", "dead_lettered", "pending"}
                   /\ deliveries' = [deliveries EXCEPT ![i] = new]
    BY SettlingWrites
  <2> QED
    BY <1>1, <1>2, <2>1
<1> QED
    BY <1>1, <1>2, <1>3, <1>4, <1>5, <1>6 DEF OnlyDelivers

\* A step of delivery leaves the tables alone or only delivers.
LEMMA DeliveryOnlyDelivers ==
    ASSUME OutboxInv, DeliveryNext
    PROVE  /\ UNCHANGED storeVars \/ OnlyDelivers
           /\ UNCHANGED <<now, recordings, leases>>
<1>1. TypeOK /\ calls \in [Calls -> CallRow] /\ deliveries \in [EventIds -> DeliveryRow]
  <2>1. TypeOK
    BY DEF OutboxInv, OutboxTypeOK
  <2> QED
    BY <2>1 DEF TypeOK
<1>2. UNCHANGED <<now, recordings, leases>>
  <2>1. ASSUME NEW w, DeliveryStep(w) PROVE UNCHANGED <<now, recordings, leases>>
    <3>1. ASSUME NEW t, ClaimDeliveries(w, t) PROVE UNCHANGED <<now, recordings, leases>>
      BY <3>1 DEF ClaimDeliveries
    <3>2. ASSUME PostAny(w) \/ LoseClaim(w) PROVE UNCHANGED <<now, recordings, leases>>
      BY <3>2 DEF PostAny, Post, LoseClaim, storeVars
    <3>3. ASSUME AcknowledgeDelivery(w) \/ FailDelivery(w)
          PROVE  UNCHANGED <<now, recordings, leases>>
      BY <3>3 DEF AcknowledgeDelivery, FailDelivery, SettledAttempt
    <3> QED
      BY <2>1, <3>1, <3>2, <3>3 DEF DeliveryStep, Settle
  <2>2. ASSUME NEW w, Crash(w) \/ Restart(w) PROVE UNCHANGED <<now, recordings, leases>>
    BY <2>2 DEF Crash, Restart, storeVars
  <2>3. ASSUME NEW i, Redeliver(i, now) PROVE UNCHANGED <<now, recordings, leases>>
    BY <2>3 DEF Redeliver
  <2> QED
    BY <2>1, <2>2, <2>3 DEF DeliveryNext
<1>4. ASSUME NEW w \in DeliveryWorkers, NEW t \in ClockReadings, ClaimDeliveries(w, t)
      PROVE  OnlyDelivers
  <2>1. /\ callEvents' = callEvents /\ calls' = calls
        /\ \A i \in EventIds : deliveries'[i] = deliveries[i] \/ deliveries'[i].status = "delivering"
    <3>1. PICK batch : deliveries' = [i \in EventIds |->
             IF i \in batch
             THEN [deliveries[i] EXCEPT !.status = "delivering", !.attempts = @ + 1,
                                        !.owner = w, !.expires = Later(t, ClaimTTL)]
             ELSE deliveries[i]]
      BY <1>4 DEF ClaimDeliveries
    <3>2. \A i \in EventIds : deliveries[i] \in DeliveryRow
      BY <1>1
    <3>3. callEvents' = callEvents /\ calls' = calls
      BY <1>4 DEF ClaimDeliveries
    <3> QED
      BY <3>1, <3>2, <3>3 DEF DeliveryRow
  <2> QED
    BY <1>1, <2>1 DEF OnlyDelivers
<1>5. ASSUME NEW w \in DeliveryWorkers,
             PostAny(w) \/ LoseClaim(w) \/ Crash(w) \/ Restart(w)
      PROVE  UNCHANGED storeVars
    BY <1>5 DEF PostAny, Post, LoseClaim, Crash, Restart
<1>6. ASSUME NEW w \in DeliveryWorkers, AcknowledgeDelivery(w) \/ FailDelivery(w)
      PROVE  OnlyDelivers
    BY <1>6, SettlingOnlyDelivers
<1>7. ASSUME NEW i \in EventIds, Redeliver(i, now)
      PROVE  OnlyDelivers
  <2>1. /\ callEvents' = callEvents /\ calls' = calls
        /\ \A j \in EventIds : deliveries'[j] = deliveries[j] \/ deliveries'[j].status = "pending"
    BY <1>1, <1>7 DEF Redeliver, PendingDelivery, NoDelivery
  <2> QED
    BY <1>1, <2>1 DEF OnlyDelivers
<1> QED
    BY <1>2, <1>4, <1>5, <1>6, <1>7 DEF DeliveryNext, DeliveryStep, Settle

\* So with any callers a step is one of the repository's methods or only delivers.
LEMMA MethodsOrDelivery ==
    ASSUME OutboxInv, [ServedNext]_outboxVars
    PROVE  [MethodStep]_storeVars \/ OnlyDelivers
BY DeliveryOnlyDelivers DEF ServedNext, outboxVars, deliveryVars

\* Delivery keeps what the repository's proofs rest on.
LEMMA DeliveryKeeps ==
    ASSUME RefineInv, TypeOK', OnlyDelivers
    PROVE  RefineInv'
<1>1. \A c \in Calls : /\ calls'[c].status = calls[c].status
                       /\ calls'[c].reason = calls[c].reason
                       /\ calls'[c].result = calls[c].result
                       /\ calls'[c].by = calls[c].by /\ calls'[c].gen = calls[c].gen
    BY DEF OnlyDelivers, RefineInv, BlankInv, TypeOK, CallRow
<1>2. BlankInv'
  <2>1. \A c \in Calls : \/ calls'[c] = calls[c]
                         \/ calls'[c].status # "absent" /\ calls'[c].by = calls'[c].gen
      BY <1>1 DEF OnlyDelivers, RefineInv, BlankInv, Terminal, TerminalStatuses
  <2> QED
      BY <2>1, BlankRows DEF RefineInv
<1>3. AtMostOneEventOfAKind'
    BY DEF OnlyDelivers, RefineInv, EventInv, AtMostOneEventOfAKind, Stored, IsTerminalEvent
<1>4. \A c \in Calls : TerminalEventsOf(c)' = TerminalEventsOf(c)
                       /\ TerminalEventsOf(c) \subseteq EventIds
    BY DEF OnlyDelivers, TerminalEventsOf, IsTerminalEvent, Stored
<1>5. OutcomeIsPublished'
    BY <1>1, <1>4 DEF OnlyDelivers, RefineInv, EventInv, OutcomeIsPublished, Terminal
<1> QED
    BY <1>2, <1>3, <1>5 DEF RefineInv, EventInv

LEMMA ServedKeepsRefineInv ==
    RefineInv /\ OutboxInv /\ OutboxInv' /\ [ServedNext]_outboxVars => RefineInv'
<1> SUFFICES ASSUME RefineInv, OutboxInv, OutboxInv', [ServedNext]_outboxVars
             PROVE  RefineInv'
    OBVIOUS
<1>1. CASE [MethodStep]_storeVars
    BY <1>1, NextBlankInv, NextEventInv DEF RefineInv
<1>2. CASE OnlyDelivers
    BY <1>2, DeliveryKeeps DEF OutboxInv, OutboxTypeOK
<1> QED
    BY <1>1, <1>2, MethodsOrDelivery

\* Delivery writes no result, renews and ends no call and changes no finished row but its webhook
\* status; to the abstract call it is a stutter.
LEMMA DeliveryIsHarmless ==
    ASSUME RefineInv, OnlyDelivers
    PROVE  /\ \A c \in Calls : FencedWrite(c)
           /\ \A c \in Calls : Terminal(c) => SameVerdict(c)
           /\ \A i \in EventIds : Stored(i) => callEvents'[i] = callEvents[i]
           /\ UNCHANGED <<PhaseBar, EpochBar, DraftBar, PublishedBar>>
<1>1. calls \in [Calls -> CallRow]
    BY DEF RefineInv, BlankInv, TypeOK
<1>2. \A c \in Calls : /\ calls'[c].status = calls[c].status
                       /\ calls'[c].gen = calls[c].gen /\ calls'[c].by = calls[c].by
                       /\ calls'[c].result = calls[c].result
    BY <1>1 DEF OnlyDelivers, CallRow
<1>3. \A c \in Calls : FencedWrite(c)
    BY <1>2 DEF FencedWrite, RefineInv, BlankInv
<1>4. \A c \in Calls : Terminal(c) => SameVerdict(c)
    BY <1>1 DEF OnlyDelivers, SameVerdict, CallRow
<1> QED
    BY <1>1, <1>2, <1>3, <1>4, RowStutter DEF OnlyDelivers

\* Whatever its callers do, and with deliveries claimed, posted, lost, crashed and reset
\* beside them, the repository keeps its promise about every call: one terminal event that
\* says what the row says, final for good, of a call as CallOutcome describes one.
THEOREM ServedCallsKeepThePromise ==
    ServedSpec => /\ []AtMostOneEventOfAKind /\ []OutcomeIsPublished
                  /\ OnlyTheCurrentGenerationWrites /\ FinishedIsFinal /\ ImplementsOutcome
<1> DEFINE Fenced == \A c \in Calls : FencedWrite(c)
           Final == /\ \A c \in Calls : Terminal(c) => SameVerdict(c)
                    /\ \A i \in EventIds : Stored(i) => callEvents'[i] = callEvents[i]
<1>1. OutboxInit => RefineInv /\ Init /\ Outcome!Init
    BY InitBlankInv, InitEventInv, InitOutcome DEF OutboxInit, RefineInv
<1>2. ServedSpec => [](RefineInv /\ OutboxInv)
    BY <1>1, ServedAlways, ServedKeepsRefineInv, PTL DEF ServedSpec
<1>3. RefineInv /\ OutboxInv /\ [ServedNext]_outboxVars =>
        [Fenced]_storeVars /\ [Final]_storeVars /\ [Outcome!Next]_(Outcome!outcomeVars)
  <2> SUFFICES ASSUME RefineInv, OutboxInv, [ServedNext]_outboxVars
               PROVE  /\ [Fenced]_storeVars /\ [Final]_storeVars
                      /\ [Outcome!Next]_(Outcome!outcomeVars)
      OBVIOUS
  <2>1. CASE [MethodStep]_storeVars
    BY <2>1, NextFencedWrite, NextKeepsFinished, NextOutcome DEF RefineInv, BlankInv
  <2>2. CASE OnlyDelivers
    BY <2>2, DeliveryIsHarmless
       DEF Outcome!outcomeVars, PhaseBar, EpochBar, DraftBar, PublishedBar
  <2> QED
    BY <2>1, <2>2, MethodsOrDelivery
<1>4. ServedSpec => /\ [][Fenced]_storeVars /\ [][Final]_storeVars
                    /\ Outcome!Init /\ [][Outcome!Next]_(Outcome!outcomeVars)
    BY <1>1, <1>2, <1>3, PTL DEF ServedSpec
<1>5. RefineInv => AtMostOneEventOfAKind /\ OutcomeIsPublished
    BY DEF RefineInv, EventInv
<1>6. ServedSpec => []AtMostOneEventOfAKind /\ []OutcomeIsPublished
    BY <1>2, <1>5, PTL
<1> QED
    BY <1>4, <1>6 DEF OnlyTheCurrentGenerationWrites, FencedWrite, FinishedIsFinal, SameVerdict,
                      ImplementsOutcome, Outcome!Spec

\* And whatever they do, delivery is as with the callers of Outbox: types, one sender of an
\* attempt, "delivered" only for an acknowledged event, true webhook statuses, and settled
\* deliveries that only the operator reopens.
THEOREM DeliveryAmongAnyCallers ==
    ServedSpec => /\ []OutboxTypeOK /\ []AttemptHasOneSender /\ []DeliveredMeansAcknowledged
                  /\ []WebhookStatusAgrees /\ OnlyTheOperatorReopens
<1>1. OutboxInv => /\ OutboxTypeOK /\ AttemptHasOneSender /\ DeliveredMeansAcknowledged
                   /\ WebhookStatusAgrees
    BY AgreesSaysSo DEF OutboxInv
<1>2. OutboxInv /\ [ServedNext]_outboxVars => [Reopens]_outboxVars
    BY StepsReopenNothing
<1>3. ServedSpec => [][Reopens]_outboxVars
    BY <1>2, ServedAlways, PTL DEF ServedSpec
<1>4. ServedSpec => [](/\ OutboxTypeOK /\ AttemptHasOneSender /\ DeliveredMeansAcknowledged
                      /\ WebhookStatusAgrees)
    BY <1>1, ServedAlways, PTL
<1> QED
    BY <1>3, <1>4, PTL DEF OnlyTheOperatorReopens, Reopens

\* The callers of Outbox are such callers.
THEOREM DeliveredCallsKeepThePromise ==
    OutboxSpec => /\ []AtMostOneEventOfAKind /\ []OutcomeIsPublished
                  /\ OnlyTheCurrentGenerationWrites /\ FinishedIsFinal /\ ImplementsOutcome
BY OutboxIsServed, ServedCallsKeepThePromise

=============================================================================
