------------------------------ MODULE CallStore ------------------------------
(***************************************************************************)
(* The results repository: one row per call in `calls`, its recording row, *)
(* its immutable events and the outbox rows of those events.  Every public *)
(* method of the repository is one transaction, taken under the writer     *)
(* lock, hence one action.  What interleaves is the callers.               *)
(*                                                                         *)
(* The specification lets ANY caller use ANY lease the repository ever     *)
(* returned, in any order and as late as it likes: workers, the stale-call *)
(* sweeper, the relay and carrier callbacks are all special cases.         *)
(***************************************************************************)
EXTENDS Integers, FiniteSets, IsoTime

CONSTANTS
    Calls,          \* call ids
    Owners,         \* owner ids: worker, sweeper and relay-client processes
    NoOwner,        \* SQL NULL in an owner column
    EventIds,       \* fresh event ids (uuid4)
    NoEvent,        \* an event id that is not in call_events
    ProviderStates, \* carrier states an observation can name
    CompletedReasons, FailedReasons, \* ended reasons, by the terminal event they lead to
    Results,        \* result snapshots a runtime can flush
    NoResult,       \* the columns' defaults before the first flush
    LeaseTTL,       \* ticks a lease is granted for
    MaxLag,         \* bound: how old a caller's clock reading can be
    MaxTime,        \* bound: last instant
    Horizon,        \* bound: lease ends and due times after it are cut to it
    MaxGeneration,  \* bound: ownership changes
    MaxTurns        \* bound: transcript turns

ASSUME CallStoreAssumption ==
    /\ NoOwner \notin Owners /\ NoResult \notin Results
    /\ CompletedReasons \cap FailedReasons = {}
    /\ "none" \notin CompletedReasons \cup FailedReasons
    /\ LeaseTTL \in Nat \ {0}
    /\ MaxLag \in Nat /\ MaxTime \in Nat /\ Horizon \in Nat /\ MaxTurns \in Nat
    /\ MaxGeneration \in Nat \ {0}

VARIABLES
    now,            \* the clock all callers read
    calls,          \* table calls
    recordings,     \* table recordings: the status of the call's row
    callEvents,     \* table call_events
    deliveries,     \* table deliveries (one endpoint per call, so per event)
    leases          \* every lease the repository has returned to a caller

storeVars == <<now, calls, recordings, callEvents, deliveries, leases>>

-----------------------------------------------------------------------------
(* Rows *)

Time == Int

\* The instant d ticks after t.
Later(t, d) == IF t + d > Horizon THEN Horizon ELSE t + d

EndedReasons == CompletedReasons \cup FailedReasons

TerminalTypes == {"call.completed", "call.failed"}
RecordingReadyType == "call.recording.ready"

EventTypeOf(reason) ==
    IF reason \in CompletedReasons THEN "call.completed" ELSE "call.failed"

\* The event type stored as if it were a status.
StatusVerbatim(type) == type

StatusOf(type) == IF type = "call.completed" THEN "completed" ELSE "failed"

TerminalStatuses == {"completed", "failed"}

\* `by` is history, in a row and in a snapshot: no column of the code, it records the
\* generation of the lease its writer held.
\* A flushed snapshot, tagged with the generation of the lease that flushed it.
Snapshots == [by : 1 .. MaxGeneration, data : Results]

ASSUME NoResultAssumption == NoResult \notin Snapshots

CallRow ==
    [status   : {"absent", "active"} \cup TerminalStatuses,
     owner    : Owners \cup {NoOwner},
     gen      : 0 .. MaxGeneration,
     by       : 0 .. MaxGeneration,       \* history: whose lease last wrote the row
     expires  : Time,                     \* lease_expires_at
     provider : ProviderStates \cup {"none"},
     result   : Snapshots \cup {NoResult},  \* outcome, results_json, interruptions
     turns    : Nat,                      \* rows of call_transcript
     reason   : EndedReasons \cup {"none"},
     endedAt  : Time,
     webhook  : {"not_ready", "pending", "delivered", "dead_lettered"}]

AbsentRow ==
    [status |-> "absent", owner |-> NoOwner, gen |-> 0, by |-> 0, expires |-> NoTime,
     provider |-> "none", result |-> NoResult, turns |-> 0, reason |-> "none",
     endedAt |-> NoTime, webhook |-> "not_ready"]

RecordingStatuses == {"none", "pending", "ready", "failed"}

Event ==
    [call : Calls, type : TerminalTypes \cup {RecordingReadyType},
     reason : EndedReasons \cup {"none"}, result : Snapshots \cup {NoResult}, turns : Nat,
     recording : {"none", "pending", "ready"}]

ASSUME NoEventAssumption == NoEvent \notin Event

DeliveryStatuses == {"none", "pending", "delivering", "delivered", "dead_lettered"}

DeliveryRow ==
    [status : DeliveryStatuses, attempts : Nat, nextAt : Time,
     owner : Owners \cup {NoOwner}, expires : Time]

NoDelivery ==
    [status |-> "none", attempts |-> 0, nextAt |-> NoTime,
     owner |-> NoOwner, expires |-> NoTime]

PendingDelivery(t) == [NoDelivery EXCEPT !.status = "pending", !.nextAt = t]

Lease == [call : Calls, owner : Owners, gen : 1 .. MaxGeneration]

-----------------------------------------------------------------------------
(* What the SQL conditions say *)

Active(c) == calls[c].status = "active"

Terminal(c) == calls[c].status \in TerminalStatuses

\* A fence that compares the owner and forgets the generation.
HoldsByOwnerOnly(l) == calls[l.call].owner = l.owner

\* WHERE owner_id = ? AND generation = ?
Holds(l) == calls[l.call].owner = l.owner /\ calls[l.call].gen = l.gen

\* A staleness test that only sees calls whose lease was given back.
LeaseGivenBack(c, t) == calls[c].expires = NoTime

\* lease_expires_at IS NULL OR lease_expires_at <= ?
LeaseLapsed(c, t) == calls[c].expires = NoTime \/ IsoLeq(calls[c].expires, t)

Stored(i) == callEvents[i] # NoEvent

IsTerminalEvent(i) == Stored(i) /\ callEvents[i].type \in TerminalTypes

IsRecordingEvent(i) == Stored(i) /\ callEvents[i].type = RecordingReadyType

FreshId(i) == callEvents[i] = NoEvent

EventBody(c, type, reason, recording) ==
    [call |-> c, type |-> type, reason |-> reason, result |-> calls[c].result,
     turns |-> calls[c].turns, recording |-> recording]

\* A caller reads the clock first and waits for the writer lock after that.
ClockReadings == {t \in 0 .. now : now - t <= MaxLag}

-----------------------------------------------------------------------------
(* The repository's methods.  A call that the code refuses, or answers with  *)
(* what is already stored, changes nothing: it is a stutter.                 *)

\* begin_call: the row, its generation-1 lease and, when the call is recorded,
\* a pending recording row.  A second call with the same id is refused.
BeginCall(c, o, recorded, t) ==
    /\ calls[c].status = "absent"
    /\ calls' = [calls EXCEPT ![c] =
         [AbsentRow EXCEPT !.status = "active", !.owner = o, !.gen = 1, !.by = 1,
                           !.expires = Later(t, LeaseTTL)]]
    /\ recordings' = [recordings EXCEPT ![c] = IF recorded THEN "pending" ELSE "none"]
    /\ leases' = leases \cup {[call |-> c, owner |-> o, gen |-> 1]}
    /\ UNCHANGED <<now, callEvents, deliveries>>

\* The lease after a renewal at clock reading t.
RenewedUntil(c, t) == Later(t, LeaseTTL)

RenewLease(l, t) ==
    /\ Active(l.call) /\ Holds(l)
    /\ calls' = [calls EXCEPT ![l.call].expires = RenewedUntil(l.call, t), ![l.call].by = l.gen]
    /\ UNCHANGED <<now, recordings, callEvents, deliveries, leases>>

\* Ownership moves to o: the generation grows, so every older lease is stale.
GrantNextGeneration(c, o, t) ==
    /\ calls[c].gen < MaxGeneration
    /\ calls' = [calls EXCEPT ![c].owner = o, ![c].gen = @ + 1, ![c].by = calls[c].gen + 1,
                              ![c].expires = Later(t, LeaseTTL)]
    /\ leases' = leases \cup {[call |-> c, owner |-> o, gen |-> calls[c].gen + 1]}
    /\ UNCHANGED <<now, recordings, callEvents, deliveries>>

\* A handoff that renames the owner within the old generation.
HandoffWithinGeneration(c, expected, o, t) ==
    /\ Active(c) /\ calls[c].owner = expected
    /\ calls' = [calls EXCEPT ![c].owner = o, ![c].expires = Later(t, LeaseTTL)]
    /\ leases' = leases \cup {[call |-> c, owner |-> o, gen |-> calls[c].gen]}
    /\ UNCHANGED <<now, recordings, callEvents, deliveries>>

\* handoff_call: from a reservation's owner to the runtime it dispatched.
HandoffCall(c, expected, o, t) ==
    /\ Active(c) /\ calls[c].owner = expected
    /\ GrantNextGeneration(c, o, t)

\* takeover_expired_call
TakeoverExpiredCall(c, o, t) ==
    /\ Active(c) /\ LeaseLapsed(c, t)
    /\ GrantNextGeneration(c, o, t)

\* A flush that is accepted after the call has ended.
FlushAfterEnd(l, data) ==
    /\ Holds(l)
    /\ calls' = [calls EXCEPT ![l.call].result = [by |-> l.gen, data |-> data],
                              ![l.call].by = l.gen]
    /\ UNCHANGED <<now, recordings, callEvents, deliveries, leases>>

FlushResults(l, data) ==
    /\ Active(l.call) /\ Holds(l)
    /\ calls' = [calls EXCEPT ![l.call].result = [by |-> l.gen, data |-> data],
                              ![l.call].by = l.gen]
    /\ UNCHANGED <<now, recordings, callEvents, deliveries, leases>>

UpdateProviderState(l, state) ==
    /\ Active(l.call) /\ Holds(l)
    /\ calls' = [calls EXCEPT ![l.call].provider = state, ![l.call].by = l.gen]
    /\ UNCHANGED <<now, recordings, callEvents, deliveries, leases>>

\* A carrier callback that also updates a finished call.
ObserveAnyTime(c, state) ==
    /\ calls[c].status # "absent"
    /\ calls' = [calls EXCEPT ![c].provider = state]
    /\ UNCHANGED <<now, recordings, callEvents, deliveries, leases>>

\* record_provider_observation: a verified carrier callback, which holds no lease.
RecordProviderObservation(c, state) ==
    /\ Active(c)
    /\ calls' = [calls EXCEPT ![c].provider = state]
    /\ UNCHANGED <<now, recordings, callEvents, deliveries, leases>>

\* append_transcript: an insert for any row that exists, without a fence.
AppendTranscript(c) ==
    /\ calls[c].status # "absent"
    /\ calls[c].turns < MaxTurns
    /\ calls' = [calls EXCEPT ![c].turns = @ + 1]
    /\ UNCHANGED <<now, recordings, callEvents, deliveries, leases>>

\* An event and its outbox row are inserted together.
InsertEvent(i, body, t) ==
    /\ FreshId(i)
    /\ callEvents' = [callEvents EXCEPT ![i] = body]
    /\ deliveries' = [deliveries EXCEPT ![i] = PendingDelivery(t)]

\* A terminal transaction without the compare-and-set on the status.
TerminalizeUnguarded(l, reason, provider, t, i) ==
    LET c == l.call
        type == EventTypeOf(reason)
    IN  /\ Holds(l)
        /\ calls' = [calls EXCEPT ![c].status = StatusOf(type),
                                  ![c].webhook = "pending",
                                  ![c].endedAt = t,
                                  ![c].reason = reason,
                                  ![c].provider = provider,
                                  ![c].expires = NoTime,
                                  ![c].by = l.gen]
        /\ InsertEvent(i, EventBody(c, type, reason,
                          IF recordings[c] = "none" THEN "none" ELSE "pending"), t)
        /\ UNCHANGED <<now, recordings, leases>>

\* terminalize: the row leaves "active", drops its lease, and its terminal event
\* and delivery are inserted, in one transaction.
Terminalize(l, reason, provider, t, i) ==
    LET c == l.call
        type == EventTypeOf(reason)
    IN  /\ Holds(l) /\ Active(c)
        /\ calls' = [calls EXCEPT ![c].status = StatusOf(type),
                                  ![c].webhook = "pending",
                                  ![c].endedAt = t,
                                  ![c].reason = reason,
                                  ![c].provider = provider,
                                  ![c].expires = NoTime,
                                  ![c].by = l.gen]
        /\ InsertEvent(i, EventBody(c, type, reason,
                          IF recordings[c] = "none" THEN "none" ELSE "pending"), t)
        /\ UNCHANGED <<now, recordings, leases>>

\* A ready announcement accepted before the terminal event.
ReadyBeforeEnd(c, t, i) ==
    /\ recordings[c] # "none"
    /\ calls[c].status # "absent"
    /\ \A j \in EventIds : IsRecordingEvent(j) => callEvents[j].call # c
    /\ recordings' = [recordings EXCEPT ![c] = "ready"]
    /\ InsertEvent(i, EventBody(c, RecordingReadyType, calls[c].reason, "ready"), t)
    /\ UNCHANGED <<now, calls, leases>>

\* mark_recording_ready: refused while the call is active; a second call returns
\* the event of the first.  The status of the recording row is not looked at.
MarkRecordingReady(c, t, i) ==
    /\ recordings[c] # "none"
    /\ Terminal(c)
    /\ \A j \in EventIds : IsRecordingEvent(j) => callEvents[j].call # c
    /\ recordings' = [recordings EXCEPT ![c] = "ready"]
    /\ InsertEvent(i, EventBody(c, RecordingReadyType, calls[c].reason, "ready"), t)
    /\ UNCHANGED <<now, calls, leases>>

\* mark_recording_failed: only a pending recording fails.
MarkRecordingFailed(c) ==
    /\ recordings[c] = "pending"
    /\ recordings' = [recordings EXCEPT ![c] = "failed"]
    /\ UNCHANGED <<now, calls, callEvents, deliveries, leases>>

\* Time passes.
Tick ==
    /\ now < MaxTime
    /\ now' = now + 1
    /\ UNCHANGED <<calls, recordings, callEvents, deliveries, leases>>

-----------------------------------------------------------------------------
Init ==
    /\ now = 0
    /\ calls = [c \in Calls |-> AbsentRow]
    /\ recordings = [c \in Calls |-> "none"]
    /\ callEvents = [i \in EventIds |-> NoEvent]
    /\ deliveries = [i \in EventIds |-> NoDelivery]
    /\ leases = {}

Next ==
    \/ Tick
    \/ \E c \in Calls, o \in Owners, recorded \in BOOLEAN, t \in ClockReadings :
          BeginCall(c, o, recorded, t)
    \/ \E c \in Calls, expected, o \in Owners, t \in ClockReadings :
          HandoffCall(c, expected, o, t)
    \/ \E c \in Calls, o \in Owners, t \in ClockReadings :
          TakeoverExpiredCall(c, o, t)
    \/ \E l \in leases, t \in ClockReadings : RenewLease(l, t)
    \/ \E l \in leases, data \in Results : FlushResults(l, data)
    \/ \E l \in leases, state \in ProviderStates : UpdateProviderState(l, state)
    \/ \E c \in Calls, state \in ProviderStates : RecordProviderObservation(c, state)
    \/ \E c \in Calls : AppendTranscript(c)
    \/ \E l \in leases, reason \in EndedReasons, provider \in ProviderStates \cup {"none"},
           t \in ClockReadings, i \in EventIds :
          Terminalize(l, reason, provider, t, i)
    \/ \E c \in Calls, t \in ClockReadings, i \in EventIds : MarkRecordingReady(c, t, i)
    \/ \E c \in Calls : MarkRecordingFailed(c)

Spec == Init /\ [][Next]_storeVars

-----------------------------------------------------------------------------
(* Properties *)

\* Every row, event, delivery and lease has its shape.
TypeOK ==
    /\ now \in Nat
    /\ calls \in [Calls -> CallRow]
    /\ recordings \in [Calls -> RecordingStatuses]
    /\ callEvents \in [EventIds -> Event \cup {NoEvent}]
    /\ deliveries \in [EventIds -> DeliveryRow]
    /\ leases \subseteq Lease

TerminalEventsOf(c) == {i \in EventIds : IsTerminalEvent(i) /\ callEvents[i].call = c}

RecordingEventsOf(c) == {i \in EventIds : IsRecordingEvent(i) /\ callEvents[i].call = c}

\* "Exactly one terminal event is persisted once": no two terminal events of a
\* call and no two ready events, whatever leases the callers use.
AtMostOneEventOfAKind ==
    \A i, j \in EventIds :
       /\ Stored(i) /\ Stored(j)
       /\ callEvents[i].call = callEvents[j].call
       /\ IsTerminalEvent(i) <=> IsTerminalEvent(j)
       => i = j

\* A call is terminal exactly when its terminal event is stored; that event says
\* what the row says, and its delivery row exists (terminalize is one transaction,
\* and nothing may touch the outcome afterwards).
OutcomeIsPublished ==
    \A c \in Calls :
       /\ Terminal(c) <=> TerminalEventsOf(c) # {}
       /\ \A i \in TerminalEventsOf(c) :
             /\ StatusOf(callEvents[i].type) = calls[c].status
             /\ callEvents[i].reason = calls[c].reason
             /\ callEvents[i].result = calls[c].result
             /\ deliveries[i].status # "none"

\* No split brain: a generation belongs to one owner, nobody holds a lease of a
\* generation not yet granted, and the current generation is the row's owner's.
OneOwnerPerGeneration ==
    /\ \A l \in leases : l.gen <= calls[l.call].gen
    /\ \A l, m \in leases : l.call = m.call /\ l.gen = m.gen => l.owner = m.owner
    /\ \A c \in Calls : calls[c].gen > 0 =>
          [call |-> c, owner |-> calls[c].owner, gen |-> calls[c].gen] \in leases

\* Fencing: a row is renewed, flushed, given a provider state by its runtime or ended
\* only under the lease of the generation that owns the call at that moment, and so is
\* the result it shows.  A lease kept across a handoff or a takeover, even one of the
\* same owner, writes nothing.
OnlyTheCurrentGenerationWrites ==
    [][\A c \in Calls :
         /\ calls'[c].result # calls[c].result => calls'[c].result.by = calls[c].gen
         /\ calls'[c].gen = calls[c].gen => calls'[c].by = calls[c].gen]_storeVars

\* A finished call is final: no later step changes its status, reason, result,
\* owner or provider state, and no step ever changes a stored event.
FinishedIsFinal ==
    [][/\ \A c \in Calls : Terminal(c) =>
            calls'[c] = [calls[c] EXCEPT !.turns = calls'[c].turns,
                                         !.webhook = calls'[c].webhook]
       /\ \A i \in EventIds : Stored(i) => callEvents'[i] = callEvents[i]]_storeVars

\* The repository implements CallOutcome: its tables, seen through this mapping,
\* behave as a call that is closed exactly once.
Announcement(i) ==
    [id |-> i, call |-> callEvents[i].call,
     kind |-> IF IsTerminalEvent(i) THEN "outcome" ELSE "recording",
     reason |-> callEvents[i].reason, result |-> callEvents[i].result]

PhaseOf(c) == CASE calls[c].status = "absent" -> "unseen"
                [] Active(c) -> "open"
                [] OTHER -> "closed"

Outcome == INSTANCE CallOutcome WITH
    Drafts <- Snapshots, NoDraft <- NoResult, Reasons <- EndedReasons,
    phase <- [c \in Calls |-> PhaseOf(c)],
    epoch <- [c \in Calls |-> calls[c].gen],
    draft <- [c \in Calls |-> calls[c].result],
    published <- {Announcement(i) : i \in {j \in EventIds : Stored(j)}}

ImplementsOutcome == Outcome!Spec

\* The docstring of takeover_expired_call: it takes a call over only "after the
\* prior lease expires".
TakeoverAfterExpiry ==
    [][\A c \in Calls, o \in Owners, t \in ClockReadings :
         TakeoverExpiredCall(c, o, t) => calls[c].expires <= t]_storeVars

=============================================================================
