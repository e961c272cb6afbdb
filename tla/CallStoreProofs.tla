-------------------------- MODULE CallStoreProofs --------------------------
(***************************************************************************)
(* Proofs about CallStore, for every set of calls, owners and events and   *)
(* every bound.                                                            *)
(***************************************************************************)
EXTENDS CallStore, TLAPS

-----------------------------------------------------------------------------
(* The repository's methods at any clock reading *)

\* How old a caller's clock reading can be is a bound of the runs, and the components
\* above the repository keep readings for longer.  No proof needs the bound.
MethodStep ==
    \/ Tick
    \/ \E c \in Calls, o \in Owners, recorded \in BOOLEAN, t \in Time :
          BeginCall(c, o, recorded, t)
    \/ \E c \in Calls, expected, o \in Owners, t \in Time : HandoffCall(c, expected, o, t)
    \/ \E c \in Calls, o \in Owners, t \in Time : TakeoverExpiredCall(c, o, t)
    \/ \E l \in leases, t \in Time : RenewLease(l, t)
    \/ \E l \in leases, data \in Results : FlushResults(l, data)
    \/ \E l \in leases, state \in ProviderStates : UpdateProviderState(l, state)
    \/ \E c \in Calls, state \in ProviderStates : RecordProviderObservation(c, state)
    \/ \E c \in Calls : AppendTranscript(c)
    \/ \E l \in leases, reason \in EndedReasons, provider \in ProviderStates \cup {"none"},
           t \in Time, i \in EventIds :
          Terminalize(l, reason, provider, t, i)
    \/ \E c \in Calls, t \in Time, i \in EventIds : MarkRecordingReady(c, t, i)
    \/ \E c \in Calls : MarkRecordingFailed(c)

MethodSpec == Init /\ [][MethodStep]_storeVars

\* The repository's own steps are such steps.
LEMMA NextIsAMethodStep == TypeOK /\ Next => MethodStep
<1> SUFFICES ASSUME TypeOK, Next PROVE MethodStep
  OBVIOUS
<1>1. ClockReadings \subseteq Time
  BY DEF TypeOK, ClockReadings, Time
<1> QED
  BY <1>1 DEF Next, MethodStep

-----------------------------------------------------------------------------
(* Types *)

\* A clock reading is a time.
LEMMA ClockReadingsAreTimes ==
    ASSUME TypeOK, NEW t \in ClockReadings
    PROVE  t \in Time /\ t \in Nat /\ t <= now
BY DEF TypeOK, ClockReadings, Time

\* So is the end of a lease granted at one.
LEMMA LeaseEndIsATime ==
    ASSUME NEW t \in Time
    PROVE  Later(t, LeaseTTL) \in Time /\ Later(t, LeaseTTL) \in Int
BY CallStoreAssumption DEF Later, Time

\* Replacing one row by another row keeps the table's type.
LEMMA RowUpdate ==
    ASSUME calls \in [Calls -> CallRow], NEW c \in Calls, NEW row \in CallRow
    PROVE  [calls EXCEPT ![c] = row] \in [Calls -> CallRow]
OBVIOUS

\* A row stays a row when one column takes a value of its domain.
LEMMA ColumnUpdate ==
    ASSUME NEW row \in CallRow
    PROVE  /\ \A x \in {"active"} \cup TerminalStatuses : [row EXCEPT !.status = x] \in CallRow
           /\ \A x \in Owners : [row EXCEPT !.owner = x] \in CallRow
           /\ \A x \in 1 .. MaxGeneration : [row EXCEPT !.gen = x] \in CallRow
           /\ \A x \in 1 .. MaxGeneration : [row EXCEPT !.by = x] \in CallRow
           /\ \A x \in Time : [row EXCEPT !.expires = x] \in CallRow
           /\ \A x \in ProviderStates \cup {"none"} : [row EXCEPT !.provider = x] \in CallRow
           /\ \A x \in EndedReasons : [row EXCEPT !.reason = x] \in CallRow
           /\ \A x \in Time : [row EXCEPT !.endedAt = x] \in CallRow
           /\ [row EXCEPT !.webhook = "pending"] \in CallRow
<1>1. \A x \in {"active"} \cup TerminalStatuses : [row EXCEPT !.status = x] \in CallRow
  BY DEF CallRow
<1>2. \A x \in Owners : [row EXCEPT !.owner = x] \in CallRow
  BY DEF CallRow
<1>3. \A x \in 1 .. MaxGeneration : [row EXCEPT !.gen = x] \in CallRow
  BY CallStoreAssumption DEF CallRow
<1>4. \A x \in Time : [row EXCEPT !.expires = x] \in CallRow
  BY DEF CallRow
<1>5. \A x \in ProviderStates \cup {"none"} : [row EXCEPT !.provider = x] \in CallRow
  BY DEF CallRow
<1>6. \A x \in EndedReasons : [row EXCEPT !.reason = x] \in CallRow
  BY DEF CallRow
<1>7. \A x \in Time : [row EXCEPT !.endedAt = x] \in CallRow
  BY DEF CallRow
<1>8. [row EXCEPT !.webhook = "pending"] \in CallRow
  BY DEF CallRow
<1>9. \A x \in 1 .. MaxGeneration : [row EXCEPT !.by = x] \in CallRow
  BY CallStoreAssumption DEF CallRow
<1> QED
  BY <1>1, <1>2, <1>3, <1>4, <1>5, <1>6, <1>7, <1>8, <1>9

LEMMA AbsentRowIsARow == AbsentRow \in CallRow
BY CallStoreAssumption DEF AbsentRow, CallRow, Time, NoTime

LEMMA PendingDeliveryIsARow ==
    ASSUME NEW t \in Time
    PROVE  PendingDelivery(t) \in DeliveryRow
<1>1. NoDelivery \in DeliveryRow
  BY DEF NoDelivery, DeliveryRow, DeliveryStatuses, Time, NoTime
<1>2. [NoDelivery EXCEPT !.status = "pending"] \in DeliveryRow
  BY <1>1 DEF DeliveryRow, DeliveryStatuses
<1>3. [[NoDelivery EXCEPT !.status = "pending"] EXCEPT !.nextAt = t] \in DeliveryRow
  BY <1>2 DEF DeliveryRow
<1> QED
  BY <1>3 DEF PendingDelivery

\* The repository starts well typed.
LEMMA InitTypeOK == Init => TypeOK
<1> SUFFICES ASSUME Init PROVE TypeOK
  OBVIOUS
<1>1. now \in Nat /\ recordings \in [Calls -> RecordingStatuses] /\ leases \subseteq Lease
  BY DEF Init, RecordingStatuses
<1>2. calls \in [Calls -> CallRow]
  BY AbsentRowIsARow DEF Init
<1>3. callEvents \in [EventIds -> Event \cup {NoEvent}]
  BY DEF Init
<1>4. deliveries \in [EventIds -> DeliveryRow]
  BY DEF Init, NoDelivery, DeliveryRow, DeliveryStatuses, Time, NoTime
<1> QED
  BY <1>1, <1>2, <1>3, <1>4 DEF TypeOK

LEMMA BodyIsAnEvent ==
    ASSUME TypeOK, NEW c \in Calls, NEW type \in TerminalTypes \cup {RecordingReadyType},
           NEW reason \in EndedReasons \cup {"none"},
           NEW recording \in {"none", "pending", "ready"}
    PROVE  EventBody(c, type, reason, recording) \in Event
BY DEF TypeOK, EventBody, Event, CallRow

LEMMA InsertEventType ==
    ASSUME TypeOK, NEW i \in EventIds, NEW body \in Event, NEW t \in Time,
           InsertEvent(i, body, t)
    PROVE  /\ callEvents' \in [EventIds -> Event \cup {NoEvent}]
           /\ deliveries' \in [EventIds -> DeliveryRow]
BY PendingDeliveryIsARow DEF TypeOK, InsertEvent

\* Every step keeps the types.
LEMMA NextTypeOK == TypeOK /\ [MethodStep]_storeVars => TypeOK'
<1> SUFFICES ASSUME TypeOK, [MethodStep]_storeVars PROVE TypeOK'
  OBVIOUS
<1> USE CallStoreAssumption
<1>1. CASE Tick
  BY <1>1 DEF TypeOK, Tick
<1>2. ASSUME NEW c \in Calls, NEW o \in Owners, NEW recorded \in BOOLEAN,
             NEW t \in Time, BeginCall(c, o, recorded, t)
      PROVE  TypeOK'
  <2> DEFINE r1 == [AbsentRow EXCEPT !.status = "active"]
             r2 == [r1 EXCEPT !.owner = o]
             r3 == [r2 EXCEPT !.gen = 1]
             r4 == [r3 EXCEPT !.by = 1]
             r5 == [r4 EXCEPT !.expires = Later(t, LeaseTTL)]
  <2>1. r5 \in CallRow
    <3>1. Later(t, LeaseTTL) \in Time
      BY LeaseEndIsATime
    <3>2. r1 \in CallRow
      BY AbsentRowIsARow, ColumnUpdate
    <3>3. r2 \in CallRow
      BY <3>2, ColumnUpdate
    <3>4. 1 \in 1 .. MaxGeneration
      OBVIOUS
    <3>5. r3 \in CallRow
      BY <3>3, <3>4, ColumnUpdate
    <3>6. r4 \in CallRow
      BY <3>4, <3>5, ColumnUpdate
    <3> QED
      BY <3>1, <3>6, ColumnUpdate
  <2>2. calls' \in [Calls -> CallRow]
    BY <1>2, <2>1, RowUpdate DEF BeginCall, TypeOK
  <2>3. recordings' \in [Calls -> RecordingStatuses]
    BY <1>2 DEF BeginCall, TypeOK, RecordingStatuses
  <2>4. leases' \subseteq Lease
    BY <1>2 DEF BeginCall, TypeOK, Lease
  <2> QED
    BY <1>2, <2>2, <2>3, <2>4 DEF BeginCall, TypeOK
<1>3. ASSUME NEW c \in Calls, NEW o \in Owners, NEW t \in Time,
             GrantNextGeneration(c, o, t)
      PROVE  TypeOK'
  <2>1. calls[c] \in CallRow /\ Later(t, LeaseTTL) \in Int
    BY LeaseEndIsATime DEF TypeOK
  <2>2. calls[c].gen + 1 \in 1 .. MaxGeneration
    BY <1>3, <2>1 DEF GrantNextGeneration, CallRow
  <2> DEFINE r1 == [calls[c] EXCEPT !.owner = o]
             r2 == [r1 EXCEPT !.gen = r1.gen + 1]
             r3 == [r2 EXCEPT !.by = calls[c].gen + 1]
             r4 == [r3 EXCEPT !.expires = Later(t, LeaseTTL)]
  <2>3. r4 \in CallRow
    <3>1. r1 \in CallRow /\ r1.gen = calls[c].gen
      BY <2>1, ColumnUpdate DEF CallRow
    <3>2. r2 \in CallRow
      BY <2>2, <3>1, ColumnUpdate
    <3>3. Later(t, LeaseTTL) \in Time
      BY <2>1 DEF Time
    <3> HIDE DEF r2
    <3>4. r3 \in CallRow
      BY <2>2, <3>2, ColumnUpdate
    <3> HIDE DEF r3
    <3> QED
      BY <3>3, <3>4, ColumnUpdate
  <2>4. calls' \in [Calls -> CallRow]
    BY <1>3, <2>3, RowUpdate DEF GrantNextGeneration, TypeOK
  <2>5. leases' \subseteq Lease
    BY <1>3, <2>2 DEF GrantNextGeneration, TypeOK, Lease
  <2> QED
    BY <1>3, <2>4, <2>5 DEF GrantNextGeneration, TypeOK
<1>4. ASSUME NEW l \in leases, NEW t \in Time, RenewLease(l, t)
      PROVE  TypeOK'
  <2>1. /\ l.call \in Calls /\ calls[l.call] \in CallRow /\ l.gen \in 1 .. MaxGeneration
        /\ Later(t, LeaseTTL) \in Int
    BY LeaseEndIsATime DEF TypeOK, Lease
  <2> DEFINE r1 == [calls[l.call] EXCEPT !.expires = Later(t, LeaseTTL)]
  <2>2. [r1 EXCEPT !.by = l.gen] \in CallRow
    <3>1. r1 \in CallRow
      BY <2>1, ColumnUpdate DEF Time
    <3> QED
      BY <2>1, <3>1, ColumnUpdate
  <2>3. calls' \in [Calls -> CallRow]
    BY <1>4, <2>1, <2>2, RowUpdate DEF RenewLease, RenewedUntil, TypeOK
  <2> QED
    BY <1>4, <2>3 DEF RenewLease, TypeOK
<1>5. ASSUME NEW l \in leases, NEW data \in Results, FlushResults(l, data)
      PROVE  TypeOK'
  <2>1. l.call \in Calls /\ calls[l.call] \in CallRow /\ l.gen \in 1 .. MaxGeneration
    BY DEF TypeOK, Lease
  <2>2. [by |-> l.gen, data |-> data] \in Snapshots
    BY <2>1 DEF Snapshots
  <2> DEFINE r1 == [calls[l.call] EXCEPT !.result = [by |-> l.gen, data |-> data]]
  <2>3. [r1 EXCEPT !.by = l.gen] \in CallRow
    <3>1. r1 \in CallRow
      BY <2>1, <2>2 DEF CallRow
    <3> QED
      BY <2>1, <3>1, ColumnUpdate
  <2>4. calls' \in [Calls -> CallRow]
    BY <1>5, <2>1, <2>3, RowUpdate DEF FlushResults, TypeOK
  <2> QED
    BY <1>5, <2>4 DEF FlushResults, TypeOK
<1>6. ASSUME NEW l \in leases, NEW state \in ProviderStates, UpdateProviderState(l, state)
      PROVE  TypeOK'
  <2>1. l.call \in Calls /\ calls[l.call] \in CallRow /\ l.gen \in 1 .. MaxGeneration
    BY DEF TypeOK, Lease
  <2> DEFINE r1 == [calls[l.call] EXCEPT !.provider = state]
  <2>2. [r1 EXCEPT !.by = l.gen] \in CallRow
    <3>1. r1 \in CallRow
      BY <2>1, ColumnUpdate
    <3> QED
      BY <2>1, <3>1, ColumnUpdate
  <2>3. calls' \in [Calls -> CallRow]
    BY <1>6, <2>1, <2>2, RowUpdate DEF UpdateProviderState, TypeOK
  <2> QED
    BY <1>6, <2>3 DEF UpdateProviderState, TypeOK
<1>7. ASSUME NEW c \in Calls, AppendTranscript(c)
      PROVE  TypeOK'
  <2>1. [calls[c] EXCEPT !.turns = @ + 1] \in CallRow
    BY DEF TypeOK, CallRow
  <2>2. calls' \in [Calls -> CallRow]
    BY <1>7, <2>1, RowUpdate DEF TypeOK, AppendTranscript
  <2> QED
    BY <1>7, <2>2 DEF TypeOK, AppendTranscript
<1>8. ASSUME NEW l \in leases, NEW reason \in EndedReasons,
             NEW provider \in ProviderStates \cup {"none"},
             NEW t \in Time, NEW i \in EventIds,
             Terminalize(l, reason, provider, t, i)
      PROVE  TypeOK'
  <2> DEFINE c == l.call
             type == EventTypeOf(reason)
             r1 == [calls[c] EXCEPT !.status = StatusOf(type)]
             r2 == [r1 EXCEPT !.webhook = "pending"]
             r3 == [r2 EXCEPT !.endedAt = t]
             r4 == [r3 EXCEPT !.reason = reason]
             r5 == [r4 EXCEPT !.provider = provider]
             r6 == [r5 EXCEPT !.expires = NoTime]
             row == [r6 EXCEPT !.by = l.gen]
             recording == IF recordings[c] = "none" THEN "none" ELSE "pending"
  <2>1. c \in Calls /\ calls[c] \in CallRow /\ t \in Time /\ l.gen \in 1 .. MaxGeneration
    BY DEF TypeOK, Lease
  <2>2. type \in TerminalTypes /\ StatusOf(type) \in TerminalStatuses
    BY DEF EventTypeOf, TerminalTypes, StatusOf, TerminalStatuses
  <2>3. row \in CallRow
    <3>1. r1 \in CallRow
      BY <2>1, <2>2, ColumnUpdate
    <3>2. r2 \in CallRow
      BY <3>1, ColumnUpdate
    <3>3. r3 \in CallRow
      BY <2>1, <3>2, ColumnUpdate
    <3>4. r4 \in CallRow
      BY <3>3, ColumnUpdate
    <3>5. r5 \in CallRow
      BY <3>4, ColumnUpdate
    <3>6. NoTime \in Time
      BY DEF Time, NoTime
    <3>7. r6 \in CallRow
      BY <3>5, <3>6, ColumnUpdate
    <3> QED
      BY <2>1, <3>7, ColumnUpdate
  <2>4. calls' = [calls EXCEPT ![c] = row]
    BY <1>8 DEF Terminalize
  <2>5. calls' \in [Calls -> CallRow]
    BY <2>1, <2>3, <2>4, RowUpdate DEF TypeOK
  <2>6. EventBody(c, type, reason, recording) \in Event
    BY <2>1, <2>2, BodyIsAnEvent
  <2>7. InsertEvent(i, EventBody(c, type, reason, recording), t)
    BY <1>8 DEF Terminalize
  <2>8. /\ callEvents' \in [EventIds -> Event \cup {NoEvent}]
        /\ deliveries' \in [EventIds -> DeliveryRow]
    BY <2>1, <2>6, <2>7, InsertEventType
  <2> QED
    BY <1>8, <2>5, <2>8 DEF Terminalize, TypeOK
<1>9. ASSUME NEW c \in Calls, NEW t \in Time, NEW i \in EventIds,
             MarkRecordingReady(c, t, i)
      PROVE  TypeOK'
  <2>1. calls[c] \in CallRow /\ t \in Time
    BY DEF TypeOK
  <2>2. EventBody(c, RecordingReadyType, calls[c].reason, "ready") \in Event
    BY <2>1, BodyIsAnEvent DEF CallRow
  <2>3. /\ callEvents' \in [EventIds -> Event \cup {NoEvent}]
        /\ deliveries' \in [EventIds -> DeliveryRow]
    BY <1>9, <2>1, <2>2, InsertEventType DEF MarkRecordingReady
  <2> QED
    BY <1>9, <2>3 DEF MarkRecordingReady, TypeOK, RecordingStatuses
<1>10. ASSUME NEW c \in Calls, MarkRecordingFailed(c)
       PROVE  TypeOK'
  BY <1>10 DEF MarkRecordingFailed, TypeOK, RecordingStatuses
<1>11. CASE UNCHANGED storeVars
  BY <1>11 DEF storeVars, TypeOK
<1>12. ASSUME NEW c \in Calls, NEW state \in ProviderStates,
              RecordProviderObservation(c, state)
       PROVE  TypeOK'
  <2>1. [calls[c] EXCEPT !.provider = state] \in CallRow
    BY DEF TypeOK, CallRow
  <2>2. calls' \in [Calls -> CallRow]
    BY <1>12, <2>1, RowUpdate DEF TypeOK, RecordProviderObservation
  <2> QED
    BY <1>12, <2>2 DEF TypeOK, RecordProviderObservation
<1> QED
  BY <1>1, <1>2, <1>3, <1>4, <1>5, <1>6, <1>7, <1>8, <1>9, <1>10, <1>11, <1>12
     DEF MethodStep, HandoffCall, TakeoverExpiredCall

LEMMA SpecIsMethodSpec == Spec => MethodSpec
<1>1. TypeOK /\ [Next]_storeVars => [MethodStep]_storeVars
  BY NextIsAMethodStep
<1> QED
  BY <1>1, InitTypeOK, NextTypeOK, PTL DEF Spec, MethodSpec

LEMMA MethodsTypeCorrect == MethodSpec => []TypeOK
BY InitTypeOK, NextTypeOK, PTL DEF MethodSpec

\* The tables, the outbox and the leases keep their shape in every behaviour.
THEOREM TypeCorrect == Spec => []TypeOK
BY SpecIsMethodSpec, MethodsTypeCorrect, PTL

-----------------------------------------------------------------------------
(* Fencing: a generation has one owner *)

\* The inductive invariant: a call that does not exist has generation 0, so no
\* lease, and every later generation is granted exactly once.
FenceInv ==
    /\ TypeOK
    /\ OneOwnerPerGeneration
    /\ \A c \in Calls : calls[c].status = "absent" => calls[c].gen = 0

\* A step that neither grants a lease nor moves ownership keeps the fence.
LEMMA FenceUntouched ==
    ASSUME FenceInv, TypeOK', leases' = leases,
           \A c \in Calls : /\ calls'[c].gen = calls[c].gen
                            /\ calls'[c].owner = calls[c].owner
                            /\ calls'[c].status = "absent" => calls[c].status = "absent"
    PROVE  FenceInv'
BY DEF FenceInv, OneOwnerPerGeneration, TypeOK, Lease

\* A step that changes one row, but neither its generation nor its owner, and
\* does not delete it.
LEMMA FenceRowUpdate ==
    ASSUME FenceInv, TypeOK', leases' = leases,
           NEW c \in Calls, NEW row, calls' = [calls EXCEPT ![c] = row],
           row.gen = calls[c].gen, row.owner = calls[c].owner, row.status # "absent"
    PROVE  FenceInv'
<1>1. calls \in [Calls -> CallRow]
  BY DEF FenceInv, TypeOK
<1>2. \A d \in Calls : /\ calls'[d].gen = calls[d].gen
                       /\ calls'[d].owner = calls[d].owner
                       /\ calls'[d].status = "absent" => calls[d].status = "absent"
  BY <1>1
<1> QED
  BY <1>2, FenceUntouched

\* Granting the next generation of c to o keeps the fence.
LEMMA FenceGrant ==
    ASSUME FenceInv, TypeOK', NEW c \in Calls, NEW o \in Owners, NEW g \in Nat,
           g = calls[c].gen + 1,
           leases' = leases \cup {[call |-> c, owner |-> o, gen |-> g]},
           calls'[c].gen = g, calls'[c].owner = o, calls'[c].status # "absent",
           \A d \in Calls \ {c} : calls'[d] = calls[d]
    PROVE  FenceInv'
<1> DEFINE n == [call |-> c, owner |-> o, gen |-> g]
<1>1. \A l \in leases : l.call \in Calls /\ l.gen \in Nat /\ l.gen <= calls[l.call].gen
  BY CallStoreAssumption DEF FenceInv, OneOwnerPerGeneration, TypeOK, Lease
<1>2. \A d \in Calls : calls[d].gen \in Nat
  BY CallStoreAssumption DEF FenceInv, TypeOK, CallRow
<1>3. \A l \in leases' : l.gen <= calls'[l.call].gen
  BY <1>1, <1>2
<1>4. \A l \in leases : l.call = c => l.gen # g
  BY <1>1, <1>2
<1>5. ASSUME NEW l \in leases', NEW m \in leases', l.call = m.call, l.gen = m.gen
      PROVE  l.owner = m.owner
  <2>1. CASE l \in leases /\ m \in leases
    BY <1>5, <2>1 DEF FenceInv, OneOwnerPerGeneration
  <2>2. CASE l = n /\ m = n
    BY <2>2
  <2>3. CASE l = n /\ m \in leases
    BY <1>4, <1>5, <2>3
  <2>4. CASE l \in leases /\ m = n
    BY <1>4, <1>5, <2>4
  <2> QED
    BY <2>1, <2>2, <2>3, <2>4
<1>6. ASSUME NEW d \in Calls, calls'[d].gen > 0
      PROVE  [call |-> d, owner |-> calls'[d].owner, gen |-> calls'[d].gen] \in leases'
  BY <1>6 DEF FenceInv, OneOwnerPerGeneration
<1>7. OneOwnerPerGeneration'
  BY <1>3, <1>5, <1>6 DEF OneOwnerPerGeneration
<1> QED
  BY <1>7 DEF FenceInv

LEMMA NextFenceInv == FenceInv /\ [MethodStep]_storeVars => FenceInv'
<1> SUFFICES ASSUME FenceInv, [MethodStep]_storeVars PROVE FenceInv'
  OBVIOUS
<1>0. TypeOK /\ TypeOK' /\ calls \in [Calls -> CallRow] /\ leases \subseteq Lease
  BY NextTypeOK DEF FenceInv, TypeOK
<1>a. \A l \in leases : l.call \in Calls
  BY <1>0 DEF Lease
<1>1. CASE Tick
  BY <1>0, <1>1, FenceUntouched DEF Tick
<1>2. ASSUME NEW c \in Calls, NEW o \in Owners, NEW recorded \in BOOLEAN,
             NEW t \in Time, BeginCall(c, o, recorded, t)
      PROVE  FenceInv'
  <2>1. calls[c].gen = 0
    BY <1>2 DEF BeginCall, FenceInv
  <2>2. leases' = leases \cup {[call |-> c, owner |-> o, gen |-> 1]}
    BY <1>2 DEF BeginCall
  <2>3. calls'[c].gen = 1 /\ calls'[c].owner = o /\ calls'[c].status # "absent"
    BY <1>0, <1>2 DEF BeginCall, AbsentRow
  <2>4. \A d \in Calls \ {c} : calls'[d] = calls[d]
    BY <1>0, <1>2 DEF BeginCall
  <2> QED
    BY <1>0, <2>1, <2>2, <2>3, <2>4, FenceGrant
<1>3. ASSUME NEW c \in Calls, NEW o \in Owners, NEW t \in Time,
             Active(c), GrantNextGeneration(c, o, t)
      PROVE  FenceInv'
  <2>1. calls[c].gen \in Nat /\ calls[c] \in CallRow
    BY <1>0, CallStoreAssumption DEF CallRow
  <2>2. leases' = leases \cup {[call |-> c, owner |-> o, gen |-> calls[c].gen + 1]}
    BY <1>3 DEF GrantNextGeneration
  <2>3. /\ calls'[c].gen = calls[c].gen + 1
        /\ calls'[c].owner = o
        /\ calls'[c].status # "absent"
    BY <1>0, <1>3, <2>1 DEF GrantNextGeneration, Active, CallRow
  <2>4. \A d \in Calls \ {c} : calls'[d] = calls[d]
    BY <1>0, <1>3 DEF GrantNextGeneration
  <2> QED
    BY <1>0, <2>1, <2>2, <2>3, <2>4, FenceGrant
<1>4. ASSUME NEW l \in leases, NEW t \in Time, RenewLease(l, t)
      PROVE  FenceInv'
  <2> DEFINE row == [calls[l.call] EXCEPT !.expires = Later(t, LeaseTTL), !.by = l.gen]
  <2>1. row.gen = calls[l.call].gen /\ row.owner = calls[l.call].owner /\ row.status # "absent"
    BY <1>0, <1>a, <1>4 DEF RenewLease, Active, CallRow
  <2>2. calls' = [calls EXCEPT ![l.call] = row] /\ leases' = leases
    BY <1>4 DEF RenewLease, RenewedUntil
  <2> QED
    BY <1>0, <1>a, <2>1, <2>2, FenceRowUpdate
<1>5. ASSUME NEW l \in leases, NEW data \in Results, FlushResults(l, data)
      PROVE  FenceInv'
  <2> DEFINE row == [calls[l.call] EXCEPT !.result = [by |-> l.gen, data |-> data], !.by = l.gen]
  <2>1. row.gen = calls[l.call].gen /\ row.owner = calls[l.call].owner /\ row.status # "absent"
    BY <1>0, <1>a, <1>5 DEF FlushResults, Active, CallRow
  <2>2. calls' = [calls EXCEPT ![l.call] = row] /\ leases' = leases
    BY <1>5 DEF FlushResults
  <2> QED
    BY <1>0, <1>a, <2>1, <2>2, FenceRowUpdate
<1>6. ASSUME NEW c \in Calls, NEW state, NEW g, Active(c),
             calls' = [calls EXCEPT ![c] = [calls[c] EXCEPT !.provider = state, !.by = g]],
             leases' = leases
      PROVE  FenceInv'
  <2> DEFINE row == [calls[c] EXCEPT !.provider = state, !.by = g]
  <2>1. row.gen = calls[c].gen /\ row.owner = calls[c].owner /\ row.status # "absent"
    BY <1>0, <1>6 DEF Active, CallRow
  <2> QED
    BY <1>0, <1>6, <2>1, FenceRowUpdate
<1>7. ASSUME NEW c \in Calls, AppendTranscript(c)
      PROVE  FenceInv'
  <2> DEFINE row == [calls[c] EXCEPT !.turns = @ + 1]
  <2>1. row.gen = calls[c].gen /\ row.owner = calls[c].owner /\ row.status # "absent"
    BY <1>0, <1>7 DEF AppendTranscript, CallRow
  <2>2. calls' = [calls EXCEPT ![c] = row] /\ leases' = leases
    BY <1>7 DEF AppendTranscript
  <2> QED
    BY <1>0, <2>1, <2>2, FenceRowUpdate
<1>8. ASSUME NEW l \in leases, NEW reason \in EndedReasons,
             NEW provider \in ProviderStates \cup {"none"},
             NEW t \in Time, NEW i \in EventIds,
             Terminalize(l, reason, provider, t, i)
      PROVE  FenceInv'
  <2> DEFINE row == [calls[l.call] EXCEPT !.status = StatusOf(EventTypeOf(reason)),
                                          !.webhook = "pending", !.endedAt = t,
                                          !.reason = reason, !.provider = provider,
                                          !.expires = NoTime, !.by = l.gen]
  <2>1. row.gen = calls[l.call].gen /\ row.owner = calls[l.call].owner /\ row.status # "absent"
    BY <1>0, <1>a DEF StatusOf, CallRow
  <2>2. calls' = [calls EXCEPT ![l.call] = row] /\ leases' = leases
    BY <1>8 DEF Terminalize
  <2> QED
    BY <1>0, <1>a, <2>1, <2>2, FenceRowUpdate
<1>9. CASE calls' = calls /\ leases' = leases
  BY <1>0, <1>9, FenceUntouched
<1>10. ASSUME NEW l \in leases, NEW state \in ProviderStates, UpdateProviderState(l, state)
       PROVE  FenceInv'
  BY <1>a, <1>6, <1>10 DEF UpdateProviderState
<1>11. ASSUME NEW c \in Calls, NEW state \in ProviderStates,
              RecordProviderObservation(c, state)
       PROVE  FenceInv'
  <2> DEFINE row == [calls[c] EXCEPT !.provider = state]
  <2>1. row.gen = calls[c].gen /\ row.owner = calls[c].owner /\ row.status # "absent"
    BY <1>0, <1>11 DEF RecordProviderObservation, Active, CallRow
  <2>2. calls' = [calls EXCEPT ![c] = row] /\ leases' = leases
    BY <1>11 DEF RecordProviderObservation
  <2> QED
    BY <1>0, <2>1, <2>2, FenceRowUpdate
<1>12. ASSUME NEW c \in Calls, NEW expected, NEW o \in Owners, NEW t \in Time,
              HandoffCall(c, expected, o, t) \/ TakeoverExpiredCall(c, o, t)
       PROVE  FenceInv'
  BY <1>3, <1>12 DEF HandoffCall, TakeoverExpiredCall
<1>13. ASSUME NEW c \in Calls, NEW t \in Time, NEW i \in EventIds,
              MarkRecordingReady(c, t, i)
       PROVE  FenceInv'
  BY <1>9, <1>13 DEF MarkRecordingReady
<1>14. ASSUME NEW c \in Calls, MarkRecordingFailed(c)
       PROVE  FenceInv'
  BY <1>9, <1>14 DEF MarkRecordingFailed
<1>15. CASE UNCHANGED storeVars
  BY <1>9, <1>15 DEF storeVars
<1> QED
  BY <1>1, <1>2, <1>4, <1>5, <1>7, <1>8, <1>10, <1>11, <1>12, <1>13, <1>14, <1>15 DEF MethodStep

\* No two owners ever hold the same generation of a call.
THEOREM FencingHolds == Spec => []OneOwnerPerGeneration
<1>1. Init => FenceInv
  BY InitTypeOK DEF Init, FenceInv, OneOwnerPerGeneration, AbsentRow
<1>2. FenceInv /\ [MethodStep]_storeVars => FenceInv'
  BY NextFenceInv
<1>3. FenceInv => OneOwnerPerGeneration
  BY DEF FenceInv
<1> QED
  BY <1>1, <1>2, <1>3, SpecIsMethodSpec, PTL DEF MethodSpec

-----------------------------------------------------------------------------
(* Exactly one terminal event *)

\* The inductive invariant: a stored terminal event and the terminal row it was
\* committed with say the same for good, so a call that is still active has none.
EventInv ==
    /\ TypeOK
    /\ AtMostOneEventOfAKind
    /\ OutcomeIsPublished

\* A step that stores no event, and leaves the verdict of finished calls and the
\* status class of all calls alone, keeps the invariant.
LEMMA EventsUntouched ==
    ASSUME EventInv, TypeOK', callEvents' = callEvents, deliveries' = deliveries,
           \A c \in Calls : /\ Terminal(c)' <=> Terminal(c)
                            /\ Terminal(c) => /\ calls'[c].status = calls[c].status
                                              /\ calls'[c].reason = calls[c].reason
                                              /\ calls'[c].result = calls[c].result
    PROVE  EventInv'
<1>1. AtMostOneEventOfAKind'
  BY DEF EventInv, AtMostOneEventOfAKind, Stored, IsTerminalEvent
<1>2. \A c \in Calls : TerminalEventsOf(c)' = TerminalEventsOf(c)
  BY DEF TerminalEventsOf, IsTerminalEvent, Stored
<1>3. \A c \in Calls : TerminalEventsOf(c) # {} => Terminal(c)
  BY DEF EventInv, OutcomeIsPublished
<1>4. OutcomeIsPublished'
  BY <1>2, <1>3 DEF EventInv, OutcomeIsPublished
<1> QED
  BY <1>1, <1>4 DEF EventInv

\* A step that changes one row that is not finished and does not finish it.
LEMMA EventsRowUpdate ==
    ASSUME EventInv, TypeOK', callEvents' = callEvents, deliveries' = deliveries,
           NEW c \in Calls, NEW row, calls' = [calls EXCEPT ![c] = row],
           ~ Terminal(c), row.status \notin TerminalStatuses
    PROVE  EventInv'
<1>1. calls \in [Calls -> CallRow]
  BY DEF EventInv, TypeOK
<1>2. calls'[c] = row /\ \A d \in Calls \ {c} : calls'[d] = calls[d]
  BY <1>1
<1>3. \A d \in Calls : /\ Terminal(d)' <=> Terminal(d)
                       /\ Terminal(d) => /\ calls'[d].status = calls[d].status
                                         /\ calls'[d].reason = calls[d].reason
                                         /\ calls'[d].result = calls[d].result
  BY <1>2 DEF Terminal
<1> QED
  BY <1>3, EventsUntouched

\* The one step that finishes a call stores its only terminal event.
LEMMA EventsTerminalize ==
    ASSUME EventInv, TypeOK',
           NEW l \in leases, NEW reason \in EndedReasons,
           NEW provider \in ProviderStates \cup {"none"},
           NEW t \in Time, NEW i \in EventIds,
           Terminalize(l, reason, provider, t, i)
    PROVE  EventInv'
<1> DEFINE c == l.call
           type == EventTypeOf(reason)
           recording == IF recordings[c] = "none" THEN "none" ELSE "pending"
           body == EventBody(c, type, reason, recording)
<1>1. /\ c \in Calls /\ calls \in [Calls -> CallRow]
      /\ callEvents \in [EventIds -> Event \cup {NoEvent}]
      /\ deliveries \in [EventIds -> DeliveryRow]
      /\ callEvents' \in [EventIds -> Event \cup {NoEvent}]
  BY DEF EventInv, TypeOK, Lease
<1>2. type \in TerminalTypes /\ StatusOf(type) \in TerminalStatuses
  BY DEF EventTypeOf, TerminalTypes, StatusOf, TerminalStatuses
<1>3. ~ Terminal(c) /\ callEvents[i] = NoEvent
  BY DEF Terminalize, Active, Terminal, TerminalStatuses, InsertEvent, FreshId
<1>4. TerminalEventsOf(c) = {}
  BY <1>1, <1>3 DEF EventInv, OutcomeIsPublished
<1>5. callEvents' = [callEvents EXCEPT ![i] = body]
  BY DEF Terminalize, InsertEvent
<1>6. deliveries' = [deliveries EXCEPT ![i] = PendingDelivery(t)]
  BY DEF Terminalize, InsertEvent
<1>7. /\ calls'[c].status = StatusOf(type)
      /\ calls'[c].reason = reason
      /\ calls'[c].result = calls[c].result
  <2>1. calls[c] \in CallRow
    BY <1>1
  <2> QED
    BY <1>1, <2>1 DEF Terminalize, CallRow
<1>8. \A d \in Calls \ {c} : calls'[d] = calls[d]
  BY <1>1 DEF Terminalize
<1>9. /\ body.call = c /\ body.type = type /\ body.reason = reason
      /\ body.result = calls[c].result
  BY DEF EventBody
<1>10. body # NoEvent
  <2>1. body \in Event
    BY <1>1, <1>2, BodyIsAnEvent DEF EventInv
  <2> QED
    BY <2>1, NoEventAssumption
<1>11. \A j \in EventIds : j # i => callEvents'[j] = callEvents[j]
  BY <1>1, <1>5
<1>12. callEvents'[i] = body
  BY <1>1, <1>5
<1> HIDE DEF body
<1>a. IsTerminalEvent(i)' /\ Stored(i)'
  BY <1>2, <1>9, <1>10, <1>12 DEF IsTerminalEvent, Stored
<1>b. \A j \in EventIds : j # i => /\ Stored(j)' <=> Stored(j)
                                  /\ IsTerminalEvent(j)' <=> IsTerminalEvent(j)
  BY <1>11 DEF IsTerminalEvent, Stored
<1>c. \A j \in EventIds : j # i /\ IsTerminalEvent(j) => callEvents[j].call # c
  BY <1>4 DEF TerminalEventsOf
<1>13. AtMostOneEventOfAKind'
  <2>1. ASSUME NEW j \in EventIds, NEW k \in EventIds,
               Stored(j)', Stored(k)', callEvents'[j].call = callEvents'[k].call,
               IsTerminalEvent(j)' <=> IsTerminalEvent(k)'
        PROVE  j = k
    <3>1. CASE j = i /\ k = i
      BY <3>1
    <3>2. CASE j = i /\ k # i
      BY <2>1, <3>2, <1>9, <1>11, <1>12, <1>a, <1>b, <1>c DEF IsTerminalEvent, Stored
    <3>3. CASE j # i /\ k = i
      BY <2>1, <3>3, <1>9, <1>11, <1>12, <1>a, <1>b, <1>c DEF IsTerminalEvent, Stored
    <3>4. CASE j # i /\ k # i
      BY <2>1, <3>4, <1>11, <1>b DEF EventInv, AtMostOneEventOfAKind, IsTerminalEvent, Stored
    <3> QED
      BY <3>1, <3>2, <3>3, <3>4
  <2> QED
    BY <2>1 DEF AtMostOneEventOfAKind
<1>14. OutcomeIsPublished'
  <2>1. TerminalEventsOf(c)' = {i}
    BY <1>9, <1>12, <1>a, <1>b, <1>c, <1>11 DEF TerminalEventsOf, IsTerminalEvent, Stored
  <2>2. \A d \in Calls \ {c} : TerminalEventsOf(d)' = TerminalEventsOf(d)
    <3>1. ~ IsTerminalEvent(i)
      BY <1>3 DEF IsTerminalEvent, Stored
    <3> QED
      BY <1>9, <1>12, <1>b, <1>11, <3>1 DEF TerminalEventsOf, IsTerminalEvent, Stored
  <2>3. Terminal(c)'
    BY <1>2, <1>7 DEF Terminal
  <2>4. deliveries'[i].status # "none"
    BY <1>1, <1>6 DEF PendingDelivery, NoDelivery
  <2>5. \A d \in Calls \ {c} : \A j \in TerminalEventsOf(d) :
           j # i /\ deliveries'[j] = deliveries[j]
    BY <1>1, <1>3, <1>6 DEF TerminalEventsOf, IsTerminalEvent, Stored
  <2>6. ASSUME NEW d \in Calls
        PROVE  /\ Terminal(d)' <=> TerminalEventsOf(d)' # {}
               /\ \A j \in TerminalEventsOf(d)' :
                     /\ StatusOf(callEvents'[j].type) = calls'[d].status
                     /\ callEvents'[j].reason = calls'[d].reason
                     /\ callEvents'[j].result = calls'[d].result
                     /\ deliveries'[j].status # "none"
    <3>1. CASE d = c
      BY <3>1, <2>1, <2>3, <2>4, <1>7, <1>9, <1>12
    <3>2. CASE d # c
      <4>1. calls'[d] = calls[d] /\ (Terminal(d)' <=> Terminal(d))
        BY <3>2, <1>8 DEF Terminal
      <4>2. TerminalEventsOf(d)' = TerminalEventsOf(d)
        BY <3>2, <2>2
      <4>3. \A j \in TerminalEventsOf(d) :
              callEvents'[j] = callEvents[j] /\ deliveries'[j] = deliveries[j]
        BY <3>2, <2>5, <1>11 DEF TerminalEventsOf
      <4> QED
        BY <4>1, <4>2, <4>3 DEF EventInv, OutcomeIsPublished
    <3> QED
      BY <3>1, <3>2
  <2> QED
    BY <2>6 DEF OutcomeIsPublished
<1> QED
  BY <1>13, <1>14 DEF EventInv

\* The ready event is stored once per call, and never touches the outcome.
LEMMA EventsRecordingReady ==
    ASSUME EventInv, TypeOK',
           NEW c \in Calls, NEW t \in Time, NEW i \in EventIds,
           MarkRecordingReady(c, t, i)
    PROVE  EventInv'
<1> DEFINE body == EventBody(c, RecordingReadyType, calls[c].reason, "ready")
<1>1. /\ calls \in [Calls -> CallRow]
      /\ callEvents \in [EventIds -> Event \cup {NoEvent}]
      /\ deliveries \in [EventIds -> DeliveryRow]
  BY DEF EventInv, TypeOK
<1>2. /\ callEvents[i] = NoEvent
      /\ callEvents' = [callEvents EXCEPT ![i] = body]
      /\ deliveries' = [deliveries EXCEPT ![i] = PendingDelivery(t)]
      /\ calls' = calls
      /\ \A j \in EventIds : IsRecordingEvent(j) => callEvents[j].call # c
  BY DEF MarkRecordingReady, InsertEvent, FreshId
<1>3. body.call = c /\ body.type = RecordingReadyType
  BY DEF EventBody
<1>4. \A j \in EventIds : j # i => callEvents'[j] = callEvents[j] /\ deliveries'[j] = deliveries[j]
  BY <1>1, <1>2
<1>5. callEvents'[i] = body
  BY <1>1, <1>2
<1> HIDE DEF body
<1>6. ~ IsTerminalEvent(i)' /\ ~ Stored(i)
  BY <1>2, <1>3, <1>5 DEF IsTerminalEvent, Stored, TerminalTypes, RecordingReadyType
<1>7. \A j \in EventIds : j # i => /\ Stored(j)' <=> Stored(j)
                                  /\ IsTerminalEvent(j)' <=> IsTerminalEvent(j)
  BY <1>4 DEF IsTerminalEvent, Stored
<1>8. \A j \in EventIds : Stored(j) /\ ~ IsTerminalEvent(j) => callEvents[j].call # c
  <2>1. \A j \in EventIds : Stored(j) => callEvents[j] \in Event
    BY <1>1 DEF Stored
  <2>2. \A j \in EventIds : Stored(j) /\ ~ IsTerminalEvent(j) => IsRecordingEvent(j)
    BY <2>1 DEF IsTerminalEvent, IsRecordingEvent, Event
  <2> QED
    BY <1>2, <2>2
<1>9. AtMostOneEventOfAKind'
  <2>1. ASSUME NEW j \in EventIds, NEW k \in EventIds,
               Stored(j)', Stored(k)', callEvents'[j].call = callEvents'[k].call,
               IsTerminalEvent(j)' <=> IsTerminalEvent(k)'
        PROVE  j = k
    <3>1. CASE j = i /\ k = i
      BY <3>1
    <3>2. CASE j = i /\ k # i
      BY <2>1, <3>2, <1>3, <1>4, <1>5, <1>6, <1>7, <1>8 DEF IsTerminalEvent, Stored
    <3>3. CASE j # i /\ k = i
      BY <2>1, <3>3, <1>3, <1>4, <1>5, <1>6, <1>7, <1>8 DEF IsTerminalEvent, Stored
    <3>4. CASE j # i /\ k # i
      BY <2>1, <3>4, <1>4, <1>7 DEF EventInv, AtMostOneEventOfAKind, IsTerminalEvent, Stored
    <3> QED
      BY <3>1, <3>2, <3>3, <3>4
  <2> QED
    BY <2>1 DEF AtMostOneEventOfAKind
<1>10. \A d \in Calls : TerminalEventsOf(d)' = TerminalEventsOf(d)
  <2>1. ~ IsTerminalEvent(i)
    BY <1>6 DEF IsTerminalEvent
  <2> QED
    BY <1>4, <1>6, <1>7, <2>1 DEF TerminalEventsOf, IsTerminalEvent, Stored
<1>11. \A d \in Calls : \A j \in TerminalEventsOf(d) :
          callEvents'[j] = callEvents[j] /\ deliveries'[j] = deliveries[j]
  BY <1>4, <1>6 DEF TerminalEventsOf, IsTerminalEvent
<1>12. OutcomeIsPublished'
  BY <1>2, <1>10, <1>11 DEF EventInv, OutcomeIsPublished, Terminal
<1> QED
  BY <1>9, <1>12 DEF EventInv

LEMMA NextEventInv == EventInv /\ [MethodStep]_storeVars => EventInv'
<1> SUFFICES ASSUME EventInv, [MethodStep]_storeVars PROVE EventInv'
  OBVIOUS
<1>0. TypeOK /\ TypeOK' /\ calls \in [Calls -> CallRow]
  BY NextTypeOK DEF EventInv, TypeOK
<1>a. \A l \in leases : l.call \in Calls
  BY <1>0 DEF TypeOK, Lease
<1>1. CASE Tick
  BY <1>0, <1>1, EventsUntouched DEF Tick, Terminal
<1>2. ASSUME NEW c \in Calls, NEW o \in Owners, NEW recorded \in BOOLEAN,
             NEW t \in Time, BeginCall(c, o, recorded, t)
      PROVE  EventInv'
  <2> DEFINE row == [AbsentRow EXCEPT !.status = "active", !.owner = o, !.gen = 1, !.by = 1,
                                      !.expires = Later(t, LeaseTTL)]
  <2>1. ~ Terminal(c) /\ row.status \notin TerminalStatuses
    BY <1>2 DEF BeginCall, Terminal, TerminalStatuses, AbsentRow
  <2>2. /\ calls' = [calls EXCEPT ![c] = row]
        /\ callEvents' = callEvents /\ deliveries' = deliveries
    BY <1>2 DEF BeginCall
  <2> QED
    BY <1>0, <2>1, <2>2, EventsRowUpdate
<1>3. ASSUME NEW c \in Calls, NEW row, calls' = [calls EXCEPT ![c] = row],
             Active(c), row.status = calls[c].status,
             callEvents' = callEvents, deliveries' = deliveries
      PROVE  EventInv'
  <2>1. ~ Terminal(c) /\ row.status \notin TerminalStatuses
    BY <1>3 DEF Active, Terminal, TerminalStatuses
  <2> QED
    BY <1>0, <1>3, <2>1, EventsRowUpdate
<1>4. ASSUME NEW c \in Calls, NEW o \in Owners, NEW t \in Time,
             Active(c), GrantNextGeneration(c, o, t)
      PROVE  EventInv'
  <2> DEFINE row == [calls[c] EXCEPT !.owner = o, !.gen = @ + 1, !.by = calls[c].gen + 1,
                                     !.expires = Later(t, LeaseTTL)]
  <2>1. calls' = [calls EXCEPT ![c] = row] /\ row.status = calls[c].status
    BY <1>0, <1>4 DEF GrantNextGeneration, CallRow
  <2>2. callEvents' = callEvents /\ deliveries' = deliveries
    BY <1>4 DEF GrantNextGeneration
  <2> QED
    BY <1>3, <1>4, <2>1, <2>2
<1>5. ASSUME NEW l \in leases, NEW t \in Time, RenewLease(l, t)
      PROVE  EventInv'
  <2> DEFINE row == [calls[l.call] EXCEPT !.expires = Later(t, LeaseTTL), !.by = l.gen]
  <2>1. calls' = [calls EXCEPT ![l.call] = row] /\ row.status = calls[l.call].status
    BY <1>0, <1>a, <1>5 DEF RenewLease, RenewedUntil, CallRow
  <2>2. callEvents' = callEvents /\ deliveries' = deliveries /\ Active(l.call)
    BY <1>5 DEF RenewLease
  <2> QED
    BY <1>3, <1>a, <2>1, <2>2
<1>6. ASSUME NEW l \in leases, NEW data \in Results, FlushResults(l, data)
      PROVE  EventInv'
  <2> DEFINE row == [calls[l.call] EXCEPT !.result = [by |-> l.gen, data |-> data], !.by = l.gen]
  <2>1. calls' = [calls EXCEPT ![l.call] = row] /\ row.status = calls[l.call].status
    BY <1>0, <1>a, <1>6 DEF FlushResults, CallRow
  <2>2. callEvents' = callEvents /\ deliveries' = deliveries /\ Active(l.call)
    BY <1>6 DEF FlushResults
  <2> QED
    BY <1>3, <1>a, <2>1, <2>2
<1>7. ASSUME NEW l \in leases, NEW state \in ProviderStates, UpdateProviderState(l, state)
      PROVE  EventInv'
  <2> DEFINE row == [calls[l.call] EXCEPT !.provider = state, !.by = l.gen]
  <2>1. calls' = [calls EXCEPT ![l.call] = row] /\ row.status = calls[l.call].status
    BY <1>0, <1>a, <1>7 DEF UpdateProviderState, CallRow
  <2>2. callEvents' = callEvents /\ deliveries' = deliveries /\ Active(l.call)
    BY <1>7 DEF UpdateProviderState
  <2> QED
    BY <1>3, <1>a, <2>1, <2>2
<1>8. ASSUME NEW c \in Calls, AppendTranscript(c)
      PROVE  EventInv'
  <2>1. \A d \in Calls : /\ calls'[d].status = calls[d].status
                         /\ calls'[d].reason = calls[d].reason
                         /\ calls'[d].result = calls[d].result
    BY <1>0, <1>8 DEF AppendTranscript, CallRow
  <2>2. callEvents' = callEvents /\ deliveries' = deliveries
    BY <1>8 DEF AppendTranscript
  <2> QED
    BY <1>0, <2>1, <2>2, EventsUntouched DEF Terminal
<1>9. ASSUME NEW c \in Calls, NEW state \in ProviderStates,
             RecordProviderObservation(c, state)
      PROVE  EventInv'
  <2> DEFINE row == [calls[c] EXCEPT !.provider = state]
  <2>1. calls' = [calls EXCEPT ![c] = row] /\ row.status = calls[c].status
    BY <1>0, <1>9 DEF RecordProviderObservation, CallRow
  <2>2. callEvents' = callEvents /\ deliveries' = deliveries /\ Active(c)
    BY <1>9 DEF RecordProviderObservation
  <2> QED
    BY <1>3, <2>1, <2>2
<1>11. ASSUME NEW c \in Calls, NEW expected, NEW o \in Owners, NEW t \in Time,
              HandoffCall(c, expected, o, t) \/ TakeoverExpiredCall(c, o, t)
       PROVE  EventInv'
  BY <1>4, <1>11 DEF HandoffCall, TakeoverExpiredCall
<1>12. ASSUME NEW c \in Calls, MarkRecordingFailed(c)
       PROVE  EventInv'
  BY <1>0, <1>12, EventsUntouched DEF MarkRecordingFailed, Terminal
<1>13. CASE UNCHANGED storeVars
  BY <1>0, <1>13, EventsUntouched DEF storeVars, Terminal
<1> QED
  BY <1>0, <1>1, <1>2, <1>5, <1>6, <1>7, <1>8, <1>9, <1>11, <1>12, <1>13,
     EventsTerminalize, EventsRecordingReady DEF MethodStep

\* The promise of docs/results-webhooks.md: exactly one terminal event is persisted,
\* once, whatever the owners, sweepers and relay clients of a call do.
LEMMA InitEventInv == Init => EventInv
BY InitTypeOK DEF Init, EventInv, AtMostOneEventOfAKind, OutcomeIsPublished, Stored,
   TerminalEventsOf, IsTerminalEvent, Terminal, AbsentRow, TerminalStatuses

THEOREM ExactlyOneTerminalEvent == Spec => []AtMostOneEventOfAKind
<1>1. EventInv => AtMostOneEventOfAKind
  BY DEF EventInv
<1> QED
  BY <1>1, InitEventInv, NextEventInv, SpecIsMethodSpec, PTL DEF MethodSpec

\* A call is finished exactly when its terminal event and outbox row are stored, and
\* the event's verdict is the row's for good.
THEOREM OutcomeAlwaysPublished == Spec => []OutcomeIsPublished
<1>1. EventInv => OutcomeIsPublished
  BY DEF EventInv
<1> QED
  BY <1>1, InitEventInv, NextEventInv, SpecIsMethodSpec, PTL DEF MethodSpec

-----------------------------------------------------------------------------
(* Action properties *)

\* A call that does not exist has left nothing in its row: the row that begin_call
\* replaces has no result to lose.  And the last lease that wrote a row is of the
\* generation that owns it.
BlankInv ==
    /\ TypeOK
    /\ \A c \in Calls : calls[c].status = "absent" => calls[c] = AbsentRow
    /\ \A c \in Calls : calls[c].by = calls[c].gen

\* A step that leaves a row alone, or writes it under its generation without making it
\* absent, keeps BlankInv.
LEMMA BlankRows ==
    ASSUME BlankInv, TypeOK',
           \A c \in Calls : \/ calls'[c] = calls[c]
                            \/ calls'[c].status # "absent" /\ calls'[c].by = calls'[c].gen
    PROVE  BlankInv'
BY DEF BlankInv

\* Every step keeps BlankInv: no step makes a row absent, and every writer holds the
\* row's generation.
LEMMA NextBlankInv == BlankInv /\ [MethodStep]_storeVars => BlankInv'
<1> SUFFICES ASSUME BlankInv, [MethodStep]_storeVars PROVE BlankInv'
  OBVIOUS
<1>0. TypeOK /\ TypeOK' /\ calls \in [Calls -> CallRow] /\ \A l \in leases : l.call \in Calls
  BY NextTypeOK DEF BlankInv, TypeOK, Lease
<1>1. CASE calls' = calls
  BY <1>0, <1>1 DEF BlankInv
<1> DEFINE Exists(d) == \/ calls'[d] = calls[d]
                        \/ calls'[d].status # "absent" /\ calls'[d].by = calls'[d].gen
<1> SUFFICES ASSUME NEW d \in Calls PROVE Exists(d)
  BY <1>0, BlankRows
<1>2. ASSUME NEW c \in Calls, NEW o \in Owners, NEW recorded \in BOOLEAN,
             NEW t \in Time, BeginCall(c, o, recorded, t)
      PROVE  Exists(d)
  BY <1>0, <1>2 DEF BeginCall, AbsentRow
<1>3. ASSUME NEW c \in Calls, NEW o \in Owners, NEW t \in Time,
             Active(c), GrantNextGeneration(c, o, t)
      PROVE  Exists(d)
  BY <1>0, <1>3 DEF GrantNextGeneration, Active, CallRow
<1>4. ASSUME NEW l \in leases, NEW t \in Time, RenewLease(l, t)
      PROVE  Exists(d)
  BY <1>0, <1>4 DEF RenewLease, Active, Holds, CallRow
<1>5. ASSUME NEW l \in leases, NEW data \in Results, FlushResults(l, data)
      PROVE  Exists(d)
  BY <1>0, <1>5 DEF FlushResults, Active, Holds, CallRow
<1>6. ASSUME NEW l \in leases, NEW state \in ProviderStates, UpdateProviderState(l, state)
      PROVE  Exists(d)
  BY <1>0, <1>6 DEF UpdateProviderState, Active, Holds, CallRow
<1>7. ASSUME NEW c \in Calls, NEW state \in ProviderStates,
             RecordProviderObservation(c, state)
      PROVE  Exists(d)
  BY <1>0, <1>7 DEF BlankInv, RecordProviderObservation, Active, CallRow
<1>8. ASSUME NEW c \in Calls, AppendTranscript(c)
      PROVE  Exists(d)
  BY <1>0, <1>8 DEF BlankInv, AppendTranscript, CallRow
<1>9. ASSUME NEW l \in leases, NEW reason \in EndedReasons,
             NEW provider \in ProviderStates \cup {"none"},
             NEW t \in Time, NEW i \in EventIds,
             Terminalize(l, reason, provider, t, i)
      PROVE  Exists(d)
  <2>1. calls[l.call] \in CallRow /\ l.gen = calls[l.call].gen
    BY <1>0, <1>9 DEF Terminalize, Holds
  <2>2. /\ calls'[l.call].status = StatusOf(EventTypeOf(reason))
        /\ calls'[l.call].by = l.gen /\ calls'[l.call].gen = calls[l.call].gen
    BY <1>0, <1>9, <2>1 DEF Terminalize, CallRow
  <2>3. d # l.call => calls'[d] = calls[d]
    BY <1>0, <1>9 DEF Terminalize
  <2> QED
    BY <2>1, <2>2, <2>3 DEF StatusOf
<1> QED
  BY <1>1, <1>2, <1>3, <1>4, <1>5, <1>6, <1>7, <1>8, <1>9
     DEF MethodStep, HandoffCall, TakeoverExpiredCall, Tick, MarkRecordingReady,
         MarkRecordingFailed, storeVars

LEMMA InitBlankInv == Init => BlankInv
BY InitTypeOK DEF Init, BlankInv, AbsentRow

LEMMA AlwaysBlank == MethodSpec => []BlankInv
BY InitBlankInv, NextBlankInv, PTL DEF MethodSpec

\* What a step does to one row, seen by the writer of its result and of the row.
FencedWrite(c) ==
    /\ calls'[c].result # calls[c].result => calls'[c].result.by = calls[c].gen
    /\ calls'[c].gen = calls[c].gen => calls'[c].by = calls[c].gen

\* Every step that does not move the call to a new generation writes under the one that
\* owns it: the writer of the row is of the row's generation after every step, because
\* it was before it and because no method takes another lease.
LEMMA NextFencedWrite ==
    ASSUME BlankInv, [MethodStep]_storeVars, NEW d \in Calls
    PROVE  FencedWrite(d)
<1>0. TypeOK /\ calls \in [Calls -> CallRow] /\ \A l \in leases : l.call \in Calls
  BY DEF BlankInv, TypeOK, Lease
<1>1. calls'[d].gen = calls[d].gen => calls'[d].by = calls[d].gen
  BY NextBlankInv DEF BlankInv
<1> SUFFICES ASSUME calls'[d].result # calls[d].result
             PROVE  calls'[d].result.by = calls[d].gen
  BY <1>1 DEF FencedWrite
<1>2. ASSUME NEW c \in Calls, NEW o \in Owners, NEW recorded \in BOOLEAN,
             NEW t \in Time, BeginCall(c, o, recorded, t)
      PROVE  FALSE
  <2>1. calls[c] = AbsentRow
    BY <1>2 DEF BeginCall, BlankInv
  <2> QED
    BY <1>0, <1>2, <2>1 DEF BeginCall, AbsentRow
<1>3. ASSUME NEW c \in Calls, NEW o \in Owners, NEW t \in Time,
             Active(c), GrantNextGeneration(c, o, t)
      PROVE  FALSE
  BY <1>0, <1>3 DEF GrantNextGeneration, CallRow
<1>4. ASSUME NEW l \in leases, NEW data \in Results, FlushResults(l, data)
      PROVE  calls'[d].result.by = calls[d].gen
  <2>1. /\ calls'[l.call].result = [by |-> l.gen, data |-> data]
        /\ l.gen = calls[l.call].gen
    BY <1>0, <1>4 DEF FlushResults, CallRow, Holds
  <2>2. d # l.call => calls'[d] = calls[d]
    BY <1>0, <1>4 DEF FlushResults
  <2> QED
    BY <2>1, <2>2
<1>5. ASSUME NEW l \in leases, NEW t \in Time, RenewLease(l, t)
      PROVE  FALSE
  BY <1>0, <1>5 DEF RenewLease, CallRow
<1>6. ASSUME NEW l \in leases, NEW state \in ProviderStates, UpdateProviderState(l, state)
      PROVE  FALSE
  BY <1>0, <1>6 DEF UpdateProviderState, CallRow
<1>7. ASSUME NEW c \in Calls, NEW state \in ProviderStates,
             RecordProviderObservation(c, state)
      PROVE  FALSE
  BY <1>0, <1>7 DEF RecordProviderObservation, CallRow
<1>8. ASSUME NEW c \in Calls, AppendTranscript(c)
      PROVE  FALSE
  BY <1>0, <1>8 DEF AppendTranscript, CallRow
<1>9. ASSUME NEW l \in leases, NEW reason \in EndedReasons,
             NEW provider \in ProviderStates \cup {"none"},
             NEW t \in Time, NEW i \in EventIds,
             Terminalize(l, reason, provider, t, i)
      PROVE  FALSE
  BY <1>0, <1>9 DEF Terminalize, CallRow
<1> QED
  BY <1>2, <1>3, <1>4, <1>5, <1>6, <1>7, <1>8, <1>9
     DEF MethodStep, HandoffCall, TakeoverExpiredCall, Tick, MarkRecordingReady,
         MarkRecordingFailed, storeVars

\* No lease kept across a handoff or a takeover renews, flushes, updates or ends a call:
\* the fence of every write is the row's generation, not its owner's name.
LEMMA MethodsAreFenced == MethodSpec => OnlyTheCurrentGenerationWrites
<1>1. BlankInv /\ [MethodStep]_storeVars => [\A c \in Calls : FencedWrite(c)]_storeVars
  BY NextFencedWrite
<1>2. MethodSpec => [][\A c \in Calls : FencedWrite(c)]_storeVars
  BY <1>1, AlwaysBlank, PTL DEF MethodSpec
<1> QED
  BY <1>2 DEF OnlyTheCurrentGenerationWrites, FencedWrite

\* So with the repository's own steps.
THEOREM WritesAreFenced == Spec => OnlyTheCurrentGenerationWrites
BY MethodsAreFenced, SpecIsMethodSpec, PTL

\* A finished row is changed in no column but its transcript and webhook state.
SameVerdict(c) ==
    calls'[c] = [calls[c] EXCEPT !.turns = calls'[c].turns, !.webhook = calls'[c].webhook]

LEMMA NextKeepsFinished ==
    ASSUME TypeOK, [MethodStep]_storeVars
    PROVE  /\ \A c \in Calls : Terminal(c) => SameVerdict(c)
           /\ \A i \in EventIds : Stored(i) => callEvents'[i] = callEvents[i]
<1>0. /\ calls \in [Calls -> CallRow] /\ callEvents \in [EventIds -> Event \cup {NoEvent}]
      /\ \A l \in leases : l.call \in Calls
  BY DEF TypeOK, Lease
<1>1. ASSUME NEW d \in Calls, Terminal(d) PROVE SameVerdict(d)
  <2>1. CASE calls'[d] = calls[d]
    BY <1>0, <2>1 DEF SameVerdict, CallRow
  <2>2. ASSUME NEW c \in Calls, AppendTranscript(c)
        PROVE  SameVerdict(d)
    <3>1. CASE d = c
      BY <1>0, <2>2, <3>1 DEF AppendTranscript, SameVerdict, CallRow
    <3>2. CASE d # c
      BY <1>0, <2>1, <2>2, <3>2 DEF AppendTranscript
    <3> QED
      BY <3>1, <3>2
  <2>3. ASSUME NEW c, c # d, NEW row, calls' = [calls EXCEPT ![c] = row]
        PROVE  SameVerdict(d)
    BY <1>0, <2>1, <2>3
  <2>4. ~ Active(d) /\ calls[d].status # "absent"
    BY <1>1 DEF Terminal, TerminalStatuses, Active
  <2>5. ASSUME NEW c \in Calls, NEW o \in Owners, NEW recorded \in BOOLEAN,
               NEW t \in Time, BeginCall(c, o, recorded, t)
        PROVE  SameVerdict(d)
    BY <2>3, <2>4, <2>5 DEF BeginCall
  <2>6. ASSUME NEW c \in Calls, NEW o \in Owners, NEW t \in Time,
               Active(c), GrantNextGeneration(c, o, t)
        PROVE  SameVerdict(d)
    BY <1>0, <2>1, <2>4, <2>6 DEF GrantNextGeneration
  <2>7. ASSUME NEW l \in leases, NEW t \in Time, RenewLease(l, t)
        PROVE  SameVerdict(d)
    BY <1>0, <2>1, <2>4, <2>7 DEF RenewLease
  <2>8. ASSUME NEW l \in leases, NEW data \in Results, FlushResults(l, data)
        PROVE  SameVerdict(d)
    BY <1>0, <2>1, <2>4, <2>8 DEF FlushResults
  <2>9. ASSUME NEW l \in leases, NEW state \in ProviderStates, UpdateProviderState(l, state)
        PROVE  SameVerdict(d)
    BY <1>0, <2>1, <2>4, <2>9 DEF UpdateProviderState
  <2>10. ASSUME NEW c \in Calls, NEW state \in ProviderStates,
                RecordProviderObservation(c, state)
         PROVE  SameVerdict(d)
    BY <2>3, <2>4, <2>10 DEF RecordProviderObservation
  <2>11. ASSUME NEW l \in leases, NEW reason \in EndedReasons,
                NEW provider \in ProviderStates \cup {"none"},
                NEW t \in Time, NEW i \in EventIds,
                Terminalize(l, reason, provider, t, i)
         PROVE  SameVerdict(d)
    BY <1>0, <2>1, <2>4, <2>11 DEF Terminalize
  <2> QED
    BY <2>1, <2>2, <2>5, <2>6, <2>7, <2>8, <2>9, <2>10, <2>11
       DEF MethodStep, HandoffCall, TakeoverExpiredCall, Tick, MarkRecordingReady,
           MarkRecordingFailed, storeVars
<1>2. ASSUME NEW j \in EventIds, Stored(j) PROVE callEvents'[j] = callEvents[j]
  <2>1. CASE callEvents' = callEvents
    BY <2>1
  <2>2. ASSUME NEW i \in EventIds, NEW body, NEW t, InsertEvent(i, body, t)
        PROVE  callEvents'[j] = callEvents[j]
    BY <1>0, <1>2, <2>2 DEF InsertEvent, FreshId, Stored
  <2>3. ASSUME NEW l \in leases, NEW reason \in EndedReasons,
               NEW provider \in ProviderStates \cup {"none"},
               NEW t \in Time, NEW i \in EventIds,
               Terminalize(l, reason, provider, t, i)
        PROVE  callEvents'[j] = callEvents[j]
    BY <2>2, <2>3 DEF Terminalize
  <2>4. ASSUME NEW c \in Calls, NEW t \in Time, NEW i \in EventIds,
               MarkRecordingReady(c, t, i)
        PROVE  callEvents'[j] = callEvents[j]
    BY <2>2, <2>4 DEF MarkRecordingReady
  <2> QED
    BY <2>1, <2>3, <2>4
       DEF MethodStep, Tick, BeginCall, HandoffCall, TakeoverExpiredCall, GrantNextGeneration,
           RenewLease, FlushResults, UpdateProviderState, RecordProviderObservation,
           AppendTranscript, MarkRecordingFailed, storeVars
<1> QED
  BY <1>1, <1>2

\* A finished call is final, and so is a stored event: whatever handoff, takeover,
\* flush, carrier report or second end comes after it.
LEMMA MethodsKeepFinished == MethodSpec => FinishedIsFinal
<1> DEFINE Final == /\ \A c \in Calls : Terminal(c) => SameVerdict(c)
                    /\ \A i \in EventIds : Stored(i) => callEvents'[i] = callEvents[i]
<1>1. TypeOK /\ [MethodStep]_storeVars => [Final]_storeVars
  BY NextKeepsFinished
<1>2. MethodSpec => [][Final]_storeVars
  BY <1>1, InitTypeOK, NextTypeOK, PTL DEF MethodSpec
<1> QED
  BY <1>2 DEF FinishedIsFinal, SameVerdict

\* So with the repository's own steps.
THEOREM FinishedStaysFinal == Spec => FinishedIsFinal
BY MethodsKeepFinished, SpecIsMethodSpec, PTL

-----------------------------------------------------------------------------
(* The repository implements CallOutcome *)

\* The tables seen as CallOutcome sees a call: the four parts of the mapping.
PhaseBar == [c \in Calls |-> PhaseOf(c)]
EpochBar == [c \in Calls |-> calls[c].gen]
DraftBar == [c \in Calls |-> calls[c].result]
PublishedBar == {Announcement(i) : i \in {j \in EventIds : Stored(j)}}

\* What the mapping needs of a state: rows that do not exist are blank, and what is
\* announced of a call is what its row says.
RefineInv == BlankInv /\ EventInv

LEMMA AlwaysRefineInv == MethodSpec => []RefineInv
<1>1. MethodSpec => []EventInv
  BY InitEventInv, NextEventInv, PTL DEF MethodSpec
<1> QED
  BY <1>1, AlwaysBlank, PTL DEF RefineInv

\* A step that stores no event announces nothing.
LEMMA NothingAnnounced ==
    ASSUME callEvents' = callEvents
    PROVE  PublishedBar' = PublishedBar
BY DEF PublishedBar, Announcement, Stored, IsTerminalEvent

\* A step that changes one row, but not what the mapping reads of it, is a stutter
\* of the abstract call.
LEMMA RowStutter ==
    ASSUME calls \in [Calls -> CallRow], callEvents' = callEvents,
           \A c \in Calls : /\ calls'[c].status = calls[c].status
                            /\ calls'[c].gen = calls[c].gen
                            /\ calls'[c].result = calls[c].result
    PROVE  UNCHANGED <<PhaseBar, EpochBar, DraftBar, PublishedBar>>
<1>1. \A c \in Calls : PhaseOf(c)' = PhaseOf(c)
  BY DEF PhaseOf, Active
<1> QED
  BY <1>1, NothingAnnounced DEF PhaseBar, EpochBar, DraftBar

\* The announcement of a stored event is the one that has its id.
LEMMA InsertAnnounces ==
    ASSUME EventInv, NEW i \in EventIds, NEW body \in Event, NEW t,
           InsertEvent(i, body, t)
    PROVE  /\ PublishedBar' = PublishedBar \cup
                {[id |-> i, call |-> body.call,
                  kind |-> IF body.type \in TerminalTypes THEN "outcome" ELSE "recording",
                  reason |-> body.reason, result |-> body.result]}
           /\ \A p \in PublishedBar : p.id # i
<1>0. callEvents \in [EventIds -> Event \cup {NoEvent}] /\ body # NoEvent
  BY NoEventAssumption DEF EventInv, TypeOK
<1>1. /\ ~ Stored(i) /\ Stored(i)' /\ callEvents'[i] = body
      /\ \A j \in EventIds \ {i} : /\ Stored(j)' <=> Stored(j)
                                   /\ callEvents'[j] = callEvents[j]
  BY <1>0 DEF InsertEvent, FreshId, Stored
<1>2. \A j \in EventIds \ {i} : Stored(j) => Announcement(j)' = Announcement(j)
  BY <1>1 DEF Announcement, IsTerminalEvent
<1>3. Announcement(i)' =
        [id |-> i, call |-> body.call,
         kind |-> IF body.type \in TerminalTypes THEN "outcome" ELSE "recording",
         reason |-> body.reason, result |-> body.result]
  BY <1>1 DEF Announcement, IsTerminalEvent
<1>4. {j \in EventIds : Stored(j)}' = {j \in EventIds : Stored(j)} \cup {i}
  BY <1>1
<1>5. PublishedBar' = {Announcement(j)' : j \in {k \in EventIds : Stored(k)}'}
  BY DEF PublishedBar
<1>6. \A j \in EventIds : Stored(j) => j # i
  BY <1>1
<1>7. {Announcement(j)' : j \in {k \in EventIds : Stored(k)}} = PublishedBar
  BY <1>2, <1>6 DEF PublishedBar
<1>8. PublishedBar' = PublishedBar \cup {Announcement(i)'}
  BY <1>4, <1>5, <1>7
<1>9. \A p \in PublishedBar : p.id # i
  BY <1>6 DEF PublishedBar, Announcement
<1> QED
  BY <1>3, <1>8, <1>9

\* What is announced of a call as its outcome, or as its recording, is an event of
\* that kind in the table.
LEMMA AnnouncedEvents ==
    ASSUME TypeOK, NEW c \in Calls, NEW p \in PublishedBar, p.call = c
    PROVE  /\ p.kind = "outcome" =>
                \E i \in TerminalEventsOf(c) :
                   p.reason = callEvents[i].reason /\ p.result = callEvents[i].result
           /\ p.kind = "recording" =>
                \E i \in EventIds : IsRecordingEvent(i) /\ callEvents[i].call = c
<1>1. PICK i \in EventIds : Stored(i) /\ p = Announcement(i)
  BY DEF PublishedBar
<1>2. /\ p.call = callEvents[i].call /\ p.reason = callEvents[i].reason
      /\ p.result = callEvents[i].result
      /\ p.kind = IF IsTerminalEvent(i) THEN "outcome" ELSE "recording"
  BY <1>1 DEF Announcement
<1>3. callEvents[i] \in Event
  BY <1>1 DEF TypeOK, Stored
<1>4. IsTerminalEvent(i) \/ IsRecordingEvent(i)
  BY <1>1, <1>3 DEF Event, IsTerminalEvent, IsRecordingEvent
<1>5. CASE IsTerminalEvent(i)
  BY <1>2, <1>5 DEF TerminalEventsOf
<1>6. CASE ~ IsTerminalEvent(i)
  BY <1>2, <1>4, <1>6
<1> QED
  BY <1>5, <1>6

\* The repository starts as an unseen call with nothing announced.
LEMMA InitOutcome == Init => Outcome!Init
<1> SUFFICES ASSUME Init PROVE Outcome!Init
  OBVIOUS
<1>1. \A c \in Calls : PhaseOf(c) = "unseen" /\ calls[c].gen = 0 /\ calls[c].result = NoResult
  BY DEF Init, AbsentRow, PhaseOf, Active
<1>2. \A i \in EventIds : ~ Stored(i)
  BY DEF Init, Stored
<1> QED
  BY <1>1, <1>2 DEF Outcome!Init

\* One step of the abstract call for the terminal transaction.
LEMMA TerminalizeCloses ==
    ASSUME RefineInv, NEW l \in leases, NEW reason \in EndedReasons,
           NEW provider \in ProviderStates \cup {"none"},
           NEW t \in Time, NEW i \in EventIds,
           Terminalize(l, reason, provider, t, i)
    PROVE  Outcome!Close(l.call, reason, i)
<1> DEFINE c == l.call
           type == EventTypeOf(reason)
           recording == IF recordings[c] = "none" THEN "none" ELSE "pending"
           body == EventBody(c, type, reason, recording)
<1>0. TypeOK /\ calls \in [Calls -> CallRow] /\ c \in Calls
  BY DEF RefineInv, EventInv, TypeOK, Lease
<1>1. type \in TerminalTypes /\ StatusOf(type) \in TerminalStatuses
  BY DEF EventTypeOf, TerminalTypes, StatusOf, TerminalStatuses
<1>2. body \in Event /\ InsertEvent(i, body, t)
  BY <1>0, <1>1, BodyIsAnEvent DEF Terminalize
<1>3. /\ body.call = c /\ body.type = type /\ body.reason = reason
      /\ body.result = calls[c].result
  BY DEF EventBody
<1> HIDE DEF body
<1>4. /\ PublishedBar' = PublishedBar \cup
           {[id |-> i, call |-> c, kind |-> "outcome", reason |-> reason,
             result |-> calls[c].result]}
      /\ \A p \in PublishedBar : p.id # i
  BY <1>1, <1>2, <1>3, InsertAnnounces DEF RefineInv
<1>5. \A p \in PublishedBar : ~ (p.call = c /\ p.kind = "outcome")
  <2>1. TerminalEventsOf(c) = {}
    BY <1>0 DEF RefineInv, EventInv, OutcomeIsPublished, Terminalize, Active, Terminal,
                TerminalStatuses
  <2> QED
    BY <1>0, <2>1, AnnouncedEvents
<1>6. PhaseOf(c) = "open"
  BY DEF Terminalize, PhaseOf, Active
<1>7. PhaseBar' = [PhaseBar EXCEPT ![c] = "closed"]
  <2>1. calls'[c].status \in TerminalStatuses
    BY <1>0, <1>1 DEF Terminalize, CallRow
  <2>2. PhaseOf(c)' = "closed"
    BY <2>1 DEF PhaseOf, Active, TerminalStatuses
  <2>3. \A d \in Calls \ {c} : PhaseOf(d)' = PhaseOf(d)
    BY <1>0 DEF Terminalize, PhaseOf, Active
  <2> QED
    BY <2>2, <2>3 DEF PhaseBar
<1>8. EpochBar' = EpochBar /\ DraftBar' = DraftBar
  <2>1. calls[c] \in CallRow
    BY <1>0
  <2>2. calls'[c].gen = calls[c].gen /\ calls'[c].result = calls[c].result
    BY <1>0, <2>1 DEF Terminalize, CallRow
  <2>3. \A d \in Calls \ {c} : calls'[d] = calls[d]
    BY <1>0 DEF Terminalize
  <2> QED
    BY <2>2, <2>3 DEF EpochBar, DraftBar
<1> QED
  BY <1>0, <1>4, <1>5, <1>6, <1>7, <1>8
     DEF Outcome!Close, Outcome!KindFor, Outcome!FreshAnnouncement,
         PhaseBar, EpochBar, DraftBar, PublishedBar

\* One step of the abstract call for the ready announcement: it repeats the verdict
\* of the terminal event.
LEMMA ReadyAnnounces ==
    ASSUME RefineInv, NEW c \in Calls, NEW t \in Time, NEW i \in EventIds,
           MarkRecordingReady(c, t, i)
    PROVE  Outcome!AnnounceRecording(c, i)
<1> DEFINE body == EventBody(c, RecordingReadyType, calls[c].reason, "ready")
<1>0. TypeOK /\ calls \in [Calls -> CallRow]
  BY DEF RefineInv, EventInv, TypeOK
<1>2. body \in Event /\ InsertEvent(i, body, t)
  BY <1>0, BodyIsAnEvent DEF MarkRecordingReady, CallRow
<1>3. /\ body.call = c /\ body.type = RecordingReadyType /\ body.reason = calls[c].reason
      /\ body.result = calls[c].result
  BY DEF EventBody
<1> HIDE DEF body
<1>4. /\ PublishedBar' = PublishedBar \cup
           {[id |-> i, call |-> c, kind |-> "recording", reason |-> calls[c].reason,
             result |-> calls[c].result]}
      /\ \A p \in PublishedBar : p.id # i
  <2>1. RecordingReadyType \notin TerminalTypes
    BY DEF RecordingReadyType, TerminalTypes
  <2> QED
    BY <1>2, <1>3, <2>1, InsertAnnounces DEF RefineInv
<1>5. \A p \in PublishedBar : ~ (p.call = c /\ p.kind = "recording")
  BY <1>0, AnnouncedEvents DEF MarkRecordingReady
<1>6. \E p \in PublishedBar : /\ p.call = c /\ p.kind = "outcome"
                              /\ p.reason = calls[c].reason /\ p.result = calls[c].result
  <2>1. PICK j \in TerminalEventsOf(c) : TRUE
    BY DEF MarkRecordingReady, RefineInv, EventInv, OutcomeIsPublished
  <2>2. callEvents[j].reason = calls[c].reason /\ callEvents[j].result = calls[c].result
    BY <2>1 DEF RefineInv, EventInv, OutcomeIsPublished
  <2>3. j \in EventIds /\ IsTerminalEvent(j) /\ callEvents[j].call = c
    BY DEF TerminalEventsOf
  <2>4. Announcement(j) \in PublishedBar
    BY <2>3 DEF PublishedBar, IsTerminalEvent
  <2> QED
    BY <2>2, <2>3, <2>4 DEF Announcement
<1>7. PhaseOf(c) = "closed"
  BY DEF MarkRecordingReady, Terminal, TerminalStatuses, PhaseOf, Active
<1>8. PhaseBar' = PhaseBar /\ EpochBar' = EpochBar /\ DraftBar' = DraftBar
  BY DEF MarkRecordingReady, PhaseBar, EpochBar, DraftBar, PhaseOf, Active
<1> QED
  BY <1>4, <1>5, <1>6, <1>7, <1>8
     DEF Outcome!AnnounceRecording, Outcome!KindFor, Outcome!FreshAnnouncement,
         PhaseBar, EpochBar, DraftBar, PublishedBar

\* Every step of the repository is a step of the abstract call, or a stutter.
LEMMA NextOutcome == RefineInv /\ [MethodStep]_storeVars => [Outcome!Next]_(Outcome!outcomeVars)
<1> SUFFICES ASSUME RefineInv, [MethodStep]_storeVars
             PROVE  Outcome!Next \/ UNCHANGED <<PhaseBar, EpochBar, DraftBar, PublishedBar>>
  BY DEF Outcome!outcomeVars, PhaseBar, EpochBar, DraftBar, PublishedBar
<1>0. TypeOK /\ calls \in [Calls -> CallRow] /\ \A l \in leases : l.call \in Calls
  BY DEF RefineInv, EventInv, TypeOK, Lease
<1> DEFINE Stutter == UNCHANGED <<PhaseBar, EpochBar, DraftBar, PublishedBar>>
<1>1. CASE calls' = calls /\ callEvents' = callEvents
  BY <1>0, <1>1, RowStutter
<1>2. ASSUME NEW c \in Calls, NEW o \in Owners, NEW recorded \in BOOLEAN,
             NEW t \in Time, BeginCall(c, o, recorded, t)
      PROVE  Outcome!Open(c)
  <2>1. calls[c] = AbsentRow /\ PublishedBar' = PublishedBar
    BY <1>2, NothingAnnounced DEF BeginCall, RefineInv, BlankInv
  <2>2. /\ calls'[c].status = "active" /\ calls'[c].gen = 1
        /\ calls'[c].result = calls[c].result
        /\ \A d \in Calls \ {c} : calls'[d] = calls[d]
    BY <1>0, <1>2, <2>1 DEF BeginCall, AbsentRow
  <2>3. /\ PhaseOf(c) = "unseen" /\ PhaseOf(c)' = "open"
        /\ \A d \in Calls \ {c} : PhaseOf(d)' = PhaseOf(d)
    BY <2>1, <2>2 DEF PhaseOf, Active, AbsentRow
  <2> QED
    BY <2>1, <2>2, <2>3 DEF Outcome!Open, PublishedBar
<1>3. ASSUME NEW c \in Calls, NEW o \in Owners, NEW t \in Time,
             Active(c), GrantNextGeneration(c, o, t)
      PROVE  Outcome!ChangeOwner(c)
  <2>1. PublishedBar' = PublishedBar
    BY <1>3, NothingAnnounced DEF GrantNextGeneration
  <2>2. /\ calls'[c].status = "active" /\ calls'[c].gen = calls[c].gen + 1
        /\ calls'[c].result = calls[c].result
        /\ \A d \in Calls \ {c} : calls'[d] = calls[d]
    BY <1>0, <1>3 DEF GrantNextGeneration, CallRow, Active
  <2>3. /\ PhaseOf(c) = "open" /\ \A d \in Calls : PhaseOf(d)' = PhaseOf(d)
    BY <1>3, <2>2 DEF PhaseOf, Active
  <2> QED
    BY <2>1, <2>2, <2>3 DEF Outcome!ChangeOwner, PublishedBar
<1>4. ASSUME NEW l \in leases, NEW data \in Results, FlushResults(l, data)
      PROVE  Outcome!Collect(l.call, [by |-> l.gen, data |-> data])
  <2>1. PublishedBar' = PublishedBar
    BY <1>4, NothingAnnounced DEF FlushResults
  <2>2. /\ calls'[l.call].status = calls[l.call].status
        /\ calls'[l.call].gen = calls[l.call].gen
        /\ calls'[l.call].result = [by |-> l.gen, data |-> data]
        /\ \A d \in Calls \ {l.call} : calls'[d] = calls[d]
    BY <1>0, <1>4 DEF FlushResults, CallRow
  <2>3. /\ PhaseOf(l.call) = "open" /\ \A d \in Calls : PhaseOf(d)' = PhaseOf(d)
    BY <1>4, <2>2 DEF PhaseOf, Active, FlushResults
  <2> QED
    BY <1>0, <2>1, <2>2, <2>3 DEF Outcome!Collect, PublishedBar
<1>5. ASSUME NEW l \in leases, NEW t \in Time, RenewLease(l, t)
      PROVE  Stutter
  BY <1>0, <1>5, RowStutter DEF RenewLease, CallRow
<1>6. ASSUME NEW l \in leases, NEW state \in ProviderStates, UpdateProviderState(l, state)
      PROVE  Stutter
  BY <1>0, <1>6, RowStutter DEF UpdateProviderState, CallRow
<1>7. ASSUME NEW c \in Calls, NEW state \in ProviderStates,
             RecordProviderObservation(c, state)
      PROVE  Stutter
  BY <1>0, <1>7, RowStutter DEF RecordProviderObservation, CallRow
<1>8. ASSUME NEW c \in Calls, AppendTranscript(c)
      PROVE  Stutter
  BY <1>0, <1>8, RowStutter DEF AppendTranscript, CallRow
<1>9. \A l \in leases : \A data \in Results :
         l.call \in Calls /\ [by |-> l.gen, data |-> data] \in Snapshots
  BY <1>0 DEF TypeOK, Lease, Snapshots
<1> QED
  BY <1>0, <1>1, <1>2, <1>3, <1>4, <1>5, <1>6, <1>7, <1>8, <1>9,
     TerminalizeCloses, ReadyAnnounces
     DEF MethodStep, HandoffCall, TakeoverExpiredCall, Tick, MarkRecordingFailed, storeVars,
         Outcome!Next

\* The tables with their leases, recordings, clocks and outbox rows behave as a call
\* that is opened once, closed once, and announced once as it was closed.
LEMMA MethodsImplementOutcome == MethodSpec => ImplementsOutcome
<1>1. Init => Outcome!Init
  BY InitOutcome
<1>2. RefineInv /\ [MethodStep]_storeVars => [Outcome!Next]_(Outcome!outcomeVars)
  BY NextOutcome
<1> QED
  BY <1>1, <1>2, AlwaysRefineInv, PTL DEF MethodSpec, ImplementsOutcome, Outcome!Spec

\* So with the repository's own steps.
THEOREM RepositoryImplementsOutcome == Spec => ImplementsOutcome
BY MethodsImplementOutcome, SpecIsMethodSpec, PTL

-----------------------------------------------------------------------------
(* The promise to a component above the repository *)

\* What a caller that keeps to the methods can count on, whatever else it does.
LEMMA MethodsKeepThePromise ==
    MethodSpec => /\ []AtMostOneEventOfAKind /\ []OutcomeIsPublished
                  /\ OnlyTheCurrentGenerationWrites /\ FinishedIsFinal /\ ImplementsOutcome
<1>1. EventInv => AtMostOneEventOfAKind /\ OutcomeIsPublished
  BY DEF EventInv
<1>2. MethodSpec => []AtMostOneEventOfAKind /\ []OutcomeIsPublished
  BY <1>1, InitEventInv, NextEventInv, PTL DEF MethodSpec
<1> QED
  BY <1>2, MethodsAreFenced, MethodsKeepFinished, MethodsImplementOutcome

=============================================================================
