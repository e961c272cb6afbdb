----------------------------- MODULE DurableProofs -----------------------------
(***************************************************************************)
(* Proofs about what stands behind a call when its parts run beside each   *)
(* other: delivery workers, sweeps, the calls' own workers, carriers and   *)
(* the operator are callers of one repository, and each part keeps what it *)
(* promises alone.  What run `durable` checks follows.                     *)
(***************************************************************************)
EXTENDS MCDurable, OutboxProofs, RecoveryProofs, PipecatHostProofs

-----------------------------------------------------------------------------
(* The parts together *)

tablesVars == <<storeVars, deliveryVars, sweepVars>>

\* What anybody may do who is no sweep and no carrier: the calls' own workers begin calls,
\* hand them on, take them over and end them; any lease renews and flushes; transcripts
\* and recordings come at any time.
OwnersStep ==
    \/ \E c \in Calls, o \in Workers, recorded \in BOOLEAN, t \in Time :
          BeginCall(c, o, recorded, t)
    \/ \E c \in Calls, expected \in Owners, o \in Workers, t \in Time :
          HandoffCall(c, expected, o, t)
    \/ \E c \in Calls, o \in Workers, t \in Time : TakeoverExpiredCall(c, o, t)
    \/ \E l \in leases, t \in Time : RenewLease(l, t)
    \/ \E l \in leases, data \in Results : FlushResults(l, data)
    \/ \E c \in Calls : AppendTranscript(c)
    \/ \E l \in leases, reason \in EndedReasons, t \in Time, i \in EventIds :
          l.owner \in Workers /\ Terminalize(l, reason, "none", t, i)
    \/ \E c \in Calls, t \in Time, i \in EventIds : MarkRecordingReady(c, t, i)
    \/ \E c \in Calls : MarkRecordingFailed(c)

\* Delivery beside recovery (BothNext), and beside both whatever else the owners do.
TogetherNext == BothNext \/ (OwnersStep /\ UNCHANGED <<deliveryVars, sweepVars>>)

TogetherSpec == OutboxInit /\ RecoveryInit /\ [][TogetherNext]_tablesVars

\* Delivery's invariant, recovery's, and what the repository's promise rests on.
TogetherInv == OutboxInv /\ RecoveryInv /\ RefineInv

-----------------------------------------------------------------------------
(* The steps *)

LEMMA OwnersStepIsAMethod == OwnersStep => MethodStep
<1> SUFFICES ASSUME OwnersStep PROVE MethodStep
    OBVIOUS
<1>0. Workers \subseteq Owners
    BY DEF Workers
<1>1. ASSUME NEW c \in Calls, NEW o \in Workers, NEW recorded \in BOOLEAN, NEW t \in Time,
             BeginCall(c, o, recorded, t)
      PROVE  MethodStep
    BY <1>0, <1>1 DEF MethodStep
<1>2. ASSUME NEW c \in Calls, NEW expected \in Owners, NEW o \in Workers, NEW t \in Time,
             HandoffCall(c, expected, o, t)
      PROVE  MethodStep
    BY <1>0, <1>2 DEF MethodStep
<1>3. ASSUME NEW c \in Calls, NEW o \in Workers, NEW t \in Time, TakeoverExpiredCall(c, o, t)
      PROVE  MethodStep
    BY <1>0, <1>3 DEF MethodStep
<1>4. ASSUME NEW l \in leases, NEW reason \in EndedReasons, NEW t \in Time, NEW i \in EventIds,
             Terminalize(l, reason, "none", t, i)
      PROVE  MethodStep
    BY <1>4 DEF MethodStep
<1> QED
    BY <1>1, <1>2, <1>3, <1>4 DEF OwnersStep, MethodStep

\* A row whose new value says which of the owners' methods wrote it.
LEMMA OwnersRows ==
    ASSUME TypeOK, OwnersStep, NEW d \in Calls
    PROVE  /\ RowAsBefore(d) \/ RowBegins(d) \/ RowHandedOn(d) \/ RowEndedByWorker(d)
           /\ leases \subseteq leases'
<1> DEFINE OwnersRow == RowAsBefore(d) \/ RowBegins(d) \/ RowHandedOn(d) \/ RowEndedByWorker(d)
<1>0. calls \in [Calls -> CallRow] /\ calls[d] \in CallRow /\ leases \subseteq Lease
    BY DEF TypeOK
<1>1. leases \subseteq leases'
  <2>1. ASSUME NEW c, NEW o, NEW t, GrantNextGeneration(c, o, t) PROVE leases \subseteq leases'
    BY <2>1 DEF GrantNextGeneration
  <2>2. ASSUME NEW c, NEW o, NEW recorded, NEW t, BeginCall(c, o, recorded, t)
        PROVE  leases \subseteq leases'
    BY <2>2 DEF BeginCall
  <2>3. ASSUME NEW l, NEW s, NEW data, RenewLease(l, s) \/ FlushResults(l, data)
        PROVE  leases' = leases
    BY <2>3 DEF RenewLease, FlushResults
  <2>5. ASSUME NEW l, NEW reason, NEW s, NEW i, Terminalize(l, reason, "none", s, i)
        PROVE  leases' = leases
    BY <2>5 DEF Terminalize
  <2>4. ASSUME NEW c, \/ AppendTranscript(c)
                      \/ \E s, i : MarkRecordingReady(c, s, i)
                      \/ MarkRecordingFailed(c)
        PROVE  leases' = leases
    BY <2>4 DEF AppendTranscript, MarkRecordingReady, MarkRecordingFailed
  <2> QED
    BY <2>1, <2>2, <2>3, <2>4, <2>5, Zenon DEF OwnersStep, HandoffCall, TakeoverExpiredCall
<1>2. ASSUME calls'[d] = calls[d] PROVE OwnersRow
    BY <1>2 DEF RowAsBefore
<1>3. ASSUME NEW c \in Calls, NEW o \in Workers, NEW recorded, NEW t, BeginCall(c, o, recorded, t)
      PROVE  OwnersRow
  <2>1. CASE c = d
    BY <1>0, <1>3, <2>1 DEF BeginCall, AbsentRow, RowBegins
  <2> QED
    BY <1>0, <1>2, <1>3, <2>1 DEF BeginCall
<1>4. ASSUME NEW c \in Calls, NEW o \in Workers, NEW t, Active(c), GrantNextGeneration(c, o, t)
      PROVE  OwnersRow
  <2>1. CASE c = d
    BY <1>0, <1>4, <2>1 DEF GrantNextGeneration, CallRow, RowHandedOn
  <2> QED
    BY <1>0, <1>2, <1>4, <2>1 DEF GrantNextGeneration
<1>5. ASSUME NEW l \in leases, NEW t, RenewLease(l, t) PROVE OwnersRow
    BY <1>0, <1>5 DEF RenewLease, CallRow, RowAsBefore
<1>6. ASSUME NEW l \in leases, NEW data, FlushResults(l, data) PROVE OwnersRow
    BY <1>0, <1>6 DEF FlushResults, CallRow, RowAsBefore
<1>7. ASSUME NEW c \in Calls, AppendTranscript(c) PROVE OwnersRow
    BY <1>0, <1>7 DEF AppendTranscript, CallRow, RowAsBefore
<1>8. ASSUME NEW l \in leases, l.owner \in Workers, NEW reason, NEW t, NEW i,
             Terminalize(l, reason, "none", t, i)
      PROVE  OwnersRow
  <2>1. CASE l.call = d
    <3>1. /\ Active(d) /\ Holds(l) /\ calls'[d].status = StatusOf(EventTypeOf(reason))
          /\ calls'[d].provider = "none" /\ calls'[d].owner = calls[d].owner
      BY <1>0, <1>8, <2>1, TerminalizedRow
    <3> QED
      BY <1>8, <2>1, <3>1 DEF RowEndedByWorker, Holds, StatusOf, TerminalStatuses
  <2>2. CASE l.call # d
    <3>1. l.call \in Calls
      BY <1>0 DEF Lease
    <3> QED
      BY <1>0, <1>2, <1>8, <2>2, <3>1, TerminalizedRow
  <2> QED
    BY <2>1, <2>2
<1> QED
    BY <1>1, <1>2, <1>3, <1>4, <1>5, <1>6, <1>7, <1>8
       DEF OwnersStep, HandoffCall, TakeoverExpiredCall, MarkRecordingReady, MarkRecordingFailed

\* The owners' methods are none of a sweep's business.
LEMMA OwnersKeepRecovery ==
    ASSUME RecoveryInv, OwnersStep, UNCHANGED sweepVars
    PROVE  RecoveryInv'
<1>1. FenceInv' /\ BlankInv' /\ TypeOK'
    BY OwnersStepIsAMethod, NextFenceInv, NextBlankInv DEF RecoveryInv, FenceInv
<1>2. leases \subseteq leases'
  <2>1. CASE \E d \in Calls : TRUE
    BY <2>1, OwnersRows DEF RecoveryInv, FenceInv
  <2>2. CASE Calls = {}
    <3>1. \A l \in leases : FALSE
      BY <2>2 DEF RecoveryInv, FenceInv, TypeOK, Lease
    <3> QED
      BY <3>1
  <2> QED
    BY <2>1, <2>2
<1>3. \A c \in Calls : RowAsBefore(c) \/ RowBegins(c) \/ RowHandedOn(c) \/ RowEndedByWorker(c)
    BY OwnersRows DEF RecoveryInv, FenceInv
<1>4. pass' = pass /\ heard' = heard /\ workersUp' \in BOOLEAN /\ faults' = faults
    BY DEF sweepVars, RecoveryInv, RecoveryTypeOK
<1> QED
    BY <1>1, <1>2, <1>3, <1>4, WorldKeeps

\* Nor is anything that delivery does.
LEMMA DeliveryKeepsRecovery ==
    ASSUME TogetherInv, OutboxInv', DeliveryNext, UNCHANGED sweepVars
    PROVE  RecoveryInv' /\ RefineInv'
<1>0. /\ OutboxInv /\ RecoveryInv /\ RefineInv /\ TypeOK /\ TypeOK' /\ leases' = leases
      /\ calls \in [Calls -> CallRow]
    BY DeliveryOnlyDelivers DEF TogetherInv, OutboxInv, OutboxTypeOK, TypeOK
<1>1. RefineInv' /\ \A c \in Calls : RowAsBefore(c)
  <2>1. CASE UNCHANGED storeVars
    <3>1. RefineInv'
      BY <1>0, <2>1, NextBlankInv, NextEventInv DEF RefineInv
    <3> QED
      BY <2>1, <3>1 DEF storeVars, RowAsBefore
  <2>2. CASE OnlyDelivers
    BY <1>0, <2>2, DeliveryKeeps DEF OnlyDelivers, RowAsBefore, CallRow
  <2> QED
    BY <1>0, <2>1, <2>2, DeliveryOnlyDelivers
<1>2. FenceInv'
    BY <1>0, <1>1, FenceUntouched DEF RowAsBefore, RecoveryInv
<1>3. pass' = pass /\ heard' = heard /\ workersUp' \in BOOLEAN /\ faults' = faults
    BY <1>0 DEF sweepVars, RecoveryInv, RecoveryTypeOK
<1>4. RecoveryInv'
    BY <1>0, <1>1, <1>2, <1>3, WorldKeeps DEF RefineInv
<1> QED
    BY <1>1, <1>4

\* Nor do sweeps disturb delivery: all they do to the tables are methods.
LEMMA MethodKeepsTheRest ==
    ASSUME OutboxInv, RefineInv, [MethodStep]_storeVars, UNCHANGED deliveryVars
    PROVE  OutboxInv' /\ RefineInv'
BY MethodKeeps, NextBlankInv, NextEventInv DEF RefineInv

LEMMA BothNextKeeps ==
    ASSUME TogetherInv, BothNext
    PROVE  TogetherInv' /\ [ServedNext]_outboxVars
<1> USE DEF TogetherInv
<1>1. CASE DeliveryNext /\ UNCHANGED sweepVars
    BY <1>1, DeliveryNextKeeps, DeliveryKeepsRecovery DEF ServedNext
<1>2. CASE RecoveryNext /\ UNCHANGED deliveryVars
  <2>1. [MethodStep]_storeVars
    BY <1>2, RecoveryStepsAreMethods
  <2> QED
    BY <1>2, <2>1, MethodKeepsTheRest, RecoveryInvNext DEF ServedNext, outboxVars
<1> QED
    BY <1>1, <1>2 DEF BothNext

LEMMA TogetherNextKeeps ==
    ASSUME TogetherInv, [TogetherNext]_tablesVars
    PROVE  TogetherInv' /\ [ServedNext]_outboxVars
<1> USE DEF TogetherInv
<1>1. CASE BothNext
    BY <1>1, BothNextKeeps
<1>2. CASE OwnersStep /\ UNCHANGED <<deliveryVars, sweepVars>>
    BY <1>2, OwnersStepIsAMethod, MethodKeepsTheRest, OwnersKeepRecovery DEF ServedNext
<1>3. CASE UNCHANGED tablesVars
  <2>1. UNCHANGED storeVars /\ UNCHANGED deliveryVars /\ UNCHANGED recoveryVars
    BY <1>3 DEF tablesVars, recoveryVars
  <2> QED
    BY <2>1, MethodKeepsTheRest, RecoveryInvNext DEF outboxVars
<1> QED
    BY <1>1, <1>2, <1>3 DEF TogetherNext

LEMMA TogetherInvInit == OutboxInit /\ RecoveryInit => TogetherInv
BY OutboxInvInit, RecoveryInvInit, InitBlankInv, InitEventInv
   DEF OutboxInit, TogetherInv, RefineInv

LEMMA TogetherAlways == TogetherSpec => []TogetherInv
BY TogetherInvInit, TogetherNextKeeps, PTL DEF TogetherSpec

-----------------------------------------------------------------------------
(* What they keep together *)

\* Sweeps, owners and carriers are callers as delivery's theorems allow them; so with all
\* of them at work every delivery is sent by one worker, settled truthfully and for good,
\* and every call keeps the repository's promise.
THEOREM DeliveryHoldsTogether ==
    TogetherSpec => /\ []AttemptHasOneSender /\ []DeliveredMeansAcknowledged
                    /\ []WebhookStatusAgrees /\ OnlyTheOperatorReopens
                    /\ []AtMostOneEventOfAKind /\ []OutcomeIsPublished
                    /\ OnlyTheCurrentGenerationWrites /\ FinishedIsFinal /\ ImplementsOutcome
<1>1. TogetherSpec => ServedSpec
    BY TogetherInvInit, TogetherNextKeeps, PTL DEF TogetherSpec, ServedSpec
<1> QED
    BY <1>1, DeliveryAmongAnyCallers, ServedCallsKeepThePromise

\* A step of the owners or of delivery makes no sweep the owner of a new generation.
LEMMA TogetherTakesLate ==
    ASSUME TogetherInv, [TogetherNext]_tablesVars
    PROVE  TakenWithin(TicksPerSecond)
<1>0. OutboxInv /\ RecoveryInv /\ RefineInv /\ TypeOK /\ calls \in [Calls -> CallRow]
    BY DEF TogetherInv, OutboxInv, OutboxTypeOK, TypeOK
<1>1. CASE [RecoveryNext]_recoveryVars
    BY <1>0, <1>1, TakeOverIsLate
<1>2. CASE \A c \in Calls : RowAsBefore(c)
  <2>1. ASSUME NEW c \in Calls, calls'[c].gen > calls[c].gen PROVE FALSE
    <3>1. calls[c].gen \in Nat /\ calls'[c].gen = calls[c].gen
      BY <1>0, <1>2, CallStoreAssumption DEF CallRow, RowAsBefore
    <3> QED
      BY <2>1, <3>1
  <2> QED
    BY <2>1 DEF TakenWithin
<1>3. CASE OwnersStep
  <2>1. ASSUME NEW c \in Calls, calls'[c].gen > calls[c].gen PROVE calls'[c].owner \in Workers
    <3>1. calls[c].gen \in Nat
      BY <1>0, CallStoreAssumption DEF CallRow
    <3>2. ~RowAsBefore(c)
      BY <2>1, <3>1 DEF RowAsBefore
    <3> QED
      BY <1>0, <1>3, <3>2, OwnersRows DEF RowBegins, RowHandedOn, RowEndedByWorker
  <2> QED
    BY <2>1 DEF TakenWithin, Workers
<1>4. CASE DeliveryNext
  <2>1. UNCHANGED storeVars => \A c \in Calls : RowAsBefore(c)
    BY DEF storeVars, RowAsBefore
  <2>2. OnlyDelivers => \A c \in Calls : RowAsBefore(c)
    BY <1>0 DEF OnlyDelivers, RowAsBefore, CallRow
  <2>3. \A c \in Calls : RowAsBefore(c)
    BY <1>0, <1>4, <2>1, <2>2, DeliveryOnlyDelivers
  <2> QED
    BY <1>2, <2>3
<1>5. CASE UNCHANGED tablesVars
    BY <1>1, <1>5 DEF tablesVars, recoveryVars
<1> QED
    BY <1>1, <1>3, <1>4, <1>5 DEF TogetherNext, BothNext

\* With deliveries made, owners writing and recordings announced beside them, sweeps invent
\* no success, end a call as its quiet last report says, and take over no call whose lease
\* reaches more than a second beyond the start of their pass.
THEOREM RecoveryHoldsTogether ==
    TogetherSpec => /\ []SuccessIsNeverInvented /\ []QuietReportDecides
                    /\ [][TakenWithin(TicksPerSecond)]_recoveryVars
<1>1. TogetherInv => SuccessIsNeverInvented /\ QuietReportDecides
    BY DEF TogetherInv, RecoveryInv, SuccessInv, QuietInv
<1>2. TogetherInv /\ [TogetherNext]_tablesVars => [TakenWithin(TicksPerSecond)]_recoveryVars
    BY TogetherTakesLate
<1> QED
    BY <1>1, <1>2, TogetherAlways, PTL DEF TogetherSpec

-----------------------------------------------------------------------------
(* The specification of run `durable` *)

\* Where only delivery moves its callers may own calls as sweepers do not: there the sweeps
\* stand still, and have their types.
DurableInv ==
    /\ OutboxInv /\ RefineInv /\ HostInv /\ RecoveryTypeOK
    /\ focus # "outbox" => RecoveryInv

LEMMA DurableInvInit == DurableInit => DurableInv /\ OutboxInit /\ HostInit
BY TogetherInvInit, InitHostInv DEF DurableInit, DurableInv, TogetherInv, RecoveryInv

LEMMA DurableStep ==
    ASSUME DurableInv, [DurableNext]_durableVars
    PROVE  DurableInv' /\ [ServedNext]_outboxVars /\ [HostNext]_hostVars
<1> USE DEF DurableInv
<1>0. TogetherInv \/ focus = "outbox"
    BY DEF TogetherInv
<1>1. [HostNext]_hostVars /\ HostInv'
  <2>1. [HostNext]_hostVars
    BY DEF DurableNext, durableVars
  <2> QED
    BY <2>1, HostInvNext
<1>2. focus' = focus
    BY DEF DurableNext, durableVars
<1>3. CASE focus = "outbox" /\ [OutboxNext]_outboxVars /\ UNCHANGED sweepVars
  <2>1. [ServedNext]_outboxVars /\ OutboxInv' /\ RefineInv'
    BY <1>3, OutboxStepIsServed, ServedInvNext, ServedKeepsRefineInv
  <2>2. RecoveryTypeOK'
    BY <1>3, <2>1 DEF RecoveryTypeOK, OutboxInv, OutboxTypeOK, sweepVars
  <2> QED
    BY <1>1, <1>2, <1>3, <2>1, <2>2
<1>4. CASE TogetherInv /\ [BothNext]_tablesVars
  <2>1. TogetherInv' /\ [ServedNext]_outboxVars
    BY <1>4, TogetherNextKeeps DEF TogetherNext
  <2> QED
    BY <1>1, <2>1 DEF TogetherInv, RecoveryInv
<1>5. \/ focus = "outbox" /\ [OutboxNext]_outboxVars /\ UNCHANGED sweepVars
      \/ focus # "outbox" /\ [BothNext]_tablesVars
    BY DEF DurableNext, durableVars, outboxVars, tablesVars, BothNext
<1> QED
    BY <1>0, <1>3, <1>4, <1>5

LEMMA DurableAlways == DurableSpec => []DurableInv
BY DurableInvInit, DurableStep, PTL DEF DurableSpec

\* The types of the repository, of delivery, of recovery and of the host.
THEOREM DurableTypeCorrect == DurableSpec => []DurableTypeOK
<1>1. DurableInv => DurableTypeOK
    BY DEF DurableInv, DurableTypeOK, OutboxInv, HostInv
<1> QED
    BY <1>1, DurableAlways, PTL

\* In the run, too, everybody is a caller as delivery's theorems allow them, and the host is
\* the host of its own specification: what those promise holds of it.
THEOREM DurableImplementsItsParts == DurableSpec => ServedSpec /\ HostSpec
BY DurableInvInit, DurableStep, PTL DEF DurableSpec, ServedSpec, HostSpec

\* Where sweeps move, alone or beside delivery, they invent no success and end a call as
\* its quiet last report says.
THEOREM DurableRecoveryHolds ==
    DurableSpec => [](focus # "outbox" => SuccessIsNeverInvented /\ QuietReportDecides)
<1>1. DurableInv => (focus # "outbox" => SuccessIsNeverInvented /\ QuietReportDecides)
    BY DEF DurableInv, RecoveryInv, SuccessInv, QuietInv
<1> QED
    BY <1>1, DurableAlways, PTL
===============================================================================
