# A TLA+ model of voicey

voicey runs voice agents on two runtimes (Pipecat and LiveKit), answers and
places calls through four carriers, and makes one promise for every call:
"Exactly one terminal event is persisted once, then delivery is attempted until
the receiver acknowledges it or the delivery is visibly dead-lettered"
(`docs/results-webhooks.md`). This directory states that promise, and what the
code relies on to keep it, as TLA+ modules translated from `src/src/voicey/`
and `src/playground-web/src/`, checked with TLC on small instances; the safety
properties of every component are proved with TLAPS, for instances of any size.

## The system

| Part | State it keeps | Operations | Talks to |
|---|---|---|---|
| Results repository, `storage/`, `obs/records.py` | calls, leases (owner, generation, expiry), transcript, events, deliveries (outbox), recordings, backups, purge queue | begin, renew, handoff, takeover, flush, observe, terminalize, recording ready/failed, claim/acknowledge/fail/redeliver, retention | everybody, one transaction per method |
| Delivery worker, `results/delivery.py` | the claims of its pass | claim a batch, POST each, settle each | repository, the receiver's endpoint |
| Stale-call recovery, `results/recovery.py` | none between passes | list stale, take over, reconcile, terminalize | repository |
| Recordings and retention, `results/recording.py`, `storage/artifacts.py` | artifact files, purge queue | download then mark ready; queue then delete then acknowledge | repository, carriers |
| Pipecat host and lifecycle, `runtimes/pipecat/` | admission slots; the tables of calls that wait for media and of sessions; one lease, heartbeat task and finish lock per call | reserve, begin, claim, expire, start, end, finish, fail, reload, drain | repository or relay client, carriers, browsers |
| LiveKit lifecycle and SIP, `runtimes/livekit/` | the same per job; trunks and dispatch rules | begin, finish; reconcile SIP resources | repository or relay client, LiveKit server |
| Results relay, `relay/` | client: sequence, pending update and lock per call; service: nonces, idempotency keys, update journal, drain flag | begin, claim, update, apply, drain | repository over signed HTTP |
| Telephony, `telephony/` | the ledger: route tokens, outbound intents, provisioning, warm transfers | point and restore, place and reconcile, transfer, callbacks | carriers, the host's sessions |
| Tools, `tools/` | running executions, deadlines | execute, time out | user code, HTTP |
| Playground server, `playground/` | the table of browser sessions, in memory | issue, authorize, bind, cancel, release, snapshot | host, repository |
| Playground page, `playground-web/src/` | session, phase, snapshot, live turns; a poll loop; a media connection | begin, poll, connect, end | playground server, host or LiveKit room |
| Tunnel, `tunnel/` | a child process | start, probe, stop | host |
| Deployment and CLI, `deploy/`, `cli/` | checkpoints, manifests, supervised processes | deploy, roll back, dev, wizard | cloud APIs |

Everything that survives a process is in the repository, so its methods are the
shared state of the system: workers, the sweeper, carrier callbacks, the relay
service, the delivery worker and the operator's CLI only meet there. Hence the
core of the project is `CallStore`.

What is hard here, and what the properties are aimed at:

* a process that lost its call and does not know it (a paused worker, a lease
  kept across a handoff, a late carrier callback): fencing;
* a crash or an exception between two transactions of one pass (claim, POST,
  acknowledge; take over, reconcile, end the call);
* messages that time out after they were applied (relay updates, webhook POSTs,
  carrier mutations), then retried;
* two facts that must appear together (outcome, event and outbox row) and one
  that must come later (recording ready);
* limits: leases, the retry schedule, admission slots, browser sessions, retention;
* callbacks of what was already left: a poll, a room or a click of the last session
  that comes in after the next one began.

Each is listed with its source line in `PROJECT.json` under `hazards`.

## Modules

| Module | Models | Kind |
|---|---|---|
| `IsoTime` | `_iso` and SQL's comparison of two stored timestamps | operators |
| `CallOutcome` | what the repository promises about a call | abstract specification |
| `CallStore` | the repository's call, lease, event and recording methods | state machine, refines `CallOutcome` |
| `Outbox` | `DeliveryWorker`, the outbox methods, the loops that run it, redelivery | state machine over `CallStore` |
| `Recovery` | `RecoveryCoordinator` passes, its reconciler, carrier reports and the calls' workers | state machine over `CallStore` |
| `Relay` | `RelayClient` with its priority lock, the relay service's handlers, `RelayJournal` | state machine over `CallStore` |
| `Routes` | temporary routing of a number: `point_inbound`, `restore`, table `telephony_routes` | state machine |
| `Outbound` | `start_call`, the callbacks of the calls, `reconcile_outbound`, table `telephony_intents` | state machine |
| `WarmTransfer` | the session's waiter, the adapter's warm-transfer operations, its three callback routes and startup recovery | state machine |
| `PipecatHost` | `AdmissionController`, `PipecatLifecycleManager`, the tables, reload and drain of `PipecatHost`, how a session ends | state machine |
| `Playground` | the page's `App`, `useSessionPoll`, both media components, `SessionTokenManager` and the playground's routes | state machine |
| `CallStoreProofs`, `OutboxProofs`, `RecoveryProofs`, `RelayProofs`, `PipecatHostProofs`, `PlaygroundProofs` | the theorems about the module each is named after; `RelayProofs` also about the relay beside delivery, `PlaygroundProofs` about `MCLive` | proofs |
| `TelephonyProofs` | the theorems about `Routes`, `Outbound` and `WarmTransfer` | proofs |
| `DurableProofs` | the theorems about delivery and recovery on one repository, and about `MCDurable` | proofs |
| `MCDurable` | delivery, recovery, the two together, the host: one of the four in each behaviour (`focus`) | composition |
| `MCLive`, `MCLiveness` | parts that share no state, one at a time (`focus`) | compositions |
| other `MC*` | model values, delays and symmetry for TLC | instances |

### CallStore

One record per row of `calls`; the recording row is reduced to its status;
`callEvents` and `deliveries` map an event id to its row (there is one endpoint
per call, so one delivery per event). `leases` is the set of every lease the
repository has handed out: the specification lets any caller use any of them at
any time, so a stalled worker, a sweeper and a relay need no model of their own
here. A method the code refuses changes nothing and is a stutter, so it is not an
action. A caller reads the clock before it waits for the writer lock;
`ClockReadings` are readings up to `MaxLag` ticks old.

Abstracted: payload text, phone numbers and configuration; a result snapshot is
a model value tagged with the generation that flushed it, and a row carries the
generation of the lease that last wrote it (`by`): both are history, for
`OnlyTheCurrentGenerationWrites`. An event body is what the properties read of it. `append_timeline`, `record_tool_call` and
`record_latency` are the same insert as `append_transcript`.

`CallOutcome` is the same call without leases, clocks, outbox or recordings:
open, change owner, collect, close once, announce the recording once. `CallStore`
implements it under the mapping at the end of the module (`ImplementsOutcome`).

### Outbox

`worker` state is the claims of a pass not yet tried and the attempt posted but
not yet settled. Claim, POST and settle are separate steps, as they are separate
transactions and a request in the code. A claim that was lost raises out of
`run_once`: the companion's loop logs it and goes on, the container's
`_delivery_loop` does not catch it and its process ends (`ContainerWorkers`), to
be restarted by the compose file's restart policy. A success is a 2xx answer that
came back; every other end of a POST looks the same to the worker. Only the call
methods that insert events appear in `CallStep`; the others write nothing the
outbox reads.

### Recovery

A pass lists the stale calls once, with one clock reading, and then takes four
transactions per call: take over, read the provider state, write the verdict
back, terminalize. Each is an action; an exception or a crash can end any of them
(`Defer`, `SweeperDies`). The calls' own workers renew and end their calls until
`WorkersDie`; carrier callbacks report at any time. `heard` remembers the last
report of an active call, for the properties only. The reconciler in the source
never answers "active", so that branch of the pass is not reachable and left out.

### Relay

`Commands` are the method calls of a worker's tasks, with the order the worker
makes them in; the MC module lists them. A client sends one sequenced request per
call under the priority lock (`Acquire`, `Send`, `HolderEnds`), retries the same
request while attempts are left, keeps an unanswered one to replay it before the
next (`SameOperation` tells whether its answer is the caller's own), and asks for
leases outside the sequence. A handler's steps are the transactions of the source
in their order: reserve in the journal, check the fence, apply to the repository,
complete in the journal. A handler whose client gave up goes on, so handlers of
one request run beside each other; the service can die between any two steps.
Observations are the repository's `*_once` appends, the only ones whose
at-most-once key is in the same transaction.

Not every set of commands is one that workers make. `CommandsAssumption`: a client
asks for a call's lease once, flushes and ends a call once, and an observation's
payload names it. `HandoffAssumption`: a reservation is handed on when what its owner
wrote is acknowledged, which was not the result: `reserve_web_call` awaits its writes
before it tells the job (`runtimes/livekit/host.py:367-396`). Without these,
`AcknowledgedIsDurable` is false for reasons that are the caller's: a second flush
replaces the first.

### Telephony

The three parts of the ledger share its file and its writer lock, but no rows.
Each ledger method is a transaction; the request to the carrier between two of
them is a step of the carrier, which may act on it, refuse it, or act on it long
after the sender gave up, while the sender hears an answer or nothing usable.

`Routes`: `route` is the number's settings at the carrier; a token's applied
settings are identified with the token (its session's own URL). `Outbound`: all
intents dial one pair of numbers within the window of `reconcile_outbound`.
`Dialers` are executions of the command; the host handles one callback at a time,
as the route calls the adapter on the event loop. `WarmTransfer`: one transfer;
one digit, status and conference callback each can be in a handler thread at a
time, while the waiter is at any of its awaits. The waiter's cancellation leaves
the thread of its ledger or carrier call running. A conference is a new one when
it was empty, which is how a transfer meets a second conference id.

### PipecatHost

Everything runs on one event loop, so an action is the code between two awaits.
`reserve_call` alone keeps the state lock across awaits (`Acquire`, then
`BeginLifecycle`, `BeginFails` or `ActivateFails`); every other section under the
lock is one action with the guard `LockFree`. `handler` says where the task stands
that took a call out of `_pending`: the media socket, the expiry, a provider event or
a forced drain, of which the table lets only one have it. A browser's offer reads the
table first and claims later, so one that comes too late goes on to fail a lifecycle
that is another's (`offer`). The `finally` of `finish`, the socket's `except` and
`finally` and the two `_mark_idle_if_empty` calls are where the code has them
(`FinishReleases`, `FinishReturns`, `FinishFails`, `NoteFails`). The store's row has
the three states a host can tell apart, and `RecoveryEnds` is what `Recovery` does to a
call whose lease is no longer renewed, where a companion runs over the host's database:
neither `voicey dev` nor the container runs a `RecoveryCoordinator`. An answer webhook can come twice, as carriers
repeat them; a reservation's slot is named by the answer that took it. `_web_sessions`
and the counters of `DrainReport` but `remaining_calls` are left out.

### Playground

One page, its clicks on "Start talking" numbered, and the server it talks to. A
browser callback is one action, with the state it sets and the effects React runs for
it (`Render`, `PollEffect`): a component that goes is cleaned up in the same step. A
poll loop is a member of `loops` with the place where it stands; a request that was
aborted is served all the same. `media` follows a component's connection, with what
goes on after the component is gone. A LiveKit `connect()` looks at the abort signal
once, after the exchange ("aborted"); one that waits for the audio or the microphone
runs on after the cleanup ("abandoned") and may turn the microphone on in a room that
was left ("orphaned"). A Pipecat client calls back until it is closed ("closing"): it
sets the phase, whatever session the page has, and can so bring a component back; a
second client of one session shares the entry of the first. An error closes nothing by
itself: the phase it sets unmounts the component, and the cleanup leaves the room. The
four phases are those the page acts on: connecting and listening are "live", ended and
error are "over". The server is the token table, the route that issues a session for a reserved call, the
exchange (Pipecat's first offer or LiveKit's token, which is served although the page
gave it up, and binds although the call is over), the snapshot, and a restart that
forgets the table and may serve an agent of the other runtime. Time is only which
tokens have expired. Abstracted: the feed of events, latency, models, layout.

## Runs

| Run | Instance | Shows |
|---|---|---|
| `call_store` | 1 call, 2 owners, 2 events, 2 results, lease 2 ticks, 3 generations | the repository's promises |
| `takeover_early` | the same | a takeover before the lease expires (see Findings) |
| `durable` | delivery: 2 workers (one in a container), a recorded call with 2 events, 2 attempts, claims of 1 tick, a crash, a reset; recovery: 1 call, 2 sweepers, 4 provider states, 2 reports, a fault; delivery and recovery together: the same with one crash, fault, reset or report; host: a phone and a browser call for 1 slot, 2 answers, a reload, a failed write, a drain | what stands behind a call |
| `liveness` | the same with 1 worker, 1 sweeper, 1 answer per call and no reload; the page with 1 session, a restart, either runtime | everything that must happen does |
| `report_lost` | 1 call, 1 sweeper, 2 reports, a fault | a report is overwritten (see Findings) |
| `live` | telephony: 2 tokens, 2 restorers and a change by others; 2 intents, 2 dialers, 2 calls; a warm transfer with a crash. The page: 2 sessions, 1 of them active at a time, either runtime | the ways a call comes in |
| `relay` | a reserved call claimed, observed twice and ended by another client; 2 attempts, 2 mishaps | sequence, at-most-once, durability |
| `relay_heartbeat` | two renewals beside a flush; 2 attempts, 2 mishaps | every client method returns; leases are not shortened |
| `relay_reordered` | two renewals | a late duplicate shortens a lease (see Findings) |
| `start_unclear` | 2 intents, 2 dialers, 2 calls | `start_call` loses a race with a callback (see Findings) |
| `playground_slots` | the page with 1 LiveKit session | a slot is not given back (see Findings) |
| `host_abandoned` | a phone and a browser call, a failed write | a call that nobody ends (see Findings) |

Bounds. One call is enough: no method reads two calls' rows, except the sweep and
the claim batch, which treat rows independently; the outbox has two events to
compare. Three generations let an owner lose a call and get it back. Two ticks
to a second make a fraction possible. A schedule of two attempts has a first,
a retry and a last; its length and delays are constants. `Horizon` cuts due times
to the last instant, so that a delay can always elapse within the bound. Two
sweepers are enough for one to overtake the other between two transactions.
Two attempts give a request one retry, two mishaps a timed-out attempt whose
handler then dies, or a cancellation and a timeout. `durable`, `live` and
`liveness` choose in their initial states which part a behaviour exercises (`focus`),
so that the parts' state spaces add up instead of multiplying. Nothing is lost where the
parts share no variable. Delivery and recovery share the repository: `durable` also lets
them move together (`focus = "both"`), with the clock of delivery (`DeliveryTime`) and at
most `MaxIncidents` crashes, faults, resets and calls reported on between them
(`FewIncidents`); one is enough to make a pass fail, a claim lapse or a verdict change
beside the other part, and the theorems of `DurableProofs` have no such bound. A phone call and a browser call for one slot give a host
every kind of end and a refused admission; a second answer gives it the repeated
webhook; one failed write can hit any of its steps. Two sessions give the page a
predecessor whose callbacks come late. The restart is left to `liveness`: what it does
to the page, a request or a poll that fails and an exchange that is never answered, can
happen in `live` without it.

Properties of `call_store`: `TypeOK`; `AtMostOneEventOfAKind`;
`OutcomeIsPublished` (status, event and outbox row agree); `OneOwnerPerGeneration`;
`OnlyTheCurrentGenerationWrites`; `FinishedIsFinal`; `ImplementsOutcome`. Of
`durable`: `DurableTypeOK`; `DeliveredMeansAcknowledged`, `AttemptHasOneSender`,
`WebhookStatusAgrees` and `OnlyTheOperatorReopens` (delivery); `SuccessIsNeverInvented`,
`QuietReportDecides` and `RenewedSinceListingIsLeftAlone` (recovery);
`LiveCallsKeepTheirSlot`, `SlotsComeBack` and `DrainedMeansQuiet` (host). Of `liveness`:
`DeliveriesSettle`, `RecoveryEndsCalls`, `HostedCallsEnd`, `TerminalShownBeforeExpiry`.
Of `live`: `LiveTypeOK`; `NumberIsRecoverable` (routes); `OneCallPerIntent` (intents);
`CallerMovesOnlyAfterAcceptance`, `DecisionsAreFinal`, `RecoveredLegsAreOver`,
`ConnectedPartiesAreNeverCut` and `TransferredMeansMoved` (warm transfers);
`PollFollowsSession`, `SnapshotsAreOfTheSession`, `NoOrphanRoom` and
`TranscriptIsOfThisRun` (page). Of `relay`: `StreamIsGapFree`;
`ObservationsAreStoredOnce`; `AcknowledgedIsDurable`; `ClientInStepWithJournal`. Of
`relay_heartbeat`: `OnlyLateDuplicatesReorder`, `EveryCallReturns`.

What the properties except. `LiveCallsKeepTheirSlot` and `DrainedMeansQuiet` except a
call whose answer webhook was processed again after the call left the table of waiting
calls: `acquire` returns the slot the call has, `begin_call` refuses the second row, and
`begin` then releases that slot, under the live call. `SlotsComeBack` excepts a call
whose last write failed: `finish` releases the slot only after it stored the event.
`HostedCallsEnd` excepts a call whose last task gave up because a write of it failed: the
last one (`stuck`), or a note (`abandoned`, the finding `host_abandoned`). The hosts of
`voicey dev` and of the container run no recovery, so such a call stays active.
`TransferredMeansMoved` excepts a cancelled waiter. `TranscriptIsOfThisRun` is stated for LiveKit: a
Pipecat client that is still closing adds its turns to the next run. `NoOrphanRoom` is
about the rooms that are joined; what `connect()` does with the microphone after its room was left is described under
Findings. It is stated for LiveKit: whether a Pipecat client that
`PipecatAppBase` creates after its cleanup keeps the microphone is the library's matter.

Fairness. `liveness` assumes, in the behaviours that exercise a part, that part's
fairness. Delivery: weak fairness of time, of the worker's steps (the loops run a pass
every second, and the HTTP client's timeout ends every POST) and of the restart; one
worker, as the container and the companion run one (with two, a POST slower than the
claim's time to live lets each take the other's row for as long as that lasts); its
clock stops at the bound, which is also the horizon of due times. Recovery: weak
fairness of time and of the sweeper's next transaction, as the maintenance loop starts
a pass every interval and catches what a pass raises. Host: weak fairness of a
reservation under way and of each call's own tasks, since a waiting
call is claimed or expires, a session ends by its duration limit at the latest, and the
store answers; no carrier need report, nobody need drain, and nothing need recover a call. Page: weak fairness of
requests, of timers and of the end of a call; strong fairness of a poll's being served and heard,
which says that polls do not fail for ever, and nothing makes the user click, the
connection come up or the token expire. `relay_heartbeat`
assumes that a free lock wakes its waiters, that an attempt ends in an answer or
a timeout, and that the service's event loop runs its handlers.

Deadlock checking is off where the clock or a bound stops the model.

Every property has a mutant: a plausible wrong version of one definition, kept
beside it in the module, under which the run fails.

## Proofs

Every safety property of the passing runs is a theorem:
it holds for every value of the constants that satisfies the assumptions its module
names, which are those TLC evaluates on the runs. Each component has one inductive invariant, checked with TLC
before it was proved. A proof is `Init => Inv` and `Inv /\ [Next]_vars => Inv'`, one
step per action over lemmas about what actions have in common; an action property
then follows from `Inv` and one step.

**Repository** (`CallStoreProofs`). The proofs are of `MethodSpec`, whose steps are the
repository's methods with any lease it has handed out and any clock reading, so that
components above it inherit them; `Spec` is such a caller.

* `TypeCorrect`, `FencingHolds`. `FenceInv` adds `TypeOK`: a grant makes a generation
  above every lease of its call, and every other method keeps owner, generation and leases.
* `ExactlyOneTerminalEvent`, `OutcomeAlwaysPublished`. `EventInv` is the two properties
  and the types: a terminal event is only inserted for an active call, which has none.
* `WritesAreFenced` says of every method that takes a lease (renewal, flush, provider
  state, end) that it wrote under the generation of the row. It needs `BlankInv`: a row
  was last written under its generation, and one that does not exist is blank, since
  `begin_call` replaces a row and must lose nothing. `FinishedStaysFinal` needs the types.
* `RepositoryImplementsOutcome` is the refinement of `CallOutcome`, from `BlankInv` and
  `EventInv`: opening, grants, flushes, ends and recording events map to its steps,
  everything else to a stutter.

**Delivery** (`OutboxProofs`). `OutboxInv` adds to the properties that rows of the outbox
are of stored events of finished calls (`RowsInv`), that a number a worker holds was
counted in the row unless the operator has reset it (`HeldInv`, why two workers never
send the same attempt), that a success whose claim still holds was acknowledged after
the last reset (`AckInv`), and how a call's webhook status follows its rows
(`AgreesInv`). `OutboxTypeCorrect`, `AttemptsHaveOneSender`, `DeliveredIsTrue`,
`WebhookStatusIsTrue`, `SettledStaysSettled`. Like the repository's, these proofs are of
delivery among any callers (`ServedSpec`): beside the workers' steps, every step is a
method with any lease handed out and any clock reading, not only the few that
`Outbox`'s `CallStep` uses (`DeliveryAmongAnyCallers`). What makes that work is that a
method touches the outbox in one way, by inserting the event of a call that has none of
its kind (`MethodKeeps`). `ServedCallsKeepThePromise`: with delivery beside any callers
the repository still implements `CallOutcome`, since delivery changes nothing of a row
but its webhook status (`OnlyDelivers`); `DeliveredCallsKeepThePromise` is the case of
`OutboxSpec`.

**Recovery** (`RecoveryProofs`). `RecoveryInv` is `FenceInv`, `BlankInv`, the shape of a
pass (`PassInv`), that nothing is heard of a call before it begins (`HeardInv`), where a
"completed" comes from (`SuccessInv`), and what every sweep knows of a report that
nobody raced with (`QuietInv`). `RecoveryTypeCorrect`, `SuccessIsReported`,
`QuietReportsDecide`; `RecoveryUsesTheRepository` (every step is a method or a stutter),
from which `RecoveredCallsKeepThePromise`. `TakeoversAreHardlyEarly` says, for any
`TicksPerSecond`, that a takeover is less than a second early; `RenewedCallsAreLeftAlone`
assumes `TicksPerSecond = 1`, as run `durable` does: with fractions it is false, which is
the finding `takeover_early`. `RecoveryAssumption` names the provider states and reasons
of `results/recovery.py:58-91`.

**Relay** (`RelayProofs`). `RelayInv` follows a request from the command that made it
(`CommandInv`, `LockInv`), through the client's pending update (`PendingInv`) and its
attempts (`NonceInv`), to the handlers (`ArrivedInv`), the journal (`JournalInv`) and the
tables (`ObservedInv`, `EndInv`), with the leases that clients were granted (`OwnersInv`,
`LeaseInv`) and the age of requests (`AgeInv`). The proof first summarises each step as a
move of at most one stream, one handler, one journal and the tables (`SummaryHolds`), then
proves each conjunct from the summary. `RelayTypeCorrect`, `StreamHasNoGap`,
`ObservedOnce`, `AcknowledgedStays`, `ClientsStayInStep`, `LateDuplicatesOnly`;
`RelayUsesTheRepository` and `RelayedCallsKeepThePromise` as for recovery. The companion
delivers in the process that serves the relay (`relay/companion.py:122-130`,
`deploy/results_service.py:556-570`): `RelayAndDeliveryTogether` is about both at work on one repository, with no bound on
either. No conjunct of `RelayInv` reads what delivery writes (`RelayKeeps`), and the
relay is a caller as `ServedSpec` has them.

**Delivery and recovery together** (`DurableProofs`). `TogetherSpec` lets delivery, the
sweeps, the carriers and the calls' workers of `Recovery`, and besides them the methods
those modules leave out (`OwnersStep`: handoffs, takeovers by workers, flushes,
transcripts, recordings) interleave on one set of tables. Each
side is a caller to the other: a sweep's step is a method, so `OutboxInv` holds
(`MethodKeeps`); a method, or a settled delivery, moves no row in a way that
`RecoveryInv` does not allow for (`WorldKeeps`, which says what a row may do under a
sweep). `DeliveryHoldsTogether` and `RecoveryHoldsTogether` are what each promises
alone. What they leave out, and why: a renewed call is left alone only while the clock
of the texts is exact (`RenewedCallsAreLeftAlone`); here the takeover is stated to be
less than a second early, for any `TicksPerSecond`; and a sweeper's leases are used by
sweepers only, which is what the code does. Of the specification of run `durable`:
`DurableImplementsItsParts` (it is `ServedSpec` and `HostSpec`), `DurableTypeCorrect`,
`DurableRecoveryHolds`.

**Telephony** (`TelephonyProofs`). A command that has sent a request owns its intent
(`OwnerInv`) and every call at the carrier answers some command's one request
(`CallInv`): `OutboundTypeCorrect`, `IntentsAreDialledOnce`. For routing,
`NumberIsRecoverable` speaks of the least set of settings that has the number's and, with
a token's, those it saved. `SavedInv` says that a token is in the ledger before its
settings can be the number's or be saved by another, so that the one step that saves
cannot close a circle (`NoCircle`): `RoutesTypeCorrect`, `NumbersStayRecoverable`. Of a
warm transfer, `WarmInv` says what reports can exist (`ReportInv`), what a handler can have read
(`HandlerInv`), what the waiter has done where it stands (`WaiterInv`), and what a moved
caller, a created human call and a recovery under way imply (`MoveInv`, `DialInv`,
`RecoverInv`): `WarmTypeCorrect`, `CallerWaitsForAcceptance`, `RecoveryHangsUp`,
`TransferredIsTrue`, `DecisionsStayFinal`, `PartiesStayConnected`.

**Host** (`PipecatHostProofs`). `HostInv` is the order of a call's stages (`StageInv`), whose
slot a call has (`SlotInv`), and what a drain leaves (`DrainInv`): `HostTypeCorrect`,
`LiveCallsHoldSlots`, `SlotsAreReturned`, `DrainIsQuiet`, and `LiveCallsAreLimited`, that
calls with one answer never exceed `limits.max_concurrent`, for which the calls are
assumed to be finitely many.

**Page** (`PlaygroundProofs`). `PageInv` is that whatever connection is open or being
opened, an exchange too, is the mounted component's (`OpenIsMounted`, of which
`NoOrphanRoom` is the part about rooms: an exchange that outlived its component would
join one), that the page has at most
one live poll loop, of its own session (`PollInv`), and that what it shows came since the
last click (`ShownInv`): `PlaygroundTypeCorrect`, `NoRoomIsOrphaned`,
`PollAlwaysFollows`, `TranscriptIsOfTheRun`, `SnapshotsStayCurrent`. Of the specification
of run `live`: it implements those of its four parts (`LiveImplementsItsParts`), hence
`LiveTypeCorrect`.

Only model-checked: liveness (`DeliveriesSettle`, `RecoveryEndsCalls`, `HostedCallsEnd`,
`TerminalShownBeforeExpiry`, `EveryCallReturns`), which is out of the prover's reach. Only
proved: the relay beside delivery, whose product of states TLC does not reach.

## Findings

* `takeover_early`: `_iso` drops a zero fraction, so `...:01Z` sorts after
  `...:01.5Z`. At the first instant of a second a lease that ends later in that
  second is already "expired" for `takeover_expired_call`, and a lease that ends
  at a whole second is expired up to a second late. Takeover can come before the
  owner's lease ends; fencing still holds, since the generation grows.
  SQLite only: Postgres compares native timestamps.

* `report_lost`: a sweep reads the provider state, judges, and writes its verdict
  over whatever is stored by then. A `completed` report that arrives in between is
  overwritten with `unknown`; if the pass then fails, the next one ends the call
  as `recovery_unknown`, although the docs say that recovery "reconciles the latest
  signed provider observation". `QuietReportDecides` is what does hold.
* `relay_reordered`: the handler of an attempt that timed out can apply its
  renewal after the retry, and a newer renewal, were acknowledged: the lease goes
  back to the older end. `OnlyLateDuplicatesReorder` is what does hold.
* `start_unclear`: when the host's status callback binds a call before `start_call`
  writes the create response, `start_call` fails with VY-TEL-007, which
  `docs/errors.md` explains as an ambiguous outcome; the call is running and bound.
* `playground_slots`: a bound browser session leaves the active ones when its snapshot is
  polled after the call ended, or when a Pipecat session's task ends. A LiveKit session
  whose page stopped polling (closed, or the token expired) keeps its slot, and
  `VY-WEB-003` asks the user to end a session that has ended (`docs/playground.md`).
* `host_abandoned`: `_activate` starts the heartbeat and then writes a note; `fail_setup`
  writes a note and then calls `finish`. When the note fails, the lease is renewed by a
  heartbeat that nobody stops, so recovery never takes the call, until its process ends;
  "every started call reaches exactly one readable terminal event"
  (`docs/hardening.md`). `HostedCallsEnd` is what does hold: the calls none of whose
  writes failed end.

Known and not yet stated as runs of their own (each is in `PROJECT.json` under
`hazards`): `restore` overwrites a change made between its comparison and its
update; a cancelled warm-transfer waiter leaves the human's call to itself and the
reason `transferred` in the session; a definitive refusal to move the caller leaves
the accepted human in the conference. A LiveKit component that goes while
`room.startAudio()` or the request for the microphone is pending leaves its room, and
`connect()` then turns the microphone on in it, since it looks at the signal after the
exchange only (`LiveKitSession.tsx:119-125`, `AbandonedConnectReturns`). The build's
livekit-client captures it, waits 15 s for the room to come back and stops the track;
`LiveKitSession.test.tsx:134` wants the microphone off after "End session", and tries
it after the connection is complete.

## Plan

Done: the repository, delivery, recovery, the relay, the telephony ledger with
Twilio's operations, the Pipecat host, the playground and its page; proofs of each, and
of delivery beside recovery and beside the relay. Left, in this order:

1. The LiveKit lifecycle, whose reservation is claimed in another process
   (`claim_reserved`), beside `PipecatHost`.
2. `Provisioning`: the provisioning table and the SIP resources of the LiveKit
   paths, one sequence of resources per carrier, with reverse rollback; the other
   carriers' routing and outbound differences.
3. `Deploy`: checkpointed creation, resume and rollback in the cloud drivers;
   secrets and cutover.
4. `Retention`: retention, artifacts and recordings over `Outbox`.
5. `ToolExecution`, dev supervision, the tunnel's child process.

Not modelled, and why: cryptography and signing (callers are taken as verified),
logging, metrics and spans, configuration validation, scaffolding and prompts,
release and packaging scripts (no interacting state), and the bundled front end in
`_frontend/assets`, which is generated from the page that `Playground` models, with its
libraries.
