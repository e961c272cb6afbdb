------------------------------- MODULE Recovery -------------------------------
(***************************************************************************)
(* Stale-call recovery: RecoveryCoordinator passes, with the reconciler    *)
(* that reads the last provider observation, against the calls' own        *)
(* workers and against carrier callbacks.                                  *)
(*                                                                         *)
(* A pass lists the stale calls once and then takes, call by call, four    *)
(* transactions: take over, read the provider state, write the verdict     *)
(* back, terminalize.  Anything can happen between two of them, and an     *)
(* exception in any of them defers the call to a later pass.               *)
(***************************************************************************)
EXTENDS CallStore

CONSTANTS
    Sweepers,           \* owner ids of recovery coordinators
    CompletedStates, FailedStates,  \* the reconciler's _COMPLETED and _FAILED
    MaxFaults,          \* bound: exceptions and crashes of passes
    MaxReports          \* bound: carrier reports on one call

ASSUME RecoveryAssumption ==
    /\ Sweepers \subseteq Owners
    /\ CompletedStates \cup FailedStates \subseteq ProviderStates
    /\ CompletedStates \cap FailedStates = {}
    /\ "completed" \in CompletedStates /\ "failed" \in FailedStates
    /\ "unknown" \in ProviderStates \ (CompletedStates \cup FailedStates)
    /\ "none" \notin ProviderStates      \* SQL NULL
    /\ "provider_hangup" \in CompletedReasons
    /\ {"provider_error", "recovery_unknown"} \subseteq FailedReasons
    /\ MaxFaults \in Nat /\ MaxReports \in Nat

VARIABLES
    pass,       \* per sweeper: its pass
    workersUp,  \* the calls' own workers still run
    heard,      \* per call: the carrier's last report while the call was active
    faults      \* exceptions and crashes so far

sweepVars == <<pass, workersUp, heard, faults>>

recoveryVars == <<storeVars, sweepVars>>

NoLease == [call |-> "none"]

IdlePass == [phase |-> "idle", at |-> NoTime, todo |-> {}, lease |-> NoLease,
             verdict |-> "none"]

\* A report, the generation it fell in, whether it fell between a sweep's reading
\* and its writing back, and whether the carrier ever reported the call completed.
NothingHeard == [state |-> "none", gen |-> 0, raced |-> FALSE,
                 everCompleted |-> FALSE, reports |-> 0]

Workers == Owners \ Sweepers

-----------------------------------------------------------------------------
(* The reconciler *)

\* A reconciler that takes anything but a failure for a success.
VerdictOptimistic(state) == IF state \in FailedStates THEN "failed" ELSE "completed"

\* A reconciler that only knows the completed states.
VerdictWithoutFailures(state) ==
    IF state \in CompletedStates THEN "completed" ELSE "unknown"

\* DurableProviderObservationReconciler: silence and non-terminal states are unknown.
Verdict(state) ==
    CASE state \in CompletedStates -> "completed"
      [] state \in FailedStates -> "failed"
      [] OTHER -> "unknown"

ReasonFor(verdict) ==
    CASE verdict = "completed" -> "provider_hangup"
      [] verdict = "failed" -> "provider_error"
      [] OTHER -> "recovery_unknown"

-----------------------------------------------------------------------------
(* One pass of a sweeper *)

\* list_stale_calls
Stale(t) == {c \in Calls : Active(c) /\ LeaseLapsed(c, t)}

StartPass(s) ==
    /\ pass[s].phase = "idle" /\ Stale(now) # {}
    /\ pass' = [pass EXCEPT ![s] =
         [IdlePass EXCEPT !.phase = "sweeping", !.at = now, !.todo = Stale(now)]]
    /\ UNCHANGED <<storeVars, workersUp, heard, faults>>

\* A takeover that trusts the listing.
TakeOverListed(s, c) ==
    /\ pass[s].phase = "sweeping" /\ c \in pass[s].todo
    /\ Active(c) /\ GrantNextGeneration(c, s, pass[s].at)
    /\ pass' = [pass EXCEPT ![s].phase = "owned", ![s].todo = @ \ {c},
         ![s].lease = [call |-> c, owner |-> s, gen |-> calls[c].gen + 1]]
    /\ UNCHANGED <<workersUp, heard, faults>>

\* takeover_expired_call, judged by the clock read at the start of the pass.
TakeOver(s, c) ==
    /\ pass[s].phase = "sweeping" /\ c \in pass[s].todo
    /\ TakeoverExpiredCall(c, s, pass[s].at)
    /\ pass' = [pass EXCEPT ![s].phase = "owned", ![s].todo = @ \ {c},
         ![s].lease = [call |-> c, owner |-> s, gen |-> calls[c].gen + 1]]
    /\ UNCHANGED <<workersUp, heard, faults>>

\* The takeover is refused: the call ended, or someone renewed or took it first.
FindTaken(s, c) ==
    /\ pass[s].phase = "sweeping" /\ c \in pass[s].todo
    /\ ~(Active(c) /\ LeaseLapsed(c, pass[s].at))
    /\ pass' = [pass EXCEPT ![s].todo = @ \ {c}]
    /\ UNCHANGED <<storeVars, workersUp, heard, faults>>

\* get_call and reconcile: reads, outside any transaction of the sweep.
Reconcile(s) ==
    /\ pass[s].phase = "owned"
    /\ pass' = [pass EXCEPT ![s].phase = "judged",
         ![s].verdict = Verdict(calls[pass[s].lease.call].provider)]
    /\ UNCHANGED <<storeVars, workersUp, heard, faults>>

\* update_provider_state with the verdict, over whatever the column holds now.
WriteBack(s) ==
    /\ pass[s].phase = "judged"
    /\ UpdateProviderState(pass[s].lease, pass[s].verdict)
    /\ pass' = [pass EXCEPT ![s].phase = "recorded"]
    /\ UNCHANGED <<workersUp, heard, faults>>

EndCall(s, i) ==
    /\ pass[s].phase = "recorded"
    /\ Terminalize(pass[s].lease, ReasonFor(pass[s].verdict), pass[s].verdict,
                   pass[s].at, i)
    /\ pass' = [pass EXCEPT ![s].phase = "sweeping", ![s].lease = NoLease,
                            ![s].verdict = "none"]
    /\ UNCHANGED <<workersUp, heard, faults>>

Sweeping(s) == pass[s].phase \in {"owned", "judged", "recorded"}

\* "deferred": a write is refused because the lease was lost ...
Superseded(s) ==
    /\ pass[s].phase \in {"judged", "recorded"}
    /\ ~(Holds(pass[s].lease) /\ Active(pass[s].lease.call))
    /\ pass' = [pass EXCEPT ![s].phase = "sweeping", ![s].lease = NoLease,
                            ![s].verdict = "none"]
    /\ UNCHANGED <<storeVars, workersUp, heard, faults>>

\* ... or any step raises.  The lease stays in the table until it lapses.
Defer(s) ==
    /\ Sweeping(s) /\ faults < MaxFaults
    /\ faults' = faults + 1
    /\ pass' = [pass EXCEPT ![s].phase = "sweeping", ![s].lease = NoLease,
                            ![s].verdict = "none"]
    /\ UNCHANGED <<storeVars, workersUp, heard>>

FinishPass(s) ==
    /\ pass[s].phase = "sweeping" /\ pass[s].todo = {}
    /\ pass' = [pass EXCEPT ![s] = IdlePass]
    /\ UNCHANGED <<storeVars, workersUp, heard, faults>>

\* The sweeper's process dies; the next one starts with an idle pass.
SweeperDies(s) ==
    /\ pass[s] # IdlePass /\ faults < MaxFaults
    /\ faults' = faults + 1
    /\ pass' = [pass EXCEPT ![s] = IdlePass]
    /\ UNCHANGED <<storeVars, workersUp, heard>>

SweepStep(s) ==
    \/ StartPass(s)
    \/ \E c \in Calls : TakeOver(s, c) \/ FindTaken(s, c)
    \/ Reconcile(s) \/ WriteBack(s) \/ Superseded(s)
    \/ \E i \in EventIds : EndCall(s, i)
    \/ FinishPass(s)

-----------------------------------------------------------------------------
(* The rest of the world *)

\* The calls' own workers begin, renew, flush and finish while they are up.
CallWorkerStep ==
    /\ workersUp
    /\ \/ /\ now = 0
          /\ \E c \in Calls, o \in Workers : BeginCall(c, o, FALSE, now)
       \/ \E l \in leases : l.owner \in Workers /\ RenewLease(l, now)
       \/ \E l \in leases, data \in Results : l.owner \in Workers /\ FlushResults(l, data)
       \/ \E l \in leases, reason \in CompletedReasons, i \in EventIds :
             l.owner \in Workers /\ Terminalize(l, reason, "none", now, i)
    /\ UNCHANGED sweepVars

WorkersDie ==
    /\ workersUp
    /\ workersUp' = FALSE
    /\ UNCHANGED <<storeVars, pass, heard, faults>>

\* A verified carrier status callback.
CarrierReports(c, state) ==
    /\ heard[c].reports < MaxReports
    /\ RecordProviderObservation(c, state)
    /\ heard' = [heard EXCEPT ![c] =
         [state |-> state, gen |-> calls[c].gen,
          raced |-> \E s \in Sweepers : pass[s].phase = "judged" /\ pass[s].lease.call = c,
          everCompleted |-> heard[c].everCompleted \/ state \in CompletedStates,
          reports |-> heard[c].reports + 1]]
    /\ UNCHANGED <<pass, workersUp, faults>>

RecoveryTick == Tick /\ UNCHANGED sweepVars

RecoveryInit ==
    /\ Init
    /\ pass = [s \in Sweepers |-> IdlePass]
    /\ workersUp = TRUE
    /\ heard = [c \in Calls |-> NothingHeard]
    /\ faults = 0

RecoveryNext ==
    \/ \E s \in Sweepers : SweepStep(s) \/ Defer(s) \/ SweeperDies(s)
    \/ CallWorkerStep
    \/ WorkersDie
    \/ \E c \in Calls, state \in ProviderStates : CarrierReports(c, state)
    \/ RecoveryTick

RecoverySpec == RecoveryInit /\ [][RecoveryNext]_recoveryVars

\* The maintenance loop starts a pass every interval; nothing else is promised.
RecoveryFairSpec ==
    /\ RecoverySpec
    /\ WF_recoveryVars(RecoveryTick)
    /\ \A s \in Sweepers : WF_recoveryVars(SweepStep(s))

-----------------------------------------------------------------------------
(* Properties *)

PassLease == Lease \cup {NoLease}

\* The sweepers' private state has its shape.
RecoveryTypeOK ==
    /\ TypeOK
    /\ \A s \in Sweepers :
         /\ pass[s].phase \in {"idle", "sweeping", "owned", "judged", "recorded"}
         /\ pass[s].at \in Time /\ pass[s].todo \subseteq Calls
         /\ pass[s].lease \in PassLease
         /\ pass[s].verdict \in {"none", "completed", "failed", "unknown"}
    /\ workersUp \in BOOLEAN /\ faults \in 0 .. MaxFaults

\* A pass works from a list and a clock reading of its start.  It still leaves alone
\* a call whose lease was renewed, by its worker or by another sweep, since then.
RenewedSinceListingIsLeftAlone ==
    [][\A s \in Sweepers, c \in Calls :
         calls'[c].gen > calls[c].gen /\ calls'[c].owner = s =>
           calls[c].expires <= pass[s].at]_recoveryVars

RecoveredCalls == {c \in Calls : Terminal(c) /\ calls[c].owner \in Sweepers}

\* "success is never invented": a call that recovery completed is one whose carrier
\* reported it completed.
SuccessIsNeverInvented ==
    \A c \in RecoveredCalls : calls[c].status = "completed" => heard[c].everCompleted

DecidedBy(c, state) ==
    /\ calls[c].reason = "provider_hangup" <=> state \in CompletedStates
    /\ calls[c].reason = "provider_error" <=> state \in FailedStates

\* A report stored before the takeover that ended the call decides the outcome, if
\* it did not fall between an earlier sweep's reading and writing back.
QuietReportDecides ==
    \A c \in RecoveredCalls :
       heard[c].gen < calls[c].gen /\ ~heard[c].raced => DecidedBy(c, heard[c].state)

\* "reconciles the latest signed provider observation": the last report stored
\* before the takeover that ended the call decides the outcome.
LatestReportDecides ==
    \A c \in RecoveredCalls :
       heard[c].gen < calls[c].gen => DecidedBy(c, heard[c].state)

\* Once its worker is gone no call stays active: recovery ends it, through failed
\* passes and dying sweepers.
AbandonedCallsEnd ==
    \A c \in Calls : Active(c) /\ ~workersUp ~> Terminal(c)

===============================================================================
