---------------------------- MODULE RecoveryProofs ----------------------------
(***************************************************************************)
(* Proofs about stale-call recovery: that a sweep uses the repository only *)
(* through its methods, that success is never invented, that a report the  *)
(* sweeps did not race decides the outcome, and how early a call can be    *)
(* taken over; for any sweepers, workers, carrier states and faults.       *)
(***************************************************************************)
EXTENDS Recovery, CallStoreProofs

-----------------------------------------------------------------------------
(* The inductive invariant *)

Pass ==
    [phase : {"idle", "sweeping", "owned", "judged", "recorded"}, at : Time,
     todo : SUBSET Calls, lease : PassLease,
     verdict : {"none", "completed", "failed", "unknown"}]

Report ==
    [state : ProviderStates \cup {"none"}, gen : 0 .. MaxGeneration, raced : BOOLEAN,
     everCompleted : BOOLEAN, reports : Nat]

\* The sweeps' state has its shape: they read the clock, hold leases the repository
\* gave them, and have a verdict between reading and ending.
PassInv ==
    /\ pass \in [Sweepers -> Pass]
    /\ heard \in [Calls -> Report]
    /\ \A s \in Sweepers :
         /\ pass[s].phase # "idle" => pass[s].at \in Nat
         /\ Sweeping(s) => pass[s].lease \in leases /\ pass[s].lease.owner = s
         /\ pass[s].phase \in {"judged", "recorded"} => pass[s].verdict # "none"

\* Nothing is heard of a call before it begins.
HeardInv == \A c \in Calls : calls[c].status = "absent" => heard[c] = NothingHeard

\* Completed is what the carrier once said: as the column's content, as a sweep's
\* verdict, and as the outcome.
SuccessInv ==
    /\ \A c \in Calls : calls[c].provider \in CompletedStates => heard[c].everCompleted
    /\ \A s \in Sweepers :
         pass[s].phase \in {"judged", "recorded"} /\ pass[s].verdict = "completed" =>
             heard[pass[s].lease.call].everCompleted
    /\ SuccessIsNeverInvented

\* No sweep has raced with the last report on an active call.
Quiet(c) == Active(c) /\ ~heard[c].raced

\* A sweep that has read the column found in it what the report says; one that has
\* written back as well found it if it took the call over after the report.
KnowsTheReport(s) ==
    /\ pass[s].phase = "judged" /\ Quiet(pass[s].lease.call) =>
         pass[s].verdict = Verdict(heard[pass[s].lease.call].state)
    /\ (/\ pass[s].phase = "recorded" /\ Quiet(pass[s].lease.call) /\ Holds(pass[s].lease)
        /\ heard[pass[s].lease.call].gen < calls[pass[s].lease.call].gen) =>
         pass[s].verdict = Verdict(heard[pass[s].lease.call].state)

\* Until a sweep races with it, the last report is what the column stands for, what
\* every sweep that has read it found, and what the sweep that owns the call since
\* will end it with.
QuietInv ==
    /\ \A c \in Calls : Quiet(c) => Verdict(calls[c].provider) = Verdict(heard[c].state)
    /\ \A s \in Sweepers : KnowsTheReport(s)
    /\ QuietReportDecides

\* What a pass owes to the tables it works on.
RecoveryInv ==
    /\ FenceInv /\ BlankInv /\ RecoveryTypeOK
    /\ PassInv /\ HeardInv /\ SuccessInv /\ QuietInv

-----------------------------------------------------------------------------
(* The reconciler *)

LEMMA VerdictFacts ==
    /\ \A x \in ProviderStates \cup {"none"} :
         /\ Verdict(x) \in {"completed", "failed", "unknown"}
         /\ Verdict(x) = "completed" <=> x \in CompletedStates
         /\ Verdict(x) = "failed" <=> x \in FailedStates
    /\ \A v \in {"completed", "failed", "unknown"} :
         /\ Verdict(v) = v /\ v \in ProviderStates
         /\ ReasonFor(v) \in EndedReasons
         /\ ReasonFor(v) = "provider_hangup" <=> v = "completed"
         /\ ReasonFor(v) = "provider_error" <=> v = "failed"
         /\ StatusOf(EventTypeOf(ReasonFor(v))) = "completed" <=> v = "completed"
    /\ Verdict("none") = "unknown"
<1>1. ASSUME NEW x \in ProviderStates \cup {"none"}
      PROVE  /\ Verdict(x) \in {"completed", "failed", "unknown"}
             /\ Verdict(x) = "completed" <=> x \in CompletedStates
             /\ Verdict(x) = "failed" <=> x \in FailedStates
    BY RecoveryAssumption DEF Verdict
<1>2. ASSUME NEW v \in {"completed", "failed", "unknown"}
      PROVE  Verdict(v) = v /\ v \in ProviderStates
    BY RecoveryAssumption DEF Verdict
<1>3. ASSUME NEW v \in {"completed", "failed", "unknown"}
      PROVE  /\ ReasonFor(v) \in EndedReasons
             /\ ReasonFor(v) = "provider_hangup" <=> v = "completed"
             /\ ReasonFor(v) = "provider_error" <=> v = "failed"
             /\ StatusOf(EventTypeOf(ReasonFor(v))) = "completed" <=> v = "completed"
    BY RecoveryAssumption, CallStoreAssumption DEF ReasonFor, EndedReasons, EventTypeOf, StatusOf
<1>4. Verdict("none") = "unknown"
    BY RecoveryAssumption DEF Verdict
<1> QED
    BY <1>1, <1>2, <1>3, <1>4

-----------------------------------------------------------------------------
(* A sweep, seen from the repository *)

\* What a pass works on: a lease the repository gave it, of a call that has begun.
LEMMA PassHolds ==
    ASSUME RecoveryInv, NEW s \in Sweepers, Sweeping(s)
    PROVE  /\ pass[s].lease \in leases /\ pass[s].lease \in Lease
           /\ pass[s].lease.call \in Calls /\ pass[s].lease.owner = s
           /\ pass[s].lease.gen <= calls[pass[s].lease.call].gen
           /\ pass[s].lease.gen \in Nat \ {0}
           /\ calls[pass[s].lease.call].gen \in Nat
           /\ calls[pass[s].lease.call].status # "absent"
           /\ pass[s].at \in Nat
<1>1. pass[s].lease \in leases /\ pass[s].lease.owner = s /\ pass[s].at \in Nat
    BY DEF RecoveryInv, PassInv, Sweeping
<1>2. leases \subseteq Lease /\ calls \in [Calls -> CallRow]
    BY DEF RecoveryInv, FenceInv, TypeOK
<1>3. pass[s].lease \in Lease /\ pass[s].lease.call \in Calls /\ pass[s].lease.gen \in Nat \ {0}
    BY <1>1, <1>2, CallStoreAssumption DEF Lease
<1>4. calls[pass[s].lease.call].gen \in Nat
    BY <1>2, <1>3, CallStoreAssumption DEF CallRow
<1>5. pass[s].lease.gen <= calls[pass[s].lease.call].gen
    BY <1>1 DEF RecoveryInv, FenceInv, OneOwnerPerGeneration
<1>6. calls[pass[s].lease.call].status = "absent" => calls[pass[s].lease.call].gen = 0
    BY <1>3 DEF RecoveryInv, FenceInv
<1> QED
    BY <1>1, <1>3, <1>4, <1>5, <1>6

\* Every step of recovery and of the world around it is one of the repository's methods
\* or leaves the tables alone.
LEMMA RecoveryStepsAreMethods ==
    RecoveryInv /\ [RecoveryNext]_recoveryVars => [MethodStep]_storeVars
<1> SUFFICES ASSUME RecoveryInv, RecoveryNext PROVE MethodStep \/ UNCHANGED storeVars
    BY DEF recoveryVars, sweepVars
<1>0. TypeOK /\ now \in Time /\ Sweepers \subseteq Owners /\ Workers \subseteq Owners
    BY RecoveryAssumption DEF RecoveryInv, FenceInv, TypeOK, Time, Workers
<1>1. ASSUME NEW s \in Sweepers, NEW c \in Calls, TakeOver(s, c) PROVE MethodStep
  <2>1. pass[s].at \in Time
      BY <1>1 DEF RecoveryInv, PassInv, TakeOver, Time
  <2> QED
      BY <1>0, <1>1, <2>1 DEF TakeOver, MethodStep
<1>2. ASSUME NEW s \in Sweepers, WriteBack(s) PROVE MethodStep
  <2>1. pass[s].lease \in leases /\ pass[s].verdict \in ProviderStates
    <3>1. pass[s].verdict \in {"completed", "failed", "unknown"}
        BY <1>2 DEF WriteBack, RecoveryInv, PassInv, Pass
    <3> QED
        BY <1>2, <3>1, VerdictFacts DEF WriteBack, RecoveryInv, PassInv, Sweeping
  <2> QED
      BY <1>2, <2>1 DEF WriteBack, MethodStep
<1>3. ASSUME NEW s \in Sweepers, NEW i \in EventIds, EndCall(s, i) PROVE MethodStep
  <2>1. /\ pass[s].lease \in leases /\ pass[s].at \in Time
        /\ pass[s].verdict \in ProviderStates /\ ReasonFor(pass[s].verdict) \in EndedReasons
    <3>1. pass[s].verdict \in {"completed", "failed", "unknown"}
        BY <1>3 DEF EndCall, RecoveryInv, PassInv, Pass
    <3> QED
        BY <1>3, <3>1, VerdictFacts DEF EndCall, RecoveryInv, PassInv, Sweeping, Time
  <2> QED
      BY <1>3, <2>1 DEF EndCall, MethodStep
<1>4. ASSUME NEW s \in Sweepers, SweepStep(s) \/ Defer(s) \/ SweeperDies(s)
      PROVE  MethodStep \/ UNCHANGED storeVars
    BY <1>1, <1>2, <1>3, <1>4
       DEF SweepStep, StartPass, FindTaken, Reconcile, Superseded, FinishPass, Defer, SweeperDies
<1>5. ASSUME CallWorkerStep PROVE MethodStep
  <2>1. ASSUME NEW c \in Calls, NEW o \in Workers, BeginCall(c, o, FALSE, now) PROVE MethodStep
      BY <1>0, <2>1 DEF MethodStep
  <2>2. ASSUME NEW l \in leases, RenewLease(l, now) PROVE MethodStep
      BY <1>0, <2>2 DEF MethodStep
  <2>3. ASSUME NEW l \in leases, NEW data \in Results, FlushResults(l, data) PROVE MethodStep
      BY <2>3 DEF MethodStep
  <2>4. ASSUME NEW l \in leases, NEW reason \in CompletedReasons, NEW i \in EventIds,
               Terminalize(l, reason, "none", now, i)
        PROVE  MethodStep
    <3>1. reason \in EndedReasons
        BY DEF EndedReasons
    <3> QED
        BY <1>0, <2>4, <3>1 DEF MethodStep
  <2> QED
      BY <1>5, <2>1, <2>2, <2>3, <2>4 DEF CallWorkerStep, sweepVars
<1>6. ASSUME NEW c \in Calls, NEW state \in ProviderStates, CarrierReports(c, state)
      PROVE  MethodStep
    BY <1>6 DEF CarrierReports, MethodStep
<1>7. RecoveryTick => MethodStep
    BY DEF RecoveryTick, sweepVars, MethodStep
<1>8. WorkersDie => UNCHANGED storeVars
    BY DEF WorkersDie
<1> QED
    BY <1>4, <1>5, <1>6, <1>7, <1>8 DEF RecoveryNext

-----------------------------------------------------------------------------
(* Steps that keep the invariant of recovery *)

\* The tables' own part of the invariant follows from the methods alone.
LEMMA TablesKept ==
    ASSUME RecoveryInv, [RecoveryNext]_recoveryVars
    PROVE  FenceInv' /\ BlankInv' /\ TypeOK'
BY RecoveryStepsAreMethods, NextFenceInv, NextBlankInv DEF RecoveryInv, FenceInv

\* The rows' types, and what an absent row says.
LEMMA RowFacts ==
    ASSUME RecoveryInv, NEW c \in Calls
    PROVE  /\ calls[c] \in CallRow /\ calls \in [Calls -> CallRow] /\ heard[c] \in Report
           /\ calls[c].gen \in Nat /\ heard[c].gen \in Nat
           /\ calls[c].provider \in ProviderStates \cup {"none"}
           /\ heard[c].state \in ProviderStates \cup {"none"}
           /\ calls[c].status = "absent" => /\ heard[c] = NothingHeard /\ calls[c].gen = 0
                                            /\ calls[c].owner = NoOwner
<1>1. calls[c] \in CallRow /\ calls \in [Calls -> CallRow] /\ heard[c] \in Report
    BY DEF RecoveryInv, FenceInv, TypeOK, PassInv
<1>2. calls[c].status = "absent" => /\ heard[c] = NothingHeard /\ calls[c].gen = 0
                                    /\ calls[c].owner = NoOwner
    BY DEF RecoveryInv, HeardInv, BlankInv, AbsentRow
<1> QED
    BY <1>1, <1>2, CallStoreAssumption DEF CallRow, Report

\* What a step of the workers, of the clock or of nobody makes of a row.
RowAsBefore(c) ==
    /\ calls'[c].status = calls[c].status /\ calls'[c].owner = calls[c].owner
    /\ calls'[c].gen = calls[c].gen /\ calls'[c].provider = calls[c].provider
    /\ calls'[c].reason = calls[c].reason

RowBegins(c) ==
    /\ calls[c].status = "absent" /\ calls'[c].status = "active"
    /\ calls'[c].provider = "none" /\ calls'[c].owner \in Workers

RowEndedByWorker(c) ==
    /\ Active(c) /\ calls'[c].status \in TerminalStatuses
    /\ calls'[c].provider = "none" /\ calls'[c].owner \in Workers

\* A worker hands its call on to another, or takes one over.
RowHandedOn(c) ==
    /\ Active(c) /\ calls'[c].status = calls[c].status
    /\ calls'[c].provider = calls[c].provider /\ calls'[c].owner \in Workers

\* Such a step keeps the invariant.
LEMMA WorldKeeps ==
    ASSUME RecoveryInv, FenceInv', BlankInv', TypeOK', pass' = pass, heard' = heard,
           workersUp' \in BOOLEAN, faults' = faults, leases \subseteq leases',
           \A c \in Calls : \/ RowAsBefore(c) \/ RowBegins(c)
                           \/ RowHandedOn(c) \/ RowEndedByWorker(c)
    PROVE  RecoveryInv'
<1>1. FenceInv' /\ BlankInv' /\ TypeOK'
    OBVIOUS
<1>2. RecoveryTypeOK' /\ PassInv'
    BY <1>1 DEF RecoveryInv, RecoveryTypeOK, PassInv, Sweeping
<1>3. HeardInv'
  <2> SUFFICES ASSUME NEW c \in Calls, calls'[c].status = "absent" PROVE heard'[c] = NothingHeard
      BY DEF HeardInv
  <2>1. calls[c].status = "absent"
      BY DEF RowAsBefore, RowBegins, RowHandedOn, Active, RowEndedByWorker, TerminalStatuses
  <2> QED
      BY <2>1 DEF RecoveryInv, HeardInv
<1>4. ASSUME NEW c \in Calls
      PROVE  \/ /\ RowAsBefore(c) /\ (Terminal(c)' <=> Terminal(c)) /\ (Active(c)' <=> Active(c))
                /\ c \in RecoveredCalls' <=> c \in RecoveredCalls
             \/ RowBegins(c) /\ Active(c)' /\ c \notin RecoveredCalls'
             \/ RowHandedOn(c) /\ Active(c) /\ Active(c)' /\ c \notin RecoveredCalls'
             \/ RowEndedByWorker(c) /\ ~Active(c)' /\ c \notin RecoveredCalls'
    BY DEF RowAsBefore, RowBegins, RowHandedOn, RowEndedByWorker, Terminal, Active, RecoveredCalls,
           Workers, TerminalStatuses
<1>5. SuccessInv'
  <2>1. ASSUME NEW c \in Calls, calls'[c].provider \in CompletedStates
        PROVE  heard'[c].everCompleted
    <3>1. calls'[c].provider = calls[c].provider
        BY <2>1, RecoveryAssumption DEF RowAsBefore, RowBegins, RowHandedOn, RowEndedByWorker
    <3> QED
        BY <2>1, <3>1 DEF RecoveryInv, SuccessInv
  <2>2. ASSUME NEW s \in Sweepers, pass'[s].phase \in {"judged", "recorded"},
               pass'[s].verdict = "completed"
        PROVE  heard'[pass'[s].lease.call].everCompleted
      BY <2>2 DEF RecoveryInv, SuccessInv, Sweeping
  <2>3. SuccessIsNeverInvented'
    <3> SUFFICES ASSUME NEW c \in RecoveredCalls', calls'[c].status = "completed"
                 PROVE  heard'[c].everCompleted
        BY DEF SuccessIsNeverInvented
    <3>1. c \in Calls
        BY DEF RecoveredCalls
    <3>2. c \in RecoveredCalls /\ RowAsBefore(c)
        BY <1>4, <3>1
    <3> QED
        BY <3>2 DEF RecoveryInv, SuccessInv, SuccessIsNeverInvented, RowAsBefore
  <2> QED
      BY <2>1, <2>2, <2>3 DEF SuccessInv
<1>6. QuietInv'
  <2>1. ASSUME NEW c \in Calls, Quiet(c)'
        PROVE  Verdict(calls'[c].provider) = Verdict(heard'[c].state)
    <3>1. CASE RowAsBefore(c) /\ Active(c)
        BY <2>1, <3>1 DEF RecoveryInv, QuietInv, Quiet, RowAsBefore
    <3>2. CASE RowBegins(c)
        BY <3>2, RowFacts DEF RowBegins, NothingHeard
    <3>3. CASE RowHandedOn(c)
        BY <2>1, <3>3 DEF RecoveryInv, QuietInv, Quiet, RowHandedOn
    <3> QED
        BY <1>4, <2>1, <3>1, <3>2, <3>3 DEF Quiet
  <2>2. ASSUME NEW s \in Sweepers PROVE KnowsTheReport(s)'
    <3> DEFINE c == pass[s].lease.call
    <3> SUFFICES ASSUME pass[s].phase \in {"judged", "recorded"}, Quiet(c)'
                 PROVE  KnowsTheReport(s)'
        BY DEF KnowsTheReport
    <3>1. c \in Calls /\ calls[c].status # "absent"
        BY PassHolds DEF Sweeping
    <3>2. (RowAsBefore(c) \/ RowHandedOn(c)) /\ Quiet(c)
        BY <1>4, <3>1 DEF RowBegins, Quiet
    <3>3. Holds(pass[s].lease)' => RowAsBefore(c) /\ Holds(pass[s].lease)
      <4>1. pass[s].lease.owner = s
          BY PassHolds DEF Sweeping
      <4> QED
          BY <3>2, <4>1 DEF Holds, RowAsBefore, RowHandedOn, Workers
    <3>4. KnowsTheReport(s)
        BY DEF RecoveryInv, QuietInv
    <3> QED
        BY <3>2, <3>3, <3>4 DEF KnowsTheReport, RowAsBefore
  <2>5. QuietReportDecides'
    <3> SUFFICES ASSUME NEW c \in RecoveredCalls', heard'[c].gen < calls'[c].gen, ~heard'[c].raced
                 PROVE  DecidedBy(c, heard[c].state)'
        BY DEF QuietReportDecides
    <3>1. c \in Calls
        BY DEF RecoveredCalls
    <3>2. c \in RecoveredCalls /\ RowAsBefore(c)
        BY <1>4, <3>1
    <3> QED
        BY <3>2 DEF RecoveryInv, QuietInv, QuietReportDecides, RowAsBefore, DecidedBy
  <2> QED
      BY <2>1, <2>2, <2>5 DEF QuietInv
<1> QED
    BY <1>1, <1>2, <1>3, <1>5, <1>6 DEF RecoveryInv

\* The calls' own workers, the clock, and the end of the workers.
LEMMA WorldStepKeeps ==
    ASSUME RecoveryInv, CallWorkerStep \/ WorkersDie \/ RecoveryTick
    PROVE  RecoveryInv'
<1>0. pass' = pass /\ heard' = heard /\ faults' = faults
    BY DEF CallWorkerStep, WorkersDie, RecoveryTick, sweepVars
<1>t. FenceInv' /\ BlankInv' /\ TypeOK'
    BY TablesKept DEF RecoveryNext
<1>1. workersUp' \in BOOLEAN
    BY DEF CallWorkerStep, WorkersDie, RecoveryTick, sweepVars, RecoveryInv, RecoveryTypeOK
<1>2. TypeOK /\ calls \in [Calls -> CallRow] /\ leases \subseteq Lease
    BY DEF RecoveryInv, FenceInv, TypeOK
<1>3. leases \subseteq leases'
  <2>1. ASSUME NEW c, NEW o, BeginCall(c, o, FALSE, now) PROVE leases \subseteq leases'
      BY <2>1 DEF BeginCall
  <2>2. ASSUME NEW l, NEW reason, NEW i, Terminalize(l, reason, "none", now, i)
        PROVE  leases \subseteq leases'
      BY <2>2 DEF Terminalize
  <2>3. ASSUME NEW l, NEW data, RenewLease(l, now) \/ FlushResults(l, data)
        PROVE  leases \subseteq leases'
      BY <2>3 DEF RenewLease, FlushResults
  <2> QED
      BY <2>1, <2>2, <2>3 DEF CallWorkerStep, WorkersDie, RecoveryTick, sweepVars, Tick, storeVars
<1>4. ASSUME NEW c \in Calls PROVE RowAsBefore(c) \/ RowBegins(c) \/ RowEndedByWorker(c)
  <2>1. CASE calls' = calls
      BY <2>1 DEF RowAsBefore
  <2>2. ASSUME NEW d \in Calls, NEW o \in Workers, BeginCall(d, o, FALSE, now)
        PROVE  RowAsBefore(c) \/ RowBegins(c)
    <3>1. CASE c = d
        BY <1>2, <2>2, <3>1 DEF BeginCall, AbsentRow, RowBegins
    <3>2. CASE c # d
        BY <1>2, <2>2, <3>2 DEF BeginCall, RowAsBefore
    <3> QED
        BY <3>1, <3>2
  <2>3. ASSUME NEW l \in leases, RenewLease(l, now) PROVE RowAsBefore(c)
      BY <1>2, <2>3 DEF RenewLease, Lease, CallRow, RowAsBefore
  <2>4. ASSUME NEW l \in leases, NEW data \in Results, FlushResults(l, data) PROVE RowAsBefore(c)
      BY <1>2, <2>4 DEF FlushResults, Lease, CallRow, RowAsBefore
  <2>5. ASSUME NEW l \in leases, l.owner \in Workers, NEW reason \in CompletedReasons,
               NEW i \in EventIds, Terminalize(l, reason, "none", now, i)
        PROVE  RowAsBefore(c) \/ RowEndedByWorker(c)
    <3>1. CASE c = l.call
      <4>1. /\ calls'[c].status = StatusOf(EventTypeOf(reason)) /\ calls'[c].provider = "none"
            /\ calls'[c].owner = calls[c].owner /\ Active(c) /\ Holds(l)
          BY <1>2, <2>5, <3>1 DEF Terminalize, CallRow
      <4>2. calls[c].owner = l.owner
          BY <3>1, <4>1 DEF Holds
      <4> QED
          BY <2>5, <4>1, <4>2 DEF RowEndedByWorker, StatusOf, TerminalStatuses
    <3>2. CASE c # l.call
        BY <1>2, <2>5, <3>2 DEF Terminalize, RowAsBefore
    <3> QED
        BY <3>1, <3>2
  <2> QED
      BY <2>1, <2>2, <2>3, <2>4, <2>5
         DEF CallWorkerStep, WorkersDie, RecoveryTick, sweepVars, Tick, storeVars
<1> QED
    BY <1>0, <1>t, <1>1, <1>3, <1>4, WorldKeeps

\* A step of one pass that leaves the tables alone: the pass forgets its lease, works
\* on its list, or reads.
LEMMA PassMoves ==
    ASSUME RecoveryInv, UNCHANGED <<storeVars, heard, workersUp>>, faults' \in 0 .. MaxFaults,
           NEW s \in Sweepers, NEW p \in Pass, pass' = [pass EXCEPT ![s] = p],
           p.phase # "idle" => p.at \in Nat,
           \/ p.phase \in {"idle", "sweeping"}
           \/ /\ pass[s].phase = "owned" /\ p.phase = "judged" /\ p.lease = pass[s].lease
              /\ p.verdict = Verdict(calls[p.lease.call].provider)
    PROVE  RecoveryInv'
<1>0. /\ pass \in [Sweepers -> Pass] /\ pass'[s] = p
      /\ \A q \in Sweepers \ {s} : pass'[q] = pass[q]
    BY DEF RecoveryInv, PassInv
<1>1. FenceInv' /\ BlankInv' /\ TypeOK' /\ HeardInv'
    BY DEF RecoveryInv, FenceInv, BlankInv, HeardInv, storeVars, OneOwnerPerGeneration, TypeOK
<1>2. \/ p.phase \in {"idle", "sweeping"}
      \/ /\ p.phase = "judged" /\ p.lease \in leases /\ p.lease.owner = s /\ p.lease.call \in Calls
         /\ p.verdict = Verdict(calls[p.lease.call].provider) /\ p.verdict # "none"
         /\ p.verdict = "completed" => heard[p.lease.call].everCompleted
         /\ Quiet(p.lease.call) => p.verdict = Verdict(heard[p.lease.call].state)
  <2> SUFFICES ASSUME pass[s].phase = "owned", p.phase = "judged", p.lease = pass[s].lease,
                      p.verdict = Verdict(calls[p.lease.call].provider)
               PROVE  /\ p.lease \in leases /\ p.lease.owner = s /\ p.lease.call \in Calls
                      /\ p.verdict # "none"
                      /\ p.verdict = "completed" => heard[p.lease.call].everCompleted
                      /\ Quiet(p.lease.call) => p.verdict = Verdict(heard[p.lease.call].state)
      OBVIOUS
  <2>1. p.lease \in leases /\ p.lease.owner = s /\ p.lease.call \in Calls
      BY PassHolds DEF Sweeping
  <2>2. calls[p.lease.call].provider \in ProviderStates \cup {"none"}
      BY <2>1, RowFacts
  <2> QED
      BY <2>1, <2>2, VerdictFacts DEF RecoveryInv, SuccessInv, QuietInv
<1>3. RecoveryTypeOK' /\ PassInv'
    BY <1>0, <1>1, <1>2 DEF RecoveryInv, RecoveryTypeOK, PassInv, Pass, Sweeping, storeVars
<1>4. SuccessInv'
  <2>1. ASSUME NEW q \in Sweepers, pass'[q].phase \in {"judged", "recorded"},
               pass'[q].verdict = "completed"
        PROVE  heard'[pass'[q].lease.call].everCompleted
    <3>1. CASE q = s
        BY <1>0, <1>2, <2>1, <3>1 DEF Sweeping
    <3>2. CASE q # s
        BY <1>0, <2>1, <3>2 DEF Sweeping, RecoveryInv, SuccessInv
    <3> QED
        BY <3>1, <3>2
  <2>2. SuccessIsNeverInvented'
      BY DEF RecoveryInv, SuccessInv, SuccessIsNeverInvented, RecoveredCalls, Terminal, storeVars
  <2> QED
      BY <2>1, <2>2 DEF RecoveryInv, SuccessInv, storeVars
<1>5. QuietInv'
  <2>1. ASSUME NEW q \in Sweepers PROVE KnowsTheReport(q)'
    <3>1. CASE q = s
        BY <1>0, <1>2, <3>1 DEF KnowsTheReport, Quiet, Active, storeVars
    <3>2. CASE q # s
        BY <1>0, <3>2 DEF KnowsTheReport, Quiet, Active, Holds, storeVars, RecoveryInv, QuietInv
    <3> QED
        BY <3>1, <3>2
  <2>2. QuietReportDecides'
      BY DEF RecoveryInv, QuietInv, QuietReportDecides, RecoveredCalls, Terminal, DecidedBy,
             storeVars
  <2> QED
      BY <2>1, <2>2 DEF RecoveryInv, QuietInv, Quiet, Active, storeVars
<1> QED
    BY <1>1, <1>3, <1>4, <1>5 DEF RecoveryInv

LEMMA ReadingStepKeeps ==
    ASSUME RecoveryInv, NEW s \in Sweepers,
           \/ StartPass(s) \/ Reconcile(s) \/ Superseded(s) \/ FinishPass(s)
           \/ Defer(s) \/ SweeperDies(s) \/ \E c \in Calls : FindTaken(s, c)
    PROVE  RecoveryInv'
<1>0. pass \in [Sweepers -> Pass] /\ pass[s] \in Pass /\ now \in Nat
    BY DEF RecoveryInv, PassInv, FenceInv, TypeOK
<1>1. IdlePass \in Pass /\ IdlePass.phase = "idle" /\ NoLease \in PassLease
    BY DEF IdlePass, Pass, PassLease, Time, NoTime
<1>2. UNCHANGED <<storeVars, heard, workersUp>> /\ faults' \in 0 .. MaxFaults
    BY RecoveryAssumption DEF StartPass, Reconcile, Superseded, FinishPass, Defer, SweeperDies,
           FindTaken, RecoveryInv, RecoveryTypeOK
<1> DEFINE Kept(p) == /\ p \in Pass /\ pass' = [pass EXCEPT ![s] = p]
                      /\ p.phase # "idle" => p.at \in Nat
                      /\ \/ p.phase \in {"idle", "sweeping"}
                         \/ /\ pass[s].phase = "owned" /\ p.phase = "judged"
                            /\ p.lease = pass[s].lease
                            /\ p.verdict = Verdict(calls[p.lease.call].provider)
<1> DEFINE started == [IdlePass EXCEPT !.phase = "sweeping", !.at = now, !.todo = Stale(now)]
           judged == [pass[s] EXCEPT !.phase = "judged",
                           !.verdict = Verdict(calls[pass[s].lease.call].provider)]
           released == [pass[s] EXCEPT !.phase = "sweeping", !.lease = NoLease,
                                       !.verdict = "none"]
<1>3. StartPass(s) => Kept(started)
  <2>1. Stale(now) \subseteq Calls
      BY DEF Stale
  <2>2. [IdlePass EXCEPT !.phase = "sweeping"] \in Pass
      BY <1>1 DEF Pass
  <2>5. ASSUME NEW p \in Pass, NEW t \in Nat PROVE [p EXCEPT !.at = t] \in Pass
      BY DEF Pass, Time
  <2>3. started \in Pass
    <3>1. ASSUME NEW p \in Pass PROVE [p EXCEPT !.todo = Stale(now)] \in Pass
        BY <2>1 DEF Pass
    <3> QED
        BY <1>0, <2>2, <2>5, <3>1
  <2>4. started.phase = "sweeping" /\ started.at = now
      BY DEF IdlePass
  <2> HIDE DEF started
  <2> QED
      BY <1>0, <2>3, <2>4 DEF StartPass, started
<1>4. Reconcile(s) => Kept(judged)
  <2> SUFFICES ASSUME Reconcile(s) PROVE Kept(judged)
      OBVIOUS
  <2>1. pass[s].phase = "owned" /\ pass[s].lease.call \in Calls /\ pass[s].at \in Nat
      BY PassHolds DEF Reconcile, Sweeping
  <2>2. Verdict(calls[pass[s].lease.call].provider) \in {"completed", "failed", "unknown"}
      BY <2>1, RowFacts, VerdictFacts
  <2>3. judged \in Pass
      BY <1>0, <2>2 DEF Pass
  <2>4. /\ judged.phase = "judged" /\ judged.lease = pass[s].lease /\ judged.at = pass[s].at
        /\ judged.verdict = Verdict(calls[pass[s].lease.call].provider)
      BY <1>0 DEF Pass
  <2>5. pass' = [pass EXCEPT ![s] = judged]
      BY <1>0 DEF Reconcile
  <2> HIDE DEF judged
  <2> QED
      BY <2>1, <2>3, <2>4, <2>5
<1>5. Superseded(s) \/ Defer(s) => Kept(released)
  <2> SUFFICES ASSUME Superseded(s) \/ Defer(s) PROVE Kept(released)
      OBVIOUS
  <2>1. released \in Pass /\ released.phase = "sweeping" /\ released.at = pass[s].at
      BY <1>0, <1>1 DEF Pass
  <2>2. pass[s].at \in Nat
      BY PassHolds DEF Superseded, Defer, Sweeping
  <2>3. pass' = [pass EXCEPT ![s] = released]
      BY <1>0 DEF Superseded, Defer
  <2> HIDE DEF released
  <2> QED
      BY <2>1, <2>2, <2>3
<1>6. FinishPass(s) \/ SweeperDies(s) => Kept(IdlePass)
    BY <1>1 DEF FinishPass, SweeperDies
<1>7. ASSUME NEW c \in Calls, FindTaken(s, c)
      PROVE  Kept([pass[s] EXCEPT !.todo = @ \ {c}])
  <2> DEFINE p == [pass[s] EXCEPT !.todo = @ \ {c}]
  <2>1. p \in Pass /\ p.phase = pass[s].phase /\ p.at = pass[s].at
      BY <1>0 DEF Pass
  <2>2. pass[s].phase = "sweeping" /\ pass[s].at \in Nat
      BY <1>7 DEF FindTaken, RecoveryInv, PassInv
  <2>3. pass' = [pass EXCEPT ![s] = p]
      BY <1>0, <1>7 DEF FindTaken
  <2> HIDE DEF p
  <2> QED
      BY <2>1, <2>2, <2>3 DEF p
<1>8. \E p : Kept(p)
    BY <1>3, <1>4, <1>5, <1>6, <1>7
<1> QED
    BY <1>2, <1>8, PassMoves

\* A step of one pass that writes the row of an active call.
LEMMA SweepKeeps ==
    ASSUME RecoveryInv, [RecoveryNext]_recoveryVars, UNCHANGED <<heard, workersUp, faults>>,
           leases \subseteq leases', NEW s \in Sweepers, NEW p \in Pass,
           pass' = [pass EXCEPT ![s] = p], p.at \in Nat,
           NEW c \in Calls, Active(c), \A d \in Calls \ {c} : calls'[d] = calls[d],
           calls'[c].status # "absent",
           p.phase \in {"owned", "recorded"} =>
               p.lease \in leases' /\ p.lease.owner = s /\ p.lease.call = c,
           p.phase # "judged", p.phase = "recorded" => p.verdict # "none",
           calls'[c].provider \in CompletedStates => heard[c].everCompleted,
           p.phase = "recorded" /\ p.verdict = "completed" => heard[c].everCompleted,
           Active(c)' /\ ~heard[c].raced => Verdict(calls'[c].provider) = Verdict(heard[c].state),
           p.phase = "recorded" /\ ~heard[c].raced => p.verdict = Verdict(heard[c].state),
           \A q \in Sweepers \ {s} :
               Sweeping(q) /\ pass[q].lease.call = c /\ Holds(pass[q].lease)' =>
                   Holds(pass[q].lease) /\ calls'[c].gen = calls[c].gen,
           c \in RecoveredCalls' =>
               /\ calls'[c].status = "completed" => heard[c].everCompleted
               /\ heard[c].gen < calls'[c].gen /\ ~heard[c].raced =>
                    DecidedBy(c, heard[c].state)'
    PROVE  RecoveryInv'
<1>0. /\ pass \in [Sweepers -> Pass] /\ pass'[s] = p
      /\ \A q \in Sweepers \ {s} : pass'[q] = pass[q]
    BY DEF RecoveryInv, PassInv
<1>1. FenceInv' /\ BlankInv' /\ TypeOK'
    BY TablesKept
<1>2. RecoveryTypeOK' /\ PassInv'
    BY <1>0, <1>1 DEF RecoveryInv, RecoveryTypeOK, PassInv, Pass, Sweeping
<1>3. HeardInv'
    BY DEF RecoveryInv, HeardInv
<1>4. SuccessInv'
  <2>1. ASSUME NEW d \in Calls, calls'[d].provider \in CompletedStates
        PROVE  heard'[d].everCompleted
      BY <2>1 DEF RecoveryInv, SuccessInv
  <2>2. ASSUME NEW q \in Sweepers, pass'[q].phase \in {"judged", "recorded"},
               pass'[q].verdict = "completed"
        PROVE  heard'[pass'[q].lease.call].everCompleted
    <3>1. CASE q = s
        BY <1>0, <2>2, <3>1
    <3>2. CASE q # s
        BY <1>0, <2>2, <3>2 DEF RecoveryInv, SuccessInv
    <3> QED
        BY <3>1, <3>2
  <2>3. SuccessIsNeverInvented'
    <3> SUFFICES ASSUME NEW d \in RecoveredCalls', calls'[d].status = "completed"
                 PROVE  heard[d].everCompleted
        BY DEF SuccessIsNeverInvented
    <3>1. CASE d = c
        BY <3>1
    <3>2. CASE d # c
        BY <3>2 DEF RecoveredCalls, Terminal, RecoveryInv, SuccessInv, SuccessIsNeverInvented
    <3> QED
        BY <3>1, <3>2
  <2> QED
      BY <2>1, <2>2, <2>3 DEF SuccessInv
<1>5. QuietInv'
  <2>1. ASSUME NEW d \in Calls, Quiet(d)'
        PROVE  Verdict(calls'[d].provider) = Verdict(heard'[d].state)
    <3>1. CASE d = c
        BY <2>1, <3>1 DEF Quiet
    <3>2. CASE d # c
        BY <2>1, <3>2 DEF Quiet, Active, RecoveryInv, QuietInv
    <3> QED
        BY <3>1, <3>2
  <2>2. ASSUME NEW q \in Sweepers PROVE KnowsTheReport(q)'
    <3>1. CASE q = s
        BY <1>0, <3>1 DEF KnowsTheReport, Quiet
    <3>2. CASE q # s
      <4> DEFINE d == pass[q].lease.call
      <4> SUFFICES ASSUME pass[q].phase \in {"judged", "recorded"}, Quiet(d)'
                   PROVE  KnowsTheReport(q)'
          BY <1>0, <3>2 DEF KnowsTheReport
      <4>1. d \in Calls /\ Sweeping(q)
          BY PassHolds DEF Sweeping
      <4>2. KnowsTheReport(q)
          BY DEF RecoveryInv, QuietInv
      <4>3. Quiet(d)
          BY <1>0, <3>2, <4>1 DEF Quiet, Active
      <4>4. Holds(pass[q].lease)' => Holds(pass[q].lease) /\ calls'[d].gen = calls[d].gen
          BY <1>0, <3>2, <4>1 DEF Holds
      <4> QED
          BY <1>0, <3>2, <4>2, <4>3, <4>4 DEF KnowsTheReport
    <3> QED
        BY <3>1, <3>2
  <2>3. QuietReportDecides'
    <3> SUFFICES ASSUME NEW d \in RecoveredCalls', heard[d].gen < calls'[d].gen, ~heard[d].raced
                 PROVE  DecidedBy(d, heard[d].state)'
        BY DEF QuietReportDecides
    <3>1. CASE d = c
        BY <3>1
    <3>2. CASE d # c
        BY <3>2 DEF RecoveredCalls, Terminal, RecoveryInv, QuietInv, QuietReportDecides, DecidedBy
    <3> QED
        BY <3>1, <3>2
  <2> QED
      BY <2>1, <2>2, <2>3 DEF QuietInv
<1> QED
    BY <1>1, <1>2, <1>3, <1>4, <1>5 DEF RecoveryInv

LEMMA TakeOverKeeps ==
    ASSUME RecoveryInv, NEW s \in Sweepers, NEW c \in Calls, TakeOver(s, c)
    PROVE  RecoveryInv'
<1> DEFINE lease == [call |-> c, owner |-> s, gen |-> calls[c].gen + 1]
           p == [pass[s] EXCEPT !.phase = "owned", !.todo = @ \ {c}, !.lease = lease]
<1>0. [RecoveryNext]_recoveryVars /\ UNCHANGED <<heard, workersUp, faults>>
    BY DEF RecoveryNext, SweepStep, TakeOver
<1>1. pass \in [Sweepers -> Pass] /\ pass[s] \in Pass /\ pass[s].at \in Nat
    BY DEF RecoveryInv, PassInv, TakeOver
<1>2. /\ calls[c] \in CallRow /\ calls \in [Calls -> CallRow] /\ calls[c].gen \in Nat
      /\ heard[c] \in Report
    BY RowFacts
<1>3. /\ Active(c) /\ calls[c].gen < MaxGeneration /\ leases' = leases \cup {lease}
      /\ calls'[c].status = "active" /\ calls'[c].provider = calls[c].provider
      /\ calls'[c].gen = calls[c].gen + 1 /\ \A d \in Calls \ {c} : calls'[d] = calls[d]
    BY <1>2 DEF TakeOver, TakeoverExpiredCall, GrantNextGeneration, Active, CallRow
<1>4. lease \in Lease /\ lease.owner = s /\ lease.call = c /\ lease.gen = calls[c].gen + 1
    BY <1>2, <1>3, RecoveryAssumption, CallStoreAssumption DEF Lease
<1> HIDE DEF lease
<1>5. /\ p \in Pass /\ p.phase = "owned" /\ p.lease = lease /\ p.at = pass[s].at
      /\ pass' = [pass EXCEPT ![s] = p]
  <2>1. p \in Pass /\ p.phase = "owned" /\ p.lease = lease /\ p.at = pass[s].at
    <3>1. lease \in PassLease
        BY <1>4 DEF PassLease
    <3> QED
        BY <1>1, <3>1 DEF Pass
  <2>2. pass' = [pass EXCEPT ![s] = p]
      BY <1>1 DEF TakeOver, lease
  <2> QED
      BY <2>1, <2>2
<1>6. ASSUME NEW q \in Sweepers \ {s}, Sweeping(q), pass[q].lease.call = c, Holds(pass[q].lease)'
      PROVE  FALSE
  <2>1. pass'[q] = pass[q] /\ pass[q].lease.gen <= calls[c].gen /\ pass[q].lease.gen \in Nat
      BY <1>5, <1>6, <1>1, PassHolds
  <2> QED
      BY <1>2, <1>3, <1>6, <2>1 DEF Holds
<1>7. /\ calls'[c].provider \in CompletedStates => heard[c].everCompleted
      /\ ~heard[c].raced => Verdict(calls'[c].provider) = Verdict(heard[c].state)
    BY <1>3 DEF RecoveryInv, SuccessInv, QuietInv, Quiet
<1>8. c \notin RecoveredCalls'
    BY <1>3 DEF RecoveredCalls, Terminal, TerminalStatuses
<1> HIDE DEF p
<1> QED
    BY <1>0, <1>1, <1>3, <1>4, <1>5, <1>6, <1>7, <1>8, SweepKeeps

LEMMA WriteBackKeeps ==
    ASSUME RecoveryInv, NEW s \in Sweepers, WriteBack(s)
    PROVE  RecoveryInv'
<1> DEFINE p == [pass[s] EXCEPT !.phase = "recorded"]
<1>0. [RecoveryNext]_recoveryVars /\ UNCHANGED <<heard, workersUp, faults, leases>>
    BY DEF RecoveryNext, SweepStep, WriteBack, UpdateProviderState
<1>1. pass \in [Sweepers -> Pass] /\ pass[s] \in Pass /\ pass[s].phase = "judged"
    BY DEF RecoveryInv, PassInv, WriteBack
<1>2. /\ pass[s].lease \in leases /\ pass[s].lease.owner = s /\ pass[s].at \in Nat
      /\ pass[s].lease.call \in Calls
    BY <1>1, PassHolds DEF Sweeping
<1>c. PICK c \in Calls : c = pass[s].lease.call
    BY <1>2
<1>3. /\ Active(c) /\ calls'[c].status = "active" /\ calls'[c].provider = pass[s].verdict
      /\ calls'[c].gen = calls[c].gen /\ calls'[c].owner = calls[c].owner
      /\ \A d \in Calls \ {c} : calls'[d] = calls[d]
    BY <1>c, RowFacts DEF WriteBack, UpdateProviderState, Active, CallRow
<1>4. /\ p \in Pass /\ p.phase = "recorded" /\ p.lease = pass[s].lease /\ p.at = pass[s].at
      /\ p.verdict = pass[s].verdict /\ pass' = [pass EXCEPT ![s] = p]
    BY <1>1 DEF WriteBack, Pass
<1>5. pass[s].verdict \in {"completed", "failed", "unknown"}
    BY <1>1 DEF RecoveryInv, PassInv, Pass
<1>6. /\ pass[s].verdict = "completed" => heard[c].everCompleted
      /\ ~heard[c].raced => pass[s].verdict = Verdict(heard[c].state)
    BY <1>1, <1>3, <1>c DEF RecoveryInv, SuccessInv, QuietInv, KnowsTheReport, Quiet
<1>7. /\ Verdict(pass[s].verdict) = pass[s].verdict
      /\ pass[s].verdict \in CompletedStates => pass[s].verdict = "completed"
    BY <1>5, VerdictFacts
<1>8. c \notin RecoveredCalls'
    BY <1>3 DEF RecoveredCalls, Terminal, TerminalStatuses
<1>9. ASSUME NEW q \in Sweepers \ {s}, pass[q].lease.call = c, Holds(pass[q].lease)'
      PROVE  Holds(pass[q].lease)
  <2>1. pass'[q] = pass[q]
      BY <1>1, <1>4
  <2> QED
      BY <1>3, <1>9, <1>c, <2>1 DEF Holds
<1>10. /\ p.phase = "recorded" => p.verdict # "none"
       /\ p.phase = "recorded" /\ p.verdict = "completed" => heard[c].everCompleted
       /\ p.phase = "recorded" /\ ~heard[c].raced => p.verdict = Verdict(heard[c].state)
       /\ calls'[c].provider \in CompletedStates => heard[c].everCompleted
       /\ ~heard[c].raced => Verdict(calls'[c].provider) = Verdict(heard[c].state)
       /\ p.lease \in leases' /\ p.lease.owner = s /\ p.lease.call = c /\ p.at \in Nat
       /\ p.phase # "judged"
  <2> HIDE DEF p
  <2> QED
      BY <1>0, <1>2, <1>3, <1>4, <1>5, <1>6, <1>7, <1>c
<1> HIDE DEF p
<1> QED
    BY <1>0, <1>3, <1>4, <1>8, <1>9, <1>10, SweepKeeps

LEMMA TerminalizedRow ==
    ASSUME calls \in [Calls -> CallRow], NEW l, l.call \in Calls, NEW reason, NEW provider, NEW t,
           NEW i, Terminalize(l, reason, provider, t, i)
    PROVE  /\ Active(l.call) /\ Holds(l)
           /\ calls'[l.call].status = StatusOf(EventTypeOf(reason))
           /\ calls'[l.call].reason = reason /\ calls'[l.call].provider = provider
           /\ calls'[l.call].gen = calls[l.call].gen /\ calls'[l.call].owner = calls[l.call].owner
           /\ \A d \in Calls \ {l.call} : calls'[d] = calls[d]
<1>1. calls[l.call] \in CallRow
    OBVIOUS
<1> QED
    BY <1>1 DEF Terminalize, CallRow

LEMMA EndCallKeeps ==
    ASSUME RecoveryInv, NEW s \in Sweepers, NEW i \in EventIds, EndCall(s, i)
    PROVE  RecoveryInv'
<1> DEFINE verdict == pass[s].verdict
           p == [pass[s] EXCEPT !.phase = "sweeping", !.lease = NoLease, !.verdict = "none"]
<1>0. [RecoveryNext]_recoveryVars /\ UNCHANGED <<heard, workersUp, faults, leases>>
    BY DEF RecoveryNext, SweepStep, EndCall, Terminalize
<1>1. pass \in [Sweepers -> Pass] /\ pass[s] \in Pass /\ pass[s].phase = "recorded"
    BY DEF RecoveryInv, PassInv, EndCall
<1>2. pass[s].lease.call \in Calls /\ pass[s].at \in Nat
    BY <1>1, PassHolds DEF Sweeping
<1>c. PICK c \in Calls : c = pass[s].lease.call
    BY <1>2
<1>3. /\ Active(c) /\ Holds(pass[s].lease)
      /\ calls'[c].status = StatusOf(EventTypeOf(ReasonFor(verdict)))
      /\ calls'[c].reason = ReasonFor(verdict) /\ calls'[c].provider = verdict
      /\ calls'[c].gen = calls[c].gen /\ calls'[c].owner = calls[c].owner
      /\ \A d \in Calls \ {c} : calls'[d] = calls[d]
  <2>1. PICK l, reason, provider :
          /\ l = pass[s].lease /\ reason = ReasonFor(verdict) /\ provider = verdict
          /\ Terminalize(l, reason, provider, pass[s].at, i)
      BY DEF EndCall
  <2>2. calls \in [Calls -> CallRow]
      BY <1>c, RowFacts
  <2> HIDE DEF verdict
  <2> QED
      BY <1>c, <2>1, <2>2, TerminalizedRow
<1>4. /\ p \in Pass /\ p.phase = "sweeping" /\ p.at = pass[s].at
      /\ pass' = [pass EXCEPT ![s] = p]
    BY <1>1 DEF EndCall, Pass, PassLease
<1>5. verdict \in {"completed", "failed", "unknown"}
    BY <1>1 DEF RecoveryInv, PassInv, Pass
<1>6. /\ verdict = "completed" => heard[c].everCompleted
      /\ ~heard[c].raced /\ heard[c].gen < calls[c].gen => verdict = Verdict(heard[c].state)
    BY <1>1, <1>3, <1>c DEF RecoveryInv, SuccessInv, QuietInv, KnowsTheReport, Quiet
<1>7. /\ verdict \in CompletedStates => verdict = "completed"
      /\ calls'[c].status = "completed" <=> verdict = "completed"
      /\ calls'[c].reason = "provider_hangup" <=> verdict = "completed"
      /\ calls'[c].reason = "provider_error" <=> verdict = "failed"
    BY <1>3, <1>5, VerdictFacts
<1>8. calls'[c].status # "absent" /\ ~Active(c)'
    BY <1>3 DEF StatusOf, Active
<1>9. ASSUME NEW q \in Sweepers \ {s}, pass[q].lease.call = c, Holds(pass[q].lease)'
      PROVE  Holds(pass[q].lease)
  <2>1. pass'[q] = pass[q]
      BY <1>1, <1>4
  <2> QED
      BY <1>3, <1>9, <1>c, <2>1 DEF Holds
<1>10. heard[c].gen < calls'[c].gen /\ ~heard[c].raced => DecidedBy(c, heard[c].state)'
  <2>1. heard[c].state \in ProviderStates \cup {"none"} /\ heard' = heard
      BY <1>0, <1>2, RowFacts
  <2> SUFFICES ASSUME heard[c].gen < calls'[c].gen, ~heard[c].raced
               PROVE  /\ calls'[c].reason = "provider_hangup" <=> heard[c].state \in CompletedStates
                      /\ calls'[c].reason = "provider_error" <=> heard[c].state \in FailedStates
      BY <2>1 DEF DecidedBy
  <2> QED
      BY <1>3, <1>6, <1>7, <2>1, VerdictFacts
<1> HIDE DEF p, verdict
<1> QED
    BY <1>0, <1>2, <1>3, <1>4, <1>6, <1>7, <1>8, <1>9, <1>10, <1>c, SweepKeeps

LEMMA ReportKeeps ==
    ASSUME RecoveryInv, NEW c \in Calls, NEW state \in ProviderStates, CarrierReports(c, state)
    PROVE  RecoveryInv'
<1>0. [RecoveryNext]_recoveryVars /\ UNCHANGED <<pass, workersUp, faults, leases>>
    BY DEF RecoveryNext, CarrierReports, RecordProviderObservation
<1>1. FenceInv' /\ BlankInv' /\ TypeOK'
    BY <1>0, TablesKept
<1>2. heard \in [Calls -> Report] /\ calls[c].gen \in 0 .. MaxGeneration
    BY RowFacts DEF RecoveryInv, PassInv, CallRow
<1> DEFINE raced == \E s \in Sweepers : pass[s].phase = "judged" /\ pass[s].lease.call = c
           completed == heard[c].everCompleted \/ state \in CompletedStates
           report == [state |-> state, gen |-> calls[c].gen, raced |-> raced,
                      everCompleted |-> completed, reports |-> heard[c].reports + 1]
<1>3. raced \in BOOLEAN /\ completed \in BOOLEAN /\ heard[c].reports + 1 \in Nat
  <2>1. heard[c].reports \in Nat
      BY <1>2 DEF Report
  <2> QED
      BY <2>1
<1>4. /\ heard' = [heard EXCEPT ![c] = report]
      /\ Active(c) /\ calls' = [calls EXCEPT ![c].provider = state]
    BY DEF CarrierReports, RecordProviderObservation
<1>5. /\ report.state = state /\ report.gen = calls[c].gen /\ report.raced = raced
      /\ report.everCompleted = completed
    OBVIOUS
<1> HIDE DEF raced, completed
<1>6. report \in Report
    BY <1>2, <1>3 DEF Report
<1> HIDE DEF report
<1>7. /\ heard' \in [Calls -> Report] /\ heard'[c] = report
      /\ \A d \in Calls \ {c} : heard'[d] = heard[d] /\ calls'[d] = calls[d]
      /\ calls'[c].status = "active" /\ calls'[c].owner = calls[c].owner
      /\ calls'[c].gen = calls[c].gen /\ calls'[c].provider = state
  <2>1. calls \in [Calls -> CallRow] /\ calls[c] \in CallRow
      BY RowFacts
  <2> QED
      BY <1>2, <1>4, <1>6, <2>1 DEF Active, CallRow
<1>8. RecoveryTypeOK' /\ PassInv'
    BY <1>0, <1>1, <1>7 DEF RecoveryInv, RecoveryTypeOK, PassInv, Sweeping
<1>9. HeardInv'
    BY <1>7 DEF RecoveryInv, HeardInv
<1>10. \A d \in Calls : heard[d].everCompleted => heard'[d].everCompleted
    BY <1>5, <1>7 DEF completed
<1>11. RecoveredCalls' \subseteq Calls \ {c} /\ RecoveredCalls' = RecoveredCalls
    BY <1>4, <1>7 DEF RecoveredCalls, Terminal, TerminalStatuses, Active
<1>12. SuccessInv'
  <2>1. ASSUME NEW d \in Calls, calls'[d].provider \in CompletedStates
        PROVE  heard'[d].everCompleted
    <3>1. CASE d = c
        BY <1>5, <1>7, <2>1, <3>1 DEF completed
    <3>2. CASE d # c
        BY <1>7, <2>1, <3>2 DEF RecoveryInv, SuccessInv
    <3> QED
        BY <3>1, <3>2
  <2>2. ASSUME NEW q \in Sweepers, pass'[q].phase \in {"judged", "recorded"},
               pass'[q].verdict = "completed"
        PROVE  heard'[pass'[q].lease.call].everCompleted
    <3>1. pass[q].lease.call \in Calls /\ pass' = pass
        BY <1>0, <2>2, PassHolds DEF Sweeping
    <3> QED
        BY <1>10, <2>2, <3>1 DEF RecoveryInv, SuccessInv
  <2>3. SuccessIsNeverInvented'
      BY <1>7, <1>11 DEF RecoveryInv, SuccessInv, SuccessIsNeverInvented
  <2> QED
      BY <2>1, <2>2, <2>3 DEF SuccessInv
<1>13. QuietInv'
  <2>1. ASSUME NEW d \in Calls, Quiet(d)'
        PROVE  Verdict(calls'[d].provider) = Verdict(heard'[d].state)
    <3>1. CASE d = c
        BY <1>5, <1>7, <3>1
    <3>2. CASE d # c
        BY <1>7, <2>1, <3>2 DEF Quiet, Active, RecoveryInv, QuietInv
    <3> QED
        BY <3>1, <3>2
  <2>2. ASSUME NEW q \in Sweepers PROVE KnowsTheReport(q)'
    <3> SUFFICES ASSUME pass[q].phase \in {"judged", "recorded"} PROVE KnowsTheReport(q)'
        BY <1>0 DEF KnowsTheReport
    <3>1. PICK d \in Calls : d = pass[q].lease.call
        BY PassHolds DEF Sweeping
    <3>2. CASE d = c /\ pass[q].phase = "judged"
      <4>1. heard'[c].raced
          BY <1>5, <1>7, <3>1, <3>2 DEF raced
      <4> QED
          BY <1>0, <3>1, <3>2, <4>1 DEF KnowsTheReport, Quiet
    <3>3. CASE d = c /\ pass[q].phase = "recorded"
      <4>1. ~(heard'[c].gen < calls'[c].gen)
          BY <1>2, <1>5, <1>7
      <4> QED
          BY <1>0, <3>1, <3>3, <4>1 DEF KnowsTheReport
    <3>4. CASE d # c
        BY <1>0, <1>7, <3>1, <3>4
           DEF KnowsTheReport, Quiet, Active, Holds, RecoveryInv, QuietInv
    <3> QED
        BY <3>2, <3>3, <3>4
  <2>3. QuietReportDecides'
      BY <1>7, <1>11 DEF RecoveryInv, QuietInv, QuietReportDecides, DecidedBy
  <2> QED
      BY <2>1, <2>2, <2>3 DEF QuietInv
<1> QED
    BY <1>1, <1>8, <1>9, <1>12, <1>13 DEF RecoveryInv

LEMMA RecoveryInvInit == RecoveryInit => RecoveryInv
<1> SUFFICES ASSUME RecoveryInit PROVE RecoveryInv
    OBVIOUS
<1>1. TypeOK /\ FenceInv /\ BlankInv
    BY InitTypeOK DEF RecoveryInit, Init, FenceInv, OneOwnerPerGeneration, AbsentRow, BlankInv
<1>2. \A c \in Calls : calls[c].status = "absent" /\ calls[c].provider = "none"
    BY DEF RecoveryInit, Init, AbsentRow
<1>3. NothingHeard \in Report
    BY CallStoreAssumption DEF NothingHeard, Report
<1>4. IdlePass \in Pass /\ IdlePass.phase = "idle"
    BY DEF IdlePass, Pass, PassLease, Time, NoTime
<1>5. pass \in [Sweepers -> Pass] /\ \A s \in Sweepers : pass[s] = IdlePass
    BY <1>4 DEF RecoveryInit
<1>6. RecoveryTypeOK /\ PassInv
    BY <1>1, <1>3, <1>4, <1>5, RecoveryAssumption
       DEF RecoveryInit, RecoveryTypeOK, PassInv, Sweeping, Pass
<1>7. HeardInv
    BY DEF RecoveryInit, HeardInv
<1>8. RecoveredCalls = {}
    BY <1>2 DEF RecoveredCalls, Terminal, TerminalStatuses
<1>9. SuccessInv
    BY <1>2, <1>4, <1>5, <1>8, RecoveryAssumption DEF SuccessInv, SuccessIsNeverInvented
<1>10. QuietInv
    BY <1>2, <1>4, <1>5, <1>8 DEF QuietInv, Quiet, Active, KnowsTheReport, QuietReportDecides
<1> QED
    BY <1>1, <1>6, <1>7, <1>9, <1>10 DEF RecoveryInv

LEMMA RecoveryInvNext == RecoveryInv /\ [RecoveryNext]_recoveryVars => RecoveryInv'
<1> SUFFICES ASSUME RecoveryInv, [RecoveryNext]_recoveryVars PROVE RecoveryInv'
    OBVIOUS
<1>1. ASSUME NEW s \in Sweepers, SweepStep(s) \/ Defer(s) \/ SweeperDies(s) PROVE RecoveryInv'
    BY <1>1, ReadingStepKeeps, TakeOverKeeps, WriteBackKeeps, EndCallKeeps DEF SweepStep
<1>2. ASSUME CallWorkerStep \/ WorkersDie \/ RecoveryTick PROVE RecoveryInv'
    BY <1>2, WorldStepKeeps
<1>3. ASSUME NEW c \in Calls, NEW state \in ProviderStates, CarrierReports(c, state)
      PROVE  RecoveryInv'
    BY <1>3, ReportKeeps
<1>4. CASE UNCHANGED recoveryVars
  <2>1. pass' = pass /\ heard' = heard /\ workersUp' \in BOOLEAN /\ faults' = faults
        /\ leases \subseteq leases' /\ \A c \in Calls : RowAsBefore(c)
      BY <1>4 DEF recoveryVars, sweepVars, storeVars, RowAsBefore, RecoveryInv, RecoveryTypeOK
  <2> QED
      BY <2>1, TablesKept, WorldKeeps
<1> QED
    BY <1>1, <1>2, <1>3, <1>4 DEF RecoveryNext

LEMMA RecoveryAlways == RecoverySpec => []RecoveryInv
BY RecoveryInvInit, RecoveryInvNext, PTL DEF RecoverySpec

-----------------------------------------------------------------------------
(* The theorems *)

\* The sweeps' passes and the tables keep their shape.
THEOREM RecoveryTypeCorrect == RecoverySpec => []RecoveryTypeOK
<1>1. RecoveryInv => RecoveryTypeOK
    BY DEF RecoveryInv
<1> QED
    BY <1>1, RecoveryAlways, PTL

\* A call that recovery completed is one whose carrier reported it completed, through
\* races, lost leases, failed passes and dying sweepers.
THEOREM SuccessIsReported == RecoverySpec => []SuccessIsNeverInvented
<1>1. RecoveryInv => SuccessIsNeverInvented
    BY DEF RecoveryInv, SuccessInv
<1> QED
    BY <1>1, RecoveryAlways, PTL

\* The last report before the takeover decides the outcome, unless it fell between an
\* earlier sweep's reading and writing back.
THEOREM QuietReportsDecide == RecoverySpec => []QuietReportDecides
<1>1. RecoveryInv => QuietReportDecides
    BY DEF RecoveryInv, QuietInv
<1> QED
    BY <1>1, RecoveryAlways, PTL

\* Sweeps, workers and callbacks use the repository through its methods, with leases it
\* gave them: they are among the callers that CallStore's theorems are about.
THEOREM RecoveryUsesTheRepository == RecoverySpec => MethodSpec
<1>1. RecoveryInit => Init
    BY DEF RecoveryInit
<1>2. RecoveryInv /\ [RecoveryNext]_recoveryVars => [MethodStep]_storeVars
    BY RecoveryStepsAreMethods
<1> QED
    BY <1>1, <1>2, RecoveryAlways, PTL DEF RecoverySpec, MethodSpec

\* So a recovered call, too, has exactly one terminal event, which says what its row says;
\* only the owner of the moment writes it, its end is final, and it is a call as
\* CallOutcome describes one.
THEOREM RecoveredCallsKeepThePromise ==
    RecoverySpec => /\ []AtMostOneEventOfAKind /\ []OutcomeIsPublished
                    /\ OnlyTheCurrentGenerationWrites /\ FinishedIsFinal /\ ImplementsOutcome
BY RecoveryUsesTheRepository, MethodsKeepThePromise

\* A generation that a sweeper owns begins with its takeover.
LEMMA OnlyTakeOverOwns ==
    ASSUME RecoveryInv, [RecoveryNext]_recoveryVars, NEW s \in Sweepers, NEW c \in Calls,
           calls'[c].gen > calls[c].gen, calls'[c].owner = s
    PROVE  TakeOver(s, c)
<1>0. /\ calls \in [Calls -> CallRow] /\ calls[c].gen \in Nat
      /\ ~(calls'[c].gen = calls[c].gen)
    BY RowFacts
<1>1. ~UNCHANGED recoveryVars /\ ~WorkersDie /\ ~RecoveryTick
    BY <1>0 DEF recoveryVars, sweepVars, storeVars, WorkersDie, RecoveryTick, Tick
<1>2. ASSUME NEW q \in Sweepers, SweepStep(q) \/ Defer(q) \/ SweeperDies(q)
      PROVE  TakeOver(s, c)
  <2>1. ASSUME NEW d \in Calls, TakeOver(q, d) PROVE d = c /\ q = s
    <3>1. calls'[d].owner = q /\ \A e \in Calls \ {d} : calls'[e] = calls[e]
        BY <1>0, <2>1 DEF TakeOver, TakeoverExpiredCall, GrantNextGeneration, CallRow
    <3> QED
        BY <1>0, <3>1
  <2>2. ~WriteBack(q)
    <3>1. ASSUME WriteBack(q) PROVE pass[q].lease.call \in Calls
        BY <3>1, PassHolds DEF WriteBack, Sweeping
    <3> QED
        BY <1>0, <3>1 DEF WriteBack, UpdateProviderState, CallRow
  <2>3. ASSUME NEW i \in EventIds, EndCall(q, i) PROVE FALSE
    <3>1. pass[q].lease.call \in Calls
        BY <2>3, PassHolds DEF EndCall, Sweeping
    <3>2. PICK l, reason, provider, t : l = pass[q].lease /\ Terminalize(l, reason, provider, t, i)
        BY <2>3 DEF EndCall
    <3>3. /\ calls'[l.call].gen = calls[l.call].gen
          /\ \A d \in Calls \ {l.call} : calls'[d] = calls[d]
        BY <1>0, <3>1, <3>2, TerminalizedRow
    <3> QED
        BY <1>0, <3>3
  <2> QED
      BY <1>0, <1>2, <2>1, <2>2, <2>3
         DEF SweepStep, StartPass, FindTaken, Reconcile, Superseded, FinishPass, Defer,
             SweeperDies, storeVars
<1>3. ~CallWorkerStep
  <2> SUFFICES ASSUME CallWorkerStep PROVE FALSE
      OBVIOUS
  <2>1. /\ pass' = pass /\ heard' = heard /\ leases \subseteq Lease
      BY DEF CallWorkerStep, sweepVars, RecoveryInv, FenceInv, TypeOK
  <2>2. ASSUME NEW d \in Calls, NEW o \in Workers, BeginCall(d, o, FALSE, now) PROVE FALSE
      BY <1>0, <2>2 DEF BeginCall, AbsentRow, Workers
  <2>3. ASSUME NEW l \in leases, RenewLease(l, now) PROVE FALSE
      BY <1>0, <2>1, <2>3 DEF RenewLease, Lease, CallRow
  <2>4. ASSUME NEW l \in leases, NEW data, FlushResults(l, data) PROVE FALSE
      BY <1>0, <2>1, <2>4 DEF FlushResults, Lease, CallRow
  <2>5. ASSUME NEW l \in leases, NEW reason, NEW i, Terminalize(l, reason, "none", now, i)
        PROVE  FALSE
    <3>1. l.call \in Calls
        BY <2>1 DEF Lease
    <3> QED
        BY <1>0, <2>5, <3>1, TerminalizedRow
  <2> QED
      BY <2>2, <2>3, <2>4, <2>5 DEF CallWorkerStep, sweepVars
<1>4. ASSUME NEW d \in Calls, NEW state, CarrierReports(d, state) PROVE FALSE
    BY <1>0, <1>4 DEF CarrierReports, RecordProviderObservation, CallRow
<1> QED
    BY <1>1, <1>2, <1>3, <1>4 DEF RecoveryNext

\* What the comparison of two texts says of the instants.
LEMMA TextOrder ==
    ASSUME NEW a \in Int, NEW b \in Int, IsoLeq(a, b)
    PROVE  /\ a <= b + TicksPerSecond
           /\ TicksPerSecond = 1 => a <= b
<1>1. TicksPerSecond \in Nat /\ TicksPerSecond > 0
    BY TicksPerSecondAssumption
<1>2. IsoRank(a) \in {a, a + TicksPerSecond} /\ IsoRank(b) \in {b, b + TicksPerSecond}
    BY DEF IsoRank
<1>3. TicksPerSecond = 1 => IsoRank(a) = a + 1 /\ IsoRank(b) = b + 1
    BY DEF IsoRank, Fraction
<1> QED
    BY <1>1, <1>2, <1>3 DEF IsoLeq

\* The call that a sweep takes over has given its lease back, or the lease ends at most
\* d ticks after the pass began.
TakenWithin(d) ==
    \A s \in Sweepers, c \in Calls :
        calls'[c].gen > calls[c].gen /\ calls'[c].owner = s => calls[c].expires <= pass[s].at + d

LEMMA TakeOverIsLate ==
    RecoveryInv /\ [RecoveryNext]_recoveryVars =>
        /\ TakenWithin(TicksPerSecond)
        /\ TicksPerSecond = 1 => TakenWithin(0)
<1> SUFFICES ASSUME RecoveryInv, [RecoveryNext]_recoveryVars, NEW s \in Sweepers, NEW c \in Calls,
                    calls'[c].gen > calls[c].gen, calls'[c].owner = s
             PROVE  /\ calls[c].expires <= pass[s].at + TicksPerSecond
                    /\ TicksPerSecond = 1 => calls[c].expires <= pass[s].at + 0
    BY DEF TakenWithin
<1>1. TakeOver(s, c)
    BY OnlyTakeOverOwns
<1>2. LeaseLapsed(c, pass[s].at) /\ pass[s].at \in Nat
    BY <1>1 DEF TakeOver, TakeoverExpiredCall, RecoveryInv, PassInv
<1>3. calls[c].expires \in Int
    BY RowFacts DEF CallRow, Time
<1> QED
    BY <1>2, <1>3, TextOrder, TicksPerSecondAssumption DEF LeaseLapsed, NoTime

\* A sweep that works from an old list never takes over a call whose lease reaches more
\* than a second beyond the start of its pass.
THEOREM TakeoversAreHardlyEarly == RecoverySpec => [][TakenWithin(TicksPerSecond)]_recoveryVars
<1>1. RecoveryInv /\ [RecoveryNext]_recoveryVars => [TakenWithin(TicksPerSecond)]_recoveryVars
    BY TakeOverIsLate
<1> QED
    BY <1>1, RecoveryAlways, PTL DEF RecoverySpec

\* With timestamps of whole seconds, whose texts order as the instants do, a call that
\* was renewed since the listing is left alone.  (With fractions the texts do not, and
\* it is not: TakeoverAfterExpiry.)
THEOREM RenewedCallsAreLeftAlone ==
    ASSUME TicksPerSecond = 1
    PROVE  RecoverySpec => RenewedSinceListingIsLeftAlone
<1> DEFINE Late == \A s \in Sweepers, c \in Calls :
                     calls'[c].gen > calls[c].gen /\ calls'[c].owner = s =>
                       calls[c].expires <= pass[s].at
<1>1. ASSUME RecoveryInv, [RecoveryNext]_recoveryVars PROVE [Late]_recoveryVars
  <2>1. \A s \in Sweepers, c \in Calls : calls'[c].owner = s /\ calls'[c].gen > calls[c].gen =>
            calls[c].expires <= pass[s].at + 0
      BY <1>1, TakeOverIsLate DEF TakenWithin
  <2>2. \A s \in Sweepers : pass[s].at \in Int
      BY <1>1 DEF RecoveryInv, PassInv, Pass, Time
  <2> QED
      BY <2>1, <2>2
<1>2. RecoverySpec => [][Late]_recoveryVars
    BY <1>1, RecoveryAlways, PTL DEF RecoverySpec
<1> QED
    BY <1>2 DEF RenewedSinceListingIsLeftAlone
===============================================================================
