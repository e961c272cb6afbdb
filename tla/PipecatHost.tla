------------------------------ MODULE PipecatHost ------------------------------
(***************************************************************************)
(* The calls of one Pipecat process: the admission table                   *)
(* (AdmissionController), the lifecycle of each call (PipecatCallLifecycle)*)
(* and the host's tables of calls that wait for their media and of         *)
(* sessions that run (PipecatRuntimeHost).                                 *)
(*                                                                         *)
(* Everything runs on one event loop, so a step is the code between two    *)
(* awaits.  The state lock is held across awaits in reserve_call alone;    *)
(* every other section under it is one step that needs the lock free.  The *)
(* database is the durable row of a call and the writes that may fail.     *)
(***************************************************************************)
EXTENDS Naturals, FiniteSets

CONSTANTS HostCalls,
          WebCalls,       \* the browser's: reserved once, claimed by an offer
          CarrierDecides, \* Vobiz, Plivo: the session waits for the carrier's event
          NoCall,
          MaxConcurrent,  \* limits.max_concurrent
          MaxAnswers,     \* bound: answer webhooks of a call that find it not waiting
          MaxReloads,     \* bound: revisions applied by hot reload
          MaxStoreFaults  \* bound: writes of the repository that fail

ASSUME HostAssumption ==
    /\ IsFiniteSet(HostCalls)
    /\ WebCalls \subseteq HostCalls /\ CarrierDecides \subseteq HostCalls \ WebCalls
    /\ NoCall \notin HostCalls
    /\ MaxConcurrent \in Nat \ {0} /\ MaxAnswers \in Nat \ {0}
    /\ MaxReloads \in Nat /\ MaxStoreFaults \in Nat

VARIABLES
    accepting,  \* _accepting
    revision,   \* how often `agent` was replaced
    reserving,  \* the call whose reserve_call holds the state lock, or NoCall
    granted,    \* the admission lease that reserve_call got
    answers,    \* [HostCalls -> answers that went past the table of waiting calls]
    slot,       \* [HostCalls -> admission lease of the call, 0 without]
    lifecycle,  \* [HostCalls -> admission lease its lifecycle will release, 0 without]
    row,        \* [HostCalls -> "none", "active" or "ended"]: the durable call
    beating,    \* calls whose lease is renewed
    waiting,    \* _pending
    sessions,   \* _active
    handler,    \* [HostCalls -> where the task that took the call out of _pending stands]
    offer,      \* [WebCalls -> where an offer that may come too late stands]
    finish,     \* [HostCalls -> "no", "stored" (lock held) or "done"]: finish
    signalled,  \* calls whose session has a reason to end
    hungUp,     \* calls whose carrier reported the end
    idle,       \* _idle
    drain,      \* where drain() stands
    remaining,  \* DrainReport.remaining_calls
    storeFaults

tables   == <<answers, slot, lifecycle, waiting, sessions>>
hostVars == <<accepting, revision, reserving, granted, tables, row, beating, handler,
              offer, finish, signalled, hungUp, idle, drain, remaining, storeFaults>>

HostInit ==
    /\ accepting = TRUE /\ revision = 0 /\ reserving = NoCall /\ granted = 0
    /\ answers = [c \in HostCalls |-> 0]
    /\ slot = [c \in HostCalls |-> 0] /\ lifecycle = [c \in HostCalls |-> 0]
    /\ row = [c \in HostCalls |-> "none"] /\ beating = {}
    /\ waiting = {} /\ sessions = {}
    /\ handler = [c \in HostCalls |-> "none"] /\ offer = [c \in WebCalls |-> "none"]
    /\ finish = [c \in HostCalls |-> "no"]
    /\ signalled = {} /\ hungUp = {}
    /\ idle = TRUE /\ drain = "no" /\ remaining = 0 /\ storeFaults = 0

LockFree == reserving = NoCall
ActiveCount == Cardinality({c \in HostCalls : slot[c] # 0})

StoreFails == storeFaults < MaxStoreFaults /\ storeFaults' = storeFaults + 1

\* AdmissionController.release: only the exact lease.
Released(c, lease) == [slot EXCEPT ![c] = IF @ = lease THEN 0 ELSE @]

\* _mark_idle_if_empty.
IdleIfEmpty == idle' = (idle \/ ActiveCount = 0)

-----------------------------------------------------------------------------
(* Admission: reserve_call.                                                *)

\* Mutant: a draining host still answers.
AcquireWhileDraining(c) ==
    /\ LockFree /\ c \notin waiting
    /\ answers[c] < IF c \in WebCalls THEN 1 ELSE MaxAnswers
    /\ (slot[c] # 0 \/ ActiveCount < MaxConcurrent)
    /\ answers' = [answers EXCEPT ![c] = @ + 1]
    /\ reserving' = c /\ granted' = answers[c] + 1
    /\ slot' = [slot EXCEPT ![c] = granted']
    /\ UNCHANGED <<accepting, revision, lifecycle, waiting, sessions, row, beating, handler,
                   offer, finish, signalled, hungUp, idle, drain, remaining, storeFaults>>

\* An answer for a call that waits is answered from the table and changes
\* nothing.  Any other acquires a slot: the one the call has, or a new one.
Acquire(c) ==
    /\ LockFree /\ c \notin waiting /\ accepting
    /\ answers[c] < IF c \in WebCalls THEN 1 ELSE MaxAnswers
    /\ (slot[c] # 0 \/ ActiveCount < MaxConcurrent)
    /\ answers' = [answers EXCEPT ![c] = @ + 1]
    /\ reserving' = c
    /\ granted' = IF slot[c] # 0 THEN slot[c] ELSE answers[c] + 1
    /\ slot' = [slot EXCEPT ![c] = granted']
    /\ UNCHANGED <<accepting, revision, lifecycle, waiting, sessions, row, beating, handler,
                   offer, finish, signalled, hungUp, idle, drain, remaining, storeFaults>>

\* begin_call inserts the row, _activate notes it, and the call waits for media.
BeginLifecycle ==
    LET c == reserving IN
    /\ c # NoCall /\ row[c] = "none"
    /\ row' = [row EXCEPT ![c] = "active"] /\ beating' = beating \cup {c}
    /\ lifecycle' = [lifecycle EXCEPT ![c] = granted]
    /\ waiting' = waiting \cup {c} /\ idle' = FALSE
    /\ reserving' = NoCall /\ granted' = 0
    /\ UNCHANGED <<accepting, revision, answers, slot, sessions, handler, offer, finish,
                   signalled, hungUp, drain, remaining, storeFaults>>

\* Mutant: a failed insert keeps its slot.
BeginFailsHolding ==
    LET c == reserving IN
    /\ c # NoCall
    /\ \/ row[c] # "none" /\ UNCHANGED storeFaults
       \/ row[c] = "none" /\ StoreFails
    /\ reserving' = NoCall /\ granted' = 0
    /\ UNCHANGED <<accepting, revision, tables, row, beating, handler, offer, finish,
                   signalled, hungUp, idle, drain, remaining>>

\* The insert fails, for a call that has its row or for a fault of the store:
\* the lease that was acquired is released.
BeginFails ==
    LET c == reserving IN
    /\ c # NoCall
    /\ \/ row[c] # "none" /\ UNCHANGED storeFaults
       \/ row[c] = "none" /\ StoreFails
    /\ slot' = Released(c, granted)
    /\ reserving' = NoCall /\ granted' = 0
    /\ UNCHANGED <<accepting, revision, answers, lifecycle, waiting, sessions, row, beating,
                   handler, offer, finish, signalled, hungUp, idle, drain, remaining>>

\* The row is there and its lease is renewed, but the note that it was admitted
\* fails: nobody keeps the lifecycle.
ActivateFails ==
    LET c == reserving IN
    /\ c # NoCall /\ row[c] = "none" /\ StoreFails
    /\ row' = [row EXCEPT ![c] = "active"] /\ beating' = beating \cup {c}
    /\ lifecycle' = [lifecycle EXCEPT ![c] = granted]
    /\ handler' = [handler EXCEPT ![c] = "abandoned"]
    /\ reserving' = NoCall /\ granted' = 0
    /\ UNCHANGED <<accepting, revision, answers, slot, waiting, sessions, offer, finish,
                   signalled, hungUp, idle, drain, remaining>>

\* Mutant: a revision is applied whatever runs.
ReloadAnyTime ==
    /\ LockFree /\ revision < MaxReloads
    /\ revision' = revision + 1 /\ slot' = [c \in HostCalls |-> 0]
    /\ UNCHANGED <<accepting, reserving, granted, answers, lifecycle, waiting, sessions, row,
                   beating, handler, offer, finish, signalled, hungUp, idle, drain, remaining,
                   storeFaults>>

\* reload_agent: the runner, the agent and an empty admission table.
ReloadAgent ==
    /\ LockFree /\ ActiveCount = 0 /\ revision < MaxReloads
    /\ revision' = revision + 1 /\ slot' = [c \in HostCalls |-> 0]
    /\ UNCHANGED <<accepting, reserving, granted, answers, lifecycle, waiting, sessions, row,
                   beating, handler, offer, finish, signalled, hungUp, idle, drain, remaining,
                   storeFaults>>

-----------------------------------------------------------------------------
(* From the table of waiting calls to a session.                           *)

\* Whoever takes the call out of _pending goes on alone, at stage h.
TakeWaiting(c, h) ==
    /\ LockFree /\ c \in waiting
    /\ waiting' = waiting \ {c}
    /\ handler' = [handler EXCEPT ![c] = h]
    /\ UNCHANGED <<accepting, revision, reserving, granted, answers, slot, lifecycle,
                   sessions, row, beating, finish, signalled, idle, storeFaults>>

\* The media socket of a phone call presents the token of its reservation.
ClaimPending(c) ==
    /\ c \notin WebCalls /\ slot[c] = lifecycle[c] /\ TakeWaiting(c, "claimed")
    /\ UNCHANGED <<offer, hungUp, drain, remaining>>

\* _expire_pending, or a recording request that fails (_fail_pending_setup).
GiveUpPending(c) ==
    /\ TakeWaiting(c, "noting")
    /\ UNCHANGED <<offer, hungUp, drain, remaining>>

\* web_offer reads the table first and claims once the connection is made.
OfferFindsPending(c) ==
    /\ LockFree /\ c \in waiting /\ offer[c] = "none"
    /\ offer' = [offer EXCEPT ![c] = "looking"]
    /\ UNCHANGED <<accepting, revision, reserving, granted, tables, row, beating, handler,
                   finish, signalled, hungUp, idle, drain, remaining, storeFaults>>

OfferClaims(c) ==
    /\ offer[c] = "looking" /\ slot[c] = lifecycle[c] /\ TakeWaiting(c, "claimed")
    /\ offer' = [offer EXCEPT ![c] = "done"]
    /\ UNCHANGED <<hungUp, drain, remaining>>

\* The claim fails, and the offer fails a call that is another's by now.
OfferTooLate(c) ==
    /\ offer[c] = "looking" /\ c \notin waiting
    /\ offer' = [offer EXCEPT ![c] = "noting"]
    /\ UNCHANGED <<accepting, revision, reserving, granted, tables, row, beating, handler,
                   finish, signalled, hungUp, idle, drain, remaining, storeFaults>>

Move(c, from, to) == handler[c] = from /\ handler' = [handler EXCEPT ![c] = to]

\* The session is built and listed, and starts.
ListSession(c) ==
    /\ LockFree /\ Move(c, "claimed", "starting")
    /\ sessions' = sessions \cup {c}
    /\ UNCHANGED <<accepting, revision, reserving, granted, answers, slot, lifecycle, waiting,
                   row, beating, offer, finish, signalled, hungUp, idle, drain, remaining,
                   storeFaults>>

StartSession(c) ==
    /\ Move(c, "starting", "running")
    /\ UNCHANGED <<accepting, revision, reserving, granted, tables, row, beating, offer,
                   finish, signalled, hungUp, idle, drain, remaining, storeFaults>>

SetupFails(c) ==
    /\ \/ Move(c, "claimed", "noting")
       \/ Move(c, "starting", "noting")
    /\ UNCHANGED <<accepting, revision, reserving, granted, tables, row, beating, offer,
                   finish, signalled, hungUp, idle, drain, remaining, storeFaults>>

\* The worker ends: the caller leaves, the flow ends, the duration limit or an
\* end() that was asked for.  Some carriers' sessions wait for their event.
WorkerEnds(c) ==
    /\ Move(c, "running",
            IF c \in CarrierDecides /\ c \notin signalled THEN "awaiting" ELSE "finishing")
    /\ UNCHANGED <<accepting, revision, reserving, granted, tables, row, beating, offer,
                   finish, signalled, hungUp, idle, drain, remaining, storeFaults>>

\* Mutant: the wait for the carrier has no end.
CarrierSettlesByEvent(c) ==
    /\ c \in signalled /\ Move(c, "awaiting", "finishing")
    /\ UNCHANGED <<accepting, revision, reserving, granted, tables, row, beating, offer,
                   finish, signalled, hungUp, idle, drain, remaining, storeFaults>>

\* The carrier's event came, or max_duration_s + 30 seconds went by.
CarrierSettles(c) ==
    /\ Move(c, "awaiting", "finishing")
    /\ UNCHANGED <<accepting, revision, reserving, granted, tables, row, beating, offer,
                   finish, signalled, hungUp, idle, drain, remaining, storeFaults>>

\* _end_from_provider: a listed session is told, a waiting call is finished, and
\* between the two tables the report falls through.
ProviderEnds(c) ==
    /\ c \notin WebCalls /\ row[c] # "none" /\ c \notin hungUp
    /\ hungUp' = hungUp \cup {c}
    /\ \/ /\ LockFree /\ c \in sessions
          /\ signalled' = signalled \cup {c}
          /\ UNCHANGED <<accepting, revision, reserving, granted, tables, row, beating,
                         handler, finish, idle, storeFaults>>
       \/ c \notin sessions /\ TakeWaiting(c, "last")
       \/ /\ LockFree /\ c \notin sessions \cup waiting
          /\ UNCHANGED <<accepting, revision, reserving, granted, tables, row, beating,
                         handler, finish, signalled, idle, storeFaults>>
    /\ UNCHANGED <<offer, drain, remaining>>

-----------------------------------------------------------------------------
(* The end of a call: fail_setup and finish.  A handler at "noting" is in   *)
(* fail_setup; at "finishing" its failure leads to fail_setup (the media    *)
(* socket's except), at "last" it is given up.                              *)

\* fail_setup's note in the timeline, which takes no lease.
NoteFailure(c) ==
    /\ \/ Move(c, "noting", "last") /\ UNCHANGED offer
       \/ c \in WebCalls /\ offer[c] = "noting" /\ offer' = [offer EXCEPT ![c] = "last"]
          /\ UNCHANGED handler
    /\ UNCHANGED <<accepting, revision, reserving, granted, tables, row, beating, finish,
                   signalled, hungUp, idle, drain, remaining, storeFaults>>

\* The note fails: finish is not called.  A socket's handler still cleans up.
NoteFails(c) ==
    /\ LockFree /\ StoreFails
    /\ \/ /\ Move(c, "noting", IF c \in beating THEN "abandoned" ELSE "stuck")
          /\ sessions' = IF c \in WebCalls THEN sessions ELSE sessions \ {c}
          /\ UNCHANGED offer /\ (IdleIfEmpty \/ UNCHANGED idle)
       \/ /\ c \in WebCalls /\ offer[c] = "noting" /\ offer' = [offer EXCEPT ![c] = "done"]
          /\ UNCHANGED <<handler, sessions, idle>>
    /\ UNCHANGED <<accepting, revision, reserving, granted, answers, slot, lifecycle, waiting,
                   row, beating, finish, signalled, hungUp, drain, remaining>>

Finishers(c) ==
    {a \in {"handler", "offer"} :
        IF a = "handler" THEN handler[c] \in {"finishing", "last"}
                         ELSE c \in WebCalls /\ offer[c] = "last"}

\* Under the finish lock: the results and the terminal event are stored by the
\* owner of the row, and the heartbeat stops.
FinishStores(c) ==
    /\ Finishers(c) # {} /\ finish[c] = "no" /\ row[c] = "active"
    /\ finish' = [finish EXCEPT ![c] = "stored"]
    /\ row' = [row EXCEPT ![c] = "ended"] /\ beating' = beating \ {c}
    /\ UNCHANGED <<accepting, revision, reserving, granted, tables, handler, offer, signalled,
                   hungUp, idle, drain, remaining, storeFaults>>

FinishReleases(c) ==
    /\ finish[c] = "stored"
    /\ finish' = [finish EXCEPT ![c] = "done"]
    /\ slot' = Released(c, lifecycle[c])
    /\ UNCHANGED <<accepting, revision, reserving, granted, answers, lifecycle, waiting,
                   sessions, row, beating, handler, offer, signalled, hungUp, idle, drain,
                   remaining, storeFaults>>

\* Back in the caller: it takes its session off the list and sets _idle.  Only
\* a web session that never started stays listed.
FinishReturns(c) ==
    /\ LockFree /\ finish[c] = "done"
    /\ \/ /\ handler[c] \in {"finishing", "last"}
          /\ handler' = [handler EXCEPT ![c] = "done"]
          /\ sessions' = IF c \in WebCalls /\ handler[c] = "last" THEN sessions ELSE sessions \ {c}
          /\ UNCHANGED offer
       \/ /\ c \in WebCalls /\ offer[c] = "last" /\ offer' = [offer EXCEPT ![c] = "done"]
          /\ UNCHANGED <<handler, sessions>>
    /\ IdleIfEmpty
    /\ UNCHANGED <<accepting, revision, reserving, granted, answers, slot, lifecycle, waiting,
                   row, beating, finish, signalled, hungUp, drain, remaining, storeFaults>>

\* A write fails, or the row is another owner's by now: the heartbeat stops and
\* the slot stays.
FinishFails(c) ==
    /\ LockFree /\ finish[c] = "no"
    /\ \/ row[c] = "ended" /\ UNCHANGED storeFaults
       \/ row[c] = "active" /\ StoreFails
    /\ beating' = beating \ {c}
    /\ \/ /\ handler[c] = "finishing" /\ c \notin WebCalls
          /\ handler' = [handler EXCEPT ![c] = "noting"]
          /\ UNCHANGED <<offer, sessions, idle>>
       \/ /\ handler[c] \in {"last"} \cup {h \in {"finishing"} : c \in WebCalls}
          /\ sessions' = IF c \in WebCalls /\ handler[c] = "last" THEN sessions ELSE sessions \ {c}
          /\ handler' = [handler EXCEPT ![c] = "stuck"]
          /\ UNCHANGED offer /\ (IdleIfEmpty \/ UNCHANGED idle)
       \/ /\ c \in WebCalls /\ offer[c] = "last" /\ offer' = [offer EXCEPT ![c] = "done"]
          /\ UNCHANGED <<handler, sessions, idle>>
    /\ UNCHANGED <<accepting, revision, reserving, granted, answers, slot, lifecycle, waiting,
                   row, finish, signalled, hungUp, drain, remaining>>

\* A renewal fails, which ends the heartbeat without a word.
HeartbeatDies(c) ==
    /\ c \in beating /\ StoreFails
    /\ beating' = beating \ {c}
    /\ UNCHANGED <<accepting, revision, reserving, granted, tables, row, handler, offer,
                   finish, signalled, hungUp, idle, drain, remaining>>

\* Another owner of the database, a companion that recovers stale calls, ends a row whose
\* lease has run out.  The dev host and the container start none themselves, so nothing
\* below counts on it; finish meets what it leaves (lease lost, FinishFails).
RecoveryEnds(c) ==
    /\ row[c] = "active" /\ c \notin beating
    /\ row' = [row EXCEPT ![c] = "ended"]
    /\ UNCHANGED <<accepting, revision, reserving, granted, tables, beating, handler, offer,
                   finish, signalled, hungUp, idle, drain, remaining, storeFaults>>

-----------------------------------------------------------------------------
(* drain().                                                                *)

BeginDrain ==
    /\ LockFree /\ drain = "no"
    /\ accepting' = FALSE
    /\ drain' = IF ActiveCount = 0 THEN "leaving" ELSE "idling"
    /\ UNCHANGED <<revision, reserving, granted, tables, row, beating, handler, offer, finish,
                   signalled, hungUp, idle, remaining, storeFaults>>

\* The timeout: every listed session is told to end, and so is every waiting
\* call, one after the other; five seconds later drain reports regardless.
ForceDrain ==
    /\ LockFree /\ drain = "idling"
    /\ drain' = "leaving"
    /\ signalled' = signalled \cup sessions
    /\ handler' = [c \in HostCalls |-> IF c \in waiting THEN "last" ELSE handler[c]]
    /\ waiting' = {}
    /\ UNCHANGED <<accepting, revision, reserving, granted, answers, slot, lifecycle, sessions,
                   row, beating, offer, finish, hungUp, idle, remaining, storeFaults>>

ReportDrain ==
    /\ drain = "leaving" \/ (drain = "idling" /\ idle)
    /\ drain' = "reported" /\ remaining' = ActiveCount
    /\ UNCHANGED <<accepting, revision, reserving, granted, tables, row, beating, handler,
                   offer, finish, signalled, hungUp, idle, storeFaults>>

-----------------------------------------------------------------------------
Reservation == BeginLifecycle \/ BeginFails \/ ActivateFails

Session(c) ==
    \/ ListSession(c) \/ StartSession(c) \/ SetupFails(c) \/ WorkerEnds(c) \/ CarrierSettles(c)

Offer(c) == OfferFindsPending(c) \/ OfferClaims(c) \/ OfferTooLate(c)

Ending(c) ==
    \/ NoteFailure(c) \/ NoteFails(c) \/ FinishStores(c) \/ FinishReleases(c)
    \/ FinishReturns(c) \/ FinishFails(c)

HostNext ==
    \/ \E c \in HostCalls :
          \/ Acquire(c) \/ ClaimPending(c) \/ GiveUpPending(c) \/ Session(c)
          \/ ProviderEnds(c) \/ Ending(c) \/ HeartbeatDies(c) \/ RecoveryEnds(c)
    \/ \E c \in WebCalls : Offer(c)
    \/ Reservation \/ ReloadAgent \/ BeginDrain \/ ForceDrain \/ ReportDrain

HostSpec == HostInit /\ [][HostNext]_hostVars

(* Fairness: the tasks of a call go on.  The store answers, a waiting call  *)
(* is claimed or expires, and a session starts or fails and ends by its     *)
(* duration limit at the latest.  No carrier need report, nobody need drain *)
(* or reload, and nobody recovers stale calls: these hosts start no         *)
(* recovery.  Every step of a call's tasks brings it nearer to its end, so  *)
(* one condition per call does.                                             *)
CallGoesOn(c) == GiveUpPending(c) \/ Session(c) \/ Ending(c)

HostFairness ==
    /\ WF_hostVars(Reservation)
    /\ \A c \in HostCalls : WF_hostVars(CallGoesOn(c))

HostFairSpec == HostSpec /\ HostFairness

-----------------------------------------------------------------------------
(* Properties.                                                             *)

HostTypeOK ==
    /\ accepting \in BOOLEAN /\ idle \in BOOLEAN
    /\ revision \in 0 .. MaxReloads /\ storeFaults \in 0 .. MaxStoreFaults
    /\ reserving \in HostCalls \cup {NoCall} /\ granted \in 0 .. MaxAnswers
    /\ answers \in [HostCalls -> 0 .. MaxAnswers]
    /\ slot \in [HostCalls -> 0 .. MaxAnswers] /\ lifecycle \in [HostCalls -> 0 .. MaxAnswers]
    /\ row \in [HostCalls -> {"none", "active", "ended"}]
    /\ beating \subseteq HostCalls /\ waiting \subseteq HostCalls
    /\ sessions \subseteq HostCalls /\ signalled \subseteq HostCalls /\ hungUp \subseteq HostCalls
    /\ handler \in [HostCalls -> {"none", "claimed", "starting", "running", "awaiting",
                                  "finishing", "noting", "last", "done", "stuck", "abandoned"}]
    /\ offer \in [WebCalls -> {"none", "looking", "noting", "last", "done"}]
    /\ finish \in [HostCalls -> {"no", "stored", "done"}]
    /\ drain \in {"no", "idling", "leaving", "reported"}
    /\ remaining \in 0 .. Cardinality(HostCalls)

\* Calls whose media may be on, or may still come.
Live == waiting \cup {c \in HostCalls : handler[c] \in {"claimed", "starting", "running", "awaiting"}}

\* A live call holds the slot it was answered with, so that neither a call above
\* the limit nor a new revision comes while it lasts (admission.py, reload_agent):
\* whatever ends, fails or is reserved beside it.  A call whose answer webhook
\* was processed again after it left the table of waiting calls is excepted: that
\* one's failed reservation releases the slot of the live call.
LiveCallsKeepTheirSlot ==
    \A c \in Live : slot[c] = lifecycle[c] \/ answers[c] > 1

\* A slot that is taken is of a call that is being reserved, is live or is being
\* ended; any other was left by a write of the store that failed, or by a lease
\* that recovery took (lifecycle.py finish, fail_setup, _activate).
SlotsComeBack ==
    \A c \in HostCalls :
        slot[c] # 0 =>
            \/ c \in Live \/ c = reserving
            \/ handler[c] \in {"noting", "finishing", "last"} \/ finish[c] = "stored"
            \/ handler[c] \in {"stuck", "abandoned"}

\* A drain that reports no remaining call leaves none behind: no call is live,
\* and none is admitted afterwards (host.py drain, reserve_call).
DrainedMeansQuiet ==
    drain = "reported" /\ remaining = 0 =>
        \A c \in Live : answers[c] > 1

\* Every call that was started is ended by its own host: by its session, by its expiry
\* or by whoever else took it from the table of waiting calls, whatever the carrier
\* reports or fails to report, and though a write fails while it can still be tried
\* again.  Excepted is a call that its last task gave up, because the note in the
\* timeline or the last write failed (_activate, fail_setup, finish): its host never
\* ends it.
HostedCallsEnd ==
    \A c \in HostCalls :
        row[c] = "active" ~> row[c] = "ended" \/ handler[c] \in {"stuck", "abandoned"}

\* docs/hardening.md: every started call reaches exactly one readable terminal
\* event, here for as long as its process serves (_activate, fail_setup).
EveryStartedCallEnds ==
    \A c \in HostCalls : row[c] = "active" ~> row[c] = "ended" \/ drain # "no"
=============================================================================
