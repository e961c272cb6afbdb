-------------------------- MODULE PipecatHostProofs --------------------------
(***************************************************************************)
(* Proofs about PipecatHost, for every set of calls, every limit and every *)
(* number of answers, reloads and failed writes.                           *)
(***************************************************************************)
EXTENDS PipecatHost, FiniteSetTheorems, TLAPS

-----------------------------------------------------------------------------
(* The inductive invariant *)

\* The stages of a handler whose media may be on.
MediaStages == {"claimed", "starting", "running", "awaiting"}

\* A call goes one way: no row, then waiting, then with one handler, then finished;
\* an offer that comes too late never meets a handler that still serves media.
StageInv(c) ==
    /\ row[c] = "none" =>
         /\ lifecycle[c] = 0 /\ handler[c] = "none" /\ finish[c] = "no"
         /\ c \notin waiting /\ (c \in WebCalls => offer[c] = "none")
    /\ row[c] # "none" => lifecycle[c] # 0 /\ answers[c] >= 1
    /\ c \in waiting => handler[c] = "none"
    /\ handler[c] = "none" => (c \in waiting \/ row[c] = "none") /\ finish[c] = "no"
    /\ handler[c] \in MediaStages => finish[c] = "no"
    /\ handler[c] = "done" => finish[c] = "done"
    /\ c \in WebCalls /\ offer[c] \in {"looking", "noting", "last"} /\ c \notin waiting =>
         handler[c] \in {"noting", "last", "done", "stuck", "abandoned"}
    /\ c \in WebCalls /\ offer[c] \in {"noting", "last"} => c \notin waiting

\* Outside reserve_call a slot is the one its lifecycle will release, and a finished
\* call has none; inside it the slot is the one just granted, unless the call it
\* is of has just been finished.
SlotInv(c) ==
    /\ c # reserving => slot[c] \in {0, lifecycle[c]}
    /\ c # reserving /\ finish[c] = "done" => slot[c] = 0
    /\ c = reserving =>
         /\ answers[c] >= 1 /\ granted # 0 /\ slot[c] \in {0, granted}
         /\ row[c] = "none" => slot[c] = granted
         /\ row[c] # "none" => answers[c] > 1
    /\ c \in Live => slot[c] = lifecycle[c] \/ answers[c] > 1

\* A host that drains admits nobody, and one that has reported no remaining call has
\* no reservation under way that could still begin a call.
DrainInv ==
    /\ drain # "no" => ~ accepting
    /\ drain = "reported" /\ remaining = 0 =>
         /\ \A c \in Live : answers[c] > 1
         /\ reserving # NoCall => row[reserving] # "none"

HostInv ==
    /\ HostTypeOK
    /\ \A c \in HostCalls : StageInv(c) /\ SlotInv(c)
    /\ DrainInv




-----------------------------------------------------------------------------
(* Types *)

\* The host starts well typed.
LEMMA InitHostTypeOK == HostInit => HostTypeOK
BY HostAssumption, FS_CardinalityType DEF HostInit, HostTypeOK

\* What a drain can report is a number of calls.
LEMMA ActiveCountInRange ==
    /\ ActiveCount \in 0 .. Cardinality(HostCalls)
    /\ ActiveCount = 0 <=> \A c \in HostCalls : slot[c] = 0
<1> DEFINE Taken == {c \in HostCalls : slot[c] # 0}
<1>1. IsFiniteSet(HostCalls) /\ Taken \subseteq HostCalls
  BY HostAssumption
<1>2. /\ IsFiniteSet(Taken)
      /\ Cardinality(Taken) \in Nat /\ Cardinality(HostCalls) \in Nat
      /\ Cardinality(Taken) <= Cardinality(HostCalls)
  BY <1>1, FS_Subset, FS_CardinalityType
<1>3. Cardinality(Taken) = 0 <=> Taken = {}
  BY <1>2, FS_EmptySet
<1> QED
  BY <1>2, <1>3 DEF ActiveCount

\* Every step keeps the types.
LEMMA NextHostTypeOK == HostTypeOK /\ [HostNext]_hostVars => HostTypeOK'
<1> SUFFICES ASSUME HostTypeOK, [HostNext]_hostVars PROVE HostTypeOK'
  OBVIOUS
<1> USE HostAssumption
<1>1. ASSUME NEW c \in HostCalls, Acquire(c) PROVE HostTypeOK'
  BY <1>1, ActiveCountInRange DEF Acquire, HostTypeOK, tables
<1>2. ASSUME NEW c \in HostCalls, ClaimPending(c) PROVE HostTypeOK'
  BY <1>2, ActiveCountInRange DEF ClaimPending, TakeWaiting, HostTypeOK, tables
<1>3. ASSUME NEW c \in HostCalls, GiveUpPending(c) PROVE HostTypeOK'
  BY <1>3, ActiveCountInRange DEF GiveUpPending, TakeWaiting, HostTypeOK, tables
<1>4. ASSUME NEW c \in HostCalls, ListSession(c) PROVE HostTypeOK'
  BY <1>4, ActiveCountInRange DEF ListSession, Move, HostTypeOK, tables
<1>5. ASSUME NEW c \in HostCalls, StartSession(c) PROVE HostTypeOK'
  BY <1>5, ActiveCountInRange DEF StartSession, Move, HostTypeOK, tables
<1>6. ASSUME NEW c \in HostCalls, SetupFails(c) PROVE HostTypeOK'
  BY <1>6, ActiveCountInRange DEF SetupFails, Move, HostTypeOK, tables
<1>7. ASSUME NEW c \in HostCalls, WorkerEnds(c) PROVE HostTypeOK'
  BY <1>7, ActiveCountInRange DEF WorkerEnds, Move, HostTypeOK, tables
<1>8. ASSUME NEW c \in HostCalls, CarrierSettles(c) PROVE HostTypeOK'
  BY <1>8, ActiveCountInRange DEF CarrierSettles, Move, HostTypeOK, tables
<1>9. ASSUME NEW c \in HostCalls, ProviderEnds(c) PROVE HostTypeOK'
  BY <1>9, ActiveCountInRange DEF ProviderEnds, TakeWaiting, HostTypeOK, tables
<1>10. ASSUME NEW c \in HostCalls, NoteFailure(c) PROVE HostTypeOK'
  BY <1>10, ActiveCountInRange DEF NoteFailure, Move, HostTypeOK, tables
<1>11. ASSUME NEW c \in HostCalls, NoteFails(c) PROVE HostTypeOK'
  <2>1. handler' \in [HostCalls -> {"none", "claimed", "starting", "running", "awaiting",
                                    "finishing", "noting", "last", "done", "stuck", "abandoned"}]
    BY <1>11 DEF NoteFails, Move, HostTypeOK
  <2>2. offer' \in [WebCalls -> {"none", "looking", "noting", "last", "done"}]
    BY <1>11 DEF NoteFails, HostTypeOK
  <2>3. sessions' \subseteq HostCalls /\ storeFaults' \in 0 .. MaxStoreFaults
    BY <1>11 DEF NoteFails, StoreFails, HostTypeOK
  <2>4. idle' \in BOOLEAN
    BY <1>11 DEF NoteFails, IdleIfEmpty, HostTypeOK
  <2> QED
    BY <1>11, <2>1, <2>2, <2>3, <2>4 DEF NoteFails, HostTypeOK
<1>12. ASSUME NEW c \in HostCalls, FinishStores(c) PROVE HostTypeOK'
  BY <1>12, ActiveCountInRange DEF FinishStores, Finishers, HostTypeOK, tables
<1>13. ASSUME NEW c \in HostCalls, FinishReleases(c) PROVE HostTypeOK'
  BY <1>13, ActiveCountInRange DEF FinishReleases, Released, HostTypeOK, tables
<1>14. ASSUME NEW c \in HostCalls, FinishReturns(c) PROVE HostTypeOK'
  BY <1>14, ActiveCountInRange DEF FinishReturns, IdleIfEmpty, HostTypeOK, tables
<1>15. ASSUME NEW c \in HostCalls, FinishFails(c) PROVE HostTypeOK'
  <2>1. handler' \in [HostCalls -> {"none", "claimed", "starting", "running", "awaiting",
                                    "finishing", "noting", "last", "done", "stuck", "abandoned"}]
    BY <1>15 DEF FinishFails, HostTypeOK
  <2>2. offer' \in [WebCalls -> {"none", "looking", "noting", "last", "done"}]
    BY <1>15 DEF FinishFails, HostTypeOK
  <2>3. sessions' \subseteq HostCalls /\ storeFaults' \in 0 .. MaxStoreFaults
    BY <1>15 DEF FinishFails, StoreFails, HostTypeOK
  <2>4. idle' \in BOOLEAN
    BY <1>15 DEF FinishFails, IdleIfEmpty, HostTypeOK
  <2> QED
    BY <1>15, <2>1, <2>2, <2>3, <2>4 DEF FinishFails, HostTypeOK
<1>16. ASSUME NEW c \in HostCalls, HeartbeatDies(c) PROVE HostTypeOK'
  BY <1>16, ActiveCountInRange DEF HeartbeatDies, StoreFails, HostTypeOK, tables
<1>17. ASSUME NEW c \in HostCalls, RecoveryEnds(c) PROVE HostTypeOK'
  BY <1>17, ActiveCountInRange DEF RecoveryEnds, HostTypeOK, tables
<1>18. ASSUME NEW c \in WebCalls, OfferFindsPending(c) PROVE HostTypeOK'
  BY <1>18, ActiveCountInRange DEF OfferFindsPending, HostTypeOK, tables
<1>19. ASSUME NEW c \in WebCalls, OfferClaims(c) PROVE HostTypeOK'
  BY <1>19, ActiveCountInRange DEF OfferClaims, TakeWaiting, HostTypeOK, tables
<1>20. ASSUME NEW c \in WebCalls, OfferTooLate(c) PROVE HostTypeOK'
  BY <1>20, ActiveCountInRange DEF OfferTooLate, HostTypeOK, tables
<1>21. CASE BeginLifecycle
  <2>1. reserving \in HostCalls
    BY <1>21 DEF BeginLifecycle, HostTypeOK
  <2>2. /\ row' \in [HostCalls -> {"none", "active", "ended"}]
        /\ lifecycle' \in [HostCalls -> 0 .. MaxAnswers]
        /\ granted' \in 0 .. MaxAnswers /\ reserving' \in HostCalls \cup {NoCall}
    BY <1>21, <2>1 DEF BeginLifecycle, HostTypeOK
  <2>3. waiting' \subseteq HostCalls /\ beating' \subseteq HostCalls /\ idle' \in BOOLEAN
    BY <1>21, <2>1 DEF BeginLifecycle, HostTypeOK
  <2> QED
    BY <1>21, <2>2, <2>3 DEF BeginLifecycle, HostTypeOK
<1>22. CASE BeginFails
  BY <1>22, ActiveCountInRange DEF BeginFails, StoreFails, Released, HostTypeOK, tables
<1>23. CASE ActivateFails
  BY <1>23, ActiveCountInRange DEF ActivateFails, StoreFails, HostTypeOK, tables
<1>24. CASE ReloadAgent
  BY <1>24, ActiveCountInRange DEF ReloadAgent, HostTypeOK, tables
<1>25. CASE BeginDrain
  BY <1>25, ActiveCountInRange DEF BeginDrain, HostTypeOK, tables
<1>26. CASE ForceDrain
  BY <1>26, ActiveCountInRange DEF ForceDrain, HostTypeOK, tables
<1>27. CASE ReportDrain
  BY <1>27, ActiveCountInRange DEF ReportDrain, HostTypeOK, tables
<1>28. CASE UNCHANGED hostVars
  BY <1>28, ActiveCountInRange DEF hostVars, tables, HostTypeOK, tables
<1> QED
  BY <1>1, <1>2, <1>3, <1>4, <1>5, <1>6, <1>7, <1>8, <1>9, <1>10, <1>11, <1>12,
     <1>13, <1>14, <1>15, <1>16, <1>17, <1>18, <1>19, <1>20, <1>21, <1>22, <1>23,
     <1>24, <1>25, <1>26, <1>27, <1>28
     DEF HostNext, Session, Offer, Ending, Reservation

-----------------------------------------------------------------------------
(* The invariant is kept *)

\* Every step keeps the order of a call's stages.
LEMMA NextStageInv ==
    ASSUME HostInv, HostTypeOK', [HostNext]_hostVars, NEW d \in HostCalls
    PROVE  StageInv(d)'
<1> USE HostAssumption
<1>0. HostTypeOK /\ \A e \in HostCalls : StageInv(e) /\ SlotInv(e)
  BY DEF HostInv
<1>1. ASSUME NEW c \in HostCalls, Acquire(c) PROVE StageInv(d)'
  BY <1>1, <1>0 DEF Acquire, HostTypeOK, StageInv, SlotInv, MediaStages, tables
<1>2. ASSUME NEW c \in HostCalls, ClaimPending(c) PROVE StageInv(d)'
  BY <1>2, <1>0 DEF ClaimPending, TakeWaiting, HostTypeOK, StageInv, SlotInv, MediaStages, tables
<1>3. ASSUME NEW c \in HostCalls, GiveUpPending(c) PROVE StageInv(d)'
  BY <1>3, <1>0 DEF GiveUpPending, TakeWaiting, HostTypeOK, StageInv, SlotInv, MediaStages, tables
<1>4. ASSUME NEW c \in HostCalls, ListSession(c) PROVE StageInv(d)'
  BY <1>4, <1>0 DEF ListSession, Move, HostTypeOK, StageInv, SlotInv, MediaStages, tables
<1>5. ASSUME NEW c \in HostCalls, StartSession(c) PROVE StageInv(d)'
  BY <1>5, <1>0 DEF StartSession, Move, HostTypeOK, StageInv, SlotInv, MediaStages, tables
<1>6. ASSUME NEW c \in HostCalls, SetupFails(c) PROVE StageInv(d)'
  BY <1>6, <1>0 DEF SetupFails, Move, HostTypeOK, StageInv, SlotInv, MediaStages, tables
<1>7. ASSUME NEW c \in HostCalls, WorkerEnds(c) PROVE StageInv(d)'
  BY <1>7, <1>0 DEF WorkerEnds, Move, HostTypeOK, StageInv, SlotInv, MediaStages, tables
<1>8. ASSUME NEW c \in HostCalls, CarrierSettles(c) PROVE StageInv(d)'
  BY <1>8, <1>0 DEF CarrierSettles, Move, HostTypeOK, StageInv, SlotInv, MediaStages, tables
<1>9. ASSUME NEW c \in HostCalls, ProviderEnds(c) PROVE StageInv(d)'
  BY <1>9, <1>0 DEF ProviderEnds, TakeWaiting, HostTypeOK, StageInv, SlotInv, MediaStages, tables
<1>10. ASSUME NEW c \in HostCalls, NoteFailure(c) PROVE StageInv(d)'
  BY <1>10, <1>0 DEF NoteFailure, Move, HostTypeOK, StageInv, SlotInv, MediaStages, tables
<1>11. ASSUME NEW c \in HostCalls, NoteFails(c) PROVE StageInv(d)'
  BY <1>11, <1>0 DEF NoteFails, Move, StoreFails, IdleIfEmpty, HostTypeOK, StageInv, SlotInv, MediaStages, tables
<1>12. ASSUME NEW c \in HostCalls, FinishStores(c) PROVE StageInv(d)'
  BY <1>12, <1>0 DEF FinishStores, Finishers, HostTypeOK, StageInv, SlotInv, MediaStages, tables
<1>13. ASSUME NEW c \in HostCalls, FinishReleases(c) PROVE StageInv(d)'
  BY <1>13, <1>0 DEF FinishReleases, Released, HostTypeOK, StageInv, SlotInv, MediaStages, tables
<1>14. ASSUME NEW c \in HostCalls, FinishReturns(c) PROVE StageInv(d)'
  BY <1>14, <1>0 DEF FinishReturns, IdleIfEmpty, HostTypeOK, StageInv, SlotInv, MediaStages, tables
<1>15. ASSUME NEW c \in HostCalls, FinishFails(c) PROVE StageInv(d)'
  BY <1>15, <1>0 DEF FinishFails, StoreFails, IdleIfEmpty, HostTypeOK, StageInv, SlotInv, MediaStages, tables
<1>16. ASSUME NEW c \in HostCalls, HeartbeatDies(c) PROVE StageInv(d)'
  BY <1>16, <1>0 DEF HeartbeatDies, StoreFails, HostTypeOK, StageInv, SlotInv, MediaStages, tables
<1>17. ASSUME NEW c \in HostCalls, RecoveryEnds(c) PROVE StageInv(d)'
  BY <1>17, <1>0 DEF RecoveryEnds, HostTypeOK, StageInv, SlotInv, MediaStages, tables
<1>18. ASSUME NEW c \in WebCalls, OfferFindsPending(c) PROVE StageInv(d)'
  BY <1>18, <1>0 DEF OfferFindsPending, HostTypeOK, StageInv, SlotInv, MediaStages, tables
<1>19. ASSUME NEW c \in WebCalls, OfferClaims(c) PROVE StageInv(d)'
  BY <1>19, <1>0 DEF OfferClaims, TakeWaiting, HostTypeOK, StageInv, SlotInv, MediaStages, tables
<1>20. ASSUME NEW c \in WebCalls, OfferTooLate(c) PROVE StageInv(d)'
  BY <1>20, <1>0 DEF OfferTooLate, HostTypeOK, StageInv, SlotInv, MediaStages, tables
<1>21. CASE BeginLifecycle
  <2>1. reserving \in HostCalls
    BY <1>21 DEF BeginLifecycle, HostTypeOK
  <2>2. StageInv(reserving) /\ SlotInv(reserving)
    BY <1>0, <2>1
  <2>3. CASE d = reserving
    BY <1>21, <1>0, <2>2, <2>3 DEF BeginLifecycle, HostTypeOK, StageInv, SlotInv, MediaStages
  <2>4. CASE d # reserving
    BY <1>21, <1>0, <2>1, <2>4 DEF BeginLifecycle, HostTypeOK, StageInv, MediaStages
  <2> QED
    BY <2>3, <2>4
<1>22. CASE BeginFails
  BY <1>22, <1>0 DEF BeginFails, StoreFails, Released, HostTypeOK, StageInv, SlotInv, MediaStages, tables
<1>23. CASE ActivateFails
  <2>1. reserving \in HostCalls
    BY <1>23 DEF ActivateFails, HostTypeOK
  <2>2. StageInv(reserving) /\ SlotInv(reserving)
    BY <1>0, <2>1
  <2>3. CASE d = reserving
    BY <1>23, <1>0, <2>2, <2>3 DEF ActivateFails, HostTypeOK, StageInv, SlotInv, MediaStages
  <2>4. CASE d # reserving
    BY <1>23, <1>0, <2>1, <2>4 DEF ActivateFails, HostTypeOK, StageInv, MediaStages
  <2> QED
    BY <2>3, <2>4
<1>24. CASE ReloadAgent
  BY <1>24, <1>0 DEF ReloadAgent, HostTypeOK, StageInv, SlotInv, MediaStages, tables
<1>25. CASE BeginDrain
  BY <1>25, <1>0 DEF BeginDrain, HostTypeOK, StageInv, SlotInv, MediaStages, tables
<1>26. CASE ForceDrain
  BY <1>26, <1>0 DEF ForceDrain, HostTypeOK, StageInv, SlotInv, MediaStages, tables
<1>27. CASE ReportDrain
  BY <1>27, <1>0 DEF ReportDrain, HostTypeOK, StageInv, SlotInv, MediaStages, tables
<1>28. CASE UNCHANGED hostVars
  BY <1>28, <1>0 DEF hostVars, tables, HostTypeOK, StageInv, SlotInv, MediaStages, tables
<1> QED
  BY <1>1, <1>2, <1>3, <1>4, <1>5, <1>6, <1>7, <1>8, <1>9, <1>10, <1>11, <1>12,
     <1>13, <1>14, <1>15, <1>16, <1>17, <1>18, <1>19, <1>20, <1>21, <1>22, <1>23,
     <1>24, <1>25, <1>26, <1>27, <1>28
     DEF HostNext, Session, Offer, Ending, Reservation

\* Every step keeps the slots with their calls.
LEMMA NextSlotInv ==
    ASSUME HostInv, HostTypeOK', [HostNext]_hostVars, NEW d \in HostCalls
    PROVE  SlotInv(d)'
<1> USE HostAssumption
<1>0. HostTypeOK /\ StageInv(d) /\ SlotInv(d)
  BY DEF HostInv
<1>1. ASSUME NEW c \in HostCalls, Acquire(c) PROVE SlotInv(d)'
  BY <1>1, <1>0 DEF Acquire, HostTypeOK, StageInv, SlotInv, MediaStages, Live, LockFree, tables
<1>2. ASSUME NEW c \in HostCalls, ClaimPending(c) PROVE SlotInv(d)'
  BY <1>2, <1>0 DEF ClaimPending, TakeWaiting, HostTypeOK, StageInv, SlotInv, MediaStages, Live, LockFree, tables
<1>3. ASSUME NEW c \in HostCalls, GiveUpPending(c) PROVE SlotInv(d)'
  BY <1>3, <1>0 DEF GiveUpPending, TakeWaiting, HostTypeOK, StageInv, SlotInv, MediaStages, Live, LockFree, tables
<1>4. ASSUME NEW c \in HostCalls, ListSession(c) PROVE SlotInv(d)'
  BY <1>4, <1>0 DEF ListSession, Move, HostTypeOK, StageInv, SlotInv, MediaStages, Live, LockFree, tables
<1>5. ASSUME NEW c \in HostCalls, StartSession(c) PROVE SlotInv(d)'
  BY <1>5, <1>0 DEF StartSession, Move, HostTypeOK, StageInv, SlotInv, MediaStages, Live, LockFree, tables
<1>6. ASSUME NEW c \in HostCalls, SetupFails(c) PROVE SlotInv(d)'
  BY <1>6, <1>0 DEF SetupFails, Move, HostTypeOK, StageInv, SlotInv, MediaStages, Live, LockFree, tables
<1>7. ASSUME NEW c \in HostCalls, WorkerEnds(c) PROVE SlotInv(d)'
  BY <1>7, <1>0 DEF WorkerEnds, Move, HostTypeOK, StageInv, SlotInv, MediaStages, Live, LockFree, tables
<1>8. ASSUME NEW c \in HostCalls, CarrierSettles(c) PROVE SlotInv(d)'
  BY <1>8, <1>0 DEF CarrierSettles, Move, HostTypeOK, StageInv, SlotInv, MediaStages, Live, LockFree, tables
<1>9. ASSUME NEW c \in HostCalls, ProviderEnds(c) PROVE SlotInv(d)'
  BY <1>9, <1>0 DEF ProviderEnds, TakeWaiting, HostTypeOK, StageInv, SlotInv, MediaStages, Live, LockFree, tables
<1>10. ASSUME NEW c \in HostCalls, NoteFailure(c) PROVE SlotInv(d)'
  BY <1>10, <1>0 DEF NoteFailure, Move, HostTypeOK, StageInv, SlotInv, MediaStages, Live, LockFree, tables
<1>11. ASSUME NEW c \in HostCalls, NoteFails(c) PROVE SlotInv(d)'
  BY <1>11, <1>0 DEF NoteFails, Move, StoreFails, IdleIfEmpty, HostTypeOK, StageInv, SlotInv, MediaStages, Live, LockFree, tables
<1>12. ASSUME NEW c \in HostCalls, FinishStores(c) PROVE SlotInv(d)'
  BY <1>12, <1>0 DEF FinishStores, Finishers, HostTypeOK, StageInv, SlotInv, MediaStages, Live, LockFree, tables
<1>13. ASSUME NEW c \in HostCalls, FinishReleases(c) PROVE SlotInv(d)'
  BY <1>13, <1>0 DEF FinishReleases, Released, HostTypeOK, StageInv, SlotInv, MediaStages, Live, LockFree, tables
<1>14. ASSUME NEW c \in HostCalls, FinishReturns(c) PROVE SlotInv(d)'
  BY <1>14, <1>0 DEF FinishReturns, IdleIfEmpty, HostTypeOK, StageInv, SlotInv, MediaStages, Live, LockFree, tables
<1>15. ASSUME NEW c \in HostCalls, FinishFails(c) PROVE SlotInv(d)'
  BY <1>15, <1>0 DEF FinishFails, StoreFails, IdleIfEmpty, HostTypeOK, StageInv, SlotInv, MediaStages, Live, LockFree, tables
<1>16. ASSUME NEW c \in HostCalls, HeartbeatDies(c) PROVE SlotInv(d)'
  BY <1>16, <1>0 DEF HeartbeatDies, StoreFails, HostTypeOK, StageInv, SlotInv, MediaStages, Live, LockFree, tables
<1>17. ASSUME NEW c \in HostCalls, RecoveryEnds(c) PROVE SlotInv(d)'
  BY <1>17, <1>0 DEF RecoveryEnds, HostTypeOK, StageInv, SlotInv, MediaStages, Live, LockFree, tables
<1>18. ASSUME NEW c \in WebCalls, OfferFindsPending(c) PROVE SlotInv(d)'
  BY <1>18, <1>0 DEF OfferFindsPending, HostTypeOK, StageInv, SlotInv, MediaStages, Live, LockFree, tables
<1>19. ASSUME NEW c \in WebCalls, OfferClaims(c) PROVE SlotInv(d)'
  BY <1>19, <1>0 DEF OfferClaims, TakeWaiting, HostTypeOK, StageInv, SlotInv, MediaStages, Live, LockFree, tables
<1>20. ASSUME NEW c \in WebCalls, OfferTooLate(c) PROVE SlotInv(d)'
  BY <1>20, <1>0 DEF OfferTooLate, HostTypeOK, StageInv, SlotInv, MediaStages, Live, LockFree, tables
<1>21. CASE BeginLifecycle
  BY <1>21, <1>0 DEF BeginLifecycle, HostTypeOK, StageInv, SlotInv, MediaStages, Live, LockFree, tables
<1>22. CASE BeginFails
  BY <1>22, <1>0 DEF BeginFails, StoreFails, Released, HostTypeOK, StageInv, SlotInv, MediaStages, Live, LockFree, tables
<1>23. CASE ActivateFails
  BY <1>23, <1>0 DEF ActivateFails, StoreFails, HostTypeOK, StageInv, SlotInv, MediaStages, Live, LockFree, tables
<1>24. CASE ReloadAgent
  <2>1. slot[d] = 0 /\ slot'[d] = 0
    BY <1>24, ActiveCountInRange DEF ReloadAgent
  <2> QED
    BY <1>24, <1>0, <2>1 DEF ReloadAgent, SlotInv, Live
<1>25. CASE BeginDrain
  BY <1>25, <1>0 DEF BeginDrain, HostTypeOK, StageInv, SlotInv, MediaStages, Live, LockFree, tables
<1>26. CASE ForceDrain
  BY <1>26, <1>0 DEF ForceDrain, HostTypeOK, StageInv, SlotInv, MediaStages, Live, LockFree, tables
<1>27. CASE ReportDrain
  BY <1>27, <1>0 DEF ReportDrain, HostTypeOK, StageInv, SlotInv, MediaStages, Live, LockFree, tables
<1>28. CASE UNCHANGED hostVars
  BY <1>28, <1>0 DEF hostVars, tables, HostTypeOK, StageInv, SlotInv, MediaStages, Live, LockFree, tables
<1> QED
  BY <1>1, <1>2, <1>3, <1>4, <1>5, <1>6, <1>7, <1>8, <1>9, <1>10, <1>11, <1>12,
     <1>13, <1>14, <1>15, <1>16, <1>17, <1>18, <1>19, <1>20, <1>21, <1>22, <1>23,
     <1>24, <1>25, <1>26, <1>27, <1>28
     DEF HostNext, Session, Offer, Ending, Reservation

\* Every step keeps a drain's promise: a reported drain with nothing left can only
\* lose live calls.
LEMMA NextDrainInv ==
    ASSUME HostInv, HostTypeOK', [HostNext]_hostVars
    PROVE  DrainInv'
<1> USE HostAssumption
<1>0. /\ HostTypeOK /\ DrainInv
      /\ \A c \in HostCalls : StageInv(c) /\ SlotInv(c)
  BY DEF HostInv
<1>1. ASSUME NEW c \in HostCalls, Acquire(c) PROVE DrainInv'
  BY <1>1, <1>0 DEF Acquire, HostTypeOK, DrainInv, Live, tables
<1>2. ASSUME NEW c \in HostCalls, ClaimPending(c) PROVE DrainInv'
  BY <1>2, <1>0 DEF ClaimPending, TakeWaiting, HostTypeOK, DrainInv, Live, tables
<1>3. ASSUME NEW c \in HostCalls, GiveUpPending(c) PROVE DrainInv'
  BY <1>3, <1>0 DEF GiveUpPending, TakeWaiting, HostTypeOK, DrainInv, Live, tables
<1>4. ASSUME NEW c \in HostCalls, ListSession(c) PROVE DrainInv'
  BY <1>4, <1>0 DEF ListSession, Move, HostTypeOK, DrainInv, Live, tables
<1>5. ASSUME NEW c \in HostCalls, StartSession(c) PROVE DrainInv'
  BY <1>5, <1>0 DEF StartSession, Move, HostTypeOK, DrainInv, Live, tables
<1>6. ASSUME NEW c \in HostCalls, SetupFails(c) PROVE DrainInv'
  BY <1>6, <1>0 DEF SetupFails, Move, HostTypeOK, DrainInv, Live, tables
<1>7. ASSUME NEW c \in HostCalls, WorkerEnds(c) PROVE DrainInv'
  BY <1>7, <1>0 DEF WorkerEnds, Move, HostTypeOK, DrainInv, Live, tables
<1>8. ASSUME NEW c \in HostCalls, CarrierSettles(c) PROVE DrainInv'
  BY <1>8, <1>0 DEF CarrierSettles, Move, HostTypeOK, DrainInv, Live, tables
<1>9. ASSUME NEW c \in HostCalls, ProviderEnds(c) PROVE DrainInv'
  BY <1>9, <1>0 DEF ProviderEnds, TakeWaiting, HostTypeOK, DrainInv, Live, tables
<1>10. ASSUME NEW c \in HostCalls, NoteFailure(c) PROVE DrainInv'
  BY <1>10, <1>0 DEF NoteFailure, Move, HostTypeOK, DrainInv, Live, tables
<1>11. ASSUME NEW c \in HostCalls, NoteFails(c) PROVE DrainInv'
  BY <1>11, <1>0 DEF NoteFails, Move, StoreFails, IdleIfEmpty, HostTypeOK, DrainInv, Live, tables
<1>12. ASSUME NEW c \in HostCalls, FinishStores(c) PROVE DrainInv'
  BY <1>12, <1>0 DEF FinishStores, Finishers, HostTypeOK, DrainInv, Live, tables
<1>13. ASSUME NEW c \in HostCalls, FinishReleases(c) PROVE DrainInv'
  BY <1>13, <1>0 DEF FinishReleases, Released, HostTypeOK, DrainInv, Live, tables
<1>14. ASSUME NEW c \in HostCalls, FinishReturns(c) PROVE DrainInv'
  BY <1>14, <1>0 DEF FinishReturns, IdleIfEmpty, HostTypeOK, DrainInv, Live, tables
<1>15. ASSUME NEW c \in HostCalls, FinishFails(c) PROVE DrainInv'
  BY <1>15, <1>0 DEF FinishFails, StoreFails, IdleIfEmpty, HostTypeOK, DrainInv, Live, tables
<1>16. ASSUME NEW c \in HostCalls, HeartbeatDies(c) PROVE DrainInv'
  BY <1>16, <1>0 DEF HeartbeatDies, StoreFails, HostTypeOK, DrainInv, Live, tables
<1>17. ASSUME NEW c \in HostCalls, RecoveryEnds(c) PROVE DrainInv'
  BY <1>17, <1>0 DEF RecoveryEnds, HostTypeOK, DrainInv, Live, tables
<1>18. ASSUME NEW c \in WebCalls, OfferFindsPending(c) PROVE DrainInv'
  BY <1>18, <1>0 DEF OfferFindsPending, HostTypeOK, DrainInv, Live, tables
<1>19. ASSUME NEW c \in WebCalls, OfferClaims(c) PROVE DrainInv'
  BY <1>19, <1>0 DEF OfferClaims, TakeWaiting, HostTypeOK, DrainInv, Live, tables
<1>20. ASSUME NEW c \in WebCalls, OfferTooLate(c) PROVE DrainInv'
  BY <1>20, <1>0 DEF OfferTooLate, HostTypeOK, DrainInv, Live, tables
<1>21. CASE BeginLifecycle
  BY <1>21, <1>0 DEF BeginLifecycle, HostTypeOK, DrainInv, Live, tables
<1>22. CASE BeginFails
  BY <1>22, <1>0 DEF BeginFails, StoreFails, Released, HostTypeOK, DrainInv, Live, tables
<1>23. CASE ActivateFails
  BY <1>23, <1>0 DEF ActivateFails, StoreFails, HostTypeOK, DrainInv, Live, tables
<1>24. CASE ReloadAgent
  BY <1>24, <1>0 DEF ReloadAgent, HostTypeOK, DrainInv, Live, tables
<1>25. CASE BeginDrain
  BY <1>25, <1>0 DEF BeginDrain, HostTypeOK, DrainInv, Live, tables
<1>26. CASE ForceDrain
  BY <1>26, <1>0 DEF ForceDrain, HostTypeOK, DrainInv, Live, tables
<1>27. CASE ReportDrain
  <2>1. ASSUME ActiveCount = 0 PROVE \A c \in HostCalls : slot[c] = 0
    BY <2>1, ActiveCountInRange
  <2> QED
    BY <1>27, <1>0, <2>1 DEF ReportDrain, HostTypeOK, DrainInv, StageInv, SlotInv, Live, tables
<1>28. CASE UNCHANGED hostVars
  BY <1>28, <1>0 DEF hostVars, tables, HostTypeOK, DrainInv, Live, tables
<1> QED
  BY <1>1, <1>2, <1>3, <1>4, <1>5, <1>6, <1>7, <1>8, <1>9, <1>10, <1>11, <1>12,
     <1>13, <1>14, <1>15, <1>16, <1>17, <1>18, <1>19, <1>20, <1>21, <1>22, <1>23,
     <1>24, <1>25, <1>26, <1>27, <1>28
     DEF HostNext, Session, Offer, Ending, Reservation

LEMMA InitHostInv == HostInit => HostInv
BY InitHostTypeOK, HostAssumption
   DEF HostInit, HostInv, StageInv, SlotInv, DrainInv, MediaStages, Live

LEMMA HostInvNext == HostInv /\ [HostNext]_hostVars => HostInv'
BY NextHostTypeOK, NextStageInv, NextSlotInv, NextDrainInv DEF HostInv

LEMMA AlwaysHostInv == HostSpec => []HostInv
BY HostInvNext, InitHostInv, PTL DEF HostSpec

-----------------------------------------------------------------------------
(* What follows from it *)

\* The tables of the host keep their shape.
THEOREM HostTypeCorrect == HostSpec => []HostTypeOK
<1>1. HostInv => HostTypeOK
  BY DEF HostInv
<1> QED
  BY <1>1, AlwaysHostInv, PTL

\* A live call that was answered once holds the slot it was answered with, whatever
\* else is reserved, fails, is finished, reloaded or drained beside it.
THEOREM LiveCallsHoldSlots == HostSpec => []LiveCallsKeepTheirSlot
<1>1. HostInv => LiveCallsKeepTheirSlot
  BY DEF HostInv, SlotInv, Live, HostTypeOK, LiveCallsKeepTheirSlot
<1> QED
  BY <1>1, AlwaysHostInv, PTL

\* No slot leaks, but to a call whose end could not be stored.
THEOREM SlotsAreReturned == HostSpec => []SlotsComeBack
<1>1. HostInv => SlotsComeBack
  <2> SUFFICES ASSUME HostInv, NEW c \in HostCalls, slot[c] # 0
               PROVE  \/ c \in Live \/ c = reserving
                      \/ handler[c] \in {"noting", "finishing", "last"} \/ finish[c] = "stored"
                      \/ handler[c] \in {"stuck", "abandoned"}
    BY DEF SlotsComeBack
  <2>1. StageInv(c) /\ SlotInv(c) /\ HostTypeOK
    BY DEF HostInv
  <2> QED
    BY <2>1 DEF StageInv, SlotInv, HostTypeOK, Live
<1> QED
  BY <1>1, AlwaysHostInv, PTL

\* A drain that reports nothing left leaves nothing behind, for good.
THEOREM DrainIsQuiet == HostSpec => []DrainedMeansQuiet
<1>1. HostInv => DrainedMeansQuiet
  BY DEF HostInv, DrainInv, DrainedMeansQuiet
<1> QED
  BY <1>1, AlwaysHostInv, PTL

-----------------------------------------------------------------------------
(* The limit of concurrent calls *)

\* limits.max_concurrent bounds the slots that are taken.
WithinLimit == ActiveCount <= MaxConcurrent

\* Fewer slots keep the limit, and so does one more when there was room.
LEMMA TakenSlots ==
    /\ (\A c \in HostCalls : slot'[c] # 0 => slot[c] # 0) => ActiveCount' <= ActiveCount
    /\ \A d \in HostCalls :
          (\A c \in HostCalls \ {d} : slot'[c] # 0 => slot[c] # 0)
             => ActiveCount' <= ActiveCount + 1
<1> DEFINE Taken == {c \in HostCalls : slot[c] # 0}
           TakenNext == {c \in HostCalls : slot'[c] # 0}
<1>0. IsFiniteSet(Taken) /\ IsFiniteSet(TakenNext)
  BY HostAssumption, FS_Subset, Taken \subseteq HostCalls, TakenNext \subseteq HostCalls
<1>1. ActiveCount = Cardinality(Taken) /\ ActiveCount' = Cardinality(TakenNext)
  BY DEF ActiveCount
<1>2. ASSUME \A c \in HostCalls : slot'[c] # 0 => slot[c] # 0
      PROVE  ActiveCount' <= ActiveCount
  <2>1. TakenNext \subseteq Taken
    BY <1>2
  <2> QED
    BY <1>0, <1>1, <2>1, FS_Subset
<1>3. ASSUME NEW d \in HostCalls, \A c \in HostCalls \ {d} : slot'[c] # 0 => slot[c] # 0
      PROVE  ActiveCount' <= ActiveCount + 1
  <2>1. TakenNext \subseteq Taken \cup {d}
    BY <1>3
  <2>2. /\ IsFiniteSet(Taken \cup {d})
        /\ Cardinality(Taken \cup {d}) <= Cardinality(Taken) + 1
    BY <1>0, FS_AddElement, FS_CardinalityType
  <2>3. Cardinality(TakenNext) <= Cardinality(Taken \cup {d})
    BY <2>1, <2>2, FS_Subset
  <2> QED
    BY <1>0, <1>1, <2>2, <2>3, FS_CardinalityType
<1> QED
  BY <1>2, <1>3

LEMMA NextWithinLimit ==
    ASSUME HostTypeOK, HostTypeOK', WithinLimit, [HostNext]_hostVars
    PROVE  WithinLimit'
<1>0. ActiveCount \in Nat /\ ActiveCount' \in Nat /\ MaxConcurrent \in Nat
  <2>1. Cardinality(HostCalls) \in Nat
    BY HostAssumption, FS_CardinalityType
  <2>2. ActiveCount \in Nat
    BY <2>1, ActiveCountInRange
  <2>3. ActiveCount' \in Nat
    <3>1. {c \in HostCalls : slot'[c] # 0} \subseteq HostCalls
      OBVIOUS
    <3> QED
      BY <3>1, HostAssumption, FS_Subset, FS_CardinalityType DEF ActiveCount
  <2> QED
    BY <2>2, <2>3, HostAssumption
<1>1. CASE \A c \in HostCalls : slot'[c] # 0 => slot[c] # 0
  BY <1>0, <1>1, TakenSlots DEF WithinLimit
<1>2. ASSUME NEW c \in HostCalls, Acquire(c) PROVE WithinLimit'
  <2>1. CASE slot[c] # 0
    BY <1>1, <1>2, <2>1 DEF Acquire, HostTypeOK
  <2>2. CASE slot[c] = 0
    <3>1. ActiveCount < MaxConcurrent
      BY <1>2, <2>2 DEF Acquire
    <3>2. \A e \in HostCalls \ {c} : slot'[e] # 0 => slot[e] # 0
      BY <1>2 DEF Acquire, HostTypeOK
    <3>3. ActiveCount' <= ActiveCount + 1
      BY <3>2, TakenSlots
    <3> QED
      BY <1>0, <3>1, <3>3 DEF WithinLimit
  <2> QED
    BY <2>1, <2>2
<1>3. CASE slot' = slot
  BY <1>1, <1>3
<1>4. ASSUME NEW c \in HostCalls, FinishReleases(c) PROVE WithinLimit'
  BY <1>1, <1>4 DEF FinishReleases, Released, HostTypeOK
<1>5. CASE BeginFails
  BY <1>1, <1>5 DEF BeginFails, Released, HostTypeOK
<1>6. CASE ReloadAgent
  BY <1>1, <1>6 DEF ReloadAgent
<1>7. ASSUME NEW c \in HostCalls, Session(c) \/ ProviderEnds(c) \/ HeartbeatDies(c)
                                  \/ RecoveryEnds(c) \/ ClaimPending(c) \/ GiveUpPending(c)
      PROVE  slot' = slot
  BY <1>7 DEF Session, ListSession, StartSession, SetupFails, WorkerEnds, CarrierSettles,
              ProviderEnds, HeartbeatDies, RecoveryEnds, ClaimPending, GiveUpPending,
              TakeWaiting, tables
<1>8. ASSUME NEW c \in HostCalls, NoteFailure(c) \/ NoteFails(c) \/ FinishStores(c)
                                  \/ FinishReturns(c) \/ FinishFails(c)
      PROVE  slot' = slot
  BY <1>8 DEF NoteFailure, NoteFails, FinishStores, FinishReturns, FinishFails, tables
<1>9. ASSUME NEW c \in WebCalls, Offer(c) PROVE slot' = slot
  BY <1>9 DEF Offer, OfferFindsPending, OfferClaims, OfferTooLate, TakeWaiting, tables
<1>10. CASE BeginLifecycle \/ ActivateFails \/ BeginDrain \/ ForceDrain \/ ReportDrain
  <2>1. slot' = slot
    BY <1>10 DEF BeginLifecycle, ActivateFails, BeginDrain, ForceDrain, ReportDrain, tables
  <2> QED
    BY <1>3, <2>1
<1>11. CASE UNCHANGED hostVars
  BY <1>3, <1>11 DEF hostVars, tables
<1> QED
  BY <1>2, <1>3, <1>4, <1>5, <1>6, <1>7, <1>8, <1>9, <1>10, <1>11
     DEF HostNext, Ending, Reservation

\* At most limits.max_concurrent calls that were answered once are live together,
\* whatever revisions, failures and drains come between (admission.py acquire).
LiveWithinLimit == Cardinality({c \in Live : answers[c] = 1}) <= MaxConcurrent

THEOREM LiveCallsAreLimited == HostSpec => []LiveWithinLimit
<1>1. HostInit => WithinLimit
  <2>1. HostInit => ActiveCount = 0
    BY ActiveCountInRange DEF HostInit
  <2> QED
    BY <2>1, HostAssumption DEF WithinLimit
<1>2. HostSpec => []WithinLimit
  BY <1>1, NextWithinLimit, HostTypeCorrect, PTL DEF HostSpec
<1>3. HostInv /\ WithinLimit => LiveWithinLimit
  <2> SUFFICES ASSUME HostInv, WithinLimit PROVE LiveWithinLimit
    OBVIOUS
  <2> DEFINE Taken == {c \in HostCalls : slot[c] # 0}
             Once == {c \in Live : answers[c] = 1}
  <2>1. Once \subseteq Taken
    <3> SUFFICES ASSUME NEW c \in Once PROVE c \in Taken
      OBVIOUS
    <3>1. c \in HostCalls /\ c \in Live /\ answers[c] = 1
      BY DEF HostInv, HostTypeOK, Live
    <3>2. slot[c] = lifecycle[c] /\ row[c] # "none"
      BY <3>1 DEF HostInv, SlotInv, StageInv, Live
    <3> QED
      BY <3>1, <3>2 DEF HostInv, StageInv
  <2>2. IsFiniteSet(Taken)
    BY HostAssumption, FS_Subset, Taken \subseteq HostCalls
  <2>3. /\ Cardinality(Once) <= Cardinality(Taken)
        /\ Cardinality(Once) \in Nat /\ Cardinality(Taken) \in Nat
    BY <2>1, <2>2, FS_Subset, FS_CardinalityType
  <2>4. Cardinality(Taken) <= MaxConcurrent
    BY DEF WithinLimit, ActiveCount
  <2> QED
    BY <2>3, <2>4, HostAssumption DEF LiveWithinLimit
<1> QED
  BY <1>2, <1>3, AlwaysHostInv, PTL
=============================================================================
