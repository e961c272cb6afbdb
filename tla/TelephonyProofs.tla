----------------------------- MODULE TelephonyProofs -----------------------------
(***************************************************************************)
(* Proofs about the telephony ledger, for every value of the constants: an *)
(* outbound intent is dialled at most once; a number that sessions point   *)
(* to themselves leads back to its own settings; and a warm transfer's     *)
(* decision is final, moves the caller only for a human who accepted,      *)
(* leaves no known human on the line when it is recovered, tells in the    *)
(* session's reason where the caller is, and cuts no connected parties.    *)
(***************************************************************************)
EXTENDS Routes, Outbound, WarmTransfer, TLAPS

(* Outbound calls: the inductive invariant *)

DialerStates == {"idle", "creating", "started", "rejected", "unclear", "refused", "dead"}
Requests == {"none", "sent", "made", "rejected"}

\* OutboundTypeOK, and the type of what the steps in progress remember.
LedgerInv ==
    /\ intents \in [Intents -> [state : IntentStates, sid : Sids \cup {NoSid}]]
    /\ callbacks \subseteq [sid : DOMAIN placed, final : BOOLEAN]
    /\ \A s \in DOMAIN placed : s \in Sids /\ placed[s].intent \in Intents
    /\ binding # NoBinding => binding.sid \in DOMAIN placed
    /\ matching # NoMatching => matching.intent \in Intents /\ matching.sid \in Sids

DialerInv ==
    /\ dialers \in [Dialers -> [pc : DialerStates, intent : Intents \cup {"none"},
                                asked : Requests, sid : Sids \cup {NoSid}]]
    /\ \A p \in Dialers :
         /\ dialers[p].pc = "idle" => dialers[p].asked = "none"
         /\ dialers[p].pc = "creating" => dialers[p].asked # "none"

\* A command that has sent a request prepared its intent, and no other command did:
\* a row of the ledger never becomes absent again.
OwnerInv ==
    /\ \A p \in Dialers : dialers[p].asked # "none" =>
         dialers[p].intent \in Intents /\ intents[dialers[p].intent].state # "absent"
    /\ \A p, q \in Dialers :
         /\ dialers[p].asked # "none" /\ dialers[q].asked # "none"
         /\ dialers[p].intent = dialers[q].intent
         => p = q

\* Every call at the carrier answers the one request of some command.
CallInv ==
    \A s \in DOMAIN placed : \E p \in Dialers :
        dialers[p].asked = "made" /\ dialers[p].sid = s /\ dialers[p].intent = placed[s].intent

OutboundInv == LedgerInv /\ DialerInv /\ OwnerInv /\ CallInv

-----------------------------------------------------------------------------
LEMMA OutboundInvInit == OutboundInit => OutboundInv
<1> SUFFICES ASSUME OutboundInit PROVE OutboundInv
    OBVIOUS
<1> USE DEF OutboundInit
<1>1. DOMAIN placed = {}
    OBVIOUS
<1>2. LedgerInv
    BY <1>1 DEF LedgerInv, NoIntent, IntentStates
<1>3. DialerInv
    BY DEF DialerInv, IdleDialer, DialerStates, Requests
<1>4. OwnerInv
    BY DEF OwnerInv, IdleDialer
<1>5. CallInv
    BY <1>1 DEF CallInv
<1> QED
    BY <1>2, <1>3, <1>4, <1>5 DEF OutboundInv

\* The carrier sends one more callback, about a call it may just have made.
LEMMA CallbackAdded ==
    ASSUME NEW C, NEW D, NEW E, C \subseteq [sid : D, final : BOOLEAN], D \subseteq E,
           NEW s \in E, NEW over \in BOOLEAN
    PROVE  C \cup {[sid |-> s, final |-> over]} \subseteq [sid : E, final : BOOLEAN]
<1> SUFFICES ASSUME NEW c \in C \cup {[sid |-> s, final |-> over]}
             PROVE  c \in [sid : E, final : BOOLEAN]
    OBVIOUS
<1>1. CASE c \in C
  <2>1. c \in [sid : D, final : BOOLEAN]
      BY <1>1
  <2>2. c = [sid |-> c.sid, final |-> c.final] /\ c.sid \in E /\ c.final \in BOOLEAN
      BY <2>1
  <2> QED
      BY <2>2
<1>2. CASE c = [sid |-> s, final |-> over]
    BY <1>2
<1> QED
    BY <1>1, <1>2

\* A transition to a state of the row's life keeps the ledger typed and no row absent.
LEMMA MovedKeepsRows ==
    ASSUME LedgerInv, NEW i \in Intents, NEW state \in IntentStates \ {"absent"},
           NEW s \in Sids \cup {NoSid}
    PROVE  /\ Moved(i, state, s) \in [Intents -> [state : IntentStates, sid : Sids \cup {NoSid}]]
           /\ \A j \in Intents : intents[j].state # "absent" => Moved(i, state, s)[j].state # "absent"
BY DEF LedgerInv, Moved, IntentStates

\* A step that changes neither the requests nor the calls, and makes no row absent.
LEMMA OwnersKept ==
    ASSUME OutboundInv,
           dialers' \in [Dialers -> [pc : DialerStates, intent : Intents \cup {"none"},
                                     asked : Requests, sid : Sids \cup {NoSid}]],
           \A p \in Dialers : /\ dialers'[p].asked = dialers[p].asked
                              /\ dialers'[p].intent = dialers[p].intent
                              /\ dialers'[p].sid = dialers[p].sid,
           \A j \in Intents : intents[j].state # "absent" => intents'[j].state # "absent",
           DOMAIN placed' = DOMAIN placed,
           \A s \in DOMAIN placed : placed'[s].intent = placed[s].intent
    PROVE  OwnerInv' /\ CallInv'
<1>1. OwnerInv'
    BY DEF OutboundInv, OwnerInv
<1>2. CallInv'
    BY DEF OutboundInv, CallInv
<1> QED
    BY <1>1, <1>2

LEMMA ConcludeKeeps ==
    ASSUME OutboundInv, NEW p \in Dialers, dialers[p].pc = "creating",
           NEW state \in IntentStates \ {"absent"}, NEW s \in Sids \cup {NoSid},
           NEW pc \in DialerStates \ {"idle", "creating"}, Conclude(p, state, s, pc)
    PROVE  OutboundInv'
<1> USE DEF OutboundInv
<1>1. dialers[p].intent \in Intents
    BY DEF DialerInv, OwnerInv
<1>2. /\ intents' \in [Intents -> [state : IntentStates, sid : Sids \cup {NoSid}]]
      /\ \A j \in Intents : intents[j].state # "absent" => intents'[j].state # "absent"
    BY <1>1, MovedKeepsRows DEF Conclude, LedgerInv
<1>3. \E c \in DialerStates \ {"idle", "creating"} : dialers' = [dialers EXCEPT ![p].pc = c]
    BY DEF Conclude, DialerStates
<1>4. UNCHANGED <<placed, callbacks, binding, matching>>
    BY DEF Conclude
<1>5. DialerInv'
    BY <1>3 DEF DialerInv
<1>6. LedgerInv'
    BY <1>2, <1>4 DEF LedgerInv
<1>7. \A q \in Dialers : /\ dialers'[q].asked = dialers[q].asked
                         /\ dialers'[q].intent = dialers[q].intent
                         /\ dialers'[q].sid = dialers[q].sid
    BY <1>3 DEF DialerInv
<1>8. OwnerInv' /\ CallInv'
    BY <1>2, <1>4, <1>5, <1>7, OwnersKept DEF DialerInv
<1> QED
    BY <1>5, <1>6, <1>8

-----------------------------------------------------------------------------
LEMMA OutboundInvNext == OutboundInv /\ [OutboundNext]_outboundVars => OutboundInv'
<1> SUFFICES ASSUME OutboundInv, [OutboundNext]_outboundVars PROVE OutboundInv'
    OBVIOUS
<1> USE DEF OutboundInv
<1>1. ASSUME NEW p \in Dialers, NEW i \in Intents, StartCall(p, i) PROVE OutboundInv'
  <2>1. CASE Preparable(i)
    <3>1. /\ intents' = [intents EXCEPT ![i] = [state |-> "prepared", sid |-> NoSid]]
          /\ dialers' = [dialers EXCEPT ![p] =
               [pc |-> "creating", intent |-> i, asked |-> "sent", sid |-> NoSid]]
        BY <1>1, <2>1 DEF StartCall, IdleDialer
    <3>2. UNCHANGED <<placed, callbacks, binding, matching>>
        BY <1>1 DEF StartCall
    <3>3. LedgerInv'
        BY <3>1, <3>2 DEF LedgerInv, IntentStates
    <3>4. DialerInv'
        BY <3>1 DEF DialerInv, DialerStates, Requests
    <3>5. dialers[p].asked = "none" /\ intents[i].state = "absent"
        BY <1>1, <2>1 DEF StartCall, Preparable, DialerInv
    <3>6. \A q \in Dialers : dialers[q].asked # "none" => dialers[q].intent # i
        BY <3>5 DEF OwnerInv
    <3>7. OwnerInv'
        BY <3>1, <3>5, <3>6 DEF OwnerInv, DialerInv, LedgerInv
    <3>8. CallInv'
        BY <3>1, <3>2, <3>5 DEF CallInv, DialerInv
    <3> QED
        BY <3>3, <3>4, <3>7, <3>8
  <2>2. CASE ~Preparable(i)
    <3>1. /\ dialers' = [dialers EXCEPT ![p].pc = "refused", ![p].intent = i]
          /\ UNCHANGED <<intents, placed, callbacks, binding, matching>>
        BY <1>1, <2>2 DEF StartCall
    <3>2. dialers[p].asked = "none"
        BY <1>1 DEF StartCall, DialerInv
    <3>3. LedgerInv'
        BY <3>1 DEF LedgerInv
    <3>4. DialerInv'
        BY <3>1 DEF DialerInv, DialerStates
    <3>5. OwnerInv'
        BY <3>1, <3>2 DEF OwnerInv, DialerInv
    <3>6. CallInv'
        BY <3>1, <3>2 DEF CallInv, DialerInv
    <3> QED
        BY <3>3, <3>4, <3>5, <3>6
  <2> QED
      BY <2>1, <2>2
<1>2. ASSUME NEW p \in Dialers, NEW s \in Sids, CarrierCreates(p, s) PROVE OutboundInv'
  <2>1. /\ dialers[p].asked = "sent" /\ s \notin DOMAIN placed
        /\ dialers' = [dialers EXCEPT ![p].asked = "made", ![p].sid = s]
        /\ UNCHANGED <<intents, binding, matching>>
      BY <1>2 DEF CarrierCreates
  <2>2. /\ DOMAIN placed' = DOMAIN placed \cup {s}
        /\ placed'[s].intent = dialers[p].intent
        /\ \A x \in DOMAIN placed : placed'[x] = placed[x]
      BY <1>2 DEF CarrierCreates
  <2>3. dialers[p].intent \in Intents
      BY <2>1 DEF OwnerInv
  <2>4. callbacks' \subseteq [sid : DOMAIN placed', final : BOOLEAN]
    <3>1. callbacks' = callbacks \cup {[sid |-> s, final |-> FALSE]}
        BY <1>2 DEF CarrierCreates
    <3>2. callbacks \subseteq [sid : DOMAIN placed, final : BOOLEAN]
        BY DEF LedgerInv
    <3> QED
        BY <3>1, <3>2, <2>2, CallbackAdded
  <2>5. LedgerInv'
      BY <2>1, <2>2, <2>3, <2>4 DEF LedgerInv
  <2>6. DialerInv'
      BY <2>1 DEF DialerInv, Requests
  <2>7. OwnerInv'
      BY <2>1 DEF OwnerInv, DialerInv
  <2>8. ASSUME NEW x \in DOMAIN placed'
        PROVE  \E q \in Dialers : /\ dialers'[q].asked = "made" /\ dialers'[q].sid = x
                                  /\ dialers'[q].intent = placed'[x].intent
    <3>1. CASE x = s
        BY <3>1, <2>1, <2>2 DEF DialerInv
    <3>2. CASE x # s
      <4>1. PICK q \in Dialers : /\ dialers[q].asked = "made" /\ dialers[q].sid = x
                                 /\ dialers[q].intent = placed[x].intent
          BY <2>2, <3>2 DEF CallInv
      <4> QED
          BY <4>1, <3>2, <2>1, <2>2 DEF DialerInv
    <3> QED
        BY <3>1, <3>2
  <2> QED
      BY <2>5, <2>6, <2>7, <2>8 DEF CallInv
<1>3. ASSUME NEW p \in Dialers, CarrierRejects(p) PROVE OutboundInv'
  <2>1. LedgerInv'
      BY <1>3 DEF CarrierRejects, LedgerInv
  <2>2. DialerInv'
      BY <1>3 DEF CarrierRejects, DialerInv, Requests
  <2>3. OwnerInv'
      BY <1>3 DEF CarrierRejects, OwnerInv, DialerInv
  <2>4. CallInv'
      BY <1>3 DEF CarrierRejects, CallInv, DialerInv
  <2> QED
      BY <2>1, <2>2, <2>3, <2>4
<1>4. ASSUME NEW p \in Dialers, HearCreated(p) PROVE OutboundInv'
  <2>1. dialers[p].sid \in Sids \cup {NoSid}
      BY DEF DialerInv
  <2> QED
      BY <1>4, <2>1, ConcludeKeeps DEF HearCreated, IntentStates, DialerStates
<1>5. ASSUME NEW p \in Dialers, HearRejected(p) PROVE OutboundInv'
    BY <1>5, ConcludeKeeps DEF HearRejected, IntentStates, DialerStates
<1>6. ASSUME NEW p \in Dialers, HearNothing(p) PROVE OutboundInv'
    BY <1>6, ConcludeKeeps DEF HearNothing, IntentStates, DialerStates
<1>7. ASSUME NEW p \in Dialers, DialerDies(p) PROVE OutboundInv'
  <2>1. LedgerInv'
      BY <1>7 DEF DialerDies, LedgerInv
  <2>2. DialerInv'
      BY <1>7 DEF DialerDies, DialerInv, DialerStates
  <2>3. \A q \in Dialers : /\ dialers'[q].asked = dialers[q].asked
                           /\ dialers'[q].intent = dialers[q].intent
                           /\ dialers'[q].sid = dialers[q].sid
      BY <1>7 DEF DialerDies, DialerInv
  <2>4. OwnerInv' /\ CallInv'
      BY <1>7, <2>2, <2>3, OwnersKept DEF DialerDies, DialerInv
  <2> QED
      BY <2>1, <2>2, <2>4
<1>8. ASSUME NEW s \in Sids, CallEnds(s) PROVE OutboundInv'
  <2>1. /\ DOMAIN placed' = DOMAIN placed /\ s \in DOMAIN placed
        /\ \A x \in DOMAIN placed : placed'[x].intent = placed[x].intent
      BY <1>8 DEF CallEnds
  <2>2. UNCHANGED <<intents, dialers, binding, matching>>
      BY <1>8 DEF CallEnds
  <2>3. LedgerInv'
    <3>1. callbacks' = callbacks \cup {[sid |-> s, final |-> TRUE]}
        BY <1>8 DEF CallEnds
    <3>2. callbacks \subseteq [sid : DOMAIN placed, final : BOOLEAN]
        BY DEF LedgerInv
    <3>3. callbacks' \subseteq [sid : DOMAIN placed', final : BOOLEAN]
        BY <2>1, <3>1, <3>2, CallbackAdded
    <3> QED
        BY <2>1, <2>2, <3>3 DEF LedgerInv
  <2>4. DialerInv' 
      BY <2>2 DEF DialerInv
  <2>5. OwnerInv' /\ CallInv'
      BY <2>1, <2>2, <2>4, OwnersKept DEF DialerInv
  <2> QED
      BY <2>3, <2>4, <2>5
<1>9. ASSUME NEW m \in callbacks, BindRead(m) PROVE OutboundInv'
  <2>1. UNCHANGED <<intents, dialers, placed, callbacks, matching>> /\ binding'.sid = m.sid
      BY <1>9 DEF BindRead
  <2>2. LedgerInv'
      BY <2>1 DEF LedgerInv
  <2> QED
      BY <2>1, <2>2 DEF DialerInv, OwnerInv, CallInv
<1>10. ASSUME BindWrite PROVE OutboundInv'
  <2>1. /\ binding # NoBinding /\ binding' = NoBinding
        /\ UNCHANGED <<dialers, placed, callbacks, matching>>
      BY <1>10 DEF BindWrite
  <2>2. /\ placed[binding.sid].intent \in Intents /\ binding.sid \in Sids
      BY <2>1 DEF LedgerInv
  <2>3. \/ intents' = intents
        \/ \E state \in IntentStates \ {"absent"}, s \in Sids \cup {NoSid} :
             intents' = Moved(placed[binding.sid].intent, state, s)
      BY <1>10, <2>2 DEF BindWrite, IntentStates
  <2>4. /\ intents' \in [Intents -> [state : IntentStates, sid : Sids \cup {NoSid}]]
        /\ \A j \in Intents : intents[j].state # "absent" => intents'[j].state # "absent"
      BY <2>2, <2>3, MovedKeepsRows DEF LedgerInv
  <2>5. LedgerInv'
      BY <2>1, <2>4 DEF LedgerInv
  <2>6. DialerInv'
      BY <2>1 DEF DialerInv
  <2>7. OwnerInv' /\ CallInv'
      BY <2>1, <2>4, <2>6, OwnersKept DEF DialerInv
  <2> QED
      BY <2>5, <2>6, <2>7
<1>11. ASSUME NEW i \in Intents, MatchOnlyCandidate(i) PROVE OutboundInv'
  <2>1. UNCHANGED <<intents, dialers, placed, callbacks, binding>>
      BY <1>11 DEF MatchOnlyCandidate
  <2>2. matching'.intent \in Intents /\ matching'.sid \in Sids
      BY <1>11 DEF MatchOnlyCandidate
  <2>3. LedgerInv'
      BY <2>1, <2>2 DEF LedgerInv
  <2> QED
      BY <2>1, <2>3 DEF DialerInv, OwnerInv, CallInv
<1>12. ASSUME Reconcile PROVE OutboundInv'
  <2>1. /\ matching # NoMatching /\ matching' = NoMatching
        /\ UNCHANGED <<dialers, placed, callbacks, binding>>
      BY <1>12 DEF Reconcile
  <2>2. matching.intent \in Intents /\ matching.sid \in Sids
      BY <2>1 DEF LedgerInv
  <2>3. intents' = intents \/ intents' = Moved(matching.intent, "reconciled", matching.sid)
      BY <1>12 DEF Reconcile
  <2>4. /\ intents' \in [Intents -> [state : IntentStates, sid : Sids \cup {NoSid}]]
        /\ \A j \in Intents : intents[j].state # "absent" => intents'[j].state # "absent"
      BY <2>2, <2>3, MovedKeepsRows DEF LedgerInv, IntentStates
  <2>5. LedgerInv'
      BY <2>1, <2>4 DEF LedgerInv
  <2>6. DialerInv'
      BY <2>1 DEF DialerInv
  <2>7. OwnerInv' /\ CallInv'
      BY <2>1, <2>4, <2>6, OwnersKept DEF DialerInv
  <2> QED
      BY <2>5, <2>6, <2>7
<1>13. CASE UNCHANGED outboundVars
    BY <1>13 DEF outboundVars, LedgerInv, DialerInv, OwnerInv, CallInv
<1> QED
    BY <1>1, <1>2, <1>3, <1>4, <1>5, <1>6, <1>7, <1>8, <1>9, <1>10, <1>11, <1>12, <1>13
       DEF OutboundNext

LEMMA OutboundAlways == OutboundSpec => []OutboundInv
BY OutboundInvInit, OutboundInvNext, PTL DEF OutboundSpec

-----------------------------------------------------------------------------
(* The theorems *)

\* The ledger, the commands and the carrier keep their types.
THEOREM OutboundTypeCorrect == OutboundSpec => []OutboundTypeOK
<1>1. OutboundInv => OutboundTypeOK
    BY DEF OutboundInv, LedgerInv, DialerInv, OutboundTypeOK, DialerStates, Requests
<1> QED
    BY <1>1, OutboundAlways, PTL

\* Whoever repeats an intent's id, and whatever answers and callbacks are lost, at most
\* one call is made for it: the ledger prepares it once, before the request leaves.
THEOREM IntentsAreDialledOnce == OutboundSpec => []OneCallPerIntent
<1>1. OutboundInv => OneCallPerIntent
  <2> SUFFICES ASSUME OutboundInv, NEW s \in DOMAIN placed, NEW z \in DOMAIN placed,
                      placed[s].intent = placed[z].intent
               PROVE  s = z
      BY DEF OneCallPerIntent
  <2>1. PICK p \in Dialers : /\ dialers[p].asked = "made" /\ dialers[p].sid = s
                             /\ dialers[p].intent = placed[s].intent
      BY DEF OutboundInv, CallInv
  <2>2. PICK q \in Dialers : /\ dialers[q].asked = "made" /\ dialers[q].sid = z
                             /\ dialers[q].intent = placed[z].intent
      BY DEF OutboundInv, CallInv
  <2>3. p = q
      BY <2>1, <2>2 DEF OutboundInv, OwnerInv
  <2> QED
      BY <2>1, <2>2, <2>3
<1> QED
    BY <1>1, OutboundAlways, PTL

-----------------------------------------------------------------------------
(* Routing: the inductive invariant *)

\* RoutesTypeOK, and that a restore under way has its token, which it found in the ledger.
RoutingTypeOK ==
    /\ RoutesTypeOK
    /\ restoring \in [Restorers -> [pc : {"idle", "read", "update", "updated", "over"},
                                    token : Tokens \cup {NoToken}, seen : RouteStates]]
    /\ \A r \in Restorers : restoring[r].pc # "idle" =>
         restoring[r].token \in Tokens /\ restoring[r].seen # "absent"

\* A token is in the ledger before its settings can be the number's, and so before
\* another can have saved them.
SavedInv ==
    \A k \in Tokens :
       /\ pointing[k] = "idle" => routes[k] = [state |-> "absent", snapshot |-> Original]
       /\ pointing[k] \notin {"idle", "fetched"} => routes[k].state # "absent"
       /\ routes[k].state = "absent" =>
            route # k /\ \A j \in Tokens : routes[j].snapshot # k

\* Tokens never lead round in a circle: a token saves what others made before it.
NoCircle ==
    \A S \in SUBSET Tokens : (\A k \in S : routes[k].snapshot \in S) => S = {}

RoutingInv == RoutingTypeOK /\ SavedInv /\ NoCircle

LEMMA InitRoutingInv == RoutesInit => RoutingInv
<1> SUFFICES ASSUME RoutesInit PROVE RoutingInv
    OBVIOUS
<1> USE RoutesAssumption DEF RoutesInit
<1>1. RoutingTypeOK
    BY DEF RoutingTypeOK, RoutesTypeOK, Settings, RouteStates, IdleRestore
<1>2. SavedInv
    BY DEF SavedInv
<1>3. NoCircle
    BY DEF NoCircle
<1> QED
    BY <1>1, <1>2, <1>3 DEF RoutingInv

\* A transition keeps what was saved and makes no row absent.
LEMMA TransitionKeeps ==
    ASSUME RoutesTypeOK, NEW k \in Tokens, NEW expected,
           NEW state \in RouteStates \ {"absent"}, Transition(k, expected, state)
    PROVE  /\ routes' \in [Tokens -> [state : RouteStates, snapshot : Settings]]
           /\ \A j \in Tokens : /\ routes'[j].snapshot = routes[j].snapshot
                                /\ routes'[j] = routes[j] \/ j = k
                                /\ routes'[j].state = "absent" => routes[j].state = "absent"
<1>1. routes \in [Tokens -> [state : RouteStates, snapshot : Settings]]
    BY DEF RoutesTypeOK
<1>2. CASE routes' = routes
    BY <1>1, <1>2
<1>3. CASE routes[k].state \in expected /\ routes' = [routes EXCEPT ![k].state = state]
  <2> DEFINE row == [routes[k] EXCEPT !.state = state]
  <2>1. row \in [state : RouteStates, snapshot : Settings] /\ row.state = state
        /\ row.snapshot = routes[k].snapshot
    BY <1>1
  <2>2. routes' = [routes EXCEPT ![k] = row]
    BY <1>3
  <2> HIDE DEF row
  <2> QED
    BY <1>1, <2>1, <2>2
<1> QED
    BY <1>2, <1>3 DEF Transition

\* A step after which every token has saved what it had, and is in the ledger if it
\* was, and the number's settings are some that a row vouches for.
LEMMA RowsAreKept ==
    ASSUME RoutingInv,
           \A j \in Tokens : /\ routes'[j].snapshot = routes[j].snapshot
                             /\ routes'[j].state = "absent" => routes[j].state = "absent"
                             /\ pointing'[j] = "idle" => pointing[j] = "idle"
                                                         /\ routes'[j] = routes[j]
                             /\ pointing'[j] \notin {"idle", "fetched"} =>
                                  routes'[j].state # "absent",
           \A j \in Tokens : route' = j /\ route # j => routes[j].state # "absent"
    PROVE  SavedInv' /\ NoCircle'
<1>1. SavedInv'
    BY DEF RoutingInv, SavedInv
<1>2. NoCircle'
    BY DEF RoutingInv, NoCircle
<1> QED
    BY <1>1, <1>2

\* The one step that saves: the token is not yet anywhere on the way back.
LEMMA PointKeeps ==
    ASSUME RoutingInv, NEW k \in Tokens, PointInbound(k)
    PROVE  RoutingInv'
<1>1. /\ routes \in [Tokens -> [state : RouteStates, snapshot : Settings]]
      /\ pointing[k] = "idle" /\ route \in Settings
      /\ pointing \in [Tokens -> {"idle", "fetched", "sent", "applied", "refused", "late", "over"}]
    BY DEF RoutingInv, RoutingTypeOK, RoutesTypeOK, PointInbound
<1>2. routes[k] = [state |-> "absent", snapshot |-> Original]
    BY <1>1 DEF RoutingInv, SavedInv
<1>3. route # k /\ \A j \in Tokens : routes[j].snapshot # k
    BY <1>2 DEF RoutingInv, SavedInv
<1>4. /\ routes'[k] = [state |-> "absent", snapshot |-> route]
      /\ \A j \in Tokens \ {k} : routes'[j] = routes[j]
      /\ routes' \in [Tokens -> [state : RouteStates, snapshot : Settings]]
  <2> DEFINE row == [routes[k] EXCEPT !.snapshot = route]
  <2>1. row = [state |-> "absent", snapshot |-> route]
    BY <1>2
  <2>2. routes' = [routes EXCEPT ![k] = row] /\ row \in [state : RouteStates, snapshot : Settings]
    BY <1>1, <2>1 DEF PointInbound, RouteStates
  <2> HIDE DEF row
  <2> QED
    BY <1>1, <2>1, <2>2
<1>5. /\ pointing'[k] = "fetched" /\ \A j \in Tokens \ {k} : pointing'[j] = pointing[j]
      /\ pointing' \in [Tokens -> {"idle", "fetched", "sent", "applied", "refused", "late", "over"}]
      /\ UNCHANGED <<route, restoring, foreignLeft>>
    BY <1>1 DEF PointInbound
<1>6. RoutingTypeOK'
    BY <1>1, <1>4, <1>5 DEF RoutingInv, RoutingTypeOK, RoutesTypeOK
<1>7. SavedInv'
    BY <1>1, <1>2, <1>3, <1>4, <1>5 DEF RoutingInv, SavedInv
<1>8. NoCircle'
  <2> SUFFICES ASSUME NEW S \in SUBSET Tokens, \A j \in S : routes'[j].snapshot \in S
               PROVE  S = {}
    BY DEF NoCircle
  <2>1. \A j \in S \ {k} : routes[j].snapshot \in S \ {k}
    BY <1>3, <1>4
  <2>2. S \ {k} = {}
    BY <2>1 DEF RoutingInv, NoCircle
  <2>3. k \in S => route \in S
    BY <1>4
  <2> QED
    BY <1>3, <2>2, <2>3
<1> QED
    BY <1>6, <1>7, <1>8 DEF RoutingInv

\* The other steps of a session and of the carrier for it.
LEMMA SessionKeeps ==
    ASSUME RoutingInv, NEW k \in Tokens,
           Prepare(k) \/ CarrierApplies(k) \/ CarrierRefuses(k) \/ HearAnswer(k) \/ HearNoAnswer(k)
    PROVE  RoutingInv'
<1> DEFINE Places == {"idle", "fetched", "sent", "applied", "refused", "late", "over"}
           RowsStay == /\ routes' \in [Tokens -> [state : RouteStates, snapshot : Settings]]
                       /\ routes'[k].state # "absent"
                       /\ \A j \in Tokens :
                            /\ routes'[j].snapshot = routes[j].snapshot
                            /\ routes'[j] = routes[j] \/ j = k
                            /\ routes'[j].state = "absent" => routes[j].state = "absent"
<1>0. /\ RoutesTypeOK /\ routes \in [Tokens -> [state : RouteStates, snapshot : Settings]]
      /\ route \in Settings /\ pointing \in [Tokens -> Places]
    BY DEF RoutingInv, RoutingTypeOK, RoutesTypeOK
<1>1. /\ pointing[k] # "idle" /\ UNCHANGED <<restoring, foreignLeft>>
      /\ \E place \in Places \ {"idle", "fetched"} : pointing' = [pointing EXCEPT ![k] = place]
    BY <1>0 DEF Prepare, CarrierApplies, CarrierRefuses, HearAnswer, HearNoAnswer
<1>2. /\ pointing' \in [Tokens -> Places] /\ pointing'[k] \notin {"idle", "fetched"}
      /\ \A j \in Tokens \ {k} : pointing'[j] = pointing[j]
    BY <1>0, <1>1
<1>3. \/ routes' = routes /\ pointing[k] # "fetched"
      \/ Prepare(k)
      \/ \E state \in {"applied", "failed", "ambiguous"} :
            Transition(k, {"prepared"}, state) /\ pointing[k] # "fetched"
    BY DEF CarrierApplies, CarrierRefuses, HearAnswer, HearNoAnswer
<1>4. RowsStay
  <2>1. CASE Prepare(k)
    <3> DEFINE row == [routes[k] EXCEPT !.state = "prepared"]
    <3>1. row \in [state : RouteStates, snapshot : Settings] /\ row.state = "prepared"
          /\ row.snapshot = routes[k].snapshot
      BY <1>0 DEF RouteStates
    <3>2. routes' = [routes EXCEPT ![k] = row]
      BY <2>1 DEF Prepare
    <3> HIDE DEF row
    <3> QED
      BY <1>0, <3>1, <3>2
  <2>2. ASSUME NEW state \in {"applied", "failed", "ambiguous"},
               Transition(k, {"prepared"}, state), pointing[k] # "fetched"
        PROVE  RowsStay
    <3>1. state \in RouteStates \ {"absent"}
      BY DEF RouteStates
    <3> QED
      BY <1>0, <1>1, <2>2, <3>1, TransitionKeeps DEF RoutingInv, SavedInv
  <2>3. CASE routes' = routes /\ pointing[k] # "fetched"
    BY <1>0, <1>1, <2>3 DEF RoutingInv, SavedInv
  <2> QED
    BY <1>3, <2>1, <2>2, <2>3
<1>5. route' = route \/ (route' = k /\ CarrierApplies(k))
    BY DEF Prepare, CarrierApplies, CarrierRefuses, HearAnswer, HearNoAnswer, Applied
<1>6. route' = k /\ route # k => routes[k].state # "absent"
    BY <1>5 DEF RoutingInv, SavedInv, CarrierApplies
<1>7. RoutingTypeOK'
    BY <1>0, <1>1, <1>2, <1>4, <1>5 DEF RoutingInv, RoutingTypeOK, RoutesTypeOK, Settings
<1>8. SavedInv' /\ NoCircle'
  <2>1. \A j \in Tokens : route' = j /\ route # j => routes[j].state # "absent"
    BY <1>5, <1>6
  <2>2. \A j \in Tokens : pointing'[j] \notin {"idle", "fetched"} => routes'[j].state # "absent"
    BY <1>2, <1>4 DEF RoutingInv, SavedInv
  <2> QED
    BY <1>2, <1>4, <2>1, <2>2, RowsAreKept
<1> QED
    BY <1>7, <1>8 DEF RoutingInv

\* restore, the carrier for it, and changes by others.
LEMMA RestoreKeeps ==
    ASSUME RoutingInv,
           \/ \E r \in Restorers, k \in Tokens : Restore(r, k)
           \/ \E r \in Restorers : Decide(r) \/ CarrierRestores(r) \/ Confirm(r) \/ GiveUp(r)
           \/ ForeignChange
           \/ UNCHANGED routesVars
    PROVE  RoutingInv'
<1> DEFINE Execution == [pc : {"idle", "read", "update", "updated", "over"},
                         token : Tokens \cup {NoToken}, seen : RouteStates]
           Under(x) == x.pc # "idle" => x.token \in Tokens /\ x.seen # "absent"
           Typed == restoring' \in [Restorers -> Execution] /\ \A r \in Restorers : Under(restoring'[r])
           RowsStay == /\ routes' \in [Tokens -> [state : RouteStates, snapshot : Settings]]
                       /\ \A j \in Tokens :
                            /\ routes'[j].snapshot = routes[j].snapshot
                            /\ routes'[j].state = "absent" => routes[j].state = "absent"
                            /\ routes[j].state = "absent" => routes'[j] = routes[j]
<1>0. /\ RoutesTypeOK /\ routes \in [Tokens -> [state : RouteStates, snapshot : Settings]]
      /\ route \in Settings /\ restoring \in [Restorers -> Execution]
      /\ \A r \in Restorers : Under(restoring[r])
      /\ foreignLeft \in 0 .. MaxForeign
    BY DEF RoutingInv, RoutingTypeOK, RoutesTypeOK
<1>1. ASSUME NEW r \in Restorers, NEW state \in {"restored", "conflict"},
             restoring[r].pc # "idle", Transition(restoring[r].token, {restoring[r].seen}, state)
      PROVE  RowsStay
  <2> DEFINE k == restoring[r].token
  <2>1. k \in Tokens /\ restoring[r].seen # "absent"
    BY <1>0, <1>1
  <2>2. state \in RouteStates \ {"absent"}
    BY DEF RouteStates
  <2>3. routes[k].state = "absent" => routes' = routes
    BY <1>1, <2>1 DEF Transition
  <2>4. Transition(k, {restoring[r].seen}, state)
    BY <1>1
  <2> HIDE DEF k
  <2> QED
    BY <1>0, <2>1, <2>2, <2>3, <2>4, TransitionKeeps
<1>2. ASSUME NEW r \in Restorers, NEW x \in Execution, Under(x),
             restoring' = [restoring EXCEPT ![r] = x]
      PROVE  Typed
    BY <1>0, <1>2
<1>3. ASSUME NEW r \in Restorers, NEW place \in {"update", "updated", "over"},
             restoring[r].pc # "idle", restoring' = [restoring EXCEPT ![r].pc = place]
      PROVE  Typed
  <2> DEFINE x == [restoring[r] EXCEPT !.pc = place]
  <2>1. x \in Execution /\ x.token = restoring[r].token /\ x.seen = restoring[r].seen
    BY <1>0
  <2>2. restoring' = [restoring EXCEPT ![r] = x]
    BY <1>3
  <2>3. restoring[r].token \in Tokens /\ restoring[r].seen # "absent"
    BY <1>0, <1>3
  <2> HIDE DEF x
  <2> QED
    BY <1>2, <2>1, <2>2, <2>3
<1>4. ASSUME RowsStay, Typed, UNCHANGED pointing, foreignLeft' \in 0 .. MaxForeign,
             route' \in Settings,
             \A j \in Tokens : route' = j /\ route # j => routes[j].state # "absent"
      PROVE  RoutingInv'
  <2>1. RoutingTypeOK'
    BY <1>0, <1>4 DEF RoutingInv, RoutingTypeOK, RoutesTypeOK
  <2>2. \A j \in Tokens : pointing'[j] \notin {"idle", "fetched"} => routes'[j].state # "absent"
    BY <1>4 DEF RoutingInv, SavedInv
  <2>3. \A j \in Tokens : pointing'[j] = "idle" => pointing[j] = "idle" /\ routes'[j] = routes[j]
    BY <1>4 DEF RoutingInv, SavedInv
  <2>4. SavedInv' /\ NoCircle'
    BY <1>4, <2>2, <2>3, RowsAreKept
  <2> QED
    BY <2>1, <2>4 DEF RoutingInv
<1>5. ASSUME NEW r \in Restorers, NEW k \in Tokens, Restore(r, k)
      PROVE  RoutingInv'
  <2> DEFINE x == [pc |-> "read", token |-> k, seen |-> routes[k].state]
  <2>1. x \in Execution /\ Under(x) /\ restoring' = [restoring EXCEPT ![r] = x]
    BY <1>0, <1>5 DEF Restore
  <2>2. Typed
    BY <1>2, <2>1
  <2> QED
    BY <1>0, <1>4, <1>5, <2>2 DEF Restore
<1>6. ASSUME NEW r \in Restorers, Decide(r)
      PROVE  RoutingInv'
  <2>1. RowsStay
    BY <1>0, <1>1, <1>6 DEF Decide
  <2>2. Typed
    BY <1>3, <1>6 DEF Decide
  <2> QED
    BY <1>0, <1>4, <1>6, <2>1, <2>2 DEF Decide
<1>7. ASSUME NEW r \in Restorers, CarrierRestores(r)
      PROVE  RoutingInv'
  <2>1. restoring[r].token \in Tokens /\ route' = routes[restoring[r].token].snapshot
    BY <1>0, <1>7 DEF CarrierRestores
  <2>2. route' \in Settings /\ \A j \in Tokens : route' = j => routes[j].state # "absent"
    BY <1>0, <2>1 DEF RoutingInv, SavedInv
  <2>3. Typed
    BY <1>3, <1>7 DEF CarrierRestores
  <2> QED
    BY <1>0, <1>4, <1>7, <2>2, <2>3 DEF CarrierRestores
<1>8. ASSUME NEW r \in Restorers, Confirm(r) \/ GiveUp(r)
      PROVE  RoutingInv'
  <2>1. RowsStay
    BY <1>0, <1>1, <1>8 DEF Confirm, GiveUp
  <2>2. Typed
    BY <1>3, <1>8 DEF Confirm, GiveUp
  <2> QED
    BY <1>0, <1>4, <1>8, <2>1, <2>2 DEF Confirm, GiveUp
<1>9. CASE ForeignChange
  <2>1. route' = Foreign /\ Foreign \notin Tokens /\ Foreign \in Settings
        /\ foreignLeft' \in 0 .. MaxForeign /\ UNCHANGED <<routes, pointing, restoring>>
    BY <1>0, <1>9, RoutesAssumption DEF ForeignChange, Settings
  <2> QED
    BY <1>0, <1>4, <2>1
<1>10. CASE UNCHANGED routesVars
    BY <1>0, <1>4, <1>10 DEF routesVars
<1> QED
    BY <1>5, <1>6, <1>7, <1>8, <1>9, <1>10

LEMMA NextRoutingInv == RoutingInv /\ [RoutesNext]_routesVars => RoutingInv'
BY PointKeeps, SessionKeeps, RestoreKeeps DEF RoutesNext

LEMMA AlwaysRoutingInv == RoutesSpec => []RoutingInv
BY InitRoutingInv, NextRoutingInv, PTL DEF RoutesSpec

\* Where the number, the ledger and its sessions and restorers can be.
THEOREM RoutesTypeCorrect == RoutesSpec => []RoutesTypeOK
<1>1. RoutingInv => RoutesTypeOK
    BY DEF RoutingInv, RoutingTypeOK
<1> QED
    BY <1>1, AlwaysRoutingInv, PTL

\* The way back is itself a set that leads back, and all of it is in the ledger.
LEMMA TrailLeadsBack ==
    ASSUME RoutingInv
    PROVE  NumberIsRecoverable
<1>0. /\ routes \in [Tokens -> [state : RouteStates, snapshot : Settings]]
      /\ route \in Settings /\ Trail \subseteq Settings
    BY DEF RoutingInv, RoutingTypeOK, RoutesTypeOK, Trail
<1>1. route \in Trail
    BY <1>0 DEF Trail, LeadsBack
<1>2. \A k \in Trail \cap Tokens : routes[k].snapshot \in Trail
  <2> SUFFICES ASSUME NEW k \in Trail \cap Tokens, NEW S \in SUBSET Settings, LeadsBack(S)
               PROVE  routes[k].snapshot \in S
    BY <1>0 DEF Trail
  <2>1. k \in S
    BY DEF Trail
  <2> QED
    BY <2>1 DEF LeadsBack
<1>3. ~(Trail \subseteq Tokens)
    BY <1>1, <1>2 DEF RoutingInv, NoCircle
<1>4. ASSUME NEW k \in Trail \cap Tokens
      PROVE  routes[k].state # "absent"
  <2> DEFINE Kept == {x \in Settings : x \in Tokens => routes[x].state # "absent"}
  <2>1. route \in Kept
    BY <1>0 DEF RoutingInv, SavedInv
  <2>2. \A j \in Kept \cap Tokens : routes[j].snapshot \in Kept
    BY <1>0 DEF RoutingInv, SavedInv
  <2>3. LeadsBack(Kept)
    BY <2>1, <2>2 DEF LeadsBack
  <2>4. Kept \in SUBSET Settings
    OBVIOUS
  <2>5. k \in Kept
    <3> HIDE DEF Kept
    <3> QED
      BY <1>4, <2>3, <2>4 DEF Trail
  <2> QED
    BY <2>5
<1> QED
    BY <1>3, <1>4 DEF NumberIsRecoverable

\* Whatever sessions point a number to themselves, over each other, with answers lost,
\* applied late or never, while tokens are restored and others change the number: the
\* ledger leads back to settings that no session made (telephony/twilio/adapter.py
\* point_inbound and restore).
THEOREM NumbersStayRecoverable == RoutesSpec => []NumberIsRecoverable
BY TrailLeadsBack, AlwaysRoutingInv, PTL

-----------------------------------------------------------------------------
(* The inductive invariant *)

Kinds == {"accept", "status", "conference"}

\* What the carrier reports happened: the human's call was created, an accept callback
\* carries the digit that was pressed, a conference callback an incarnation that was.
ReportInv ==
    /\ conference \in Nat
    /\ reports # {} => create = "made"
    /\ \A m \in reports :
         /\ m.kind \in Kinds
         /\ m.kind = "accept" => m.status = pressed /\ pressed # "none"
         /\ m.kind = "status" => m.status \in {"ringing", "completed", "failed"}
         /\ m.kind = "conference" => m.id \in 0..conference

\* A callback in progress is one that was sent; a host that is down handles none.
HandlerInv ==
    /\ DOMAIN handlers = Kinds
    /\ \A k \in Kinds :
         /\ \/ handlers[k] = Idle
            \/ handlers[k] \in [kind : {k}, report : {m \in reports : m.kind = k},
                                seen : [state : States, human : BOOLEAN, conference : Nat],
                                touched : BOOLEAN]
         /\ host # "up" => handlers[k] = Idle

Final == {"declined", "failed", "completed", "recovered", "conflict"}
Undecided == {"prepared", "dialing", "accepted"}
Redirected == {"bridging", "bridged", "completed", "failed", "ambiguous", "conflict"}
BeforeAcceptance ==
    {"idle", "creating", "binding", "polling", "timeout", "hangup", "hungup", "hangupunknown"}

\* Where the waiter is tells what it has done; it does not outlive its process.
WaiterInv ==
    /\ waiter.pc = "idle" => transfer.state = "absent" /\ create = "none"
    /\ waiter.pc = "binding" => create = "made"
    /\ waiter.pc \in {"hangup", "hungup", "hangupunknown"} => waiter.seen \in Undecided
    /\ waiter.pc \in BeforeAcceptance \cup {"bridge"} => redirect = "none"
    /\ waiter.pc \in BeforeAcceptance => reason # "transferred"
    /\ waiter.pc = "done" => redirect = "made"
    /\ host # "up" => waiter.pc \in {"idle", "over", "done"}

\* The human's call exists once it is created, and the row knows no call before.
DialInv ==
    /\ create # "made" => human = "none" /\ ~transfer.human
    /\ create = "made" => human # "none"
    /\ pressed # "none" => create = "made"

\* The caller moves after the human pressed 1, and the row never forgets it.
MoveInv ==
    /\ transfer.state \in {"accepted", "bridging", "bridged"} => pressed = "one"
    /\ redirect # "none" => pressed = "one" /\ transfer.state \in Redirected
    /\ caller = "conference" => redirect = "made"

\* Recovery hangs up before it writes, and nothing else writes while it runs.
RecoverInv ==
    /\ host = "recovering" => /\ transfer.state \in Undecided
                              /\ transfer.human => human = "over"
    /\ transfer.state = "recovered" /\ transfer.human => human = "over"

WarmInv ==
    /\ WarmTypeOK /\ ReportInv /\ HandlerInv /\ WaiterInv /\ DialInv /\ MoveInv /\ RecoverInv
    /\ TransferredMeansMoved

-----------------------------------------------------------------------------
(* What the parts of the actions do *)

Rows(c) == [state : States, human : BOOLEAN, conference : 0..c]

WaiterStates ==
    {"idle", "creating", "binding", "polling", "timeout", "hangup", "hungup", "hangupunknown",
     "bridge", "redirecting", "explain", "done", "over"}
Waiters == [pc : WaiterStates, seen : States \cup {"none"}, cancelled : BOOLEAN]

-----------------------------------------------------------------------------
LEMMA WarmInvInit == WarmInit => WarmInv
<1> SUFFICES ASSUME WarmInit PROVE WarmInv
    OBVIOUS
<1> USE WarmAssumption DEF WarmInit
<1>1. WarmTypeOK
    BY DEF WarmTypeOK, States
<1>2. ReportInv /\ HandlerInv
    BY DEF ReportInv, HandlerInv, Kinds
<1>3. WaiterInv /\ DialInv /\ MoveInv
    BY DEF WaiterInv, DialInv, MoveInv, BeforeAcceptance
<1>4. RecoverInv /\ TransferredMeansMoved
    BY DEF RecoverInv, TransferredMeansMoved
<1> QED
    BY <1>1, <1>2, <1>3, <1>4 DEF WarmInv

\* A compare-and-set moves the row from one of the expected states, or not at all.
LEMMA WriteMoves ==
    ASSUME WarmInv, NEW expected, NEW state \in States, Write(expected, state)
    PROVE  /\ transfer' \in Rows(conference)
           /\ transfer'.human = transfer.human
           /\ \/ transfer.state \in expected /\ transfer'.state = state
              \/ transfer.state \notin expected /\ transfer' = transfer
BY DEF WarmInv, WarmTypeOK, Rows, Write, Fenced

LEMMA BindMoves ==
    ASSUME WarmInv, NEW state \in States, BindHuman(state)
    PROVE  /\ transfer' \in Rows(conference)
           /\ \/ transfer.state = "prepared" /\ transfer'.state = state /\ transfer'.human
              \/ transfer.state # "prepared" /\ transfer' = transfer
BY DEF WarmInv, WarmTypeOK, Rows, BindHuman, Fenced

\* The waiter goes on unless it was cancelled; it never forgets that it was.
LEMMA WaiterMoves ==
    ASSUME WarmInv
    PROVE  /\ Over \in Waiters /\ Over.pc = "over" /\ Over.cancelled = waiter.cancelled
           /\ \A pc \in WaiterStates, seen \in States \cup {"none"} :
                LET w == [waiter EXCEPT !.pc = pc, !.seen = seen]
                IN  /\ w \in Waiters /\ w.pc = pc /\ w.seen = seen
                    /\ w.cancelled = waiter.cancelled
           /\ \A pc \in WaiterStates :
                LET w == [waiter EXCEPT !.pc = pc]
                IN  /\ w \in Waiters /\ w.pc = pc /\ w.seen = waiter.seen
                    /\ w.cancelled = waiter.cancelled
BY DEF WarmInv, WarmTypeOK, Waiters, WaiterStates, Over

LEMMA WaiterContinues ==
    ASSUME WarmInv, NEW pc \in WaiterStates
    PROVE  /\ Continue(pc, "none") \in Waiters
           /\ Continue(pc, "none").cancelled = waiter.cancelled
           /\ \/ waiter.cancelled /\ Continue(pc, "none").pc = "over"
              \/ ~waiter.cancelled /\ Continue(pc, "none").pc = pc
<1>1. CASE waiter.cancelled
    BY <1>1, WaiterMoves DEF Continue
<1>2. CASE ~waiter.cancelled
    BY <1>2, WaiterMoves DEF Continue
<1> QED
    BY <1>1, <1>2

\* The end of the human's call: it stays over, and its callbacks are about what was.
LEMMA HangUpEnds ==
    ASSUME WarmInv, NEW status \in {"completed", "failed"}, EndHuman(status),
           UNCHANGED <<create, pressed, conference>>
    PROVE  /\ ReportInv'
           /\ reports \subseteq reports'
           /\ human' = IF human \in {"none", "over"} THEN human ELSE "over"
<1>1. human' = IF human \in {"none", "over"} THEN human ELSE "over"
    BY DEF EndHuman
<1>2. CASE human \in {"none", "over"}
    BY <1>1, <1>2 DEF EndHuman, WarmInv, ReportInv
<1>3. CASE human \notin {"none", "over"}
  <2>1. create = "made"
      BY <1>3 DEF WarmInv, DialInv
  <2>2. reports' = reports \cup {[kind |-> "status", status |-> status]}
                    \cup (IF InConference = {"human"}
                          THEN {[kind |-> "conference", status |-> "end", id |-> conference]}
                          ELSE {})
      BY <1>3 DEF EndHuman
  <2>3. \A m \in reports' : \/ m \in reports
                            \/ m = [kind |-> "status", status |-> status]
                            \/ m = [kind |-> "conference", status |-> "end", id |-> conference]
      BY <2>2
  <2>4. ReportInv'
      BY <2>1, <2>3 DEF WarmInv, ReportInv, Kinds
  <2> QED
      BY <1>1, <2>2, <2>4
<1> QED
    BY <1>2, <1>3

\* A request whose answer may be lost hangs the human up, or nothing happens.
LEMMA HangUpOrNot ==
    ASSUME WarmInv, EndHuman("completed") \/ UNCHANGED <<human, reports>>,
           UNCHANGED <<create, pressed, conference>>
    PROVE  /\ ReportInv'
           /\ reports \subseteq reports'
           /\ human' = human \/ (human # "none" /\ human' = "over")
<1>1. CASE EndHuman("completed")
    BY <1>1, HangUpEnds
<1>2. CASE UNCHANGED <<human, reports>>
    BY <1>2 DEF WarmInv, ReportInv
<1> QED
    BY <1>1, <1>2

\* A party enters the conference: its incarnations only grow.
LEMMA EnterCounts ==
    ASSUME WarmInv, Enter, create = "made", UNCHANGED <<create, pressed>>
    PROVE  /\ ReportInv'
           /\ reports \subseteq reports'
           /\ conference' \in Nat /\ conference <= conference'
<1>1. conference' \in Nat /\ conference <= conference'
    BY DEF Enter, WarmInv, ReportInv
<1>2. reports' = reports \cup {[kind |-> "conference", status |-> "join", id |-> conference']}
    BY DEF Enter
<1>3. \A m \in reports' : \/ m \in reports
                          \/ m = [kind |-> "conference", status |-> "join", id |-> conference']
    BY <1>2
<1>4. ReportInv'
    BY <1>1, <1>3 DEF WarmInv, ReportInv, Kinds
<1> QED
    BY <1>1, <1>2, <1>4

\* The reply to a digit only touches a human who is being briefed.
LEMMA ReplyMoves ==
    ASSUME WarmInv, NEW accepted, Reply(accepted), create = "made", UNCHANGED <<create, pressed>>
    PROVE  /\ ReportInv'
           /\ reports \subseteq reports'
           /\ conference' \in Nat /\ conference <= conference'
           /\ human' = human \/ (human = "briefed" /\ human' \in {"over", "conference"})
<1>1. CASE ~accepted /\ human = "briefed"
  <2>1. EndHuman("completed") /\ UNCHANGED conference
      BY <1>1 DEF Reply
  <2> QED
      BY <1>1, <2>1, HangUpEnds DEF WarmInv, ReportInv
<1>2. CASE accepted /\ human = "briefed"
  <2>1. Enter /\ human' = "conference"
      BY <1>2 DEF Reply
  <2> QED
      BY <1>2, <2>1, EnterCounts
<1>3. CASE human # "briefed"
  <2>1. UNCHANGED <<human, conference, reports>>
      BY <1>3 DEF Reply
  <2> QED
      BY <2>1 DEF WarmInv, ReportInv
<1> QED
    BY <1>1, <1>2, <1>3

\* A callback in progress was sent, about a call that exists, and the host is up.
LEMMA HandledReports ==
    ASSUME WarmInv, NEW k \in Kinds, handlers[k] # Idle
    PROVE  /\ handlers[k].report \in reports /\ handlers[k].report.kind = k
           /\ create = "made" /\ host = "up" /\ waiter.pc # "idle"
<1>1. handlers[k].report \in {m \in reports : m.kind = k} /\ host = "up"
    BY DEF WarmInv, HandlerInv
<1>2. create = "made"
    BY <1>1 DEF WarmInv, ReportInv
<1>3. waiter.pc # "idle"
    BY <1>2 DEF WarmInv, WaiterInv
<1> QED
    BY <1>1, <1>2, <1>3

\* New reports leave the callbacks in progress as they are.
LEMMA HandlersKept ==
    ASSUME HandlerInv, UNCHANGED handlers, reports \subseteq reports', host' # "up" => host # "up"
    PROVE  HandlerInv'
<1>1. ASSUME NEW k \in Kinds, handlers[k] # Idle
      PROVE  handlers'[k] \in [kind : {k}, report : {m \in reports' : m.kind = k},
                               seen : [state : States, human : BOOLEAN, conference : Nat],
                               touched : BOOLEAN]
  <2> DEFINE Written == [state : States, human : BOOLEAN, conference : Nat]
  <2>1. handlers[k] \in [kind : {k}, report : {m \in reports : m.kind = k}, seen : Written,
                         touched : BOOLEAN]
      BY <1>1 DEF HandlerInv
  <2>2. {m \in reports : m.kind = k} \subseteq {m \in reports' : m.kind = k}
      OBVIOUS
  <2> HIDE DEF Written
  <2>3. handlers[k] \in [kind : {k}, report : {m \in reports' : m.kind = k}, seen : Written,
                         touched : BOOLEAN]
      BY <2>1, <2>2
  <2> QED
      BY <2>3 DEF Written
<1> QED
    BY <1>1 DEF HandlerInv

LEMMA HandlerDone ==
    ASSUME HandlerInv, NEW k \in Kinds, Handled(k), reports \subseteq reports', UNCHANGED host
    PROVE  HandlerInv'
<1>1. /\ DOMAIN handlers' = Kinds /\ handlers'[k] = Idle
      /\ \A j \in Kinds \ {k} : handlers'[j] = handlers[j]
    BY DEF HandlerInv, Handled
<1>2. ASSUME NEW j \in Kinds, handlers[j] # Idle
      PROVE  handlers[j] \in [kind : {j}, report : {m \in reports' : m.kind = j},
                              seen : [state : States, human : BOOLEAN, conference : Nat],
                              touched : BOOLEAN]
  <2> DEFINE AllRows == [state : States, human : BOOLEAN, conference : Nat]
  <2>1. handlers[j] \in [kind : {j}, report : {m \in reports : m.kind = j}, seen : AllRows,
                         touched : BOOLEAN]
      BY <1>2 DEF HandlerInv
  <2>2. {m \in reports : m.kind = j} \subseteq {m \in reports' : m.kind = j}
      OBVIOUS
  <2> HIDE DEF AllRows
  <2>3. handlers[j] \in [kind : {j}, report : {m \in reports' : m.kind = j}, seen : AllRows,
                         touched : BOOLEAN]
      BY <2>1, <2>2
  <2> QED
      BY <2>3 DEF AllRows
<1> QED
    BY <1>1, <1>2 DEF HandlerInv

-----------------------------------------------------------------------------
LEMMA WarmInvNext == WarmInv /\ [WarmNext]_warmVars => WarmInv'
<1> SUFFICES ASSUME WarmInv, [WarmNext]_warmVars PROVE WarmInv'
    OBVIOUS
<1> USE DEF WarmInv, ledger, session, carrier, process
<1>1. ASSUME StartWarmTransfer PROVE WarmInv'
  <2>1. /\ transfer' \in Rows(conference) /\ transfer'.state = "prepared"
        /\ transfer'.human = transfer.human
      BY <1>1 DEF StartWarmTransfer, WarmTypeOK, Rows, States
  <2>2. waiter' \in Waiters /\ waiter'.pc = "creating" /\ waiter'.cancelled = waiter.cancelled
      BY <1>1, WaiterMoves DEF StartWarmTransfer, WaiterStates
  <2>3. /\ create = "none" /\ redirect = "none" /\ reason # "transferred" /\ reports = {}
        /\ human = "none" /\ ~transfer.human /\ transfer.state = "absent"
      BY <1>1 DEF StartWarmTransfer, WaiterInv, DialInv, ReportInv, BeforeAcceptance
  <2>4. WarmTypeOK'
      BY <1>1, <2>1, <2>2, <2>3 DEF StartWarmTransfer, WarmTypeOK, Rows, Waiters, WaiterStates
  <2>5. ReportInv'
      BY <1>1, <2>1, <2>2, <2>3 DEF StartWarmTransfer, ReportInv, Kinds
  <2>6. WaiterInv'
      BY <1>1, <2>1, <2>2, <2>3 DEF StartWarmTransfer, WaiterInv, Undecided, BeforeAcceptance
  <2>7. DialInv'
      BY <1>1, <2>1, <2>2, <2>3 DEF StartWarmTransfer, DialInv
  <2>8. MoveInv'
      BY <1>1, <2>1, <2>2, <2>3 DEF StartWarmTransfer, MoveInv, Redirected
  <2>9. RecoverInv'
      BY <1>1, <2>1, <2>2, <2>3 DEF StartWarmTransfer, RecoverInv, Undecided
  <2>10. TransferredMeansMoved'
      BY <1>1, <2>1, <2>2, <2>3 DEF StartWarmTransfer, TransferredMeansMoved
  <2> QED
      BY <1>1, <2>4, <2>5, <2>6, <2>7, <2>8, <2>9, <2>10 DEF StartWarmTransfer, HandlerInv
<1>2. ASSUME CarrierDials PROVE WarmInv'
  <2>1. human = "none" /\ ~transfer.human /\ reports = {} /\ waiter.pc # "idle"
      BY <1>2 DEF CarrierDials, DialInv, ReportInv, WaiterInv
  <2>2. transfer.state # "recovered" \/ ~transfer.human
      BY <2>1
  <2>3. WarmTypeOK'
      BY <1>2, <2>1, <2>2 DEF CarrierDials, WarmTypeOK, Rows, Waiters, WaiterStates
  <2>4. ReportInv'
      BY <1>2, <2>1, <2>2 DEF CarrierDials, ReportInv, Kinds
  <2>5. HandlerInv'
      BY <1>2, <2>1, <2>2 DEF CarrierDials, HandlerInv, Kinds
  <2>6. WaiterInv'
      BY <1>2, <2>1, <2>2 DEF CarrierDials, WaiterInv, Undecided, BeforeAcceptance
  <2>7. DialInv'
      BY <1>2, <2>1, <2>2 DEF CarrierDials, DialInv
  <2>8. RecoverInv'
      BY <1>2, <2>1, <2>2 DEF CarrierDials, RecoverInv, Undecided
  <2> QED
      BY <1>2, <2>3, <2>4, <2>5, <2>6, <2>7, <2>8 DEF CarrierDials, MoveInv,
         TransferredMeansMoved
<1>3. ASSUME CarrierRefusesToDial PROVE WarmInv'
  <2>1. WarmTypeOK'
      BY <1>3 DEF CarrierRefusesToDial, WarmTypeOK, Rows, Waiters, WaiterStates
  <2>2. ReportInv'
      BY <1>3 DEF CarrierRefusesToDial, ReportInv, Kinds
  <2>3. WaiterInv'
      BY <1>3 DEF CarrierRefusesToDial, WaiterInv, Undecided, BeforeAcceptance
  <2>4. DialInv'
      BY <1>3 DEF CarrierRefusesToDial, DialInv
  <2> QED
      BY <1>3, <2>1, <2>2, <2>3, <2>4 DEF CarrierRefusesToDial, HandlerInv, MoveInv,
         RecoverInv, TransferredMeansMoved
<1>4. ASSUME HearCreate PROVE WarmInv'
  <2>1. /\ transfer' \in Rows(conference) /\ transfer'.human = transfer.human
        /\ \/ transfer.state \in {"prepared"} /\ transfer'.state \in {"failed", "ambiguous"}
           \/ transfer' = transfer
      BY <1>4, WriteMoves DEF HearCreate, WarmTypeOK, Rows, States
  <2>2. /\ waiter' \in Waiters /\ waiter'.cancelled = waiter.cancelled /\ waiter'.pc \in {"over", "binding"}
        /\ waiter'.pc = "binding" => create = "made"
    <3>1. CASE waiter' = Over
        BY <3>1, WaiterMoves
    <3>2. CASE /\ create = "made"
               /\ waiter' = [waiter EXCEPT !.pc = "binding", !.seen = transfer.state]
        BY <3>2 DEF WarmTypeOK, Waiters, WaiterStates
    <3> QED
        BY <1>4, <3>1, <3>2 DEF HearCreate
  <2>3. waiter.pc = "creating" /\ redirect = "none" /\ reason # "transferred"
      BY <1>4 DEF HearCreate, WaiterInv, BeforeAcceptance
  <2>4. host = "up"
      BY <1>4 DEF HearCreate, WaiterInv, WarmTypeOK
  <2>5. UNCHANGED <<reason, create, redirect, human, pressed, caller, conference, reports, handlers, host, crashes>>
      BY <1>4 DEF HearCreate
  <2>6. WarmTypeOK'
      BY <2>1, <2>2, <2>3, <2>4, <2>5 DEF WarmTypeOK, Rows, Waiters, WaiterStates
  <2>7. WaiterInv'
      BY <2>1, <2>2, <2>3, <2>4, <2>5 DEF WaiterInv, Undecided, BeforeAcceptance
  <2>8. DialInv'
      BY <2>1, <2>2, <2>3, <2>4, <2>5 DEF DialInv
  <2>9. MoveInv'
      BY <2>1, <2>2, <2>3, <2>4, <2>5 DEF MoveInv, Redirected
  <2>10. RecoverInv'
      BY <2>1, <2>2, <2>3, <2>4, <2>5 DEF RecoverInv, Undecided
  <2>11. TransferredMeansMoved'
      BY <2>1, <2>2, <2>3, <2>4, <2>5 DEF TransferredMeansMoved
  <2> QED
      BY <1>4, <2>6, <2>7, <2>8, <2>9, <2>10, <2>11 DEF HearCreate, ReportInv, HandlerInv
<1>5. ASSUME BindCreate PROVE WarmInv'
  <2>1. /\ transfer' \in Rows(conference)
        /\ \/ transfer.state = "prepared" /\ transfer'.state = "dialing" /\ transfer'.human
           \/ transfer' = transfer
      BY <1>5, BindMoves DEF BindCreate, WarmTypeOK, Rows, States
  <2>2. /\ waiter' \in Waiters /\ waiter'.cancelled = waiter.cancelled /\ waiter'.pc \in {"over", "polling"}
    <3> DEFINE next == Continue("polling", "none")
    <3>1. waiter' = next \/ waiter' = Over
        BY <1>5 DEF BindCreate
    <3>2. "polling" \in WaiterStates
        BY DEF WaiterStates
    <3>3. /\ next \in Waiters /\ next.cancelled = waiter.cancelled
          /\ next.pc \in {"over", "polling"}
        BY <3>2, WaiterContinues
    <3> HIDE DEF next
    <3> QED
        BY <3>1, <3>3, WaiterMoves
  <2>3. /\ waiter.pc = "binding" /\ redirect = "none" /\ reason # "transferred"
        /\ create = "made" /\ host = "up"
      BY <1>5 DEF BindCreate, WaiterInv, BeforeAcceptance, WarmTypeOK
  <2>4. WarmTypeOK'
      BY <1>5, <2>1, <2>2, <2>3 DEF BindCreate, WarmTypeOK, Rows, Waiters, WaiterStates
  <2>5. WaiterInv'
      BY <1>5, <2>1, <2>2, <2>3 DEF BindCreate, WaiterInv, Undecided, BeforeAcceptance
  <2>6. DialInv'
      BY <1>5, <2>1, <2>2, <2>3 DEF BindCreate, DialInv
  <2>7. MoveInv'
      BY <1>5, <2>1, <2>2, <2>3 DEF BindCreate, MoveInv, Redirected
  <2>8. RecoverInv'
      BY <1>5, <2>1, <2>2, <2>3 DEF BindCreate, RecoverInv, Undecided
  <2>9. TransferredMeansMoved'
      BY <1>5, <2>1, <2>2, <2>3 DEF BindCreate, TransferredMeansMoved
  <2> QED
      BY <1>5, <2>4, <2>5, <2>6, <2>7, <2>8, <2>9 DEF BindCreate, ReportInv, HandlerInv
<1>6. ASSUME PollAccepted PROVE WarmInv'
  <2>1. WarmTypeOK'
      BY <1>6 DEF PollAccepted, WarmTypeOK, Rows, Waiters, WaiterStates
  <2>2. WaiterInv'
      BY <1>6 DEF PollAccepted, WaiterInv, Undecided, BeforeAcceptance
  <2>3. TransferredMeansMoved'
      BY <1>6 DEF PollAccepted, TransferredMeansMoved
  <2> QED
      BY <1>6, <2>1, <2>2, <2>3 DEF PollAccepted, ReportInv, HandlerInv, DialInv, MoveInv,
         RecoverInv
<1>7. ASSUME PollEnded PROVE WarmInv'
  <2>1. /\ waiter' \in Waiters /\ waiter'.cancelled = waiter.cancelled /\ waiter'.pc = "over"
      BY <1>7, WaiterMoves DEF PollEnded
  <2>2. redirect = "none" /\ reason # "transferred"
      BY <1>7 DEF PollEnded, WaiterInv, BeforeAcceptance
  <2>3. WarmTypeOK'
      BY <1>7, <2>1, <2>2 DEF PollEnded, WarmTypeOK, Rows, Waiters, WaiterStates
  <2>4. WaiterInv'
      BY <1>7, <2>1, <2>2 DEF PollEnded, WaiterInv, Undecided, BeforeAcceptance
  <2>5. TransferredMeansMoved'
      BY <1>7, <2>1, <2>2 DEF PollEnded, TransferredMeansMoved
  <2> QED
      BY <1>7, <2>3, <2>4, <2>5 DEF PollEnded, ReportInv, HandlerInv, DialInv, MoveInv,
         RecoverInv
<1>8. ASSUME TimeOut PROVE WarmInv'
  <2>1. WarmTypeOK'
      BY <1>8 DEF TimeOut, WarmTypeOK, Rows, Waiters, WaiterStates
  <2>2. WaiterInv'
      BY <1>8 DEF TimeOut, WaiterInv, Undecided, BeforeAcceptance
  <2>3. TransferredMeansMoved'
      BY <1>8 DEF TimeOut, TransferredMeansMoved
  <2> QED
      BY <1>8, <2>1, <2>2, <2>3 DEF TimeOut, ReportInv, HandlerInv, DialInv, MoveInv,
         RecoverInv
<1>9. ASSUME AbortRead PROVE WarmInv'
  <2>1. /\ waiter' \in Waiters /\ waiter'.cancelled = waiter.cancelled
        /\ \/ waiter'.pc = "over"
           \/ waiter'.pc = "hangup" /\ waiter'.seen \in Undecided
      BY <1>9 DEF AbortRead, WarmTypeOK, Waiters, States, WaiterStates, Over, Undecided
  <2>2. redirect = "none" /\ reason # "transferred" /\ host = "up"
      BY <1>9 DEF AbortRead, WaiterInv, BeforeAcceptance, WarmTypeOK
  <2>3. UNCHANGED <<transfer, reason, create, redirect, human, pressed, caller, conference, reports, handlers, host, crashes>>
      BY <1>9 DEF AbortRead
  <2>4. WarmTypeOK'
      BY <2>1, <2>2, <2>3 DEF WarmTypeOK, Rows, Waiters, WaiterStates
  <2>5. WaiterInv'
      BY <2>1, <2>2, <2>3 DEF WaiterInv, Undecided, BeforeAcceptance
  <2>6. TransferredMeansMoved'
      BY <2>1, <2>2, <2>3 DEF TransferredMeansMoved
  <2> QED
      BY <1>9, <2>4, <2>5, <2>6 DEF AbortRead, ReportInv, HandlerInv, DialInv, MoveInv,
         RecoverInv
<1>10. ASSUME AbortHangUp PROVE WarmInv'
  <2>1. /\ waiter.pc = "hangup" /\ waiter.seen \in Undecided /\ redirect = "none"
        /\ reason # "transferred" /\ host = "up"
      BY <1>10 DEF AbortHangUp, WaiterInv, BeforeAcceptance, WarmTypeOK
  <2>2. \E pc \in {"hungup", "hangupunknown"} : waiter' = [waiter EXCEPT !.pc = pc]
      BY <1>10 DEF AbortHangUp
  <2>3. /\ waiter' \in Waiters /\ waiter'.cancelled = waiter.cancelled /\ waiter'.pc \in {"hungup", "hangupunknown"}
        /\ waiter'.seen = waiter.seen
      BY <2>2 DEF WarmTypeOK, Waiters, WaiterStates
  <2>4. EndHuman("completed") \/ UNCHANGED <<human, reports>>
      BY <1>10 DEF AbortHangUp, WarmTypeOK
  <2>5. /\ ReportInv' /\ reports \subseteq reports'
        /\ human' = human \/ (human # "none" /\ human' = "over")
      BY <1>10, <2>4, HangUpOrNot DEF AbortHangUp
  <2>6. HandlerInv'
      BY <1>10, <2>5, HandlersKept DEF AbortHangUp
  <2>7. UNCHANGED <<transfer, reason, create, redirect, pressed, caller, conference, handlers, host, crashes>>
      BY <1>10 DEF AbortHangUp
  <2>8. WarmTypeOK'
      BY <2>1, <2>2, <2>3, <2>4, <2>5, <2>6, <2>7 DEF WarmTypeOK, Rows, Waiters, WaiterStates
  <2>9. ReportInv'
      BY <2>5
  <2>10. HandlerInv'
      BY <2>6
  <2>11. WaiterInv'
      BY <2>1, <2>2, <2>3, <2>4, <2>5, <2>6, <2>7 DEF WaiterInv, Undecided, BeforeAcceptance
  <2>12. DialInv'
      BY <2>1, <2>2, <2>3, <2>4, <2>5, <2>6, <2>7 DEF DialInv
  <2>13. RecoverInv'
      BY <2>1, <2>2, <2>3, <2>4, <2>5, <2>6, <2>7 DEF RecoverInv, Undecided
  <2>14. TransferredMeansMoved'
      BY <2>1, <2>2, <2>3, <2>4, <2>5, <2>6, <2>7 DEF TransferredMeansMoved
  <2> QED
      BY <1>10, <2>8, <2>9, <2>10, <2>11, <2>12, <2>13, <2>14 DEF AbortHangUp, MoveInv
<1>11. ASSUME AbortWrite PROVE WarmInv'
  <2>1. /\ waiter.seen \in Undecided /\ redirect = "none" /\ reason # "transferred"
        /\ host = "up"
      BY <1>11 DEF AbortWrite, WaiterInv, BeforeAcceptance, WarmTypeOK
  <2>2. /\ transfer' \in Rows(conference) /\ transfer'.human = transfer.human
        /\ \/ transfer.state \in Undecided /\ transfer'.state \in {"failed", "ambiguous"}
           \/ transfer' = transfer
      BY <1>11, <2>1, WriteMoves DEF AbortWrite, States
  <2>3. /\ waiter' \in Waiters /\ waiter'.cancelled = waiter.cancelled /\ waiter'.pc = "over"
      BY <1>11, WaiterMoves DEF AbortWrite
  <2>4. WarmTypeOK'
      BY <1>11, <2>1, <2>2, <2>3 DEF AbortWrite, WarmTypeOK, Rows, Waiters, WaiterStates
  <2>5. WaiterInv'
      BY <1>11, <2>1, <2>2, <2>3 DEF AbortWrite, WaiterInv, Undecided, BeforeAcceptance
  <2>6. DialInv'
      BY <1>11, <2>1, <2>2, <2>3 DEF AbortWrite, DialInv
  <2>7. MoveInv'
      BY <1>11, <2>1, <2>2, <2>3 DEF AbortWrite, MoveInv, Redirected
  <2>8. RecoverInv'
      BY <1>11, <2>1, <2>2, <2>3 DEF AbortWrite, RecoverInv, Undecided
  <2>9. TransferredMeansMoved'
      BY <1>11, <2>1, <2>2, <2>3 DEF AbortWrite, TransferredMeansMoved
  <2> QED
      BY <1>11, <2>4, <2>5, <2>6, <2>7, <2>8, <2>9 DEF AbortWrite, ReportInv, HandlerInv
<1>12. ASSUME Cancel PROVE WarmInv'
  <2>1. waiter' \in Waiters /\ waiter'.cancelled /\ waiter'.seen = waiter.seen
      BY <1>12 DEF Cancel, WarmTypeOK, Waiters, WaiterStates, Over
  <2>2. \/ waiter'.pc = waiter.pc
        \/ waiter.pc \in {"polling", "explain"} /\ waiter'.pc = "over"
      BY <1>12 DEF Cancel, WarmTypeOK, Over
  <2>3. WarmTypeOK'
      BY <1>12, <2>1, <2>2 DEF Cancel, WarmTypeOK, Rows, Waiters, WaiterStates
  <2>4. WaiterInv'
      BY <1>12, <2>1, <2>2 DEF Cancel, WaiterInv, Undecided, BeforeAcceptance
  <2>5. TransferredMeansMoved'
      BY <1>12, <2>1, <2>2 DEF Cancel, TransferredMeansMoved
  <2> QED
      BY <1>12, <2>3, <2>4, <2>5 DEF Cancel, ReportInv, HandlerInv, DialInv, MoveInv,
         RecoverInv
<1>13. ASSUME Bridge PROVE WarmInv'
  <2>1. redirect = "none" /\ host = "up" /\ waiter.pc = "bridge"
      BY <1>13 DEF Bridge, WaiterInv, WarmTypeOK
  <2>2. \/ /\ transfer.state = "accepted" /\ Write({"accepted"}, "bridging") /\ redirect' = "sent"
           /\ waiter' = [waiter EXCEPT !.pc = "redirecting"]
        \/ /\ transfer.state # "accepted" /\ Write({"accepted"}, "bridging")
           /\ redirect' = redirect /\ waiter' = Continue("explain", "none")
      BY <1>13 DEF Bridge, Fenced
  <2>3. /\ waiter' \in Waiters /\ waiter'.cancelled = waiter.cancelled
      BY <2>2, WaiterContinues DEF WarmTypeOK, Waiters, WaiterStates
  <2>4. transfer' \in Rows(conference) /\ transfer'.human = transfer.human
      BY <2>2, WriteMoves DEF States
  <2>5. \/ /\ transfer.state = "accepted" /\ transfer'.state = "bridging" /\ redirect' = "sent"
           /\ waiter'.pc = "redirecting"
        \/ /\ transfer' = transfer /\ redirect' = redirect
           /\ waiter'.pc = "explain" \/ (waiter'.pc = "over" /\ waiter.cancelled)
      BY <2>2, WriteMoves, WaiterContinues DEF WarmTypeOK, Waiters, WaiterStates, States
  <2>6. UNCHANGED <<reason, create, human, pressed, caller, conference, reports, handlers, host, crashes>>
      BY <1>13 DEF Bridge
  <2>7. WarmTypeOK'
      BY <2>1, <2>2, <2>3, <2>4, <2>5, <2>6 DEF WarmTypeOK, Rows, Waiters, WaiterStates
  <2>8. WaiterInv'
      BY <2>1, <2>2, <2>3, <2>4, <2>5, <2>6 DEF WaiterInv, Undecided, BeforeAcceptance
  <2>9. DialInv'
      BY <2>1, <2>2, <2>3, <2>4, <2>5, <2>6 DEF DialInv
  <2>10. MoveInv'
      BY <2>1, <2>2, <2>3, <2>4, <2>5, <2>6 DEF MoveInv, Redirected
  <2>11. RecoverInv'
      BY <2>1, <2>2, <2>3, <2>4, <2>5, <2>6 DEF RecoverInv, Undecided
  <2>12. TransferredMeansMoved'
      BY <2>1, <2>2, <2>3, <2>4, <2>5, <2>6 DEF TransferredMeansMoved
  <2> QED
      BY <1>13, <2>7, <2>8, <2>9, <2>10, <2>11, <2>12 DEF Bridge, ReportInv, HandlerInv
<1>14. ASSUME CarrierMovesCaller PROVE WarmInv'
  <2>1. /\ create = "made" /\ redirect = "sent" /\ redirect' = "made"
        /\ caller' = "conference" /\ Enter
      BY <1>14 DEF CarrierMovesCaller, MoveInv, DialInv
  <2>2. /\ ReportInv' /\ reports \subseteq reports'
        /\ conference' \in Nat /\ conference <= conference'
      BY <1>14, <2>1, EnterCounts DEF CarrierMovesCaller
  <2>3. HandlerInv'
      BY <1>14, <2>2, HandlersKept DEF CarrierMovesCaller
  <2>4. conference \in Nat
      BY DEF ReportInv
  <2>5. UNCHANGED <<transfer, waiter, reason, create, human, pressed, handlers, host, crashes>>
      BY <1>14 DEF CarrierMovesCaller
  <2>6. WarmTypeOK'
      BY <2>1, <2>2, <2>3, <2>4, <2>5 DEF WarmTypeOK, Rows, Waiters, WaiterStates
  <2>7. ReportInv'
      BY <2>2
  <2>8. HandlerInv'
      BY <2>3
  <2>9. WaiterInv'
      BY <2>1, <2>2, <2>3, <2>4, <2>5 DEF WaiterInv, Undecided, BeforeAcceptance
  <2>10. MoveInv'
      BY <2>1, <2>2, <2>3, <2>4, <2>5 DEF MoveInv, Redirected
  <2>11. TransferredMeansMoved'
      BY <2>1, <2>2, <2>3, <2>4, <2>5 DEF TransferredMeansMoved
  <2> QED
      BY <1>14, <2>6, <2>7, <2>8, <2>9, <2>10, <2>11 DEF CarrierMovesCaller, DialInv,
         RecoverInv
<1>15. ASSUME CarrierRefusesToMove PROVE WarmInv'
  <2>1. WarmTypeOK'
      BY <1>15 DEF CarrierRefusesToMove, WarmTypeOK, Rows, Waiters, WaiterStates
  <2>2. WaiterInv'
      BY <1>15 DEF CarrierRefusesToMove, WaiterInv, Undecided, BeforeAcceptance
  <2>3. MoveInv'
      BY <1>15 DEF CarrierRefusesToMove, MoveInv, Redirected
  <2>4. TransferredMeansMoved'
      BY <1>15 DEF CarrierRefusesToMove, TransferredMeansMoved
  <2> QED
      BY <1>15, <2>1, <2>2, <2>3, <2>4 DEF CarrierRefusesToMove, ReportInv, HandlerInv,
         DialInv, RecoverInv
<1>16. ASSUME HearRedirect PROVE WarmInv'
  <2>1. /\ transfer' \in Rows(conference) /\ transfer'.human = transfer.human
        /\ \/ transfer.state = "bridging" /\ transfer'.state \in {"bridged", "failed", "ambiguous"}
           \/ transfer' = transfer
      BY <1>16, WriteMoves DEF HearRedirect, States
  <2>2. /\ waiter' \in Waiters /\ waiter'.cancelled = waiter.cancelled
        /\ \/ waiter'.pc \in {"done", "explain"}
           \/ waiter'.pc = "over" /\ waiter.cancelled
        /\ waiter'.pc = "done" => redirect = "made"
      BY <1>16, WaiterContinues DEF HearRedirect, WaiterStates
  <2>3. host = "up" /\ waiter.pc = "redirecting"
      BY <1>16 DEF HearRedirect, WaiterInv, WarmTypeOK
  <2>4. UNCHANGED <<reason, create, redirect, human, pressed, caller, conference, reports, handlers, host, crashes>>
      BY <1>16 DEF HearRedirect
  <2>5. WarmTypeOK'
      BY <2>1, <2>2, <2>3, <2>4 DEF WarmTypeOK, Rows, Waiters, WaiterStates
  <2>6. WaiterInv'
      BY <2>1, <2>2, <2>3, <2>4 DEF WaiterInv, Undecided, BeforeAcceptance
  <2>7. DialInv'
      BY <2>1, <2>2, <2>3, <2>4 DEF DialInv
  <2>8. MoveInv'
      BY <2>1, <2>2, <2>3, <2>4 DEF MoveInv, Redirected
  <2>9. RecoverInv'
      BY <2>1, <2>2, <2>3, <2>4 DEF RecoverInv, Undecided
  <2>10. TransferredMeansMoved'
      BY <2>1, <2>2, <2>3, <2>4 DEF TransferredMeansMoved
  <2> QED
      BY <1>16, <2>5, <2>6, <2>7, <2>8, <2>9, <2>10 DEF HearRedirect, ReportInv, HandlerInv
<1>17. ASSUME Explain PROVE WarmInv'
  <2>1. /\ waiter' \in Waiters /\ waiter'.cancelled = waiter.cancelled /\ waiter'.pc = "over"
      BY <1>17, WaiterMoves DEF Explain
  <2>2. reason' # "transferred"
      BY <1>17 DEF Explain
  <2>3. WarmTypeOK'
      BY <1>17, <2>1, <2>2 DEF Explain, WarmTypeOK, Rows, Waiters, WaiterStates
  <2>4. WaiterInv'
      BY <1>17, <2>1, <2>2 DEF Explain, WaiterInv, Undecided, BeforeAcceptance
  <2>5. TransferredMeansMoved'
      BY <1>17, <2>1, <2>2 DEF Explain, TransferredMeansMoved
  <2> QED
      BY <1>17, <2>3, <2>4, <2>5 DEF Explain, ReportInv, HandlerInv, DialInv, MoveInv,
         RecoverInv
<1>18. ASSUME HumanAnswers PROVE WarmInv'
  <2>1. WarmTypeOK'
      BY <1>18 DEF HumanAnswers, WarmTypeOK, Rows, Waiters, WaiterStates
  <2>2. DialInv'
      BY <1>18 DEF HumanAnswers, DialInv
  <2>3. RecoverInv'
      BY <1>18 DEF HumanAnswers, RecoverInv, Undecided
  <2> QED
      BY <1>18, <2>1, <2>2, <2>3 DEF HumanAnswers, ReportInv, HandlerInv, WaiterInv, MoveInv,
         TransferredMeansMoved
<1>19. ASSUME CallerLeaves PROVE WarmInv'
  <2>1. WarmTypeOK'
      BY <1>19 DEF CallerLeaves, WarmTypeOK, Rows, Waiters, WaiterStates
  <2>2. ReportInv'
    <3>1. UNCHANGED <<create, pressed, conference>>
        BY <1>19 DEF CallerLeaves
    <3>2. \A m \in reports' : \/ m \in reports
                              \/ m = [kind |-> "conference", status |-> "end", id |-> conference]
                              \/ m = [kind |-> "status", status |-> "completed"]
        BY <1>19 DEF CallerLeaves
    <3>3. reports' # reports => create = "made"
        BY <1>19 DEF CallerLeaves, MoveInv, DialInv
    <3> QED
        BY <3>1, <3>2, <3>3 DEF ReportInv, Kinds
  <2>3. HandlerInv'
      BY <1>19 DEF CallerLeaves, HandlerInv, Kinds
  <2>4. DialInv'
      BY <1>19 DEF CallerLeaves, DialInv
  <2>5. MoveInv'
      BY <1>19 DEF CallerLeaves, MoveInv, Redirected
  <2>6. RecoverInv'
      BY <1>19 DEF CallerLeaves, RecoverInv, Undecided
  <2> QED
      BY <1>19, <2>1, <2>2, <2>3, <2>4, <2>5, <2>6 DEF CallerLeaves, WaiterInv,
         TransferredMeansMoved
<1>20. ASSUME NEW digit \in {"one", "other"}, HumanPresses(digit) PROVE WarmInv'
  <2>1. WarmTypeOK'
      BY <1>20 DEF HumanPresses, WarmTypeOK, Rows, Waiters, WaiterStates
  <2>2. ReportInv'
    <3>1. /\ human = "briefed" /\ pressed = "none" /\ pressed' = digit
          /\ UNCHANGED <<create, conference>>
        BY <1>20 DEF HumanPresses
    <3>2. \A r \in reports' : r \in reports \/ r = [kind |-> "accept", status |-> digit]
        BY <1>20 DEF HumanPresses
    <3>3. create = "made"
        BY <3>1 DEF DialInv, WarmTypeOK
    <3> QED
        BY <3>1, <3>2, <3>3 DEF ReportInv, Kinds
  <2>3. HandlerInv'
      BY <1>20 DEF HumanPresses, HandlerInv, Kinds
  <2>4. DialInv'
      BY <1>20 DEF HumanPresses, DialInv
  <2>5. MoveInv'
      BY <1>20 DEF HumanPresses, MoveInv, Redirected
  <2> QED
      BY <1>20, <2>1, <2>2, <2>3, <2>4, <2>5 DEF HumanPresses, WaiterInv, RecoverInv,
         TransferredMeansMoved
<1>21. ASSUME NEW status \in {"completed", "failed"}, HumanEnds(status) PROVE WarmInv'
  <2>1. /\ ReportInv' /\ reports \subseteq reports'
        /\ human' = human \/ (human # "none" /\ human' = "over")
      BY <1>21, HangUpEnds DEF HumanEnds
  <2>2. HandlerInv'
      BY <1>21, <2>1, HandlersKept DEF HumanEnds
  <2>3. WarmTypeOK'
      BY <1>21, <2>1, <2>2 DEF HumanEnds, WarmTypeOK, Rows, Waiters, WaiterStates
  <2>4. ReportInv'
      BY <2>1
  <2>5. HandlerInv'
      BY <2>2
  <2>6. DialInv'
      BY <1>21, <2>1, <2>2 DEF HumanEnds, DialInv
  <2>7. RecoverInv'
      BY <1>21, <2>1, <2>2 DEF HumanEnds, RecoverInv, Undecided
  <2> QED
      BY <1>21, <2>3, <2>4, <2>5, <2>6, <2>7 DEF HumanEnds, WaiterInv, MoveInv,
         TransferredMeansMoved
<1>22. ASSUME NEW m \in reports, HandlerRead(m) PROVE WarmInv'
  <2>1. host = "up" /\ m.kind \in Kinds
      BY <1>22 DEF HandlerRead, ReportInv
  <2>2. HandlerInv'
    <3>1. transfer \in [state : States, human : BOOLEAN, conference : Nat]
        BY DEF WarmTypeOK, ReportInv
    <3>2. /\ DOMAIN handlers' = Kinds
          /\ handlers'[m.kind] = [kind |-> m.kind, report |-> m, seen |-> transfer,
                                  touched |-> FALSE]
          /\ \A k \in Kinds \ {m.kind} : handlers'[k] = handlers[k]
        BY <1>22, <2>1 DEF HandlerRead, HandlerInv
    <3>3. handlers'[m.kind] \in [kind : {m.kind}, report : {r \in reports : r.kind = m.kind},
                                 seen : [state : States, human : BOOLEAN, conference : Nat],
                                 touched : BOOLEAN]
        BY <3>1, <3>2
    <3>4. UNCHANGED <<reports, host>>
        BY <1>22 DEF HandlerRead
    <3> QED
        BY <2>1, <3>2, <3>3, <3>4 DEF HandlerInv
  <2> QED
      BY <1>22, <2>2 DEF HandlerRead, WarmTypeOK, ReportInv, WaiterInv, DialInv, MoveInv,
         RecoverInv, TransferredMeansMoved
<1>23. ASSUME AcceptBinds PROVE WarmInv'
  <2>1. /\ create = "made" /\ host = "up" /\ waiter.pc # "idle" /\ handlers["accept"] # Idle
      BY <1>23, HandledReports DEF AcceptBinds, Kinds
  <2>2. \/ /\ Handled("accept") /\ Reply(FALSE)
        \/ /\ handlers' = [handlers EXCEPT !["accept"].seen = transfer']
           /\ UNCHANGED <<human, conference, reports>>
      BY <1>23 DEF AcceptBinds
  <2>3. /\ ReportInv' /\ reports \subseteq reports'
        /\ conference' \in Nat /\ conference <= conference'
        /\ human' = human \/ (human = "briefed" /\ human' \in {"over", "conference"})
          <3>1. CASE Reply(FALSE)
        BY <1>23, <2>1, <3>1, ReplyMoves DEF AcceptBinds
         <3>2. CASE UNCHANGED <<human, conference, reports>>
        BY <1>23, <3>2 DEF
         AcceptBinds, ReportInv
    <3> QED
        BY <2>2, <3>1, <3>2
  <2>4. /\ transfer' \in Rows(conference)
        /\ \/ transfer.state = "prepared" /\ transfer'.state = "dialing" /\ transfer'.human
           \/ transfer' = transfer
      BY <1>23, BindMoves DEF AcceptBinds, States
  <2>5. conference \in Nat
      BY DEF ReportInv
  <2>6. UNCHANGED <<waiter, reason, create, redirect, pressed, caller, host, crashes>>
      BY <1>23 DEF AcceptBinds
  <2>7. WarmTypeOK'
      BY <2>1, <2>2, <2>3, <2>4, <2>5, <2>6 DEF WarmTypeOK, Rows, Waiters, WaiterStates
  <2>8. ReportInv'
      BY <2>3
  <2>9. HandlerInv'
    <3>1. CASE Handled("accept")
        BY <3>1, <2>3, <1>23, HandlerDone DEF AcceptBinds, Kinds
    <3>2. CASE /\ handlers' = [handlers EXCEPT !["accept"].seen = transfer']
               /\ UNCHANGED <<human, conference, reports>>
      <4>1. transfer' \in [state : States, human : BOOLEAN, conference : Nat]
          BY <2>4, <2>5 DEF Rows
      <4>2. /\ DOMAIN handlers' = Kinds
            /\ \A k \in Kinds \ {"accept"} : handlers'[k] = handlers[k]
          BY <3>2 DEF HandlerInv, Kinds
      <4>3. handlers'["accept"] = [handlers["accept"] EXCEPT !.seen = transfer']
          BY <3>2 DEF HandlerInv, Kinds
      <4>4. handlers["accept"] \in [kind : {"accept"}, report : {m \in reports : m.kind = "accept"},
                                   seen : [state : States, human : BOOLEAN, conference : Nat],
                                   touched : BOOLEAN]
          BY <2>1 DEF HandlerInv, Kinds
      <4>5. handlers'["accept"] \in [kind : {"accept"},
                                    report : {m \in reports : m.kind = "accept"},
                                    seen : [state : States, human : BOOLEAN, conference : Nat],
                                    touched : BOOLEAN]
          BY <4>1, <4>3, <4>4
      <4>6. UNCHANGED <<reports, host>>
          BY <3>2, <1>23 DEF AcceptBinds
      <4> QED
          BY <4>2, <4>5, <4>6, <2>1 DEF HandlerInv
    <3> QED
        BY <3>1, <3>2, <2>2
  <2>10. WaiterInv'
      BY <2>1, <2>2, <2>3, <2>4, <2>5, <2>6 DEF WaiterInv, Undecided, BeforeAcceptance
  <2>11. DialInv'
      BY <2>1, <2>2, <2>3, <2>4, <2>5, <2>6 DEF DialInv
  <2>12. MoveInv'
      BY <2>1, <2>2, <2>3, <2>4, <2>5, <2>6 DEF MoveInv, Redirected
  <2>13. RecoverInv'
      BY <2>1, <2>2, <2>3, <2>4, <2>5, <2>6 DEF RecoverInv, Undecided
  <2> QED
      BY <1>23, <2>7, <2>8, <2>9, <2>10, <2>11, <2>12, <2>13 DEF AcceptBinds,
         TransferredMeansMoved
<1>24. ASSUME AcceptDecides PROVE WarmInv'
  <2>1. handlers["accept"] # Idle /\ Handled("accept")
      BY <1>24 DEF AcceptDecides
  <2>2. /\ create = "made" /\ host = "up" /\ waiter.pc # "idle"
        /\ handlers["accept"].report \in reports /\ handlers["accept"].report.kind = "accept"
      BY <2>1, HandledReports DEF Kinds
  <2>3. handlers["accept"].report.status = "one" => pressed = "one"
      BY <2>2 DEF ReportInv
  <2>4. \E accepted : Reply(accepted)
      BY <1>24 DEF AcceptDecides
  <2>5. /\ ReportInv' /\ reports \subseteq reports'
        /\ conference' \in Nat /\ conference <= conference'
        /\ human' = human \/ (human = "briefed" /\ human' \in {"over", "conference"})
      BY <1>24, <2>2, <2>4, ReplyMoves DEF AcceptDecides
  <2>6. \/ transfer' = transfer
        \/ Write({handlers["accept"].seen.state}, "conflict")
        \/ /\ handlers["accept"].report.status = "one"
           /\ Write({"dialing"}, "accepted")
        \/ Write({"dialing"}, "declined")
      BY <1>24 DEF AcceptDecides
  <2>7. /\ transfer' \in Rows(conference) /\ transfer'.human = transfer.human
        /\ \/ transfer' = transfer
           \/ transfer'.state = "conflict"
           \/ transfer.state = "dialing" /\ transfer'.state = "accepted" /\ pressed = "one"
           \/ transfer.state = "dialing" /\ transfer'.state = "declined"
      BY <2>3, <2>6, WriteMoves DEF States, WarmTypeOK, Rows
  <2>8. conference \in Nat
      BY DEF ReportInv
  <2>9. UNCHANGED <<waiter, reason, create, redirect, pressed, caller, host, crashes>>
      BY <1>24 DEF AcceptDecides
  <2>10. WarmTypeOK'
      BY <2>1, <2>2, <2>3, <2>4, <2>5, <2>6, <2>7, <2>8, <2>9 DEF WarmTypeOK, Rows, Waiters,
         WaiterStates
  <2>11. ReportInv'
      BY <2>5
  <2>12. HandlerInv'
      BY <1>24, <2>1, <2>5, HandlerDone DEF AcceptDecides, Kinds
  <2>13. WaiterInv'
      BY <2>1, <2>2, <2>3, <2>4, <2>5, <2>6, <2>7, <2>8, <2>9 DEF WaiterInv, Undecided,
         BeforeAcceptance
  <2>14. DialInv'
      BY <2>1, <2>2, <2>3, <2>4, <2>5, <2>6, <2>7, <2>8, <2>9 DEF DialInv
  <2>15. MoveInv'
      BY <2>1, <2>2, <2>3, <2>4, <2>5, <2>6, <2>7, <2>8, <2>9 DEF MoveInv, Redirected
  <2>16. RecoverInv'
      BY <2>1, <2>2, <2>3, <2>4, <2>5, <2>6, <2>7, <2>8, <2>9 DEF RecoverInv, Undecided
  <2> QED
      BY <1>24, <2>10, <2>11, <2>12, <2>13, <2>14, <2>15, <2>16 DEF AcceptDecides,
         TransferredMeansMoved
<1>25. ASSUME StatusDecides PROVE WarmInv'
  <2>1. create = "made" /\ host = "up"
      BY <1>25 DEF StatusDecides, HandlerInv, ReportInv, Kinds, WarmTypeOK
  <2>2. handlers["status"].report.status \in {"ringing", "completed", "failed"}
      BY <1>25 DEF StatusDecides, HandlerInv, ReportInv, Kinds
  <2>3. /\ transfer' \in Rows(conference)
        /\ \/ transfer' = transfer
           \/ /\ transfer.state = "prepared" /\ transfer'.human
              /\ transfer'.state \in {"dialing", "declined", "failed"}
           \/ /\ transfer.state \in {"dialing", "accepted"} /\ transfer'.human = transfer.human
              /\ transfer'.state \in {"declined", "failed"}
           \/ transfer'.human = transfer.human /\ transfer'.state = "conflict"
      BY <1>25, <2>2, WriteMoves, BindMoves DEF StatusDecides, Settled, States, WarmTypeOK,
         Rows
  <2>4. UNCHANGED <<waiter, reason, create, redirect, human, pressed, caller, conference, reports, host, crashes>>
      BY <1>25 DEF StatusDecides
  <2>5. WarmTypeOK'
      BY <2>1, <2>2, <2>3, <2>4 DEF WarmTypeOK, Rows, Waiters, WaiterStates
  <2>6. HandlerInv'
      BY <1>25, HandlerDone DEF StatusDecides, Kinds
  <2>7. WaiterInv'
      BY <2>1, <2>2, <2>3, <2>4 DEF WaiterInv, Undecided, BeforeAcceptance
  <2>8. DialInv'
      BY <2>1, <2>2, <2>3, <2>4 DEF DialInv
  <2>9. MoveInv'
      BY <2>1, <2>2, <2>3, <2>4 DEF MoveInv, Redirected
  <2>10. RecoverInv'
      BY <2>1, <2>2, <2>3, <2>4 DEF RecoverInv, Undecided
  <2> QED
      BY <1>25, <2>5, <2>6, <2>7, <2>8, <2>9, <2>10 DEF StatusDecides, ReportInv,
         TransferredMeansMoved
<1>26. ASSUME ConferenceTouches PROVE WarmInv'
  <2>1. /\ host = "up" /\ waiter.pc # "idle" /\ handlers["conference"] # Idle
        /\ handlers["conference"].report.id \in 0..conference
      BY <1>26, HandledReports DEF ConferenceTouches, ReportInv, Kinds
  <2>2. /\ transfer' \in Rows(conference) /\ transfer'.human = transfer.human
        /\ transfer'.state \in {transfer.state, "conflict"}
      BY <1>26, <2>1, WriteMoves DEF ConferenceTouches, States, WarmTypeOK, Rows
  <2>3. UNCHANGED <<waiter, reason, create, redirect, human, pressed, caller, conference, reports, host, crashes>>
      BY <1>26 DEF ConferenceTouches
  <2>4. WarmTypeOK'
      BY <2>1, <2>2, <2>3 DEF WarmTypeOK, Rows, Waiters, WaiterStates
  <2>5. HandlerInv'
    <3>1. CASE Handled("conference")
        BY <2>3, <3>1, HandlerDone DEF Kinds
    <3>2. CASE handlers' = [handlers EXCEPT !["conference"].seen = transfer',
                                            !["conference"].touched = TRUE]
      <4>1. transfer' \in [state : States, human : BOOLEAN, conference : Nat]
          BY <2>2 DEF Rows, ReportInv
      <4>2. /\ DOMAIN handlers' = Kinds
            /\ \A k \in Kinds \ {"conference"} : handlers'[k] = handlers[k]
          BY <3>2 DEF HandlerInv, Kinds
      <4>3. handlers'["conference"] = [handlers["conference"] EXCEPT !.seen = transfer',
                                                                    !.touched = TRUE]
          BY <3>2 DEF HandlerInv, Kinds
      <4>4. handlers["conference"] \in [kind : {"conference"},
                                       report : {m \in reports : m.kind = "conference"},
                                       seen : [state : States, human : BOOLEAN, conference : Nat],
                                       touched : BOOLEAN]
          BY <2>1 DEF HandlerInv, Kinds
      <4>5. handlers'["conference"] \in [kind : {"conference"},
                                        report : {m \in reports : m.kind = "conference"},
                                        seen : [state : States, human : BOOLEAN, conference : Nat],
                                        touched : BOOLEAN]
          BY <4>1, <4>3, <4>4
      <4> QED
          BY <4>2, <4>5, <2>1, <2>3 DEF HandlerInv
    <3> QED
        BY <3>1, <3>2, <1>26 DEF ConferenceTouches
  <2>6. WaiterInv'
      BY <2>1, <2>2, <2>3 DEF WaiterInv, Undecided, BeforeAcceptance
  <2>7. DialInv'
      BY <2>1, <2>2, <2>3 DEF DialInv
  <2>8. MoveInv'
      BY <2>1, <2>2, <2>3 DEF MoveInv, Redirected
  <2>9. RecoverInv'
      BY <2>1, <2>2, <2>3 DEF RecoverInv, Undecided
  <2> QED
      BY <1>26, <2>4, <2>5, <2>6, <2>7, <2>8, <2>9 DEF ConferenceTouches, ReportInv,
         TransferredMeansMoved
<1>27. ASSUME ConferenceEnds PROVE WarmInv'
  <2>1. host = "up"
      BY <1>27 DEF ConferenceEnds, HandlerInv, Kinds, WarmTypeOK
  <2>2. /\ transfer' \in Rows(conference) /\ transfer'.human = transfer.human
        /\ \/ transfer' = transfer
           \/ transfer.state = "bridged" /\ transfer'.state = "completed"
           \/ transfer.state \in {"accepted", "bridging"} /\ transfer'.state = "failed"
      BY <1>27, WriteMoves DEF ConferenceEnds, States, WarmTypeOK, Rows
  <2>3. UNCHANGED <<waiter, reason, create, redirect, human, pressed, caller, conference, reports, host, crashes>>
      BY <1>27 DEF ConferenceEnds
  <2>4. WarmTypeOK'
      BY <2>1, <2>2, <2>3 DEF WarmTypeOK, Rows, Waiters, WaiterStates
  <2>5. HandlerInv'
      BY <1>27, HandlerDone DEF ConferenceEnds, Kinds
  <2>6. WaiterInv'
      BY <2>1, <2>2, <2>3 DEF WaiterInv, Undecided, BeforeAcceptance
  <2>7. DialInv'
      BY <2>1, <2>2, <2>3 DEF DialInv
  <2>8. MoveInv'
      BY <2>1, <2>2, <2>3 DEF MoveInv, Redirected
  <2>9. RecoverInv'
      BY <2>1, <2>2, <2>3 DEF RecoverInv, Undecided
  <2> QED
      BY <1>27, <2>4, <2>5, <2>6, <2>7, <2>8, <2>9 DEF ConferenceEnds, ReportInv,
         TransferredMeansMoved
<1>28. ASSUME Crash PROVE WarmInv'
  <2>1. \/ waiter.pc \in {"idle", "done"} /\ waiter' = waiter
        \/ waiter.pc \notin {"idle", "done"} /\ waiter' = Over
      BY <1>28 DEF Crash
  <2>2. waiter' \in Waiters /\ waiter'.pc \in {"idle", "done", "over"}
      BY <2>1 DEF WarmTypeOK, Waiters, WaiterStates, Over
  <2>3. waiter'.pc = "over" \/ waiter' = waiter
      BY <2>1, WaiterMoves
  <2>4. /\ host' = "down" /\ reason' = "none" /\ crashes' \in 0..MaxCrashes
        /\ handlers' = [k \in DOMAIN handlers |-> Idle]
      BY <1>28, WarmAssumption DEF Crash, WarmTypeOK
  <2>5. UNCHANGED <<transfer, create, redirect, human, pressed, caller, conference, reports>>
      BY <1>28 DEF Crash
  <2>6. WarmTypeOK'
      BY <2>1, <2>2, <2>3, <2>4, <2>5 DEF WarmTypeOK, Rows, Waiters, WaiterStates
  <2>7. HandlerInv'
      BY <2>1, <2>2, <2>3, <2>4, <2>5 DEF HandlerInv, Kinds
  <2>8. WaiterInv'
      BY <2>1, <2>2, <2>3, <2>4, <2>5 DEF WaiterInv, Undecided, BeforeAcceptance
  <2>9. RecoverInv'
      BY <2>1, <2>2, <2>3, <2>4, <2>5 DEF RecoverInv, Undecided
  <2>10. TransferredMeansMoved'
      BY <2>1, <2>2, <2>3, <2>4, <2>5 DEF TransferredMeansMoved
  <2> QED
      BY <1>28, <2>6, <2>7, <2>8, <2>9, <2>10 DEF Crash, ReportInv, DialInv, MoveInv
<1>29. ASSUME RecoverHangsUp PROVE WarmInv'
  <2>1. \/ EndHuman("completed")
        \/ ~transfer.human /\ UNCHANGED <<human, reports>>
      BY <1>29 DEF RecoverHangsUp, WarmTypeOK
  <2>2. /\ ReportInv' /\ reports \subseteq reports'
        /\ human' = human \/ (human # "none" /\ human' = "over")
      BY <1>29, <2>1, HangUpOrNot DEF RecoverHangsUp
  <2>3. HandlerInv'
      BY <1>29, <2>2, HandlersKept DEF RecoverHangsUp
  <2>4. transfer.state \in Undecided
      BY <1>29 DEF RecoverHangsUp, Recoverable, Open, Undecided
  <2>5. transfer.human => human' = "over"
      BY <1>29, <2>1, HangUpEnds DEF RecoverHangsUp, DialInv
  <2>6. host = "down" /\ host' = "recovering"
      BY <1>29 DEF RecoverHangsUp
  <2>7. UNCHANGED <<transfer, waiter, reason, create, redirect, pressed, caller, conference, handlers, crashes>>
      BY <1>29 DEF RecoverHangsUp
  <2>8. WarmTypeOK'
      BY <2>1, <2>2, <2>3, <2>4, <2>5, <2>6, <2>7 DEF WarmTypeOK, Rows, Waiters, WaiterStates
  <2>9. ReportInv'
      BY <2>2
  <2>10. HandlerInv'
      BY <2>3
  <2>11. WaiterInv'
      BY <2>1, <2>2, <2>3, <2>4, <2>5, <2>6, <2>7 DEF WaiterInv, Undecided, BeforeAcceptance
  <2>12. DialInv'
      BY <2>1, <2>2, <2>3, <2>4, <2>5, <2>6, <2>7 DEF DialInv
  <2>13. RecoverInv'
      BY <2>1, <2>2, <2>3, <2>4, <2>5, <2>6, <2>7 DEF RecoverInv, Undecided
  <2> QED
      BY <1>29, <2>8, <2>9, <2>10, <2>11, <2>12, <2>13 DEF RecoverHangsUp, MoveInv,
         TransferredMeansMoved
<1>30. ASSUME RecoverUnknown PROVE WarmInv'
  <2>1. /\ ReportInv' /\ reports \subseteq reports'
        /\ human' = human \/ (human # "none" /\ human' = "over")
      BY <1>30, HangUpOrNot DEF RecoverUnknown
  <2>2. /\ HandlerInv' /\ host = "down" /\ host' = "up"
      BY <1>30, <2>1, HandlersKept DEF RecoverUnknown
  <2>3. /\ transfer' \in Rows(conference) /\ transfer'.human = transfer.human
        /\ \/ transfer.state \in Undecided /\ transfer'.state \in {"ambiguous"}
           \/ transfer' = transfer
      BY <1>30, WriteMoves DEF RecoverUnknown, Recoverable, Open, Undecided, States
  <2>4. UNCHANGED <<waiter, reason, create, redirect, pressed, caller, conference, handlers, crashes>>
      BY <1>30 DEF RecoverUnknown
  <2>5. WarmTypeOK'
      BY <2>1, <2>2, <2>3, <2>4 DEF WarmTypeOK, Rows, Waiters, WaiterStates
  <2>6. ReportInv'
      BY <2>1
  <2>7. HandlerInv'
      BY <2>2
  <2>8. WaiterInv'
      BY <2>1, <2>2, <2>3, <2>4 DEF WaiterInv, Undecided, BeforeAcceptance
  <2>9. DialInv'
      BY <2>1, <2>2, <2>3, <2>4 DEF DialInv
  <2>10. MoveInv'
      BY <2>1, <2>2, <2>3, <2>4 DEF MoveInv, Redirected
  <2>11. RecoverInv'
      BY <2>1, <2>2, <2>3, <2>4 DEF RecoverInv, Undecided
  <2> QED
      BY <1>30, <2>5, <2>6, <2>7, <2>8, <2>9, <2>10, <2>11 DEF RecoverUnknown,
         TransferredMeansMoved
<1>31. ASSUME RecoverWrites PROVE WarmInv'
  <2>1. host = "recovering" /\ transfer.state \in Undecided
      BY <1>31 DEF RecoverWrites, RecoverInv
  <2>2. /\ transfer' \in Rows(conference) /\ transfer'.human = transfer.human
        /\ transfer'.state = "recovered"
      BY <1>31, <2>1, WriteMoves DEF RecoverWrites, Open, Undecided, States
  <2>3. redirect = "none"
      BY <2>1 DEF MoveInv, Undecided, Redirected
  <2>4. WarmTypeOK'
      BY <1>31, <2>1, <2>2, <2>3 DEF RecoverWrites, WarmTypeOK, Rows, Waiters, WaiterStates
  <2>5. HandlerInv'
      BY <1>31, <2>1, <2>2, <2>3 DEF RecoverWrites, HandlerInv, Kinds
  <2>6. WaiterInv'
      BY <1>31, <2>1, <2>2, <2>3 DEF RecoverWrites, WaiterInv, Undecided, BeforeAcceptance
  <2>7. DialInv'
      BY <1>31, <2>1, <2>2, <2>3 DEF RecoverWrites, DialInv
  <2>8. MoveInv'
      BY <1>31, <2>1, <2>2, <2>3 DEF RecoverWrites, MoveInv, Redirected
  <2>9. RecoverInv'
      BY <1>31, <2>1, <2>2, <2>3 DEF RecoverWrites, RecoverInv, Undecided
  <2> QED
      BY <1>31, <2>4, <2>5, <2>6, <2>7, <2>8, <2>9 DEF RecoverWrites, ReportInv,
         TransferredMeansMoved
<1>32. ASSUME RecoverNothing PROVE WarmInv'
  <2>1. WarmTypeOK'
      BY <1>32 DEF RecoverNothing, WarmTypeOK, Rows, Waiters, WaiterStates
  <2>2. HandlerInv'
      BY <1>32 DEF RecoverNothing, HandlerInv, Kinds
  <2>3. WaiterInv'
      BY <1>32 DEF RecoverNothing, WaiterInv, Undecided, BeforeAcceptance
  <2>4. RecoverInv'
      BY <1>32 DEF RecoverNothing, RecoverInv, Undecided
  <2> QED
      BY <1>32, <2>1, <2>2, <2>3, <2>4 DEF RecoverNothing, ReportInv, DialInv, MoveInv,
         TransferredMeansMoved
<1>33. CASE UNCHANGED warmVars
    BY <1>33 DEF warmVars, WarmTypeOK, ReportInv, HandlerInv, WaiterInv, DialInv, MoveInv,
       RecoverInv, TransferredMeansMoved
<1> QED
    BY <1>1, <1>2, <1>3, <1>4, <1>5, <1>6, <1>7, <1>8, <1>9, <1>10, <1>11, <1>12, <1>13, <1>14,
       <1>15, <1>16, <1>17, <1>18, <1>19, <1>20, <1>21, <1>22, <1>23, <1>24, <1>25, <1>26,
       <1>27, <1>28, <1>29, <1>30, <1>31, <1>32, <1>33 DEF WarmNext

LEMMA WarmAlways == WarmSpec => []WarmInv
BY WarmInvInit, WarmInvNext, PTL DEF WarmSpec

-----------------------------------------------------------------------------
(* The theorems *)

\* The row, the parties and the carrier's requests keep their types.
THEOREM WarmTypeCorrect == WarmSpec => []WarmTypeOK
<1>1. WarmInv => WarmTypeOK
    BY DEF WarmInv
<1> QED
    BY <1>1, WarmAlways, PTL

\* The redirect is requested from an accepted row only, and a row is accepted only by the
\* digit 1, so whatever callbacks arrive late or twice the caller stays until then.
THEOREM CallerWaitsForAcceptance == WarmSpec => []CallerMovesOnlyAfterAcceptance
<1>1. WarmInv => CallerMovesOnlyAfterAcceptance
    BY DEF WarmInv, MoveInv, Redirected, CallerMovesOnlyAfterAcceptance
<1> QED
    BY <1>1, WarmAlways, PTL

\* Recovery hangs the known human up before it writes the row, and nobody can write in
\* between: the session is gone and the handlers start after recovery.
THEOREM RecoveryHangsUp == WarmSpec => []RecoveredLegsAreOver
<1>1. WarmInv => RecoveredLegsAreOver
    BY DEF WarmInv, RecoverInv, RecoveredLegsAreOver
<1> QED
    BY <1>1, WarmAlways, PTL

\* A waiter that nobody cancelled tells the session "transferred" only when the carrier
\* moved the caller.
THEOREM TransferredIsTrue == WarmSpec => []TransferredMeansMoved
<1>1. WarmInv => TransferredMeansMoved
    BY DEF WarmInv
<1> QED
    BY <1>1, WarmAlways, PTL

\* Every writer compares the state it read: a row that ended stays ended.
Decided == transfer.state \in Final => transfer'.state \in {transfer.state, "conflict"}

LEMMA StepsKeepDecisions == WarmInv /\ [WarmNext]_warmVars => Decided
<1> SUFFICES ASSUME WarmInv, [WarmNext]_warmVars, transfer.state \in Final
             PROVE  transfer'.state \in {transfer.state, "conflict"}
    BY DEF Decided
<1> USE DEF Final
<1>1. CASE StartWarmTransfer
    BY <1>1 DEF StartWarmTransfer, WarmInv, WaiterInv
<1>2. CASE HearCreate
  <2>1. \/ transfer' = transfer
        \/ Write({"prepared"}, "failed") \/ Write({"prepared"}, "ambiguous")
      BY <1>2 DEF HearCreate, ledger
  <2> QED
      BY <2>1, WriteMoves DEF States
<1>3. CASE BindCreate
  <2>1. transfer' = transfer \/ BindHuman("dialing")
      BY <1>3 DEF BindCreate, ledger
  <2> QED
      BY <2>1, BindMoves DEF States
<1>4. CASE AbortWrite
    BY <1>4, WriteMoves DEF AbortWrite, States, WarmInv, WaiterInv, Undecided
<1>5. CASE Bridge
    BY <1>5, WriteMoves DEF Bridge, States
<1>6. CASE HearRedirect
    BY <1>6, WriteMoves DEF HearRedirect, States
<1>7. CASE AcceptBinds
    BY <1>7, BindMoves DEF AcceptBinds, States
<1>8. CASE AcceptDecides
  <2>1. \/ transfer' = transfer
        \/ Write({handlers["accept"].seen.state}, "conflict")
        \/ Write({"dialing"}, "accepted") \/ Write({"dialing"}, "declined")
      BY <1>8 DEF AcceptDecides, ledger
  <2> QED
      BY <2>1, WriteMoves DEF States
<1>9. CASE StatusDecides
  <2>1. handlers["status"].report.status \in {"ringing", "completed", "failed"}
      BY <1>9, HandledReports DEF StatusDecides, WarmInv, ReportInv, Kinds
  <2>2. Settled(handlers["status"].report.status) \in {"declined", "failed", "dialing"}
      BY <2>1 DEF Settled
  <2>3. \/ transfer' = transfer
        \/ BindHuman(Settled(handlers["status"].report.status))
        \/ Write({handlers["status"].seen.state}, "conflict")
        \/ /\ handlers["status"].seen.state \in {"dialing", "accepted"}
           /\ Write({handlers["status"].seen.state}, Settled(handlers["status"].report.status))
      BY <1>9 DEF StatusDecides, ledger
  <2> QED
      BY <2>2, <2>3, WriteMoves, BindMoves DEF States
<1>10. CASE ConferenceTouches
    BY <1>10, WriteMoves DEF ConferenceTouches, States, WarmInv, WarmTypeOK
<1>11. CASE ConferenceEnds
  <2>1. \/ transfer' = transfer \/ Write({"bridged"}, "completed")
        \/ /\ handlers["conference"].seen.state \in {"accepted", "bridging"}
           /\ Write({handlers["conference"].seen.state}, "failed")
      BY <1>11 DEF ConferenceEnds, ledger
  <2> QED
      BY <2>1, WriteMoves DEF States
<1>12. CASE RecoverUnknown
  <2>1. Write(Open, "ambiguous")
      BY <1>12 DEF RecoverUnknown
  <2> QED
      BY <2>1, WriteMoves DEF States, Open
<1>13. CASE RecoverWrites
    BY <1>13, WriteMoves DEF RecoverWrites, States, Open
<1>14. CASE UNCHANGED warmVars
    BY <1>14 DEF warmVars
<1>15. CASE UNCHANGED transfer
    BY <1>15
<1>16. ASSUME WarmNext, transfer' # transfer
       PROVE  \/ StartWarmTransfer \/ HearCreate \/ BindCreate \/ AbortWrite \/ Bridge
              \/ HearRedirect \/ AcceptBinds \/ AcceptDecides \/ StatusDecides
              \/ ConferenceTouches \/ ConferenceEnds \/ RecoverUnknown \/ RecoverWrites
    BY <1>16 DEF WarmNext, ledger, CarrierDials, CarrierRefusesToDial, PollAccepted, PollEnded,
       TimeOut, AbortRead, AbortHangUp, Cancel, CarrierMovesCaller, CarrierRefusesToMove, Explain,
       HumanAnswers, CallerLeaves, HumanPresses, HumanEnds, HandlerRead, Crash, RecoverHangsUp,
       RecoverNothing
<1> QED
    BY <1>1, <1>2, <1>3, <1>4, <1>5, <1>6, <1>7, <1>8, <1>9, <1>10, <1>11, <1>12, <1>13, <1>14,
       <1>15, <1>16

\* A late callback, a timeout or recovery never reopens a transfer that ended.
THEOREM DecisionsStayFinal == WarmSpec => DecisionsAreFinal
<1>1. WarmInv /\ [WarmNext]_warmVars => [Decided]_warmVars
    BY StepsKeepDecisions
<1>2. WarmSpec => [][Decided]_warmVars
    BY <1>1, WarmAlways, PTL DEF WarmSpec
<1> QED
    BY <1>2 DEF DecisionsAreFinal, Decided, Final

\* Of the steps that can end the human's call, the program's own find the caller elsewhere.
OwnEnd ==
    caller = "conference" /\ human = "conference" /\ human' # "conference" =>
        CallerLeaves \/ \E status \in {"completed", "failed"} : HumanEnds(status)

LEMMA StepsKeepParties == WarmInv /\ [WarmNext]_warmVars => OwnEnd
<1> SUFFICES ASSUME WarmInv, [WarmNext]_warmVars, caller = "conference", human = "conference",
                    human' # "conference"
             PROVE  CallerLeaves \/ \E status \in {"completed", "failed"} : HumanEnds(status)
    BY DEF OwnEnd
<1>1. /\ redirect = "made" /\ create = "made" /\ transfer.state \in Redirected
      /\ transfer.state \notin Undecided
    BY DEF WarmInv, MoveInv, DialInv, Redirected, Undecided
<1>2. CASE CarrierDials
    BY <1>1, <1>2 DEF CarrierDials
<1>3. CASE AbortHangUp
    BY <1>1, <1>3 DEF AbortHangUp, WarmInv, WaiterInv, BeforeAcceptance
<1>4. CASE HumanAnswers
    BY <1>4 DEF HumanAnswers
<1>5. CASE AcceptBinds
    BY <1>5 DEF AcceptBinds, Reply
<1>6. CASE AcceptDecides
    BY <1>6 DEF AcceptDecides, Reply
<1>7. CASE RecoverHangsUp
    BY <1>1, <1>7 DEF RecoverHangsUp, Recoverable, Open, Undecided
<1>8. CASE RecoverUnknown
    BY <1>1, <1>8 DEF RecoverUnknown, Recoverable, Open, Undecided
<1>9. ASSUME ~CarrierDials, ~AbortHangUp, ~HumanAnswers, ~AcceptBinds, ~AcceptDecides,
             ~RecoverHangsUp, ~RecoverUnknown
      PROVE  CallerLeaves \/ \E status \in {"completed", "failed"} : HumanEnds(status)
    BY <1>9 DEF warmVars, WarmNext, carrier, CarrierRefusesToDial, HearCreate, BindCreate,
       PollAccepted, PollEnded, TimeOut, AbortRead, AbortWrite, StartWarmTransfer, Cancel,
       Bridge, CarrierMovesCaller, CarrierRefusesToMove, HearRedirect, Explain, HumanPresses,
       HandlerRead, StatusDecides, ConferenceTouches, ConferenceEnds, Crash, RecoverWrites,
       RecoverNothing
<1> QED
    BY <1>2, <1>3, <1>4, <1>5, <1>6, <1>7, <1>8, <1>9

\* Once the caller and the human talk, only they themselves end the human's call.
THEOREM PartiesStayConnected == WarmSpec => ConnectedPartiesAreNeverCut
<1>1. WarmInv /\ [WarmNext]_warmVars => [OwnEnd]_warmVars
    BY StepsKeepParties
<1>2. WarmSpec => [][OwnEnd]_warmVars
    BY <1>1, WarmAlways, PTL DEF WarmSpec
<1> QED
    BY <1>2 DEF ConnectedPartiesAreNeverCut, OwnEnd

=================================================================================
