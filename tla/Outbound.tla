-------------------------------- MODULE Outbound --------------------------------
(***************************************************************************)
(* Outbound calls over a carrier whose create request is not idempotent:   *)
(* start_call, the callbacks of the calls and reconcile_outbound, around   *)
(* the intents of the telephony ledger.                                    *)
(*                                                                         *)
(* Every ledger method is one transaction.  The processes that share the   *)
(* ledger (commands that dial, the host that receives callbacks, an        *)
(* operator who reconciles) read it, talk to the carrier and write it.     *)
(* All intents dial the same pair of numbers within minutes.               *)
(***************************************************************************)
EXTENDS Integers, FiniteSets

CONSTANTS
    Intents,    \* intent ids; a client may reuse its own
    Dialers,    \* executions of start_call
    Sids,       \* provider call ids
    NoSid

ASSUME OutboundAssumption == NoSid \notin Sids

VARIABLES
    intents,    \* table telephony_intents
    dialers,    \* per execution of start_call: where it is and its intent
    placed,     \* calls at the carrier
    callbacks,  \* status callbacks the carrier has sent; it may send them again
    binding,    \* the callback the host is in the middle of
    matching    \* the reconciliation an operator is in the middle of

outboundVars == <<intents, dialers, placed, callbacks, binding, matching>>

-----------------------------------------------------------------------------
(* Ledger *)

IntentStates ==
    {"absent", "prepared", "submitted", "ambiguous", "reconciled", "rejected", "terminal",
     "conflict"}

NoIntent == [state |-> "absent", sid |-> NoSid]

\* An insert that replaces the row of a repeated intent id.
PreparableAgain(i) == TRUE
Preparable(i) == intents[i].state = "absent"

\* The unique index on provider_call_id.
SidIsFree(i, s) == \A j \in Intents \ {i} : intents[j].sid # s

\* transition_intent: WHERE intent_id = ? AND state IN (expected)
Movable(i, expected, s) ==
    intents[i].state \in expected /\ (s # NoSid => SidIsFree(i, s))

Moved(i, state, s) ==
    [intents EXCEPT ![i] = [state |-> state, sid |-> IF s = NoSid THEN @.sid ELSE s]]

-----------------------------------------------------------------------------
(* start_call *)

\* pc: idle, creating, or how the command ended: started, rejected, unclear (the
\* error that asks for reconciliation), refused (the id is taken) or dead.
\* asked: what the carrier did with the create request.
IdleDialer == [pc |-> "idle", intent |-> "none", asked |-> "none", sid |-> NoSid]

\* The intent is written before the create request leaves.
StartCall(p, i) ==
    /\ dialers[p].pc = "idle"
    /\ IF Preparable(i)
       THEN /\ intents' = [intents EXCEPT ![i] = [state |-> "prepared", sid |-> NoSid]]
            /\ dialers' = [dialers EXCEPT ![p] =
                 [IdleDialer EXCEPT !.pc = "creating", !.intent = i, !.asked = "sent"]]
       ELSE /\ dialers' = [dialers EXCEPT ![p].pc = "refused", ![p].intent = i]
            /\ UNCHANGED intents
    /\ UNCHANGED <<placed, callbacks, binding, matching>>

\* The carrier may act on a request long after its sender gave up.
CarrierCreates(p, s) ==
    /\ dialers[p].asked = "sent"
    /\ s \notin DOMAIN placed
    /\ dialers' = [dialers EXCEPT ![p].asked = "made", ![p].sid = s]
    /\ placed' = [x \in DOMAIN placed \cup {s} |->
         IF x = s THEN [intent |-> dialers[p].intent, over |-> FALSE] ELSE placed[x]]
    /\ callbacks' = callbacks \cup {[sid |-> s, final |-> FALSE]}
    /\ UNCHANGED <<intents, binding, matching>>

CarrierRejects(p) ==
    /\ dialers[p].asked = "sent"
    /\ dialers' = [dialers EXCEPT ![p].asked = "rejected"]
    /\ UNCHANGED <<intents, placed, callbacks, binding, matching>>

\* The command ends: its transition from "prepared" succeeds and it ends as `pc`,
\* or another writer came first and it asks for reconciliation.
Conclude(p, state, s, pc) ==
    LET i == dialers[p].intent
        first == Movable(i, {"prepared"}, s)
    IN  /\ intents' = IF first THEN Moved(i, state, s) ELSE intents
        /\ dialers' = [dialers EXCEPT ![p].pc = IF first THEN pc ELSE "unclear"]
        /\ UNCHANGED <<placed, callbacks, binding, matching>>

HearCreated(p) ==
    /\ dialers[p].pc = "creating" /\ dialers[p].asked = "made"
    /\ Conclude(p, "submitted", dialers[p].sid, "started")

HearRejected(p) ==
    /\ dialers[p].pc = "creating" /\ dialers[p].asked = "rejected"
    /\ Conclude(p, "rejected", NoSid, "rejected")

\* A network failure, a 5xx or an answer without a usable call id.
HearNothing(p) ==
    /\ dialers[p].pc = "creating"
    /\ Conclude(p, "ambiguous", NoSid, "unclear")

DialerDies(p) ==
    /\ dialers[p].pc = "creating"
    /\ dialers' = [dialers EXCEPT ![p].pc = "dead"]
    /\ UNCHANGED <<intents, placed, callbacks, binding, matching>>

-----------------------------------------------------------------------------
(* Callbacks: the host handles one at a time *)

NoBinding == [sid |-> NoSid]

CallEnds(s) ==
    /\ s \in DOMAIN placed /\ ~placed[s].over
    /\ placed' = [placed EXCEPT ![s].over = TRUE]
    /\ callbacks' = callbacks \cup {[sid |-> s, final |-> TRUE]}
    /\ UNCHANGED <<intents, dialers, binding, matching>>

\* bind_callback reads the intent that the callback's path names ...
BindRead(m) ==
    /\ binding = NoBinding /\ m \in callbacks
    /\ binding' = [sid |-> m.sid, final |-> m.final, seen |-> intents[placed[m.sid].intent]]
    /\ UNCHANGED <<intents, dialers, placed, callbacks, matching>>

Bindable == {"prepared", "submitted", "ambiguous", "reconciled", "terminal"}

\* ... and writes by what it read: a conflict when another call id was bound, or
\* the state the call's status stands for.
BindWrite ==
    LET i == placed[binding.sid].intent
        other == binding.seen.sid \notin {NoSid, binding.sid}
        state == IF other THEN "conflict" ELSE IF binding.final THEN "terminal" ELSE "submitted"
        expected == IF other THEN {binding.seen.state} ELSE Bindable
        s == IF other THEN NoSid ELSE binding.sid
    IN  /\ binding # NoBinding
        /\ intents' = IF Movable(i, expected, s) THEN Moved(i, state, s) ELSE intents
        /\ binding' = NoBinding
        /\ UNCHANGED <<dialers, placed, callbacks, matching>>

-----------------------------------------------------------------------------
(* reconcile_outbound *)

NoMatching == [intent |-> "none"]

\* The only call between the two numbers in the window is taken for the intent's.
MatchOnlyCandidate(i) ==
    /\ matching = NoMatching
    /\ intents[i].state # "absent" /\ intents[i].sid = NoSid
    /\ \E s \in Sids : DOMAIN placed = {s} /\ matching' = [intent |-> i, sid |-> s]
    /\ UNCHANGED <<intents, dialers, placed, callbacks, binding>>

\* A reconciliation that writes whatever happened since it read.
ReconcileUnfenced ==
    /\ matching # NoMatching
    /\ intents' = Moved(matching.intent, "reconciled", matching.sid)
    /\ matching' = NoMatching
    /\ UNCHANGED <<dialers, placed, callbacks, binding>>

Reconcile ==
    /\ matching # NoMatching
    /\ LET i == matching.intent
           s == matching.sid
       IN  intents' = IF Movable(i, {"prepared", "ambiguous"}, s)
                      THEN Moved(i, "reconciled", s) ELSE intents
    /\ matching' = NoMatching
    /\ UNCHANGED <<dialers, placed, callbacks, binding>>

-----------------------------------------------------------------------------
OutboundInit ==
    /\ intents = [i \in Intents |-> NoIntent]
    /\ dialers = [p \in Dialers |-> IdleDialer]
    /\ placed = << >>
    /\ callbacks = {}
    /\ binding = NoBinding
    /\ matching = NoMatching

OutboundNext ==
    \/ \E p \in Dialers, i \in Intents : StartCall(p, i)
    \/ \E p \in Dialers, s \in Sids : CarrierCreates(p, s)
    \/ \E p \in Dialers :
         \/ CarrierRejects(p)
         \/ HearCreated(p) \/ HearRejected(p) \/ HearNothing(p) \/ DialerDies(p)
    \/ \E s \in Sids : CallEnds(s)
    \/ \E m \in callbacks : BindRead(m)
    \/ BindWrite
    \/ \E i \in Intents : MatchOnlyCandidate(i)
    \/ Reconcile

OutboundSpec == OutboundInit /\ [][OutboundNext]_outboundVars

-----------------------------------------------------------------------------
(* Properties *)

OutboundTypeOK ==
    /\ intents \in [Intents -> [state : IntentStates, sid : Sids \cup {NoSid}]]
    /\ \A p \in Dialers :
         /\ dialers[p].pc \in {"idle", "creating", "started", "rejected", "unclear", "refused", "dead"}
         /\ dialers[p].asked \in {"none", "sent", "made", "rejected"}
    /\ \A s \in DOMAIN placed : s \in Sids /\ placed[s].intent \in Intents
    /\ callbacks \subseteq [sid : DOMAIN placed, final : BOOLEAN]

\* An intent is dialled at most once, whoever repeats its id and whatever was lost.
OneCallPerIntent ==
    \A s, z \in DOMAIN placed : placed[s].intent = placed[z].intent => s = z

\* "an outbound carrier operation has an ambiguous outcome": start_call asks for
\* reconciliation only when nobody knows the intent's call.
UnclearMeansUnresolved ==
    [][\A p \in Dialers :
         dialers[p].pc = "creating" /\ dialers'[p].pc = "unclear" =>
           intents'[dialers[p].intent].sid = NoSid]_outboundVars

===============================================================================
