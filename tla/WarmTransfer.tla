------------------------------ MODULE WarmTransfer ------------------------------
(***************************************************************************)
(* A warm transfer: while the caller talks to the agent, a human is dialled *)
(* and privately briefed; once the human presses 1 the caller is redirected *)
(* into the human's conference.                                            *)
(*                                                                         *)
(* The waiter of the session, the handlers of the carrier's callbacks and  *)
(* recovery at startup work on one row of the telephony ledger.  Each runs *)
(* in a thread of its own and reads the row before the compare-and-set     *)
(* that writes it.  The carrier, the caller and the human act at any time. *)
(***************************************************************************)
EXTENDS Integers

CONSTANT MaxCrashes     \* bound: crashes of the host

ASSUME WarmAssumption == MaxCrashes \in Nat

VARIABLES
    transfer,   \* the row: state, whether the human's call id and which conference are bound
    waiter,     \* where the session's waiter is, what it read, whether it was cancelled
    reason,     \* the ended_reason of the caller's session
    create,     \* the request that dials the human, at the carrier
    redirect,   \* the request that moves the caller, at the carrier
    human,      \* the human's call
    pressed,    \* the digit the human pressed
    caller,     \* the caller's call
    conference, \* incarnation of the named conference; it is open while anyone is in it
    reports,    \* callbacks the carrier has sent; it may send them again, in any order
    handlers,   \* per callback route: the callback being handled and what was read for it
    host,       \* up, down or recovering
    crashes     \* crashes so far

warmVars == <<transfer, waiter, reason, create, redirect, human, pressed, caller,
              conference, reports, handlers, host, crashes>>
ledger == <<transfer>>
session == <<waiter, reason>>
carrier == <<create, redirect, human, pressed, caller, conference, reports>>
process == <<handlers, host, crashes>>

-----------------------------------------------------------------------------
(* Ledger and carrier *)

States ==
    {"absent", "prepared", "dialing", "accepted", "declined", "bridging", "bridged",
     "completed", "failed", "ambiguous", "conflict", "recovered"}

\* transition_warm_transfer succeeds: the row is still in the state that was read.
Fenced(expected) == transfer.state \in expected

Write(expected, state) ==
    transfer' = IF Fenced(expected) THEN [transfer EXCEPT !.state = state] ELSE transfer

\* The first callback or the create response binds the human's call id.
BindHuman(state) ==
    transfer' = IF Fenced({"prepared"})
                THEN [transfer EXCEPT !.state = state, !.human = TRUE] ELSE transfer

InConference == {p \in {"human", "caller"} :
    IF p = "human" THEN human = "conference" ELSE caller = "conference"}

\* The human's call ends; a conference that nobody is left in ends with it.
EndHuman(status) ==
    /\ human' = IF human \in {"none", "over"} THEN human ELSE "over"
    /\ reports' = IF human \in {"none", "over"} THEN reports
                  ELSE reports \cup {[kind |-> "status", status |-> status]}
                    \cup (IF InConference = {"human"}
                          THEN {[kind |-> "conference", status |-> "end", id |-> conference]}
                          ELSE {})

\* One party enters; an empty conference is a new one under the same name.
Enter ==
    LET id == IF InConference = {} THEN conference + 1 ELSE conference
    IN  /\ conference' = id
        /\ reports' = reports \cup {[kind |-> "conference", status |-> "join", id |-> id]}

Idle == [kind |-> "none"]

-----------------------------------------------------------------------------
(* start_warm_transfer, called by the waiter *)

StartWarmTransfer ==
    /\ host = "up" /\ waiter.pc = "idle" /\ caller = "agent"
    /\ transfer' = [transfer EXCEPT !.state = "prepared"]
    /\ waiter' = [waiter EXCEPT !.pc = "creating"]
    /\ create' = "sent"
    /\ UNCHANGED <<reason, redirect, human, pressed, caller, conference, reports, process>>

CarrierDials ==
    /\ create = "sent"
    /\ create' = "made" /\ human' = "ringing"
    /\ reports' = reports \cup {[kind |-> "status", status |-> "ringing"]}
    /\ UNCHANGED <<ledger, session, redirect, pressed, caller, conference, process>>

CarrierRefusesToDial ==
    /\ create = "sent" /\ create' = "refused"
    /\ UNCHANGED <<ledger, session, redirect, human, pressed, caller, conference, reports,
                   process>>

\* The waiter is over: the tool call fails, or nobody waits any more.
Over == [waiter EXCEPT !.pc = "over"]

\* A thread that a cancelled waiter left behind ends with nobody to return to.
Continue(pc, seen) ==
    IF waiter.cancelled THEN Over ELSE [waiter EXCEPT !.pc = pc, !.seen = seen]

HearCreate ==
    /\ waiter.pc = "creating"
    /\ \/ /\ create = "refused"
          /\ Write({"prepared"}, "failed") /\ waiter' = Over
       \/ \* no usable answer
          /\ Write({"prepared"}, "ambiguous") /\ waiter' = Over
       \/ /\ create = "made"
          /\ waiter' = [waiter EXCEPT !.pc = "binding", !.seen = transfer.state]
          /\ UNCHANGED ledger
    /\ UNCHANGED <<reason, carrier, process>>

\* A callback may have bound the human's call, or even decided, before the response.
BindCreate ==
    /\ waiter.pc = "binding"
    /\ IF waiter.seen = "prepared" THEN BindHuman("dialing") ELSE UNCHANGED ledger
    /\ waiter' = IF \/ waiter.seen = "prepared" /\ Fenced({"prepared"})
                    \/ waiter.seen \in {"dialing", "accepted", "declined", "failed"}
                 THEN Continue("polling", "none") ELSE Over
    /\ UNCHANGED <<reason, carrier, process>>

-----------------------------------------------------------------------------
(* The waiter *)

\* Poll sees the acceptance: the reason is set before the caller is moved.
PollAccepted ==
    /\ waiter.pc = "polling" /\ transfer.state = "accepted"
    /\ reason' = IF reason = "none" THEN "transferred" ELSE reason
    /\ waiter' = [waiter EXCEPT !.pc = "bridge"]
    /\ UNCHANGED <<ledger, carrier, process>>

PollEnded ==
    /\ waiter.pc = "polling"
    /\ transfer.state \in {"declined", "failed", "ambiguous", "recovered", "completed", "conflict"}
    /\ waiter' = Over
    /\ UNCHANGED <<ledger, reason, carrier, process>>

\* The deadline: abort_warm_transfer reads the row again.
TimeOut ==
    /\ waiter.pc = "polling" /\ transfer.state # "accepted"
    /\ waiter' = [waiter EXCEPT !.pc = "timeout"]
    /\ UNCHANGED <<ledger, reason, carrier, process>>

AbortRead ==
    /\ waiter.pc = "timeout"
    /\ waiter' = IF transfer.state \in {"prepared", "dialing", "accepted"}
                 THEN [waiter EXCEPT !.pc = "hangup", !.seen = transfer.state] ELSE Over
    /\ UNCHANGED <<ledger, reason, carrier, process>>

\* The human is hung up, or the outcome stays unknown.
AbortHangUp ==
    /\ waiter.pc = "hangup"
    /\ \/ /\ transfer.human => EndHuman("completed")
          /\ ~transfer.human => UNCHANGED <<human, reports>>
          /\ waiter' = [waiter EXCEPT !.pc = "hungup"]
       \/ /\ transfer.human
          /\ EndHuman("completed") \/ UNCHANGED <<human, reports>>
          /\ waiter' = [waiter EXCEPT !.pc = "hangupunknown"]
    /\ UNCHANGED <<ledger, reason, create, redirect, pressed, caller, conference, process>>

AbortWrite ==
    /\ waiter.pc \in {"hungup", "hangupunknown"}
    /\ Write({waiter.seen}, IF waiter.pc = "hungup" THEN "failed" ELSE "ambiguous")
    /\ waiter' = Over
    /\ UNCHANGED <<reason, carrier, process>>

\* The caller leaves, or the tool's own time limit ends before the waiter's deadline:
\* the waiter is cancelled, but a thread that runs a ledger or carrier call goes on.
Cancel ==
    /\ waiter.pc \notin {"idle", "over", "done"} /\ ~waiter.cancelled
    /\ waiter' = [IF waiter.pc \in {"polling", "explain"} THEN Over ELSE waiter
                  EXCEPT !.cancelled = TRUE]
    /\ UNCHANGED <<ledger, reason, carrier, process>>

-----------------------------------------------------------------------------
(* bridge_warm_transfer, called by the waiter *)

\* A bridge that does not compare the state it read with the row.
BridgeUnfenced ==
    /\ waiter.pc = "bridge"
    /\ Write(States, "bridging") /\ redirect' = "sent" /\ waiter' = [waiter EXCEPT !.pc = "redirecting"]
    /\ UNCHANGED <<reason, create, human, pressed, caller, conference, reports, process>>

Bridge ==
    /\ waiter.pc = "bridge"
    /\ Write({"accepted"}, "bridging")
    /\ IF Fenced({"accepted"})
       THEN redirect' = "sent" /\ waiter' = [waiter EXCEPT !.pc = "redirecting"]
       ELSE UNCHANGED redirect /\ waiter' = Continue("explain", "none")
    /\ UNCHANGED <<reason, create, human, pressed, caller, conference, reports, process>>

CarrierMovesCaller ==
    /\ redirect = "sent" /\ caller = "agent"
    /\ redirect' = "made" /\ caller' = "conference"
    /\ Enter
    /\ UNCHANGED <<ledger, session, create, human, pressed, process>>

CarrierRefusesToMove ==
    /\ redirect = "sent" /\ redirect' = "refused"
    /\ UNCHANGED <<ledger, session, create, human, pressed, caller, conference, reports, process>>

HearRedirect ==
    /\ waiter.pc = "redirecting"
    /\ \/ /\ redirect = "made" /\ Write({"bridging"}, "bridged")
          /\ waiter' = IF Fenced({"bridging"}) THEN Continue("done", "none")
                       ELSE Continue("explain", "none")
       \/ /\ redirect = "refused" /\ Write({"bridging"}, "failed")
          /\ waiter' = Continue("explain", "none")
       \/ \* no usable answer
          /\ Write({"bridging"}, "ambiguous")
          /\ waiter' = Continue("explain", "none")
    /\ UNCHANGED <<reason, carrier, process>>

\* An error that leaves the reason as it was set before the bridge.
ExplainNothing ==
    /\ waiter.pc = "explain" /\ waiter' = Over
    /\ UNCHANGED <<reason, ledger, carrier, process>>

\* The waiter reads the row to learn what its error means for the session.
Explain ==
    /\ waiter.pc = "explain"
    /\ reason' = IF transfer.state # "failed" THEN "carrier_error"
                 ELSE IF reason = "transferred" THEN "none" ELSE reason
    /\ waiter' = Over
    /\ UNCHANGED <<ledger, carrier, process>>

-----------------------------------------------------------------------------
(* The human and the caller *)

HumanAnswers ==
    /\ human = "ringing" /\ human' = "briefed"
    /\ UNCHANGED <<ledger, session, create, redirect, pressed, caller, conference, reports,
                   process>>

HumanPresses(digit) ==
    /\ human = "briefed" /\ pressed = "none" /\ pressed' = digit
    /\ reports' = reports \cup {[kind |-> "accept", status |-> digit]}
    /\ UNCHANGED <<ledger, session, create, redirect, human, caller, conference, process>>

HumanEnds(status) ==
    /\ human \in {"ringing", "briefed", "conference"}
    /\ EndHuman(status)
    /\ UNCHANGED <<ledger, session, create, redirect, pressed, caller, conference, process>>

\* A caller who leaves the conference ends it for the human as well.
CallerLeaves ==
    /\ caller # "gone" /\ caller' = "gone"
    /\ IF caller = "conference"
       THEN /\ human' = IF human = "conference" THEN "over" ELSE human
            /\ reports' = reports
                 \cup {[kind |-> "conference", status |-> "end", id |-> conference]}
                 \cup (IF human = "conference"
                       THEN {[kind |-> "status", status |-> "completed"]} ELSE {})
       ELSE UNCHANGED <<human, reports>>
    /\ UNCHANGED <<ledger, session, create, redirect, pressed, conference, process>>

-----------------------------------------------------------------------------
(* Callbacks *)

\* A route reads the row for a callback; the carrier may send any callback again.
HandlerRead(m) ==
    /\ host = "up" /\ m \in reports /\ handlers[m.kind] = Idle
    /\ handlers' = [handlers EXCEPT ![m.kind] =
         [kind |-> m.kind, report |-> m, seen |-> transfer, touched |-> FALSE]]
    /\ UNCHANGED <<ledger, session, carrier, host, crashes>>

Handled(kind) == handlers' = [handlers EXCEPT ![kind] = Idle]

\* The reply to the human's digit; an error page, like a decline, ends the human's call.
Reply(accepted) ==
    IF ~accepted /\ human = "briefed" THEN EndHuman("completed") /\ UNCHANGED conference
    ELSE IF accepted /\ human = "briefed" THEN Enter /\ human' = "conference"
    ELSE UNCHANGED <<human, conference, reports>>

\* warm_transfer_accept_response: the first callback of a prepared transfer binds it ...
AcceptBinds ==
    LET h == handlers["accept"]
    IN  /\ h # Idle /\ h.seen.state = "prepared" /\ ~h.seen.human
        /\ BindHuman("dialing")
        /\ IF Fenced({"prepared"})
           THEN /\ handlers' = [handlers EXCEPT !["accept"].seen = transfer']
                /\ UNCHANGED <<human, conference, reports>>
           ELSE Handled("accept") /\ Reply(FALSE)
        /\ UNCHANGED <<session, create, redirect, pressed, caller, host, crashes>>

\* A handler that takes any digit for an acceptance.
AcceptAnyDigit ==
    LET h == handlers["accept"]
    IN  /\ h # Idle /\ h.seen.human
        /\ IF h.seen.state = "dialing"
           THEN Write({"dialing"}, "accepted") /\ Reply(Fenced({"dialing"}))
           ELSE UNCHANGED ledger /\ Reply(h.seen.state \in {"accepted", "bridging", "bridged"})
        /\ Handled("accept")
        /\ UNCHANGED <<session, create, redirect, pressed, caller, host, crashes>>

\* ... then the digit decides; a call id that is not the bound one is a conflict.
AcceptDecides ==
    LET h == handlers["accept"]
        yes == h # Idle /\ h.report.status = "one"
    IN  /\ h # Idle /\ ~(h.seen.state = "prepared" /\ ~h.seen.human)
        /\ \/ /\ ~h.seen.human
              /\ Write({h.seen.state}, "conflict") /\ Reply(FALSE)
           \/ /\ h.seen.human /\ h.seen.state = "dialing"
              /\ Write({"dialing"}, IF yes THEN "accepted" ELSE "declined")
              /\ Reply(yes /\ Fenced({"dialing"}))
           \/ /\ h.seen.human /\ h.seen.state # "dialing"
              /\ UNCHANGED ledger
              /\ Reply(yes /\ h.seen.state \in {"accepted", "bridging", "bridged"})
        /\ Handled("accept")
        /\ UNCHANGED <<session, create, redirect, pressed, caller, host, crashes>>

\* A status of the carrier kept as a state of the row.
SettledVerbatim(status) == status

\* parse_warm_transfer_event: what a status of the human's call makes of the row.
Settled(status) == CASE status = "completed" -> "declined"
                     [] status = "failed" -> "failed"
                     [] OTHER -> "dialing"

\* A status written whatever happened since the row was read.
StatusDecidesUnfenced ==
    LET h == handlers["status"]
    IN  /\ h # Idle
        /\ IF h.seen.state \in {"prepared", "dialing", "accepted"}
           THEN transfer' = [transfer EXCEPT !.state = Settled(h.report.status), !.human = TRUE]
           ELSE UNCHANGED ledger
        /\ Handled("status")
        /\ UNCHANGED <<session, carrier, host, crashes>>

StatusDecides ==
    LET h == handlers["status"]
    IN  /\ h # Idle
        /\ \/ /\ h.seen.state = "prepared" /\ ~h.seen.human
              /\ BindHuman(Settled(h.report.status))
           \/ /\ h.seen.state # "prepared" /\ ~h.seen.human
              /\ Write({h.seen.state}, "conflict")
           \/ /\ h.seen.human /\ h.report.status # "ringing"
              /\ h.seen.state \in {"dialing", "accepted"}
              /\ Write({h.seen.state}, Settled(h.report.status))
           \/ /\ h.seen.human
              /\ h.report.status = "ringing" \/ h.seen.state \notin {"dialing", "accepted"}
              /\ UNCHANGED ledger
        /\ Handled("status")
        /\ UNCHANGED <<session, carrier, host, crashes>>

\* parse_warm_conference_event: the conference id is attached, or is another one ...
ConferenceTouches ==
    LET h == handlers["conference"]
    IN  /\ h # Idle /\ ~h.touched
        /\ IF h.seen.conference \notin {0, h.report.id}
           THEN Write({h.seen.state}, "conflict") /\ Handled("conference")
           ELSE /\ transfer' = [transfer EXCEPT !.conference = h.report.id]
                /\ handlers' = [handlers EXCEPT !["conference"].seen = transfer',
                                                !["conference"].touched = TRUE]
        /\ UNCHANGED <<session, carrier, host, crashes>>

\* ... and the end of the conference ends the transfer.
ConferenceEnds ==
    LET h == handlers["conference"]
    IN  /\ h # Idle /\ h.touched
        /\ \/ /\ h.report.status = "end" /\ h.seen.state = "bridged"
              /\ Write({"bridged"}, "completed")
           \/ /\ h.report.status = "end" /\ h.seen.state \in {"accepted", "bridging"}
              /\ Write({h.seen.state}, "failed")
           \/ /\ h.report.status = "join" \/ h.seen.state \notin {"accepted", "bridging", "bridged"}
              /\ UNCHANGED ledger
        /\ Handled("conference")
        /\ UNCHANGED <<session, carrier, host, crashes>>

-----------------------------------------------------------------------------
(* Crash, which loses the session, and recover_warm_transfers at the next start *)

Crash ==
    /\ host # "down" /\ crashes < MaxCrashes
    /\ host' = "down" /\ crashes' = crashes + 1
    /\ handlers' = [k \in DOMAIN handlers |-> Idle]
    /\ waiter' = IF waiter.pc \in {"idle", "done"} THEN waiter ELSE Over
    /\ reason' = "none"
    /\ UNCHANGED <<ledger, carrier>>

Open == {"prepared", "dialing", "accepted", "bridging", "ambiguous"}

\* Recovery of every open transfer, also of those whose caller may have been moved.
RecoverableAll == transfer.state \in Open
Recoverable == transfer.state \in Open \ {"bridging", "ambiguous"}

\* Recovery that only settles the row.
RecoverRowOnly ==
    /\ host = "down" /\ Recoverable /\ host' = "recovering"
    /\ UNCHANGED <<ledger, session, carrier, handlers, crashes>>

RecoverHangsUp ==
    /\ host = "down" /\ Recoverable /\ host' = "recovering"
    /\ IF transfer.human THEN EndHuman("completed") ELSE UNCHANGED <<human, reports>>
    /\ UNCHANGED <<ledger, session, create, redirect, pressed, caller, conference, handlers,
                   crashes>>

RecoverUnknown ==
    /\ host = "down" /\ Recoverable /\ transfer.human
    /\ EndHuman("completed") \/ UNCHANGED <<human, reports>>
    /\ Write(Open, "ambiguous") /\ host' = "up"
    /\ UNCHANGED <<session, create, redirect, pressed, caller, conference, handlers, crashes>>

RecoverWrites ==
    /\ host = "recovering" /\ host' = "up"
    /\ Write(Open, "recovered")
    /\ UNCHANGED <<session, carrier, handlers, crashes>>

RecoverNothing ==
    /\ host = "down" /\ ~Recoverable /\ host' = "up"
    /\ UNCHANGED <<ledger, session, carrier, handlers, crashes>>

-----------------------------------------------------------------------------
WarmInit ==
    /\ transfer = [state |-> "absent", human |-> FALSE, conference |-> 0]
    /\ waiter = [pc |-> "idle", seen |-> "none", cancelled |-> FALSE]
    /\ reason = "none"
    /\ create = "none" /\ redirect = "none"
    /\ human = "none" /\ pressed = "none" /\ caller = "agent" /\ conference = 0
    /\ reports = {}
    /\ handlers = [k \in {"accept", "status", "conference"} |-> Idle]
    /\ host = "up" /\ crashes = 0

WarmNext ==
    \/ StartWarmTransfer \/ CarrierDials \/ CarrierRefusesToDial \/ HearCreate \/ BindCreate
    \/ PollAccepted \/ PollEnded \/ TimeOut \/ AbortRead \/ AbortHangUp \/ AbortWrite \/ Cancel
    \/ Bridge \/ CarrierMovesCaller \/ CarrierRefusesToMove \/ HearRedirect \/ Explain
    \/ HumanAnswers \/ CallerLeaves
    \/ \E digit \in {"one", "other"} : HumanPresses(digit)
    \/ \E status \in {"completed", "failed"} : HumanEnds(status)
    \/ \E m \in reports : HandlerRead(m)
    \/ AcceptBinds \/ AcceptDecides \/ StatusDecides \/ ConferenceTouches \/ ConferenceEnds
    \/ Crash \/ RecoverHangsUp \/ RecoverUnknown \/ RecoverWrites \/ RecoverNothing

WarmSpec == WarmInit /\ [][WarmNext]_warmVars

-----------------------------------------------------------------------------
(* Properties *)

WarmTypeOK ==
    /\ transfer \in [state : States, human : BOOLEAN, conference : 0..conference]
    /\ waiter \in [pc : {"idle", "creating", "binding", "polling", "timeout", "hangup", "hungup",
                         "hangupunknown", "bridge", "redirecting", "explain", "done", "over"},
                   seen : States \cup {"none"}, cancelled : BOOLEAN]
    /\ reason \in {"none", "transferred", "carrier_error"}
    /\ human \in {"none", "ringing", "briefed", "conference", "over"}
    /\ pressed \in {"none", "one", "other"}
    /\ caller \in {"agent", "conference", "gone"}
    /\ create \in {"none", "sent", "made", "refused"} /\ redirect \in {"none", "sent", "made", "refused"}
    /\ host \in {"up", "down", "recovering"} /\ crashes \in 0..MaxCrashes

\* The caller is taken from the agent only for a human who accepted, whatever
\* arrives late, twice or out of order.
CallerMovesOnlyAfterAcceptance ==
    caller = "conference" =>
       /\ pressed = "one"
       /\ transfer.state \notin {"prepared", "dialing", "accepted", "declined", "recovered"}

\* "without reopening decisions": a transfer that ended stays ended.
DecisionsAreFinal ==
    [][transfer.state \in {"declined", "failed", "completed", "recovered", "conflict"} =>
         transfer'.state \in {transfer.state, "conflict"}]_warmVars

\* A transfer that startup recovery settled left no known human on the line.
RecoveredLegsAreOver ==
    transfer.state = "recovered" /\ transfer.human => human = "over"

\* The program never cuts a caller and a human who are talking.
ConnectedPartiesAreNeverCut ==
    [][caller = "conference" /\ human = "conference" /\ human' # "conference" =>
         CallerLeaves \/ \E status \in {"completed", "failed"} : HumanEnds(status)]_warmVars

\* "report transferred only after Twilio accepts the caller redirect": a waiter that
\* was not cancelled leaves that reason to the session only if the caller was moved.
TransferredMeansMoved ==
    waiter.pc \in {"over", "done"} /\ ~waiter.cancelled /\ reason = "transferred" =>
        redirect = "made"

===============================================================================
