------------------------------ MODULE Playground ------------------------------
(***************************************************************************)
(* The browser playground: one page (playground-web: App, its poll loop    *)
(* and its media component), the table of browser sessions behind the      *)
(* admin listener (SessionTokenManager, PlaygroundService), and the calls  *)
(* those sessions reserve.  The k-th click on "Start talking" sends        *)
(* request k, and a session is named by the request that issued it; 0 is   *)
(* the page's null.                                                        *)
(*                                                                         *)
(* A browser callback is one step: React applies the state it sets and     *)
(* renders before the next callback.  Time is the set of tokens that have  *)
(* expired: expires_at is compared with the clock and never otherwise      *)
(* read.  Dev-only double mounting (StrictMode) is left out: the embedded  *)
(* page is a production build.                                             *)
(***************************************************************************)
EXTENDS Naturals, FiniteSets

CONSTANTS Sessions,      \* 1 .. n: the clicks of the page that are followed
          Runtimes,      \* subset of {"pipecat", "livekit"}
          MaxActive,     \* SessionTokenManager.max_active
          MaxRestarts    \* bound: restarts of voicey dev while the page is open

ASSUME PlaygroundAssumption ==
    /\ Sessions \subseteq Nat \ {0}
    /\ Runtimes \subseteq {"pipecat", "livekit"}
    /\ MaxActive \in Nat \ {0}
    /\ MaxRestarts \in Nat

VARIABLES
    bootstrap,  \* "none", "failed", or the runtime the page was told
    phase,      \* App's phase
    webSession, \* App's session: 0 or a member of Sessions
    mounted,    \* the session whose media component is on the page, or 0
    media,      \* [Sessions -> state of that component's connection]
    ending,     \* sessions whose end() is under way
    answer,     \* [Sessions -> what became of the request for a session]
    loops,      \* the poll loops and snapshot requests in flight
    snapshot,   \* the last snapshot the page was given
    turns,      \* sessions with a turn in liveTurns
    since,      \* sessions that came since the last click on "Start talking"
    serving,    \* the runtime the server runs
    restarts,   \* how often it was restarted
    token,      \* [Sessions -> state of the entry of the token table]
    call,       \* [Sessions -> "none", "active" or "over"]: the durable call
    expired     \* sessions whose expires_at has passed

page   == <<bootstrap, phase, webSession, mounted, media, ending, turns, since>>
server == <<serving, restarts, token, call, expired>>
pageVars   == <<page, answer, loops, snapshot, server>>

\* App's Phase, as far as the page acts on it: "live" is connecting or listening,
\* "over" is ended or error.
Phases == {"idle", "requesting", "live", "over"}

\* api.ts: what a request for a session has come to; an issued one carries the
\* runtime of the server that issued it.
Answers == {"unsent", "sent", "refused", "done"} \cup Runtimes

\* api.ts: the part of a snapshot the page decides on.
PageSnapshots  == [of : Sessions \cup {0}, over : BOOLEAN]
NoSnapshot == [of |-> 0, over |-> FALSE]

PageInit ==
    /\ bootstrap = "none" /\ phase = "idle" /\ webSession = 0 /\ mounted = 0
    /\ media = [k \in Sessions |-> "none"]
    /\ answer = [k \in Sessions |-> "unsent"]
    /\ loops = {} /\ snapshot = NoSnapshot /\ turns = {} /\ since = {} /\ ending = {}
    /\ serving \in Runtimes /\ restarts = 0
    /\ token = [k \in Sessions |-> "none"]
    /\ call = [k \in Sessions |-> "none"]
    /\ expired = {}

-----------------------------------------------------------------------------
(* Rendering and the effects that follow it.                               *)

\* The media component is on the page for a session whose phase is neither idle
\* nor over, and that has not expired when the page renders.
Shows(s, p) == s # 0 /\ p \notin {"idle", "over"} /\ s \notin expired

\* Connections of a component that is on the page; the others are of one that is
\* gone, or of none.
Opened == {"exchanging", "joining", "starting", "failed", "ready"}

\* Unmounting.  Pipecat: the client is told to disconnect.  LiveKit: the effect's
\* cleanup aborts the token exchange, takes every handler off and disconnects the
\* room, which ends a room.connect under way; connect() itself runs on from
\* wherever it waits: for the exchange ("aborted"), or in a room it had joined for
\* the audio or the microphone ("abandoned").
Closed(m) ==
    IF m \notin Opened THEN m
    ELSE IF bootstrap = "pipecat" THEN "closing"
    ELSE CASE m = "exchanging" -> "aborted"
           [] m = "starting"   -> "abandoned"
           [] OTHER            -> "left"

\* The page with session s and phase p, its media connections standing at m:
\* a component that appears starts to connect, one that goes is cleaned up.
Render(s, p, m) ==
    LET shown == IF Shows(s, p) THEN s ELSE 0 IN
    /\ webSession' = s /\ phase' = p /\ mounted' = shown
    /\ media' = [k \in Sessions |->
                   CASE k = shown /\ k # mounted -> "exchanging"
                     [] k = mounted /\ k # shown -> Closed(m[k])
                     [] OTHER -> m[k]]

\* Mutant: the cleanup clears the timer and leaves the fetch alone.
CleanedUpHalf == {l \in loops : l.at # "timer"}

\* Cleanup of the poll effect: the fetch is aborted and the timer cleared.  A
\* request already sent is served all the same, for nobody.
CleanedUp == {[l EXCEPT !.at = "aborted"] : l \in {l \in loops : l.at \in {"asked", "aborted"}}}

\* useSessionPoll's effect for a session that changes to s.
PollEffect(s) ==
    IF s = webSession
    THEN UNCHANGED <<loops, snapshot>>
    ELSE /\ loops' = CleanedUp \cup {[of |-> k, at |-> "asked"] : k \in {s} \ {0}}
         /\ snapshot' = IF s = 0 THEN NoSnapshot ELSE snapshot

\* A callback that sets the phase and touches nothing else of the App.
SetPhase(p, m) == Render(webSession, p, m) /\ PollEffect(webSession)

-----------------------------------------------------------------------------
(* App.                                                                    *)

BootstrapArrives ==
    /\ bootstrap = "none"
    /\ bootstrap' \in {serving, "failed"}
    /\ UNCHANGED <<phase, webSession, mounted, media, ending, turns, since,
                   answer, loops, snapshot, server>>

\* The button is there when no media component is, and it is disabled without
\* a bootstrap and while the phase says a request is out.
Begin(k) ==
    /\ mounted = 0 /\ bootstrap \in Runtimes /\ phase # "requesting"
    /\ answer[k] = "unsent" /\ \A j \in Sessions : j < k => answer[j] # "unsent"
    /\ answer' = [answer EXCEPT ![k] = "sent"]
    /\ Render(0, "requesting", media) /\ PollEffect(0)
    /\ turns' = {} /\ since' = {}
    /\ UNCHANGED <<bootstrap, ending, server>>

\* A session of the page's runtime replaces whatever session the page has.
SessionArrives(k) ==
    /\ answer[k] \in Runtimes /\ answer[k] = bootstrap
    /\ answer' = [answer EXCEPT ![k] = "done"]
    /\ Render(k, "live", media) /\ PollEffect(k)
    /\ since' = since \cup {k}
    /\ UNCHANGED <<bootstrap, ending, turns, server>>

\* The request was refused, its answer was lost, or it names another runtime.
RequestFails(k) ==
    /\ answer[k] \in {"sent", "refused"} \cup Runtimes
    /\ answer' = [answer EXCEPT ![k] = "done"]
    /\ SetPhase("over", media)
    /\ UNCHANGED <<bootstrap, ending, turns, since, server>>

-----------------------------------------------------------------------------
(* The poll loop.                                                          *)

Replace(l, new) == loops' = (loops \ {l}) \cup new

\* Another poll, later, unless the token has expired.
Again(l) == {[l EXCEPT !.at = "timer"] : k \in {l.of} \ expired}

TimerFires(l) ==
    /\ l.at = "timer"
    /\ Replace(l, {[l EXCEPT !.at = "asked"]})
    /\ UNCHANGED <<page, answer, snapshot, server>>

\* The snapshot is set, so the page renders; a terminal event ends the loop.
PollAnswers(l) ==
    /\ l.at \in {"active", "over"}
    /\ snapshot' = [of |-> l.of, over |-> l.at = "over"]
    /\ Replace(l, IF l.at = "over" THEN {} ELSE Again(l))
    /\ Render(webSession, phase, media)
    /\ UNCHANGED <<bootstrap, ending, turns, since, answer, server>>

\* Mutant: a failed poll is the last one.
PollFailsForGood(l) ==
    /\ l.at \in {"asked", "active", "over", "failed"}
    /\ Replace(l, {})
    /\ UNCHANGED <<page, answer, snapshot, server>>

PollFails(l) ==
    /\ l.at \in {"asked", "active", "over", "failed"}
    /\ Replace(l, Again(l))
    /\ UNCHANGED <<page, answer, snapshot, server>>

-----------------------------------------------------------------------------
(* The media component of a session.                                       *)

\* LiveKit: the room token came and room.connect starts.  Pipecat: the offer was
\* answered.  Either adds an event to the feed.  A second Pipecat client of one
\* session is taken to be answered too, although its token is bound already.
ExchangeAnswered(k) ==
    /\ media[k] = "exchanging" /\ token[k] = "bound"
    /\ SetPhase(phase, [media EXCEPT ![k] = "joining"])
    /\ UNCHANGED <<bootstrap, ending, turns, since, answer, server>>

\* Mutant: connect() does not look at the signal when the exchange is answered.
JoinsRegardless(k) ==
    /\ media[k] = "aborted" /\ token[k] = "bound"
    /\ media' = [media EXCEPT ![k] = "joining"]
    /\ UNCHANGED <<bootstrap, phase, webSession, mounted, ending, turns, since,
                   answer, loops, snapshot, server>>

\* An exchange that was aborted fails, or was answered before: connect() finds
\* the signal aborted and joins no room.
AbortedExchangeReturns(k) ==
    /\ media[k] = "aborted"
    /\ media' = [media EXCEPT ![k] = "left"]
    /\ UNCHANGED <<bootstrap, phase, webSession, mounted, ending, turns, since,
                   answer, loops, snapshot, server>>

Connected(k) ==
    /\ k = mounted /\ media[k] = "joining"
    /\ SetPhase("live", [media EXCEPT ![k] = "starting"])
    /\ UNCHANGED <<bootstrap, ending, turns, since, answer, server>>

\* LiveKit: audio started and the microphone is on, which only adds an event.
\* Pipecat: the bot is ready, which sets the phase as well.
AgentReady(k) ==
    /\ k = mounted /\ media[k] = "starting"
    /\ SetPhase(IF bootstrap = "pipecat" THEN "live" ELSE phase, [media EXCEPT ![k] = "ready"])
    /\ UNCHANGED <<bootstrap, ending, turns, since, answer, server>>

\* LiveKit: the exchange, room.connect or the microphone fails before the
\* cleanup, and connect() ends.  It closes nothing: a room that was joined is
\* left by the cleanup that follows the phase.
ConnectFails(k) ==
    /\ bootstrap = "livekit" /\ k = mounted
    /\ media[k] \in {"exchanging", "joining", "starting"}
    /\ SetPhase("over", [media EXCEPT ![k] = "failed"])
    /\ UNCHANGED <<bootstrap, ending, turns, since, answer, server>>

\* LiveKit loses the connection, recovers it, or hears somebody speak.
RoomReports(k) ==
    /\ bootstrap = "livekit" /\ k = mounted /\ media[k] \in {"joining", "starting", "ready"}
    /\ SetPhase("live", media)
    /\ UNCHANGED <<bootstrap, ending, turns, since, answer, server>>

\* LiveKit: the other side, the network or end() disconnects the room.
Dropped(k) ==
    /\ bootstrap = "livekit" /\ k = mounted
    /\ media[k] \in {"joining", "starting", "ready"}
    /\ SetPhase("over", media)
    /\ UNCHANGED <<bootstrap, ending, turns, since, answer, server>>

\* A Pipecat client reports a state of its transport, a bot that is ready, an
\* error or its disconnection, at any time before it is closed: the App sets the
\* phase, whatever session it has by then, and may so put a component back on
\* the page that was gone.
PipecatReports(k) ==
    /\ bootstrap = "pipecat"
    /\ media[k] = "closing" \/ (k = mounted /\ media[k] \in Opened)
    /\ \E p \in {"live", "over"} : SetPhase(p, media)
    /\ UNCHANGED <<bootstrap, ending, turns, since, answer, server>>

\* A Pipecat client whose component is gone is closed, which it reports too.
CloseCompletes(k) ==
    /\ media[k] = "closing"
    /\ SetPhase("over", [media EXCEPT ![k] = "left"])
    /\ UNCHANGED <<bootstrap, ending, turns, since, answer, server>>

\* connect() of a LiveKit room that was left meanwhile does not look at the
\* signal again: once the audio has started it switches the microphone on
\* ("orphaned"), unless the audio or the microphone is refused.  If the
\* microphone was on before, all it does is add an event.
AbandonedConnectReturns(k) ==
    /\ media[k] = "abandoned"
    /\ \E m \in {"left", "orphaned"} : SetPhase(phase, [media EXCEPT ![k] = m])
    /\ UNCHANGED <<bootstrap, ending, turns, since, answer, server>>

\* External: livekit-client waits 15 s for the room to come back before it gives
\* the publication up and stops the track.
PublicationTimesOut(k) ==
    /\ media[k] = "orphaned"
    /\ media' = [media EXCEPT ![k] = "left"]
    /\ UNCHANGED <<bootstrap, phase, webSession, mounted, ending, turns, since,
                   answer, loops, snapshot, server>>

\* Mutant: the handlers stay on.
TurnArrivesLate(k) ==
    /\ media[k] \in {"starting", "ready", "closing", "abandoned", "left"}
    /\ turns' = turns \cup {k}
    /\ SetPhase(phase, media)
    /\ UNCHANGED <<bootstrap, ending, since, answer, server>>

\* A final transcript.  LiveKit's handler is off once the component is gone;
\* a Pipecat client calls back until it is closed.
TurnArrives(k) ==
    /\ \/ k = mounted /\ media[k] \in {"starting", "ready"}
       \/ bootstrap = "pipecat" /\ media[k] = "closing"
    /\ turns' = turns \cup {k}
    /\ SetPhase(phase, media)
    /\ UNCHANGED <<bootstrap, ending, since, answer, server>>

\* "End session" awaits the microphone (LiveKit) and the disconnection, and then
\* sets the phase, whatever session the page has by that time.
ClickEnd(k) ==
    /\ k = mounted /\ ending' = ending \cup {k}
    /\ UNCHANGED <<bootstrap, phase, webSession, mounted, media, turns, since,
                   answer, loops, snapshot, server>>

EndReturns(k) ==
    /\ k \in ending /\ ending' = ending \ {k}
    /\ SetPhase("over", media)
    /\ UNCHANGED <<bootstrap, turns, since, answer, server>>

-----------------------------------------------------------------------------
(* The server: its token table and the calls.                              *)

\* _prune: an expired session that is not active is forgotten.
Pruned == [k \in Sessions |-> IF k \in expired /\ token[k] # "bound" THEN "gone" ELSE token[k]]

InUse(t) == Cardinality({k \in Sessions : t[k] \in {"reserved", "bound"}})

\* issue_for_call: the call is reserved before the token is minted.  A rate
\* limit or the host's admission may refuse at any time.
IssueSession(k) ==
    /\ answer[k] = "sent"
    /\ \/ /\ InUse(Pruned) < MaxActive
          /\ token' = [Pruned EXCEPT ![k] = "issued"]
          /\ call' = [call EXCEPT ![k] = "active"]
          /\ answer' = [answer EXCEPT ![k] = serving]
       \/ /\ token' \in {token, Pruned} /\ UNCHANGED call
          /\ answer' = [answer EXCEPT ![k] = "refused"]
    /\ UNCHANGED <<page, loops, snapshot, serving, restarts, expired>>

\* The exchange or the first offer consumes the token, also one the page sent and
\* gave up since.
Authorize(k) ==
    /\ media[k] # "none" /\ token[k] = "issued" /\ k \notin expired
    /\ token' = [token EXCEPT ![k] = "reserved"]
    /\ UNCHANGED <<page, answer, loops, snapshot, serving, restarts, call, expired>>

\* Pipecat claims the reserved call before it binds; the exchange of a room token
\* binds whatever has become of the call.
Bind(k) ==
    /\ token[k] = "reserved" /\ (call[k] = "active" \/ serving = "livekit")
    /\ token' = [token EXCEPT ![k] = "bound"]
    /\ UNCHANGED <<page, answer, loops, snapshot, serving, restarts, call, expired>>

\* A failed exchange consumes the token and ends the reserved call.
CancelExchange(k) ==
    /\ token[k] = "reserved"
    /\ token' = [token EXCEPT ![k] = "gone"]
    /\ call' = [call EXCEPT ![k] = "over"]
    /\ UNCHANGED <<page, answer, loops, snapshot, serving, restarts, expired>>

\* The call gets its terminal event: its session ended, its reservation ran
\* out, or the recovery of stale calls found it.
CallOver(k) ==
    /\ call[k] = "active"
    /\ call' = [call EXCEPT ![k] = "over"]
    /\ UNCHANGED <<page, answer, loops, snapshot, serving, restarts, token, expired>>

\* Only the Pipecat host gives the slot back when the session task ends.
ReleaseWeb(k) ==
    /\ serving = "pipecat" /\ token[k] = "bound" /\ call[k] = "over"
    /\ token' = [token EXCEPT ![k] = "released"]
    /\ UNCHANGED <<page, answer, loops, snapshot, serving, restarts, call, expired>>

\* GET of a snapshot: it fails for a session the table does not know, and gives
\* back the slot of a session whose call it finds over.
ServeSnapshot(l) ==
    /\ l.at \in {"asked", "aborted"}
    /\ LET known == token[l.of] # "gone"
           seen  == CASE ~known -> "failed" [] known /\ call[l.of] = "over" -> "over"
                      [] OTHER -> "active"
       IN  /\ Replace(l, IF l.at = "aborted" THEN {} ELSE {[l EXCEPT !.at = seen]})
           /\ token' = [token EXCEPT ![l.of] =
                          IF @ = "bound" /\ call[l.of] = "over" THEN "released" ELSE @]
    /\ UNCHANGED <<page, answer, snapshot, serving, restarts, call, expired>>

TokenExpires(k) ==
    /\ token[k] # "none" /\ k \notin expired
    /\ expired' = expired \cup {k}
    /\ UNCHANGED <<page, answer, loops, snapshot, serving, restarts, token, call>>

\* voicey dev starts again, perhaps for an agent of the other runtime: the
\* table was in memory, and so was every request being answered.
ServerRestarts ==
    /\ restarts < MaxRestarts /\ restarts' = restarts + 1
    /\ serving' \in Runtimes
    /\ token' = [k \in Sessions |-> IF token[k] = "none" THEN "none" ELSE "gone"]
    /\ UNCHANGED <<page, answer, loops, snapshot, call, expired>>

-----------------------------------------------------------------------------
Media(k) ==
    \/ ExchangeAnswered(k) \/ AbortedExchangeReturns(k) \/ Connected(k) \/ AgentReady(k)
    \/ ConnectFails(k) \/ RoomReports(k) \/ Dropped(k)
    \/ PipecatReports(k) \/ CloseCompletes(k)
    \/ AbandonedConnectReturns(k) \/ PublicationTimesOut(k) \/ TurnArrives(k)
    \/ ClickEnd(k) \/ EndReturns(k)

Server(k) ==
    \/ IssueSession(k) \/ Authorize(k) \/ Bind(k) \/ CancelExchange(k)
    \/ CallOver(k) \/ ReleaseWeb(k) \/ TokenExpires(k)

Poll(l) == TimerFires(l) \/ PollAnswers(l) \/ PollFails(l) \/ ServeSnapshot(l)

PageNext ==
    \/ BootstrapArrives \/ ServerRestarts
    \/ \E k \in Sessions : Begin(k) \/ SessionArrives(k) \/ RequestFails(k)
    \/ \E k \in Sessions : Media(k) \/ Server(k)
    \/ \E l \in loops : Poll(l)

PageSpec == PageInit /\ [][PageNext]_pageVars

-----------------------------------------------------------------------------
(* PageFairness: requests are served, timers fire, calls end (max_duration_s,  *)
(* the pending timeout, stale-call recovery), and polls do not fail for    *)
(* ever.  Nothing makes the user click, the connection come up, or the     *)
(* token expire.                                                           *)

PollOf(k, A(_)) == \E l \in loops : l.of = k /\ A(l)

RequestGoesOn(k) == IssueSession(k) \/ SessionArrives(k) \/ RequestFails(k)

CallGoesBy(k) == CallOver(k) \/ ReleaseWeb(k)

PageFairness ==
    \A k \in Sessions :
        /\ WF_pageVars(RequestGoesOn(k)) /\ WF_pageVars(CallGoesBy(k))
        /\ WF_pageVars(PollOf(k, TimerFires))
        /\ SF_pageVars(PollOf(k, ServeSnapshot)) /\ SF_pageVars(PollOf(k, PollAnswers))

PageFairSpec == PageSpec /\ PageFairness

-----------------------------------------------------------------------------
(* Properties.                                                             *)

PlaygroundTypeOK ==
    /\ bootstrap \in {"none", "failed"} \cup Runtimes /\ serving \in Runtimes
    /\ phase \in Phases /\ webSession \in Sessions \cup {0} /\ mounted \in Sessions \cup {0}
    /\ media \in [Sessions -> Opened \cup {"none", "aborted", "abandoned", "orphaned",
                                           "closing", "left"}]
    /\ answer \in [Sessions -> Answers]
    /\ loops \subseteq [of : Sessions, at : {"asked", "aborted", "active", "over", "failed", "timer"}]
    /\ snapshot \in PageSnapshots
    /\ turns \subseteq Sessions /\ since \subseteq Sessions /\ ending \subseteq Sessions
    /\ expired \subseteq Sessions
    /\ restarts \in 0 .. MaxRestarts
    /\ token \in [Sessions -> {"none", "issued", "reserved", "bound", "released", "gone"}]
    /\ call \in [Sessions -> {"none", "active", "over"}]

\* OutputPanel: the terminal event of session k is on the page.
TerminalShown(k) == snapshot.of = k /\ snapshot.over

Alive == {l \in loops : l.at # "aborted"}

\* The page polls its own session and no other, with one loop at a time, and it
\* goes on until the terminal event is on the page or the token has expired:
\* no answer, failure or change of session leaves two loops or none
\* (App.tsx useSessionPoll).
PollFollowsSession ==
    /\ \A l \in Alive : l.of = webSession
    /\ Cardinality(Alive) <= 1
    /\ Alive = {} => webSession = 0 \/ TerminalShown(webSession) \/ webSession \in expired

\* A snapshot that comes in is of the session the page has: an answer that
\* was on its way when the session changed is never shown (the abort in
\* useSessionPoll's cleanup).
SnapshotsAreOfTheSession ==
    [][snapshot' # snapshot => snapshot'.of \in {0, webSession'}]_pageVars

\* A LiveKit room that is being joined, or was and is not left, is the room of the
\* component on the page.  However a component goes (end, error, drop, expiry, a
\* second session), and wherever connect() waits by then, its room is left, and
\* an exchange answered later joins no room (the signal and the cleanup of
\* LiveKitSession.tsx).
NoOrphanRoom ==
    bootstrap = "livekit" =>
        \A k \in Sessions : media[k] \in Opened \ {"exchanging"} => k = mounted

\* With LiveKit, what the transcript panel shows was said since the last click
\* on "Start talking": the durable transcript when there is one, and the live
\* turns otherwise.  A room that was left does not add turns to the next one.
ShownTurns == IF snapshot.of = 0 THEN turns ELSE {snapshot.of} \cup turns

TranscriptIsOfThisRun == bootstrap = "livekit" => ShownTurns \subseteq since

\* A session that is over is shown with its terminal event, unless its token
\* expires first, the page goes on to another session, or the server forgot it
\* (useSessionPoll: no failed poll is the last one).
TerminalShownBeforeExpiry ==
    \A k \in Sessions :
        (webSession = k /\ call[k] = "over") ~>
            (TerminalShown(k) \/ webSession # k \/ k \in expired \/ token[k] = "gone")

\* docs/playground.md:129 of VY-WEB-003: "end an active browser session or wait for
\* the retry interval".  A session that ended gives its slot back
\* (PlaygroundService.session_snapshot, PipecatRuntimeHost._release_web).
EndedSessionFreesItsSlot ==
    \A k \in Sessions : (token[k] = "bound" /\ call[k] = "over") ~> (token[k] # "bound")
=============================================================================
