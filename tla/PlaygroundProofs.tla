-------------------------- MODULE PlaygroundProofs --------------------------
(***************************************************************************)
(* Proofs about Playground, for every number of sessions, runtimes, slots  *)
(* and restarts; and about run `live`, which checks it beside the          *)
(* telephony ledger.                                                       *)
(***************************************************************************)
EXTENDS MCLive, TelephonyProofs, FiniteSetTheorems

-----------------------------------------------------------------------------
(* The inductive invariant *)

MediaStates == Opened \cup {"none", "aborted", "abandoned", "orphaned", "closing", "left"}
LoopStates == {"asked", "aborted", "active", "over", "failed", "timer"}

\* PollFollowsSession with one loop at a time said without counting.
PollInv ==
    /\ \A l \in Alive : l.of = webSession
    /\ \A l, m \in Alive : l = m
    /\ Alive = {} => webSession = 0 \/ TerminalShown(webSession) \/ webSession \in expired

\* What the page shows is of the session it has or of one that came since the last
\* click; before the bootstrap arrives it shows nothing.
ShownInv ==
    /\ mounted \in {0, webSession}
    /\ webSession \in since \cup {0} /\ snapshot.of \in since \cup {0}
    /\ webSession = 0 => snapshot.of = 0
    /\ bootstrap \notin Runtimes => webSession = 0 /\ turns = {}
    /\ bootstrap = "livekit" => turns \subseteq since

\* Whatever is open, an exchange under way and a Pipecat client too, is the mounted
\* component's: an exchange that outlived its component would join a room.
OpenIsMounted == \A k \in Sessions : media[k] \in Opened => k = mounted

PageInv == PlaygroundTypeOK /\ OpenIsMounted /\ PollInv /\ ShownInv

-----------------------------------------------------------------------------
(* Rendering, the poll effect, and what leaves them alone *)

\* Rendering leaves nothing open but the connection of the component it shows.
LEMMA RenderKeeps ==
    ASSUME PageInv, NEW s \in Sessions \cup {0}, NEW p \in Phases,
           NEW m \in [Sessions -> MediaStates],
           \A k \in Sessions : m[k] \in Opened => k = mounted,
           Render(s, p, m)
    PROVE  /\ webSession' = s /\ phase' = p /\ mounted' \in {0, s}
           /\ media' \in [Sessions -> MediaStates]
           /\ \A k \in Sessions : media'[k] \in Opened => k = mounted'
<1> DEFINE shown == IF Shows(s, p) THEN s ELSE 0
<1>1. webSession' = s /\ phase' = p /\ mounted' = shown /\ shown \in {0, s}
  BY DEF Render
<1>2. \A k \in Sessions : k # 0
  BY PlaygroundAssumption
<1>3. \A x \in MediaStates : Closed(x) \in MediaStates \ Opened
  BY DEF Closed, MediaStates, Opened
<1>4. media' = [k \in Sessions |->
                  CASE k = shown /\ k # mounted -> "exchanging"
                    [] k = mounted /\ k # shown -> Closed(m[k])
                    [] OTHER -> m[k]]
  BY DEF Render
<1> HIDE DEF shown
<1>5. ASSUME NEW k \in Sessions
      PROVE  media'[k] \in MediaStates /\ (media'[k] \in Opened => k = shown)
  <2>1. CASE k = shown /\ k # mounted
    BY <1>4, <2>1 DEF MediaStates, Opened
  <2>2. CASE k = mounted /\ k # shown
    BY <1>3, <1>4, <2>2
  <2>3. CASE (k = shown) <=> (k = mounted)
    BY <1>4, <2>3
  <2> QED
    BY <2>1, <2>2, <2>3
<1> QED
  BY <1>1, <1>4, <1>5

\* A change of session leaves the loop of the new one, and no snapshot without one.
LEMMA PollEffectKeeps ==
    ASSUME PageInv, NEW s \in Sessions \cup {0}, PollEffect(s), webSession' = s,
           expired' = expired
    PROVE  /\ loops' \subseteq [of : Sessions, at : LoopStates]
           /\ snapshot' \in PageSnapshots
           /\ PollInv'
           /\ snapshot' = snapshot \/ snapshot'.of = 0
           /\ s = 0 => snapshot'.of = 0
<1>0. /\ loops \subseteq [of : Sessions, at : LoopStates] /\ snapshot \in PageSnapshots
      /\ \A k \in Sessions : k # 0
  BY PlaygroundAssumption DEF PageInv, PlaygroundTypeOK, LoopStates
<1>1. CASE s = webSession
  <2>1. loops' = loops /\ snapshot' = snapshot
    BY <1>1 DEF PollEffect
  <2> QED
    BY <1>0, <1>1, <2>1 DEF PageInv, PollInv, ShownInv, Alive, TerminalShown
<1>2. CASE s # webSession
  <2>1. /\ loops' = CleanedUp \cup {[of |-> k, at |-> "asked"] : k \in {s} \ {0}}
        /\ snapshot' = IF s = 0 THEN NoSnapshot ELSE snapshot
    BY <1>2 DEF PollEffect
  <2>2. \A l \in CleanedUp : l \in [of : Sessions, at : LoopStates] /\ l.at = "aborted"
    BY <1>0 DEF CleanedUp, LoopStates
  <2>3. loops' \subseteq [of : Sessions, at : LoopStates]
    BY <2>1, <2>2 DEF LoopStates
  <2>4. Alive' = {[of |-> k, at |-> "asked"] : k \in {s} \ {0}}
    BY <2>1, <2>2 DEF Alive
  <2>5. NoSnapshot \in PageSnapshots /\ NoSnapshot.of = 0
    BY DEF NoSnapshot, PageSnapshots
  <2>6. PollInv'
    <3>1. CASE s = 0
      BY <2>4, <3>1 DEF PollInv
    <3>2. CASE s # 0
      <4>1. Alive' = {[of |-> s, at |-> "asked"]}
        BY <2>4, <3>2
      <4>2. Alive' # {} /\ \A l \in Alive' : l.of = webSession'
        BY <4>1
      <4>3. \A l, m \in Alive' : l = m
        BY <4>1
      <4> QED
        BY <4>2, <4>3 DEF PollInv
    <3> QED
      BY <3>1, <3>2
  <2> QED
    BY <1>0, <2>1, <2>3, <2>5, <2>6
<1> QED
  BY <1>1, <1>2

\* Nothing that leaves the loops, the snapshot and the session alone stops the poll.
LEMMA PollUntouched ==
    ASSUME PollInv, UNCHANGED <<loops, snapshot, webSession>>, expired \subseteq expired'
    PROVE  PollInv'
BY DEF PollInv, Alive, TerminalShown

\* A callback of the media component that sets the phase, and perhaps its own
\* connection to one that is not open.
LEMMA SetPhaseKeeps ==
    ASSUME PageInv, NEW p \in Phases, NEW m \in [Sessions -> MediaStates],
           \A k \in Sessions : m[k] \in Opened => k = mounted,
           SetPhase(p, m), UNCHANGED <<bootstrap, turns, since, server>>,
           ending' \subseteq Sessions,
           answer' \in [Sessions -> Answers]
    PROVE  PageInv'
<1>0. webSession \in Sessions \cup {0}
  BY DEF PageInv, PlaygroundTypeOK
<1>1. /\ webSession' = webSession /\ phase' = p /\ mounted' \in {0, webSession}
      /\ media' \in [Sessions -> MediaStates]
      /\ \A k \in Sessions : media'[k] \in Opened => k = mounted'
  BY <1>0, RenderKeeps DEF SetPhase
<1>2. loops' = loops /\ snapshot' = snapshot
  BY DEF SetPhase, PollEffect
<1>3. expired' = expired /\ serving' = serving /\ restarts' = restarts
      /\ token' = token /\ call' = call
  BY DEF server
<1>4. PollInv'
  BY <1>1, <1>2, <1>3, PollUntouched DEF PageInv
<1>5. ShownInv'
  BY <1>1, <1>2 DEF PageInv, ShownInv
<1>6. OpenIsMounted'
  BY <1>1 DEF OpenIsMounted, Opened
<1>7. PlaygroundTypeOK'
  BY <1>0, <1>1, <1>2, <1>3 DEF PageInv, PlaygroundTypeOK, MediaStates
<1> QED
  BY <1>4, <1>5, <1>6, <1>7 DEF PageInv

\* One connection moves from one state to another, on a page that stays as it is.
LEMMA MediaMove ==
    ASSUME PageInv, NEW k \in Sessions, NEW x \in MediaStates,
           x \in Opened => k = mounted
    PROVE  /\ [media EXCEPT ![k] = x] \in [Sessions -> MediaStates]
           /\ \A j \in Sessions : [media EXCEPT ![k] = x][j] \in Opened => j = mounted
BY DEF PageInv, PlaygroundTypeOK, OpenIsMounted, MediaStates, Opened

\* The server's steps and the requests do not touch the page.
LEMMA PageUntouched ==
    ASSUME PageInv, PlaygroundTypeOK', UNCHANGED <<page, loops, snapshot>>,
           expired \subseteq expired'
    PROVE  PageInv'
<1>1. PollInv'
  BY PollUntouched DEF PageInv, page
<1>2. OpenIsMounted' /\ ShownInv'
  BY DEF PageInv, OpenIsMounted, ShownInv, page
<1> QED
  BY <1>1, <1>2 DEF PageInv

-----------------------------------------------------------------------------
(* The poll loop *)

\* One loop takes another state, or ends.
LEMMA ReplaceLoop ==
    ASSUME PageInv, NEW l \in loops, NEW new, Replace(l, new),
           \A n \in new : n.of = l.of /\ n.at \in LoopStates
                          /\ n \in [of : Sessions, at : LoopStates],
           \A n, m \in new : n = m,
           l.at = "aborted" => new = {},
           webSession' = webSession, expired' = expired,
           snapshot' = snapshot \/ (l \in Alive /\ snapshot'.of = l.of),
           l.at = "aborted" \/ new # {} \/ l.of \in expired
              \/ (snapshot'.of = l.of /\ snapshot'.over),
           \A n \in new : n.at # "aborted"
    PROVE  loops' \subseteq [of : Sessions, at : LoopStates] /\ PollInv'
<1>0. loops \subseteq [of : Sessions, at : LoopStates] /\ loops' = (loops \ {l}) \cup new
  BY DEF PageInv, PlaygroundTypeOK, LoopStates, Replace
<1>1. CASE l.at = "aborted"
  <2>1. Alive' = Alive /\ snapshot' = snapshot
    BY <1>0, <1>1 DEF Alive
  <2> QED
    BY <1>0, <1>1, <2>1 DEF PageInv, PollInv, TerminalShown
<1>2. CASE l.at # "aborted"
  <2>1. l \in Alive /\ l.of = webSession
    BY <1>2 DEF Alive, PageInv, PollInv
  <2>2. Alive' = new
    BY <1>0, <1>2, <2>1 DEF Alive, PageInv, PollInv
  <2> QED
    BY <1>0, <1>2, <2>1, <2>2 DEF PollInv, TerminalShown
<1> QED
  BY <1>1, <1>2

\* A loop that goes on is one loop, and one that does not has seen its token expire.
LEMMA AgainIsOne ==
    ASSUME PageInv, NEW l \in loops
    PROVE  /\ \A n \in Again(l) : /\ n.of = l.of /\ n.at = "timer"
                                  /\ n \in [of : Sessions, at : LoopStates]
           /\ \A n, m \in Again(l) : n = m
           /\ Again(l) # {} \/ l.of \in expired
<1>1. l \in [of : Sessions, at : LoopStates]
  BY DEF PageInv, PlaygroundTypeOK, LoopStates
<1>2. Again(l) = IF l.of \in expired THEN {} ELSE {[l EXCEPT !.at = "timer"]}
  BY DEF Again
<1> QED
  BY <1>1, <1>2 DEF LoopStates
-----------------------------------------------------------------------------
(* The invariant is kept *)

LEMMA InitPageInv == PageInit => PageInv
<1> SUFFICES ASSUME PageInit PROVE PageInv
  OBVIOUS
<1>1. PlaygroundTypeOK
  BY PlaygroundAssumption
     DEF PageInit, PlaygroundTypeOK, Phases, Answers, PageSnapshots, NoSnapshot
<1> QED
  BY <1>1 DEF PageInit, PageInv, OpenIsMounted, Opened, PollInv, ShownInv, Alive, NoSnapshot

\* Every step of the App: the bootstrap, a click on "Start talking", and what becomes
\* of the request it sent.
LEMMA AppSteps ==
    ASSUME PageInv,
           \/ BootstrapArrives
           \/ \E k \in Sessions : Begin(k) \/ SessionArrives(k) \/ RequestFails(k)
    PROVE  PageInv'
<1>0. PlaygroundTypeOK /\ media \in [Sessions -> MediaStates] /\ \A k \in Sessions : k # 0
      /\ \A j \in Sessions : media[j] \in Opened => j = mounted
  BY PlaygroundAssumption
     DEF PageInv, PlaygroundTypeOK, MediaStates, OpenIsMounted, Opened
<1>1. CASE BootstrapArrives
  <2>1. PlaygroundTypeOK'
    BY <1>0, <1>1 DEF BootstrapArrives, PlaygroundTypeOK, server
  <2>2. PollInv'
    BY <1>1, PollUntouched DEF PageInv, BootstrapArrives, server
  <2>3. ShownInv'
    BY <1>0, <1>1, PlaygroundAssumption
       DEF PageInv, ShownInv, BootstrapArrives, PlaygroundTypeOK
  <2> QED
    BY <1>1, <2>1, <2>2, <2>3 DEF PageInv, OpenIsMounted, BootstrapArrives
<1>2. ASSUME NEW k \in Sessions, Begin(k) PROVE PageInv'
  <2>1. /\ webSession' = 0 /\ phase' = "requesting" /\ mounted' = 0
        /\ media' \in [Sessions -> MediaStates]
        /\ \A j \in Sessions : media'[j] \in Opened => j = mounted'
    BY <1>0, <1>2, RenderKeeps DEF Begin, Phases
  <2>2. /\ loops' \subseteq [of : Sessions, at : LoopStates]
        /\ snapshot' \in PageSnapshots /\ snapshot'.of = 0 /\ PollInv'
    BY <1>2, <2>1, PollEffectKeeps DEF Begin, server
  <2>3. answer' \in [Sessions -> Answers]
    BY <1>0, <1>2 DEF Begin, PlaygroundTypeOK, Answers
  <2>4. PlaygroundTypeOK'
    BY <1>0, <1>2, <2>1, <2>2, <2>3
       DEF Begin, PlaygroundTypeOK, MediaStates, LoopStates, Phases, server
  <2>5. ShownInv'
    BY <1>2, <2>1, <2>2 DEF Begin, ShownInv
  <2> QED
    BY <2>1, <2>2, <2>4, <2>5 DEF PageInv, OpenIsMounted, Opened
<1>3. ASSUME NEW k \in Sessions, SessionArrives(k) PROVE PageInv'
  <2>1. /\ webSession' = k /\ phase' = "live" /\ mounted' \in {0, k}
        /\ media' \in [Sessions -> MediaStates]
        /\ \A j \in Sessions : media'[j] \in Opened => j = mounted'
    BY <1>0, <1>3, RenderKeeps DEF SessionArrives, Phases
  <2>2. /\ loops' \subseteq [of : Sessions, at : LoopStates]
        /\ snapshot' \in PageSnapshots /\ PollInv'
        /\ snapshot' = snapshot \/ snapshot'.of = 0
    BY <1>3, <2>1, PollEffectKeeps DEF SessionArrives, server
  <2>3. answer' \in [Sessions -> Answers]
    BY <1>0, <1>3 DEF SessionArrives, PlaygroundTypeOK, Answers
  <2>4. PlaygroundTypeOK'
    BY <1>0, <1>3, <2>1, <2>2, <2>3
       DEF SessionArrives, PlaygroundTypeOK, MediaStates, LoopStates, Phases, server
  <2>5. ShownInv'
    BY <1>0, <1>3, <2>1, <2>2 DEF SessionArrives, PageInv, ShownInv
  <2> QED
    BY <2>1, <2>2, <2>4, <2>5 DEF PageInv, OpenIsMounted, Opened
<1>4. ASSUME NEW k \in Sessions, RequestFails(k) PROVE PageInv'
  <2>1. answer' \in [Sessions -> Answers]
    BY <1>0, <1>4 DEF RequestFails, PlaygroundTypeOK, Answers
  <2>2. /\ SetPhase("over", media) /\ UNCHANGED <<bootstrap, turns, since, server>>
        /\ ending' \subseteq Sessions
    BY <1>0, <1>4 DEF RequestFails, PlaygroundTypeOK
  <2>3. "over" \in Phases
    BY DEF Phases
  <2> QED
    BY <1>0, <2>1, <2>2, <2>3, SetPhaseKeeps
<1> QED
  BY <1>1, <1>2, <1>3, <1>4

\* Every step of a media component, mounted or gone.
LEMMA MediaSteps ==
    ASSUME PageInv, NEW k \in Sessions, Media(k)
    PROVE  PageInv'
<1>0. /\ PlaygroundTypeOK /\ media \in [Sessions -> MediaStates] /\ k # 0
      /\ media[k] \in MediaStates
      /\ \A j \in Sessions : media[j] \in Opened => j = mounted
      /\ answer \in [Sessions -> Answers] /\ phase \in Phases
      /\ ending \subseteq Sessions
  BY PlaygroundAssumption
     DEF PageInv, PlaygroundTypeOK, MediaStates, OpenIsMounted, Opened
<1>1. ASSUME NEW p \in Phases, SetPhase(p, media),
             UNCHANGED <<bootstrap, ending, turns, since, answer, server>>
      PROVE  PageInv'
  BY <1>0, <1>1, SetPhaseKeeps
<1>2. ASSUME NEW p \in Phases, NEW x \in MediaStates, x \in Opened => k = mounted,
             SetPhase(p, [media EXCEPT ![k] = x]),
             UNCHANGED <<bootstrap, turns, since, answer, server>>,
             ending' \subseteq Sessions
      PROVE  PageInv'
  BY <1>0, <1>2, MediaMove, SetPhaseKeeps
<1>3. ASSUME NEW x \in MediaStates, x \in Opened => k = mounted,
             media' = [media EXCEPT ![k] = x],
             ending' \subseteq Sessions,
             UNCHANGED <<bootstrap, phase, webSession, mounted, turns, since,
                         answer, loops, snapshot, server>>
      PROVE  PageInv'
  <2>1. /\ media' \in [Sessions -> MediaStates]
        /\ \A j \in Sessions : media'[j] \in Opened => j = mounted
    BY <1>3, MediaMove
  <2>2. PlaygroundTypeOK'
    BY <1>0, <1>3, <2>1 DEF PlaygroundTypeOK, MediaStates, server
  <2>3. PollInv'
    BY <1>3, PollUntouched DEF PageInv, server
  <2>4. ShownInv'
    BY <1>3 DEF PageInv, ShownInv
  <2> QED
    BY <1>3, <2>1, <2>2, <2>3, <2>4 DEF PageInv, OpenIsMounted, Opened
<1> DEFINE Sound == /\ \A p \in {"live", "over"} : p \in Phases
                    /\ Opened \subseteq MediaStates
                    /\ \A x \in {"left", "orphaned"} : x \in MediaStates /\ x \notin Opened
                    /\ {"joining", "starting", "failed", "ready"} \subseteq Opened
<1>s. Sound
  BY DEF Phases, MediaStates, Opened
<1> HIDE DEF Sound
<1>4. CASE ExchangeAnswered(k)
  <2>1. media[k] \in Opened
    BY <1>4 DEF ExchangeAnswered, Opened
  <2> QED
    BY <1>0, <1>2, <1>4, <1>s, <2>1 DEF ExchangeAnswered, Sound
<1>5. CASE Connected(k)
  BY <1>0, <1>2, <1>5, <1>s DEF Connected, Sound
<1>6. CASE AgentReady(k)
  BY <1>0, <1>2, <1>6, <1>s DEF AgentReady, Sound
<1>7. CASE ConnectFails(k)
  BY <1>0, <1>2, <1>7, <1>s DEF ConnectFails, Sound
<1>8. CASE RoomReports(k)
  BY <1>1, <1>8, <1>s DEF RoomReports, Sound
<1>9. CASE PipecatReports(k)
  BY <1>1, <1>9, <1>s DEF PipecatReports, Sound
<1>10. CASE Dropped(k)
  BY <1>1, <1>10, <1>s DEF Dropped, Sound
<1>11. CASE CloseCompletes(k)
  BY <1>0, <1>2, <1>11, <1>s DEF CloseCompletes, Sound
<1>12. CASE AbandonedConnectReturns(k) \/ AbortedExchangeReturns(k) \/ PublicationTimesOut(k)
  <2>1. CASE AbandonedConnectReturns(k)
    BY <1>0, <1>2, <1>s, <2>1 DEF AbandonedConnectReturns, Sound
  <2>2. CASE AbortedExchangeReturns(k) \/ PublicationTimesOut(k)
    BY <1>0, <1>3, <1>s, <2>2 DEF AbortedExchangeReturns, PublicationTimesOut, Sound
  <2> QED
    BY <1>12, <2>1, <2>2
<1>13. CASE TurnArrives(k)
  <2>0. webSession \in Sessions \cup {0}
    BY <1>0 DEF PlaygroundTypeOK
  <2>1. /\ webSession' = webSession /\ phase' = phase /\ mounted' \in {0, webSession}
        /\ media' \in [Sessions -> MediaStates]
        /\ \A j \in Sessions : media'[j] \in Opened => j = mounted'
    BY <1>0, <1>13, <2>0, RenderKeeps DEF TurnArrives, SetPhase
  <2>2. loops' = loops /\ snapshot' = snapshot /\ turns' = turns \cup {k}
    BY <1>13 DEF TurnArrives, SetPhase, PollEffect
  <2>3. /\ expired' = expired /\ serving' = serving /\ restarts' = restarts
        /\ token' = token /\ call' = call /\ bootstrap' = bootstrap /\ since' = since
        /\ ending' = ending /\ answer' = answer
    BY <1>13 DEF TurnArrives, server
  <2>4. PollInv'
    BY <2>1, <2>2, <2>3, PollUntouched DEF PageInv
  <2>5. ShownInv'
    <3>1. k = mounted \/ bootstrap = "pipecat"
      BY <1>13 DEF TurnArrives
    <3>2. bootstrap = "pipecat" => bootstrap \in Runtimes
      BY <1>0 DEF PlaygroundTypeOK
    <3>3. CASE bootstrap = "pipecat"
      BY <2>1, <2>2, <2>3, <3>2, <3>3 DEF PageInv, ShownInv
    <3>4. CASE k = mounted
      BY <1>0, <2>1, <2>2, <2>3, <3>4 DEF PageInv, ShownInv
    <3> QED
      BY <3>1, <3>3, <3>4
  <2>6. OpenIsMounted'
    BY <2>1 DEF OpenIsMounted, Opened
  <2>7. PlaygroundTypeOK'
    BY <1>0, <2>0, <2>1, <2>2, <2>3 DEF PlaygroundTypeOK, MediaStates
  <2> QED
    BY <2>4, <2>5, <2>6, <2>7 DEF PageInv
<1>14. CASE ClickEnd(k)
  <2>1. /\ UNCHANGED <<bootstrap, phase, webSession, mounted, media, turns, since,
                       answer, loops, snapshot, server>>
        /\ ending' \subseteq Sessions
    BY <1>0, <1>14 DEF ClickEnd
  <2>2. media' = [media EXCEPT ![k] = media[k]]
    BY <1>0, <2>1
  <2> QED
    BY <1>0, <1>3, <2>1, <2>2
<1>15. CASE EndReturns(k)
  <2>1. ending' \subseteq Sessions
    BY <1>0, <1>15 DEF EndReturns
  <2> QED
    BY <1>0, <1>15, <1>s, <2>1, SetPhaseKeeps DEF EndReturns, Sound
<1> QED
  BY <1>4, <1>5, <1>6, <1>7, <1>8, <1>9, <1>10, <1>11, <1>12, <1>13, <1>14, <1>15 DEF Media

\* Every step of the server, and its restart.
LEMMA ServerSteps ==
    ASSUME PageInv, ServerRestarts \/ \E k \in Sessions : Server(k)
    PROVE  PageInv'
<1>0. PlaygroundTypeOK
  BY DEF PageInv
<1>1. UNCHANGED <<page, loops, snapshot>> /\ expired \subseteq expired'
  BY DEF Server, ServerRestarts, IssueSession, Authorize, Bind, CancelExchange, CallOver,
         ReleaseWeb, TokenExpires
<1>2. Pruned \in [Sessions -> {"none", "issued", "reserved", "bound", "released", "gone"}]
  BY <1>0 DEF Pruned, PlaygroundTypeOK
<1>3. PlaygroundTypeOK'
  <2>1. token' \in [Sessions -> {"none", "issued", "reserved", "bound", "released", "gone"}]
    BY <1>0, <1>2 DEF Server, ServerRestarts, IssueSession, Authorize, Bind, CancelExchange,
       CallOver, ReleaseWeb, TokenExpires, PlaygroundTypeOK
  <2>2. call' \in [Sessions -> {"none", "active", "over"}] /\ expired' \subseteq Sessions
    BY <1>0 DEF Server, ServerRestarts, IssueSession, Authorize, Bind, CancelExchange,
       CallOver, ReleaseWeb, TokenExpires, PlaygroundTypeOK
  <2>3. answer' \in [Sessions -> Answers]
    BY <1>0 DEF Server, ServerRestarts, IssueSession, Authorize, Bind, CancelExchange,
       CallOver, ReleaseWeb, TokenExpires, PlaygroundTypeOK, Answers
  <2>4. serving' \in Runtimes /\ restarts' \in 0 .. MaxRestarts
    BY <1>0, PlaygroundAssumption
       DEF Server, ServerRestarts, IssueSession, Authorize, Bind, CancelExchange,
       CallOver, ReleaseWeb, TokenExpires, PlaygroundTypeOK
  <2> QED
    BY <1>0, <1>1, <2>1, <2>2, <2>3, <2>4 DEF PlaygroundTypeOK, page
<1> QED
  BY <1>1, <1>3, PageUntouched

\* Every step of a poll loop.
LEMMA PollSteps ==
    ASSUME PageInv, NEW l \in loops, Poll(l)
    PROVE  PageInv'
<1>0. /\ PlaygroundTypeOK /\ l \in [of : Sessions, at : LoopStates]
      /\ media \in [Sessions -> MediaStates]
      /\ \A j \in Sessions : media[j] \in Opened => j = mounted
      /\ webSession \in Sessions \cup {0} /\ phase \in Phases
  BY DEF PageInv, PlaygroundTypeOK, LoopStates, MediaStates, OpenIsMounted, Opened
<1>1. l.at # "aborted" => l \in Alive /\ l.of = webSession
  BY DEF Alive, PageInv, PollInv
<1>2. ASSUME loops' \subseteq [of : Sessions, at : LoopStates], PollInv',
             UNCHANGED <<page, answer, snapshot, serving, restarts, call, expired>>,
             token' \in [Sessions -> {"none", "issued", "reserved", "bound", "released", "gone"}]
      PROVE  PageInv'
  <2>1. PlaygroundTypeOK'
    BY <1>0, <1>2 DEF PlaygroundTypeOK, LoopStates, page
  <2>2. OpenIsMounted' /\ ShownInv'
    BY <1>2 DEF PageInv, OpenIsMounted, ShownInv, page
  <2> QED
    BY <1>2, <2>1, <2>2 DEF PageInv
<1>3. CASE TimerFires(l)
  <2> DEFINE new == {[l EXCEPT !.at = "asked"]}
  <2>1. loops' \subseteq [of : Sessions, at : LoopStates] /\ PollInv'
    <3>1. \A n \in new : n.of = l.of /\ n.at = "asked" /\ n \in [of : Sessions, at : LoopStates]
      BY <1>0 DEF LoopStates
    <3>2. Replace(l, new) /\ l.at = "timer"
          /\ webSession' = webSession /\ expired' = expired /\ snapshot' = snapshot
      BY <1>3 DEF TimerFires, page, server
    <3>3. \A n, m \in new : n = m
      OBVIOUS
    <3>4. new # {}
      OBVIOUS
    <3> HIDE DEF new
    <3> QED
      BY <3>1, <3>2, <3>3, <3>4, ReplaceLoop DEF LoopStates
  <2> QED
    BY <1>0, <1>2, <1>3, <2>1 DEF TimerFires, server, PlaygroundTypeOK
<1>4. CASE PollFails(l)
  <2>1. loops' \subseteq [of : Sessions, at : LoopStates] /\ PollInv'
    <3>1. Replace(l, Again(l)) /\ l.at # "aborted"
          /\ webSession' = webSession /\ expired' = expired /\ snapshot' = snapshot
      BY <1>4 DEF PollFails, page, server
    <3> QED
      BY <3>1, AgainIsOne, ReplaceLoop DEF LoopStates
  <2> QED
    BY <1>0, <1>2, <1>4, <2>1 DEF PollFails, server, PlaygroundTypeOK
<1>5. CASE ServeSnapshot(l)
  <2>1. PICK seen \in {"failed", "over", "active"} :
          Replace(l, IF l.at = "aborted" THEN {} ELSE {[l EXCEPT !.at = seen]})
    <3>1. CASE token[l.of] = "gone"
      BY <1>5, <3>1 DEF ServeSnapshot
    <3>2. CASE token[l.of] # "gone" /\ call[l.of] = "over"
      BY <1>5, <3>2 DEF ServeSnapshot
    <3>3. CASE token[l.of] # "gone" /\ call[l.of] # "over"
      BY <1>5, <3>3 DEF ServeSnapshot
    <3> QED
      BY <3>1, <3>2, <3>3
  <2>2. /\ UNCHANGED <<page, answer, snapshot, serving, restarts, call, expired>>
        /\ token' \in [Sessions -> {"none", "issued", "reserved", "bound", "released", "gone"}]
    BY <1>0, <1>5 DEF ServeSnapshot, PlaygroundTypeOK
  <2>3. loops' \subseteq [of : Sessions, at : LoopStates] /\ PollInv'
    <3> DEFINE new == IF l.at = "aborted" THEN {} ELSE {[l EXCEPT !.at = seen]}
    <3>1. \A n \in new : /\ n.of = l.of /\ n.at \in LoopStates /\ n.at # "aborted"
                         /\ n \in [of : Sessions, at : LoopStates]
      BY <1>0, <2>1 DEF LoopStates
    <3>2. Replace(l, new) /\ webSession' = webSession /\ expired' = expired
          /\ snapshot' = snapshot
      BY <2>1, <2>2 DEF page
    <3>3. (\A n, m \in new : n = m) /\ (l.at = "aborted" <=> new = {})
      OBVIOUS
    <3> HIDE DEF new
    <3> QED
      BY <3>1, <3>2, <3>3, ReplaceLoop
  <2> QED
    BY <1>2, <2>2, <2>3
<1>6. CASE PollAnswers(l)
  <2>1. /\ l \in Alive /\ l.of = webSession /\ l.at # "aborted"
        /\ snapshot' = [of |-> l.of, over |-> l.at = "over"]
        /\ UNCHANGED <<bootstrap, ending, turns, since, answer>> /\ expired' = expired
        /\ serving' = serving /\ restarts' = restarts /\ token' = token /\ call' = call
    BY <1>1, <1>6 DEF PollAnswers, server
  <2>2. /\ webSession' = webSession /\ phase' = phase /\ mounted' \in {0, webSession}
        /\ media' \in [Sessions -> MediaStates]
        /\ \A j \in Sessions : media'[j] \in Opened => j = mounted'
    BY <1>0, <1>6, RenderKeeps DEF PollAnswers
  <2>3. loops' \subseteq [of : Sessions, at : LoopStates] /\ PollInv'
    <3>1. CASE l.at = "over"
      <4>1. Replace(l, {}) /\ snapshot'.of = l.of
        BY <1>6, <2>1, <3>1 DEF PollAnswers
      <4>2. snapshot'.over
        BY <2>1, <3>1
      <4> QED
        BY <2>1, <2>2, <4>1, <4>2, ReplaceLoop
    <3>2. CASE l.at # "over"
      <4>1. Replace(l, Again(l)) /\ snapshot'.of = l.of
        BY <1>6, <2>1, <3>2 DEF PollAnswers
      <4> QED
        BY <2>1, <2>2, <4>1, AgainIsOne, ReplaceLoop DEF LoopStates
    <3> QED
      BY <3>1, <3>2
  <2>4. ShownInv'
    BY <2>1, <2>2 DEF PageInv, ShownInv
  <2>5. OpenIsMounted'
    BY <2>2 DEF OpenIsMounted, Opened
  <2>6. snapshot' \in PageSnapshots
    BY <1>0, <2>1 DEF PageSnapshots
  <2>7. PlaygroundTypeOK'
    BY <1>0, <2>1, <2>2, <2>3, <2>6 DEF PlaygroundTypeOK, MediaStates, LoopStates
  <2> QED
    BY <2>3, <2>4, <2>5, <2>7 DEF PageInv
<1> QED
  BY <1>3, <1>4, <1>5, <1>6 DEF Poll

LEMMA AlwaysPageInv == PageSpec => []PageInv
<1>1. PageInv /\ [PageNext]_pageVars => PageInv'
  <2> SUFFICES ASSUME PageInv, [PageNext]_pageVars PROVE PageInv'
    OBVIOUS
  <2>1. CASE UNCHANGED pageVars
    <3>1. PlaygroundTypeOK'
      BY <2>1 DEF PageInv, PlaygroundTypeOK, pageVars, page, server
    <3> QED
      BY <2>1, <3>1, PageUntouched DEF pageVars, server
  <2>2. CASE PageNext
    BY <2>2, AppSteps, MediaSteps, ServerSteps, PollSteps DEF PageNext
  <2> QED
    BY <2>1, <2>2
<1> QED
  BY <1>1, InitPageInv, PTL DEF PageSpec

-----------------------------------------------------------------------------
(* What follows from it *)

\* The page, the loops and the server's tables keep their shape.
THEOREM PlaygroundTypeCorrect == PageSpec => []PlaygroundTypeOK
<1>1. PageInv => PlaygroundTypeOK
  BY DEF PageInv
<1> QED
  BY <1>1, AlwaysPageInv, PTL

\* A LiveKit room is the mounted component's or is left, for any number of sessions.
THEOREM NoRoomIsOrphaned == PageSpec => []NoOrphanRoom
<1>1. PageInv => NoOrphanRoom
  BY DEF PageInv, OpenIsMounted, NoOrphanRoom
<1> QED
  BY <1>1, AlwaysPageInv, PTL

\* The page polls its session, with one loop, until it is over or expired.
THEOREM PollAlwaysFollows == PageSpec => []PollFollowsSession
<1>1. PageInv => PollFollowsSession
  <2> SUFFICES ASSUME PageInv PROVE PollFollowsSession
    OBVIOUS
  <2>1. Cardinality(Alive) <= 1
    <3>1. CASE Alive = {}
      BY <3>1, FS_EmptySet
    <3>2. CASE Alive # {}
      <4>1. PICK l \in Alive : TRUE
        BY <3>2
      <4>2. Alive = {l}
        BY <4>1 DEF PageInv, PollInv
      <4> QED
        BY <4>2, FS_Singleton
    <3> QED
      BY <3>1, <3>2
  <2> QED
    BY <2>1 DEF PageInv, PollInv, PollFollowsSession
<1> QED
  BY <1>1, AlwaysPageInv, PTL

\* With LiveKit the transcript on the page was said since the last click.
THEOREM TranscriptIsOfTheRun == PageSpec => []TranscriptIsOfThisRun
<1>1. PageInv => TranscriptIsOfThisRun
  BY DEF PageInv, ShownInv, TranscriptIsOfThisRun, ShownTurns
<1> QED
  BY <1>1, AlwaysPageInv, PTL

\* A snapshot that comes in is of the session the page has when it is shown.
SnapshotFits == snapshot' # snapshot => snapshot'.of \in {0, webSession'}

LEMMA NextSnapshotFits ==
    ASSUME PageInv, [PageNext]_pageVars
    PROVE  SnapshotFits
<1>1. CASE snapshot' = snapshot
  BY <1>1 DEF SnapshotFits
<1>2. ASSUME NEW s, PollEffect(s) PROVE SnapshotFits
  BY <1>2 DEF PollEffect, NoSnapshot, SnapshotFits
<1>3. ASSUME NEW l \in loops, PollAnswers(l) PROVE SnapshotFits
  <2>1. l \in Alive
    BY <1>3 DEF PollAnswers, Alive
  <2>2. l.of = webSession /\ webSession' = webSession /\ snapshot'.of = l.of
    BY <1>3, <2>1 DEF PollAnswers, Render, PageInv, PollInv
  <2> QED
    BY <2>2 DEF SnapshotFits
<1>4. ASSUME NEW l \in loops, Poll(l) PROVE SnapshotFits
  BY <1>1, <1>3, <1>4 DEF Poll, TimerFires, PollFails, ServeSnapshot
<1>5. ASSUME NEW k \in Sessions, Media(k) PROVE SnapshotFits
  BY <1>1, <1>2, <1>5
     DEF Media, ExchangeAnswered, AbortedExchangeReturns, Connected, AgentReady,
         ConnectFails, RoomReports, Dropped, PipecatReports, CloseCompletes,
         AbandonedConnectReturns, PublicationTimesOut, TurnArrives, ClickEnd,
         EndReturns, SetPhase
<1>6. ASSUME NEW k \in Sessions, Server(k) PROVE SnapshotFits
  BY <1>1, <1>6 DEF Server, IssueSession, Authorize, Bind, CancelExchange, CallOver,
                    ReleaseWeb, TokenExpires
<1>7. ASSUME NEW k \in Sessions, Begin(k) \/ SessionArrives(k) \/ RequestFails(k)
      PROVE  SnapshotFits
  BY <1>2, <1>7 DEF Begin, SessionArrives, RequestFails, SetPhase
<1>8. CASE BootstrapArrives \/ ServerRestarts \/ UNCHANGED pageVars
  BY <1>1, <1>8 DEF BootstrapArrives, ServerRestarts, pageVars
<1> QED
  BY <1>4, <1>5, <1>6, <1>7, <1>8 DEF PageNext

\* An answer that was on its way when the session changed is never shown.
THEOREM SnapshotsStayCurrent == PageSpec => SnapshotsAreOfTheSession
<1>1. PageInv /\ [PageNext]_pageVars => [SnapshotFits]_pageVars
  BY NextSnapshotFits
<1>2. PageSpec => [][SnapshotFits]_pageVars
  BY <1>1, AlwaysPageInv, PTL DEF PageSpec
<1> QED
  BY <1>2 DEF SnapshotsAreOfTheSession, SnapshotFits

-----------------------------------------------------------------------------
(* The specification of run `live` *)

\* The run exercises one of the four parts at a time: each moves as its own specification
\* says or not at all, so what is proved of a part holds in the run.
THEOREM LiveImplementsItsParts ==
    LiveSpec => RoutesSpec /\ OutboundSpec /\ WarmSpec /\ PageSpec
<1>1. LiveInit => RoutesInit /\ OutboundInit /\ WarmInit /\ PageInit
  BY DEF LiveInit, TelephonyInit
<1>2. ASSUME [LiveNext]_<<routesVars, outboundVars, warmVars, pageVars, focus>>
      PROVE  /\ [RoutesNext]_routesVars /\ [OutboundNext]_outboundVars
             /\ [WarmNext]_warmVars /\ [PageNext]_pageVars
  BY <1>2 DEF LiveNext, TelephonyNext
<1> QED
  BY <1>1, <1>2, PTL DEF LiveSpec, RoutesSpec, OutboundSpec, WarmSpec, PageSpec

\* Every route, intent, transfer and session has its shape throughout the run.
THEOREM LiveTypeCorrect == LiveSpec => []LiveTypeOK
<1>1. RoutesTypeOK /\ OutboundTypeOK /\ WarmTypeOK /\ PlaygroundTypeOK => LiveTypeOK
  BY DEF LiveTypeOK, TelephonyTypeOK
<1> QED
  BY <1>1, LiveImplementsItsParts, RoutesTypeCorrect, OutboundTypeCorrect, WarmTypeCorrect,
     PlaygroundTypeCorrect, PTL

=============================================================================
