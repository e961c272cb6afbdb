------------------------------- MODULE MCLiveness -------------------------------
(* The liveness of the workers and of the host (MCDurable) and of the browser    *)
(* playground, which shares no state with them.                                  *)
EXTENDS MCDurable, Playground

LivenessInit ==
    /\ DurableInit /\ PageInit
    /\ focus # "page" => serving = CHOOSE r \in Runtimes : TRUE

LivenessNext ==
    \/ DurableNext /\ UNCHANGED pageVars
    \/ focus = "page" /\ PageNext /\ UNCHANGED durableVars

\* PageFairness, in the behaviours that exercise the page.
LivenessSpec ==
    /\ LivenessInit /\ [][LivenessNext]_<<durableVars, pageVars>>
    /\ DurableFairness
    /\ \A k \in Sessions :
         /\ WF_pageVars(focus = "page" /\ RequestGoesOn(k))
         /\ WF_pageVars(focus = "page" /\ CallGoesBy(k))
         /\ WF_pageVars(focus = "page" /\ PollOf(k, TimerFires))
         /\ SF_pageVars(focus = "page" /\ PollOf(k, ServeSnapshot))
         /\ SF_pageVars(focus = "page" /\ PollOf(k, PollAnswers))
=================================================================================
