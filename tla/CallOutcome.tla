----------------------------- MODULE CallOutcome -----------------------------
(***************************************************************************)
(* What the results repository promises about one call, without leases,    *)
(* recordings, provider states, clocks or outbox rows: a call is opened    *)
(* once, passes from owner to owner, collects a draft result, is closed    *)
(* exactly once, and publishes the draft as it stood at that moment; later *)
(* at most one recording announcement repeats the same verdict.            *)
(***************************************************************************)
EXTENDS Naturals

CONSTANTS Calls, EventIds, Drafts, Reasons, NoDraft

VARIABLES
    phase,      \* per call: "unseen", "open" or "closed"
    epoch,      \* per call: how many owners it has had
    draft,      \* per call: the result collected so far
    published   \* the announcements: [id, call, kind, reason, result]

outcomeVars == <<phase, epoch, draft, published>>

KindFor(c, kind) == {p \in published : p.call = c /\ p.kind = kind}

FreshAnnouncement(i) == \A p \in published : p.id # i

Open(c) ==
    /\ phase[c] = "unseen"
    /\ phase' = [phase EXCEPT ![c] = "open"]
    /\ epoch' = [epoch EXCEPT ![c] = 1]
    /\ UNCHANGED <<draft, published>>

ChangeOwner(c) ==
    /\ phase[c] = "open"
    /\ epoch' = [epoch EXCEPT ![c] = @ + 1]
    /\ UNCHANGED <<phase, draft, published>>

Collect(c, result) ==
    /\ phase[c] = "open"
    /\ draft' = [draft EXCEPT ![c] = result]
    /\ UNCHANGED <<phase, epoch, published>>

Close(c, reason, i) ==
    /\ phase[c] = "open"
    /\ KindFor(c, "outcome") = {}
    /\ FreshAnnouncement(i)
    /\ phase' = [phase EXCEPT ![c] = "closed"]
    /\ published' = published \cup
         {[id |-> i, call |-> c, kind |-> "outcome", reason |-> reason, result |-> draft[c]]}
    /\ UNCHANGED <<epoch, draft>>

AnnounceRecording(c, i) ==
    /\ phase[c] = "closed"
    /\ KindFor(c, "recording") = {}
    /\ FreshAnnouncement(i)
    /\ \E p \in KindFor(c, "outcome") :
         published' = published \cup
           {[id |-> i, call |-> c, kind |-> "recording",
             reason |-> p.reason, result |-> p.result]}
    /\ UNCHANGED <<phase, epoch, draft>>

Init ==
    /\ phase = [c \in Calls |-> "unseen"]
    /\ epoch = [c \in Calls |-> 0]
    /\ draft = [c \in Calls |-> NoDraft]
    /\ published = {}

Next ==
    \/ \E c \in Calls : Open(c) \/ ChangeOwner(c)
    \/ \E c \in Calls, result \in Drafts : Collect(c, result)
    \/ \E c \in Calls, reason \in Reasons, i \in EventIds : Close(c, reason, i)
    \/ \E c \in Calls, i \in EventIds : AnnounceRecording(c, i)

Spec == Init /\ [][Next]_outcomeVars

=============================================================================
