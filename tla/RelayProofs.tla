----------------------------- MODULE RelayProofs -----------------------------
(***************************************************************************)
(* Proofs about the relay: that the stream of a call has no gap, that an   *)
(* observation is stored once, that what a task was told is acknowledged   *)
(* is in the repository, that a client stays in step with the journal, and *)
(* that the service writes through the repository's methods only; for any  *)
(* clients, commands, retries, duplicates, crashes and drains.             *)
(***************************************************************************)
EXTENDS Relay, OutboxProofs, FiniteSetTheorems

-----------------------------------------------------------------------------
(* Types *)

UpdateOps == {"renew", "observe", "flush", "terminalize"}

Payloads == {k.data : k \in Commands}

Requests ==
    [by : Clients, call : Calls, op : UpdateOps \cup {"begin", "claim"}, data : Payloads,
     at : Nat, seq : Nat, lease : Lease \cup {NoLease}]

Answers == [lease : Lease, next : Nat]

StreamRow ==
    [lease : Lease \cup {NoLease}, next : Nat, pending : Requests \cup {NoRequest},
     holder : Commands \cup {NoCommand}, sending : Requests \cup {NoRequest}, tries : Nat,
     awaited : Nat]

Handlers ==
    [request : Requests, n : Nat \ {0},
     phase : {"arrived", "fenced", "reserved", "granted", "applied"},
     answer : Answers \cup {NoAnswer}]

JournalRow == [request : Requests, answered : BOOLEAN]

RelayTypeOK ==
    /\ cmd \in [Commands -> {"idle", "waiting", "holding", "acknowledged", "failed", "cancelled"}]
    /\ stream \in [Streams -> StreamRow]
    /\ handlers \subseteq Handlers /\ IsFiniteSet(handlers)
    /\ journal \in [Calls -> Seq(JournalRow)]
    /\ cursor \in [Calls -> Nat]
    /\ leaseAnswers \in [Streams -> Answers \cup {NoAnswer}]
    /\ appended \subseteq [by : Clients, call : Calls, seq : Nat, data : Payloads]
    /\ IsFiniteSet(appended)
    /\ accepting \in BOOLEAN /\ mishaps \in Nat

-----------------------------------------------------------------------------
(* The inductive invariant *)

\* r is a request that the call k made.
Made(r, k) == r.by = k.by /\ r.call = k.call /\ r.op = k.op /\ r.data = k.data

\* A pending or an arrived update is one of its client's calls, under its lease.
UpdateOf(r, s) ==
    /\ r.op \in UpdateOps /\ Sent(r) = s
    /\ r.lease = stream[s].lease /\ r.lease # NoLease
    /\ r.seq \in Nat \ {0}

\* The lock has one holder, whose request is being sent; a call that has begun was ready
\* to; a client has a lease once its one request for it was acknowledged.
CommandInv ==
    \A k \in Commands :
       /\ cmd[k] = "holding" <=> stream[StreamOf(k)].holder = k
       /\ cmd[k] # "idle" => Ready(k)
       /\ IsLeaseRequest(k) =>
            (cmd[k] = "acknowledged" <=> stream[StreamOf(k)].lease # NoLease)
       /\ ~IsLeaseRequest(k) /\ cmd[k] # "idle" => stream[StreamOf(k)].lease # NoLease

LockInv ==
    \A s \in Streams :
       LET st == stream[s]
       IN  /\ st.holder = NoCommand => st.awaited = 0
           /\ st.holder # NoCommand =>
                /\ StreamOf(st.holder) = s /\ st.sending # NoRequest
                /\ IsLeaseRequest(st.sending) => Made(st.sending, st.holder)
                /\ ~IsLeaseRequest(st.sending) => st.sending = st.pending

\* What is pending is the next update of the stream, of a call that was not answered.
PendingInv ==
    \A s \in Streams :
       LET st == stream[s]
       IN  /\ st.lease # NoLease =>
                st.lease \in leases /\ st.lease.owner = s[1] /\ st.lease.call = s[2] /\ st.next > 0
           /\ st.pending # NoRequest =>
                /\ UpdateOf(st.pending, s) /\ st.pending.seq = st.next
                /\ \E k \in Commands : Made(st.pending, k) /\ cmd[k] \notin {"idle", "acknowledged"}

\* The attempt that a client waits for carries what it is sending.
NonceInv ==
    \A h \in handlers :
       LET s == Sent(h.request)
       IN  h.n = stream[s].awaited => h.request = stream[s].sending

\* An update inside the service is the pending one of its stream or one already answered.
ArrivedInv ==
    \A h \in handlers : ~IsLeaseRequest(h.request) =>
       LET s == Sent(h.request)
       IN  /\ UpdateOf(h.request, s)
           /\ h.phase # "granted"
           /\ \E k \in Commands : Made(h.request, k)
           /\ \/ h.request = stream[s].pending
              \/ h.request.seq < stream[s].next /\ h.request.seq <= cursor[s[2]]

\* What an update did to the repository.
Done(r) ==
    /\ r.op = "observe" => OperationId(r) \in appended
    /\ r.op = "flush" => calls[r.call].result # NoResult /\ calls[r.call].result.data = r.data
    /\ r.op = "terminalize" => Terminal(r.call) /\ calls[r.call].reason = r.data

\* The rows are the sequence of the updates taken up; answered means done.
JournalInv ==
    /\ StreamIsGapFree
    /\ \A c \in Calls : \A n \in DOMAIN journal[c] :
         LET r == journal[c][n].request
         IN  /\ r.call = c /\ r.op \in UpdateOps
             /\ \E k \in Commands : Made(r, k)
             /\ journal[c][n].answered => Done(r)
    /\ \A h \in handlers : ~IsLeaseRequest(h.request) /\ h.phase \in {"reserved", "applied"} =>
         LET r == h.request
         IN  /\ r.seq \in DOMAIN journal[r.call] /\ journal[r.call][r.seq].request = r
             /\ h.phase = "applied" => Done(r)

\* The updates that are pending, inside the service or in the journal.
Known ==
    {stream[s].pending : s \in Streams} \cup {h.request : h \in handlers}
    \cup UNION {{journal[c][n].request : n \in DOMAIN journal[c]} : c \in Calls}

\* The request of an observation has been made.
Issued(k) ==
    \/ cmd[k] \in {"acknowledged", "failed", "cancelled"}
    \/ cmd[k] = "holding" /\ SameOperation(k, stream[StreamOf(k)].sending)

\* An observation has one request, made once; what is appended is a row of the journal.
ObservedInv ==
    /\ \A r \in Known : r.op = "observe" =>
          /\ \A k \in Commands : Made(r, k) => Issued(k)
          /\ \A q \in Known : q.op = "observe" /\ q.call = r.call /\ q.data = r.data => q = r
    /\ \A a \in appended : \E n \in DOMAIN journal[a.call] :
          LET r == journal[a.call][n].request
          IN  r.op = "observe" /\ a = OperationId(r)
    /\ \A c \in Calls : calls[c].turns = Cardinality({a \in appended : a.call = c})

\* Where the lease of a client comes from.
Granted(l, k) ==
    /\ k.by = l.owner /\ k.call = l.call
    /\ \/ k.op = "begin" /\ l.gen = 1
       \/ k.op = "claim" /\ [call |-> l.call, owner |-> k.data, gen |-> l.gen - 1] \in leases

\* Everything a client had to write is acknowledged.
Closed(s) ==
    \A k \in Commands : StreamOf(k) = s /\ ~IsLeaseRequest(k) => cmd[k] = "acknowledged"

\* A client has one lease of a call, by its one request; a client that handed its call
\* to another is through with it.
OwnersInv ==
    /\ \A c \in Calls : calls[c].status # "absent" => calls[c].gen > 0
    /\ \A l \in leases : l.owner \in Clients \cup {Sweeper}
    /\ \A l \in leases : l.owner \in Clients =>
          /\ \E k \in Commands : Granted(l, k)
          /\ \A m \in leases : m.call = l.call /\ m.owner = l.owner => m = l
          /\ calls[l.call].owner \in Clients \ {l.owner} => Closed(<<l.owner, l.call>>)

\* The answer a for the stream s: its lease, and where its sequence begins.
AnswerFor(a, s) ==
    a # NoAnswer /\ a.lease \in leases /\ a.lease.owner = s[1] /\ a.lease.call = s[2]

BeginsAt(a, s) ==
    a.next > 0 /\ (Holds(a.lease) /\ stream[s].lease = NoLease => a.next = cursor[s[2]] + 1)

LeaseInv ==
    /\ \A s \in Streams : leaseAnswers[s] # NoAnswer =>
          AnswerFor(leaseAnswers[s], s) /\ BeginsAt(leaseAnswers[s], s)
    /\ \A h \in handlers : IsLeaseRequest(h.request) =>
          LET s == Sent(h.request)
          IN  /\ h.phase # "fenced"
              /\ \E k \in Commands : Made(h.request, k) /\ cmd[k] # "idle"
              /\ h.phase \in {"granted", "applied"} => AnswerFor(h.answer, s)
              /\ h.phase = "applied" => BeginsAt(h.answer, s)

\* Whose words the result and the end of a call are.
EndInv ==
    \A c \in Calls :
       /\ calls[c].result # NoResult => \E k \in Commands :
            /\ k.op = "flush" /\ k.call = c /\ calls[c].result.data = k.data
            /\ calls[c].owner \in {k.by, Sweeper}
       /\ Terminal(c) => \E k \in Commands :
            /\ k.op = "terminalize" /\ k.call = c /\ calls[c].reason = k.data
            /\ calls[c].owner = k.by

\* Requests are of the past, the pending one is its stream's newest, and the lease
\* reaches no further than the newest would.
AgeInv ==
    /\ \A h \in handlers : h.request.at <= now
    /\ \A c \in Calls : calls[c].expires <= Later(now, LeaseTTL)
    /\ \A s \in Streams :
         /\ stream[s].sending # NoRequest => stream[s].sending.at <= now
         /\ stream[s].pending # NoRequest =>
              /\ stream[s].pending.at <= now
              /\ \A h \in handlers :
                   ~IsLeaseRequest(h.request) /\ Sent(h.request) = s =>
                     h.request.at <= stream[s].pending.at
              /\ Holds(stream[s].lease) =>
                   calls[s[2]].expires <= Later(stream[s].pending.at, LeaseTTL)

RelayInv ==
    /\ FenceInv /\ BlankInv /\ RelayTypeOK
    /\ CommandInv /\ LockInv /\ PendingInv /\ NonceInv /\ ArrivedInv /\ JournalInv
    /\ ObservedInv /\ OwnersInv /\ LeaseInv /\ EndInv /\ AgeInv
    /\ AcknowledgedIsDurable /\ ClientInStepWithJournal

-----------------------------------------------------------------------------
(* What a step does to one stream, one handler and one journal *)

Of(s) == {k \in Commands : StreamOf(k) = s}

Kept(s) == \A j \in Of(s) : cmd'[j] = cmd[j]

Only(s, k, state) ==
    /\ k \in Of(s) /\ cmd'[k] = state
    /\ \A j \in Of(s) : j # k => cmd'[j] = cmd[j]

Becomes(s, lease, next, pending, holder, sending, awaited) ==
    /\ stream'[s].lease = lease /\ stream'[s].next = next /\ stream'[s].pending = pending
    /\ stream'[s].holder = holder /\ stream'[s].sending = sending
    /\ stream'[s].awaited = awaited

Rests(s) == stream'[s] = stream[s] /\ Kept(s)

Enters(s) ==
    /\ stream'[s] = stream[s]
    /\ \E k \in Of(s) :
         /\ cmd[k] \in {"idle", "failed"} /\ Ready(k)
         /\ cmd[k] = "failed" => k.op \in {"flush", "terminalize"}
         /\ IsLeaseRequest(k) \/ stream[s].lease # NoLease
         /\ Only(s, k, "waiting")

Leaves(s) ==
    /\ stream'[s] = stream[s]
    /\ \E k \in Of(s) :
         cmd[k] = "waiting" /\ k.op \in {"renew", "observe"} /\ Only(s, k, "cancelled")

First(s, k) == IF stream[s].pending = NoRequest THEN Request(k) ELSE stream[s].pending

Takes(s) ==
    \E k \in Of(s) :
       /\ cmd[k] = "waiting" /\ stream[s].holder = NoCommand
       /\ Only(s, k, "holding")
       /\ Becomes(s, stream[s].lease, stream[s].next,
                  IF IsLeaseRequest(First(s, k)) THEN NoRequest ELSE First(s, k),
                  k, First(s, k), stream[s].awaited)

Sends(s) ==
    /\ stream[s].holder # NoCommand /\ stream[s].awaited = 0
    /\ Kept(s)
    /\ \E n \in Nat \ {0} :
         /\ \A h \in handlers : h.n # n
         /\ Becomes(s, stream[s].lease, stream[s].next, stream[s].pending, stream[s].holder,
                    stream[s].sending, n)

Retries(s) ==
    /\ stream[s].holder # NoCommand
    /\ Kept(s)
    /\ Becomes(s, stream[s].lease, stream[s].next, stream[s].pending, stream[s].holder,
               stream[s].sending, 0)

GivesUp(s) ==
    /\ stream[s].holder # NoCommand
    /\ \E state \in {"failed", "cancelled"} : Only(s, stream[s].holder, state)
    /\ Becomes(s, stream[s].lease, stream[s].next, stream[s].pending, NoCommand, NoRequest, 0)

GetsLease(s) ==
    /\ stream[s].holder # NoCommand /\ IsLeaseRequest(stream[s].sending)
    /\ Only(s, stream[s].holder, "acknowledged")
    /\ UNCHANGED <<storeVars, appended>> /\ cursor' = cursor
    /\ \E a \in Answers :
         /\ AnswerFor(a, s) /\ BeginsAt(a, s)
         /\ Becomes(s, a.lease, a.next, stream[s].pending, NoCommand, NoRequest, 0)

\* The answer to what the stream was sending.
IsAnswered(s) ==
    /\ stream[s].holder # NoCommand /\ ~IsLeaseRequest(stream[s].sending)
    /\ UNCHANGED <<storeVars, appended>>
    /\ Done(stream[s].sending) /\ stream[s].sending.seq <= cursor'[s[2]]

GetsAnswer(s) ==
    /\ IsAnswered(s)
    /\ SameOperation(stream[s].holder, stream[s].sending)
    /\ Only(s, stream[s].holder, "acknowledged")
    /\ Becomes(s, stream[s].lease, stream[s].sending.seq + 1, NoRequest, NoCommand, NoRequest, 0)

Own(s) == [Request(stream[s].holder) EXCEPT !.seq = stream[s].sending.seq + 1]

GoesOn(s) ==
    /\ IsAnswered(s)
    /\ ~SameOperation(stream[s].holder, stream[s].sending)
    /\ Kept(s)
    /\ Becomes(s, stream[s].lease, stream[s].sending.seq + 1, Own(s), stream[s].holder, Own(s), 0)

StreamMove(s) ==
    \/ Rests(s) \/ Enters(s) \/ Leaves(s) \/ Takes(s) \/ Sends(s) \/ Retries(s) \/ GivesUp(s)
    \/ GetsLease(s) \/ GetsAnswer(s) \/ GoesOn(s)

\* From the handler h to the handler g of the same attempt.
Progress(h, g) ==
    LET r == h.request
        s == Sent(r)
    IN  /\ g.request = r /\ g.n = h.n
        /\ \/ /\ IsLeaseRequest(r)
              /\ \/ g.phase = "reserved"
                 \/ g.phase = "granted" /\ AnswerFor(g.answer, s)'
                 \/ /\ h.phase = "granted" /\ g.phase = "applied" /\ g.answer # NoAnswer
                    /\ g.answer.lease = h.answer.lease /\ g.answer.next = cursor[r.call] + 1
                    /\ UNCHANGED <<storeVars, cursor>>
           \/ /\ ~IsLeaseRequest(r)
              /\ \/ g.phase = "fenced"
                 \/ /\ g.phase = "reserved" /\ r.seq \in DOMAIN journal'[r.call]
                    /\ journal'[r.call][r.seq].request = r
                 \/ /\ h.phase = "reserved" /\ g.phase = "applied" /\ journal' = journal
                    /\ Done(r)'

\* Where a handler comes from.
Came(g) ==
    \/ g \in handlers
    \/ \E s \in Streams :
         /\ Sends(s) /\ g.request = stream[s].sending /\ g.n = stream'[s].awaited
         /\ g.phase = "arrived"
    \/ \E h \in handlers : Progress(h, g)

\* A journal rests, takes an update up, or answers one.
JournalMove(c) ==
    \/ journal'[c] = journal[c] /\ cursor'[c] = cursor[c]
    \/ \E h \in handlers :
         LET r == h.request
         IN  /\ ~IsLeaseRequest(r) /\ r.call = c
             /\ r.seq = cursor[c] + 1 /\ r.seq > Len(journal[c])
             /\ journal'[c] = Append(journal[c], [request |-> r, answered |-> FALSE])
             /\ cursor'[c] = cursor[c]
    \/ \E h \in handlers :
         LET r == h.request
         IN  /\ ~IsLeaseRequest(r) /\ r.call = c /\ h.phase = "applied"
             /\ cursor[c] \in {r.seq - 1, r.seq} /\ cursor'[c] = r.seq
             /\ journal'[c] = [journal[c] EXCEPT ![r.seq].answered = TRUE]

AnswerMove(s) ==
    \/ leaseAnswers'[s] = leaseAnswers[s]
    \/ \E h \in handlers :
         /\ IsLeaseRequest(h.request) /\ Sent(h.request) = s /\ h.phase = "applied"
         /\ leaseAnswers'[s] = h.answer

\* What an update does to the tables.
Applies(r) ==
    \/ r.op = "renew" /\ RenewLease(r.lease, r.at) /\ UNCHANGED appended
    \/ r.op = "observe" /\ InsertObservationOnce(r)
    \/ r.op = "flush" /\ FlushResults(r.lease, r.data) /\ UNCHANGED appended
    \/ r.op = "terminalize" /\ TerminalizeOnce(r) /\ UNCHANGED appended

StoreMove ==
    \/ UNCHANGED <<storeVars, appended>>
    \/ Tick /\ UNCHANGED appended
    \/ UNCHANGED appended /\ \E c \in Calls : TakeoverExpiredCall(c, Sweeper, now)
    \/ /\ UNCHANGED appended
       /\ \E h \in handlers :
            LET r == h.request
            IN  \/ r.op = "begin" /\ BeginCall(r.call, r.by, FALSE, r.at)
                \/ r.op = "claim" /\ HandoffCall(r.call, r.data, r.by, r.at)
    \/ \E h \in handlers :
         /\ ~IsLeaseRequest(h.request) /\ h.phase = "reserved"
         /\ Applies(h.request)

Summary ==
    /\ StoreMove
    /\ \A s \in Streams : StreamMove(s) /\ AnswerMove(s)
    /\ \A g \in handlers' : Came(g)
    /\ \A c \in Calls : JournalMove(c)

-----------------------------------------------------------------------------
(* Shapes *)

LEMMA Sentinels ==
    /\ NoLease \notin Lease /\ NoRequest \notin Requests /\ NoAnswer \notin Answers
<1>1. NoLease \notin Lease
    BY DEF NoLease, Lease
<1>2. NoRequest \notin Requests
    BY DEF NoRequest, Requests
<1>3. NoAnswer \notin Answers
    BY DEF NoAnswer, Answers
<1> QED
    BY <1>1, <1>2, <1>3

LEMMA CommandFacts ==
    ASSUME NEW k \in Commands
    PROVE  /\ k # NoCommand /\ k.by \in Clients /\ k.call \in Calls /\ k.data \in Payloads
           /\ k.op \in UpdateOps \cup {"begin", "claim"}
           /\ IsLeaseRequest(k) <=> k.op \notin UpdateOps
           /\ StreamOf(k) \in Streams /\ StreamOf(k)[1] = k.by /\ StreamOf(k)[2] = k.call
BY RelayAssumption DEF Payloads, UpdateOps, IsLeaseRequest, StreamOf, Streams

LEMMA RequestFacts ==
    ASSUME NEW r \in Requests
    PROVE  /\ r.by \in Clients /\ r.call \in Calls /\ r.at \in Nat /\ r.seq \in Nat
           /\ r # NoRequest /\ r.lease \in Lease \cup {NoLease}
           /\ IsLeaseRequest(r) <=> r.op \notin UpdateOps
           /\ Sent(r) \in Streams /\ Sent(r)[1] = r.by /\ Sent(r)[2] = r.call
BY Sentinels DEF Requests, UpdateOps, IsLeaseRequest, Sent, Streams

LEMMA HandlerFacts ==
    ASSUME RelayTypeOK, NEW h \in handlers
    PROVE  /\ h \in Handlers /\ h.request \in Requests /\ h.n \in Nat \ {0}
           /\ h.phase \in {"arrived", "fenced", "reserved", "granted", "applied"}
           /\ h.answer \in Answers \cup {NoAnswer}
           /\ Sent(h.request) \in Streams /\ Sent(h.request)[2] = h.request.call
           /\ Sent(h.request)[1] = h.request.by
<1>1. h \in Handlers
    BY DEF RelayTypeOK
<1>2. h.request \in Requests
    BY <1>1 DEF Handlers
<1> QED
    BY <1>1, <1>2, RequestFacts DEF Handlers

LEMMA StreamFacts ==
    ASSUME RelayTypeOK, NEW s \in Streams
    PROVE  /\ stream[s] \in StreamRow
           /\ stream[s].lease \in Lease \cup {NoLease} /\ stream[s].next \in Nat
           /\ stream[s].pending \in Requests \cup {NoRequest}
           /\ stream[s].sending \in Requests \cup {NoRequest}
           /\ stream[s].holder \in Commands \cup {NoCommand} /\ stream[s].awaited \in Nat
           /\ s[1] \in Clients /\ s[2] \in Calls /\ s = <<s[1], s[2]>>
<1>1. stream[s] \in StreamRow
    BY DEF RelayTypeOK
<1> QED
    BY <1>1 DEF StreamRow, Streams

\* What a client makes is a request of its call.
LEMMA RequestMade ==
    ASSUME RelayTypeOK, TypeOK, NEW k \in Commands
    PROVE  /\ Request(k) \in Requests /\ Made(Request(k), k) /\ Sent(Request(k)) = StreamOf(k)
           /\ Request(k).at = now /\ Request(k).seq = stream[StreamOf(k)].next
           /\ Request(k).lease = stream[StreamOf(k)].lease
           /\ IsLeaseRequest(Request(k)) <=> IsLeaseRequest(k)
           /\ \A q \in Nat :
                LET own == [Request(k) EXCEPT !.seq = q]
                IN  /\ own \in Requests /\ Made(own, k) /\ Sent(own) = StreamOf(k)
                    /\ own.at = now /\ own.seq = q /\ own.lease = stream[StreamOf(k)].lease
                    /\ IsLeaseRequest(own) <=> IsLeaseRequest(k)
<1>1. stream[StreamOf(k)] \in StreamRow /\ now \in Nat
    BY CommandFacts DEF RelayTypeOK, TypeOK
<1>2. Request(k) \in Requests
    BY <1>1, CommandFacts DEF Request, Requests, StreamRow
<1>3. /\ Request(k).by = k.by /\ Request(k).call = k.call /\ Request(k).op = k.op
      /\ Request(k).data = k.data /\ Request(k).at = now
      /\ Request(k).seq = stream[StreamOf(k)].next
      /\ Request(k).lease = stream[StreamOf(k)].lease
    BY DEF Request
<1>4. ASSUME NEW q \in Nat
      PROVE  /\ [Request(k) EXCEPT !.seq = q] \in Requests
             /\ [Request(k) EXCEPT !.seq = q].seq = q
             /\ [Request(k) EXCEPT !.seq = q].by = k.by
             /\ [Request(k) EXCEPT !.seq = q].call = k.call
             /\ [Request(k) EXCEPT !.seq = q].op = k.op
             /\ [Request(k) EXCEPT !.seq = q].data = k.data
             /\ [Request(k) EXCEPT !.seq = q].at = now
             /\ [Request(k) EXCEPT !.seq = q].lease = stream[StreamOf(k)].lease
    BY <1>2, <1>3 DEF Requests
<1> QED
    BY <1>2, <1>3, <1>4 DEF Made, Sent, StreamOf, IsLeaseRequest

\* A nonce that no request inside the service has: there are more numbers than requests.
LEMMA NonceIsFresh ==
    ASSUME RelayTypeOK
    PROVE  FreshNonce \in Nat \ {0} /\ \A h \in handlers : h.n # FreshNonce
<1> DEFINE N == Cardinality(handlers)
           Used == {h.n : h \in handlers}
           numbers == [h \in handlers |-> h.n]
<1>1. N \in Nat /\ IsFiniteSet(handlers)
    BY FS_CardinalityType DEF RelayTypeOK
<1>2. IsFiniteSet(Used) /\ Cardinality(Used) <= N
  <2>1. numbers \in Surjection(handlers, Used)
      BY DEF Surjection
  <2> QED
      BY <1>1, <2>1, FS_Surjection
<1>3. IsFiniteSet(1 .. N + 1) /\ Cardinality(1 .. N + 1) = N + 1
    BY <1>1, FS_Interval
<1>4. ~(1 .. N + 1 \subseteq Used)
  <2>1. SUFFICES ASSUME 1 .. N + 1 \subseteq Used PROVE FALSE
      OBVIOUS
  <2>2. Cardinality(1 .. N + 1) <= Cardinality(Used)
      BY <1>2, <2>1, FS_Subset
  <2>3. Cardinality(Used) \in Nat
      BY <1>2, FS_CardinalityType
  <2> QED
      BY <1>1, <1>2, <1>3, <2>2, <2>3
<1>5. \E n \in 1 .. N + 1 : \A h \in handlers : h.n # n
    BY <1>4
<1>6. FreshNonce \in 1 .. N + 1 /\ \A h \in handlers : h.n # FreshNonce
    BY <1>5 DEF FreshNonce
<1> QED
    BY <1>1, <1>6

-----------------------------------------------------------------------------
(* Every step is such a move *)

\* Of(s) determines the client and the call.
LEMMA OneStream ==
    ASSUME NEW s \in Streams, NEW k \in Of(s)
    PROVE  k \in Commands /\ StreamOf(k) = s /\ \A u \in Streams : u # s => k \notin Of(u)
BY DEF Of

\* A change of one stream, and of one command of it, leaves the other streams alone.
LEMMA OthersRest ==
    ASSUME RelayTypeOK, NEW s \in Streams, NEW x, NEW u \in Streams, u # s,
           \/ stream' = [stream EXCEPT ![s] = x]
           \/ stream' = stream,
           \/ cmd' = cmd
           \/ \E k \in Of(s) : \E state : cmd' = [cmd EXCEPT ![k] = state]
    PROVE  Rests(u)
<1>1. stream'[u] = stream[u]
    BY DEF RelayTypeOK
<1>2. ASSUME NEW j \in Of(u) PROVE cmd'[j] = cmd[j]
    BY <1>2, OneStream DEF Of, RelayTypeOK
<1> QED
    BY <1>1, <1>2 DEF Rests, Kept

LEMMA OneChanges ==
    ASSUME RelayTypeOK, NEW s \in Streams, NEW k \in Of(s), NEW state,
           cmd' = [cmd EXCEPT ![k] = state]
    PROVE  Only(s, k, state)
BY DEF Only, Of, RelayTypeOK

\* The holder of a lock is a task of its stream.
LEMMA HolderFacts ==
    ASSUME RelayInv, NEW s \in Streams, stream[s].holder # NoCommand
    PROVE  /\ stream[s].holder \in Commands /\ stream[s].holder \in Of(s)
           /\ StreamOf(stream[s].holder) = s /\ cmd[stream[s].holder] = "holding"
           /\ stream[s].sending \in Requests /\ Sent(stream[s].sending) = s
           /\ IsLeaseRequest(stream[s].sending) => Made(stream[s].sending, stream[s].holder)
           /\ ~IsLeaseRequest(stream[s].sending) =>
                stream[s].sending = stream[s].pending /\ UpdateOf(stream[s].pending, s)
<1>1. RelayTypeOK /\ CommandInv /\ LockInv /\ PendingInv
    BY DEF RelayInv
<1>2. stream[s].holder \in Commands /\ stream[s].sending \in Requests \cup {NoRequest}
    BY <1>1, StreamFacts
<1>3. /\ StreamOf(stream[s].holder) = s /\ stream[s].sending # NoRequest
      /\ IsLeaseRequest(stream[s].sending) => Made(stream[s].sending, stream[s].holder)
      /\ ~IsLeaseRequest(stream[s].sending) => stream[s].sending = stream[s].pending
    BY <1>1 DEF LockInv
<1>4. cmd[stream[s].holder] = "holding"
    BY <1>1, <1>2, <1>3 DEF CommandInv
<1>5. ~IsLeaseRequest(stream[s].sending) => UpdateOf(stream[s].pending, s)
    BY <1>1, <1>3 DEF PendingInv
<1>6. Sent(stream[s].sending) = s
    BY <1>2, <1>3, <1>5 DEF Made, Sent, StreamOf, UpdateOf
<1> QED
    BY <1>2, <1>3, <1>4, <1>5, <1>6 DEF Of

\* The attempt that is waited for is an attempt of the holder's.
LEMMA AwaitedIsHeld ==
    ASSUME RelayInv, NEW h \in handlers, stream[Sent(h.request)].awaited = h.n
    PROVE  /\ stream[Sent(h.request)].holder # NoCommand
           /\ stream[Sent(h.request)].sending = h.request
<1>1. RelayTypeOK /\ LockInv /\ NonceInv
    BY DEF RelayInv
<1>2. h.n # 0 /\ Sent(h.request) \in Streams
    BY <1>1, HandlerFacts
<1> QED
    BY <1>1, <1>2 DEF LockInv, NonceInv

LEMMA HolderEndsMove ==
    ASSUME RelayInv, NEW s \in Streams, NEW state \in {"failed", "cancelled"},
           stream[s].holder # NoCommand, HolderEnds(s, state)
    PROVE  \A u \in Streams : StreamMove(u)
<1>1. RelayTypeOK /\ stream[s].holder \in Of(s)
    BY HolderFacts DEF RelayInv
<1>2. stream[s] \in StreamRow
    BY <1>1, StreamFacts
<1>3. stream'[s] = Released(stream[s])
    BY <1>1 DEF HolderEnds, RelayTypeOK
<1>4. Becomes(s, stream[s].lease, stream[s].next, stream[s].pending, NoCommand, NoRequest, 0)
    BY <1>2, <1>3 DEF Becomes, Released, StreamRow
<1>5. GivesUp(s)
    BY <1>1, <1>4, OneChanges DEF GivesUp, HolderEnds
<1>6. ASSUME NEW u \in Streams, u # s PROVE Rests(u)
    BY <1>1, <1>6, OthersRest DEF HolderEnds
<1> QED
    BY <1>5, <1>6 DEF StreamMove

LEMMA AttemptFailedMove ==
    ASSUME RelayInv, NEW s \in Streams, stream[s].holder # NoCommand, AttemptFailed(s)
    PROVE  \A u \in Streams : StreamMove(u)
<1>1. CASE HolderEnds(s, "failed")
    BY <1>1, HolderEndsMove
<1>2. CASE stream' = [stream EXCEPT ![s].awaited = 0] /\ cmd' = cmd
  <2>1. RelayTypeOK /\ stream[s] \in StreamRow
      BY StreamFacts DEF RelayInv
  <2>2. stream'[s] = [stream[s] EXCEPT !.awaited = 0]
      BY <1>2, <2>1 DEF RelayTypeOK
  <2>3. Retries(s)
      BY <1>2, <2>1, <2>2 DEF Retries, Becomes, Kept, StreamRow
  <2>4. stream' = [stream EXCEPT ![s] = [stream[s] EXCEPT !.awaited = 0]]
      BY <1>2
  <2>5. ASSUME NEW u \in Streams, u # s PROVE Rests(u)
      BY <1>2, <2>1, <2>4, <2>5, OthersRest
  <2> QED
      BY <2>3, <2>5 DEF StreamMove
<1> QED
    BY <1>1, <1>2 DEF AttemptFailed

\* What an answer of status 200 has behind it.
Told(h, a) ==
    LET r == h.request
    IN  \/ /\ IsLeaseRequest(r) /\ a \in Answers /\ AnswerFor(a, Sent(r)) /\ BeginsAt(a, Sent(r))
           /\ UNCHANGED <<storeVars, appended>> /\ cursor' = cursor
        \/ /\ ~IsLeaseRequest(r) /\ UNCHANGED <<storeVars, appended>>
           /\ Done(r) /\ r.seq <= cursor'[r.call]

LEMMA AcknowledgedMove ==
    ASSUME RelayInv, NEW h \in handlers, NEW a, Told(h, a),
           stream[Sent(h.request)].awaited = h.n, Acknowledged(Sent(h.request), a)
    PROVE  \A u \in Streams : StreamMove(u)
<1> DEFINE s == Sent(h.request)
           r == h.request
           k == stream[s].holder
<1>1. RelayTypeOK /\ TypeOK /\ s \in Streams
    BY HandlerFacts DEF RelayInv, FenceInv
<1>2. k # NoCommand /\ stream[s].sending = r
    BY AwaitedIsHeld
<1>3. k \in Of(s) /\ k \in Commands /\ StreamOf(k) = s /\ r \in Requests
    BY <1>1, <1>2, HolderFacts
<1>4. stream[s] \in StreamRow /\ r.seq \in Nat /\ s[2] = r.call
    BY <1>1, <1>3, StreamFacts, RequestFacts
<1> HIDE DEF s, r, k
<1>5. CASE IsLeaseRequest(r)
  <2>1. a \in Answers /\ AnswerFor(a, s) /\ BeginsAt(a, s)
        /\ UNCHANGED <<storeVars, appended>> /\ cursor' = cursor
      BY <1>5 DEF Told, r, s
  <2>2. /\ cmd' = [cmd EXCEPT ![k] = "acknowledged"]
        /\ stream' = [stream EXCEPT ![s] =
              [Released(@) EXCEPT !.lease = a.lease, !.next = a.next]]
      BY <1>2, <1>5 DEF Acknowledged, k, s, r
  <2>3. stream'[s] = [Released(stream[s]) EXCEPT !.lease = a.lease, !.next = a.next]
      BY <1>1, <2>2 DEF RelayTypeOK
  <2>4. Becomes(s, a.lease, a.next, stream[s].pending, NoCommand, NoRequest, 0)
      BY <1>4, <2>3 DEF Becomes, Released, StreamRow
  <2>5. GetsLease(s)
      BY <1>1, <1>2, <1>3, <1>5, <2>1, <2>2, <2>4, OneChanges DEF GetsLease, k
  <2>6. ASSUME NEW u \in Streams, u # s PROVE Rests(u)
      BY <1>1, <1>3, <2>2, <2>6, OthersRest
  <2> QED
      BY <2>5, <2>6 DEF StreamMove
<1>6. ASSUME ~IsLeaseRequest(r) PROVE IsAnswered(s)
  <2>1. UNCHANGED <<storeVars, appended>> /\ Done(r) /\ r.seq <= cursor'[r.call]
      BY <1>6 DEF Told, r, s
  <2> QED
      BY <1>2, <1>4, <1>6, <2>1 DEF IsAnswered, k
<1>7. CASE ~IsLeaseRequest(r) /\ SameOperation(k, r)
  <2>2. /\ cmd' = [cmd EXCEPT ![k] = "acknowledged"]
        /\ stream' = [stream EXCEPT ![s] =
              Released([stream[s] EXCEPT !.next = r.seq + 1, !.pending = NoRequest])]
      BY <1>2, <1>7 DEF Acknowledged, k, s, r
  <2>3. stream'[s] = Released([stream[s] EXCEPT !.next = r.seq + 1, !.pending = NoRequest])
      BY <1>1, <2>2 DEF RelayTypeOK
  <2>4. Becomes(s, stream[s].lease, r.seq + 1, NoRequest, NoCommand, NoRequest, 0)
      BY <1>4, <2>3 DEF Becomes, Released, StreamRow
  <2>5. GetsAnswer(s)
      BY <1>1, <1>2, <1>3, <1>6, <1>7, <2>2, <2>4, OneChanges DEF GetsAnswer, k
  <2>6. ASSUME NEW u \in Streams, u # s PROVE Rests(u)
      BY <1>1, <1>3, <2>2, <2>6, OthersRest
  <2> QED
      BY <2>5, <2>6 DEF StreamMove
<1>8. CASE ~IsLeaseRequest(r) /\ ~SameOperation(k, r)
  <2>1. Own(s) = [Request(k) EXCEPT !.seq = r.seq + 1]
      BY <1>2 DEF Own, k
  <2>2. /\ cmd' = cmd
        /\ stream' = [stream EXCEPT ![s] =
              [[stream[s] EXCEPT !.next = r.seq + 1, !.pending = NoRequest]
                 EXCEPT !.pending = Own(s), !.sending = Own(s), !.tries = 0, !.awaited = 0]]
      BY <1>2, <1>8, <2>1 DEF Acknowledged, k, s, r
  <2>3. stream'[s] = [[stream[s] EXCEPT !.next = r.seq + 1, !.pending = NoRequest]
                 EXCEPT !.pending = Own(s), !.sending = Own(s), !.tries = 0, !.awaited = 0]
      BY <1>1, <2>2 DEF RelayTypeOK
  <2>4. Becomes(s, stream[s].lease, r.seq + 1, Own(s), k, Own(s), 0)
      BY <1>4, <2>3 DEF Becomes, StreamRow, k
  <2>5. GoesOn(s)
      BY <1>1, <1>2, <1>3, <1>6, <1>8, <2>2, <2>4 DEF GoesOn, Kept, k
  <2>6. ASSUME NEW u \in Streams, u # s PROVE Rests(u)
      BY <1>1, <1>3, <2>2, <2>6, OthersRest
  <2> QED
      BY <2>5, <2>6 DEF StreamMove
<1> QED
    BY <1>5, <1>7, <1>8

LEMMA EveryoneRests ==
    ASSUME UNCHANGED clientVars
    PROVE  \A u \in Streams : StreamMove(u)
BY DEF clientVars, StreamMove, Rests, Kept

LEMMA RespondMove ==
    ASSUME RelayInv, NEW h \in handlers, NEW a,
           NEW status \in {"ok", "refused", "unavailable"}, Respond(h, status, a),
           status = "ok" => Told(h, a)
    PROVE  (\A u \in Streams : StreamMove(u)) /\ \A g \in handlers' : Came(g)
<1> DEFINE s == Sent(h.request)
<1>1. RelayTypeOK /\ s \in Streams
    BY HandlerFacts DEF RelayInv
<1>2. \A g \in handlers' : Came(g)
    BY DEF Respond, Came
<1>3. CASE stream[s].awaited # h.n
    BY <1>2, <1>3, EveryoneRests DEF Respond
<1>4. CASE stream[s].awaited = h.n
  <2>1. stream[s].holder # NoCommand
      BY <1>4, AwaitedIsHeld
  <2>2. CASE status = "ok"
      BY <1>2, <1>4, <2>2, AcknowledgedMove DEF Respond
  <2>3. CASE status = "refused"
      BY <1>1, <1>2, <1>4, <2>1, <2>3, HolderEndsMove DEF Respond
  <2>4. CASE status = "unavailable"
      BY <1>1, <1>2, <1>4, <2>1, <2>4, AttemptFailedMove DEF Respond
  <2> QED
      BY <2>2, <2>3, <2>4
<1> QED
    BY <1>3, <1>4

\* The calls of a client.
LEMMA CallMove ==
    ASSUME RelayInv, NEW k \in Commands, Call(k) PROVE Summary
<1>1. RelayTypeOK /\ k \in Of(StreamOf(k)) /\ StreamOf(k) \in Streams
    BY CommandFacts DEF RelayInv, Of
<1>2. stream' = stream /\ cmd' = [cmd EXCEPT ![k] = "waiting"] /\ handlers' = handlers
      /\ UNCHANGED <<storeVars, appended, journal, cursor, leaseAnswers>>
    BY DEF Call, journalVars
<1>3. /\ cmd[k] \in {"idle", "failed"} /\ Ready(k)
      /\ cmd[k] = "failed" => k.op \in {"flush", "terminalize"}
      /\ IsLeaseRequest(k) \/ stream[StreamOf(k)].lease # NoLease
    BY DEF Call, Recall, IsLeaseRequest
<1>4. Enters(StreamOf(k))
    BY <1>1, <1>2, <1>3, OneChanges DEF Enters
<1>5. ASSUME NEW u \in Streams, u # StreamOf(k) PROVE Rests(u)
    BY <1>1, <1>2, <1>5, OthersRest
<1>6. \A u \in Streams : StreamMove(u)
    BY <1>4, <1>5 DEF StreamMove
<1> QED
    BY <1>2, <1>6 DEF Summary, StoreMove, AnswerMove, Came, JournalMove

LEMMA AcquireMove ==
    ASSUME RelayInv, NEW k \in Commands, Acquire(k) PROVE Summary
<1> DEFINE s == StreamOf(k)
           first == First(s, k)
           kept == IF IsLeaseRequest(first) THEN NoRequest ELSE first
<1>1. RelayTypeOK /\ k \in Of(s) /\ s \in Streams /\ stream[s] \in StreamRow
    BY CommandFacts, StreamFacts DEF RelayInv, Of
<1>2. /\ stream' = [stream EXCEPT ![s].holder = k, ![s].sending = first, ![s].tries = 0,
                                  ![s].pending = kept]
      /\ cmd' = [cmd EXCEPT ![k] = "holding"] /\ handlers' = handlers
      /\ UNCHANGED <<storeVars, appended, journal, cursor, leaseAnswers>>
      /\ cmd[k] = "waiting" /\ stream[s].holder = NoCommand
    BY DEF Acquire, First, journalVars
<1> HIDE DEF s, first, kept
<1>3. stream'[s] = [stream[s] EXCEPT !.holder = k, !.sending = first, !.tries = 0, !.pending = kept]
    BY <1>1, <1>2 DEF RelayTypeOK
<1>4. Becomes(s, stream[s].lease, stream[s].next, kept, k, first, stream[s].awaited)
    BY <1>1, <1>3 DEF Becomes, StreamRow
<1>5. Takes(s)
    BY <1>1, <1>2, <1>4, OneChanges DEF Takes, first, kept
<1>6. ASSUME NEW u \in Streams, u # s PROVE Rests(u)
  <2>1. stream' = [stream EXCEPT ![s] =
          [stream[s] EXCEPT !.holder = k, !.sending = first, !.tries = 0, !.pending = kept]]
      BY <1>1, <1>2 DEF RelayTypeOK
  <2> QED
      BY <1>1, <1>2, <1>6, <2>1, OthersRest
<1>7. \A u \in Streams : StreamMove(u)
    BY <1>5, <1>6 DEF StreamMove
<1> QED
    BY <1>2, <1>7 DEF Summary, StoreMove, AnswerMove, Came, JournalMove

LEMMA SendMove ==
    ASSUME RelayInv, NEW s \in Streams, Send(s) PROVE Summary
<1> DEFINE n == FreshNonce
           new == [request |-> stream[s].sending, n |-> n, phase |-> "arrived", answer |-> NoAnswer]
<1>1. RelayTypeOK /\ stream[s] \in StreamRow
    BY StreamFacts DEF RelayInv
<1>2. n \in Nat \ {0} /\ \A h \in handlers : h.n # n
    BY <1>1, NonceIsFresh
<1>3. /\ stream' = [stream EXCEPT ![s].awaited = n, ![s].tries = @ + 1] /\ cmd' = cmd
      /\ handlers' = handlers \cup {new}
      /\ UNCHANGED <<storeVars, appended, journal, cursor, leaseAnswers>>
      /\ stream[s].holder # NoCommand /\ stream[s].awaited = 0
    BY DEF Send, journalVars
<1> HIDE DEF n
<1>4. stream'[s] = [stream[s] EXCEPT !.awaited = n, !.tries = @ + 1]
    BY <1>1, <1>3 DEF RelayTypeOK
<1>5. /\ Becomes(s, stream[s].lease, stream[s].next, stream[s].pending, stream[s].holder,
                 stream[s].sending, n)
    BY <1>1, <1>4 DEF Becomes, StreamRow
<1>6. Sends(s)
    BY <1>2, <1>3, <1>5 DEF Sends, Kept
<1>7. ASSUME NEW u \in Streams, u # s PROVE Rests(u)
  <2>1. stream' = [stream EXCEPT ![s] = [stream[s] EXCEPT !.awaited = n, !.tries = @ + 1]]
      BY <1>1, <1>3 DEF RelayTypeOK
  <2> QED
      BY <1>1, <1>3, <1>7, <2>1, OthersRest
<1>8. \A u \in Streams : StreamMove(u)
    BY <1>6, <1>7 DEF StreamMove
<1>9. ASSUME NEW g \in handlers' PROVE Came(g)
  <2>1. CASE g \in handlers
      BY <2>1 DEF Came
  <2>2. CASE g = new
      BY <1>5, <1>6, <2>2 DEF Came, Becomes
  <2> QED
      BY <1>3, <2>1, <2>2
<1> QED
    BY <1>3, <1>8, <1>9 DEF Summary, StoreMove, AnswerMove, JournalMove

LEMMA TimeOutMove ==
    ASSUME RelayInv, NEW s \in Streams, TimeOut(s) PROVE Summary
<1>1. handlers' = handlers /\ UNCHANGED <<storeVars, appended, journal, cursor, leaseAnswers>>
      /\ stream[s].awaited # 0 /\ AttemptFailed(s)
    BY DEF TimeOut, journalVars
<1>2. stream[s].holder # NoCommand
    BY <1>1 DEF RelayInv, LockInv
<1>3. \A u \in Streams : StreamMove(u)
    BY <1>1, <1>2, AttemptFailedMove
<1> QED
    BY <1>1, <1>3 DEF Summary, StoreMove, AnswerMove, Came, JournalMove

LEMMA CancelMove ==
    ASSUME RelayInv, NEW k \in Commands, Cancel(k) PROVE Summary
<1> DEFINE s == StreamOf(k)
<1>1. handlers' = handlers /\ UNCHANGED <<storeVars, appended, journal, cursor, leaseAnswers>>
    BY DEF Cancel, journalVars
<1>2. RelayTypeOK /\ k \in Of(s) /\ s \in Streams /\ CommandInv
    BY CommandFacts DEF RelayInv, Of
<1>3. CASE cmd[k] = "holding"
  <2>1. stream[s].holder = k /\ k # NoCommand
      BY <1>2, <1>3, CommandFacts DEF CommandInv
  <2>2. HolderEnds(s, "cancelled")
      BY <1>3 DEF Cancel
  <2> QED
      BY <1>1, <1>2, <2>1, <2>2, HolderEndsMove DEF Summary, StoreMove, AnswerMove, Came, JournalMove
<1>4. CASE cmd[k] # "holding"
  <2>1. stream' = stream /\ cmd' = [cmd EXCEPT ![k] = "cancelled"] /\ cmd[k] = "waiting"
        /\ k.op \in {"renew", "observe"}
      BY <1>4 DEF Cancel
  <2>2. Leaves(s)
      BY <1>2, <2>1, OneChanges DEF Leaves
  <2>3. ASSUME NEW u \in Streams, u # s PROVE Rests(u)
      BY <1>2, <2>1, <2>3, OthersRest
  <2>4. \A u \in Streams : StreamMove(u)
      BY <2>2, <2>3 DEF StreamMove
  <2> QED
      BY <1>1, <2>4 DEF Summary, StoreMove, AnswerMove, Came, JournalMove
<1> QED
    BY <1>3, <1>4

\* The steps of a handler.
LEMMA ReserveLeaseRequestMove ==
    ASSUME RelayInv, NEW h \in handlers, ReserveLeaseRequest(h) PROVE Summary
<1> DEFINE s == Sent(h.request)
<1>1. UNCHANGED <<storeVars, appended, journal, cursor, leaseAnswers>> /\ IsLeaseRequest(h.request)
    BY DEF ReserveLeaseRequest, journalVars
<1>2. RelayTypeOK /\ LeaseInv /\ s \in Streams
    BY HandlerFacts DEF RelayInv
<1>3. (\A u \in Streams : StreamMove(u)) /\ \A g \in handlers' : Came(g)
  <2>1. CASE Respond(h, "unavailable", NoAnswer)
      BY <2>1, RespondMove
  <2>2. CASE leaseAnswers[s] # NoAnswer /\ Respond(h, "ok", leaseAnswers[s])
    <3>1. Told(h, leaseAnswers[s])
        BY <1>1, <1>2, <2>2 DEF Told, LeaseInv, RelayTypeOK
    <3> QED
        BY <2>2, <3>1, RespondMove
  <2>3. CASE Proceed(h, "reserved")
    <3>1. [h EXCEPT !.phase = "reserved"].request = h.request
          /\ [h EXCEPT !.phase = "reserved"].n = h.n
          /\ [h EXCEPT !.phase = "reserved"].phase = "reserved"
        BY <1>2, HandlerFacts DEF Handlers
    <3>2. Progress(h, [h EXCEPT !.phase = "reserved"])
        BY <1>1, <3>1 DEF Progress
    <3> QED
        BY <2>3, <3>2, EveryoneRests DEF Proceed, Came
  <2> QED
      BY <2>1, <2>2, <2>3 DEF ReserveLeaseRequest
<1> QED
    BY <1>1, <1>3 DEF Summary, StoreMove, AnswerMove, JournalMove

\* A handler with another phase and answer.
LEMMA HandlerUpdate ==
    ASSUME RelayTypeOK, NEW h \in handlers, NEW phase, NEW answer
    PROVE  /\ [h EXCEPT !.phase = phase].request = h.request
           /\ [h EXCEPT !.phase = phase].n = h.n /\ [h EXCEPT !.phase = phase].phase = phase
           /\ [h EXCEPT !.phase = phase].answer = h.answer
           /\ [h EXCEPT !.phase = phase, !.answer = answer].request = h.request
           /\ [h EXCEPT !.phase = phase, !.answer = answer].n = h.n
           /\ [h EXCEPT !.phase = phase, !.answer = answer].phase = phase
           /\ [h EXCEPT !.phase = phase, !.answer = answer].answer = answer
BY HandlerFacts DEF Handlers

\* begin_call, handoff_call or the owner's own lease: an answer for the stream.
LEMMA GrantMove ==
    ASSUME RelayInv, NEW h \in handlers, Grant(h) PROVE Summary
<1> DEFINE r == h.request
           s == Sent(r)
           c == r.call
<1>1. UNCHANGED <<appended, journal, cursor, leaseAnswers>> /\ IsLeaseRequest(r)
    BY DEF Grant, journalVars
<1>2. RelayTypeOK /\ TypeOK /\ OneOwnerPerGeneration /\ s \in Streams /\ c \in Calls /\ r \in Requests
      /\ r.by \in Owners /\ s[1] = r.by /\ s[2] = c /\ BlankInv
    BY HandlerFacts, RequestFacts, RelayAssumption DEF RelayInv, FenceInv
<1> DEFINE granted == [call |-> c, owner |-> r.by, gen |-> calls'[c].gen]
           current == [call |-> c, owner |-> r.by, gen |-> calls[c].gen]
<1>3. ASSUME \/ r.op = "begin" /\ BeginCall(c, r.by, FALSE, r.at)
             \/ r.op = "claim" /\ HandoffCall(c, r.data, r.by, r.at),
             Answered(h, "granted", [lease |-> granted, next |-> 0])
      PROVE  Summary
  <2>1. granted \in leases'
    <3>1. CASE BeginCall(c, r.by, FALSE, r.at)
      <4>1. calls'[c].gen = 1
          BY <1>2, <3>1 DEF BeginCall, TypeOK, AbsentRow
      <4> QED
          BY <3>1, <4>1 DEF BeginCall
    <3>2. CASE HandoffCall(c, r.data, r.by, r.at)
      <4>1. calls'[c].gen = calls[c].gen + 1
          BY <1>2, <3>2 DEF HandoffCall, GrantNextGeneration, TypeOK, CallRow
      <4>2. [call |-> c, owner |-> r.by, gen |-> calls[c].gen + 1] \in leases'
          BY <3>2 DEF HandoffCall, GrantNextGeneration
      <4> QED
          BY <4>1, <4>2
    <3> QED
        BY <1>3, <3>1, <3>2
  <2>2. PICK l : l = granted
      OBVIOUS
  <2> DEFINE answer == [lease |-> l, next |-> 0]
  <2>3. answer # NoAnswer /\ answer.lease = l /\ l \in leases' /\ l.owner = s[1] /\ l.call = s[2]
      BY <1>2, <2>1, <2>2 DEF NoAnswer
  <2>4. Progress(h, [h EXCEPT !.phase = "granted", !.answer = answer])
    <3>1. AnswerFor(answer, s)'
        BY <2>3 DEF AnswerFor
    <3> HIDE DEF answer
    <3>2. PICK g : g = [h EXCEPT !.phase = "granted", !.answer = answer]
        OBVIOUS
    <3>3. g.phase = "granted" /\ g.answer = answer /\ g.request = r /\ g.n = h.n
        BY <1>2, <3>2, HandlerUpdate
    <3> QED
        BY <1>1, <3>1, <3>2, <3>3 DEF Progress
  <2>5. \A g \in handlers' : Came(g)
      BY <1>3, <2>2, <2>4 DEF Answered, Came
  <2>6. StoreMove
      BY <1>1, <1>3 DEF StoreMove
  <2>7. \A u \in Streams : StreamMove(u)
      BY <1>3, EveryoneRests DEF Answered
  <2> QED
      BY <1>1, <2>5, <2>6, <2>7 DEF Summary, AnswerMove, JournalMove
<1>4. ASSUME UNCHANGED storeVars, calls[c].owner = r.by,
             Answered(h, "granted", [next |-> 0, lease |-> current])
      PROVE  Summary
  <2>1. calls[c].gen > 0
    <3>1. calls[c].owner # NoOwner
        BY <1>2, <1>4, CallStoreAssumption DEF TypeOK
    <3>2. calls[c].status # "absent"
        BY <1>2, <3>1 DEF BlankInv, AbsentRow
    <3> QED
        BY <1>2, <3>2 DEF RelayInv, OwnersInv
  <2>2. current \in leases
      BY <1>2, <1>4, <2>1 DEF OneOwnerPerGeneration
  <2>3. [next |-> 0, lease |-> current] # NoAnswer
      BY DEF NoAnswer
  <2>4. AnswerFor([next |-> 0, lease |-> current], s)'
      BY <1>2, <1>4, <2>2, <2>3 DEF AnswerFor, NoAnswer, storeVars
  <2>5. Progress(h, [h EXCEPT !.phase = "granted", !.answer = [next |-> 0, lease |-> current]])
      BY <1>1, <1>2, <2>4, HandlerUpdate DEF Progress
  <2>6. \A g \in handlers' : Came(g)
      BY <1>4, <2>5 DEF Answered, Came
  <2>7. \A u \in Streams : StreamMove(u)
      BY <1>4, EveryoneRests DEF Answered
  <2> QED
      BY <1>1, <1>4, <2>6, <2>7 DEF Summary, StoreMove, AnswerMove, JournalMove
<1>5. ASSUME UNCHANGED storeVars, Respond(h, "refused", NoAnswer) PROVE Summary
    BY <1>1, <1>5, RespondMove DEF Summary, StoreMove, AnswerMove, JournalMove
<1> QED
    BY <1>3, <1>4, <1>5 DEF Grant

LEMMA ReadCursorMove ==
    ASSUME RelayInv, NEW h \in handlers, ReadCursor(h) PROVE Summary
<1> DEFINE a == [h.answer EXCEPT !.next = cursor[h.request.call] + 1]
<1>1. UNCHANGED <<storeVars, appended, journal, cursor, leaseAnswers>> /\ h.phase = "granted"
      /\ Answered(h, "applied", a)
    BY DEF ReadCursor, journalVars, At
<1>2. RelayTypeOK /\ LeaseInv /\ ArrivedInv
    BY DEF RelayInv
<1>3. IsLeaseRequest(h.request)
    BY <1>1, <1>2 DEF ArrivedInv
<1>4. h.answer \in Answers
    BY <1>1, <1>2, <1>3, HandlerFacts DEF LeaseInv, AnswerFor
<1>5. a \in Answers /\ a.lease = h.answer.lease /\ a.next = cursor[h.request.call] + 1
  <2>1. h.request.call \in Calls
      BY <1>2, HandlerFacts, RequestFacts
  <2>2. cursor[h.request.call] + 1 \in Nat
      BY <1>2, <2>1 DEF RelayTypeOK
  <2> QED
      BY <1>4, <2>2 DEF Answers
<1>6. a # NoAnswer
    BY <1>5, Sentinels
<1> HIDE DEF a
<1>7. Progress(h, [h EXCEPT !.phase = "applied", !.answer = a])
    BY <1>1, <1>2, <1>3, <1>5, <1>6, HandlerUpdate DEF Progress
<1>8. (\A g \in handlers' : Came(g)) /\ \A u \in Streams : StreamMove(u)
    BY <1>1, <1>7, EveryoneRests DEF Answered, Came
<1> QED
    BY <1>1, <1>8 DEF Summary, StoreMove, AnswerMove, JournalMove

LEMMA CompleteLeaseRequestMove ==
    ASSUME RelayInv, NEW h \in handlers, CompleteLeaseRequest(h) PROVE Summary
<1> DEFINE s == Sent(h.request)
<1>1. UNCHANGED <<storeVars, appended, journal, cursor>> /\ h.phase = "applied"
      /\ IsLeaseRequest(h.request)
    BY DEF CompleteLeaseRequest, At
<1>2. RelayTypeOK /\ LeaseInv /\ s \in Streams
    BY HandlerFacts DEF RelayInv
<1>3. CASE leaseAnswers' = [leaseAnswers EXCEPT ![s] = h.answer] /\ Respond(h, "ok", h.answer)
  <2>1. AnswerFor(h.answer, s) /\ BeginsAt(h.answer, s) /\ h.answer \in Answers
      BY <1>1, <1>2, HandlerFacts DEF LeaseInv, AnswerFor
  <2>2. Told(h, h.answer)
      BY <1>1, <2>1 DEF Told
  <2>3. (\A u \in Streams : StreamMove(u)) /\ \A g \in handlers' : Came(g)
      BY <1>3, <2>2, RespondMove
  <2>4. \A u \in Streams : AnswerMove(u)
      BY <1>1, <1>2, <1>3 DEF AnswerMove, RelayTypeOK
  <2> QED
      BY <1>1, <2>3, <2>4 DEF Summary, StoreMove, JournalMove
<1>4. CASE Respond(h, "refused", NoAnswer) /\ UNCHANGED leaseAnswers
    BY <1>1, <1>4, RespondMove DEF Summary, StoreMove, JournalMove, AnswerMove
<1> QED
    BY <1>3, <1>4 DEF CompleteLeaseRequest

LEMMA CheckFenceMove ==
    ASSUME RelayInv, NEW h \in handlers, CheckFence(h) PROVE Summary
<1>1. UNCHANGED <<storeVars, appended, journal, cursor, leaseAnswers>> /\ ~IsLeaseRequest(h.request)
    BY DEF CheckFence, journalVars
<1>2. (\A u \in Streams : StreamMove(u)) /\ \A g \in handlers' : Came(g)
  <2>1. CASE Respond(h, "refused", NoAnswer)
      BY <2>1, RespondMove
  <2>2. CASE Proceed(h, "fenced")
    <3>1. Progress(h, [h EXCEPT !.phase = "fenced"])
        BY <1>1, HandlerUpdate DEF Progress, RelayInv
    <3> QED
        BY <2>2, <3>1, EveryoneRests DEF Proceed, Came
  <2> QED
      BY <2>1, <2>2 DEF CheckFence
<1> QED
    BY <1>1, <1>2 DEF Summary, StoreMove, JournalMove, AnswerMove

\* An update that goes on from its row.
LEMMA ReservedMove ==
    ASSUME RelayInv, NEW h \in handlers, Proceed(h, "reserved"), ~IsLeaseRequest(h.request),
           h.request.seq \in DOMAIN journal'[h.request.call],
           journal'[h.request.call][h.request.seq].request = h.request
    PROVE  (\A u \in Streams : StreamMove(u)) /\ \A g \in handlers' : Came(g)
<1>1. PICK g : g = [h EXCEPT !.phase = "reserved"]
    OBVIOUS
<1>2. g.request = h.request /\ g.n = h.n /\ g.phase = "reserved"
    BY <1>1, HandlerUpdate DEF RelayInv
<1>3. Progress(h, g)
    BY <1>2 DEF Progress
<1> QED
    BY <1>1, <1>3, EveryoneRests DEF Proceed, Came

LEMMA ReserveUpdateMove ==
    ASSUME RelayInv, NEW h \in handlers, ReserveUpdate(h) PROVE Summary
<1> DEFINE r == h.request
           c == r.call
           row == [request |-> r, answered |-> FALSE]
<1>1. RelayTypeOK /\ ArrivedInv /\ LeaseInv /\ JournalInv /\ StreamIsGapFree
    BY DEF RelayInv, JournalInv
<1>2. UNCHANGED <<storeVars, appended, cursor, leaseAnswers>> /\ h.phase = "fenced"
    BY DEF ReserveUpdate, At
<1>3. ~IsLeaseRequest(r)
    BY <1>1, <1>2 DEF LeaseInv
<1>4. c \in Calls /\ r \in Requests /\ r.seq \in Nat \ {0} /\ journal[c] \in Seq(JournalRow)
      /\ Len(journal[c]) \in Nat /\ cursor[c] \in Nat
    BY <1>1, <1>3, HandlerFacts, RequestFacts DEF ArrivedInv, UpdateOf, RelayTypeOK
<1>5. ASSUME r.seq <= Len(journal[c]), journal[c][r.seq].request = r, journal' = journal
      PROVE  /\ Proceed(h, "reserved") => Summary
             /\ journal[c][r.seq].answered /\ Respond(h, "ok", NoAnswer) => Summary
  <2>1. r.seq \in DOMAIN journal[c]
      BY <1>4, <1>5
  <2>2. ASSUME Proceed(h, "reserved") PROVE Summary
    <3>1. (\A u \in Streams : StreamMove(u)) /\ \A g \in handlers' : Came(g)
        BY <1>3, <1>5, <2>1, <2>2, ReservedMove
    <3> QED
        BY <1>2, <1>5, <3>1 DEF Summary, StoreMove, JournalMove, AnswerMove
  <2>3. ASSUME journal[c][r.seq].answered, Respond(h, "ok", NoAnswer) PROVE Summary
    <3>1. Done(r)
        BY <1>1, <1>4, <1>5, <2>1, <2>3 DEF JournalInv
    <3>2. r.seq <= cursor[c]
        BY <1>1, <1>4, <2>1, <2>3 DEF StreamIsGapFree
    <3>3. Told(h, NoAnswer)
        BY <1>2, <1>3, <3>1, <3>2 DEF Told
    <3>4. (\A u \in Streams : StreamMove(u)) /\ \A g \in handlers' : Came(g)
        BY <2>3, <3>3, RespondMove
    <3> QED
        BY <1>2, <1>5, <3>4 DEF Summary, StoreMove, JournalMove, AnswerMove
  <2> QED
      BY <2>2, <2>3
<1>6. ASSUME Respond(h, "refused", NoAnswer), journal' = journal PROVE Summary
    BY <1>2, <1>6, RespondMove DEF Summary, StoreMove, JournalMove, AnswerMove
<1>7. ASSUME r.seq > Len(journal[c]), r.seq = cursor[c] + 1,
             journal' = [journal EXCEPT ![c] = Append(journal[c], row)], Proceed(h, "reserved")
      PROVE  Summary
  <2>1. journal'[c] = Append(journal[c], row)
      BY <1>1, <1>4, <1>7 DEF RelayTypeOK
  <2>2. Len(journal[c]) + 1 = r.seq
      BY <1>1, <1>4, <1>7 DEF StreamIsGapFree
  <2>3. r.seq \in DOMAIN journal'[c] /\ journal'[c][r.seq] = row
      BY <1>4, <2>1, <2>2
  <2>4. (\A u \in Streams : StreamMove(u)) /\ \A g \in handlers' : Came(g)
      BY <1>3, <1>7, <2>3, ReservedMove
  <2>5. ASSUME NEW d \in Calls PROVE JournalMove(d)
    <3>1. CASE d # c
        BY <1>1, <1>2, <1>7, <3>1 DEF JournalMove, RelayTypeOK
    <3>2. CASE d = c
        BY <1>2, <1>3, <1>7, <2>1, <3>2 DEF JournalMove
    <3> QED
        BY <3>1, <3>2
  <2> QED
      BY <1>2, <2>4, <2>5 DEF Summary, StoreMove, AnswerMove
<1>8. ASSUME r.seq <= Len(journal[c]), UNCHANGED journal,
             CASE journal[c][r.seq].request # r -> Respond(h, "refused", NoAnswer)
               [] journal[c][r.seq] = [request |-> r, answered |-> TRUE] ->
                    Respond(h, "ok", NoAnswer)
               [] OTHER -> Proceed(h, "reserved")
      PROVE  Summary
  <2>1. CASE journal[c][r.seq].request # r
    <3>1. journal[c][r.seq] # [request |-> r, answered |-> TRUE]
        BY <2>1
    <3> QED
        BY <1>6, <1>8, <2>1, <3>1
  <2>2. CASE journal[c][r.seq] = [request |-> r, answered |-> TRUE]
    <3>1. journal[c][r.seq].request = r /\ journal[c][r.seq].answered
        BY <2>2
    <3>2. Respond(h, "ok", NoAnswer)
        BY <1>8, <2>2, <3>1
    <3> QED
        BY <1>5, <1>8, <3>1, <3>2
  <2>3. CASE journal[c][r.seq].request = r /\ journal[c][r.seq] # [request |-> r, answered |-> TRUE]
    <3>1. Proceed(h, "reserved")
        BY <1>8, <2>3
    <3> QED
        BY <1>5, <1>8, <2>3, <3>1
  <2> QED
      BY <2>1, <2>2, <2>3
<1> QED
    BY <1>6, <1>7, <1>8 DEF ReserveUpdate

\* The transaction of the repository did what the update asks for.
LEMMA AppliedIsDone ==
    ASSUME RelayInv, NEW h \in handlers, ~IsLeaseRequest(h.request), Applies(h.request)
    PROVE  Done(h.request)'
<1> DEFINE r == h.request
           c == r.call
<1>1. RelayTypeOK /\ TypeOK /\ ArrivedInv /\ EndInv /\ PendingInv /\ BlankInv
    BY DEF RelayInv, FenceInv
<1>2. r \in Requests /\ c \in Calls /\ calls[c] \in CallRow /\ Sent(r) \in Streams
      /\ Sent(r)[1] = r.by /\ Sent(r)[2] = c
    BY <1>1, HandlerFacts, RequestFacts DEF TypeOK
<1>3. r.lease \in leases /\ r.lease.owner = r.by /\ r.lease.call = c
    BY <1>1, <1>2 DEF ArrivedInv, UpdateOf, PendingInv
<1>4. PICK k \in Commands : Made(r, k)
    BY <1>1 DEF ArrivedInv
<1>5. r.op \in UpdateOps
    BY <1>2, RequestFacts
<1>6. CASE r.op = "renew"
    BY <1>6 DEF Done
<1>7. CASE r.op = "observe"
  <2>1. OperationId(r) \in appended'
      BY <1>7 DEF Applies, InsertObservationOnce
  <2> QED
      BY <1>7, <2>1 DEF Done, OperationId
<1>8. CASE r.op = "flush"
  <2>1. calls' = [calls EXCEPT ![c].result = [by |-> r.lease.gen, data |-> r.data]]
      BY <1>3, <1>8 DEF Applies, FlushResults
  <2>2. calls'[c].result = [by |-> r.lease.gen, data |-> r.data]
      BY <1>1, <1>2, <2>1 DEF TypeOK, CallRow
  <2>3. r.data \in Results /\ r.lease.gen \in 1 .. MaxGeneration
      BY <1>1, <1>3, <1>4, <1>8, RelayAssumption DEF Made, TypeOK, Lease
  <2>4. calls'[c].result \in Snapshots
      BY <2>2, <2>3 DEF Snapshots
  <2>5. calls'[c].result # NoResult
      BY <2>4, NoResultAssumption
  <2> QED
      BY <1>8, <2>2, <2>5 DEF Done
<1>9. CASE r.op = "terminalize"
  <2>1. ASSUME NEW i \in EventIds, Terminalize(r.lease, r.data, "none", now, i)
        PROVE  calls'[c].reason = r.data /\ calls'[c].status \in TerminalStatuses
    <3>1. calls' = [calls EXCEPT ![c].status = StatusOf(EventTypeOf(r.data)),
                                 ![c].webhook = "pending", ![c].endedAt = now,
                                 ![c].reason = r.data, ![c].provider = "none",
                                 ![c].expires = NoTime, ![c].by = r.lease.gen]
        BY <1>3, <2>1 DEF Terminalize
    <3>2. calls'[c].reason = r.data /\ calls'[c].status = StatusOf(EventTypeOf(r.data))
        BY <1>1, <1>2, <3>1 DEF TypeOK, CallRow
    <3> QED
        BY <3>2 DEF StatusOf, TerminalStatuses
  <2>2. CASE Holds(r.lease) /\ Terminal(c) /\ UNCHANGED storeVars
    <3>1. PICK j \in Commands : /\ j.op = "terminalize" /\ j.call = c
                                /\ calls[c].reason = j.data /\ calls[c].owner = j.by
        BY <1>1, <1>2, <2>2 DEF EndInv
    <3>2. j = k
      <4>1. calls[c].owner = r.by
          BY <1>3, <2>2 DEF Holds
      <4>2. k.by = r.by /\ k.call = c /\ k.op = "terminalize"
          BY <1>4, <1>9 DEF Made
      <4> QED
          BY <3>1, <4>1, <4>2, CommandsAssumption
    <3> QED
        BY <1>4, <1>9, <2>2, <3>1, <3>2 DEF Done, Made, storeVars, Terminal
  <2>3. CASE \E i \in EventIds : Terminalize(r.lease, r.data, "none", now, i)
      BY <1>9, <2>1, <2>3 DEF Done, Terminal
  <2> QED
      BY <1>9, <2>2, <2>3 DEF Applies, TerminalizeOnce
<1> QED
    BY <1>5, <1>6, <1>7, <1>8, <1>9 DEF UpdateOps

LEMMA ApplyMove ==
    ASSUME RelayInv, NEW h \in handlers, Apply(h) PROVE Summary
<1>1. UNCHANGED <<journal, cursor, leaseAnswers>> /\ h.phase = "reserved" /\ ~IsLeaseRequest(h.request)
    BY DEF Apply, journalVars, At
<1>2. CASE Applies(h.request) /\ Proceed(h, "applied")
  <2>1. Done(h.request)'
      BY <1>1, <1>2, AppliedIsDone
  <2>2. PICK g : g = [h EXCEPT !.phase = "applied"]
      OBVIOUS
  <2>3. g.request = h.request /\ g.n = h.n /\ g.phase = "applied"
      BY <2>2, HandlerUpdate DEF RelayInv
  <2>4. Progress(h, g)
      BY <1>1, <2>1, <2>3 DEF Progress
  <2>5. (\A u \in Streams : StreamMove(u)) /\ \A x \in handlers' : Came(x)
      BY <1>2, <2>2, <2>4, EveryoneRests DEF Proceed, Came
  <2> QED
      BY <1>1, <1>2, <2>5 DEF Summary, StoreMove, JournalMove, AnswerMove
<1>3. CASE Respond(h, "refused", NoAnswer) /\ UNCHANGED <<storeVars, appended>>
    BY <1>1, <1>3, RespondMove DEF Summary, StoreMove, JournalMove, AnswerMove
<1> QED
    BY <1>2, <1>3 DEF Apply, Applies

LEMMA CompleteMove ==
    ASSUME RelayInv, NEW h \in handlers, Complete(h) PROVE Summary
<1> DEFINE r == h.request
           c == r.call
<1>1. RelayTypeOK /\ JournalInv
    BY DEF RelayInv
<1>2. UNCHANGED <<storeVars, appended, leaseAnswers>> /\ h.phase = "applied" /\ ~IsLeaseRequest(r)
    BY DEF Complete, At
<1>3. c \in Calls /\ r.seq \in Nat /\ r.seq \in DOMAIN journal[c] /\ Done(r)
    BY <1>1, <1>2, HandlerFacts, RequestFacts DEF JournalInv
<1>4. ASSUME cursor[c] \in {r.seq - 1, r.seq},
             journal' = [journal EXCEPT ![c][r.seq].answered = TRUE],
             cursor' = [cursor EXCEPT ![c] = r.seq], Respond(h, "ok", NoAnswer)
      PROVE  Summary
  <2>1. cursor'[c] = r.seq /\ journal'[c] = [journal[c] EXCEPT ![r.seq].answered = TRUE]
      BY <1>1, <1>3, <1>4 DEF RelayTypeOK
  <2>2. Told(h, NoAnswer)
      BY <1>2, <1>3, <2>1 DEF Told
  <2>3. (\A u \in Streams : StreamMove(u)) /\ \A g \in handlers' : Came(g)
      BY <1>4, <2>2, RespondMove
  <2>4. ASSUME NEW d \in Calls PROVE JournalMove(d)
    <3>1. CASE d # c
        BY <1>1, <1>4, <3>1 DEF JournalMove, RelayTypeOK
    <3>2. CASE d = c
        BY <1>2, <1>4, <2>1, <3>2 DEF JournalMove
    <3> QED
        BY <3>1, <3>2
  <2> QED
      BY <1>2, <2>3, <2>4 DEF Summary, StoreMove, AnswerMove
<1>5. ASSUME Respond(h, "refused", NoAnswer), UNCHANGED <<journal, cursor>> PROVE Summary
    BY <1>2, <1>5, RespondMove DEF Summary, StoreMove, JournalMove, AnswerMove
<1> QED
    BY <1>4, <1>5 DEF Complete

LEMMA HandlerFailsMove ==
    ASSUME RelayInv, NEW h \in handlers, NEW status \in {"refused", "unavailable"},
           HandlerFails(h, status)
    PROVE  Summary
<1>1. UNCHANGED <<storeVars, appended, journal, cursor, leaseAnswers>> /\ Respond(h, status, NoAnswer)
    BY DEF HandlerFails, journalVars
<1> QED
    BY <1>1, RespondMove DEF Summary, StoreMove, JournalMove, AnswerMove

LEMMA SummaryHolds ==
    ASSUME RelayInv, [RelayNext]_relayVars PROVE Summary
<1>1. ASSUME ServiceDies \/ BeginDrain \/ UNCHANGED relayVars PROVE Summary
    BY <1>1, EveryoneRests DEF ServiceDies, BeginDrain, relayVars, journalVars, clientVars, Summary,
       StoreMove, JournalMove, AnswerMove, Came
<1>2. ASSUME TimePasses \/ (\E c \in Calls : Sweep(c)) PROVE Summary
    BY <1>2, EveryoneRests DEF TimePasses, Sweep, journalVars, Summary, StoreMove, JournalMove,
       AnswerMove, Came
<1>3. ASSUME NEW h \in handlers, Handle(h) PROVE Summary
    BY <1>3, ReserveLeaseRequestMove, GrantMove, ReadCursorMove, CompleteLeaseRequestMove,
       CheckFenceMove, ReserveUpdateMove, ApplyMove, CompleteMove DEF Handle
<1> QED
    BY <1>1, <1>2, <1>3, CallMove, AcquireMove, CancelMove, SendMove, TimeOutMove, HandlerFailsMove
       DEF RelayNext, ClientStep

-----------------------------------------------------------------------------
(* What a step does to the row of a call *)

\* The handler of an update of the call c writes to the tables under its lease.
Writes(h, op, c) ==
    LET r == h.request
    IN  /\ ~IsLeaseRequest(r) /\ h.phase = "reserved" /\ r.op = op /\ r.call = c
        /\ r.lease \in leases /\ r.lease.owner = r.by /\ r.lease.call = c /\ Holds(r.lease)

SameOwner(c) == calls'[c].owner = calls[c].owner /\ calls'[c].gen = calls[c].gen

SameWork(c) ==
    /\ calls'[c].result = calls[c].result /\ calls'[c].reason = calls[c].reason
    /\ calls'[c].turns = calls[c].turns

Quiet(c) == \A a \in appended' : a.call = c => a \in appended

RowBegins(c) ==
    /\ calls[c].gen = 0 /\ calls[c].status = "absent" /\ SameWork(c) /\ Quiet(c)
    /\ \E h \in handlers :
         LET r == h.request
         IN  /\ r.op = "begin" /\ r.call = c
             /\ calls'[c].status = "active" /\ calls'[c].owner = r.by /\ calls'[c].gen = 1
             /\ calls'[c].expires = Later(r.at, LeaseTTL)

RowMoves(c) ==
    /\ Active(c) /\ calls'[c].status = "active" /\ calls'[c].gen = calls[c].gen + 1
    /\ SameWork(c) /\ Quiet(c)
    /\ \/ calls'[c].owner = Sweeper /\ calls'[c].expires = Later(now, LeaseTTL)
       \/ \E h \in handlers :
            LET r == h.request
            IN  /\ r.op = "claim" /\ r.call = c
                /\ calls[c].owner = r.data /\ calls'[c].owner = r.by
                /\ calls'[c].expires = Later(r.at, LeaseTTL)

RowRenews(c) ==
    /\ Active(c) /\ calls'[c].status = "active" /\ SameOwner(c) /\ SameWork(c) /\ Quiet(c)
    /\ \E h \in handlers :
         Writes(h, "renew", c) /\ calls'[c].expires = Later(h.request.at, LeaseTTL)

RowGrows(c) ==
    /\ calls'[c].status = calls[c].status /\ SameOwner(c)
    /\ calls'[c].result = calls[c].result /\ calls'[c].reason = calls[c].reason
    /\ calls'[c].turns = calls[c].turns + 1 /\ calls'[c].expires = calls[c].expires
    /\ \E h \in handlers :
         /\ Writes(h, "observe", c)
         /\ OperationId(h.request) \notin appended
         /\ appended' = appended \cup {OperationId(h.request)}

RowFlushes(c) ==
    /\ Active(c) /\ calls'[c].status = "active" /\ SameOwner(c)
    /\ calls'[c].reason = calls[c].reason /\ calls'[c].turns = calls[c].turns /\ Quiet(c)
    /\ calls'[c].expires = calls[c].expires
    /\ \E h \in handlers :
         /\ Writes(h, "flush", c)
         /\ calls'[c].result # NoResult /\ calls'[c].result.data = h.request.data

RowEnds(c) ==
    /\ Active(c) /\ calls'[c].status \in TerminalStatuses /\ SameOwner(c)
    /\ calls'[c].result = calls[c].result /\ calls'[c].turns = calls[c].turns /\ Quiet(c)
    /\ calls'[c].expires = NoTime
    /\ \E h \in handlers : Writes(h, "terminalize", c) /\ calls'[c].reason = h.request.data

RowMove(c) ==
    \/ calls'[c] = calls[c] /\ Quiet(c)
    \/ RowBegins(c) \/ RowMoves(c) \/ RowRenews(c) \/ RowGrows(c) \/ RowFlushes(c) \/ RowEnds(c)

\* A new lease is the row's.
NewLease(l) == l.call \in Calls /\ Holds(l)' /\ calls'[l.call].gen > calls[l.call].gen

StoreSummary ==
    /\ now' \in Nat /\ now <= now'
    /\ leases \subseteq leases' /\ \A l \in leases' : l \in leases \/ NewLease(l)
    /\ appended \subseteq appended'
    /\ \A a \in appended' : a \in appended \/
          \E h \in handlers : Writes(h, "observe", h.request.call) /\ a = OperationId(h.request)
    /\ \A c \in Calls : RowMove(c)

\* An update inside the service carries a lease of its client and its call.
LEMMA UpdateFacts ==
    ASSUME RelayInv, NEW h \in handlers, ~IsLeaseRequest(h.request)
    PROVE  LET r == h.request
           IN  /\ r \in Requests /\ r.op \in UpdateOps /\ r.call \in Calls /\ r.by \in Clients
               /\ r.at \in Nat /\ r.seq \in Nat \ {0}
               /\ r.lease \in leases /\ r.lease.owner = r.by /\ r.lease.call = r.call
               /\ r.lease = stream[Sent(r)].lease
               /\ \E k \in Commands : Made(r, k)
<1>1. RelayTypeOK /\ ArrivedInv /\ PendingInv
    BY DEF RelayInv
<1>2. h.request \in Requests
    BY <1>1, HandlerFacts
<1> QED
    BY <1>1, <1>2, RequestFacts DEF ArrivedInv, UpdateOf, PendingInv

LEMMA OtherRowsRest ==
    ASSUME TypeOK, NEW c \in Calls, NEW x, calls' = [calls EXCEPT ![c] = x], appended' = appended,
           NEW d \in Calls, d # c
    PROVE  RowMove(d)
BY DEF RowMove, Quiet, TypeOK

LEMMA NothingWritten ==
    ASSUME RelayInv, UNCHANGED <<calls, leases, appended>>, now' \in {now, now + 1}
    PROVE  StoreSummary
BY DEF StoreSummary, RowMove, Quiet, RelayInv, FenceInv, TypeOK

LEMMA BeginSummary ==
    ASSUME RelayInv, NEW h \in handlers, h.request.op = "begin",
           BeginCall(h.request.call, h.request.by, FALSE, h.request.at), appended' = appended
    PROVE  StoreSummary
<1> DEFINE r == h.request
           c == r.call
           row == [AbsentRow EXCEPT !.status = "active", !.owner = r.by, !.gen = 1, !.by = 1,
                                    !.expires = Later(r.at, LeaseTTL)]
           l == [call |-> c, owner |-> r.by, gen |-> 1]
<1>1. TypeOK /\ BlankInv /\ c \in Calls /\ calls \in [Calls -> CallRow]
    BY HandlerFacts, RequestFacts DEF RelayInv, FenceInv, TypeOK
<1>2. /\ calls[c].status = "absent" /\ calls' = [calls EXCEPT ![c] = row]
      /\ leases' = leases \cup {l} /\ now' = now
    BY DEF BeginCall
<1>3. calls[c] = AbsentRow
    BY <1>1, <1>2 DEF BlankInv
<1>4. calls'[c] = row
    BY <1>1, <1>2
<1>5. /\ row.status = "active" /\ row.owner = r.by /\ row.gen = 1
      /\ row.expires = Later(r.at, LeaseTTL) /\ row.result = NoResult /\ row.turns = 0
      /\ row.reason = "none"
    BY DEF AbsentRow
<1>6. RowBegins(c)
    BY <1>3, <1>4, <1>5 DEF RowBegins, SameWork, Quiet, AbsentRow
<1>7. NewLease(l)
  <2>1. calls'[c].owner = r.by /\ calls'[c].gen = 1 /\ calls[c].gen = 0
      BY <1>3, <1>4, <1>5 DEF AbsentRow
  <2>2. l.call = c /\ l.owner = r.by /\ l.gen = 1
      OBVIOUS
  <2> HIDE DEF l
  <2> QED
      BY <1>1, <2>1, <2>2 DEF NewLease, Holds
<1>8. ASSUME NEW d \in Calls, d # c PROVE RowMove(d)
    BY <1>1, <1>2, <1>8, OtherRowsRest
<1>9. \A d \in Calls : RowMove(d)
    BY <1>6, <1>8 DEF RowMove
<1> HIDE DEF l
<1> QED
    BY <1>1, <1>2, <1>7, <1>9 DEF StoreSummary, TypeOK

\* A handoff and a takeover grant the next generation.
LEMMA GrantSummary ==
    ASSUME RelayInv, NEW c \in Calls, NEW o, NEW t, Active(c), GrantNextGeneration(c, o, t),
           appended' = appended,
           \/ o = Sweeper /\ t = now
           \/ \E h \in handlers : LET r == h.request
                                  IN  /\ r.op = "claim" /\ r.call = c /\ r.by = o /\ r.at = t
                                      /\ calls[c].owner = r.data
    PROVE  StoreSummary
<1>0. PICK l : l = [call |-> c, owner |-> o, gen |-> calls[c].gen + 1]
    OBVIOUS
<1>1. TypeOK /\ calls \in [Calls -> CallRow] /\ calls[c] \in CallRow /\ calls[c].gen \in Nat
    BY DEF RelayInv, FenceInv, TypeOK, CallRow
<1>2. /\ calls' = [calls EXCEPT ![c].owner = o, ![c].gen = @ + 1, ![c].by = calls[c].gen + 1,
                                ![c].expires = Later(t, LeaseTTL)]
      /\ leases' = leases \cup {l} /\ now' = now
    BY <1>0 DEF GrantNextGeneration
<1>3. /\ calls'[c].owner = o /\ calls'[c].gen = calls[c].gen + 1
      /\ calls'[c].expires = Later(t, LeaseTTL) /\ calls'[c].status = calls[c].status /\ SameWork(c)
      /\ \A d \in Calls : d # c => calls'[d] = calls[d]
    BY <1>1, <1>2 DEF CallRow, SameWork
<1>4. RowMoves(c)
    BY <1>3 DEF RowMoves, Active, Quiet
<1>5. NewLease(l)
    BY <1>0, <1>1, <1>3 DEF NewLease, Holds
<1>6. \A d \in Calls : RowMove(d)
    BY <1>3, <1>4 DEF RowMove, Quiet
<1> QED
    BY <1>1, <1>2, <1>5, <1>6 DEF StoreSummary, TypeOK

\* What an update writes.
LEMMA AppliesSummary ==
    ASSUME RelayInv, NEW h \in handlers, ~IsLeaseRequest(h.request), h.phase = "reserved",
           Applies(h.request)
    PROVE  StoreSummary
<1> DEFINE r == h.request
           c == r.call
<1>1. TypeOK /\ calls \in [Calls -> CallRow] /\ c \in Calls /\ calls[c] \in CallRow
      /\ r.lease \in leases /\ r.lease.owner = r.by /\ r.lease.call = c
    BY UpdateFacts DEF RelayInv, FenceInv, TypeOK
<1>2. CASE r.op = "renew"
  <2>1. /\ Active(c) /\ Holds(r.lease) /\ appended' = appended /\ now' = now /\ leases' = leases
        /\ calls' = [calls EXCEPT ![c].expires = Later(r.at, LeaseTTL), ![c].by = r.lease.gen]
      BY <1>1, <1>2 DEF Applies, RenewLease, RenewedUntil
  <2>2. /\ calls'[c].expires = Later(r.at, LeaseTTL) /\ calls'[c].status = calls[c].status
        /\ SameWork(c) /\ SameOwner(c) /\ \A d \in Calls : d # c => calls'[d] = calls[d]
      BY <1>1, <2>1 DEF CallRow, SameWork, SameOwner
  <2>3. RowRenews(c)
      BY <1>1, <1>2, <2>1, <2>2 DEF RowRenews, Writes, Active, Quiet
  <2> QED
      BY <1>1, <2>1, <2>2, <2>3 DEF StoreSummary, RowMove, Quiet, TypeOK
<1>3. CASE r.op = "observe"
  <2>1. Holds(r.lease)
      BY <1>3 DEF Applies, InsertObservationOnce
  <2>2. CASE OperationId(r) \in appended
      BY <1>3, <2>2, NothingWritten DEF Applies, InsertObservationOnce, storeVars
  <2>3. CASE OperationId(r) \notin appended
    <3>1. /\ appended' = appended \cup {OperationId(r)} /\ now' = now /\ leases' = leases
          /\ calls' = [calls EXCEPT ![c].turns = @ + 1]
        BY <1>3, <2>3 DEF Applies, InsertObservationOnce, AppendTranscript
    <3>2. /\ calls'[c].expires = calls[c].expires /\ calls'[c].status = calls[c].status
          /\ SameOwner(c) /\ calls'[c].result = calls[c].result
          /\ calls'[c].reason = calls[c].reason /\ calls'[c].turns = calls[c].turns + 1
          /\ \A d \in Calls : d # c => calls'[d] = calls[d]
        BY <1>1, <3>1 DEF CallRow, SameOwner
    <3>3. Writes(h, "observe", c)
        BY <1>1, <1>3, <2>1 DEF Writes
    <3>4. RowGrows(c)
        BY <2>3, <3>1, <3>2, <3>3 DEF RowGrows
    <3>5. OperationId(r).call = c
        BY DEF OperationId
    <3>6. ASSUME NEW d \in Calls PROVE RowMove(d)
        BY <3>1, <3>2, <3>4, <3>5 DEF RowMove, Quiet
    <3> QED
        BY <1>1, <3>1, <3>3, <3>6 DEF StoreSummary, TypeOK
  <2> QED
      BY <2>2, <2>3
<1>4. CASE r.op = "flush"
  <2>1. /\ Active(c) /\ Holds(r.lease) /\ appended' = appended /\ now' = now /\ leases' = leases
        /\ calls' = [calls EXCEPT ![c].result = [by |-> r.lease.gen, data |-> r.data],
                                  ![c].by = r.lease.gen]
      BY <1>1, <1>4 DEF Applies, FlushResults
  <2>2. /\ calls'[c].expires = calls[c].expires /\ calls'[c].status = calls[c].status
        /\ SameOwner(c) /\ calls'[c].reason = calls[c].reason /\ calls'[c].turns = calls[c].turns
        /\ calls'[c].result.data = r.data /\ \A d \in Calls : d # c => calls'[d] = calls[d]
      BY <1>1, <2>1 DEF CallRow, SameOwner
  <2>3. calls'[c].result # NoResult
      BY <1>4, AppliedIsDone DEF Done
  <2>4. RowFlushes(c)
      BY <1>1, <1>4, <2>1, <2>2, <2>3 DEF RowFlushes, Writes, Active, Quiet
  <2> QED
      BY <1>1, <2>1, <2>2, <2>4 DEF StoreSummary, RowMove, Quiet, TypeOK
<1>5. CASE r.op = "terminalize"
  <2>1. CASE UNCHANGED storeVars
      BY <1>5, <2>1, NothingWritten DEF Applies, storeVars
  <2>2. ASSUME NEW i \in EventIds, Terminalize(r.lease, r.data, "none", now, i)
        PROVE  StoreSummary
    <3>1. /\ Active(c) /\ Holds(r.lease) /\ appended' = appended /\ now' = now /\ leases' = leases
          /\ calls' = [calls EXCEPT ![c].status = StatusOf(EventTypeOf(r.data)),
                                    ![c].webhook = "pending", ![c].endedAt = now,
                                    ![c].reason = r.data, ![c].provider = "none",
                                    ![c].expires = NoTime, ![c].by = r.lease.gen]
        BY <1>1, <1>5, <2>2 DEF Applies, Terminalize
    <3>2. /\ calls'[c].expires = NoTime /\ calls'[c].status = StatusOf(EventTypeOf(r.data))
          /\ SameOwner(c) /\ calls'[c].reason = r.data /\ calls'[c].turns = calls[c].turns
          /\ calls'[c].result = calls[c].result /\ \A d \in Calls : d # c => calls'[d] = calls[d]
        BY <1>1, <3>1 DEF CallRow, SameOwner
    <3>3. calls'[c].status \in TerminalStatuses
        BY <3>2 DEF StatusOf, TerminalStatuses
    <3>4. Writes(h, "terminalize", c)
        BY <1>1, <1>5, <3>1 DEF Writes
    <3>5. RowEnds(c)
        BY <3>1, <3>2, <3>3, <3>4 DEF RowEnds, Quiet
    <3>6. \A d \in Calls : RowMove(d)
        BY <3>1, <3>2, <3>5 DEF RowMove, Quiet
    <3>7. now' = now /\ leases' = leases /\ appended' = appended
        BY <3>1
    <3> QED
        BY <1>1, <3>6, <3>7 DEF StoreSummary, TypeOK
  <2> QED
      BY <1>5, <2>1, <2>2 DEF Applies, TerminalizeOnce
<1> QED
    BY <1>2, <1>3, <1>4, <1>5, UpdateFacts DEF UpdateOps

LEMMA StoreSummaryHolds ==
    ASSUME RelayInv, StoreMove PROVE StoreSummary
<1>1. CASE UNCHANGED <<storeVars, appended>> \/ (Tick /\ UNCHANGED appended)
    BY <1>1, NothingWritten DEF storeVars, Tick
<1>2. ASSUME UNCHANGED appended, NEW c \in Calls, TakeoverExpiredCall(c, Sweeper, now)
      PROVE  StoreSummary
    BY <1>2, GrantSummary DEF TakeoverExpiredCall
<1>3. ASSUME UNCHANGED appended, NEW h \in handlers, h.request.op = "claim",
             HandoffCall(h.request.call, h.request.data, h.request.by, h.request.at)
      PROVE  StoreSummary
  <2>1. h.request.call \in Calls
      BY HandlerFacts, RequestFacts DEF RelayInv
  <2> QED
      BY <1>3, <2>1, GrantSummary DEF HandoffCall
<1> QED
    BY <1>1, <1>2, <1>3, BeginSummary, AppliesSummary DEF StoreMove

\* The steps of the relay are steps of the repository's methods.
LEMMA RelayStepsAreMethods ==
    ASSUME RelayInv, StoreMove PROVE [MethodStep]_storeVars
<1>1. Clients \subseteq Owners /\ Sweeper \in Owners /\ Nat \subseteq Time /\ now \in Time
    BY RelayAssumption DEF Time, RelayInv, FenceInv, TypeOK
<1>2. ASSUME NEW h \in handlers, h.request.op = "claim",
             HandoffCall(h.request.call, h.request.data, h.request.by, h.request.at)
      PROVE  MethodStep
  <2>1. h.request \in Requests /\ IsLeaseRequest(h.request)
      BY <1>2, HandlerFacts DEF RelayInv, IsLeaseRequest
  <2>2. PICK k \in Commands : Made(h.request, k)
      BY <2>1 DEF RelayInv, LeaseInv
  <2>3. h.request.data \in Owners
      BY <1>1, <1>2, <2>2, RelayAssumption DEF Made
  <2> QED
      BY <1>1, <1>2, <2>1, <2>3, RequestFacts DEF MethodStep
<1>3. ASSUME NEW h \in handlers, h.request.op = "begin",
             BeginCall(h.request.call, h.request.by, FALSE, h.request.at)
      PROVE  MethodStep
    BY <1>1, <1>3, HandlerFacts, RequestFacts DEF MethodStep, RelayInv
<1>4. ASSUME NEW h \in handlers, ~IsLeaseRequest(h.request), Applies(h.request)
      PROVE  MethodStep \/ UNCHANGED storeVars
  <2>1. h.request.lease \in leases /\ h.request.at \in Time /\ h.request.call \in Calls
      BY <1>1, <1>4, UpdateFacts
  <2>2. PICK k \in Commands : Made(h.request, k)
      BY <1>4, UpdateFacts
  <2>3. /\ h.request.op = "flush" => h.request.data \in Results
        /\ h.request.op = "terminalize" => h.request.data \in EndedReasons
      BY <2>2, RelayAssumption DEF Made
  <2>4. CASE h.request.op = "renew"
      BY <1>4, <2>1, <2>4 DEF Applies, MethodStep
  <2>5. CASE h.request.op = "observe"
      BY <1>4, <2>1, <2>5 DEF Applies, InsertObservationOnce, MethodStep
  <2>6. CASE h.request.op = "flush"
      BY <1>4, <2>1, <2>3, <2>6 DEF Applies, MethodStep
  <2>7. CASE h.request.op = "terminalize"
      BY <1>1, <1>4, <2>1, <2>3, <2>7 DEF Applies, TerminalizeOnce, MethodStep
  <2> QED
      BY <1>4, <2>4, <2>5, <2>6, <2>7, UpdateFacts DEF UpdateOps
<1>5. ASSUME NEW c \in Calls, TakeoverExpiredCall(c, Sweeper, now) PROVE MethodStep
    BY <1>1, <1>5 DEF MethodStep
<1>6. ASSUME Tick PROVE MethodStep
    BY <1>6 DEF MethodStep
<1> QED
    BY <1>2, <1>3, <1>4, <1>5, <1>6 DEF StoreMove

-----------------------------------------------------------------------------
(* What a step does not undo *)

\* A row keeps its generation and owner, or gets a later generation.
LEMMA RowFacts ==
    ASSUME RelayInv, StoreSummary, TypeOK', NEW c \in Calls
    PROVE  /\ calls[c] \in CallRow /\ calls'[c] \in CallRow
           /\ calls[c].gen \in Nat /\ calls'[c].gen \in Nat
           /\ SameOwner(c) \/ calls'[c].gen > calls[c].gen
           /\ calls'[c].status = "absent" => calls[c].status = "absent"
<1>1. calls[c] \in CallRow /\ calls'[c] \in CallRow /\ RowMove(c)
    BY DEF RelayInv, FenceInv, TypeOK, StoreSummary
<1>2. calls[c].gen \in Nat /\ calls'[c].gen \in Nat
    BY <1>1 DEF CallRow
<1> QED
    BY <1>1, <1>2 DEF RowMove, RowBegins, RowMoves, RowRenews, RowGrows, RowFlushes, RowEnds,
       SameOwner, TerminalStatuses

\* A lease that is the row's was the row's, or is new: a fence is not regained.
LEMMA HoldsIsNotRegained ==
    ASSUME RelayInv, StoreSummary, TypeOK', NEW l \in leases, Holds(l)'
    PROVE  Holds(l) /\ SameOwner(l.call)
<1>1. l.call \in Calls /\ l.gen \in Nat /\ l.gen <= calls[l.call].gen
    BY CallStoreAssumption DEF RelayInv, FenceInv, OneOwnerPerGeneration, TypeOK, Lease
<1> QED
    BY <1>1, RowFacts DEF Holds, SameOwner

LEMMA LeaseFacts ==
    ASSUME RelayInv, NEW l \in leases
    PROVE  /\ l.call \in Calls /\ l.gen \in Nat /\ l.gen > 0 /\ l.gen <= calls[l.call].gen
           /\ l \in Lease /\ l = [call |-> l.call, owner |-> l.owner, gen |-> l.gen]
           /\ l.owner \in Clients \cup {Sweeper}
BY CallStoreAssumption DEF RelayInv, FenceInv, OneOwnerPerGeneration, TypeOK, Lease, OwnersInv

\* What is told is not taken back, and what is begun is not unbegun.
LEMMA CommandsMove ==
    ASSUME RelayInv, \A s \in Streams : StreamMove(s), NEW k \in Commands
    PROVE  /\ cmd[k] = "acknowledged" => cmd'[k] = "acknowledged"
           /\ cmd[k] # "idle" => cmd'[k] # "idle"
           /\ Ready(k) => Ready(k)'
<1>1. ASSUME NEW j \in Commands
      PROVE  /\ cmd[j] = "acknowledged" => cmd'[j] = "acknowledged"
             /\ cmd[j] # "idle" => cmd'[j] # "idle"
  <2> DEFINE s == StreamOf(j)
  <2>1. s \in Streams /\ j \in Of(s) /\ StreamMove(s)
      BY CommandFacts DEF Of
  <2>2. stream[s].holder # NoCommand => cmd[stream[s].holder] = "holding"
      BY <2>1, HolderFacts
  <2> HIDE DEF s
  <2>3. CASE Rests(s) \/ Enters(s) \/ Leaves(s) \/ Takes(s) \/ Sends(s) \/ Retries(s)
      BY <2>1, <2>3 DEF Rests, Enters, Leaves, Takes, Sends, Retries, Kept, Only
  <2>4. CASE GivesUp(s) \/ GetsLease(s) \/ GetsAnswer(s) \/ GoesOn(s)
      BY <2>1, <2>2, <2>4 DEF GivesUp, GetsLease, GetsAnswer, GoesOn, Kept, Only, IsAnswered
  <2> QED
      BY <2>1, <2>3, <2>4 DEF StreamMove
<1> QED
    BY <1>1 DEF Ready

\* The task that asked for the lease is through when there is one.
LEMMA LeaseHolder ==
    ASSUME RelayInv, NEW s \in Streams, stream[s].holder # NoCommand
    PROVE  /\ IsLeaseRequest(stream[s].holder) => stream[s].lease = NoLease
           /\ IsLeaseRequest(stream[s].sending) => /\ IsLeaseRequest(stream[s].holder)
                                                   /\ stream[s].lease = NoLease
                                                   /\ stream[s].pending = NoRequest
           /\ ~IsLeaseRequest(stream[s].sending) => ~IsLeaseRequest(stream[s].holder)
<1>1. CommandInv /\ PendingInv
    BY DEF RelayInv
<1>2. IsLeaseRequest(stream[s].holder) => stream[s].lease = NoLease
    BY <1>1, HolderFacts DEF CommandInv
<1>3. stream[s].pending # NoRequest => stream[s].lease # NoLease
    BY <1>1 DEF PendingInv, UpdateOf
<1>4. stream[s].sending # NoRequest
    BY HolderFacts, Sentinels
<1> QED
    BY <1>2, <1>3, <1>4, HolderFacts DEF Made, IsLeaseRequest

\* A stream keeps its lease, goes on to the next sequence or stays, and keeps what is
\* pending until it is answered.
LEMMA StreamKeeps ==
    ASSUME RelayInv, NEW s \in Streams, StreamMove(s)
    PROVE  /\ stream[s].lease # NoLease =>
                /\ stream'[s].lease = stream[s].lease
                /\ stream'[s].next \in {stream[s].next, stream[s].next + 1}
           /\ stream[s].pending # NoRequest =>
                \/ stream'[s].pending = stream[s].pending /\ stream'[s].next = stream[s].next
                \/ /\ stream'[s].next = stream[s].pending.seq + 1
                   /\ stream[s].pending.seq <= cursor'[s[2]]
                   /\ GetsAnswer(s) \/ GoesOn(s)
<1>1. PendingInv
    BY DEF RelayInv
<1>2. stream[s].pending # NoRequest =>
        /\ stream[s].lease # NoLease /\ stream[s].pending.seq = stream[s].next
        /\ ~IsLeaseRequest(stream[s].pending)
    BY <1>1 DEF PendingInv, UpdateOf, UpdateOps, IsLeaseRequest
<1>3. CASE Rests(s) \/ Enters(s) \/ Leaves(s) \/ Sends(s) \/ Retries(s) \/ GivesUp(s)
    BY <1>3 DEF Rests, Enters, Leaves, Sends, Retries, GivesUp, Becomes
<1>4. CASE Takes(s)
    BY <1>2, <1>4 DEF Takes, First, Becomes
<1>5. CASE GetsLease(s)
  <2>1. stream[s].lease = NoLease /\ stream[s].pending = NoRequest
      BY <1>5, LeaseHolder DEF GetsLease
  <2> QED
      BY <2>1
<1>6. CASE GetsAnswer(s) \/ GoesOn(s)
  <2>1. /\ stream[s].holder # NoCommand /\ ~IsLeaseRequest(stream[s].sending)
        /\ stream[s].sending.seq <= cursor'[s[2]]
        /\ stream'[s].lease = stream[s].lease /\ stream'[s].next = stream[s].sending.seq + 1
      BY <1>6 DEF GetsAnswer, GoesOn, IsAnswered, Becomes
  <2>2. stream[s].sending = stream[s].pending /\ stream[s].sending # NoRequest
      BY <2>1, HolderFacts, Sentinels
  <2> QED
      BY <1>2, <1>6, <2>1, <2>2
<1> QED
    BY <1>3, <1>4, <1>5, <1>6 DEF StreamMove

\* A result is replaced by the same words only, and an end stays.
LEMMA WorkIsKept ==
    ASSUME RelayInv, StoreSummary, NEW c \in Calls
    PROVE  /\ calls[c].result # NoResult =>
                calls'[c].result # NoResult /\ calls'[c].result.data = calls[c].result.data
           /\ Terminal(c) => /\ Terminal(c)' /\ calls'[c].reason = calls[c].reason
                             /\ SameOwner(c)
<1>1. RowMove(c) /\ EndInv
    BY DEF RelayInv, StoreSummary
<1>2. Terminal(c) => ~Active(c) /\ calls[c].status # "absent"
    BY DEF Terminal, Active, TerminalStatuses
<1>3. ASSUME RowFlushes(c), calls[c].result # NoResult
      PROVE  calls'[c].result # NoResult /\ calls'[c].result.data = calls[c].result.data
  <2>1. PICK h \in handlers :
           /\ Writes(h, "flush", c)
           /\ calls'[c].result # NoResult /\ calls'[c].result.data = h.request.data
      BY <1>3 DEF RowFlushes
  <2>2. PICK k \in Commands : Made(h.request, k)
      BY <2>1, UpdateFacts DEF Writes
  <2>3. PICK j \in Commands :
           /\ j.op = "flush" /\ j.call = c /\ calls[c].result.data = j.data
           /\ calls[c].owner \in {j.by, Sweeper}
      BY <1>1, <1>3 DEF EndInv
  <2>4. calls[c].owner = h.request.by /\ h.request.by \in Clients
      BY <2>1, UpdateFacts DEF Writes, Holds
  <2>5. j = k
      BY <2>1, <2>2, <2>3, <2>4, CommandsAssumption, RelayAssumption DEF Made, Writes
  <2> QED
      BY <2>1, <2>2, <2>3, <2>5 DEF Made
<1> QED
    BY <1>1, <1>2, <1>3 DEF RowMove, RowBegins, RowMoves, RowRenews, RowGrows, RowFlushes, RowEnds,
       SameWork, SameOwner, Terminal

LEMMA DoneStaysDone ==
    ASSUME RelayInv, StoreSummary, NEW r, r.call \in Calls, Done(r)
    PROVE  Done(r)'
BY WorkIsKept DEF Done, StoreSummary

\* The cursor follows the pending update of the owner's own stream.
LEMMA CursorMoves ==
    ASSUME RelayInv, NEW c \in Calls, JournalMove(c)
    PROVE  /\ cursor'[c] \in {cursor[c], cursor[c] + 1}
           /\ cursor'[c] # cursor[c] => \E h \in handlers :
                LET r == h.request
                IN  /\ ~IsLeaseRequest(r) /\ r.call = c /\ r.seq = cursor'[c]
                    /\ r = stream[Sent(r)].pending /\ r # NoRequest
                    /\ calls[c].owner \in Clients => r.by = calls[c].owner
<1>1. RelayTypeOK /\ ArrivedInv /\ JournalInv /\ PendingInv /\ OwnersInv /\ cursor[c] \in Nat
    BY DEF RelayInv, RelayTypeOK
<1>2. SUFFICES ASSUME NEW h \in handlers, ~IsLeaseRequest(h.request), h.request.call = c,
                      cursor[c] \in {h.request.seq - 1, h.request.seq},
                      cursor'[c] = h.request.seq
               PROVE  /\ cursor'[c] \in {cursor[c], cursor[c] + 1}
                      /\ cursor'[c] # cursor[c] =>
                           LET r == h.request
                           IN  /\ r = stream[Sent(r)].pending /\ r # NoRequest
                               /\ calls[c].owner \in Clients => r.by = calls[c].owner
    BY <1>1 DEF JournalMove
<1> DEFINE r == h.request
           s == Sent(r)
<1>3. r \in Requests /\ r.seq \in Nat \ {0} /\ r.lease \in leases /\ r.lease.owner = r.by
      /\ r.lease.call = c /\ s \in Streams /\ s[1] = r.by /\ s[2] = c /\ s = <<r.by, c>>
      /\ r.op \in UpdateOps /\ r.by \in Clients /\ r # NoRequest
    BY <1>2, UpdateFacts, RequestFacts DEF Sent
<1>4. cursor'[c] \in {cursor[c], cursor[c] + 1}
    BY <1>1, <1>2, <1>3
<1>5. ASSUME cursor'[c] # cursor[c] PROVE r = stream[s].pending
    BY <1>1, <1>2, <1>3, <1>5 DEF ArrivedInv
<1>6. ASSUME r = stream[s].pending, calls[c].owner \in Clients, r.by # calls[c].owner PROVE FALSE
  <2>1. Closed(s)
      BY <1>1, <1>3, <1>6 DEF OwnersInv
  <2>2. PICK k \in Commands : Made(r, k) /\ cmd[k] # "acknowledged"
      BY <1>1, <1>3, <1>6 DEF PendingInv
  <2>3. StreamOf(k) = s /\ ~IsLeaseRequest(k)
      BY <1>2, <1>3, <2>2, CommandFacts DEF Made, StreamOf
  <2> QED
      BY <2>1, <2>2, <2>3 DEF Closed
<1> QED
    BY <1>3, <1>4, <1>5, <1>6

\* The rows of a journal stay.
LEMMA RowsStay ==
    ASSUME RelayInv, NEW c \in Calls, JournalMove(c), NEW n \in DOMAIN journal[c]
    PROVE  n \in DOMAIN journal'[c] /\ journal'[c][n].request = journal[c][n].request
<1>1. journal[c] \in Seq(JournalRow)
    BY DEF RelayInv, RelayTypeOK
<1>2. CASE journal'[c] = journal[c]
    BY <1>2
<1>3. ASSUME NEW row, journal'[c] = Append(journal[c], row)
      PROVE  n \in DOMAIN journal'[c] /\ journal'[c][n].request = journal[c][n].request
    BY <1>1, <1>3
<1>4. ASSUME NEW h \in handlers, h.phase = "applied", ~IsLeaseRequest(h.request), h.request.call = c,
             journal'[c] = [journal[c] EXCEPT ![h.request.seq].answered = TRUE]
      PROVE  n \in DOMAIN journal'[c] /\ journal'[c][n].request = journal[c][n].request
  <2>1. journal[c][n] \in JournalRow
      BY <1>1
  <2> QED
      BY <1>1, <1>4, <2>1 DEF JournalRow
<1> QED
    BY <1>2, <1>3, <1>4 DEF JournalMove

-----------------------------------------------------------------------------
(* The client's parts of the invariant *)

\* A step of the relay, as the lemmas below use it.
LEMMA Moves ==
    ASSUME RelayInv, Summary
    PROVE  /\ FenceInv' /\ TypeOK' /\ BlankInv'
           /\ StoreSummary
           /\ \A s \in Streams : StreamMove(s) /\ AnswerMove(s)
           /\ \A g \in handlers' : Came(g)
           /\ \A c \in Calls : JournalMove(c) /\ RowMove(c)
<1>1. StoreSummary /\ [MethodStep]_storeVars
    BY StoreSummaryHolds, RelayStepsAreMethods DEF Summary
<1>2. FenceInv' /\ BlankInv'
    BY <1>1, NextFenceInv, NextBlankInv DEF RelayInv
<1> QED
    BY <1>1, <1>2 DEF Summary, StoreSummary, FenceInv

LEMMA CommandInvNext ==
    ASSUME RelayInv, Summary, RelayTypeOK'
    PROVE  CommandInv'
<1> SUFFICES ASSUME NEW k \in Commands, NEW s \in Streams, s = StreamOf(k)
             PROVE  /\ cmd'[k] = "holding" <=> stream'[s].holder = k
                    /\ cmd'[k] # "idle" => Ready(k)'
                    /\ IsLeaseRequest(k) =>
                         (cmd'[k] = "acknowledged" <=> stream'[s].lease # NoLease)
                    /\ ~IsLeaseRequest(k) /\ cmd'[k] # "idle" => stream'[s].lease # NoLease
    BY CommandFacts DEF CommandInv
<1>1. k \in Of(s) /\ StreamMove(s) /\ k # NoCommand
    BY Moves, CommandFacts DEF Of
<1>2. /\ cmd[k] = "holding" <=> stream[s].holder = k
      /\ cmd[k] # "idle" => Ready(k)
      /\ IsLeaseRequest(k) => (cmd[k] = "acknowledged" <=> stream[s].lease # NoLease)
      /\ ~IsLeaseRequest(k) /\ cmd[k] # "idle" => stream[s].lease # NoLease
    BY DEF RelayInv, CommandInv
<1>3. Ready(k) => Ready(k)'
    BY Moves, CommandsMove
<1>4. stream[s].lease # NoLease => stream'[s].lease = stream[s].lease
    BY <1>1, StreamKeeps
<1>5. stream[s].holder # NoCommand =>
        /\ cmd[stream[s].holder] = "holding" /\ stream[s].holder \in Commands
        /\ stream[s].holder \in Of(s)
        /\ IsLeaseRequest(stream[s].sending) => IsLeaseRequest(stream[s].holder)
        /\ ~IsLeaseRequest(stream[s].sending) => ~IsLeaseRequest(stream[s].holder)
    BY <1>1, HolderFacts, LeaseHolder
<1>6. ASSUME NEW j \in Of(s), IsLeaseRequest(j), IsLeaseRequest(k) PROVE j = k
    BY <1>1, <1>6, CommandsAssumption DEF Of, StreamOf, IsLeaseRequest
<1>7. CASE Rests(s) \/ Sends(s) \/ Retries(s)
    BY <1>1, <1>2, <1>3, <1>7 DEF Rests, Sends, Retries, Kept, Becomes
<1>8. CASE Enters(s) \/ Leaves(s)
    BY <1>1, <1>2, <1>3, <1>8 DEF Enters, Leaves, Only, IsLeaseRequest
<1>9. CASE Takes(s)
    BY <1>1, <1>2, <1>3, <1>9 DEF Takes, Only, Becomes
<1>10. CASE GivesUp(s)
    BY <1>1, <1>2, <1>3, <1>5, <1>10 DEF GivesUp, Only, Becomes
<1>11. CASE GetsLease(s)
  <2>1. stream'[s].lease # NoLease /\ stream'[s].holder = NoCommand
      BY <1>11, Sentinels DEF GetsLease, Becomes, Answers
  <2>2. Only(s, stream[s].holder, "acknowledged") /\ IsLeaseRequest(stream[s].holder)
        /\ stream[s].holder # NoCommand
      BY <1>5, <1>11 DEF GetsLease
  <2> QED
      BY <1>1, <1>2, <1>3, <1>5, <1>6, <2>1, <2>2 DEF Only
<1>12. CASE GetsAnswer(s)
    BY <1>1, <1>2, <1>3, <1>5, <1>12 DEF GetsAnswer, IsAnswered, Only, Becomes
<1>13. CASE GoesOn(s)
    BY <1>1, <1>2, <1>3, <1>5, <1>13 DEF GoesOn, IsAnswered, Kept, Becomes
<1> QED
    BY <1>1, <1>7, <1>8, <1>9, <1>10, <1>11, <1>12, <1>13 DEF StreamMove

LEMMA LockInvNext ==
    ASSUME RelayInv, Summary
    PROVE  LockInv'
<1> SUFFICES ASSUME NEW s \in Streams
             PROVE  /\ stream'[s].holder = NoCommand => stream'[s].awaited = 0
                    /\ stream'[s].holder # NoCommand =>
                         /\ StreamOf(stream'[s].holder) = s /\ stream'[s].sending # NoRequest
                         /\ IsLeaseRequest(stream'[s].sending) =>
                              Made(stream'[s].sending, stream'[s].holder)
                         /\ ~IsLeaseRequest(stream'[s].sending) =>
                              stream'[s].sending = stream'[s].pending
    BY DEF LockInv
<1>1. StreamMove(s) /\ RelayTypeOK /\ TypeOK /\ PendingInv
    BY Moves DEF RelayInv, FenceInv
<1>2. /\ stream[s].holder = NoCommand => stream[s].awaited = 0
      /\ stream[s].holder # NoCommand =>
           /\ StreamOf(stream[s].holder) = s /\ stream[s].sending # NoRequest
           /\ IsLeaseRequest(stream[s].sending) => Made(stream[s].sending, stream[s].holder)
           /\ ~IsLeaseRequest(stream[s].sending) => stream[s].sending = stream[s].pending
    BY DEF RelayInv, LockInv
<1>3. CASE Rests(s) \/ Enters(s) \/ Leaves(s)
    BY <1>2, <1>3 DEF Rests, Enters, Leaves
<1>4. CASE Sends(s) \/ Retries(s)
    BY <1>2, <1>4 DEF Sends, Retries, Becomes
<1>5. CASE GivesUp(s) \/ GetsLease(s) \/ GetsAnswer(s)
    BY <1>5 DEF GivesUp, GetsLease, GetsAnswer, Becomes
<1>6. CASE Takes(s)
  <2>1. PICK k \in Of(s) :
           /\ stream[s].holder = NoCommand
           /\ Becomes(s, stream[s].lease, stream[s].next,
                  IF IsLeaseRequest(First(s, k)) THEN NoRequest ELSE First(s, k),
                  k, First(s, k), stream[s].awaited)
      BY <1>6 DEF Takes
  <2>2. k \in Commands /\ StreamOf(k) = s
      BY OneStream
  <2>3. CASE stream[s].pending = NoRequest
    <3>1. First(s, k) \in Requests /\ Made(First(s, k), k)
        BY <1>1, <2>2, <2>3, RequestMade DEF First
    <3> QED
        BY <1>2, <2>1, <2>2, <3>1, Sentinels DEF Becomes
  <2>4. CASE stream[s].pending # NoRequest
    <3>1. First(s, k) = stream[s].pending /\ ~IsLeaseRequest(First(s, k))
        BY <1>1, <2>4 DEF First, PendingInv, UpdateOf, UpdateOps, IsLeaseRequest
    <3> QED
        BY <1>2, <2>1, <2>2, <2>4, <3>1 DEF Becomes
  <2> QED
      BY <2>3, <2>4
<1>7. CASE GoesOn(s)
  <2>1. /\ Becomes(s, stream[s].lease, stream[s].sending.seq + 1, Own(s), stream[s].holder, Own(s), 0)
        /\ stream[s].holder # NoCommand
      BY <1>7 DEF GoesOn, IsAnswered
  <2>2. stream[s].holder \in Commands /\ stream[s].sending.seq \in Nat
      BY <2>1, HolderFacts, RequestFacts
  <2>3. Own(s) \in Requests /\ Made(Own(s), stream[s].holder)
    <3> DEFINE k == stream[s].holder
    <3> HIDE DEF k
    <3>1. k \in Commands /\ Own(s) = [Request(k) EXCEPT !.seq = stream[s].sending.seq + 1]
        BY <2>2 DEF Own, k
    <3> QED
        BY <1>1, <2>2, <3>1, RequestMade DEF k
  <2> QED
      BY <1>2, <2>1, <2>3, Sentinels DEF Becomes
<1> QED
    BY <1>1, <1>3, <1>4, <1>5, <1>6, <1>7 DEF StreamMove

\* What a stream newly keeps to send.
Fresh(r, s) ==
    \E k \in Of(s) :
       /\ Made(r, k) /\ r \in Requests /\ ~IsLeaseRequest(r)
       /\ r.at = now /\ r.seq = stream'[s].next /\ r.lease = stream'[s].lease
       /\ cmd[k] # "idle" /\ cmd'[k] = "holding" /\ ~Issued(k)
       /\ stream'[s].sending = r
       /\ \A h \in handlers : Sent(h.request) = s => ~(h.request = r)

LEMMA PendingMoves ==
    ASSUME RelayInv, NEW s \in Streams, StreamMove(s), cursor'[s[2]] \in Nat
    PROVE  \/ stream'[s].pending \in {NoRequest, stream[s].pending}
           \/ Fresh(stream'[s].pending, s)
<1>1. RelayTypeOK /\ TypeOK /\ PendingInv /\ ArrivedInv /\ CommandInv
    BY DEF RelayInv, FenceInv
<1>2. CASE Rests(s) \/ Enters(s) \/ Leaves(s) \/ Sends(s) \/ Retries(s) \/ GivesUp(s)
           \/ GetsLease(s) \/ GetsAnswer(s)
    BY <1>2 DEF Rests, Enters, Leaves, Sends, Retries, GivesUp, GetsLease, GetsAnswer, Becomes
<1>3. CASE Takes(s)
  <2>1. PICK k \in Of(s) :
           /\ cmd[k] = "waiting" /\ stream[s].holder = NoCommand /\ Only(s, k, "holding")
           /\ Becomes(s, stream[s].lease, stream[s].next,
                  IF IsLeaseRequest(First(s, k)) THEN NoRequest ELSE First(s, k),
                  k, First(s, k), stream[s].awaited)
      BY <1>3 DEF Takes
  <2>2. k \in Commands /\ StreamOf(k) = s
      BY OneStream
  <2>3. CASE stream[s].pending = NoRequest
    <3>1. PICK r : r = First(s, k)
        OBVIOUS
    <3>2. /\ r \in Requests /\ Made(r, k) /\ r.at = now /\ r.seq = stream[s].next
          /\ r.lease = stream[s].lease
        BY <1>1, <2>2, <2>3, <3>1, RequestMade DEF First
    <3>3. ASSUME NEW h \in handlers, ~IsLeaseRequest(r), Sent(h.request) = s, h.request = r
          PROVE  FALSE
        BY <1>1, <2>3, <3>2, <3>3, RequestFacts DEF ArrivedInv
    <3>4. /\ stream'[s].pending = (IF IsLeaseRequest(r) THEN NoRequest ELSE r)
          /\ stream'[s].sending = r /\ stream'[s].next = stream[s].next
          /\ stream'[s].lease = stream[s].lease /\ cmd'[k] = "holding"
        BY <2>1, <3>1 DEF Becomes, Only
    <3>5. ~Issued(k)
        BY <2>1 DEF Issued
    <3> QED
        BY <2>1, <3>2, <3>3, <3>4, <3>5 DEF Fresh
  <2>4. CASE stream[s].pending # NoRequest
    <3>1. First(s, k) = stream[s].pending /\ ~IsLeaseRequest(First(s, k))
        BY <1>1, <2>4 DEF First, PendingInv, UpdateOf, UpdateOps, IsLeaseRequest
    <3> QED
        BY <2>1, <3>1 DEF Becomes
  <2> QED
      BY <2>3, <2>4
<1>4. CASE GoesOn(s)
  <2> DEFINE k == stream[s].holder
  <2>1. /\ Becomes(s, stream[s].lease, stream[s].sending.seq + 1, Own(s), k, Own(s), 0)
        /\ k # NoCommand /\ ~IsLeaseRequest(stream[s].sending) /\ Kept(s)
        /\ ~SameOperation(k, stream[s].sending)
      BY <1>4 DEF GoesOn, IsAnswered
  <2>2. /\ k \in Commands /\ k \in Of(s) /\ StreamOf(k) = s /\ cmd[k] = "holding"
        /\ stream[s].sending \in Requests /\ stream[s].sending.seq \in Nat
        /\ stream[s].sending = stream[s].pending /\ stream[s].pending # NoRequest
        /\ ~IsLeaseRequest(k)
      BY <2>1, HolderFacts, LeaseHolder, RequestFacts
  <2> HIDE DEF k
  <2>3. PICK r : r = Own(s)
      OBVIOUS
  <2>4. /\ r \in Requests /\ Made(r, k) /\ r.at = now /\ r.seq = stream[s].sending.seq + 1
        /\ r.lease = stream[s].lease /\ ~IsLeaseRequest(r)
      BY <1>1, <2>2, <2>3, RequestMade DEF Own, k
  <2>5. stream[s].pending.seq = stream[s].next
      BY <1>1, <2>2 DEF PendingInv
  <2>6. ASSUME NEW h \in handlers, Sent(h.request) = s, h.request = r PROVE FALSE
      BY <1>1, <2>2, <2>4, <2>5, <2>6 DEF ArrivedInv
  <2>7. ~Issued(k) /\ cmd'[k] = "holding"
      BY <2>1, <2>2 DEF Issued, Kept
  <2>8. /\ stream'[s].pending = r /\ stream'[s].sending = r
        /\ stream'[s].next = r.seq /\ stream'[s].lease = stream[s].lease
      BY <2>1, <2>3, <2>4 DEF Becomes
  <2> QED
      BY <2>2, <2>4, <2>6, <2>7, <2>8 DEF Fresh
<1> QED
    BY <1>2, <1>3, <1>4 DEF StreamMove

\* An update of a stream stays one.
LEMMA UpdateOfStays ==
    ASSUME RelayInv, NEW s \in Streams, StreamMove(s), NEW r, UpdateOf(r, s)
    PROVE  UpdateOf(r, s)'
BY StreamKeeps DEF UpdateOf

LEMMA OwnSequence ==
    ASSUME RelayInv, NEW s \in Streams, stream[s].holder \in Commands, stream[s].sending.seq \in Nat
    PROVE  Own(s).seq = stream[s].sending.seq + 1
<1> DEFINE k == stream[s].holder
<1>1. RelayTypeOK /\ TypeOK
    BY DEF RelayInv, FenceInv
<1>2. Own(s) = [Request(k) EXCEPT !.seq = stream[s].sending.seq + 1]
    BY DEF Own
<1> HIDE DEF k
<1>3. k \in Commands
    BY DEF k
<1> QED
    BY <1>1, <1>2, <1>3, RequestMade

LEMMA PendingInvNext ==
    ASSUME RelayInv, Summary, RelayTypeOK'
    PROVE  PendingInv'
<1> SUFFICES ASSUME NEW s \in Streams
             PROVE  /\ stream'[s].lease # NoLease =>
                         /\ stream'[s].lease \in leases' /\ stream'[s].lease.owner = s[1]
                         /\ stream'[s].lease.call = s[2] /\ stream'[s].next > 0
                    /\ \A r : r = stream'[s].pending /\ r # NoRequest =>
                         /\ UpdateOf(r, s)' /\ r.seq = stream'[s].next
                         /\ \E k \in Commands : Made(r, k) /\ cmd'[k] \notin {"idle", "acknowledged"}
    BY DEF PendingInv
<1>1. StreamMove(s) /\ leases \subseteq leases' /\ cursor'[s[2]] \in Nat /\ RelayTypeOK
    BY Moves, CursorMoves, StreamFacts DEF StoreSummary, RelayInv, RelayTypeOK
<1>2. /\ stream[s].lease # NoLease =>
           stream[s].lease \in leases /\ stream[s].lease.owner = s[1] /\ stream[s].lease.call = s[2]
           /\ stream[s].next > 0
      /\ stream[s].pending # NoRequest =>
           /\ UpdateOf(stream[s].pending, s) /\ stream[s].pending.seq = stream[s].next
           /\ \E k \in Commands : Made(stream[s].pending, k) /\ cmd[k] \notin {"idle", "acknowledged"}
    BY DEF RelayInv, PendingInv
<1>3. stream[s].next \in Nat /\ stream'[s].next \in Nat
    BY <1>1 DEF RelayTypeOK, StreamRow
<1>4. ASSUME stream'[s].lease # NoLease
      PROVE  /\ stream'[s].lease \in leases' /\ stream'[s].lease.owner = s[1]
             /\ stream'[s].lease.call = s[2] /\ stream'[s].next > 0
  <2>1. CASE stream[s].lease # NoLease
      BY <1>1, <1>2, <1>3, <2>1, StreamKeeps
  <2>2. CASE stream[s].lease = NoLease
    <3>1. GetsLease(s)
      <4>1. ~GetsAnswer(s) /\ ~GoesOn(s)
        <5>1. ASSUME GetsAnswer(s) \/ GoesOn(s) PROVE FALSE
          <6>1. stream'[s].lease = stream[s].lease
              BY <5>1 DEF GetsAnswer, GoesOn, Becomes
          <6> QED
              BY <1>4, <2>2, <6>1
        <5> QED
            BY <5>1
      <4> QED
          BY <1>1, <1>4, <2>2, <4>1 DEF StreamMove, Rests, Enters, Leaves, Takes, Sends, Retries,
             GivesUp, Becomes
    <3>2. PICK a \in Answers : AnswerFor(a, s) /\ BeginsAt(a, s) /\ stream'[s].lease = a.lease
                               /\ stream'[s].next = a.next
        BY <3>1 DEF GetsLease, Becomes
    <3> QED
        BY <1>1, <3>2 DEF AnswerFor, BeginsAt
  <2> QED
      BY <2>1, <2>2
<1>5. ASSUME NEW r, r = stream'[s].pending, r # NoRequest
      PROVE  /\ UpdateOf(r, s)' /\ r.seq = stream'[s].next
             /\ \E k \in Commands : Made(r, k) /\ cmd'[k] \notin {"idle", "acknowledged"}
  <2>1. CASE r = stream[s].pending
    <3>1. UpdateOf(r, s)' /\ r.seq = stream[s].next
        BY <1>1, <1>2, <1>5, <2>1, UpdateOfStays
    <3>2. stream'[s].next = stream[s].next /\ ~GetsAnswer(s)
      <4>1. stream[s].pending = stream'[s].pending /\ stream[s].pending # NoRequest
          BY <1>5, <2>1
      <4>2. ASSUME GetsAnswer(s) PROVE FALSE
          BY <1>5, <4>2 DEF GetsAnswer, Becomes
      <4>3. ASSUME GoesOn(s) PROVE FALSE
        <5>1. Own(s) = r /\ stream[s].sending.seq \in Nat /\ stream[s].holder \in Commands
              /\ stream[s].sending = r
            BY <1>5, <2>1, <4>3, HolderFacts, RequestFacts DEF GoesOn, IsAnswered, Becomes
        <5>2. Own(s).seq = stream[s].sending.seq + 1
            BY <5>1, OwnSequence
        <5> QED
            BY <5>1, <5>2
      <4> QED
          BY <1>1, <4>1, <4>2, <4>3, StreamKeeps
    <3>3. PICK k \in Commands : Made(r, k) /\ cmd[k] \notin {"idle", "acknowledged"}
        BY <1>2, <1>5, <2>1
    <3>4. cmd'[k] # "idle"
        BY <3>3, Moves, CommandsMove
    <3>5. StreamOf(k) = s /\ k \in Of(s) /\ ~IsLeaseRequest(k)
        BY <1>2, <1>5, <2>1, <3>3 DEF UpdateOf, Made, Sent, StreamOf, UpdateOps, IsLeaseRequest, Of
    <3>6. cmd'[k] # "acknowledged"
      <4>1. ASSUME GetsLease(s) PROVE cmd'[k] # "acknowledged"
          BY <3>3, <3>5, <4>1, LeaseHolder DEF GetsLease, Only
      <4> QED
          BY <1>1, <3>2, <3>3, <3>5, <4>1 DEF StreamMove, Rests, Enters, Leaves, Takes, Sends,
             Retries, GivesUp, GoesOn, Kept, Only
    <3> QED
        BY <3>1, <3>2, <3>3, <3>4, <3>6
  <2>2. CASE Fresh(r, s)
    <3>1. PICK k \in Of(s) :
             /\ Made(r, k) /\ r \in Requests /\ ~IsLeaseRequest(r) /\ cmd[k] # "idle"
             /\ r.seq = stream'[s].next /\ r.lease = stream'[s].lease /\ cmd'[k] = "holding"
        BY <2>2 DEF Fresh
    <3>2. k \in Commands /\ StreamOf(k) = s /\ ~IsLeaseRequest(k)
        BY <3>1, OneStream DEF Made, IsLeaseRequest
    <3>3. stream'[s].lease # NoLease
        BY <1>1, <3>1, <3>2, StreamKeeps DEF RelayInv, CommandInv
    <3>4. UpdateOf(r, s)'
        BY <1>3, <1>4, <3>1, <3>2, <3>3, RequestFacts DEF UpdateOf, Made, Sent, StreamOf
    <3> QED
        BY <3>1, <3>2, <3>4
  <2> QED
      BY <1>1, <1>5, <2>1, <2>2, PendingMoves
<1> QED
    BY <1>4, <1>5

-----------------------------------------------------------------------------
(* The service's parts of the invariant *)

\* A handler carries what was carried before, or what its stream is sending.
LEMMA WhereItCameFrom ==
    ASSUME RelayInv, NEW g, Came(g)
    PROVE  \/ \E h \in handlers : g.request = h.request /\ g.n = h.n
           \/ \E s \in Streams :
                /\ Sends(s) /\ g.request = stream[s].sending /\ g.n = stream'[s].awaited
                /\ Sent(g.request) = s /\ g.phase = "arrived" /\ g.request \in Requests
                /\ stream'[s].sending = stream[s].sending
                /\ stream'[s].pending = stream[s].pending /\ stream'[s].next = stream[s].next
                /\ ~IsLeaseRequest(g.request) => g.request = stream[s].pending
                /\ Kept(s) /\ stream[s].holder # NoCommand
<1>1. ASSUME NEW s \in Streams, Sends(s), g.request = stream[s].sending,
             g.n = stream'[s].awaited, g.phase = "arrived"
      PROVE  /\ Sent(g.request) = s /\ stream'[s].sending = stream[s].sending
             /\ stream'[s].pending = stream[s].pending /\ stream'[s].next = stream[s].next
             /\ ~IsLeaseRequest(g.request) => g.request = stream[s].pending
             /\ g.request \in Requests /\ Kept(s) /\ stream[s].holder # NoCommand
    BY <1>1, HolderFacts DEF Sends, Becomes
<1> QED
    BY <1>1 DEF Came, Progress

LEMMA NonceInvNext ==
    ASSUME RelayInv, Summary
    PROVE  NonceInv'
<1> SUFFICES ASSUME NEW g \in handlers', g.n = stream'[Sent(g.request)].awaited
             PROVE  g.request = stream'[Sent(g.request)].sending
    BY DEF NonceInv
<1>1. CASE \E h \in handlers : g.request = h.request /\ g.n = h.n
  <2>1. PICK h \in handlers : g.request = h.request /\ g.n = h.n
      BY <1>1
  <2>2. PICK s \in Streams : s = Sent(h.request) /\ StreamMove(s)
      BY Moves, HandlerFacts DEF RelayInv
  <2>3. /\ h.n # 0 /\ h.n = stream'[s].awaited
        /\ h.n = stream[s].awaited => h.request = stream[s].sending
      BY <2>1, <2>2, HandlerFacts DEF RelayInv, NonceInv
  <2>4. stream[s].holder = NoCommand => stream[s].awaited = 0
      BY DEF RelayInv, LockInv
  <2>5. CASE Rests(s) \/ Enters(s) \/ Leaves(s)
      BY <2>1, <2>2, <2>3, <2>5 DEF Rests, Enters, Leaves
  <2>6. CASE Takes(s)
      BY <2>3, <2>4, <2>6 DEF Takes, Becomes
  <2>7. CASE Sends(s)
      BY <2>3, <2>7 DEF Sends, Becomes
  <2>8. CASE Retries(s) \/ GivesUp(s) \/ GetsLease(s) \/ GetsAnswer(s) \/ GoesOn(s)
      BY <2>3, <2>8 DEF Retries, GivesUp, GetsLease, GetsAnswer, GoesOn, Becomes
  <2> QED
      BY <2>2, <2>5, <2>6, <2>7, <2>8 DEF StreamMove
<1> QED
    BY <1>1, Moves, WhereItCameFrom

LEMMA ArrivedInvNext ==
    ASSUME RelayInv, Summary, RelayTypeOK'
    PROVE  ArrivedInv'
<1> SUFFICES ASSUME NEW g \in handlers', ~IsLeaseRequest(g.request), NEW s \in Streams,
                    s = Sent(g.request)
             PROVE  /\ UpdateOf(g.request, s)' /\ g.phase # "granted"
                    /\ \E k \in Commands : Made(g.request, k)
                    /\ \/ g.request = stream'[s].pending
                       \/ g.request.seq < stream'[s].next /\ g.request.seq <= cursor'[s[2]]
  <2>1. \A g \in handlers' : Sent(g.request) \in Streams
      BY RequestFacts DEF RelayTypeOK, Handlers
  <2> QED
      BY <2>1 DEF ArrivedInv
<1>1. /\ StreamMove(s) /\ Came(g) /\ RelayTypeOK /\ s[2] \in Calls
      /\ cursor[s[2]] \in Nat /\ cursor'[s[2]] \in {cursor[s[2]], cursor[s[2]] + 1}
      /\ stream[s].next \in Nat
    BY Moves, CursorMoves, StreamFacts DEF RelayInv, RelayTypeOK
<1>4. g.phase # "granted"
  <2>1. ASSUME NEW h \in handlers, Progress(h, g) PROVE g.phase # "granted"
      BY <2>1 DEF Progress
  <2>2. g \in handlers => g.phase # "granted"
      BY DEF RelayInv, ArrivedInv
  <2> QED
      BY <1>1, <2>1, <2>2 DEF Came
<1>2. CASE \E h \in handlers : g.request = h.request /\ g.n = h.n
  <2>1. PICK h \in handlers : g.request = h.request /\ g.n = h.n
      BY <1>2
  <2>2. /\ UpdateOf(h.request, s) /\ h.phase # "granted"
        /\ \E k \in Commands : Made(h.request, k)
        /\ \/ h.request = stream[s].pending
           \/ h.request.seq < stream[s].next /\ h.request.seq <= cursor[s[2]]
      BY <2>1 DEF RelayInv, ArrivedInv
  <2>3. stream[s].lease # NoLease /\ h.request # NoRequest /\ h.request.seq \in Nat
      BY <2>2, HandlerFacts, Sentinels DEF UpdateOf, RelayInv
  <2>4. UpdateOf(g.request, s)'
      BY <1>1, <2>1, <2>2, UpdateOfStays
  <2>5. CASE h.request = stream[s].pending
      BY <1>1, <1>4, <2>1, <2>2, <2>3, <2>4, <2>5, StreamKeeps
  <2>6. CASE h.request.seq < stream[s].next /\ h.request.seq <= cursor[s[2]]
    <3>1. stream'[s].next \in {stream[s].next, stream[s].next + 1}
        BY <1>1, <2>3, StreamKeeps
    <3> QED
        BY <1>1, <1>4, <2>1, <2>2, <2>3, <2>4, <2>6, <3>1
  <2> QED
      BY <2>1, <2>2, <2>4, <2>5, <2>6
<1>3. CASE Sends(s) /\ g.request = stream[s].pending /\ g.request # NoRequest
           /\ stream'[s].pending = stream[s].pending
  <2>1. UpdateOf(g.request, s) /\ \E k \in Commands : Made(g.request, k)
      BY <1>3 DEF RelayInv, PendingInv
  <2> QED
      BY <1>1, <1>3, <1>4, <2>1, UpdateOfStays
<1> QED
    BY <1>1, <1>2, <1>3, <1>4, WhereItCameFrom, Sentinels

\* A sequence of rows after a row is appended, and after one is answered.
LEMMA Appended ==
    ASSUME NEW rows \in Seq(JournalRow), NEW row \in JournalRow
    PROVE  /\ Len(Append(rows, row)) = Len(rows) + 1 /\ Len(rows) \in Nat
           /\ \A n \in DOMAIN Append(rows, row) :
                \/ n \in DOMAIN rows /\ Append(rows, row)[n] = rows[n] /\ n <= Len(rows)
                \/ n = Len(rows) + 1 /\ Append(rows, row)[n] = row
OBVIOUS

LEMMA AnsweredRow ==
    ASSUME NEW rows \in Seq(JournalRow), NEW m \in DOMAIN rows
    PROVE  LET after == [rows EXCEPT ![m].answered = TRUE]
           IN  /\ Len(after) = Len(rows) /\ DOMAIN after = DOMAIN rows /\ DOMAIN rows = 1 .. Len(rows)
               /\ Len(rows) \in Nat
               /\ \A n \in DOMAIN rows : /\ after[n].request = rows[n].request
                                         /\ after[n].answered <=> rows[n].answered \/ n = m
<1>1. \A n \in DOMAIN rows : rows[n] \in JournalRow
    OBVIOUS
<1> QED
    BY <1>1 DEF JournalRow

\* One journal: its sequence, and what stands behind its rows.
JournalOf(c) ==
    /\ Len(journal[c]) \in {cursor[c], cursor[c] + 1}
    /\ \A n \in DOMAIN journal[c] :
         LET r == journal[c][n].request
         IN  /\ r.seq = n
             /\ n <= cursor[c] <=> journal[c][n].answered
             /\ r.call = c /\ r.op \in UpdateOps
             /\ \E k \in Commands : Made(r, k)
             /\ journal[c][n].answered => Done(r)

LEMMA JournalOfNext ==
    ASSUME RelayInv, Summary, NEW c \in Calls
    PROVE  JournalOf(c)'
<1>1. /\ JournalOf(c) /\ JournalInv /\ StreamIsGapFree /\ RelayTypeOK
      /\ journal[c] \in Seq(JournalRow) /\ cursor[c] \in Nat
    BY DEF RelayInv, JournalInv, StreamIsGapFree, JournalOf, RelayTypeOK
<1>2. StoreSummary /\ JournalMove(c)
    BY Moves
<1>3. ASSUME NEW n \in DOMAIN journal[c], NEW r, r = journal[c][n].request
      PROVE  /\ r.seq = n /\ r.call = c /\ r.op \in UpdateOps
             /\ \E k \in Commands : Made(r, k)
             /\ journal[c][n].answered => Done(r)'
  <2>1. r.call = c
      BY <1>1, <1>3 DEF JournalOf
  <2> QED
      BY <1>1, <1>2, <1>3, <2>1, DoneStaysDone DEF JournalOf
<1>0. SUFFICES /\ Len(journal'[c]) \in {cursor'[c], cursor'[c] + 1}
               /\ \A n \in DOMAIN journal'[c] : n <= cursor'[c] <=> journal'[c][n].answered
               /\ \A n \in DOMAIN journal'[c] : \A r : r = journal'[c][n].request =>
                    /\ r.seq = n /\ r.call = c /\ r.op \in UpdateOps
                    /\ \E k \in Commands : Made(r, k)
                    /\ journal'[c][n].answered => Done(r)'
    BY DEF JournalOf
<1> DEFINE Goal ==
        /\ Len(journal'[c]) \in {cursor'[c], cursor'[c] + 1}
        /\ \A n \in DOMAIN journal'[c] : n <= cursor'[c] <=> journal'[c][n].answered
        /\ \A n \in DOMAIN journal'[c] : \A r : r = journal'[c][n].request =>
             /\ r.seq = n /\ r.call = c /\ r.op \in UpdateOps
             /\ \E k \in Commands : Made(r, k)
             /\ journal'[c][n].answered => Done(r)'
<1>4. CASE journal'[c] = journal[c] /\ cursor'[c] = cursor[c]
    BY <1>1, <1>3, <1>4 DEF JournalOf
<1>5. ASSUME NEW h \in handlers, ~IsLeaseRequest(h.request), h.request.call = c,
             h.request.seq = cursor[c] + 1, h.request.seq > Len(journal[c]),
             journal'[c] = Append(journal[c], [request |-> h.request, answered |-> FALSE]),
             cursor'[c] = cursor[c]
      PROVE  Goal
  <2> DEFINE row == [request |-> h.request, answered |-> FALSE]
  <2>1. row \in JournalRow /\ row.request = h.request /\ row.answered = FALSE
      BY <1>1, HandlerFacts DEF JournalRow
  <2>2. h.request.op \in UpdateOps /\ \E k \in Commands : Made(h.request, k)
      BY <1>5, UpdateFacts
  <2> HIDE DEF row
  <2>3. journal'[c] = Append(journal[c], row)
      BY <1>5 DEF row
  <2>4. /\ Len(journal'[c]) = Len(journal[c]) + 1 /\ Len(journal[c]) \in Nat
        /\ \A n \in DOMAIN journal'[c] :
             \/ n \in DOMAIN journal[c] /\ journal'[c][n] = journal[c][n] /\ n <= Len(journal[c])
             \/ n = Len(journal[c]) + 1 /\ journal'[c][n] = row
      BY <1>1, <2>1, <2>3, Appended
  <2>5. Len(journal[c]) = cursor[c]
      BY <1>1, <1>5, <2>4 DEF JournalOf
  <2>6. ASSUME NEW n \in DOMAIN journal'[c], NEW r, r = journal'[c][n].request
        PROVE  /\ n <= cursor'[c] <=> journal'[c][n].answered
               /\ r.seq = n /\ r.call = c /\ r.op \in UpdateOps
               /\ \E k \in Commands : Made(r, k)
               /\ journal'[c][n].answered => Done(r)'
    <3>1. CASE n \in DOMAIN journal[c] /\ journal'[c][n] = journal[c][n]
      <4>1. n <= cursor[c] <=> journal[c][n].answered
          BY <1>1, <3>1 DEF JournalOf
      <4> QED
          BY <1>3, <1>5, <2>6, <3>1, <4>1
    <3>2. CASE n = Len(journal[c]) + 1 /\ journal'[c][n] = row
        BY <1>1, <1>5, <2>1, <2>2, <2>5, <2>6, <3>2
    <3> QED
        BY <2>4, <3>1, <3>2
  <2>7. Len(journal'[c]) \in {cursor'[c], cursor'[c] + 1}
      BY <1>1, <1>5, <2>4, <2>5
  <2> QED
      BY <2>6, <2>7
<1>6. ASSUME NEW h \in handlers, ~IsLeaseRequest(h.request), h.request.call = c,
             h.phase = "applied", cursor[c] \in {h.request.seq - 1, h.request.seq},
             cursor'[c] = h.request.seq,
             journal'[c] = [journal[c] EXCEPT ![h.request.seq].answered = TRUE]
      PROVE  Goal
  <2> DEFINE m == h.request.seq
  <2>1. m \in DOMAIN journal[c] /\ journal[c][m].request = h.request /\ Done(h.request) /\ m \in Nat
      BY <1>1, <1>6, UpdateFacts DEF JournalInv
  <2>2. /\ Len(journal'[c]) = Len(journal[c]) /\ DOMAIN journal'[c] = DOMAIN journal[c]
        /\ DOMAIN journal[c] = 1 .. Len(journal[c]) /\ Len(journal[c]) \in Nat
        /\ \A n \in DOMAIN journal[c] :
             /\ journal'[c][n].request = journal[c][n].request
             /\ journal'[c][n].answered <=> journal[c][n].answered \/ n = m
      BY <1>1, <1>6, <2>1, AnsweredRow
  <2>3. Done(h.request)'
      BY <1>2, <1>6, <2>1, DoneStaysDone
  <2> HIDE DEF m
  <2>4. cursor[c] \in {m - 1, m} /\ cursor'[c] = m
      BY <1>6 DEF m
  <2>5. Len(journal'[c]) \in {cursor'[c], cursor'[c] + 1}
      BY <1>1, <2>1, <2>2, <2>4 DEF JournalOf
  <2>6. ASSUME NEW n \in DOMAIN journal'[c]
        PROVE  n <= cursor'[c] <=> journal'[c][n].answered
    <3>1. n \in DOMAIN journal[c] /\ n \in Nat
        BY <2>2
    <3>2. n <= cursor[c] <=> journal[c][n].answered
        BY <1>1, <3>1 DEF JournalOf
    <3> QED
        BY <1>1, <2>1, <2>2, <2>4, <3>1, <3>2
  <2>7. ASSUME NEW n \in DOMAIN journal'[c], NEW r, r = journal'[c][n].request
        PROVE  /\ r.seq = n /\ r.call = c /\ r.op \in UpdateOps
               /\ \E k \in Commands : Made(r, k)
               /\ journal'[c][n].answered => Done(r)'
    <3>1. n \in DOMAIN journal[c] /\ r = journal[c][n].request
        BY <2>2, <2>7
    <3>2. n = m => r = h.request
        BY <2>1, <3>1
    <3>3. n # m /\ journal'[c][n].answered => journal[c][n].answered
        BY <2>2, <3>1
    <3> QED
        BY <1>3, <2>3, <3>1, <3>2, <3>3
  <2> QED
      BY <2>5, <2>6, <2>7
<1> QED
    BY <1>2, <1>4, <1>5, <1>6 DEF JournalMove

LEMMA JournalInvNext ==
    ASSUME RelayInv, Summary, RelayTypeOK'
    PROVE  JournalInv'
<1>1. /\ StoreSummary /\ JournalInv /\ RelayTypeOK
      /\ \A g \in handlers' : Came(g)
      /\ \A c \in Calls : JournalMove(c) /\ JournalOf(c)'
    BY Moves, JournalOfNext DEF RelayInv
<1>2. ASSUME NEW g \in handlers', ~IsLeaseRequest(g.request), g.phase \in {"reserved", "applied"}
      PROVE  LET r == g.request
             IN  /\ r.seq \in DOMAIN journal'[r.call] /\ journal'[r.call][r.seq].request = r
                 /\ g.phase = "applied" => Done(r)'
  <2>1. CASE g \in handlers
    <3>1. /\ g.request.seq \in DOMAIN journal[g.request.call]
          /\ journal[g.request.call][g.request.seq].request = g.request
          /\ g.phase = "applied" => Done(g.request)
        BY <1>1, <1>2, <2>1 DEF JournalInv
    <3>2. g.request.call \in Calls
        BY <1>1, <2>1, HandlerFacts, RequestFacts
    <3> QED
        BY <1>1, <3>1, <3>2, RowsStay, DoneStaysDone
  <2>2. ASSUME NEW h \in handlers, Progress(h, g)
        PROVE  LET r == g.request
               IN  /\ r.seq \in DOMAIN journal'[r.call] /\ journal'[r.call][r.seq].request = r
                   /\ g.phase = "applied" => Done(r)'
    <3>1. g.request = h.request
        BY <2>2 DEF Progress
    <3>2. CASE g.phase = "reserved"
        BY <1>2, <2>2, <3>1, <3>2 DEF Progress
    <3>3. CASE g.phase = "applied"
        BY <1>1, <1>2, <2>2, <3>1, <3>3 DEF Progress, JournalInv
    <3> QED
        BY <1>2, <3>2, <3>3
  <2> QED
      BY <1>1, <1>2, <2>1, <2>2 DEF Came
<1>3. StreamIsGapFree'
  <2>1. \A c \in Calls : JournalOf(c)'
      BY <1>1
  <2> QED
      BY <2>1 DEF StreamIsGapFree, JournalOf
<1>4. \A c \in Calls : \A n \in DOMAIN journal'[c] : \A r : r = journal'[c][n].request =>
         /\ r.call = c /\ r.op \in UpdateOps
         /\ \E k \in Commands : Made(r, k)
         /\ journal'[c][n].answered => Done(r)'
    BY <1>1 DEF JournalOf
<1> QED
    BY <1>2, <1>3, <1>4 DEF JournalInv

-----------------------------------------------------------------------------
(* Observations *)

\* Once the request of an observation is made, it stays made.
LEMMA IssuedStays ==
    ASSUME RelayInv, Summary, NEW k \in Commands, k.op = "observe", Issued(k)
    PROVE  Issued(k)'
<1>1. PICK s \in Streams : s = StreamOf(k) /\ StreamMove(s) /\ k \in Of(s)
    BY Moves, CommandFacts DEF Of
<1>2. /\ cmd[k] = "holding" => stream[s].holder = k /\ k # NoCommand
                               /\ SameOperation(k, stream[s].sending)
      /\ cmd[k] \in {"acknowledged", "failed", "cancelled", "holding"}
    BY <1>1, CommandFacts DEF Issued, RelayInv, CommandInv
<1>3. stream[s].holder # NoCommand => cmd[stream[s].holder] = "holding"
    BY <1>1, HolderFacts
<1>4. CASE cmd[k] # "holding"
  <2>1. CASE Rests(s) \/ Sends(s) \/ Retries(s) \/ GoesOn(s)
      BY <1>1, <1>2, <1>4, <2>1 DEF Rests, Sends, Retries, GoesOn, Kept, Issued
  <2>2. CASE Enters(s) \/ Leaves(s) \/ Takes(s)
      BY <1>1, <1>2, <1>4, <2>2 DEF Enters, Leaves, Takes, Only, Issued
  <2>3. CASE GivesUp(s) \/ GetsLease(s) \/ GetsAnswer(s)
      BY <1>1, <1>2, <1>3, <1>4, <2>3 DEF GivesUp, GetsLease, GetsAnswer, IsAnswered, Only, Issued
  <2> QED
      BY <1>1, <2>1, <2>2, <2>3 DEF StreamMove
<1>5. CASE cmd[k] = "holding"
  <2>1. CASE Rests(s) \/ Sends(s) \/ Retries(s)
    <3>1. cmd'[k] = "holding" /\ stream'[s].sending = stream[s].sending
        BY <1>1, <1>5, <2>1 DEF Rests, Sends, Retries, Kept, Becomes
    <3> QED
        BY <1>1, <1>2, <1>5, <3>1 DEF Issued, SameOperation
  <2>2. CASE Enters(s) \/ Leaves(s)
    <3>1. cmd'[k] = "holding" /\ stream'[s].sending = stream[s].sending
        BY <1>1, <1>5, <2>2 DEF Enters, Leaves, Only
    <3> QED
        BY <1>1, <1>2, <1>5, <3>1 DEF Issued, SameOperation
  <2>3. CASE GivesUp(s) \/ GetsLease(s) \/ GetsAnswer(s)
      BY <1>1, <1>2, <1>5, <2>3 DEF GivesUp, GetsLease, GetsAnswer, Only, Issued
  <2>4. ~Takes(s) /\ ~GoesOn(s)
      BY <1>2, <1>5 DEF Takes, GoesOn
  <2> QED
      BY <1>1, <2>1, <2>2, <2>3, <2>4 DEF StreamMove
<1> QED
    BY <1>4, <1>5

\* An observation that is known is of one of the calls, and all of them are known once.
LEMMA KnownFacts ==
    ASSUME RelayInv, NEW r \in Known, r.op = "observe"
    PROVE  /\ \E k \in Commands : Made(r, k)
           /\ \A k \in Commands : Made(r, k) => Issued(k)
           /\ r.call \in Calls
<1>1. RelayTypeOK /\ ObservedInv /\ PendingInv /\ JournalInv
    BY DEF RelayInv
<1>2. \A k \in Commands : Made(r, k) => Issued(k)
    BY <1>1 DEF ObservedInv
<1>3. ASSUME NEW s \in Streams, r = stream[s].pending PROVE \E k \in Commands : Made(r, k)
  <2>1. r # NoRequest
      BY DEF NoRequest
  <2> QED
      BY <1>1, <1>3, <2>1 DEF PendingInv
<1>4. ASSUME NEW h \in handlers, r = h.request PROVE \E k \in Commands : Made(r, k)
    BY <1>4, UpdateFacts DEF IsLeaseRequest
<1>5. ASSUME NEW c \in Calls, NEW n \in DOMAIN journal[c], r = journal[c][n].request
      PROVE  \E k \in Commands : Made(r, k)
    BY <1>1, <1>5 DEF JournalInv
<1>6. \E k \in Commands : Made(r, k)
    BY <1>3, <1>4, <1>5 DEF Known
<1> QED
    BY <1>2, <1>6, RelayAssumption DEF Made

\* An observation becomes known when its stream makes the request.
LEMMA KnownMoves ==
    ASSUME RelayInv, Summary, RelayTypeOK', NEW r \in Known', r.op = "observe"
    PROVE  r \in Known \/ \E s \in Streams : Fresh(r, s) /\ r = stream'[s].pending
<1>1. /\ RelayTypeOK /\ \A s \in Streams : StreamMove(s) /\ cursor'[s[2]] \in Nat
      /\ \A g \in handlers' : Came(g)
      /\ \A c \in Calls : JournalMove(c)
    BY Moves, StreamFacts DEF RelayInv, RelayTypeOK
<1>2. r # NoRequest /\ ~IsLeaseRequest(r)
    BY DEF NoRequest, IsLeaseRequest
<1>3. ASSUME NEW s \in Streams, r = stream'[s].pending
      PROVE  r \in Known \/ Fresh(r, s)
    BY <1>1, <1>2, <1>3, PendingMoves DEF Known
<1>4. ASSUME NEW g \in handlers', r = g.request
      PROVE  r \in Known
  <2>1. CASE \E h \in handlers : g.request = h.request
      BY <1>4, <2>1 DEF Known
  <2>2. CASE \E s \in Streams : g.request = stream[s].pending
      BY <1>4, <2>2 DEF Known
  <2> QED
      BY <1>1, <1>2, <1>4, <2>1, <2>2, WhereItCameFrom
<1>5. ASSUME NEW c \in Calls, NEW n \in DOMAIN journal'[c], r = journal'[c][n].request
      PROVE  r \in Known
  <2>1. journal[c] \in Seq(JournalRow) /\ JournalMove(c)
      BY <1>1 DEF RelayTypeOK
  <2>2. CASE n \in DOMAIN journal[c]
      BY <1>5, <2>1, <2>2, RowsStay DEF Known
  <2>3. CASE n \notin DOMAIN journal[c]
    <3>1. ASSUME NEW h \in handlers,
                 journal'[c] = Append(journal[c], [request |-> h.request, answered |-> FALSE])
          PROVE  r = h.request
      <4> DEFINE row == [request |-> h.request, answered |-> FALSE]
      <4>1. row \in JournalRow /\ row.request = h.request
          BY <1>1, HandlerFacts DEF JournalRow
      <4> HIDE DEF row
      <4>2. journal'[c] = Append(journal[c], row)
          BY <3>1 DEF row
      <4> QED
          BY <1>5, <2>1, <2>3, <4>1, <4>2, Appended
    <3>2. ASSUME NEW h \in handlers,
                 journal'[c] = [journal[c] EXCEPT ![h.request.seq].answered = TRUE]
          PROVE  FALSE
        BY <1>5, <2>1, <2>3, <3>2
    <3> QED
        BY <1>5, <2>1, <2>3, <3>1, <3>2 DEF JournalMove, Known
  <2> QED
      BY <2>2, <2>3
<1>6. \/ \E s \in Streams : r = stream'[s].pending
      \/ \E g \in handlers' : r = g.request
      \/ \E c \in Calls : \E n \in DOMAIN journal'[c] : r = journal'[c][n].request
    BY DEF Known
<1> QED
    BY <1>3, <1>4, <1>5, <1>6

\* The number of observations of a call, when one more is stored.
LEMMA OneMoreRow ==
    ASSUME RelayTypeOK, NEW c \in Calls, NEW a, a \notin appended, a.call = c,
           appended' = appended \cup {a}
    PROVE  Cardinality({x \in appended' : x.call = c}) = Cardinality({x \in appended : x.call = c}) + 1
<1> DEFINE rows == {x \in appended : x.call = c}
<1>1. IsFiniteSet(rows) /\ a \notin rows
    BY FS_Subset DEF RelayTypeOK
<1>2. {x \in appended' : x.call = c} = rows \cup {a}
    OBVIOUS
<1> QED
    BY <1>1, <1>2, FS_AddElement

LEMMA TurnsMove ==
    ASSUME RelayInv, Summary, NEW c \in Calls
    PROVE  calls'[c].turns = Cardinality({x \in appended' : x.call = c})
<1>1. /\ RelayTypeOK /\ calls[c].turns = Cardinality({x \in appended : x.call = c})
      /\ RowMove(c) /\ appended \subseteq appended'
    BY Moves DEF RelayInv, ObservedInv, StoreSummary
<1>2. CASE RowGrows(c)
  <2>1. PICK h \in handlers : /\ Writes(h, "observe", c) /\ OperationId(h.request) \notin appended
                              /\ appended' = appended \cup {OperationId(h.request)}
      BY <1>2 DEF RowGrows
  <2>2. OperationId(h.request).call = c
      BY <2>1 DEF Writes, OperationId
  <2>3. PICK a : a = OperationId(h.request)
      OBVIOUS
  <2> QED
      BY <1>1, <1>2, <2>1, <2>2, <2>3, OneMoreRow DEF RowGrows
<1>3. CASE ~RowGrows(c)
  <2>1. Quiet(c) /\ calls'[c].turns = calls[c].turns
      BY <1>1, <1>3 DEF RowMove, RowBegins, RowMoves, RowRenews, RowFlushes, RowEnds, SameWork
  <2>2. {x \in appended' : x.call = c} = {x \in appended : x.call = c}
      BY <1>1, <2>1 DEF Quiet
  <2> QED
      BY <1>1, <2>1, <2>2
<1> QED
    BY <1>2, <1>3

LEMMA ObservedInvNext ==
    ASSUME RelayInv, Summary, RelayTypeOK'
    PROVE  ObservedInv'
<1>1. ObservedInv /\ RelayTypeOK /\ StoreSummary /\ JournalInv
    BY Moves DEF RelayInv
<1>2. ASSUME NEW r \in Known', r.op = "observe", NEW k \in Commands, Made(r, k)
      PROVE  Issued(k)'
  <2>1. k.op = "observe"
      BY <1>2 DEF Made
  <2>2. CASE r \in Known
      BY <1>2, <2>1, <2>2, KnownFacts, IssuedStays
  <2>3. ASSUME NEW s \in Streams, Fresh(r, s) PROVE Issued(k)'
    <3>1. PICK j \in Of(s) : Made(r, j) /\ cmd'[j] = "holding" /\ stream'[s].sending = r
        BY <2>3 DEF Fresh
    <3>2. j \in Commands /\ StreamOf(j) = s /\ j = k
        BY <1>2, <3>1, OneStream, CommandsAssumption DEF Made
    <3> QED
        BY <3>1, <3>2 DEF Issued, SameOperation, Made
  <2> QED
      BY <1>2, <2>2, <2>3, KnownMoves
<1>3. ASSUME NEW r \in Known, r.op = "observe", NEW q, NEW s \in Streams, Fresh(q, s), q.op = "observe",
             q.call = r.call, q.data = r.data
      PROVE  FALSE
  <2>1. PICK k \in Of(s) : Made(q, k) /\ ~Issued(k)
      BY <1>3 DEF Fresh
  <2>2. PICK j \in Commands : Made(r, j) /\ Issued(j)
      BY <1>3, KnownFacts
  <2>3. k \in Commands /\ k = j
      BY <1>3, <2>1, <2>2, OneStream, CommandsAssumption DEF Made
  <2> QED
      BY <2>1, <2>2, <2>3
<1>4. ASSUME NEW r \in Known', r.op = "observe", NEW q \in Known', q.op = "observe",
             q.call = r.call, q.data = r.data
      PROVE  q = r
  <2>1. CASE r \in Known /\ q \in Known
      BY <1>1, <1>4, <2>1 DEF ObservedInv
  <2>2. ASSUME NEW s \in Streams, Fresh(r, s), r = stream'[s].pending,
               NEW u \in Streams, Fresh(q, u), q = stream'[u].pending
        PROVE  q = r
    <3>1. PICK j \in Of(s) : Made(r, j)
        BY <2>2 DEF Fresh
    <3>2. PICK k \in Of(u) : Made(q, k)
        BY <2>2 DEF Fresh
    <3>3. j = k /\ StreamOf(j) = s /\ StreamOf(k) = u
        BY <1>4, <3>1, <3>2, OneStream, CommandsAssumption DEF Made
    <3> QED
        BY <2>2, <3>3
  <2> QED
      BY <1>3, <1>4, <2>1, <2>2, KnownMoves
<1>5. ASSUME NEW a \in appended'
      PROVE  \E n \in DOMAIN journal'[a.call] :
                journal'[a.call][n].request.op = "observe" /\ a = OperationId(journal'[a.call][n].request)
  <2> DEFINE IsOf(n, r) == /\ a.call \in Calls /\ r = journal[a.call][n].request
                           /\ r.op = "observe" /\ a = OperationId(r)
  <2>1. \E n \in DOMAIN journal[a.call] : \E r : IsOf(n, r)
    <3>1. CASE a \in appended
        BY <1>1, <3>1 DEF ObservedInv, RelayTypeOK
    <3>2. ASSUME NEW h \in handlers, Writes(h, "observe", h.request.call), a = OperationId(h.request)
          PROVE  \E n \in DOMAIN journal[a.call] : \E r : IsOf(n, r)
      <4>1. a.call = h.request.call /\ a.call \in Calls
          BY <1>1, <3>2, HandlerFacts, RequestFacts DEF OperationId
      <4>2. h.request.seq \in DOMAIN journal[a.call] /\ journal[a.call][h.request.seq].request = h.request
          BY <1>1, <3>2, <4>1 DEF Writes, JournalInv
      <4> QED
          BY <3>2, <4>1, <4>2 DEF Writes
    <3> QED
        BY <1>1, <3>1, <3>2 DEF StoreSummary
  <2>2. PICK n \in DOMAIN journal[a.call] : \E r : IsOf(n, r)
      BY <2>1
  <2>3. PICK r : IsOf(n, r)
      BY <2>2
  <2>4. n \in DOMAIN journal'[a.call] /\ journal'[a.call][n].request = r
      BY <2>3, Moves, RowsStay
  <2> QED
      BY <2>3, <2>4
<1>6. \A c \in Calls : calls'[c].turns = Cardinality({x \in appended' : x.call = c})
    BY TurnsMove
<1> QED
  <2>1. \A r \in Known' : r.op = "observe" =>
            /\ \A k \in Commands : Made(r, k) => Issued(k)'
            /\ \A q \in Known' : q.op = "observe" /\ q.call = r.call /\ q.data = r.data => q = r
      BY <1>2, <1>4
  <2> QED
      BY <1>5, <1>6, <2>1 DEF ObservedInv

-----------------------------------------------------------------------------
(* Leases *)

\* A row that changes hands: to the client of a request, or to the recovery.
LEMMA NewOwner ==
    ASSUME RelayInv, Summary, NEW l \in leases', l \notin leases
    PROVE  /\ l.call \in Calls /\ Holds(l)' /\ calls'[l.call].gen > calls[l.call].gen
           /\ l \in Lease /\ l.gen \in Nat
           /\ l = [call |-> l.call, owner |-> calls'[l.call].owner, gen |-> calls'[l.call].gen]
           /\ RowBegins(l.call) \/ RowMoves(l.call)
<1>1. TypeOK' /\ StoreSummary /\ NewLease(l) /\ RowMove(l.call)
    BY Moves DEF StoreSummary, NewLease
<1>2. l \in Lease /\ l.gen \in Nat /\ l = [call |-> l.call, owner |-> l.owner, gen |-> l.gen]
    BY <1>1, CallStoreAssumption DEF TypeOK, Lease
<1>3. ~SameOwner(l.call) /\ ~(calls'[l.call] = calls[l.call])
    BY <1>1, RowFacts DEF NewLease, SameOwner
<1>4. RowBegins(l.call) \/ RowMoves(l.call)
    BY <1>1, <1>3 DEF RowMove, RowRenews, RowGrows, RowFlushes, RowEnds
<1> QED
    BY <1>1, <1>2, <1>4 DEF NewLease, Holds

LEMMA LeaseRequestFacts ==
    ASSUME RelayInv, NEW h \in handlers, h.request.op \in {"begin", "claim"}
    PROVE  /\ IsLeaseRequest(h.request) /\ h.request.by \in Clients
           /\ \E k \in Commands : Made(h.request, k) /\ cmd[k] # "idle" /\ Ready(k)
BY HandlerFacts, RequestFacts DEF RelayInv, LeaseInv, IsLeaseRequest, CommandInv

\* The grant of a new lease, and what it was granted from.
LEMMA NewGrant ==
    ASSUME RelayInv, Summary, NEW l \in leases', l \notin leases
    PROVE  /\ l.owner \in Clients \cup {Sweeper}
           /\ l.owner \in Clients => \E k \in Commands :
                /\ k.by = l.owner /\ k.call = l.call /\ cmd[k] # "idle" /\ Ready(k)
                /\ \/ k.op = "begin" /\ l.gen = 1
                   \/ /\ k.op = "claim" /\ calls[l.call].owner = k.data
                      /\ [call |-> l.call, owner |-> k.data, gen |-> l.gen - 1] \in leases
<1>1. /\ l.call \in Calls /\ l.owner = calls'[l.call].owner /\ l.gen = calls'[l.call].gen
      /\ RowBegins(l.call) \/ RowMoves(l.call)
    BY NewOwner
<1>2. CASE RowBegins(l.call)
  <2>1. PICK h \in handlers : /\ h.request.op = "begin" /\ h.request.call = l.call
                              /\ calls'[l.call].owner = h.request.by /\ calls'[l.call].gen = 1
      BY <1>2 DEF RowBegins
  <2> QED
      BY <1>1, <2>1, LeaseRequestFacts DEF Made
<1>3. CASE RowMoves(l.call)
  <2>1. calls[l.call].gen \in Nat /\ calls[l.call].gen > 0 /\ calls'[l.call].gen = calls[l.call].gen + 1
      BY <1>1, <1>3, Moves, RowFacts DEF RowMoves, Active, RelayInv, OwnersInv
  <2>2. [call |-> l.call, owner |-> calls[l.call].owner, gen |-> calls[l.call].gen] \in leases
      BY <1>1, <2>1 DEF RelayInv, FenceInv, OneOwnerPerGeneration
  <2>3. l.gen - 1 = calls[l.call].gen
      BY <1>1, <2>1
  <2>4. CASE calls'[l.call].owner = Sweeper
      BY <1>1, <2>4, RelayAssumption
  <2>5. ASSUME NEW h \in handlers, h.request.op = "claim", h.request.call = l.call,
               calls[l.call].owner = h.request.data, calls'[l.call].owner = h.request.by
        PROVE  /\ l.owner \in Clients
               /\ \E k \in Commands :
                    /\ k.by = l.owner /\ k.call = l.call /\ cmd[k] # "idle" /\ Ready(k)
                    /\ k.op = "claim" /\ calls[l.call].owner = k.data
                    /\ [call |-> l.call, owner |-> k.data, gen |-> l.gen - 1] \in leases
    <3>1. PICK k \in Commands : Made(h.request, k) /\ cmd[k] # "idle" /\ Ready(k)
        BY <2>5, LeaseRequestFacts
    <3>2. k.by = l.owner /\ k.call = l.call /\ k.op = "claim" /\ k.data = calls[l.call].owner
        BY <1>1, <2>5, <3>1 DEF Made
    <3> QED
        BY <2>2, <2>3, <3>1, <3>2, CommandFacts
  <2> QED
      BY <1>3, <2>4, <2>5 DEF RowMoves
<1> QED
    BY <1>1, <1>2, <1>3

\* What is closed stays closed.
LEMMA ClosedStays ==
    ASSUME RelayInv, Summary, NEW s, Closed(s)
    PROVE  Closed(s)'
BY Moves, CommandsMove DEF Closed

\* A client that handed its call on had closed its stream.
LEMMA HandedOnIsClosed ==
    ASSUME RelayInv, Summary, NEW l \in leases, l.owner \in Clients,
           calls'[l.call].owner \in Clients \ {l.owner}
    PROVE  Closed(<<l.owner, l.call>>)
<1>1. /\ OwnersInv /\ l.call \in Calls /\ l.gen > 0 /\ l.gen <= calls[l.call].gen
      /\ RowMove(l.call) /\ calls[l.call].gen \in Nat /\ l.gen \in Nat
    BY LeaseFacts, Moves, RowFacts DEF RelayInv
<1>2. CASE calls[l.call].owner \in Clients \ {l.owner}
    BY <1>1, <1>2 DEF OwnersInv
<1>3. CASE calls[l.call].owner \notin Clients \ {l.owner}
  <2>1. ~SameOwner(l.call) /\ ~(calls'[l.call] = calls[l.call]) /\ ~RowBegins(l.call)
      BY <1>1, <1>3 DEF SameOwner, RowBegins
  <2>2. RowMoves(l.call)
      BY <1>1, <2>1 DEF RowMove, RowRenews, RowGrows, RowFlushes, RowEnds
  <2>3. PICK h \in handlers : /\ h.request.op = "claim" /\ h.request.call = l.call
                              /\ calls[l.call].owner = h.request.data
                              /\ calls'[l.call].owner = h.request.by
      BY <2>2, RelayAssumption DEF RowMoves
  <2>4. PICK k \in Commands : Made(h.request, k) /\ cmd[k] # "idle" /\ Ready(k)
      BY <2>3, LeaseRequestFacts
  <2>5. k.op = "claim" /\ k.call = l.call /\ k.data = calls[l.call].owner /\ k.data \in Clients
      BY <2>3, <2>4, RelayAssumption DEF Made
  <2>6. k.data = l.owner
      BY <1>3, <2>5
  <2>7. ASSUME NEW j \in Commands, StreamOf(j) = <<l.owner, l.call>>, ~IsLeaseRequest(j)
        PROVE  cmd[j] = "acknowledged"
    <3>1. j.by = k.data /\ j.call = k.call
        BY <2>5, <2>6, <2>7 DEF StreamOf
    <3>2. j.id \in k.after
        BY <2>5, <2>7, <3>1, HandoffAssumption DEF IsLeaseRequest
    <3> QED
        BY <2>4, <3>2 DEF Ready
  <2> QED
      BY <2>7 DEF Closed
<1> QED
    BY <1>2, <1>3

\* No second lease of a call for the same client.
LEMMA OneLeasePerClient ==
    ASSUME RelayInv, Summary, NEW l \in leases', l \notin leases, l.owner \in Clients,
           NEW m \in leases, m.call = l.call, m.owner = l.owner
    PROVE  FALSE
<1>1. OwnersInv /\ m.gen \in Nat /\ m.gen > 0 /\ m.gen <= calls[m.call].gen
    BY LeaseFacts DEF RelayInv
<1>2. l.gen \in Nat /\ l.gen > calls[l.call].gen /\ calls[l.call].gen \in Nat
    BY NewOwner, Moves, RowFacts
<1>3. PICK k \in Commands :
         /\ k.by = l.owner /\ k.call = l.call
         /\ \/ k.op = "begin" /\ l.gen = 1
            \/ /\ k.op = "claim"
               /\ [call |-> l.call, owner |-> k.data, gen |-> l.gen - 1] \in leases
    BY NewGrant
<1>4. PICK j \in Commands : Granted(m, j)
    BY <1>1 DEF OwnersInv
<1>5. j = k
    BY <1>3, <1>4, CommandsAssumption DEF Granted
<1>6. k.op = "claim"
    BY <1>1, <1>2, <1>3
<1>7. k.data \in Clients
    BY <1>6, RelayAssumption
<1>8. PICK a, b \in leases : /\ a = [call |-> l.call, owner |-> k.data, gen |-> l.gen - 1]
                             /\ b = [call |-> l.call, owner |-> k.data, gen |-> m.gen - 1]
    BY <1>3, <1>4, <1>5, <1>6 DEF Granted
<1>9. a.owner = k.data /\ b.owner = k.data /\ a.call = b.call /\ a.gen = l.gen - 1 /\ b.gen = m.gen - 1
    BY <1>8
<1>10. a = b
    BY <1>1, <1>7, <1>9 DEF OwnersInv
<1> QED
    BY <1>1, <1>2, <1>9, <1>10

LEMMA OwnersInvNext ==
    ASSUME RelayInv, Summary
    PROVE  OwnersInv'
<1>1. OwnersInv /\ TypeOK' /\ StoreSummary /\ \A c \in Calls : RowMove(c)
    BY Moves DEF RelayInv
<1>2. ASSUME NEW c \in Calls, calls'[c].status # "absent" PROVE calls'[c].gen > 0
  <2>1. CASE calls[c].status # "absent"
    <3>1. calls[c].gen > 0
        BY <1>1, <2>1 DEF OwnersInv
    <3> QED
        BY <1>1, <3>1, RowFacts DEF SameOwner
  <2>2. CASE calls[c].status = "absent"
    <3>1. RowBegins(c) \/ RowGrows(c)
        BY <1>1, <1>2, <2>2 DEF RowMove, RowMoves, RowRenews, RowFlushes, RowEnds, Active
    <3>2. ~RowGrows(c)
        BY <1>2, <2>2 DEF RowGrows
    <3> QED
        BY <3>1, <3>2 DEF RowBegins
  <2> QED
      BY <2>1, <2>2
<1>3. \A l \in leases' : l.owner \in Clients \cup {Sweeper}
    BY <1>1, NewGrant DEF OwnersInv
<1>4. ASSUME NEW l \in leases', l.owner \in Clients
      PROVE  /\ \E k \in Commands : Granted(l, k)'
             /\ \A m \in leases' : m.call = l.call /\ m.owner = l.owner => m = l
             /\ calls'[l.call].owner \in Clients \ {l.owner} => Closed(<<l.owner, l.call>>)'
  <2>1. \E k \in Commands : Granted(l, k)'
    <3>1. CASE l \in leases
        BY <1>1, <1>4, <3>1 DEF OwnersInv, Granted, StoreSummary
    <3>2. CASE l \notin leases
        BY <1>1, <1>4, <3>2, NewGrant DEF Granted, StoreSummary
    <3> QED
        BY <3>1, <3>2
  <2>2. ASSUME NEW m \in leases', m.call = l.call, m.owner = l.owner PROVE m = l
    <3>1. CASE l \in leases /\ m \in leases
        BY <1>1, <1>4, <2>2, <3>1 DEF OwnersInv
    <3>2. CASE l \notin leases /\ m \notin leases
        BY <2>2, <3>2, NewOwner
    <3>3. CASE l \notin leases /\ m \in leases
        BY <1>4, <2>2, <3>3, OneLeasePerClient
    <3>4. CASE l \in leases /\ m \notin leases
        BY <1>4, <2>2, <3>4, OneLeasePerClient
    <3> QED
        BY <3>1, <3>2, <3>3, <3>4
  <2>3. ASSUME calls'[l.call].owner \in Clients \ {l.owner} PROVE Closed(<<l.owner, l.call>>)'
    <3>1. CASE l \in leases
        BY <1>4, <2>3, <3>1, HandedOnIsClosed, ClosedStays
    <3>2. CASE l \notin leases
        BY <2>3, <3>2, NewOwner DEF Holds
    <3> QED
        BY <3>1, <3>2
  <2> QED
      BY <2>1, <2>2, <2>3
<1> QED
    BY <1>2, <1>3, <1>4 DEF OwnersInv

\* An answer stays right: the sequence it names is next until its stream has begun.
LEMMA AnswerStays ==
    ASSUME RelayInv, Summary, NEW s \in Streams, NEW a, AnswerFor(a, s)
    PROVE  AnswerFor(a, s)' /\ (BeginsAt(a, s) => BeginsAt(a, s)')
<1>1. /\ StoreSummary /\ StreamMove(s) /\ JournalMove(s[2]) /\ TypeOK' /\ RelayTypeOK
      /\ s[1] \in Clients /\ s[2] \in Calls /\ s = <<s[1], s[2]>>
    BY Moves, StreamFacts DEF RelayInv
<1>2. AnswerFor(a, s)'
    BY <1>1 DEF AnswerFor, StoreSummary
<1>3. ASSUME BeginsAt(a, s), Holds(a.lease)', stream'[s].lease = NoLease
      PROVE  a.next = cursor'[s[2]] + 1
  <2>1. Holds(a.lease) /\ a.lease.owner = s[1] /\ a.lease.call = s[2]
      BY <1>1, <1>3, HoldsIsNotRegained DEF AnswerFor
  <2>2. stream[s].lease = NoLease
      BY <1>1, <1>3, StreamKeeps
  <2>3. a.next = cursor[s[2]] + 1
      BY <1>3, <2>1, <2>2 DEF BeginsAt
  <2>4. ASSUME NEW h \in handlers, ~IsLeaseRequest(h.request), h.request.call = s[2],
               h.request.by = s[1]
        PROVE  FALSE
    <3>1. Sent(h.request) = s
        BY <1>1, <2>4 DEF Sent
    <3> QED
        BY <2>2, <2>4, <3>1 DEF RelayInv, ArrivedInv, UpdateOf
  <2>5. cursor'[s[2]] = cursor[s[2]]
      BY <1>1, <2>1, <2>4, CursorMoves DEF Holds
  <2> QED
      BY <2>3, <2>5
<1> QED
    BY <1>2, <1>3 DEF BeginsAt

LEMMA LeaseInvNext ==
    ASSUME RelayInv, Summary, RelayTypeOK'
    PROVE  LeaseInv'
<1>1. /\ LeaseInv /\ RelayTypeOK /\ StoreSummary
      /\ \A s \in Streams : StreamMove(s) /\ AnswerMove(s)
      /\ \A g \in handlers' : Came(g)
    BY Moves DEF RelayInv
<1>2. ASSUME NEW s \in Streams, NEW a, a = leaseAnswers'[s], a # NoAnswer
      PROVE  AnswerFor(a, s)' /\ BeginsAt(a, s)'
  <2>1. AnswerFor(a, s) /\ BeginsAt(a, s)
      BY <1>1, <1>2 DEF AnswerMove, LeaseInv
  <2> QED
      BY <2>1, AnswerStays
<1>3. ASSUME NEW g \in handlers', IsLeaseRequest(g.request), NEW s \in Streams, s = Sent(g.request)
      PROVE  /\ g.phase # "fenced"
             /\ \E k \in Commands : Made(g.request, k) /\ cmd'[k] # "idle"
             /\ g.phase \in {"granted", "applied"} => AnswerFor(g.answer, s)'
             /\ g.phase = "applied" => BeginsAt(g.answer, s)'
  <2>1. \E k \in Commands : Made(g.request, k) /\ cmd'[k] # "idle"
    <3>1. \E k \in Commands : Made(g.request, k) /\ cmd[k] # "idle"
      <4>1. CASE \E h \in handlers : g.request = h.request
          BY <1>1, <1>3, <4>1 DEF LeaseInv
      <4>2. CASE stream[s].holder # NoCommand /\ g.request = stream[s].sending
          BY <1>3, <4>2, HolderFacts
      <4> QED
          BY <1>1, <1>3, <4>1, <4>2, WhereItCameFrom
    <3> QED
        BY <3>1, Moves, CommandsMove
  <2>2. CASE g \in handlers
    <3>1. /\ g.phase # "fenced"
          /\ g.phase \in {"granted", "applied"} => AnswerFor(g.answer, s)
          /\ g.phase = "applied" => BeginsAt(g.answer, s)
        BY <1>1, <1>3, <2>2 DEF LeaseInv
    <3> QED
        BY <2>1, <3>1, AnswerStays
  <2>3. CASE g.phase = "arrived"
      BY <2>1, <2>3
  <2>4. ASSUME NEW h \in handlers, Progress(h, g)
        PROVE  /\ g.phase # "fenced"
               /\ g.phase \in {"granted", "applied"} => AnswerFor(g.answer, s)'
               /\ g.phase = "applied" => BeginsAt(g.answer, s)'
    <3>1. h.request = g.request /\ Sent(h.request) = s
        BY <1>3, <2>4 DEF Progress
    <3>2. \/ g.phase = "reserved"
          \/ g.phase = "granted" /\ AnswerFor(g.answer, s)'
          \/ /\ h.phase = "granted" /\ g.phase = "applied" /\ g.answer # NoAnswer
             /\ g.answer.lease = h.answer.lease /\ g.answer.next = cursor[g.request.call] + 1
             /\ UNCHANGED <<storeVars, cursor>>
        BY <1>3, <2>4, <3>1 DEF Progress
    <3>3. CASE h.phase = "granted" /\ g.phase = "applied" /\ g.answer # NoAnswer
               /\ g.answer.lease = h.answer.lease /\ g.answer.next = cursor[g.request.call] + 1
               /\ UNCHANGED <<storeVars, cursor>>
      <4>1. AnswerFor(h.answer, s)
          BY <1>1, <1>3, <3>1, <3>3 DEF LeaseInv
      <4>2. AnswerFor(g.answer, s)
          BY <3>3, <4>1 DEF AnswerFor
      <4>3. g.request.call = s[2] /\ cursor[s[2]] \in Nat
          BY <1>1, <3>1, HandlerFacts, StreamFacts DEF RelayTypeOK
      <4>4. BeginsAt(g.answer, s)
          BY <3>3, <4>3 DEF BeginsAt
      <4> QED
          BY <3>3, <4>2, <4>4, AnswerStays
    <3> QED
        BY <3>2, <3>3
  <2> QED
      BY <1>1, <2>1, <2>2, <2>3, <2>4 DEF Came
<1>4. \A g \in handlers' : Sent(g.request) \in Streams
    BY RequestFacts DEF RelayTypeOK, Handlers
<1> QED
  <2>1. \A s \in Streams : \A a : a = leaseAnswers'[s] /\ a # NoAnswer =>
            AnswerFor(a, s)' /\ BeginsAt(a, s)'
      BY <1>2
  <2> QED
      BY <1>3, <1>4, <2>1 DEF LeaseInv

-----------------------------------------------------------------------------
(* What is written, and when *)

\* The one who writes is the owner, and it writes what one of its calls says.
LEMMA WriterFacts ==
    ASSUME RelayInv, NEW c \in Calls, NEW op, NEW h \in handlers, Writes(h, op, c)
    PROVE  /\ calls[c].owner = h.request.by /\ h.request.by \in Clients
           /\ \E k \in Commands :
                k.op = op /\ k.call = c /\ k.by = calls[c].owner /\ k.data = h.request.data
BY UpdateFacts DEF Writes, Holds, Made

LEMMA EndInvNext ==
    ASSUME RelayInv, Summary
    PROVE  EndInv'
<1> SUFFICES ASSUME NEW c \in Calls
             PROVE  /\ calls'[c].result # NoResult => \E k \in Commands :
                         /\ k.op = "flush" /\ k.call = c /\ calls'[c].result.data = k.data
                         /\ calls'[c].owner \in {k.by, Sweeper}
                    /\ Terminal(c)' => \E k \in Commands :
                         /\ k.op = "terminalize" /\ k.call = c /\ calls'[c].reason = k.data
                         /\ calls'[c].owner = k.by
    BY DEF EndInv
<1>1. RowMove(c) /\ BlankInv
    BY Moves DEF RelayInv
<1>2. /\ calls[c].result # NoResult => \E k \in Commands :
           /\ k.op = "flush" /\ k.call = c /\ calls[c].result.data = k.data
           /\ calls[c].owner \in {k.by, Sweeper}
      /\ Terminal(c) => \E k \in Commands :
           /\ k.op = "terminalize" /\ k.call = c /\ calls[c].reason = k.data
           /\ calls[c].owner = k.by
    BY DEF RelayInv, EndInv
<1>3. CASE calls'[c] = calls[c]
    BY <1>2, <1>3 DEF Terminal
<1>4. CASE RowBegins(c)
  <2>1. calls[c] = AbsentRow
      BY <1>1, <1>4 DEF RowBegins, BlankInv
  <2>2. calls'[c].result = NoResult /\ ~Terminal(c)'
      BY <1>4, <2>1 DEF RowBegins, SameWork, AbsentRow, Terminal, TerminalStatuses
  <2> QED
      BY <2>2
<1>5. CASE RowMoves(c)
  <2>1. ~Terminal(c)' /\ calls'[c].result = calls[c].result
      BY <1>5 DEF RowMoves, SameWork, Terminal, TerminalStatuses
  <2>2. CASE calls'[c].owner = Sweeper
      BY <1>2, <2>1, <2>2
  <2>3. ASSUME NEW h \in handlers, h.request.op = "claim", h.request.call = c,
               calls[c].owner = h.request.data, calls[c].result # NoResult
        PROVE  FALSE
    <3>1. PICK k \in Commands : Made(h.request, k)
        BY <2>3, LeaseRequestFacts
    <3>2. k.op = "claim" /\ k.call = c /\ k.data = calls[c].owner /\ k.data \in Clients
        BY <2>3, <3>1, RelayAssumption DEF Made
    <3>3. PICK j \in Commands : j.op = "flush" /\ j.call = c /\ calls[c].owner \in {j.by, Sweeper}
        BY <1>2, <2>3
    <3>4. j.by = k.data
        BY <3>2, <3>3, RelayAssumption
    <3> QED
        BY <3>2, <3>3, <3>4, HandoffAssumption
  <2> QED
      BY <1>5, <2>1, <2>2, <2>3 DEF RowMoves
<1>6. CASE RowRenews(c)
    BY <1>2, <1>6 DEF RowRenews, SameWork, SameOwner, Terminal, TerminalStatuses
<1>7. CASE RowGrows(c)
    BY <1>2, <1>7 DEF RowGrows, SameOwner, Terminal
<1>8. CASE RowFlushes(c)
  <2>1. PICK h \in handlers : Writes(h, "flush", c) /\ calls'[c].result.data = h.request.data
      BY <1>8 DEF RowFlushes
  <2> QED
      BY <1>8, <2>1, WriterFacts DEF RowFlushes, SameOwner, Terminal, TerminalStatuses
<1>9. CASE RowEnds(c)
  <2>1. PICK h \in handlers : Writes(h, "terminalize", c) /\ calls'[c].reason = h.request.data
      BY <1>9 DEF RowEnds
  <2> QED
      BY <1>2, <1>9, <2>1, WriterFacts DEF RowEnds, SameOwner
<1> QED
    BY <1>1, <1>3, <1>4, <1>5, <1>6, <1>7, <1>8, <1>9 DEF RowMove

\* A later reading ends later.
LEMMA LaterIsMonotone ==
    ASSUME NEW t \in Nat, NEW u \in Nat, t <= u
    PROVE  /\ Later(t, LeaseTTL) <= Later(u, LeaseTTL) /\ NoTime <= Later(u, LeaseTTL)
           /\ Later(t, LeaseTTL) \in Int /\ Later(u, LeaseTTL) \in Int /\ Later(t, LeaseTTL) <= Horizon
BY CallStoreAssumption DEF Later, NoTime

\* Requests inside the service are of the past.
LEMMA HandlersAge ==
    ASSUME RelayInv, Summary, NEW g \in handlers'
    PROVE  g.request.at <= now /\ g.request.at \in Nat /\ now \in Nat
<1>1. now \in Nat /\ AgeInv /\ RelayTypeOK /\ Came(g)
    BY Moves DEF RelayInv, FenceInv, TypeOK
<1>2. CASE \E h \in handlers : g.request = h.request
    BY <1>1, <1>2, HandlerFacts, RequestFacts DEF AgeInv
<1>3. ASSUME NEW s \in Streams, g.request = stream[s].sending, g.request \in Requests
      PROVE  g.request.at <= now /\ g.request.at \in Nat
    BY <1>1, <1>3, RequestFacts DEF AgeInv
<1> QED
    BY <1>1, <1>2, <1>3, WhereItCameFrom

\* No step extends a lease beyond what one granted now would reach.
LEMMA LeasesAge ==
    ASSUME RelayInv, Summary, NEW c \in Calls
    PROVE  calls'[c].expires <= Later(now, LeaseTTL) /\ calls'[c].expires \in Int
<1>1. /\ RowMove(c) /\ now \in Nat /\ calls[c].expires <= Later(now, LeaseTTL) /\ RelayTypeOK
      /\ calls'[c].expires \in Int
    BY Moves, RowFacts DEF RelayInv, FenceInv, TypeOK, AgeInv, CallRow, Time
<1>2. ASSUME NEW h \in handlers PROVE Later(h.request.at, LeaseTTL) <= Later(now, LeaseTTL)
    BY <1>1, HandlerFacts, RequestFacts, LaterIsMonotone DEF RelayInv, AgeInv
<1>3. Later(now, LeaseTTL) \in Int /\ NoTime <= Later(now, LeaseTTL)
    BY <1>1, LaterIsMonotone
<1>4. CASE calls'[c].expires = calls[c].expires \/ calls'[c].expires = NoTime
           \/ calls'[c].expires = Later(now, LeaseTTL)
    BY <1>1, <1>3, <1>4
<1>5. CASE RowBegins(c) \/ RowMoves(c) \/ RowRenews(c)
    BY <1>1, <1>2, <1>4, <1>5 DEF RowBegins, RowMoves, RowRenews
<1>6. CASE RowGrows(c) \/ RowFlushes(c) \/ RowEnds(c)
    BY <1>4, <1>6 DEF RowGrows, RowFlushes, RowEnds
<1> QED
    BY <1>1, <1>4, <1>5, <1>6 DEF RowMove

\* What a held lease does in a step: it rests, is renewed by its holder, or ends.
LEMMA HeldLease ==
    ASSUME RelayInv, Summary, NEW l \in leases, Holds(l)'
    PROVE  \/ calls'[l.call].expires = calls[l.call].expires
           \/ calls'[l.call].expires = NoTime
           \/ \E h \in handlers :
                /\ ~IsLeaseRequest(h.request) /\ h.request.by = l.owner /\ h.request.call = l.call
                /\ calls'[l.call].expires = Later(h.request.at, LeaseTTL)
<1>1. /\ RowMove(l.call) /\ SameOwner(l.call) /\ Holds(l) /\ l.call \in Calls
      /\ calls[l.call].gen \in Nat /\ l.gen = calls[l.call].gen /\ l.gen > 0
    BY Moves, HoldsIsNotRegained, LeaseFacts, RowFacts DEF Holds
<1>2. ~RowBegins(l.call) /\ ~RowMoves(l.call)
    BY <1>1 DEF RowBegins, RowMoves, SameOwner
<1>3. ASSUME RowRenews(l.call)
      PROVE  \E h \in handlers :
                /\ ~IsLeaseRequest(h.request) /\ h.request.by = l.owner /\ h.request.call = l.call
                /\ calls'[l.call].expires = Later(h.request.at, LeaseTTL)
    BY <1>1, <1>3 DEF RowRenews, Writes, Holds
<1> QED
    BY <1>1, <1>2, <1>3 DEF RowMove, RowGrows, RowFlushes, RowEnds

LEMMA AgeInvNext ==
    ASSUME RelayInv, Summary, RelayTypeOK'
    PROVE  AgeInv'
<1>1. /\ now \in Nat /\ now' \in Nat /\ now <= now' /\ RelayTypeOK /\ AgeInv /\ StoreSummary
      /\ TypeOK' /\ \A g \in handlers' : Came(g)
    BY Moves DEF RelayInv, FenceInv, TypeOK, StoreSummary
<1>2. ASSUME NEW g \in handlers' PROVE g.request.at <= now'
    BY <1>1, HandlersAge
<1>3. ASSUME NEW c \in Calls PROVE calls'[c].expires <= Later(now', LeaseTTL)
    BY <1>1, LeasesAge, LaterIsMonotone
<1>4. ASSUME NEW s \in Streams, stream'[s].sending # NoRequest
      PROVE  stream'[s].sending.at <= now'
  <2>1. StreamMove(s) /\ (stream[s].sending # NoRequest => stream[s].sending.at <= now)
        /\ (stream[s].pending # NoRequest => stream[s].pending.at <= now)
        /\ stream'[s].sending \in Requests
      BY <1>1, <1>4, Moves DEF AgeInv, RelayTypeOK, StreamRow
  <2>2. stream'[s].sending.at \in Nat
      BY <2>1, RequestFacts
  <2>3. stream'[s].sending.at <= now
    <3>1. CASE stream'[s].sending = stream[s].sending
        BY <1>4, <2>1, <3>1
    <3>2. ASSUME Takes(s) PROVE stream'[s].sending.at <= now
      <4>1. PICK k \in Of(s) : stream'[s].sending = First(s, k)
          BY <3>2 DEF Takes, Becomes
      <4>2. k \in Commands
          BY OneStream
      <4>3. Request(k).at = now
          BY <4>2, RequestMade DEF RelayInv, FenceInv
      <4> QED
          BY <1>1, <2>1, <4>1, <4>3 DEF First
    <3>3. ASSUME GoesOn(s) PROVE stream'[s].sending.at <= now
      <4>1. stream'[s].pending = stream'[s].sending
          BY <3>3 DEF GoesOn, Becomes
      <4>2. stream'[s].pending # NoRequest /\ cursor'[s[2]] \in Nat
          BY <1>4, <4>1, StreamFacts DEF RelayTypeOK, RelayInv
      <4> QED
          BY <1>1, <2>1, <4>1, <4>2, PendingMoves DEF Fresh
    <3>4. CASE GivesUp(s) \/ GetsLease(s) \/ GetsAnswer(s)
        BY <1>4, <3>4 DEF GivesUp, GetsLease, GetsAnswer, Becomes
    <3> QED
        BY <2>1, <3>1, <3>2, <3>3, <3>4 DEF StreamMove, Rests, Enters, Leaves, Sends, Retries, Becomes
  <2> QED
      BY <1>1, <2>2, <2>3
<1>5. ASSUME NEW s \in Streams, NEW p, p = stream'[s].pending, p # NoRequest
      PROVE  /\ p.at <= now'
             /\ \A g \in handlers' : ~IsLeaseRequest(g.request) /\ Sent(g.request) = s =>
                  g.request.at <= p.at
             /\ \A l : l = stream'[s].lease /\ Holds(l)' =>
                  calls'[s[2]].expires <= Later(p.at, LeaseTTL)
  <2>1. /\ StreamMove(s) /\ s[2] \in Calls /\ cursor'[s[2]] \in Nat /\ p \in Requests /\ p.at \in Nat
      BY <1>5, Moves, StreamFacts, RequestFacts DEF RelayTypeOK, StreamRow, RelayInv
  <2>2. CASE Fresh(p, s)
    <3>1. p.at = now
        BY <2>2 DEF Fresh
    <3>2. calls'[s[2]].expires <= Later(p.at, LeaseTTL)
        BY <2>1, <3>1, LeasesAge
    <3> QED
        BY <1>1, <3>1, <3>2, HandlersAge
  <2>3. CASE p = stream[s].pending
    <3>1. /\ p.at <= now
          /\ \A h \in handlers : ~IsLeaseRequest(h.request) /\ Sent(h.request) = s =>
               h.request.at <= p.at
          /\ Holds(stream[s].lease) => calls[s[2]].expires <= Later(p.at, LeaseTTL)
        BY <1>1, <1>5, <2>3 DEF AgeInv
    <3>2. ASSUME NEW g \in handlers', ~IsLeaseRequest(g.request), Sent(g.request) = s
          PROVE  g.request.at <= p.at
      <4>1. CASE \E h \in handlers : g.request = h.request
          BY <3>1, <3>2, <4>1
      <4>2. CASE g.request = stream[s].pending
          BY <2>1, <2>3, <4>2
      <4> QED
          BY <1>1, <3>2, <4>1, <4>2, WhereItCameFrom
    <3>3. ASSUME NEW l, l = stream'[s].lease, Holds(l)'
          PROVE  calls'[s[2]].expires <= Later(p.at, LeaseTTL)
      <4>1. stream[s].lease \in leases /\ stream[s].lease.owner = s[1] /\ stream[s].lease.call = s[2]
            /\ stream[s].lease # NoLease
          BY <1>5, <2>3 DEF RelayInv, PendingInv, UpdateOf
      <4>2. l = stream[s].lease
          BY <2>1, <3>3, <4>1, StreamKeeps
      <4>3. Holds(l) /\ l \in leases
          BY <1>1, <3>3, <4>1, <4>2, HoldsIsNotRegained
      <4>4. ASSUME NEW h \in handlers, ~IsLeaseRequest(h.request), h.request.by = l.owner,
                   h.request.call = l.call
            PROVE  Later(h.request.at, LeaseTTL) <= Later(p.at, LeaseTTL)
        <5>1. Sent(h.request) = s
            BY <4>1, <4>2, <4>4, StreamFacts, <1>1 DEF Sent
        <5> QED
            BY <1>1, <2>1, <3>1, <4>4, <5>1, UpdateFacts, LaterIsMonotone
      <4> QED
          BY <2>1, <3>1, <3>3, <4>1, <4>2, <4>3, <4>4, HeldLease, LaterIsMonotone
    <3> QED
        BY <1>1, <2>1, <3>1, <3>2, <3>3
  <2> QED
      BY <1>5, <2>1, <2>2, <2>3, PendingMoves
<1> QED
  <2>1. \A s \in Streams : \A p : p = stream'[s].pending /\ p # NoRequest =>
             /\ p.at <= now'
             /\ \A g \in handlers' : ~IsLeaseRequest(g.request) /\ Sent(g.request) = s =>
                  g.request.at <= p.at
             /\ \A l : l = stream'[s].lease /\ Holds(l)' =>
                  calls'[s[2]].expires <= Later(p.at, LeaseTTL)
      BY <1>5
  <2>2. \A s \in Streams : Holds(stream[s].lease)' <=> \E l : l = stream'[s].lease /\ Holds(l)'
      BY DEF Holds
  <2> QED
      BY <1>2, <1>3, <1>4, <2>1, <2>2 DEF AgeInv

-----------------------------------------------------------------------------
(* What the client knows *)

LEMMA AcknowledgedIsDurableNext ==
    ASSUME RelayInv, Summary, RelayTypeOK'
    PROVE  AcknowledgedIsDurable'
<1> SUFFICES ASSUME NEW k \in Commands, cmd'[k] = "acknowledged", NEW s \in Streams, s = StreamOf(k)
             PROVE  /\ k.op = "observe" =>
                         \E a \in appended' : a.call = k.call /\ a.data = k.data
                    /\ k.op = "flush" => /\ calls'[k.call].result # NoResult
                                         /\ calls'[k.call].result.data = k.data
                    /\ k.op = "terminalize" => Terminal(k.call)' /\ calls'[k.call].reason = k.data
                    /\ IsLeaseRequest(k) => stream'[s].lease \in leases'
    BY CommandFacts DEF AcknowledgedIsDurable
<1>1. /\ StreamMove(s) /\ StoreSummary /\ k \in Of(s) /\ k.call \in Calls /\ s[2] = k.call
      /\ PendingInv' /\ CommandInv'
    BY Moves, CommandFacts, PendingInvNext, CommandInvNext DEF Of
<1>2. IsLeaseRequest(k) => stream'[s].lease \in leases'
    BY <1>1 DEF PendingInv, CommandInv
<1>3. CASE cmd[k] = "acknowledged"
  <2>1. /\ k.op = "observe" => \E a \in appended : a.call = k.call /\ a.data = k.data
        /\ k.op = "flush" => calls[k.call].result # NoResult /\ calls[k.call].result.data = k.data
        /\ k.op = "terminalize" => Terminal(k.call) /\ calls[k.call].reason = k.data
      BY <1>3 DEF RelayInv, AcknowledgedIsDurable
  <2> QED
      BY <1>1, <1>2, <2>1, WorkIsKept DEF StoreSummary
<1>4. CASE cmd[k] # "acknowledged"
  <2>1. GetsLease(s) \/ GetsAnswer(s)
      BY <1>1, <1>4 DEF StreamMove, Rests, Enters, Leaves, Takes, Sends, Retries, GivesUp, GoesOn,
         Kept, Only
  <2>2. k = stream[s].holder /\ stream[s].holder # NoCommand
      BY <1>1, <1>4, <2>1 DEF GetsLease, GetsAnswer, IsAnswered, Only
  <2>3. CASE IsLeaseRequest(k)
      BY <1>2, <2>3 DEF IsLeaseRequest
  <2>4. CASE ~IsLeaseRequest(k)
    <3>1. ~IsLeaseRequest(stream[s].sending)
        BY <2>2, <2>4, LeaseHolder
    <3>2. PICK r : /\ r = stream[s].sending /\ Done(r) /\ SameOperation(k, r)
                   /\ UNCHANGED <<storeVars, appended>>
        BY <2>1, <2>2, <3>1 DEF GetsLease, GetsAnswer, IsAnswered
    <3>3. r.call = k.call /\ r.op = k.op /\ r.data = k.data
        BY <1>1, <2>2, <3>1, <3>2, HolderFacts, RequestFacts DEF SameOperation
    <3>4. OperationId(r).call = k.call /\ OperationId(r).data = k.data
        BY <3>3 DEF OperationId
    <3> QED
        BY <1>2, <3>2, <3>3, <3>4 DEF Done, storeVars, Terminal
  <2> QED
      BY <2>3, <2>4
<1> QED
    BY <1>3, <1>4

LEMMA ClientInStepNext ==
    ASSUME RelayInv, Summary, RelayTypeOK'
    PROVE  ClientInStepWithJournal'
<1> SUFFICES ASSUME NEW s \in Streams, NEW l, l = stream'[s].lease, l # NoLease, Holds(l)'
             PROVE  \/ stream'[s].next = cursor'[s[2]] + 1
                    \/ /\ stream'[s].next = cursor'[s[2]]
                       /\ stream'[s].pending # NoRequest /\ stream'[s].pending.seq = stream'[s].next
  <2>1. \A s \in Streams : Holds(stream[s].lease)' <=> \E l : l = stream'[s].lease /\ Holds(l)'
      BY DEF Holds
  <2> QED
      BY <2>1 DEF ClientInStepWithJournal
<1>1. /\ StreamMove(s) /\ JournalMove(s[2]) /\ StoreSummary /\ TypeOK' /\ RelayTypeOK
      /\ s[1] \in Clients /\ s[2] \in Calls /\ s = <<s[1], s[2]>> /\ PendingInv'
    BY Moves, StreamFacts, PendingInvNext DEF RelayInv
<1>2. /\ cursor[s[2]] \in Nat /\ cursor'[s[2]] \in {cursor[s[2]], cursor[s[2]] + 1}
      /\ stream[s].next \in Nat /\ stream'[s].next \in Nat
    BY <1>1, CursorMoves DEF RelayTypeOK, StreamRow
<1>3. stream'[s].pending # NoRequest => stream'[s].pending.seq = stream'[s].next
    BY <1>1 DEF PendingInv
<1>4. CASE stream[s].lease = NoLease
  <2>1. GetsLease(s)
    <3>1. ~GetsAnswer(s) /\ ~GoesOn(s)
        BY <1>4 DEF GetsAnswer, GoesOn, Becomes
    <3> QED
        BY <1>1, <1>4, <3>1 DEF StreamMove, Rests, Enters, Leaves, Takes, Sends, Retries,
           GivesUp, Becomes
  <2>2. PICK a \in Answers : /\ AnswerFor(a, s) /\ BeginsAt(a, s) /\ l = a.lease
                             /\ stream'[s].next = a.next
      BY <2>1 DEF GetsLease, Becomes
  <2>3. cursor' = cursor /\ l \in leases
      BY <2>1, <2>2 DEF GetsLease, AnswerFor
  <2>4. Holds(l)
      BY <1>1, <2>3, HoldsIsNotRegained
  <2> QED
      BY <1>4, <2>2, <2>3, <2>4 DEF BeginsAt
<1>5. CASE stream[s].lease # NoLease
  <2>1. /\ l = stream[s].lease /\ l \in leases /\ l.owner = s[1] /\ l.call = s[2]
        /\ stream'[s].next \in {stream[s].next, stream[s].next + 1}
      BY <1>1, <1>5, StreamKeeps DEF RelayInv, PendingInv
  <2>2. Holds(l) /\ calls[s[2]].owner = s[1]
      BY <1>1, <2>1, HoldsIsNotRegained DEF Holds
  <2>3. \/ stream[s].next = cursor[s[2]] + 1
        \/ /\ stream[s].next = cursor[s[2]]
           /\ stream[s].pending # NoRequest /\ stream[s].pending.seq = stream[s].next
      BY <1>5, <2>1, <2>2 DEF RelayInv, ClientInStepWithJournal
  <2>4. stream[s].pending # NoRequest => stream[s].pending.seq = stream[s].next
      BY DEF RelayInv, PendingInv
  <2>5. cursor'[s[2]] # cursor[s[2]] =>
            stream[s].pending # NoRequest /\ stream[s].pending.seq = cursor'[s[2]]
    <3>1. SUFFICES ASSUME cursor'[s[2]] # cursor[s[2]]
                   PROVE  stream[s].pending # NoRequest /\ stream[s].pending.seq = cursor'[s[2]]
        OBVIOUS
    <3>2. PICK h \in handlers :
             /\ h.request.call = s[2] /\ h.request.seq = cursor'[s[2]] /\ h.request.by = s[1]
             /\ h.request = stream[Sent(h.request)].pending /\ h.request # NoRequest
        BY <1>1, <2>2, <3>1, CursorMoves
    <3>3. Sent(h.request) = s
        BY <1>1, <3>2 DEF Sent
    <3> QED
        BY <3>2, <3>3
  <2>6. CASE stream[s].pending # NoRequest
      BY <1>1, <1>2, <1>3, <2>1, <2>3, <2>4, <2>5, <2>6, StreamKeeps
  <2>7. CASE stream[s].pending = NoRequest
    <3>1. cursor'[s[2]] = cursor[s[2]] /\ stream[s].next = cursor[s[2]] + 1
        BY <2>3, <2>5, <2>7
    <3>2. ~GetsAnswer(s) /\ ~GoesOn(s)
      <4>1. ASSUME stream[s].holder # NoCommand, ~IsLeaseRequest(stream[s].sending) PROVE FALSE
          BY <2>7, <4>1, HolderFacts, Sentinels
      <4> QED
          BY <4>1 DEF GetsAnswer, GoesOn, IsAnswered
    <3>3. ~GetsLease(s)
        BY <1>5, LeaseHolder DEF GetsLease
    <3>4. stream'[s].next = stream[s].next
        BY <1>1, <3>2, <3>3 DEF StreamMove, Rests, Enters, Leaves, Takes, Sends, Retries, GivesUp,
           Becomes
    <3> QED
        BY <3>1, <3>4
  <2> QED
      BY <2>6, <2>7
<1> QED
    BY <1>4, <1>5

-----------------------------------------------------------------------------
(* Types *)

CommandStates == {"idle", "waiting", "holding", "acknowledged", "failed", "cancelled"}

ClientTypes == cmd \in [Commands -> CommandStates] /\ stream \in [Streams -> StreamRow]

HandlerTypes == handlers \subseteq Handlers /\ IsFiniteSet(handlers)

LEMMA RelayTypes ==
    RelayTypeOK <=>
        /\ ClientTypes /\ HandlerTypes
        /\ journal \in [Calls -> Seq(JournalRow)] /\ cursor \in [Calls -> Nat]
        /\ leaseAnswers \in [Streams -> Answers \cup {NoAnswer}]
        /\ appended \subseteq [by : Clients, call : Calls, seq : Nat, data : Payloads]
        /\ IsFiniteSet(appended)
        /\ accepting \in BOOLEAN /\ mishaps \in Nat
BY DEF RelayTypeOK, ClientTypes, HandlerTypes, CommandStates

LEMMA CommandType ==
    ASSUME cmd \in [Commands -> CommandStates], NEW k \in Commands, NEW state \in CommandStates
    PROVE  [cmd EXCEPT ![k] = state] \in [Commands -> CommandStates]
OBVIOUS

LEMMA StreamType ==
    ASSUME stream \in [Streams -> StreamRow], NEW s \in Streams, NEW row \in StreamRow
    PROVE  [stream EXCEPT ![s] = row] \in [Streams -> StreamRow]
OBVIOUS

LEMMA ReleasedType ==
    ASSUME NEW row \in StreamRow
    PROVE  Released(row) \in StreamRow
<1>1. [row EXCEPT !.holder = NoCommand] \in StreamRow
    BY DEF StreamRow
<1>2. [[row EXCEPT !.holder = NoCommand] EXCEPT !.sending = NoRequest] \in StreamRow
    BY <1>1 DEF StreamRow
<1>3. [[[row EXCEPT !.holder = NoCommand] EXCEPT !.sending = NoRequest] EXCEPT !.awaited = 0]
        \in StreamRow
    BY <1>2 DEF StreamRow
<1> QED
    BY <1>3 DEF Released

LEMMA HolderEndsType ==
    ASSUME RelayInv, NEW s \in Streams, NEW state \in CommandStates, stream[s].holder # NoCommand,
           HolderEnds(s, state)
    PROVE  ClientTypes'
<1>1. ClientTypes /\ stream[s] \in StreamRow /\ stream[s].holder \in Commands
    BY RelayTypes, StreamFacts DEF RelayInv
<1>2. stream' = [stream EXCEPT ![s] = Released(stream[s])]
    BY DEF HolderEnds
<1> QED
    BY <1>1, <1>2, ReleasedType, CommandType, StreamType DEF ClientTypes, HolderEnds

LEMMA AttemptFailedType ==
    ASSUME RelayInv, NEW s \in Streams, stream[s].holder # NoCommand, AttemptFailed(s)
    PROVE  ClientTypes'
<1>1. ClientTypes /\ stream[s] \in StreamRow
    BY RelayTypes, StreamFacts DEF RelayInv
<1>2. CASE HolderEnds(s, "failed")
    BY <1>2, HolderEndsType DEF CommandStates
<1>3. CASE stream' = [stream EXCEPT ![s].awaited = 0] /\ cmd' = cmd
  <2>1. [stream[s] EXCEPT !.awaited = 0] \in StreamRow
      BY <1>1 DEF StreamRow
  <2> QED
      BY <1>1, <1>3, <2>1 DEF ClientTypes
<1> QED
    BY <1>2, <1>3 DEF AttemptFailed

LEMMA AcknowledgedType ==
    ASSUME RelayInv, NEW s \in Streams, stream[s].holder # NoCommand, NEW a, Acknowledged(s, a),
           IsLeaseRequest(stream[s].sending) => a \in Answers
    PROVE  ClientTypes'
<1> DEFINE k == stream[s].holder
           r == stream[s].sending
           own == [Request(k) EXCEPT !.seq = r.seq + 1]
<1>1. ClientTypes /\ stream[s] \in StreamRow /\ k \in Commands /\ r \in Requests /\ r.seq \in Nat
      /\ Released(stream[s]) \in StreamRow
    BY RelayTypes, HolderFacts, RequestFacts, StreamFacts, ReleasedType DEF RelayInv
<1>2. own \in Requests
  <2> HIDE DEF k, r
  <2> QED
      BY <1>1, RequestMade DEF RelayInv, FenceInv
<1>3. "acknowledged" \in CommandStates
    BY DEF CommandStates
<1>4. CASE IsLeaseRequest(r)
  <2>1. PICK row : row = [Released(stream[s]) EXCEPT !.lease = a.lease, !.next = a.next]
      OBVIOUS
  <2>2. a.lease \in Lease /\ a.next \in Nat
      BY <1>4 DEF Answers
  <2>3. row \in StreamRow
    <3>1. [Released(stream[s]) EXCEPT !.lease = a.lease] \in StreamRow
        BY <1>1, <2>2 DEF StreamRow
    <3>2. [[Released(stream[s]) EXCEPT !.lease = a.lease] EXCEPT !.next = a.next] \in StreamRow
        BY <2>2, <3>1 DEF StreamRow
    <3> QED
        BY <2>1, <3>2
  <2>4. stream' = [stream EXCEPT ![s] = row] /\ cmd' = [cmd EXCEPT ![k] = "acknowledged"]
      BY <1>4, <2>1 DEF Acknowledged
  <2> QED
      BY <1>1, <1>3, <2>3, <2>4, CommandType, StreamType DEF ClientTypes
<1>5. CASE ~IsLeaseRequest(r)
  <2>1. PICK advanced : advanced = [stream[s] EXCEPT !.next = r.seq + 1, !.pending = NoRequest]
      OBVIOUS
  <2>2. advanced \in StreamRow
    <3>1. [stream[s] EXCEPT !.next = r.seq + 1] \in StreamRow
        BY <1>1 DEF StreamRow
    <3>2. [[stream[s] EXCEPT !.next = r.seq + 1] EXCEPT !.pending = NoRequest] \in StreamRow
        BY <3>1 DEF StreamRow
    <3> QED
        BY <2>1, <3>2
  <2>3. CASE SameOperation(k, r)
    <3>1. stream' = [stream EXCEPT ![s] = Released(advanced)] /\ cmd' = [cmd EXCEPT ![k] = "acknowledged"]
        BY <1>5, <2>1, <2>3 DEF Acknowledged
    <3> QED
        BY <1>1, <1>3, <2>2, <3>1, ReleasedType, CommandType, StreamType DEF ClientTypes
  <2>4. CASE ~SameOperation(k, r)
    <3>1. PICK row : row = [advanced EXCEPT !.pending = own, !.sending = own, !.tries = 0, !.awaited = 0]
        OBVIOUS
    <3>2. stream' = [stream EXCEPT ![s] = row] /\ cmd' = cmd
        BY <1>5, <2>1, <2>4, <3>1 DEF Acknowledged
    <3>3. PICK q : q = own /\ q \in Requests
        BY <1>2
    <3>4. [advanced EXCEPT !.pending = q] \in StreamRow
        BY <2>2, <3>3 DEF StreamRow
    <3>5. [[advanced EXCEPT !.pending = q] EXCEPT !.sending = q] \in StreamRow
        BY <3>3, <3>4 DEF StreamRow
    <3>6. [[[advanced EXCEPT !.pending = q] EXCEPT !.sending = q] EXCEPT !.tries = 0] \in StreamRow
        BY <3>5 DEF StreamRow
    <3>7. [[[[advanced EXCEPT !.pending = q] EXCEPT !.sending = q] EXCEPT !.tries = 0] EXCEPT !.awaited = 0]
            \in StreamRow
        BY <3>6 DEF StreamRow
    <3>8. row \in StreamRow
        BY <3>1, <3>3, <3>7
    <3> QED
        BY <1>1, <3>2, <3>8, StreamType DEF ClientTypes
  <2> QED
      BY <2>3, <2>4
<1> QED
    BY <1>4, <1>5

LEMMA FewerHandlers ==
    ASSUME HandlerTypes, NEW h, handlers' = handlers \ {h}
    PROVE  HandlerTypes'
BY FS_Subset DEF HandlerTypes

LEMMA ReplacedHandler ==
    ASSUME HandlerTypes, NEW h, NEW g \in Handlers, handlers' = (handlers \ {h}) \cup {g}
    PROVE  HandlerTypes'
<1>1. IsFiniteSet(handlers \ {h})
    BY FS_Subset DEF HandlerTypes
<1> QED
    BY <1>1, FS_AddElement DEF HandlerTypes

LEMMA RespondType ==
    ASSUME RelayInv, NEW h \in handlers, NEW status \in {"ok", "refused", "unavailable"}, NEW a,
           Respond(h, status, a), status = "ok" /\ IsLeaseRequest(h.request) => a \in Answers
    PROVE  ClientTypes' /\ HandlerTypes'
<1> DEFINE s == Sent(h.request)
<1>1. RelayTypeOK /\ ClientTypes /\ HandlerTypes /\ s \in Streams
    BY RelayTypes, HandlerFacts DEF RelayInv
<1>2. HandlerTypes'
    BY <1>1, FewerHandlers DEF Respond
<1>3. CASE stream[s].awaited # h.n
    BY <1>1, <1>2, <1>3 DEF Respond, clientVars, ClientTypes
<1>4. CASE stream[s].awaited = h.n
  <2>1. stream[s].holder # NoCommand /\ stream[s].sending = h.request
      BY <1>4, AwaitedIsHeld
  <2>2. CASE status = "ok" /\ Acknowledged(s, a)
      BY <1>1, <1>2, <2>1, <2>2, AcknowledgedType
  <2>3. CASE HolderEnds(s, "failed")
      BY <1>1, <1>2, <2>1, <2>3, HolderEndsType DEF CommandStates
  <2>4. CASE AttemptFailed(s)
      BY <1>1, <1>2, <2>1, <2>4, AttemptFailedType
  <2> QED
      BY <1>4, <2>2, <2>3, <2>4 DEF Respond
<1> QED
    BY <1>3, <1>4

Phases == {"arrived", "fenced", "reserved", "granted", "applied"}

LEMMA HandlerType ==
    ASSUME RelayTypeOK, NEW h \in handlers, NEW phase \in Phases, NEW a \in Answers
    PROVE  /\ [h EXCEPT !.phase = phase] \in Handlers
           /\ [h EXCEPT !.phase = phase, !.answer = a] \in Handlers
<1>1. [h EXCEPT !.phase = phase] \in Handlers
    BY HandlerFacts DEF Handlers, Phases
<1>2. [[h EXCEPT !.phase = phase] EXCEPT !.answer = a] \in Handlers
    BY <1>1 DEF Handlers
<1> QED
    BY <1>1, <1>2

LEMMA ProceedType ==
    ASSUME RelayInv, NEW h \in handlers, NEW phase \in Phases,
           \/ Proceed(h, phase)
           \/ \E a \in Answers : Answered(h, phase, a)
    PROVE  ClientTypes' /\ HandlerTypes'
<1>1. RelayTypeOK /\ ClientTypes /\ HandlerTypes
    BY RelayTypes DEF RelayInv
<1>2. ClientTypes'
    BY <1>1 DEF Proceed, Answered, clientVars, ClientTypes
<1>3. [h EXCEPT !.phase = phase] \in Handlers
    BY <1>1, HandlerFacts DEF Handlers, Phases
<1> QED
    BY <1>1, <1>2, <1>3, HandlerType, ReplacedHandler DEF Proceed, Answered

\* The tables beside the repository.
LEMMA JournalTypes ==
    ASSUME RelayInv, Summary,
           journal' = journal \/ (\E c \in Calls : \E x : journal' = [journal EXCEPT ![c] = x]),
           cursor' = cursor \/ (\E c \in Calls, x \in Nat : cursor' = [cursor EXCEPT ![c] = x])
    PROVE  journal' \in [Calls -> Seq(JournalRow)] /\ cursor' \in [Calls -> Nat]
<1>1. RelayTypeOK /\ \A c \in Calls : JournalMove(c)
    BY Moves DEF RelayInv
<1>2. ASSUME NEW c \in Calls PROVE journal'[c] \in Seq(JournalRow)
  <2>1. journal[c] \in Seq(JournalRow)
      BY <1>1 DEF RelayTypeOK
  <2>2. ASSUME NEW h \in handlers,
               journal'[c] = Append(journal[c], [request |-> h.request, answered |-> FALSE])
        PROVE  journal'[c] \in Seq(JournalRow)
    <3>1. [request |-> h.request, answered |-> FALSE] \in JournalRow
        BY <1>1, HandlerFacts DEF JournalRow
    <3> QED
        BY <2>1, <2>2, <3>1
  <2>3. ASSUME NEW h \in handlers, ~IsLeaseRequest(h.request), h.request.call = c, h.phase = "applied",
               journal'[c] = [journal[c] EXCEPT ![h.request.seq].answered = TRUE]
        PROVE  journal'[c] \in Seq(JournalRow)
    <3>1. PICK m : m = h.request.seq
        OBVIOUS
    <3>2. m \in DOMAIN journal[c]
        BY <2>3, <3>1 DEF RelayInv, JournalInv
    <3>3. journal[c][m] \in JournalRow
        BY <2>1, <3>2
    <3>4. [journal[c][m] EXCEPT !.answered = TRUE] \in JournalRow
        BY <3>3 DEF JournalRow
    <3> QED
        BY <2>1, <2>3, <3>1, <3>2, <3>4
  <2> QED
      BY <1>1, <2>1, <2>2, <2>3 DEF JournalMove
<1>3. journal' \in [Calls -> Seq(JournalRow)]
    BY <1>1, <1>2 DEF RelayTypeOK
<1>4. cursor' \in [Calls -> Nat]
    BY <1>1 DEF RelayTypeOK
<1> QED
    BY <1>3, <1>4

LEMMA AppendedType ==
    ASSUME RelayInv, Summary,
           appended' = appended \/ (\E r : appended' = appended \cup {OperationId(r)})
    PROVE  /\ appended' \subseteq [by : Clients, call : Calls, seq : Nat, data : Payloads]
           /\ IsFiniteSet(appended')
<1>1. RelayTypeOK /\ StoreSummary
    BY Moves DEF RelayInv
<1>2. ASSUME NEW h \in handlers
      PROVE  OperationId(h.request) \in [by : Clients, call : Calls, seq : Nat, data : Payloads]
    BY <1>1, HandlerFacts DEF OperationId, Requests
<1>3. appended' \subseteq [by : Clients, call : Calls, seq : Nat, data : Payloads]
    BY <1>1, <1>2 DEF StoreSummary, RelayTypeOK
<1>4. IsFiniteSet(appended')
  <2>1. IsFiniteSet(appended)
      BY <1>1 DEF RelayTypeOK
  <2>2. ASSUME NEW r, appended' = appended \cup {OperationId(r)} PROVE IsFiniteSet(appended')
    <3>1. PICK a : a = OperationId(r)
        OBVIOUS
    <3>2. IsFiniteSet(appended \cup {a})
        BY <2>1, FS_AddElement
    <3> QED
        BY <2>2, <3>1, <3>2
  <2> QED
      BY <2>1, <2>2
<1> QED
    BY <1>3, <1>4

\* The tables that a step may write.
Tables ==
    /\ journal' = journal \/ (\E c \in Calls : \E x : journal' = [journal EXCEPT ![c] = x])
    /\ cursor' = cursor \/ (\E c \in Calls, x \in Nat : cursor' = [cursor EXCEPT ![c] = x])
    /\ \/ leaseAnswers' = leaseAnswers
       \/ \E s \in Streams, a \in Answers : leaseAnswers' = [leaseAnswers EXCEPT ![s] = a]
    /\ appended' = appended \/ (\E r : appended' = appended \cup {OperationId(r)})
    /\ accepting' \in BOOLEAN /\ mishaps' \in Nat

LEMMA TablesRest ==
    ASSUME RelayInv, UNCHANGED <<journalVars, appended, accepting>>,
           mishaps' = mishaps \/ Mishap
    PROVE  Tables
<1>1. accepting \in BOOLEAN /\ mishaps \in Nat
    BY DEF RelayInv, RelayTypeOK
<1> QED
    BY <1>1 DEF Tables, journalVars, Mishap

LEMMA CallTypes ==
    ASSUME RelayInv, NEW k \in Commands, Call(k)
    PROVE  Tables /\ ClientTypes' /\ HandlerTypes'
<1>1. RelayTypeOK /\ ClientTypes /\ HandlerTypes
    BY RelayTypes DEF RelayInv
<1>2. cmd' = [cmd EXCEPT ![k] = "waiting"] /\ stream' = stream /\ handlers' = handlers
      /\ UNCHANGED <<journalVars, appended, accepting>> /\ (mishaps' = mishaps \/ Mishap)
    BY DEF Call, Recall
<1>3. "waiting" \in CommandStates
    BY DEF CommandStates
<1> QED
    BY <1>1, <1>2, <1>3, CommandType, TablesRest DEF ClientTypes, HandlerTypes

LEMMA AcquireTypes ==
    ASSUME RelayInv, NEW k \in Commands, Acquire(k)
    PROVE  Tables /\ ClientTypes' /\ HandlerTypes'
<1> DEFINE s == StreamOf(k)
<1>1. RelayTypeOK /\ TypeOK /\ ClientTypes /\ HandlerTypes /\ s \in Streams /\ stream[s] \in StreamRow
      /\ k \in Commands
    BY RelayTypes, CommandFacts, StreamFacts DEF RelayInv, FenceInv
<1>2. PICK first : first = First(s, k)
    OBVIOUS
<1>3. first \in Requests
    BY <1>1, <1>2, RequestMade, StreamFacts DEF First
<1>4. PICK kept : kept = IF IsLeaseRequest(first) THEN NoRequest ELSE first
    OBVIOUS
<1>5. /\ stream' = [stream EXCEPT ![s].holder = k, ![s].sending = first, ![s].tries = 0,
                                  ![s].pending = kept]
      /\ cmd' = [cmd EXCEPT ![k] = "holding"] /\ handlers' = handlers
      /\ UNCHANGED <<journalVars, appended, accepting, mishaps>>
    BY <1>2, <1>4 DEF Acquire, First
<1>6. PICK row : row = [stream[s] EXCEPT !.holder = k, !.sending = first, !.tries = 0, !.pending = kept]
    OBVIOUS
<1>7. row \in StreamRow
  <2> HIDE DEF s
  <2>1. [stream[s] EXCEPT !.holder = k] \in StreamRow
      BY <1>1 DEF StreamRow
  <2>2. [[stream[s] EXCEPT !.holder = k] EXCEPT !.sending = first] \in StreamRow
      BY <1>3, <2>1 DEF StreamRow
  <2>3. [[[stream[s] EXCEPT !.holder = k] EXCEPT !.sending = first] EXCEPT !.tries = 0] \in StreamRow
      BY <2>2 DEF StreamRow
  <2>4. [[[[stream[s] EXCEPT !.holder = k] EXCEPT !.sending = first] EXCEPT !.tries = 0]
           EXCEPT !.pending = kept] \in StreamRow
      BY <1>3, <1>4, <2>3 DEF StreamRow
  <2> QED
      BY <1>6, <2>4
<1> HIDE DEF s
<1>8. stream' = [stream EXCEPT ![s] = row]
    BY <1>1, <1>5, <1>6 DEF RelayTypeOK
<1>9. "holding" \in CommandStates
    BY DEF CommandStates
<1>10. cmd' \in [Commands -> CommandStates]
    BY <1>1, <1>5, <1>9, CommandType DEF ClientTypes
<1>11. stream' \in [Streams -> StreamRow]
    BY <1>1, <1>7, <1>8, StreamType DEF ClientTypes
<1> QED
    BY <1>1, <1>5, <1>10, <1>11, TablesRest DEF ClientTypes, HandlerTypes

LEMMA SendTypes ==
    ASSUME RelayInv, NEW s \in Streams, Send(s)
    PROVE  Tables /\ ClientTypes' /\ HandlerTypes'
<1>1. RelayTypeOK /\ ClientTypes /\ HandlerTypes /\ stream[s] \in StreamRow
    BY RelayTypes, StreamFacts DEF RelayInv
<1>2. PICK n : n = FreshNonce
    OBVIOUS
<1>3. n \in Nat \ {0} /\ stream[s].holder # NoCommand
    BY <1>1, <1>2, NonceIsFresh DEF Send
<1>4. PICK new : new = [request |-> stream[s].sending, n |-> n, phase |-> "arrived", answer |-> NoAnswer]
    OBVIOUS
<1>5. new \in Handlers
    BY <1>3, <1>4, HolderFacts DEF Handlers
<1>6. /\ stream' = [stream EXCEPT ![s].awaited = n, ![s].tries = @ + 1] /\ cmd' = cmd
      /\ handlers' = handlers \cup {new}
      /\ UNCHANGED <<journalVars, appended, accepting, mishaps>>
    BY <1>2, <1>4 DEF Send
<1>7. PICK row : row = [stream[s] EXCEPT !.awaited = n, !.tries = @ + 1]
    OBVIOUS
<1>8. row \in StreamRow
  <2>1. [stream[s] EXCEPT !.awaited = n] \in StreamRow
      BY <1>1, <1>3 DEF StreamRow
  <2>2. PICK t : t = stream[s].tries + 1
      OBVIOUS
  <2>3. t \in Nat
      BY <1>1, <2>2 DEF StreamRow
  <2>4. [[stream[s] EXCEPT !.awaited = n] EXCEPT !.tries = t] \in StreamRow
      BY <2>1, <2>3 DEF StreamRow
  <2> QED
      BY <1>1, <1>7, <2>2, <2>4 DEF StreamRow
<1>9. stream' = [stream EXCEPT ![s] = row]
    BY <1>1, <1>6, <1>7 DEF RelayTypeOK
<1>10. ClientTypes'
    BY <1>1, <1>6, <1>8, <1>9, StreamType DEF ClientTypes
<1>11. HandlerTypes'
    BY <1>1, <1>5, <1>6, FS_AddElement DEF HandlerTypes
<1> QED
    BY <1>6, <1>10, <1>11, TablesRest

LEMMA TimeOutTypes ==
    ASSUME RelayInv, NEW s \in Streams, TimeOut(s)
    PROVE  Tables /\ ClientTypes' /\ HandlerTypes'
<1>1. HandlerTypes /\ stream[s].holder # NoCommand
    BY RelayTypes DEF RelayInv, LockInv, TimeOut
<1>2. handlers' = handlers /\ UNCHANGED <<journalVars, appended, accepting>>
      /\ (mishaps' = mishaps \/ Mishap) /\ AttemptFailed(s)
    BY DEF TimeOut
<1> QED
    BY <1>1, <1>2, AttemptFailedType, TablesRest DEF HandlerTypes

LEMMA CancelTypes ==
    ASSUME RelayInv, NEW k \in Commands, Cancel(k)
    PROVE  Tables /\ ClientTypes' /\ HandlerTypes'
<1>1. RelayTypeOK /\ ClientTypes /\ HandlerTypes /\ CommandInv /\ StreamOf(k) \in Streams
    BY RelayTypes, CommandFacts DEF RelayInv
<1>2. handlers' = handlers /\ UNCHANGED <<journalVars, appended, accepting>> /\ Mishap
    BY DEF Cancel
<1>3. "cancelled" \in CommandStates
    BY DEF CommandStates
<1>4. CASE cmd[k] = "holding"
  <2>1. stream[StreamOf(k)].holder # NoCommand /\ HolderEnds(StreamOf(k), "cancelled")
      BY <1>1, <1>4, CommandFacts DEF CommandInv, Cancel
  <2> QED
      BY <1>1, <1>2, <1>3, <2>1, HolderEndsType, TablesRest DEF HandlerTypes
<1>5. CASE cmd[k] # "holding"
  <2>1. stream' = stream /\ cmd' = [cmd EXCEPT ![k] = "cancelled"]
      BY <1>5 DEF Cancel
  <2> QED
      BY <1>1, <1>2, <1>3, <2>1, CommandType, TablesRest DEF ClientTypes, HandlerTypes
<1> QED
    BY <1>4, <1>5

LEMMA ReserveLeaseRequestTypes ==
    ASSUME RelayInv, NEW h \in handlers, ReserveLeaseRequest(h)
    PROVE  Tables /\ ClientTypes' /\ HandlerTypes'
<1> DEFINE s == Sent(h.request)
<1>1. RelayTypeOK /\ s \in Streams
    BY HandlerFacts DEF RelayInv
<1>2. Tables
    BY TablesRest DEF ReserveLeaseRequest
<1>3. CASE Respond(h, "unavailable", NoAnswer)
    BY <1>2, <1>3, RespondType
<1>4. CASE leaseAnswers[s] # NoAnswer /\ Respond(h, "ok", leaseAnswers[s])
  <2>1. leaseAnswers[s] \in Answers
      BY <1>1, <1>4 DEF RelayTypeOK
  <2> QED
      BY <1>2, <1>4, <2>1, RespondType
<1>5. CASE Proceed(h, "reserved")
    BY <1>2, <1>5, ProceedType DEF Phases
<1> QED
    BY <1>3, <1>4, <1>5 DEF ReserveLeaseRequest

LEMMA GrantTypes ==
    ASSUME RelayInv, TypeOK', NEW h \in handlers, Grant(h)
    PROVE  Tables /\ ClientTypes' /\ HandlerTypes'
<1> DEFINE r == h.request
           c == r.call
<1>1. TypeOK /\ BlankInv /\ OwnersInv /\ c \in Calls /\ r.by \in Owners
    BY HandlerFacts, RequestFacts, RelayAssumption DEF RelayInv, FenceInv
<1>2. Tables
    BY TablesRest DEF Grant
<1>3. ASSUME NEW gen \in 1 .. MaxGeneration,
             Answered(h, "granted", [lease |-> [call |-> c, owner |-> r.by, gen |-> gen], next |-> 0])
      PROVE  ClientTypes' /\ HandlerTypes'
  <2>1. PICK a : a = [lease |-> [call |-> c, owner |-> r.by, gen |-> gen], next |-> 0]
      OBVIOUS
  <2>2. a \in Answers
      BY <1>1, <2>1 DEF Answers, Lease
  <2> QED
      BY <1>3, <2>1, <2>2, ProceedType DEF Phases
<1>4. ASSUME BeginCall(c, r.by, FALSE, r.at) \/ HandoffCall(c, r.data, r.by, r.at),
             Answered(h, "granted",
               [lease |-> [call |-> c, owner |-> r.by, gen |-> calls'[c].gen], next |-> 0])
      PROVE  ClientTypes' /\ HandlerTypes'
  <2>1. calls'[c].gen \in 0 .. MaxGeneration
      BY <1>1 DEF TypeOK, CallRow
  <2>2. calls'[c].gen > 0
    <3>1. CASE BeginCall(c, r.by, FALSE, r.at)
        BY <1>1, <3>1 DEF BeginCall, TypeOK, AbsentRow
    <3>2. CASE HandoffCall(c, r.data, r.by, r.at)
      <4>1. calls[c].gen \in Nat
          BY <1>1 DEF TypeOK, CallRow
      <4>2. calls'[c].gen = calls[c].gen + 1
          BY <1>1, <3>2 DEF HandoffCall, GrantNextGeneration, TypeOK, CallRow
      <4> QED
          BY <4>1, <4>2
    <3> QED
        BY <1>4, <3>1, <3>2
  <2>3. PICK gen : gen = calls'[c].gen
      OBVIOUS
  <2> QED
      BY <1>3, <1>4, <2>1, <2>2, <2>3, CallStoreAssumption
<1>5. ASSUME calls[c].owner = r.by,
             Answered(h, "granted",
               [next |-> 0, lease |-> [call |-> c, owner |-> r.by, gen |-> calls[c].gen]])
      PROVE  ClientTypes' /\ HandlerTypes'
  <2>1. calls[c].owner # NoOwner
      BY <1>1, <1>5, CallStoreAssumption DEF TypeOK
  <2>2. calls[c].status # "absent"
      BY <1>1, <2>1 DEF BlankInv, AbsentRow
  <2>3. calls[c].gen \in 1 .. MaxGeneration
      BY <1>1, <2>2, CallStoreAssumption DEF OwnersInv, TypeOK, CallRow
  <2> QED
      BY <1>3, <1>5, <2>3
<1>6. ASSUME Respond(h, "refused", NoAnswer) PROVE ClientTypes' /\ HandlerTypes'
    BY <1>6, RespondType
<1> QED
    BY <1>2, <1>4, <1>5, <1>6 DEF Grant

LEMMA ReadCursorTypes ==
    ASSUME RelayInv, NEW h \in handlers, ReadCursor(h)
    PROVE  Tables /\ ClientTypes' /\ HandlerTypes'
<1>1. RelayTypeOK /\ LeaseInv /\ ArrivedInv /\ h.phase = "granted" /\ h.request.call \in Calls
    BY HandlerFacts, RequestFacts DEF RelayInv, ReadCursor, At
<1>2. h.answer \in Answers
    BY <1>1, HandlerFacts DEF ArrivedInv, LeaseInv, AnswerFor
<1>3. PICK a : a = [h.answer EXCEPT !.next = cursor[h.request.call] + 1]
    OBVIOUS
<1>4. cursor[h.request.call] + 1 \in Nat
    BY <1>1 DEF RelayTypeOK
<1>5. a \in Answers
    BY <1>2, <1>3, <1>4 DEF Answers
<1>6. Answered(h, "applied", a)
    BY <1>3 DEF ReadCursor
<1> QED
    BY <1>5, <1>6, ProceedType, TablesRest DEF Phases, ReadCursor

LEMMA CompleteLeaseRequestTypes ==
    ASSUME RelayInv, NEW h \in handlers, CompleteLeaseRequest(h)
    PROVE  Tables /\ ClientTypes' /\ HandlerTypes'
<1> DEFINE s == Sent(h.request)
<1>1. RelayTypeOK /\ LeaseInv /\ s \in Streams
    BY HandlerFacts DEF RelayInv
<1>2. h.answer \in Answers
    BY <1>1, HandlerFacts DEF CompleteLeaseRequest, At, LeaseInv, AnswerFor
<1>3. UNCHANGED <<journal, cursor, appended, accepting, mishaps>>
    BY DEF CompleteLeaseRequest
<1>4. accepting \in BOOLEAN /\ mishaps \in Nat
    BY <1>1 DEF RelayTypeOK
<1>5. CASE leaseAnswers' = [leaseAnswers EXCEPT ![s] = h.answer] /\ Respond(h, "ok", h.answer)
  <2>1. ClientTypes' /\ HandlerTypes'
      BY <1>2, <1>5, RespondType
  <2> QED
      BY <1>1, <1>2, <1>3, <1>4, <1>5, <2>1 DEF Tables
<1>6. CASE Respond(h, "refused", NoAnswer) /\ UNCHANGED leaseAnswers
  <2>1. ClientTypes' /\ HandlerTypes'
      BY <1>6, RespondType
  <2> QED
      BY <1>3, <1>4, <1>6, <2>1 DEF Tables
<1> QED
    BY <1>5, <1>6 DEF CompleteLeaseRequest

LEMMA CheckFenceTypes ==
    ASSUME RelayInv, NEW h \in handlers, CheckFence(h)
    PROVE  Tables /\ ClientTypes' /\ HandlerTypes'
<1>1. CASE Respond(h, "refused", NoAnswer)
    BY <1>1, RespondType, TablesRest DEF CheckFence
<1>2. CASE Proceed(h, "fenced")
    BY <1>2, ProceedType, TablesRest DEF CheckFence, Phases
<1> QED
    BY <1>1, <1>2 DEF CheckFence

LEMMA ReserveUpdateTypes ==
    ASSUME RelayInv, NEW h \in handlers, ReserveUpdate(h)
    PROVE  Tables /\ ClientTypes' /\ HandlerTypes'
<1>1. RelayTypeOK /\ LeaseInv /\ h.phase = "fenced" /\ h.request.call \in Calls
    BY HandlerFacts, RequestFacts DEF RelayInv, ReserveUpdate, At
<1>2. ~IsLeaseRequest(h.request)
    BY <1>1 DEF LeaseInv
<1>3. accepting \in BOOLEAN /\ mishaps \in Nat
    BY <1>1 DEF RelayTypeOK
<1>4. Tables
    BY <1>1, <1>3 DEF ReserveUpdate, Tables
<1>5. Proceed(h, "reserved") => ClientTypes' /\ HandlerTypes'
    BY ProceedType DEF Phases
<1>6. Respond(h, "refused", NoAnswer) \/ Respond(h, "ok", NoAnswer) => ClientTypes' /\ HandlerTypes'
    BY <1>2, RespondType
<1>7. Proceed(h, "reserved") \/ Respond(h, "refused", NoAnswer) \/ Respond(h, "ok", NoAnswer)
    BY DEF ReserveUpdate
<1> QED
    BY <1>4, <1>5, <1>6, <1>7

LEMMA ApplyTypes ==
    ASSUME RelayInv, NEW h \in handlers, Apply(h)
    PROVE  Tables /\ ClientTypes' /\ HandlerTypes'
<1>1. accepting \in BOOLEAN /\ mishaps \in Nat
    BY DEF RelayInv, RelayTypeOK
<1>2. CASE Applies(h.request) /\ Proceed(h, "applied")
  <2>1. appended' = appended \/ (\E r : appended' = appended \cup {OperationId(r)})
      BY <1>2 DEF Applies, InsertObservationOnce
  <2>2. Tables
      BY <1>1, <2>1 DEF Tables, Apply, journalVars
  <2> QED
      BY <1>2, <2>2, ProceedType DEF Phases
<1>3. CASE Respond(h, "refused", NoAnswer) /\ UNCHANGED <<storeVars, appended>>
    BY <1>3, RespondType, TablesRest DEF Apply
<1> QED
    BY <1>2, <1>3 DEF Apply, Applies

LEMMA CompleteTypes ==
    ASSUME RelayInv, NEW h \in handlers, Complete(h)
    PROVE  Tables /\ ClientTypes' /\ HandlerTypes'
<1> DEFINE r == h.request
           c == r.call
<1>1. RelayTypeOK /\ c \in Calls /\ r.seq \in Nat
    BY HandlerFacts, RequestFacts DEF RelayInv
<1>2. accepting \in BOOLEAN /\ mishaps \in Nat
    BY <1>1 DEF RelayTypeOK
<1>3. UNCHANGED <<leaseAnswers, appended, accepting, mishaps>> /\ ~IsLeaseRequest(r)
    BY DEF Complete
<1>4. ASSUME journal' = [journal EXCEPT ![c][r.seq].answered = TRUE],
             cursor' = [cursor EXCEPT ![c] = r.seq], Respond(h, "ok", NoAnswer)
      PROVE  Tables /\ ClientTypes' /\ HandlerTypes'
  <2>1. ClientTypes' /\ HandlerTypes'
      BY <1>3, <1>4, RespondType
  <2>2. PICK x : x = [journal[c] EXCEPT ![r.seq].answered = TRUE]
      OBVIOUS
  <2>3. journal' = [journal EXCEPT ![c] = x]
      BY <1>4, <2>2
  <2> QED
      BY <1>1, <1>2, <1>3, <1>4, <2>1, <2>3 DEF Tables
<1>5. ASSUME Respond(h, "refused", NoAnswer), UNCHANGED <<journal, cursor>>
      PROVE  Tables /\ ClientTypes' /\ HandlerTypes'
  <2>1. ClientTypes' /\ HandlerTypes'
      BY <1>5, RespondType
  <2> QED
      BY <1>2, <1>3, <1>5, <2>1 DEF Tables
<1> QED
    BY <1>4, <1>5 DEF Complete

LEMMA HandlerFailsTypes ==
    ASSUME RelayInv, NEW h \in handlers, NEW status \in {"refused", "unavailable"},
           HandlerFails(h, status)
    PROVE  Tables /\ ClientTypes' /\ HandlerTypes'
BY RespondType, TablesRest DEF HandlerFails

\* The types are kept by every step.
LEMMA RelayTypeOKNext ==
    ASSUME RelayInv, [RelayNext]_relayVars, Summary
    PROVE  RelayTypeOK'
<1>1. RelayTypeOK /\ ClientTypes /\ HandlerTypes /\ TypeOK'
    BY RelayTypes, Moves DEF RelayInv
<1>2. Tables /\ ClientTypes' /\ HandlerTypes'
  <2>1. ASSUME ServiceDies PROVE Tables /\ ClientTypes' /\ HandlerTypes'
    <3>1. accepting' = TRUE /\ mishaps' \in Nat
        BY <1>1, <2>1 DEF ServiceDies, Mishap, RelayTypeOK
    <3> QED
        BY <1>1, <2>1, <3>1, FS_EmptySet
           DEF ServiceDies, Tables, ClientTypes, HandlerTypes, clientVars, journalVars
  <2>2. ASSUME BeginDrain PROVE Tables /\ ClientTypes' /\ HandlerTypes'
    <3>1. accepting' = FALSE /\ mishaps' \in Nat
        BY <1>1, <2>2 DEF BeginDrain, Mishap, RelayTypeOK
    <3> QED
        BY <1>1, <2>2, <3>1 DEF BeginDrain, Tables, ClientTypes, HandlerTypes, clientVars, journalVars
  <2>3. ASSUME TimePasses \/ (\E c \in Calls : Sweep(c)) \/ UNCHANGED relayVars
        PROVE  Tables /\ ClientTypes' /\ HandlerTypes'
    <3>1. UNCHANGED <<clientVars, handlers, journalVars, appended, accepting, mishaps>>
        BY <2>3 DEF TimePasses, Sweep, relayVars, clientVars, journalVars
    <3> QED
        BY <1>1, <3>1, TablesRest DEF ClientTypes, HandlerTypes, clientVars
  <2>4. ASSUME NEW h \in handlers, Handle(h) PROVE Tables /\ ClientTypes' /\ HandlerTypes'
      BY <1>1, <2>4, ReserveLeaseRequestTypes, GrantTypes, ReadCursorTypes, CompleteLeaseRequestTypes,
         CheckFenceTypes, ReserveUpdateTypes, ApplyTypes, CompleteTypes DEF Handle
  <2> QED
      BY <2>1, <2>2, <2>3, <2>4, CallTypes, AcquireTypes, CancelTypes, SendTypes, TimeOutTypes,
         HandlerFailsTypes DEF RelayNext, ClientStep
<1>3. journal' \in [Calls -> Seq(JournalRow)] /\ cursor' \in [Calls -> Nat]
    BY <1>2, JournalTypes DEF Tables
<1>4. appended' \subseteq [by : Clients, call : Calls, seq : Nat, data : Payloads]
      /\ IsFiniteSet(appended')
    BY <1>2, AppendedType DEF Tables
<1>5. leaseAnswers' \in [Streams -> Answers \cup {NoAnswer}]
    BY <1>1, <1>2 DEF Tables, RelayTypeOK
<1>6. accepting' \in BOOLEAN /\ mishaps' \in Nat
    BY <1>2 DEF Tables
<1> QED
    BY <1>2, <1>3, <1>4, <1>5, <1>6 DEF RelayTypeOK, ClientTypes, HandlerTypes, CommandStates

-----------------------------------------------------------------------------
(* The invariant holds throughout *)

LEMMA RelayInvInit == RelayInit => RelayInv
<1> SUFFICES ASSUME RelayInit PROVE RelayInv
    OBVIOUS
<1>1. /\ Init /\ now = 0 /\ leases = {} /\ \A c \in Calls : calls[c] = AbsentRow
    BY DEF RelayInit, Init
<1>2. /\ cmd = [k \in Commands |-> "idle"] /\ stream = [s \in Streams |-> ClosedStream]
      /\ handlers = {} /\ journal = [c \in Calls |-> << >>] /\ cursor = [c \in Calls |-> 0]
      /\ leaseAnswers = [s \in Streams |-> NoAnswer] /\ appended = {}
      /\ accepting = TRUE /\ mishaps = 0
    BY DEF RelayInit
<1>3. TypeOK /\ FenceInv /\ BlankInv
    BY <1>1, InitTypeOK DEF FenceInv, BlankInv, OneOwnerPerGeneration, AbsentRow
<1>4. ClosedStream \in StreamRow
    BY DEF ClosedStream, StreamRow
<1>5. RelayTypeOK
    BY <1>2, <1>4, FS_EmptySet DEF RelayTypeOK
<1>6. \A s \in Streams : /\ stream[s].lease = NoLease /\ stream[s].holder = NoCommand
                         /\ stream[s].pending = NoRequest /\ stream[s].sending = NoRequest
                         /\ stream[s].awaited = 0
    BY <1>2 DEF ClosedStream
<1>7. \A k \in Commands : cmd[k] = "idle" /\ StreamOf(k) \in Streams /\ k # NoCommand
    BY <1>2, CommandFacts
<1>8. CommandInv
    BY <1>6, <1>7 DEF CommandInv
<1>9. LockInv /\ PendingInv
    BY <1>6 DEF LockInv, PendingInv
<1>10. NonceInv /\ ArrivedInv
    BY <1>2 DEF NonceInv, ArrivedInv
<1>11. \A c \in Calls : Len(journal[c]) = 0 /\ DOMAIN journal[c] = {} /\ cursor[c] = 0
    BY <1>2
<1>12. JournalInv
    BY <1>2, <1>11 DEF JournalInv, StreamIsGapFree
<1>13. ObservedInv
  <2>1. ASSUME NEW r \in Known PROVE r = NoRequest
      BY <1>2, <1>6, <1>11, <2>1 DEF Known
  <2>2. \A r \in Known : r.op # "observe"
      BY <2>1 DEF NoRequest
  <2>3. \A c \in Calls : {a \in appended : a.call = c} = {} /\ calls[c].turns = 0
      BY <1>1, <1>2 DEF AbsentRow
  <2> QED
      BY <1>2, <2>2, <2>3, FS_EmptySet DEF ObservedInv
<1>14. OwnersInv
    BY <1>1 DEF OwnersInv, AbsentRow
<1>15. LeaseInv
    BY <1>2 DEF LeaseInv
<1>16. EndInv
    BY <1>1 DEF EndInv, AbsentRow, Terminal, TerminalStatuses
<1>17. AgeInv
  <2>1. \A c \in Calls : calls[c].expires = NoTime
      BY <1>1 DEF AbsentRow
  <2>2. NoTime <= Later(now, LeaseTTL)
      BY <1>1, LaterIsMonotone
  <2> QED
      BY <1>2, <1>6, <2>1, <2>2 DEF AgeInv
<1>18. AcknowledgedIsDurable /\ ClientInStepWithJournal
    BY <1>6, <1>7 DEF AcknowledgedIsDurable, ClientInStepWithJournal
<1> QED
    BY <1>3, <1>5, <1>8, <1>9, <1>10, <1>12, <1>13, <1>14, <1>15, <1>16, <1>17, <1>18 DEF RelayInv

LEMMA RelayInvNext == RelayInv /\ [RelayNext]_relayVars => RelayInv'
<1> SUFFICES ASSUME RelayInv, [RelayNext]_relayVars PROVE RelayInv'
    OBVIOUS
<1>1. Summary
    BY SummaryHolds
<1>2. RelayTypeOK'
    BY <1>1, RelayTypeOKNext
<1>3. FenceInv' /\ BlankInv'
    BY <1>1, Moves
<1>4. CommandInv' /\ LockInv' /\ PendingInv' /\ NonceInv' /\ ArrivedInv' /\ JournalInv'
    BY <1>1, <1>2, CommandInvNext, LockInvNext, PendingInvNext, NonceInvNext, ArrivedInvNext,
       JournalInvNext
<1>5. ObservedInv' /\ OwnersInv' /\ LeaseInv' /\ EndInv' /\ AgeInv'
    BY <1>1, <1>2, ObservedInvNext, OwnersInvNext, LeaseInvNext, EndInvNext, AgeInvNext
<1>6. AcknowledgedIsDurable' /\ ClientInStepWithJournal'
    BY <1>1, <1>2, AcknowledgedIsDurableNext, ClientInStepNext
<1> QED
    BY <1>2, <1>3, <1>4, <1>5, <1>6 DEF RelayInv

LEMMA RelayAlways == RelaySpec => []RelayInv
BY RelayInvInit, RelayInvNext, PTL DEF RelaySpec

-----------------------------------------------------------------------------
(* The theorems *)

\* The tables of the client, the service and the journal keep their shape.
THEOREM RelayTypeCorrect == RelaySpec => []RelayTypeOK
<1>1. RelayInv => RelayTypeOK
    BY DEF RelayInv
<1> QED
    BY <1>1, RelayAlways, PTL

\* A call's sequence starts at 1 and has no gap, whatever is retried, duplicated, replayed
\* or cut off by a crash of the service.
THEOREM StreamHasNoGap == RelaySpec => []StreamIsGapFree
<1>1. RelayInv => StreamIsGapFree
    BY DEF RelayInv, JournalInv
<1> QED
    BY <1>1, RelayAlways, PTL

LEMMA StoredOnce == RelayInv => ObservationsAreStoredOnce
<1> SUFFICES ASSUME RelayInv, NEW c \in Calls
             PROVE  LET rows == {a \in appended : a.call = c}
                    IN  /\ calls[c].turns = Cardinality(rows)
                        /\ \A a, b \in rows : a.data = b.data => a = b
    BY DEF ObservationsAreStoredOnce
<1>1. ObservedInv
    BY DEF RelayInv
<1>2. ASSUME NEW a \in appended, a.call = c
      PROVE  \E r \in Known : r.op = "observe" /\ r.call = c /\ r.data = a.data /\ a = OperationId(r)
  <2>1. PICK n \in DOMAIN journal[c] :
           LET r == journal[c][n].request IN r.op = "observe" /\ a = OperationId(r)
      BY <1>1, <1>2 DEF ObservedInv
  <2>2. journal[c][n].request \in Known
      BY DEF Known
  <2> QED
      BY <1>2, <2>1, <2>2 DEF OperationId
<1>3. ASSUME NEW a \in appended, a.call = c, NEW b \in appended, b.call = c, a.data = b.data
      PROVE  a = b
  <2>1. PICK r \in Known : r.op = "observe" /\ r.call = c /\ r.data = a.data /\ a = OperationId(r)
      BY <1>2, <1>3
  <2>2. PICK q \in Known : q.op = "observe" /\ q.call = c /\ q.data = b.data /\ b = OperationId(q)
      BY <1>2, <1>3
  <2>3. q = r
      BY <1>1, <1>3, <2>1, <2>2 DEF ObservedInv
  <2> QED
      BY <2>1, <2>2, <2>3
<1> QED
    BY <1>1, <1>3 DEF ObservedInv

\* An observation is stored once, and counted once in the row of its call.
THEOREM ObservedOnce == RelaySpec => []ObservationsAreStoredOnce
BY StoredOnce, RelayAlways, PTL

\* What a task was told is acknowledged is in the repository, and stays there.
THEOREM AcknowledgedStays == RelaySpec => []AcknowledgedIsDurable
<1>1. RelayInv => AcknowledgedIsDurable
    BY DEF RelayInv
<1> QED
    BY <1>1, RelayAlways, PTL

\* The client that owns a call is in step with its journal, or one request behind that it
\* keeps: its next request is never refused for its sequence.
THEOREM ClientsStayInStep == RelaySpec => []ClientInStepWithJournal
<1>1. RelayInv => ClientInStepWithJournal
    BY DEF RelayInv
<1> QED
    BY <1>1, RelayAlways, PTL

\* A step shortens a lease that goes on only when it is a late duplicate of an answered
\* request that is still inside the service.
NotShortened(c) ==
    Active(c) /\ calls'[c].gen = calls[c].gen /\ ~Overtaken(c) =>
        calls'[c].expires \in {NoTime} \cup calls[c].expires .. Horizon

LEMMA RenewalsInOrder ==
    ASSUME RelayInv, [RelayNext]_relayVars, NEW c \in Calls
    PROVE  NotShortened(c)
<1> SUFFICES ASSUME Active(c), calls'[c].gen = calls[c].gen, ~Overtaken(c)
             PROVE  calls'[c].expires \in {NoTime} \cup calls[c].expires .. Horizon
    BY DEF NotShortened
<1>1. Summary /\ TypeOK' /\ RelayTypeOK /\ AgeInv /\ ArrivedInv /\ now \in Nat /\ RowMove(c)
    BY SummaryHolds, Moves DEF RelayInv, FenceInv, TypeOK
<1>2. calls[c].gen \in Nat /\ calls[c].status = "active" /\ calls[c].expires \in Int
    BY <1>1, Moves, RowFacts DEF Active, CallRow, Time
<1>3. calls[c].expires <= Horizon /\ Horizon \in Int
  <2>1. calls[c].expires <= Later(now, LeaseTTL)
      BY <1>1 DEF AgeInv
  <2> QED
      BY <1>1, <1>2, <2>1, LaterIsMonotone, CallStoreAssumption
<1>4. CASE calls'[c].expires = calls[c].expires
    BY <1>2, <1>3, <1>4
<1>5. CASE RowRenews(c)
  <2>1. PICK h \in handlers :
           Writes(h, "renew", c) /\ calls'[c].expires = Later(h.request.at, LeaseTTL)
      BY <1>5 DEF RowRenews
  <2> DEFINE s == Sent(h.request)
  <2>2. /\ h.request.call = c /\ ~IsLeaseRequest(h.request) /\ h.request.at \in Nat
        /\ h.request \in Requests /\ h.request.lease = stream[s].lease /\ Holds(h.request.lease)
        /\ s \in Streams /\ s[2] = c /\ h.request # NoRequest
      BY <1>1, <2>1, UpdateFacts, HandlerFacts, RequestFacts DEF Writes
  <2>3. h.request = stream[s].pending
      BY <1>1, <2>2 DEF ArrivedInv, Overtaken
  <2>4. calls[c].expires <= Later(h.request.at, LeaseTTL)
      BY <1>1, <2>2, <2>3 DEF AgeInv
  <2>5. Later(h.request.at, LeaseTTL) <= Horizon /\ Later(h.request.at, LeaseTTL) \in Int
      BY <2>2, LaterIsMonotone
  <2> QED
      BY <1>2, <1>3, <2>1, <2>4, <2>5
<1> QED
    BY <1>1, <1>2, <1>4, <1>5 DEF RowMove, RowBegins, RowMoves, RowGrows, RowFlushes, RowEnds

\* A renewal is taken back only by a late duplicate of a request that was answered.
THEOREM LateDuplicatesOnly == RelaySpec => OnlyLateDuplicatesReorder
<1>1. RelayInv /\ [RelayNext]_relayVars => [\A c \in Calls : NotShortened(c)]_relayVars
    BY RenewalsInOrder
<1>2. RelaySpec => [][\A c \in Calls : NotShortened(c)]_relayVars
    BY <1>1, RelayAlways, PTL DEF RelaySpec
<1> QED
    BY <1>2 DEF OnlyLateDuplicatesReorder, NotShortened

\* The service writes through the repository's methods, with leases that it gave: the
\* relay's clients are among the callers that CallStore's theorems are about.
THEOREM RelayUsesTheRepository == RelaySpec => MethodSpec
<1>1. RelayInit => Init
    BY DEF RelayInit
<1>2. RelayInv /\ [RelayNext]_relayVars => [MethodStep]_storeVars
    BY SummaryHolds, RelayStepsAreMethods DEF Summary
<1> QED
    BY <1>1, <1>2, RelayAlways, PTL DEF RelaySpec, MethodSpec

\* So a relayed call, too, has exactly one terminal event, which says what its row says;
\* only the owner of the moment writes it, its end is final, and it is a call as
\* CallOutcome describes one.
THEOREM RelayedCallsKeepThePromise ==
    RelaySpec => /\ []AtMostOneEventOfAKind /\ []OutcomeIsPublished
                 /\ OnlyTheCurrentGenerationWrites /\ FinishedIsFinal /\ ImplementsOutcome
BY RelayUsesTheRepository, MethodsKeepThePromise

-----------------------------------------------------------------------------
(* The relay beside delivery *)

\* The process that serves the relay also delivers the webhooks of its calls.
relayedVars == <<cmd, stream, handlers, journal, cursor, leaseAnswers, appended, accepting, mishaps>>

RelayedNext ==
    \/ RelayNext /\ UNCHANGED deliveryVars
    \/ DeliveryNext /\ UNCHANGED relayedVars

RelayedSpec ==
    RelayInit /\ OutboxInit /\ [][RelayedNext]_<<storeVars, deliveryVars, relayedVars>>

\* What the relay reads of the tables: the rows but for their webhook status, and the leases.
RelayedRows ==
    /\ now' = now /\ leases' = leases
    /\ \A c \in Calls :
         /\ calls'[c].status = calls[c].status /\ calls'[c].owner = calls[c].owner
         /\ calls'[c].gen = calls[c].gen /\ calls'[c].expires = calls[c].expires
         /\ calls'[c].result = calls[c].result /\ calls'[c].turns = calls[c].turns
         /\ calls'[c].reason = calls[c].reason

LEMMA RelayKeeps ==
    ASSUME RelayInv, FenceInv', BlankInv', RelayedRows, UNCHANGED relayedVars
    PROVE  RelayInv'
<1> USE DEF relayedVars
<1>1. RelayTypeOK /\ FenceInv /\ TypeOK /\ RelayTypeOK'
    BY DEF RelayInv, FenceInv, RelayTypeOK
<1>2. \A c \in Calls : (Terminal(c)' <=> Terminal(c)) /\ (Active(c)' <=> Active(c))
    BY DEF RelayedRows, Terminal, Active
<1>3. \A l \in leases : l.call \in Calls /\ (Holds(l)' <=> Holds(l))
    BY <1>1 DEF RelayedRows, TypeOK, Lease, Holds
<1>4. CommandInv' /\ LockInv' /\ NonceInv' /\ ArrivedInv'
    BY DEF RelayInv, CommandInv, LockInv, NonceInv, ArrivedInv, UpdateOf, Ready
<1>5. PendingInv'
    BY DEF RelayInv, PendingInv, UpdateOf, RelayedRows
<1>6. JournalInv'
  <2>1. ASSUME NEW r \in Requests PROVE Done(r)' <=> Done(r)
    BY <1>2, <2>1, RequestFacts DEF Done, RelayedRows
  <2>2. \A h \in handlers : h.request \in Requests
    BY <1>1 DEF RelayTypeOK, Handlers
  <2>3. \A c \in Calls : \A n \in DOMAIN journal[c] : journal[c][n].request \in Requests
    <3>1. ASSUME NEW c \in Calls, NEW n \in DOMAIN journal[c]
          PROVE  journal[c][n] \in JournalRow
      <4>1. journal[c] \in Seq(JournalRow)
        BY <1>1 DEF RelayTypeOK
      <4> QED
        BY <4>1
    <3> QED
      BY <3>1 DEF JournalRow
  <2>4. StreamIsGapFree'
    BY DEF RelayInv, JournalInv, StreamIsGapFree
  <2> QED
    BY <2>1, <2>2, <2>3, <2>4 DEF RelayInv, JournalInv
<1>7. ObservedInv'
  <2>1. Known' = Known /\ \A k \in Commands : Issued(k)' <=> Issued(k)
    BY DEF Known, Issued
  <2> QED
    BY <2>1 DEF RelayInv, ObservedInv, RelayedRows
<1>8. OwnersInv'
  <2>1. \A l \in leases, k \in Commands : Granted(l, k)' <=> Granted(l, k)
    BY DEF Granted, RelayedRows
  <2>2. \A s \in Streams : Closed(s)' <=> Closed(s)
    BY DEF Closed
  <2>3. ASSUME NEW l \in leases, l.owner \in Clients
        PROVE  Closed(<<l.owner, l.call>>)' <=> Closed(<<l.owner, l.call>>)
    BY <1>3, <2>2, <2>3 DEF Streams
  <2> QED
    BY <1>3, <2>1, <2>3 DEF RelayInv, OwnersInv, RelayedRows
<1>9. LeaseInv'
  <2>1. ASSUME NEW a, NEW s PROVE AnswerFor(a, s)' <=> AnswerFor(a, s)
    BY DEF AnswerFor, RelayedRows
  <2>2. ASSUME NEW a, NEW s, AnswerFor(a, s) PROVE BeginsAt(a, s)' <=> BeginsAt(a, s)
    BY <1>3, <2>2 DEF AnswerFor, BeginsAt
  <2> QED
    BY <2>1, <2>2 DEF RelayInv, LeaseInv
<1>10. EndInv'
    BY <1>2 DEF RelayInv, EndInv, RelayedRows
<1>11. AgeInv'
  <2>1. ASSUME NEW s \in Streams, stream[s].pending # NoRequest
        PROVE  /\ stream[s].lease \in leases /\ s[2] \in Calls
               /\ Holds(stream[s].lease)' <=> Holds(stream[s].lease)
    BY <1>3, <2>1 DEF RelayInv, PendingInv, UpdateOf, Streams
  <2> QED
    BY <2>1 DEF RelayInv, AgeInv, RelayedRows
<1>12. AcknowledgedIsDurable'
    BY <1>2, CommandFacts DEF RelayInv, AcknowledgedIsDurable, RelayedRows
<1>13. ClientInStepWithJournal'
    BY <1>3 DEF RelayInv, PendingInv, ClientInStepWithJournal
<1> QED
    BY <1>1, <1>4, <1>5, <1>6, <1>7, <1>8, <1>9, <1>10, <1>11, <1>12, <1>13 DEF RelayInv

RelayedInv == OutboxInv /\ RelayInv

LEMMA DeliveryRows ==
    ASSUME OutboxInv, DeliveryNext
    PROVE  RelayedRows
<1>1. calls \in [Calls -> CallRow] /\ UNCHANGED <<now, leases>>
    BY DeliveryOnlyDelivers DEF OutboxInv, OutboxTypeOK, TypeOK
<1>2. CASE UNCHANGED storeVars
    BY <1>2 DEF storeVars, RelayedRows
<1>3. CASE OnlyDelivers
    BY <1>1, <1>3 DEF OnlyDelivers, RelayedRows, CallRow
<1> QED
    BY <1>2, <1>3, DeliveryOnlyDelivers

LEMMA DeliveryKeepsRelay ==
    ASSUME RelayedInv, DeliveryNext, UNCHANGED relayedVars
    PROVE  RelayedInv'
<1>1. OutboxInv /\ OutboxInv' /\ RelayInv /\ TypeOK' /\ RelayedRows
    BY DeliveryNextKeeps, DeliveryRows DEF RelayedInv, OutboxInv, OutboxTypeOK
<1>2. FenceInv'
    BY <1>1, FenceUntouched DEF RelayInv, RelayedRows
<1>3. BlankInv'
  <2>1. CASE UNCHANGED storeVars
    BY <1>1, <2>1, NextBlankInv DEF RelayInv
  <2>2. CASE OnlyDelivers
    <3>1. calls \in [Calls -> CallRow]
        BY <1>1 DEF OutboxInv, OutboxTypeOK, TypeOK, RelayInv, BlankInv
    <3>2. \A c \in Calls : calls'[c] = calls[c]
                           \/ (calls'[c].status # "absent" /\ calls'[c].by = calls'[c].gen)
        BY <1>1, <2>2, <3>1 DEF RelayInv, BlankInv, OnlyDelivers, Terminal, TerminalStatuses, CallRow
    <3> QED
        BY <1>1, <3>2, BlankRows DEF RelayInv
  <2> QED
    BY <1>1, <2>1, <2>2, DeliveryOnlyDelivers
<1> QED
    BY <1>1, <1>2, <1>3, RelayKeeps DEF RelayedInv

LEMMA RelayedInvNext ==
    RelayedInv /\ [RelayedNext]_<<storeVars, deliveryVars, relayedVars>>
        => RelayedInv' /\ [ServedNext]_outboxVars
<1> SUFFICES ASSUME RelayedInv, [RelayedNext]_<<storeVars, deliveryVars, relayedVars>>
             PROVE  RelayedInv' /\ [ServedNext]_outboxVars
    OBVIOUS
<1>1. CASE DeliveryNext /\ UNCHANGED relayedVars
    BY <1>1, DeliveryKeepsRelay DEF ServedNext
<1>2. CASE [RelayNext]_relayVars /\ UNCHANGED deliveryVars
  <2>1. RelayInv' /\ [MethodStep]_storeVars
    BY <1>2, RelayInvNext, SummaryHolds, RelayStepsAreMethods DEF RelayedInv, Summary
  <2> QED
    BY <1>2, <2>1, MethodKeeps DEF RelayedInv, ServedNext, outboxVars
<1>3. CASE UNCHANGED <<storeVars, deliveryVars, relayedVars>>
    BY <1>2, <1>3 DEF relayVars, relayedVars
<1> QED
    BY <1>1, <1>2, <1>3 DEF RelayedNext

LEMMA RelayedAlways == RelayedSpec => []RelayedInv
<1>1. RelayInit /\ OutboxInit => RelayedInv
    BY RelayInvInit, OutboxInvInit DEF RelayedInv
<1> QED
    BY <1>1, RelayedInvNext, PTL DEF RelayedSpec

\* A step of delivery shortens no lease.
LEMMA RelayedInOrder ==
    ASSUME RelayedInv, [RelayedNext]_<<storeVars, deliveryVars, relayedVars>>, NEW c \in Calls
    PROVE  NotShortened(c)
<1>1. CASE [RelayNext]_relayVars
    BY <1>1, RenewalsInOrder DEF RelayedInv
<1>2. CASE DeliveryNext
  <2>1. calls'[c].expires = calls[c].expires /\ RelayInv
    BY <1>2, DeliveryRows DEF RelayedInv, RelayedRows
  <2>2. calls[c].expires \in Int /\ calls[c].expires <= Horizon /\ Horizon \in Int
    <3>1. /\ calls[c].expires \in Int /\ now \in Nat /\ Horizon \in Int
          /\ calls[c].expires <= Later(now, LeaseTTL)
      BY <2>1, RowFacts, CallStoreAssumption DEF RelayInv, FenceInv, TypeOK, AgeInv, CallRow, Time
    <3> QED
      BY <3>1, LaterIsMonotone
  <2> QED
    BY <2>1, <2>2 DEF NotShortened
<1>3. CASE UNCHANGED <<storeVars, deliveryVars, relayedVars>>
    BY <1>1, <1>3 DEF relayVars, relayedVars
<1> QED
    BY <1>1, <1>2, <1>3 DEF RelayedNext

\* Delivered beside, whatever crashes on either side, the relay keeps its promises; and its
\* calls are delivered as any caller's are.
THEOREM RelayAndDeliveryTogether ==
    RelayedSpec => /\ []StreamIsGapFree /\ []ObservationsAreStoredOnce
                   /\ []AcknowledgedIsDurable /\ []ClientInStepWithJournal
                   /\ [][\A c \in Calls : NotShortened(c)]_relayVars
                   /\ []AttemptHasOneSender /\ []DeliveredMeansAcknowledged
                   /\ []WebhookStatusAgrees /\ OnlyTheOperatorReopens
                   /\ []AtMostOneEventOfAKind /\ []OutcomeIsPublished
                   /\ OnlyTheCurrentGenerationWrites /\ FinishedIsFinal /\ ImplementsOutcome
<1>1. RelayedSpec => ServedSpec
    BY RelayedAlways, RelayedInvNext, PTL DEF RelayedSpec, ServedSpec
<1>2. RelayedInv => /\ StreamIsGapFree /\ ObservationsAreStoredOnce
                    /\ AcknowledgedIsDurable /\ ClientInStepWithJournal
    BY StoredOnce DEF RelayedInv, RelayInv, JournalInv
<1>3. RelayedInv /\ [RelayedNext]_<<storeVars, deliveryVars, relayedVars>>
        => [\A c \in Calls : NotShortened(c)]_relayVars
    BY RelayedInOrder
<1>4. RelayedSpec => [][\A c \in Calls : NotShortened(c)]_relayVars
    BY <1>3, RelayedAlways, PTL DEF RelayedSpec
<1>5. RelayedSpec => [](/\ StreamIsGapFree /\ ObservationsAreStoredOnce
                        /\ AcknowledgedIsDurable /\ ClientInStepWithJournal)
    BY <1>2, RelayedAlways, PTL
<1> QED
    BY <1>1, <1>4, <1>5, DeliveryAmongAnyCallers, ServedCallsKeepThePromise, PTL
=============================================================================
