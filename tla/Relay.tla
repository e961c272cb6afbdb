--------------------------------- MODULE Relay ---------------------------------
(***************************************************************************)
(* The results relay: a RelayClient in an ephemeral worker, the relay      *)
(* service of the durable companion with its journal, and the repository   *)
(* behind it.                                                              *)
(*                                                                         *)
(* Tasks of the worker call the client's methods; the client sends one     *)
(* sequenced request of a call at a time and retries the same bytes when   *)
(* an attempt times out or is answered 5xx.  An attempt that the client    *)
(* gave up goes on in the service: two handlers of one request can run     *)
(* side by side.  A handler's steps are transactions of the journal and of *)
(* the repository; between them the lease can move and the process die.    *)
(***************************************************************************)
EXTENDS CallStore, Sequences

CONSTANTS
    Clients,        \* owner ids of relay clients
    Sweeper,        \* owner id of the companion's recovery
    Commands,       \* the method calls of the workers' tasks: records of an id, the
                    \* client, call, operation and payload (by, call, op, data), and
                    \* `after`, the ids of the calls that must have succeeded before
    NoCommand,
    MaxAttempts,    \* _max_attempts: tries of one _request
    MaxMishaps      \* bound: attempts given up while their handler runs, handlers that
                    \* die or fail, tasks cancelled, finish() called again, drains

ASSUME RelayAssumption ==
    /\ Clients \subseteq Owners /\ Sweeper \in Owners \ Clients
    /\ NoCommand \notin Commands
    /\ \A k \in Commands :
         /\ k.by \in Clients /\ k.call \in Calls
         /\ k.op \in {"begin", "claim", "renew", "observe", "flush", "terminalize"}
         /\ k.op = "claim" => k.data \in Clients     \* from the owner of a reservation
         /\ k.op = "flush" => k.data \in Results
         /\ k.op = "terminalize" => k.data \in EndedReasons
    /\ MaxAttempts \in Nat \ {0} /\ MaxMishaps \in Nat

\* A client asks for the lease of a call once, and flushes and ends a call once (it
\* repeats the call that failed); the payload of an observation names it.
ASSUME CommandsAssumption ==
    \A j, k \in Commands : j.call = k.call =>
       /\ j.by = k.by /\ {j.op, k.op} \subseteq {"begin", "claim"} => j = k
       /\ j.by = k.by /\ j.op = k.op /\ j.op \in {"flush", "terminalize"} => j = k
       /\ j.op = k.op /\ j.op = "observe" /\ j.data = k.data => j = k

\* A reservation is handed on when what its owner wrote is acknowledged, which was not
\* its result (reserve_web_call of the LiveKit host).
ASSUME HandoffAssumption ==
    \A j, k \in Commands : k.op = "claim" /\ j.by = k.data /\ j.call = k.call =>
       /\ j.op # "flush"
       /\ j.op \in {"begin", "claim"} \/ j.id \in k.after

VARIABLES
    cmd,        \* per command: where it is
    stream,     \* per client and call: _CallState and the request being sent
    handlers,   \* requests inside the service
    journal,    \* per call: relay_updates, by sequence
    cursor,     \* per call: relay_streams.last_sequence
    leaseAnswers, \* per client and call: relay_requests, its response
    appended,   \* relay_operation_id column of the observation tables
    accepting,  \* the service admits new ownership
    mishaps     \* how many have happened

relayVars == <<storeVars, cmd, stream, handlers, journal, cursor, leaseAnswers,
               appended, accepting, mishaps>>

clientVars == <<cmd, stream>>
journalVars == <<journal, cursor, leaseAnswers>>

-----------------------------------------------------------------------------
(* Records *)

NoLease == [call |-> "none"]
NoRequest == [op |-> "none"]
NoAnswer == [next |-> 0]

ClosedStream ==
    [lease |-> NoLease,     \* lease and fence_token
     next |-> 0,            \* next_sequence
     pending |-> NoRequest, \* sent and not acknowledged
     holder |-> NoCommand,  \* the task inside the lock
     sending |-> NoRequest, \* what _request is sending
     tries |-> 0,           \* attempts of that _request
     awaited |-> 0]         \* the attempt being waited for, by its nonce

Streams == Clients \X Calls

StreamOf(k) == <<k.by, k.call>>

Sent(r) == <<r.by, r.call>>

IsLeaseRequest(r) == r.op \in {"begin", "claim"}

\* operation_id: call id and idempotency key; a client makes one request per sequence.
OperationId(r) == [by |-> r.by, call |-> r.call, seq |-> r.seq, data |-> r.data]

Request(k) ==
    [by |-> k.by, call |-> k.call, op |-> k.op, data |-> k.data, at |-> now,
     seq |-> stream[StreamOf(k)].next, lease |-> stream[StreamOf(k)].lease]

\* The answer carries a fence token issued for it: no two such answers are the same
\* bytes, while the other answers of a request are.
IssuesToken(r) == r.op \in {"begin", "claim", "renew", "terminalize"}

Mishap == mishaps < MaxMishaps /\ mishaps' = mishaps + 1

-----------------------------------------------------------------------------
(* The client: tasks around the lock *)

Finished(state) == state \in {"acknowledged", "failed", "cancelled"}

Ready(k) ==
    \A j \in Commands : j.id \in k.after => cmd[j] = "acknowledged"

\* finish() is called again when its writes failed.
Recall(k) ==
    cmd[k] = "failed" /\ k.op \in {"flush", "terminalize"} /\ Mishap

\* A task enters _update, or begin_call or handoff_call.
Call(k) ==
    /\ \/ cmd[k] = "idle" /\ UNCHANGED mishaps
       \/ Recall(k)
    /\ Ready(k)
    /\ k.op \in {"begin", "claim"} \/ stream[StreamOf(k)].lease # NoLease
    /\ cmd' = [cmd EXCEPT ![k] = "waiting"]
    /\ UNCHANGED <<storeVars, stream, handlers, journalVars, appended, accepting>>

\* _urgent_waiters is not given back by a cancelled renewal.
UrgentWaitersLeaking(s) ==
    {k \in Commands : StreamOf(k) = s /\ k.op = "renew" /\ cmd[k] \in {"waiting", "cancelled"}}

UrgentWaiters(s) ==
    {k \in Commands : StreamOf(k) = s /\ k.op = "renew" /\ cmd[k] = "waiting"}

\* The lock is free and the task is urgent, or no urgent task waits.  What is
\* pending is replayed first; otherwise the task's own request is sent.
Acquire(k) ==
    LET s == StreamOf(k)
        first == IF stream[s].pending = NoRequest THEN Request(k) ELSE stream[s].pending
    IN  /\ cmd[k] = "waiting" /\ stream[s].holder = NoCommand
        /\ k.op = "renew" \/ UrgentWaiters(s) = {}
        /\ cmd' = [cmd EXCEPT ![k] = "holding"]
        /\ stream' = [stream EXCEPT ![s].holder = k, ![s].sending = first, ![s].tries = 0,
              ![s].pending = IF IsLeaseRequest(first) THEN NoRequest ELSE first]
        /\ UNCHANGED <<storeVars, handlers, journalVars, appended, accepting, mishaps>>

\* A nonce that no request inside the service has.
FreshNonce == CHOOSE n \in 1 .. Cardinality(handlers) + 1 : \A h \in handlers : h.n # n

\* One attempt: the same bytes under a new nonce.
Send(s) ==
    /\ stream[s].holder # NoCommand /\ stream[s].awaited = 0
    /\ stream[s].tries < MaxAttempts
    /\ LET n == FreshNonce
       IN  /\ stream' = [stream EXCEPT ![s].awaited = n, ![s].tries = @ + 1]
           /\ handlers' = handlers \cup
                {[request |-> stream[s].sending, n |-> n, phase |-> "arrived",
                  answer |-> NoAnswer]}
    /\ UNCHANGED <<storeVars, cmd, journalVars, appended, accepting, mishaps>>

Released(st) == [st EXCEPT !.holder = NoCommand, !.sending = NoRequest, !.awaited = 0]

\* A failed call takes its request back.
HolderForgets(s, state) ==
    /\ cmd' = [cmd EXCEPT ![stream[s].holder] = state]
    /\ stream' = [stream EXCEPT ![s] = [Released(@) EXCEPT !.pending = NoRequest]]

\* The call of the holder ends; what is pending stays pending.
HolderEnds(s, state) ==
    /\ cmd' = [cmd EXCEPT ![stream[s].holder] = state]
    /\ stream' = [stream EXCEPT ![s] = Released(@)]

\* No usable answer: another attempt, or the exception "attempts were exhausted".
AttemptFailed(s) ==
    IF stream[s].tries = MaxAttempts
    THEN HolderEnds(s, "failed")
    ELSE stream' = [stream EXCEPT ![s].awaited = 0] /\ UNCHANGED cmd

Running(s) == \E h \in handlers : Sent(h.request) = s /\ h.n = stream[s].awaited

TimeOut(s) ==
    /\ stream[s].awaited # 0
    /\ IF Running(s) THEN Mishap ELSE UNCHANGED mishaps
    /\ AttemptFailed(s)
    /\ UNCHANGED <<storeVars, handlers, journalVars, appended, accepting>>

\* The caller's task is cancelled: it leaves the queue or the lock, and a request
\* already sent goes on in the service.
Cancel(k) ==
    /\ cmd[k] \in {"waiting", "holding"} /\ k.op \in {"renew", "observe"}
    /\ Mishap
    /\ IF cmd[k] = "holding" THEN HolderEnds(StreamOf(k), "cancelled")
       ELSE cmd' = [cmd EXCEPT ![k] = "cancelled"] /\ UNCHANGED stream
    /\ UNCHANGED <<storeVars, handlers, journalVars, appended, accepting>>

\* Any earlier request of the same operation answers for this one.
SameName(k, r) == r.op = k.op

\* pending.operation == operation and pending.payload == payload
SameOperation(k, r) == r.op = k.op /\ r.data = k.data

\* A 2xx answer to the attempt that is waited for.
Acknowledged(s, answer) ==
    LET k == stream[s].holder
        r == stream[s].sending
        advanced == [stream[s] EXCEPT !.next = r.seq + 1, !.pending = NoRequest]
        own == [Request(k) EXCEPT !.seq = r.seq + 1]
    IN  IF IsLeaseRequest(r)
        THEN /\ cmd' = [cmd EXCEPT ![k] = "acknowledged"]
             /\ stream' = [stream EXCEPT ![s] =
                  [Released(@) EXCEPT !.lease = answer.lease, !.next = answer.next]]
        ELSE IF SameOperation(k, r)
        THEN /\ cmd' = [cmd EXCEPT ![k] = "acknowledged"]
             /\ stream' = [stream EXCEPT ![s] = Released(advanced)]
        ELSE /\ stream' = [stream EXCEPT ![s] =
                  [advanced EXCEPT !.pending = own, !.sending = own, !.tries = 0,
                                   !.awaited = 0]]
             /\ UNCHANGED cmd

\* A handler ends with an HTTP status; the client hears it if it still waits.
Respond(h, status, answer) ==
    LET s == Sent(h.request)
    IN  /\ handlers' = handlers \ {h}
        /\ IF stream[s].awaited # h.n THEN UNCHANGED clientVars
           ELSE CASE status = "ok" -> Acknowledged(s, answer)
                  [] status = "refused" -> HolderEnds(s, "failed")
                  [] OTHER -> AttemptFailed(s)

-----------------------------------------------------------------------------
(* The service *)

Proceed(h, phase) ==
    /\ handlers' = (handlers \ {h}) \cup {[h EXCEPT !.phase = phase]}
    /\ UNCHANGED clientVars

Answered(h, phase, answer) ==
    /\ handlers' = (handlers \ {h}) \cup {[h EXCEPT !.phase = phase, !.answer = answer]}
    /\ UNCHANGED clientVars

At(h, phase) == h \in handlers /\ h.phase = phase

\* begin and claim: drain check, then reserve_request, which answers a request it
\* has already answered.
ReserveLeaseRequest(h) ==
    LET s == Sent(h.request)
    IN  /\ At(h, "arrived") /\ IsLeaseRequest(h.request)
        /\ CASE ~accepting -> Respond(h, "unavailable", NoAnswer)
             [] accepting /\ leaseAnswers[s] # NoAnswer -> Respond(h, "ok", leaseAnswers[s])
             [] OTHER -> Proceed(h, "reserved")
        /\ UNCHANGED <<storeVars, journalVars, appended, accepting, mishaps>>

\* begin_call or handoff_call; when the repository refuses, the current lease of the
\* same owner is the answer of an attempt that came before.
Grant(h) ==
    LET r == h.request
        c == r.call
        granted == [call |-> c, owner |-> r.by, gen |-> calls'[c].gen]
        again == /\ calls[c].owner = r.by
                 /\ r.op = "begin" => calls[c].gen = 1
    IN  /\ At(h, "reserved") /\ IsLeaseRequest(r)
        /\ \/ /\ \/ r.op = "begin" /\ BeginCall(c, r.by, FALSE, r.at)
                 \/ r.op = "claim" /\ HandoffCall(c, r.data, r.by, r.at)
              /\ Answered(h, "granted", [lease |-> granted, next |-> 0])
           \/ /\ IF r.op = "begin" THEN calls[c].status # "absent"
                 ELSE ~(Active(c) /\ calls[c].owner = r.data)
              /\ IF again
                 THEN Answered(h, "granted", [next |-> 0,
                        lease |-> [call |-> c, owner |-> r.by, gen |-> calls[c].gen]])
                 ELSE Respond(h, "refused", NoAnswer)
              /\ UNCHANGED storeVars
        /\ UNCHANGED <<journalVars, appended, accepting, mishaps>>

\* next_sequence, read from the journal after the repository has answered.
ReadCursor(h) ==
    /\ At(h, "granted")
    /\ Answered(h, "applied", [h.answer EXCEPT !.next = cursor[h.request.call] + 1])
    /\ UNCHANGED <<storeVars, journalVars, appended, accepting, mishaps>>

\* complete_request: the first answer stays.
CompleteLeaseRequest(h) ==
    LET s == Sent(h.request)
    IN  /\ At(h, "applied") /\ IsLeaseRequest(h.request)
        /\ IF leaseAnswers[s] = NoAnswer
           THEN /\ leaseAnswers' = [leaseAnswers EXCEPT ![s] = h.answer]
                /\ Respond(h, "ok", h.answer)
           ELSE Respond(h, "refused", NoAnswer) /\ UNCHANGED leaseAnswers
        /\ UNCHANGED <<storeVars, journal, cursor, appended, accepting, mishaps>>

\* assert_relay_fence
CheckFence(h) ==
    /\ At(h, "arrived") /\ ~IsLeaseRequest(h.request)
    /\ IF Holds(h.request.lease) THEN Proceed(h, "fenced")
       ELSE Respond(h, "refused", NoAnswer)
    /\ UNCHANGED <<storeVars, journalVars, appended, accepting, mishaps>>

\* A journal that takes whatever comes next in line, without looking at its answer.
ReserveUnanswered(h) ==
    LET r == h.request
        rows == journal[r.call]
    IN  /\ At(h, "fenced")
        /\ CASE r.seq <= Len(rows) ->
                  /\ Respond(h, "ok", NoAnswer)
                  /\ UNCHANGED journal
             [] OTHER ->
                  /\ journal' = [journal EXCEPT ![r.call] =
                       Append(@, [request |-> r, answered |-> FALSE])]
                  /\ Proceed(h, "reserved")
        /\ UNCHANGED <<storeVars, cursor, leaseAnswers, appended, accepting, mishaps>>

\* reserve_update: a row of the same request answers or is taken up again; a new
\* request must be the next after the last acknowledged one.
ReserveUpdate(h) ==
    LET r == h.request
        rows == journal[r.call]
    IN  /\ At(h, "fenced")
        /\ \/ /\ r.seq <= Len(rows)
              /\ CASE rows[r.seq].request # r -> Respond(h, "refused", NoAnswer)
                   [] rows[r.seq] = [request |-> r, answered |-> TRUE] ->
                        Respond(h, "ok", NoAnswer)
                   [] OTHER -> Proceed(h, "reserved")
              /\ UNCHANGED journal
           \/ /\ r.seq > Len(rows) /\ r.seq = cursor[r.call] + 1
              /\ journal' = [journal EXCEPT ![r.call] =
                   Append(@, [request |-> r, answered |-> FALSE])]
              /\ Proceed(h, "reserved")
           \/ /\ r.seq > Len(rows) /\ r.seq # cursor[r.call] + 1
              /\ Respond(h, "refused", NoAnswer)
              /\ UNCHANGED journal
        /\ UNCHANGED <<storeVars, cursor, leaseAnswers, appended, accepting, mishaps>>

\* An observation inserted without looking at its operation id.
InsertObservation(r) ==
    /\ Holds(r.lease)
    /\ AppendTranscript(r.call)
    /\ appended' = appended \cup {OperationId(r)}

\* append_*_once: INSERT OR IGNORE by operation id, under the fence.
InsertObservationOnce(r) ==
    /\ Holds(r.lease)
    /\ IF OperationId(r) \in appended THEN UNCHANGED <<storeVars, appended>>
       ELSE /\ AppendTranscript(r.call)
            /\ appended' = appended \cup {OperationId(r)}

\* terminalize: a call that already ended under this lease answers with its event.
TerminalizeOnce(r) ==
    \/ \E i \in EventIds : Terminalize(r.lease, r.data, "none", now, i)
    \/ Holds(r.lease) /\ Terminal(r.call) /\ UNCHANGED storeVars

\* What the repository accepts.
Accepts(r) ==
    /\ Holds(r.lease)
    /\ r.op \in {"renew", "flush"} => Active(r.call)

\* _apply: one transaction of the repository under the request's own lease.
Apply(h) ==
    LET r == h.request
    IN  /\ At(h, "reserved") /\ ~IsLeaseRequest(r)
        /\ \/ /\ \/ r.op = "renew" /\ RenewLease(r.lease, r.at) /\ UNCHANGED appended
                 \/ r.op = "observe" /\ InsertObservationOnce(r)
                 \/ r.op = "flush" /\ FlushResults(r.lease, r.data) /\ UNCHANGED appended
                 \/ r.op = "terminalize" /\ TerminalizeOnce(r) /\ UNCHANGED appended
              /\ Proceed(h, "applied")
           \/ ~Accepts(r) /\ Respond(h, "refused", NoAnswer) /\ UNCHANGED <<storeVars, appended>>
        /\ UNCHANGED <<journalVars, accepting, mishaps>>

\* A cursor that counts acknowledgements.
CompleteCounting(h) ==
    LET r == h.request
        row == journal[r.call][r.seq]
    IN  /\ At(h, "applied") /\ ~IsLeaseRequest(r)
        /\ IF row.request = r /\ (row.answered => ~IssuesToken(r))
           THEN /\ journal' = [journal EXCEPT ![r.call][r.seq].answered = TRUE]
                /\ cursor' = [cursor EXCEPT ![r.call] = @ + 1]
                /\ Respond(h, "ok", NoAnswer)
           ELSE Respond(h, "refused", NoAnswer) /\ UNCHANGED <<journal, cursor>>
        /\ UNCHANGED <<storeVars, leaseAnswers, appended, accepting, mishaps>>

\* complete_update: the first answer of a row stays, and the cursor moves past it.
Complete(h) ==
    LET r == h.request
        row == journal[r.call][r.seq]
    IN  /\ At(h, "applied") /\ ~IsLeaseRequest(r)
        /\ IF /\ row.request = r /\ (row.answered => ~IssuesToken(r))
              /\ cursor[r.call] \in {r.seq - 1, r.seq}
           THEN /\ journal' = [journal EXCEPT ![r.call][r.seq].answered = TRUE]
                /\ cursor' = [cursor EXCEPT ![r.call] = r.seq]
                /\ Respond(h, "ok", NoAnswer)
           ELSE Respond(h, "refused", NoAnswer) /\ UNCHANGED <<journal, cursor>>
        /\ UNCHANGED <<storeVars, leaseAnswers, appended, accepting, mishaps>>

\* A step raises: 503 for the journal and a drain, 409 for the repository.
HandlerFails(h, status) ==
    /\ h \in handlers /\ Mishap
    /\ Respond(h, status, NoAnswer)
    /\ UNCHANGED <<storeVars, journalVars, appended, accepting>>

\* The service's process dies with every request in it and is restarted.
ServiceDies ==
    /\ handlers # {} /\ Mishap
    /\ handlers' = {} /\ accepting' = TRUE
    /\ UNCHANGED <<storeVars, clientVars, journalVars, appended>>

BeginDrain ==
    /\ accepting /\ Mishap
    /\ accepting' = FALSE
    /\ UNCHANGED <<storeVars, clientVars, handlers, journalVars, appended>>

Handle(h) ==
    \/ ReserveLeaseRequest(h) \/ Grant(h) \/ ReadCursor(h) \/ CompleteLeaseRequest(h)
    \/ CheckFence(h) \/ ReserveUpdate(h) \/ Apply(h) \/ Complete(h)

\* The companion's recovery takes a stale call over.
Sweep(c) ==
    /\ TakeoverExpiredCall(c, Sweeper, now)
    /\ UNCHANGED <<clientVars, handlers, journalVars, appended, accepting, mishaps>>

TimePasses ==
    /\ Tick
    /\ UNCHANGED <<clientVars, handlers, journalVars, appended, accepting, mishaps>>

-----------------------------------------------------------------------------
RelayInit ==
    /\ Init
    /\ cmd = [k \in Commands |-> "idle"]
    /\ stream = [s \in Streams |-> ClosedStream]
    /\ handlers = {}
    /\ journal = [c \in Calls |-> << >>]
    /\ cursor = [c \in Calls |-> 0]
    /\ leaseAnswers = [s \in Streams |-> NoAnswer]
    /\ appended = {}
    /\ accepting = TRUE
    /\ mishaps = 0

ClientStep(s) == Send(s) \/ TimeOut(s)

RelayNext ==
    \/ \E k \in Commands : Call(k) \/ Acquire(k) \/ Cancel(k)
    \/ \E s \in Streams : ClientStep(s)
    \/ \E h \in handlers : Handle(h)
    \/ \E h \in handlers, status \in {"refused", "unavailable"} : HandlerFails(h, status)
    \/ ServiceDies
    \/ BeginDrain
    \/ \E c \in Calls : Sweep(c)
    \/ TimePasses

RelaySpec == RelayInit /\ [][RelayNext]_relayVars

\* A free lock wakes its waiters, an attempt ends in an answer or a timeout, and the
\* service's event loop runs its handlers.
RelayFairSpec ==
    /\ RelaySpec
    /\ \A k \in Commands : WF_relayVars(Acquire(k))
    /\ \A s \in Streams : WF_relayVars(ClientStep(s))
    /\ WF_relayVars(\E h \in handlers : Handle(h))

-----------------------------------------------------------------------------
(* Properties *)

\* "a per-call sequence, starting at 1 with no gaps": row n of the journal is request
\* n, all rows up to the cursor are answered, and at most one row is open.
StreamIsGapFree ==
    \A c \in Calls :
       /\ Len(journal[c]) \in {cursor[c], cursor[c] + 1}
       /\ \A n \in DOMAIN journal[c] :
            /\ journal[c][n].request.seq = n
            /\ n <= cursor[c] <=> journal[c][n].answered

\* "observation inserts are at-most-once": retries, duplicates of a request and
\* replays of a pending one store one row each.
ObservationsAreStoredOnce ==
    \A c \in Calls :
       LET rows == {a \in appended : a.call = c}
       IN  /\ calls[c].turns = Cardinality(rows)
           /\ \A a, b \in rows : a.data = b.data => a = b

\* What a task was told is acknowledged is in the repository: its observation, its
\* flushed result, or the terminal event it asked for.
AcknowledgedIsDurable ==
    \A k \in Commands : cmd[k] = "acknowledged" =>
       /\ k.op = "observe" => \E a \in appended : a.call = k.call /\ a.data = k.data
       /\ k.op = "flush" => calls[k.call].result # NoResult /\ calls[k.call].result.data = k.data
       /\ k.op = "terminalize" => Terminal(k.call) /\ calls[k.call].reason = k.data
       /\ IsLeaseRequest(k) => stream[StreamOf(k)].lease \in leases

\* "exact replay": a client is in step with the journal of its call, or behind by the
\* one request it keeps to replay, so its next request is never out of sequence.
ClientInStepWithJournal ==
    \A s \in Streams : stream[s].lease # NoLease /\ Holds(stream[s].lease) =>
       \/ stream[s].next = cursor[s[2]] + 1
       \/ /\ stream[s].next = cursor[s[2]]
          /\ stream[s].pending # NoRequest /\ stream[s].pending.seq = stream[s].next

\* Every call of a client method returns: neither a cancelled task, an exhausted
\* retry nor a service that dies leaves the lock taken.
EveryCallReturns ==
    \A k \in Commands : cmd[k] = "waiting" ~> Finished(cmd[k])

Overtaken(c) == \E h \in handlers : h.request.call = c /\ h.request.seq <= cursor[c]

\* A lease is only ever shortened by a duplicate of a request that was answered.
OnlyLateDuplicatesReorder ==
    [][\A c \in Calls :
         Active(c) /\ calls'[c].gen = calls[c].gen /\ ~Overtaken(c) =>
           calls'[c].expires \in {NoTime} \cup calls[c].expires .. Horizon]_relayVars

\* "the current request is never interrupted or reordered": an acknowledged renewal
\* is not taken back by an older one.
RenewalsOnlyExtend ==
    [][\A c \in Calls :
         Active(c) /\ calls'[c].gen = calls[c].gen =>
           calls'[c].expires \in {NoTime} \cup calls[c].expires .. Horizon]_relayVars

===============================================================================
