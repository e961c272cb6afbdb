------------------------------- MODULE MCRelay -------------------------------
(* The method calls of a worker's tasks, for checking Relay.                 *)
EXTENDS Relay, TLC

CONSTANTS c1, host, worker, sweeper, e1

Does(id, by, op, data, after) ==
    [id |-> id, by |-> by, call |-> c1, op |-> op, data |-> data, after |-> after]

\* A host reserves a call; a worker claims it, observes twice and ends it.
ReservedCall ==
    {Does("b", host, "begin", "", {}),
     Does("c", worker, "claim", host, {"b"}),
     Does("o1", worker, "observe", "hello", {"c"}),
     Does("o2", worker, "observe", "bye", {"c"}),
     Does("t", worker, "terminalize", "hangup", {"o1"})}

\* A worker's heartbeat beside the final writes of its call.
OwnCall ==
    {Does("b", worker, "begin", "", {}),
     Does("r1", worker, "renew", "", {"b"}),
     Does("r2", worker, "renew", "", {"r1"}),
     Does("f", worker, "flush", "result", {"b"})}

\* A heartbeat alone.
Heartbeat ==
    {Does("b", worker, "begin", "", {}),
     Does("r1", worker, "renew", "", {"b"}),
     Does("r2", worker, "renew", "", {"r1"})}
===============================================================================
