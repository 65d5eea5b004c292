------------------------------- MODULE Sandbox -------------------------------
(***************************************************************************)
(* What stands between a request and an agent, and between an agent and    *)
(* the network: the rate limit, the permission check and the audit trail   *)
(* of InProcessSandbox (kernel/sandbox/backend.py, rate_limiter.py,        *)
(* audit.py) that POST /agents/{name}/execute goes through, and the        *)
(* NetworkProxy (network_proxy.py) with a limiter of its own.  Who has     *)
(* consent is Consent's matter; what the agent does is AgentRuntime's.     *)
(***************************************************************************)
EXTENDS Integers, Sequences

CONSTANTS
  Requests,     \* each is made once
  Fetches,      \* those that an agent makes to the network
  Agents,
  MaxRequests,  \* RateLimiter._max, of both limiters
  Window,       \* RateLimiter._window, in ticks
  MaxTime       \* bound on the clock

VARIABLES
  now,          \* the monotonic clock
  stamps,       \* stamps[l][a]: RateLimiter._requests of limiter l for agent a
  permission,   \* of an agent: "unregistered", "granted" or "denied"
  pc,           \* pc[r]: "idle", "running" (in runtime.dispatch) or "done"
  agent,        \* agent[r]: the agent of a request
  answer,       \* answer[r]: "none", or how the request was answered
  rows,         \* rows[r]: the statuses of its rows in the audit log
  lost          \* history: requests with a row that could not be written

vars == <<now, stamps, permission, pc, agent, answer, rows, lost>>

Limiters == {"sandbox", "proxy"}
Statuses == {"ok", "denied", "error"}
TypeOK ==
  /\ now \in 0..MaxTime
  /\ \A l \in Limiters, a \in Agents : stamps[l][a] \in Seq(0..MaxTime)
  /\ permission \in [Agents -> {"unregistered", "granted", "denied"}]
  /\ pc \in [Requests -> {"idle", "running", "done"}] /\ agent \in [Requests -> Agents]
  /\ answer \in [Requests -> Statuses \cup {"none"}]
  /\ \A r \in Requests : rows[r] \in Seq(Statuses)
  /\ lost \subseteq Requests

Unused == [l \in Limiters |-> [a \in Agents |-> <<>>]]

Init ==
  /\ now = 0 /\ stamps = Unused
  /\ permission \in [Agents -> {"unregistered", "granted", "denied"}]
  /\ pc = [r \in Requests |-> "idle"] /\ agent \in [Requests -> Agents]
  /\ answer = [r \in Requests |-> "none"] /\ rows = [r \in Requests |-> <<>>]
  /\ lost = {}

\* _prune of check(): the stamps that are still in the window.
Recent(l, a) == SelectSeq(stamps[l][a], LAMBDA s : s > now - Window)

\* RateLimiter.check: a request that passes leaves a stamp, another none.
Passes(l, a) == Len(Recent(l, a)) < MaxRequests
check(l, a) ==
  stamps' = [stamps EXCEPT ![l][a] = IF Passes(l, a) THEN Append(Recent(l, a), now) ELSE Recent(l, a)]

\* _emit_audit into AuditLog.write, which swallows what goes wrong.
_emit_audit(r, status) ==
  \/ rows' = [rows EXCEPT ![r] = Append(@, status)] /\ UNCHANGED lost
  \/ lost' = lost \cup {r} /\ UNCHANGED rows

Answer(r, status) == answer' = [answer EXCEPT ![r] = status] /\ pc' = [pc EXCEPT ![r] = "done"]

\* Mutant: a refusal for want of permission is not logged.
refuse_silently(r) ==
  /\ Answer(r, "denied")
  /\ IF Passes("sandbox", agent[r]) THEN UNCHANGED <<rows, lost>> ELSE _emit_audit(r, "denied")

\* A refusal, for the limit or for the permission.
refuse(r) == Answer(r, "denied") /\ _emit_audit(r, "denied")

\* InProcessSandbox.dispatch up to its await: the limit, then the permission, of
\* which an agent that the enforcer does not know needs none.
dispatch(r) ==
  /\ pc[r] = "idle" /\ r \notin Fetches
  /\ check("sandbox", agent[r])
  /\ IF Passes("sandbox", agent[r]) /\ permission[agent[r]] # "denied"
     THEN pc' = [pc EXCEPT ![r] = "running"] /\ UNCHANGED <<answer, rows, lost>>
     ELSE refuse(r)
  /\ UNCHANGED <<now, permission, agent>>

\* The runtime returns or raises.
dispatched(r) ==
  /\ pc[r] = "running"
  /\ \E status \in {"ok", "error"} : Answer(r, status) /\ _emit_audit(r, status)
  /\ UNCHANGED <<now, stamps, permission, agent>>

\* NetworkProxy.handle: a host that the agent may not ask or that is private is
\* refused before the limit is, and nothing is logged.
handle(r) ==
  /\ pc[r] = "idle" /\ r \in Fetches
  /\ \/ Answer(r, "denied") /\ UNCHANGED stamps
     \/ /\ check("proxy", agent[r])
        /\ IF Passes("proxy", agent[r]) THEN \E status \in {"ok", "error"} : Answer(r, status)
           ELSE Answer(r, "denied")
  /\ UNCHANGED <<now, permission, agent, rows, lost>>

\* Consent is given or withdrawn, an agent is registered.
Decide(a) ==
  /\ \E p \in {"granted", "denied"} : permission' = [permission EXCEPT ![a] = p]
  /\ UNCHANGED <<now, stamps, pc, agent, answer, rows, lost>>

Tick == now < MaxTime /\ now' = now + 1 /\ UNCHANGED <<stamps, permission, pc, agent, answer, rows, lost>>

\* The kernel starts again: the log stays, what was running is never answered.
Restart ==
  /\ stamps' = Unused
  /\ permission' = [a \in Agents |-> "unregistered"]
  /\ pc' = [r \in Requests |-> IF pc[r] = "running" THEN "done" ELSE pc[r]]
  /\ UNCHANGED <<now, agent, answer, rows, lost>>

Next ==
  \/ \E r \in Requests : dispatch(r) \/ dispatched(r) \/ handle(r)
  \/ \E a \in Agents : Decide(a)
  \/ Tick \/ Restart

Spec == Init /\ [][Next]_vars

-----------------------------------------------------------------------------
\* Every execution that was answered has one row in the log, as it was answered,
\* unless that could not be written (AuditLog: "Every action that passes through
\* the sandbox is appended here").
ExecutionsAudited ==
  \A r \in Requests \ Fetches : answer[r] # "none" /\ r \notin lost => rows[r] = <<answer[r]>>
=============================================================================
