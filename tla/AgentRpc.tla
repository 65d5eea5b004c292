------------------------------ MODULE AgentRpc ------------------------------
(***************************************************************************)
(* One native agent: the kernel's end of its pipes (NativeProtocol) and    *)
(* the agent's end (BaseAgent.run).  Callers are the coroutines that run   *)
(* _send on one NativeProtocol object; they interleave at its awaits.  One *)
(* more caller, Stopper, is the coroutine that runs stop().                *)
(*                                                                         *)
(* A line on a pipe is a record: its kind and the JSON-RPC id it carries.  *)
(***************************************************************************)
EXTENDS Naturals, Sequences

CONSTANTS Clients,       (* coroutines that call initialize/execute/health  *)
          Stopper,       (* the coroutine that runs stop()                  *)
          NoOne,         (* the lock is free                                *)
          MaxRequests,   (* bound on the requests of one behaviour          *)
          MaxPrints,     (* bound on stray lines the agent prints           *)
          Disturbances   (* which of AllDisturbances may happen             *)

Callers == Clients \cup {Stopper}

AllDisturbances == {"timeout", "cancel", "print", "proxy_raise"}

ASSUME CallersAssumption == Stopper \notin Clients /\ NoOne \notin Callers
ASSUME BoundsAssumption  == /\ MaxRequests \in Nat
                            /\ MaxPrints \in Nat
ASSUME DisturbancesAssumption == Disturbances \subseteq AllDisturbances

StrayId == 0  \* _rpc_call's 99999: the id of no numbered request

VARIABLES alive,      \* the agent's process has not exited (returncode is None)
          attached,   \* _process is not None
          holder,     \* who holds _lock
          waiters,    \* who waits for _lock, first come first
          pc,         \* where each caller is in _send
          method,     \* the method each caller sends
          requestId,  \* _request_id
          stdin,      \* lines written to the agent and not yet read by it
          stdout,     \* lines printed by the agent and not yet read
          agent,      \* what the agent is doing, and for which id
          stopPc,     \* where stop() is
          outcome,    \* history: how request i ended, and whose answer it got
          disturbed,  \* history: an exchange was given up or polluted
          prints      \* stray lines printed so far

pipes  == <<stdin, stdout>>
lock   == <<holder, waiters>>
ghosts == <<disturbed, prints>>
vars   == <<alive, attached, holder, waiters, pc, method, requestId, stdin,
            stdout, agent, stopPc, outcome, disturbed, prints>>

Requests == {"execute", "health", "shutdown"}
Answers  == {"reply", "error"}
Failures == {"timeout", "closed", "cancelled", "garbage", "proxy_raised", "no_process"}

Line(kind, id) == [kind |-> kind, id |-> id]
Resting == [st |-> "idle", id |-> StrayId]

\* The sequence s without its i-th element.
Without(s, i) == SubSeq(s, 1, i - 1) \o SubSeq(s, i + 1, Len(s))

IsRunning == attached /\ alive

-----------------------------------------------------------------------------
(* The kernel's end *)

Init == /\ alive = TRUE
        /\ attached = TRUE
        /\ holder = NoOne
        /\ waiters = <<>>
        /\ pc = [c \in Callers |-> "idle"]
        /\ method = [c \in Callers |-> "health"]
        /\ requestId = 0
        /\ stdin = <<>>
        /\ stdout = <<>>
        /\ agent = Resting
        /\ stopPc = "idle"
        /\ outcome = [i \in 1..MaxRequests |-> [kind |-> "none", got |-> StrayId]]
        /\ disturbed = FALSE
        /\ prints = 0

\* The requests begun and those that wait to begin stay within the bound.
WithinBound == requestId + Len(waiters) < MaxRequests

\* A line reaches the agent only while its process lives.
Write(line) == stdin' = IF alive THEN Append(stdin, line) ELSE stdin

\* drain(): it returns at once, or suspends until the agent has read enough.
Drain(c) == \E at \in {"reading", "draining"} : pc' = [pc EXCEPT ![c] = at]

\* Mutant of Locked: the request goes out under the previous number.
LockedUnnumbered(c, m) ==
  /\ holder' = c
  /\ Drain(c)
  /\ Write(Line(m, requestId))
  /\ UNCHANGED <<requestId, outcome>>

\* Inside `async with self._lock': number the request, write and drain.  When
\* stop() has dropped the process meanwhile, `self._process.stdin' raises.
Locked(c, m) ==
  /\ requestId' = requestId + 1
  /\ IF attached
     THEN /\ holder' = c
          /\ Drain(c)
          /\ Write(Line(m, requestId + 1))
          /\ UNCHANGED outcome
     ELSE /\ holder' = NoOne
          /\ pc' = [pc EXCEPT ![c] = "idle"]
          /\ outcome' = [outcome EXCEPT ![requestId + 1] =
                           [kind |-> "no_process", got |-> StrayId]]
          /\ UNCHANGED stdin

\* _send: refused when not running, else takes the lock or queues for it.
Send(c, m) ==
  IF ~IsRunning
  THEN UNCHANGED <<lock, pc, method, requestId, stdin, outcome>>
  ELSE /\ WithinBound
       /\ method' = [method EXCEPT ![c] = m]
       /\ IF holder = NoOne /\ waiters = <<>>
          THEN Locked(c, m) /\ UNCHANGED waiters
          ELSE /\ waiters' = Append(waiters, c)
               /\ pc' = [pc EXCEPT ![c] = "queued"]
               /\ UNCHANGED <<holder, requestId, stdin, outcome>>

Call(c, m) ==
  /\ pc[c] = "idle"
  /\ Send(c, m)
  /\ UNCHANGED <<alive, attached, stdout, agent, stopPc, ghosts>>

\* The lock passes to the first waiter, who does not look at is_running again.
Wake ==
  /\ holder = NoOne
  /\ waiters # <<>>
  /\ waiters' = Tail(waiters)
  /\ Locked(Head(waiters), method[Head(waiters)])
  /\ UNCHANGED <<alive, attached, method, stdout, agent, stopPc, ghosts>>

Finish(kind, got) ==
  /\ outcome' = [outcome EXCEPT ![requestId] = [kind |-> kind, got |-> got]]
  /\ pc' = [pc EXCEPT ![holder] = "idle"]
  /\ holder' = NoOne

AtDrain == holder # NoOne /\ pc[holder] = "draining"
AtRead  == holder # NoOne /\ pc[holder] = "reading"

\* drain() returns.  No timeout is on it.
DrainEnds ==
  /\ AtDrain
  /\ attached
  /\ pc' = [pc EXCEPT ![holder] = "reading"]
  /\ UNCHANGED <<alive, attached, lock, method, requestId, pipes, agent,
                 stopPc, outcome, ghosts>>

\* The agent dies while drain() waits for it, and the broken pipe is raised, or
\* stop() has dropped the process by then and `self._process.stdout' raises: an
\* answer that was already printed stays in the pipe.
DrainRaises ==
  /\ AtDrain
  /\ ~alive
  /\ Finish(IF attached THEN "closed" ELSE "no_process", StrayId)
  /\ disturbed' = TRUE
  /\ UNCHANGED <<alive, attached, waiters, method, requestId, pipes, agent,
                 stopPc, prints>>

\* readline returns a line: whatever answer it is, it is this caller's.
ReadAnswer ==
  /\ AtRead
  /\ stdout # <<>>
  /\ Head(stdout).kind \in Answers
  /\ stdout' = Tail(stdout)
  /\ Finish(Head(stdout).kind, Head(stdout).id)
  /\ UNCHANGED <<alive, attached, waiters, method, requestId, stdin, agent,
                 stopPc, ghosts>>

\* Mutant of ReadProxyCall: a reverse request is taken for the answer.
ReadProxyCallAsAnswer ==
  /\ AtRead
  /\ stdout # <<>>
  /\ Head(stdout).kind = "network"
  /\ stdout' = Tail(stdout)
  /\ Finish("reply", Head(stdout).id)
  /\ UNCHANGED <<alive, attached, waiters, method, requestId, stdin, agent,
                 stopPc, ghosts>>

\* Mutant of ReadProxyCall: the lock is given back during the HTTP request.
ReadProxyCallUnlocked ==
  /\ AtRead
  /\ stdout # <<>>
  /\ Head(stdout).kind = "network"
  /\ stdout' = Tail(stdout)
  /\ Finish("closed", StrayId)
  /\ UNCHANGED <<alive, attached, waiters, method, requestId, stdin, agent,
                 stopPc, ghosts>>

\* readline returns the agent's own request for the network.
ReadProxyCall ==
  /\ AtRead
  /\ stdout # <<>>
  /\ Head(stdout).kind = "network"
  /\ stdout' = Tail(stdout)
  /\ pc' = [pc EXCEPT ![holder] = "proxy"]
  /\ UNCHANGED <<alive, attached, lock, method, requestId, stdin, agent,
                 stopPc, outcome, ghosts>>

\* readline returns a line that is not JSON: json.loads raises.
ReadGarbage ==
  /\ AtRead
  /\ stdout # <<>>
  /\ Head(stdout).kind = "garbage"
  /\ stdout' = Tail(stdout)
  /\ Finish("garbage", StrayId)
  /\ disturbed' = TRUE
  /\ UNCHANGED <<alive, attached, waiters, method, requestId, stdin, agent,
                 stopPc, prints>>

\* readline returns b"": the process is gone and the pipe is drained.
ReadEof ==
  /\ AtRead
  /\ stdout = <<>>
  /\ ~alive
  /\ Finish("closed", StrayId)
  /\ UNCHANGED <<alive, attached, waiters, method, requestId, pipes, agent,
                 stopPc, ghosts>>

\* Mutant of Timeout: readline without wait_for.
TimeoutNever == FALSE

\* No line within 10 s: wait_for raises and the lock is given back.
Timeout ==
  /\ "timeout" \in Disturbances
  /\ AtRead
  /\ stdout = <<>>
  /\ alive
  /\ Finish("timeout", StrayId)
  /\ disturbed' = TRUE
  /\ UNCHANGED <<alive, attached, waiters, method, requestId, pipes, agent,
                 stopPc, prints>>

\* NetworkProxy.handle returns: its result goes back to the agent, with a drain.
ProxyReturns ==
  /\ holder # NoOne
  /\ pc[holder] = "proxy"
  /\ IF attached
     THEN /\ Write(Line("proxy_reply", StrayId))
          /\ Drain(holder)
          /\ UNCHANGED <<holder, outcome>>
     ELSE Finish("no_process", StrayId) /\ UNCHANGED stdin
  /\ UNCHANGED <<alive, attached, waiters, method, requestId, stdout, agent,
                 stopPc, ghosts>>

\* NetworkProxy.handle raises on parameters of the wrong type (int(timeout)).
ProxyRaises ==
  /\ "proxy_raise" \in Disturbances
  /\ holder # NoOne
  /\ pc[holder] = "proxy"
  /\ Finish("proxy_raised", StrayId)
  /\ disturbed' = TRUE
  /\ UNCHANGED <<alive, attached, waiters, method, requestId, pipes, agent,
                 stopPc, prints>>

\* The task that awaits _send is cancelled (its client went away).
CancelExchange(c) ==
  /\ "cancel" \in Disturbances
  /\ holder = c
  /\ Finish("cancelled", StrayId)
  /\ disturbed' = TRUE
  /\ UNCHANGED <<alive, attached, waiters, method, requestId, pipes, agent,
                 stopPc, prints>>

CancelWait(c) ==
  /\ "cancel" \in Disturbances
  /\ pc[c] = "queued"
  /\ \E i \in DOMAIN waiters : waiters[i] = c /\ waiters' = Without(waiters, i)
  /\ pc' = [pc EXCEPT ![c] = "idle"]
  /\ UNCHANGED <<alive, attached, holder, method, requestId, pipes, agent,
                 stopPc, outcome, ghosts>>

\* stop(): nothing to do when not running, else ask the agent to shut down.
StopCall ==
  /\ stopPc = "idle"
  /\ stopPc' = IF IsRunning THEN "asking" ELSE "stopped"
  /\ Send(Stopper, "shutdown")
  /\ UNCHANGED <<alive, attached, stdout, agent, ghosts>>

\* However that ended, a process that is still there is terminated (killed
\* after 5 s): it dies with the lines it had not read.
StopTerminate ==
  /\ stopPc = "asking"
  /\ pc[Stopper] = "idle"
  /\ stopPc' = "reaping"
  /\ alive' = FALSE
  /\ stdin' = <<>>
  /\ agent' = Resting
  /\ UNCHANGED <<attached, lock, pc, method, requestId, stdout, outcome, ghosts>>

StopDetach ==
  /\ stopPc = "reaping"
  /\ stopPc' = "stopped"
  /\ attached' = FALSE
  /\ UNCHANGED <<alive, lock, pc, method, requestId, pipes, agent, outcome, ghosts>>

-----------------------------------------------------------------------------
(* The agent's end *)

AgentOnly == UNCHANGED <<attached, lock, pc, method, requestId, stopPc, outcome>>

Dies == /\ alive' = FALSE
        /\ stdin' = <<>>
        /\ agent' = Resting

\* run(): takes the next line as a request, whatever it is.
AgentReads ==
  /\ alive
  /\ agent.st = "idle"
  /\ stdin # <<>>
  /\ \/ /\ Head(stdin).kind \in {"execute", "health"}
        /\ stdin' = Tail(stdin)
        /\ agent' = [st |-> Head(stdin).kind, id |-> Head(stdin).id]
        /\ UNCHANGED <<alive, stdout>>
     \/ /\ Head(stdin).kind = "shutdown"   \* answers, then sys.exit(0)
        /\ stdout' = Append(stdout, Line("reply", Head(stdin).id))
        /\ Dies
     \/ /\ Head(stdin).kind = "proxy_reply"  \* "Method not found"
        /\ stdin' = Tail(stdin)
        /\ stdout' = Append(stdout, Line("error", Head(stdin).id))
        /\ UNCHANGED <<alive, agent>>
  /\ AgentOnly /\ UNCHANGED ghosts

\* handle_request returns, or handle_action raised.
AgentAnswers(kind) ==
  /\ alive
  /\ agent.st \in {"execute", "health"}
  /\ agent.st = "health" => kind = "reply"
  /\ stdout' = Append(stdout, Line(kind, agent.id))
  /\ agent' = Resting
  /\ AgentOnly /\ UNCHANGED <<alive, stdin, ghosts>>

\* http_request: a line out, then the very next line in is taken as its reply.
\* Nothing limits how often one request does that.
AgentCallsProxy ==
  /\ alive
  /\ agent.st = "execute"
  /\ stdout' = Append(stdout, Line("network", StrayId))
  /\ agent' = [agent EXCEPT !.st = "awaiting"]
  /\ AgentOnly /\ UNCHANGED <<alive, stdin, ghosts>>

AgentTakesProxyReply ==
  /\ alive
  /\ agent.st = "awaiting"
  /\ stdin # <<>>
  /\ stdin' = Tail(stdin)
  /\ agent' = [agent EXCEPT !.st = "execute"]
  /\ AgentOnly /\ UNCHANGED <<alive, stdout, ghosts>>

\* The agent's code prints to stdout, which is the answer pipe.
AgentPrints ==
  /\ "print" \in Disturbances
  /\ alive
  /\ agent.st = "execute"
  /\ prints < MaxPrints
  /\ prints' = prints + 1
  /\ stdout' = Append(stdout, Line("garbage", StrayId))
  /\ disturbed' = TRUE
  /\ AgentOnly /\ UNCHANGED <<alive, stdin, agent>>

AgentCrashes ==
  /\ alive
  /\ Dies
  /\ AgentOnly /\ UNCHANGED <<stdout, ghosts>>

-----------------------------------------------------------------------------
Exchange == ReadAnswer \/ ReadProxyCall \/ ReadGarbage \/ ReadEof \/ Timeout
            \/ ProxyReturns \/ ProxyRaises \/ DrainRaises
            \/ (stdin = <<>> /\ DrainEnds)

\* From the end of its _send to terminate() stop() does not suspend, so no other
\* coroutine runs there.
AtAwait == ~(stopPc = "asking" /\ pc[Stopper] = "idle")

KernelStep == AtAwait /\ (Wake \/ Exchange)

\* The buffers of the pipe take what was written before the agent reads it.
BufferStep == AtAwait /\ DrainEnds

CallerStep == /\ AtAwait
              /\ \/ \E c \in Clients, m \in {"execute", "health"} : Call(c, m)
                 \/ \E c \in Clients : CancelExchange(c) \/ CancelWait(c)

StopStep == StopTerminate \/ StopDetach

AgentStep == \/ AgentReads
             \/ \E kind \in Answers : AgentAnswers(kind)
             \/ AgentCallsProxy
             \/ AgentTakesProxyReply
             \/ AgentPrints
             \/ AgentCrashes

Next == KernelStep \/ BufferStep \/ CallerStep \/ StopCall \/ StopStep \/ AgentStep

Spec == Init /\ [][Next]_vars

\* The event loop runs what is ready, its timers fire, and a drain ends once the
\* agent has read everything.  Nothing is assumed of the agent: it may hang.
Fairness == WF_vars(KernelStep) /\ WF_vars(StopStep)

FairSpec == Spec /\ Fairness

-----------------------------------------------------------------------------
(* Properties *)

LineOf(kinds) == [kind : kinds, id : 0..MaxRequests]
InLines  == LineOf(Requests \cup {"proxy_reply"})
OutLines == LineOf(Answers \cup {"network", "garbage"})
Outcomes == [kind : {"none"} \cup Answers \cup Failures, got : 0..MaxRequests]
Pcs      == {"idle", "queued", "draining", "reading", "proxy"}
Agents   == [st : {"idle", "execute", "health", "awaiting"}, id : 0..MaxRequests]

\* The values every variable keeps.
TypeOK ==
  /\ alive \in BOOLEAN
  /\ attached \in BOOLEAN
  /\ holder \in Callers \cup {NoOne}
  /\ waiters \in Seq(Callers)
  /\ pc \in [Callers -> Pcs]
  /\ method \in [Callers -> Requests]
  /\ requestId \in 0..MaxRequests
  /\ stdin \in Seq(InLines)
  /\ stdout \in Seq(OutLines)
  /\ agent \in Agents
  /\ stopPc \in {"idle", "asking", "reaping", "stopped"}
  /\ outcome \in [1..MaxRequests -> Outcomes]
  /\ disturbed \in BOOLEAN
  /\ prints \in 0..MaxPrints

AnsweredIds == {i \in 1..MaxRequests : outcome[i].kind \in Answers}

\* JSON-RPC 2.0: an answer handed to a caller carries the id of his request.
AnswersOwnRequest == \A i \in AnsweredIds : outcome[i].got = i

\* Until an exchange is given up or polluted, every answer that _send returns or
\* raises is the answer to the very request it wrote.
OwnAnswerUnlessDisturbed == ~disturbed => AnswersOwnRequest

\* Until a disturbance the line an agent takes as the network's reply is one:
\* no request is swallowed by an agent that waits inside http_request.
ProxyReplyReachesItsCall ==
  [][(agent.st = "awaiting" /\ agent'.st = "execute" /\ ~disturbed)
       => Head(stdin).kind = "proxy_reply"]_vars

\* When stop() has returned, the agent's process is gone, whether it answered
\* the shutdown, hung, or was busy with the requests of others.
StoppedMeansDead == stopPc = "stopped" => ~alive

\* Only the holder of the lock is between its write and its answer, so what two
\* callers write and read never interleaves; whoever waits is in the queue.
OneExchangeAtATime ==
  \A c \in Callers : /\ pc[c] \in {"draining", "reading", "proxy"} <=> holder = c
                     /\ pc[c] = "queued" <=> \E i \in DOMAIN waiters : waiters[i] = c

\* The two ways in which an agent holds the caller and the lock for ever: it asks
\* for the network again and again, each line with a timeout of its own, or it
\* reads nothing while a drain waits for it.
AsksWithoutEnd == []<><<AgentCallsProxy>>_vars
NeverReads     == <>[](AtDrain /\ stdin # <<>>)

\* There is no third way: every call of _send returns, also of those that are
\* queued, when the agent hangs, floods or dies in any other state.
EveryCallReturns ==
  ~AsksWithoutEnd /\ ~NeverReads => \A c \in Callers : pc[c] # "idle" ~> pc[c] = "idle"

Service == INSTANCE RpcService WITH sent <- requestId, open <- holder # NoOne

\* The protocol implements the reply service of RpcService.
ImplementsService == Service!Spec
=============================================================================
