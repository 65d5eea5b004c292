---------------------------- MODULE AgentRuntime ----------------------------
(***************************************************************************)
(* AgentRuntime and ToolDispatcher: the life of one agent's processes when *)
(* several coroutines load, dispatch to, deploy and unload it.  Names do   *)
(* not share state (each has its own entry in _agents and _statuses), so   *)
(* one name is modelled.  A process stands for a NativeProtocol object and *)
(* the subprocess it started; AgentRpc models the inside of one.           *)
(* Coroutines interleave at awaits: start, initialize, publish, execute,   *)
(* health and stop.  publish suspends because main.py subscribes "agent.*".*)
(***************************************************************************)
EXTENDS Naturals, FiniteSets

CONSTANTS Tasks,        \* coroutines: requests, tool calls, the shutdown
          Procs,        \* the processes there can be: bounds the spawns
          NoProc,       \* no entry, no process
          Ops           \* which of AllOps the tasks perform

AllOps == {"dispatch", "load", "deploy", "unload"}

ASSUME ProcsAssumption == NoProc \notin Procs
ASSUME OpsAssumption   == Ops \subseteq AllOps

VARIABLES entry,        \* _agents[name], NoProc when absent
          status,       \* _statuses[name]: "running" or "none" when absent
          registered,   \* the enforcer knows the agent's permissions
          proc,         \* proc[p]: "free", "starting", "up" or "down"
          pc,           \* pc[t]: the await task t is suspended at
          op,           \* op[t]: what task t performs
          mine,         \* mine[t]: the process task t starts, stops or calls
          result,       \* history: how task t's last operation ended
          loadsMet      \* history: two loads were in flight at once

tables == <<entry, status, registered>>
vars == <<entry, status, registered, proc, pc, op, mine, result, loadsMet>>

AllPcs == {"idle", "starting", "initializing", "publishing_load", "stopping",
           "publishing_unload", "executing", "checking"}

Live(p) == p # NoProc /\ proc[p] = "up"

Init == /\ entry = NoProc
        /\ status = "none"
        /\ registered = FALSE
        /\ proc = [p \in Procs |-> "free"]
        /\ pc = [t \in Tasks |-> "idle"]
        /\ op = [t \in Tasks |-> "dispatch"]
        /\ mine = [t \in Tasks |-> NoProc]
        /\ result = [t \in Tasks |-> "none"]
        /\ loadsMet = FALSE

At(t, where, p) == pc' = [pc EXCEPT ![t] = where] /\ mine' = [mine EXCEPT ![t] = p]

Done(t, how) == At(t, "idle", NoProc) /\ result' = [result EXCEPT ![t] = how]

-----------------------------------------------------------------------------
\* dispatch: the entry is looked up again, whatever was loaded before.
Dispatch(t) ==
  /\ IF entry = NoProc THEN Done(t, "not_loaded")
     ELSE IF ~registered THEN Done(t, "denied")
     ELSE IF ~Live(entry) THEN Done(t, "not_running")
     ELSE At(t, "executing", entry) /\ UNCHANGED result
  /\ UNCHANGED tables

\* Mutant of BeginUnload: the entry is forgotten without stop().
BeginUnloadNoStop(t) ==
  /\ entry' = NoProc
  /\ status' = "none"
  /\ At(t, "publishing_unload", NoProc)
  /\ UNCHANGED <<registered, result>>

\* unload_agent up to its first await: stop() of a dead process is immediate.
BeginUnload(t) ==
  /\ entry' = NoProc
  /\ IF Live(entry)
     THEN At(t, "stopping", entry) /\ UNCHANGED status
     ELSE At(t, "publishing_unload", NoProc) /\ status' = "none"
  /\ UNCHANGED <<registered, result>>

\* deploy_agent's health check through get_status: the status word is that of
\* _statuses whatever the process does; only a live process is asked.
CheckHealth(t) ==
  IF entry = NoProc THEN BeginUnload(t)
  ELSE /\ IF Live(entry) THEN At(t, "checking", entry) /\ UNCHANGED result
          ELSE Done(t, "deployed")
       /\ UNCHANGED tables

\* What operation o does once load_agent has returned.
Loaded(t, o) ==
  CASE o = "dispatch" -> Dispatch(t)
    [] o = "deploy"   -> CheckHealth(t)
    [] OTHER          -> Done(t, "loaded") /\ UNCHANGED tables

\* load_agent up to its first await: an entry, live or dead, ends it.
BeginLoad(t, o) ==
  \/ /\ entry # NoProc
     /\ Loaded(t, o)
     /\ UNCHANGED proc
  \/ /\ entry = NoProc
     /\ \E p \in Procs : /\ proc[p] = "free"
                         /\ proc' = [proc EXCEPT ![p] = "starting"]
                         /\ At(t, "starting", p)
     /\ UNCHANGED <<tables, result>>

-----------------------------------------------------------------------------
Start(t, o) == pc[t] = "idle" /\ o \in Ops /\ op' = [op EXCEPT ![t] = o]

\* ToolDispatcher.dispatch: ensure_loaded looks at the process, not the entry;
\* a dead one is unloaded before it loads afresh.
StartDispatch(t) ==
  /\ Start(t, "dispatch")
  /\ \/ entry # NoProc /\ ~Live(entry) /\ BeginUnload(t) /\ UNCHANGED proc
     \/ (entry = NoProc \/ Live(entry)) /\ BeginLoad(t, "dispatch")

\* POST /load and the load_agent of execute_tool_call.
StartLoad(t) == Start(t, "load") /\ BeginLoad(t, "load")

\* deploy_agent: load, then the health check.
StartDeploy(t) == Start(t, "deploy") /\ BeginLoad(t, "deploy")

\* POST /unload, and shutdown_all for its one name.
StartUnload(t) ==
  /\ Start(t, "unload")
  /\ BeginUnload(t)
  /\ UNCHANGED proc

\* create_subprocess_exec returns; the permissions are registered.
Started(t) ==
  /\ pc[t] = "starting"
  /\ proc' = [proc EXCEPT ![mine[t]] = "up"]
  /\ registered' = TRUE
  /\ pc' = [pc EXCEPT ![t] = "initializing"]
  /\ UNCHANGED <<entry, status, op, mine, result>>

\* It raises: the operation fails; deploy_agent unloads and rolls back.
StartFails(t) ==
  /\ pc[t] = "starting"
  /\ proc' = [proc EXCEPT ![mine[t]] = "down"]
  /\ IF op[t] = "deploy" THEN BeginUnload(t)
     ELSE Done(t, "load_failed") /\ UNCHANGED tables
  /\ UNCHANGED op

\* initialize has answered or failed (non-fatal): the process becomes the entry.
Initialized(t) ==
  /\ pc[t] = "initializing"
  /\ entry' = mine[t]
  /\ status' = "running"
  /\ pc' = [pc EXCEPT ![t] = "publishing_load"]
  /\ UNCHANGED <<registered, proc, op, mine, result>>

LoadPublished(t) ==
  /\ pc[t] = "publishing_load"
  /\ Loaded(t, op[t])
  /\ UNCHANGED <<proc, op>>

\* stop() has ended the process; only now does its status go.
Stopped(t) ==
  /\ pc[t] = "stopping"
  /\ proc' = [proc EXCEPT ![mine[t]] = "down"]
  /\ status' = "none"
  /\ At(t, "publishing_unload", NoProc)
  /\ UNCHANGED <<entry, registered, op, result>>

\* An unload ends; the one inside ensure_loaded goes on to load.
UnloadPublished(t) ==
  /\ pc[t] = "publishing_unload"
  /\ UNCHANGED op
  /\ \/ op[t] = "dispatch" /\ BeginLoad(t, "dispatch")
     \/ /\ op[t] # "dispatch"
        /\ Done(t, IF op[t] = "deploy" THEN "rolled_back" ELSE "unloaded")
        /\ UNCHANGED <<tables, proc>>

\* The answer, an error, or the end of a process that died under the call.
Executed(t) ==
  /\ pc[t] = "executing"
  /\ Done(t, IF Live(mine[t]) THEN "answered" ELSE "closed")
  /\ UNCHANGED <<tables, proc, op>>

\* health answered or failed: "running" either way.
Checked(t) ==
  /\ pc[t] = "checking"
  /\ Done(t, "deployed")
  /\ UNCHANGED <<tables, proc, op>>

\* A process may die at any time.
Crash(p) ==
  /\ proc[p] = "up"
  /\ proc' = [proc EXCEPT ![p] = "down"]
  /\ UNCHANGED <<tables, pc, op, mine, result>>

Begin(t) == StartDispatch(t) \/ StartLoad(t) \/ StartDeploy(t) \/ StartUnload(t)

Resume(t) == \/ Started(t) \/ StartFails(t) \/ Initialized(t) \/ LoadPublished(t)
             \/ Stopped(t) \/ UnloadPublished(t) \/ Executed(t) \/ Checked(t)

LoadsMeet == \E t, u \in Tasks : /\ t # u
                                 /\ {pc[t], pc[u]} \subseteq {"starting", "initializing"}

Next == /\ \/ \E t \in Tasks : Begin(t) \/ Resume(t)
           \/ \E p \in Procs : Crash(p)
        /\ loadsMet' = (loadsMet \/ LoadsMeet')

Spec == Init /\ [][Next]_vars

-----------------------------------------------------------------------------
(* Properties *)

\* The values every variable keeps.
TypeOK ==
  /\ entry \in Procs \cup {NoProc}
  /\ status \in {"none", "running"}
  /\ registered \in BOOLEAN
  /\ proc \in [Procs -> {"free", "starting", "up", "down"}]
  /\ pc \in [Tasks -> AllPcs]
  /\ op \in [Tasks -> AllOps]
  /\ mine \in [Tasks -> Procs \cup {NoProc}]
  /\ loadsMet \in BOOLEAN
  /\ result \in [Tasks -> {"none", "not_loaded", "denied", "not_running", "answered",
                           "closed", "loaded", "load_failed", "deployed", "rolled_back",
                           "unloaded"}]

Owns(t, p) == mine[t] = p /\ pc[t] \in {"starting", "initializing", "stopping"}

\* A process is started by one coroutine and stopped by one, however loads,
\* unloads and re-spawns overlap: nobody stops what another starts or stops.
OneOwner ==
  \A t, u \in Tasks, p \in Procs : Owns(t, p) /\ Owns(u, p) => t = u

\* A live process is the entry, or somebody is about to make it one or to end
\* it: the runtime loses a subprocess only when two loads of the agent were in
\* flight at once, whatever unloads, re-spawns and crashes come between.
NoProcessLost ==
  ~loadsMet =>
    \A p \in Procs : proc[p] = "up" => entry = p \/ \E t \in Tasks : Owns(t, p)

=============================================================================
