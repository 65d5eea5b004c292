------------------------------ MODULE Consent ------------------------------
(***************************************************************************)
(* The user's consent to one agent (M2.2): who may execute it is decided   *)
(* by the PermissionSet object the enforcer holds, which belongs to one    *)
(* manifest object; the registry may hold another since discover() builds  *)
(* every manifest anew; the database keeps the decision over a restart.    *)
(* Tasks are the HTTP requests and tool calls; they interleave at awaits   *)
(* (loading a process, reading and writing the database).  The database    *)
(* connection serves its calls in the order they were made.                *)
(***************************************************************************)
EXTENDS Naturals, Sequences

CONSTANTS Tasks,
          MaxManifests,  \* bound on the manifest objects of one process
          MaxRestarts,   \* bound on the restarts of one behaviour
          Ops            \* which of AllOps happen

AllOps == {"enable", "revoke", "execute", "tool_call", "unload", "discover"}

Manifests == 1..MaxManifests
Unknown   == 0             \* no permissions registered, no manifest captured

VARIABLES current,   \* the registry's manifest of the agent
          approved,  \* approved[m]: user_approved of manifest m's permissions
          enforcer,  \* the manifest whose permissions the enforcer holds
          loaded,    \* the runtime has an entry for the agent
          db,        \* the persisted consent
          dbq,       \* database calls made and not yet served
          pc,        \* pc[t]: the await task t is at
          op,        \* op[t]: what task t performs
          captured,  \* captured[t]: the manifest that load_agent, then _approve_agent, got first
          seen,      \* seen[t]: what get_consent returned
          word,      \* history: the user's last decision
          acked,     \* history: the last decision answered to the user
          crossed,   \* history: a revoke came while a direct call was deciding
          detached,  \* history: in this process a revoke or a load met a replaced manifest
          builtin,   \* the agent is one of main.py's builtin_agents; never changes
          restarts

mem  == <<current, approved, enforcer, loaded>>
disk == <<db, dbq>>
ctl  == <<pc, op, captured, seen>>
hist == <<word, acked, crossed, detached>>
env  == <<builtin, restarts>>
vars == <<current, approved, enforcer, loaded, db, dbq, pc, op, captured, seen,
          word, acked, crossed, detached, builtin, restarts>>

Allowed == enforcer # Unknown /\ approved[enforcer]

\* What a start of the kernel makes of the persisted consent c: a fresh manifest,
\* built-ins loaded and approved, then the consent restored over that.
Restored(c) ==
  /\ current' = 1
  /\ loaded' = builtin
  /\ approved' = [m \in Manifests |-> m = 1 /\ (c = "approved" \/ (builtin /\ c # "revoked"))]
  /\ enforcer' = IF builtin \/ c = "approved" THEN 1 ELSE Unknown

Init == /\ builtin \in BOOLEAN
        /\ current = 1
        /\ loaded = builtin
        /\ approved = [m \in Manifests |-> m = 1 /\ builtin]
        /\ enforcer = IF builtin THEN 1 ELSE Unknown
        /\ db = "none"
        /\ dbq = <<>>
        /\ pc = [t \in Tasks |-> "idle"]
        /\ op = [t \in Tasks |-> "enable"]
        /\ captured = [t \in Tasks |-> Unknown]
        /\ seen = [t \in Tasks |-> "none"]
        /\ word = "none"
        /\ acked = "none"
        /\ crossed = FALSE
        /\ detached = FALSE
        /\ restarts = 0

At(t, where) == pc' = [pc EXCEPT ![t] = where]

AskDb(t, kind, value) == dbq' = Append(dbq, [task |-> t, kind |-> kind, value |-> value])

-----------------------------------------------------------------------------
\* The granting part of _approve_agent on the manifest m it looked up before: the
\* flag, the enforcer, then the await.
Grant(t, m) ==
  /\ approved' = [approved EXCEPT ![m] = TRUE]
  /\ enforcer' = m
  /\ AskDb(t, "set", "approved")
  /\ At(t, "writing")
  /\ UNCHANGED <<current, loaded>>

\* What a request does once the agent is loaded.  Enabling always grants; a
\* direct call looks the manifest up and asks for the persisted consent; a tool
\* call just dispatches.
AfterLoad(t, o) ==
  CASE o = "enable"  -> Grant(t, current) /\ word' = "approved" /\ UNCHANGED captured
    [] o = "execute" -> /\ captured' = [captured EXCEPT ![t] = current]
                        /\ AskDb(t, "get", "none")
                        /\ At(t, "reading")
                        /\ UNCHANGED <<mem, word>>
    [] OTHER         -> At(t, "idle") /\ UNCHANGED <<mem, dbq, captured, word>>

\* POST /load, POST /execute and execute_tool_call: load unless loaded.  The
\* manifest is looked up before the process is started.
Request(t, o) ==
  /\ pc[t] = "idle"
  /\ o \in Ops
  /\ op' = [op EXCEPT ![t] = o]
  /\ IF loaded
     THEN AfterLoad(t, o)
     ELSE /\ captured' = [captured EXCEPT ![t] = current]
          /\ At(t, "starting")
          /\ UNCHANGED <<mem, dbq, word>>
  /\ UNCHANGED <<db, seen, acked, crossed, detached, env>>

\* load_agent: the process runs; the manifest got at first goes to the enforcer.
Registered(t) ==
  /\ pc[t] = "starting"
  /\ enforcer' = captured[t]
  /\ detached' = (detached \/ captured[t] # current)
  /\ At(t, "initializing")
  /\ UNCHANGED <<current, approved, loaded, disk, op, captured, seen, word, acked, crossed, env>>

\* The process cannot be started: the request ends without touching consent.
LoadFails(t) ==
  /\ pc[t] = "starting"
  /\ At(t, "idle")
  /\ UNCHANGED <<mem, disk, op, captured, seen, hist, env>>

\* The process is initialized and the entry made; then the request goes on.
Entered(t) ==
  /\ pc[t] = "initializing"
  /\ loaded' = TRUE
  /\ At(t, "loaded")
  /\ UNCHANGED <<current, approved, enforcer, disk, op, captured, seen, hist, env>>

GoOn(t) ==
  /\ pc[t] = "loaded"
  /\ AfterLoad(t, op[t])
  /\ UNCHANGED <<db, op, seen, acked, crossed, detached, env>>

\* Mutant of Decide: the persisted consent is not looked at.
DecideAlways(t) ==
  /\ pc[t] = "deciding"
  /\ Grant(t, captured[t])
  /\ UNCHANGED <<db, op, captured, seen, hist, env>>

\* _approve_agent(explicit=False) with the consent it has read: a revoke is
\* sticky, anything else grants, to the manifest that was there when it asked.
Decide(t) ==
  /\ pc[t] = "deciding"
  /\ IF seen[t] = "revoked"
     THEN At(t, "idle") /\ UNCHANGED <<mem, dbq>>
     ELSE Grant(t, captured[t])
  /\ UNCHANGED <<db, op, captured, seen, hist, env>>

\* Some direct call has asked for the persisted consent and not yet acted on it.
Deciding == \E t \in Tasks : pc[t] \in {"reading", "deciding"}

\* Mutant of Revoke: only the database hears of it.
RevokeOnDisk(t) ==
  /\ pc[t] = "idle"
  /\ "revoke" \in Ops
  /\ crossed' = (crossed \/ Deciding)
  /\ detached' = (detached \/ enforcer \notin {Unknown, current})
  /\ op' = [op EXCEPT ![t] = "revoke"]
  /\ word' = "revoked"
  /\ AskDb(t, "set", "revoked")
  /\ At(t, "writing")
  /\ UNCHANGED <<mem, db, captured, seen, acked, env>>

\* POST /revoke: the flag of the registry's manifest, then the database.
Revoke(t) ==
  /\ pc[t] = "idle"
  /\ "revoke" \in Ops
  /\ crossed' = (crossed \/ Deciding)
  /\ detached' = (detached \/ enforcer \notin {Unknown, current})
  /\ op' = [op EXCEPT ![t] = "revoke"]
  /\ word' = "revoked"
  /\ approved' = [approved EXCEPT ![current] = FALSE]
  /\ AskDb(t, "set", "revoked")
  /\ At(t, "writing")
  /\ UNCHANGED <<current, enforcer, loaded, db, captured, seen, acked, env>>

\* The database serves the oldest call; an explicit decision is then answered.
DbServes ==
  /\ dbq # <<>>
  /\ LET call == Head(dbq) IN
     \/ /\ call.kind = "get"
        /\ seen' = [seen EXCEPT ![call.task] = db]
        /\ At(call.task, "deciding")
        /\ UNCHANGED <<db, acked>>
     \/ /\ call.kind = "set"
        /\ db' = call.value
        /\ acked' = IF op[call.task] = "execute" THEN acked ELSE call.value
        /\ At(call.task, "idle")
        /\ UNCHANGED seen
  /\ dbq' = Tail(dbq)
  /\ UNCHANGED <<mem, op, captured, word, crossed, detached, env>>

\* POST /unload, and the re-spawn of a dead process.
Unload ==
  /\ "unload" \in Ops
  /\ loaded
  /\ loaded' = FALSE
  /\ UNCHANGED <<current, approved, enforcer, disk, ctl, hist, env>>

\* deploy_agent or a catalog install of any agent: every manifest is rebuilt,
\* unapproved; the enforcer keeps the object it has.
Discover ==
  /\ "discover" \in Ops
  /\ current < MaxManifests
  /\ current' = current + 1
  /\ UNCHANGED <<approved, enforcer, loaded, disk, ctl, hist, env>>

\* The kernel dies at any point and starts again.
Restart ==
  /\ restarts < MaxRestarts
  /\ restarts' = restarts + 1
  /\ Restored(db)
  /\ dbq' = <<>>
  /\ pc' = [t \in Tasks |-> "idle"]
  /\ word' = acked
  /\ detached' = FALSE
  /\ UNCHANGED <<db, op, captured, seen, acked, crossed, builtin>>

Next == \/ \E t \in Tasks : \/ \E o \in {"enable", "execute", "tool_call"} : Request(t, o)
                            \/ Registered(t) \/ LoadFails(t) \/ Entered(t) \/ GoOn(t)
                            \/ Decide(t) \/ Revoke(t)
        \/ DbServes
        \/ Unload
        \/ Discover
        \/ Restart

Spec == Init /\ [][Next]_vars

-----------------------------------------------------------------------------
(* Properties *)

Consents == {"none", "approved", "revoked"}

\* The values every variable keeps.
TypeOK ==
  /\ current \in Manifests
  /\ approved \in [Manifests -> BOOLEAN]
  /\ enforcer \in Manifests \cup {Unknown}
  /\ loaded \in BOOLEAN
  /\ db \in Consents
  /\ dbq \in Seq([task : Tasks, kind : {"get", "set"}, value : Consents])
  /\ pc \in [Tasks -> {"idle", "starting", "initializing", "loaded", "reading",
                       "deciding", "writing"}]
  /\ op \in [Tasks -> AllOps]
  /\ captured \in [Tasks -> Manifests \cup {Unknown}]
  /\ seen \in [Tasks -> Consents]
  /\ word \in Consents
  /\ acked \in Consents
  /\ {crossed, detached, builtin} \subseteq BOOLEAN
  /\ restarts \in 0..MaxRestarts

\* From the revoke on, and over restarts, the agent is denied until it is
\* enabled again (agents.py:109: "calls are denied immediately"), unless a direct
\* call was deciding meanwhile, or the revoke found the enforcer with a manifest
\* that a rediscovery had replaced, or a load gives the enforcer such a one.
RevokedMeansDenied == ~crossed /\ ~detached => (word = "revoked" => ~Allowed)

Undecided == \A i \in DOMAIN dbq : dbq[i].kind = "get" \/ op[dbq[i].task] = "execute"

\* A revoke that was answered stays in the database until the user enables the
\* agent again: a direct call that begins after it cannot undo it, whatever was
\* in flight, rediscovered or restarted.
RevokeIsSticky == ~crossed => (acked = "revoked" /\ Undecided => db = "revoked")

\* The same for every direct call, also one under way when the revoke comes
\* (agents.py:67-71: implicit approvals "respect a STICKY revoke").
RevokeIsStickyAlways == acked = "revoked" /\ Undecided => db = "revoked"

=============================================================================
