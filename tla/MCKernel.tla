------------------------------- MODULE MCKernel -------------------------------
(* Eight parts, checked apart: the processes of one agent (AgentRuntime), the  *)
(* consent to it (Consent), the gates before it and behind it (Sandbox), the   *)
(* way of events to the clients (EventRelay), the database (Database), the     *)
(* configuration file (Settings), the focus timer (FocusTimer) and the records *)
(* of a tracker, a monitor and a notifier (SkillRecords).  Requests, clients,  *)
(* writers and calls have the names of processes, and events those of tasks:   *)
(* one symmetry for all.                                                       *)
EXTENDS AgentRuntime, TLC
CONSTANTS
  ConsentOps, MaxManifests, MaxRestarts,                         \* of Consent
  Fetches, Agents, MaxRequests, Window, MaxTime,                 \* of Sandbox
  Fields, Facts, Kinds, MaxFaults, MaxRuns,                      \* of Database
  Defaults, MaxDocuments,                                        \* of Settings
  Durations, MaxMinutes, MaxSessions,                            \* of FocusTimer
  Trackers, Loggers, Monitors, Notifiers, Cap, MaxDay            \* of SkillRecords
VARIABLES part,
  current, approved, enforcer, loaded, db, dbq, at, does, captured, seen, word,
  acked, crossed, detached, builtin, restarts,
  now, stamps, permission, where, agent, answer, rows, lost,
  clients, state, rpc, position, to, disconnected, got, present, shifted,
  live, disk, todo, ahead, writer, inserted, removed, faults, runs,
  config, bak, document, save, new, used, raced,
  time, active, start_time, duration, task, countdowns, sessions,
  file, stage, skill, outcome, held, getaddrinfo, real_gai, configured, delivered, kept,
  today, failures

C == INSTANCE Consent WITH Ops <- ConsentOps, pc <- at, op <- does
S == INSTANCE Sandbox WITH Requests <- Procs \cup Fetches, pc <- where
R == INSTANCE EventRelay WITH Clients <- Procs, Events <- Tasks, pc <- rpc, at <- position
D == INSTANCE Database WITH Callers <- Procs, pc <- writer
G == INSTANCE Settings WITH file <- config, memory <- document, pc <- save
F == INSTANCE FocusTimer WITH MaxTime <- MaxMinutes, now <- time
K == INSTANCE SkillRecords WITH Calls <- Procs, NoCall <- NoProc,
       pc <- stage, status <- outcome, loop <- held, faults <- failures

consent == <<current, approved, enforcer, loaded, db, dbq, at, does, captured, seen,
             word, acked, crossed, detached, builtin, restarts>>
sandbox == <<now, stamps, permission, where, agent, answer, rows, lost>>
relay == <<clients, state, rpc, position, to, disconnected, got, present, shifted>>
database == <<live, disk, todo, ahead, writer, inserted, removed, faults, runs>>
settings == <<config, bak, document, save, new, used, raced>>
focus == <<time, active, start_time, duration, task, countdowns, sessions>>
records == <<file, stage, skill, outcome, held, getaddrinfo, real_gai, configured, delivered,
             kept, today, failures>>
Symmetry == Permutations(Tasks) \cup Permutations(Procs)

\* A part that is not checked rests: AgentRuntime in its initial state.
C_rests ==
  /\ current = 0 /\ approved = 0 /\ enforcer = 0 /\ loaded = 0 /\ db = 0 /\ dbq = 0 /\ at = 0
  /\ does = 0 /\ captured = 0 /\ seen = 0 /\ word = 0 /\ acked = 0 /\ crossed = 0 /\ detached = 0
  /\ builtin = 0 /\ restarts = 0
S_rests ==
  /\ now = 0 /\ stamps = 0 /\ permission = 0 /\ where = 0 /\ agent = 0 /\ answer = 0
  /\ rows = 0 /\ lost = 0
R_rests ==
  /\ clients = 0 /\ state = 0 /\ rpc = 0 /\ position = 0 /\ to = 0 /\ disconnected = 0
  /\ got = 0 /\ present = 0 /\ shifted = 0
D_rests ==
  /\ live = 0 /\ disk = 0 /\ todo = 0 /\ ahead = 0 /\ writer = 0 /\ inserted = 0 /\ removed = 0
  /\ faults = 0 /\ runs = 0
G_rests ==
  /\ config = 0 /\ bak = 0 /\ document = 0 /\ save = 0 /\ new = 0 /\ used = 0 /\ raced = 0
F_rests ==
  /\ time = 0 /\ active = 0 /\ start_time = 0 /\ duration = 0 /\ task = 0
  /\ countdowns = 0 /\ sessions = 0
K_rests ==
  /\ file = 0 /\ stage = 0 /\ skill = 0 /\ outcome = 0 /\ held = 0 /\ getaddrinfo = 0
  /\ real_gai = 0 /\ configured = 0 /\ delivered = 0 /\ kept = 0 /\ today = 0 /\ failures = 0
MCInit ==
  /\ part \in {"runtime", "consent", "sandbox", "relay", "database", "settings", "focus", "records"}
  /\ Init
  /\ IF part = "consent" THEN C!Init ELSE C_rests
  /\ IF part = "sandbox" THEN S!Init ELSE S_rests
  /\ IF part = "relay" THEN R!Init ELSE R_rests
  /\ IF part = "database" THEN D!Init ELSE D_rests
  /\ IF part = "settings" THEN G!Init ELSE G_rests
  /\ IF part = "focus" THEN F!Init ELSE F_rests
  /\ IF part = "records" THEN K!Init ELSE K_rests
MCNext ==
  \/ part = "runtime" /\ Next /\ UNCHANGED <<part, consent, sandbox, relay, database, settings, focus, records>>
  \/ part = "consent" /\ C!Next /\ UNCHANGED <<part, vars, sandbox, relay, database, settings, focus, records>>
  \/ part = "sandbox" /\ S!Next /\ UNCHANGED <<part, vars, consent, relay, database, settings, focus, records>>
  \/ part = "relay" /\ R!Next /\ UNCHANGED <<part, vars, consent, sandbox, database, settings, focus, records>>
  \/ part = "database" /\ D!Next /\ UNCHANGED <<part, vars, consent, sandbox, relay, settings, focus, records>>
  \/ part = "settings" /\ G!Next /\ UNCHANGED <<part, vars, consent, sandbox, relay, database, focus, records>>
  \/ part = "focus" /\ F!Next /\ UNCHANGED <<part, vars, consent, sandbox, relay, database, settings, records>>
  \/ part = "records" /\ K!Next /\ UNCHANGED <<part, vars, consent, sandbox, relay, database, settings, focus>>
MCSpec == MCInit /\ [][MCNext]_<<part, vars, consent, sandbox, relay, database, settings, focus, records>>

\* After a revoke the agent is denied until it is enabled again (agents.py:109).
RevokedMeansDenied == part = "consent" => C!RevokedMeansDenied
\* An answered revoke stays in the database until the user enables the agent.
RevokeIsSticky == part = "consent" => C!RevokeIsSticky
\* Every answered execution has its one row in the audit log (audit.py).
ExecutionsAudited == part = "sandbox" => S!ExecutionsAudited
\* A client that stays connected gets an event once (main.py, ws_forwarder).
HeardUnlessShifted == part = "relay" => R!HeardUnlessShifted
\* What a call answered has stored is on the disk, and stays (database.py).
AnsweredIsStored == part = "database" => D!AnsweredIsStored
\* A save never replaces a document that is not in the backup (config_manager.py).
ReplacedIsInBak == [][part = "settings" /\ G!replace /\ ~raced => bak = config]_settings
\* A completed session has run its time (focus.py).
SessionsRunFull == part = "focus" => F!SessionsRunFull
\* What skills have answered for is in their files, and true (skill_templates).
RecordsAreTrue == part = "records" => K!RecordsAreTrue
=============================================================================
