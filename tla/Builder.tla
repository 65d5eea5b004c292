------------------------------- MODULE Builder -------------------------------
(***************************************************************************)
(* The builder (kernel/builder/, routers/builder.py), the packages         *)
(* (catalog/installer.py, package.py), the user's skills                   *)
(* (routers/skills.py) and the registry they feed (plugin_registry.py):    *)
(* how a directory of agents/ comes to be, and who knows of it.            *)
(*                                                                         *)
(* A directory is what its files say: the manifest, skill.yaml, agent.py,  *)
(* and who wrote them.  Every route runs without a pause (the language     *)
(* model is called in line), except where an agent is started.             *)
(***************************************************************************)
EXTENDS Naturals, FiniteSets

CONSTANTS
  Sessions,    \* ids of the builder's sessions
  Names,       \* the names that requests lead to
  Tasks,       \* starts of an agent under way
  NoName,      \* a request of which no name is left
  Copies,      \* bound: directories of one name: foo, foo-2, ...
  Templates,   \* templates that a request is classified as
  Given,       \* bound: names that create-agent, packages and user's skills take
  MaxRuns      \* bound: starts of the kernel

VARIABLES
  sess,      \* SessionStore._sessions
  dir,       \* the directories of agents/
  user,      \* the directories of the user's skills, %APPDATA%/KALI/skills
  reg,       \* PluginRegistry._agents: the protocol of each manifest
  outside,   \* PluginRegistry._dirs: the names whose directory is the user's
  loaded,    \* SkillExecutor._skills: whose directory each was loaded from
  agents,    \* AgentRuntime._agents
  task,      \* routes that await the start of an agent
  runs,      \* starts of the kernel so far
  built,     \* where each session's skill was reported deployed
  taken,     \* history: directories that create-agent or a package named
  imported   \* history: names that a user's skill was given since the kernel
             \* started, or since they were last built

live == <<reg, outside, loaded, imported>>
kernel == <<live, agents, task>>
vars == <<sess, dir, user, kernel, runs, built, taken>>

Places == Names \X (1..Copies)
Nowhere == <<NoName, 0>>
NoSession == [open |-> FALSE, template |-> "unknown", name |-> NoName, step |-> 0, spec |-> NoName, old |-> FALSE]
NoTask == [at |-> Nowhere, how |-> "none"]
Absent == [manifest |-> "absent", yaml |-> "none", code |-> FALSE, by |-> NoName]
Empty == [Absent EXCEPT !.manifest = "none"]

\* A skill of the user's: SKILL.md, with a manifest.yaml that may name another
\* protocol, and a skill.yaml or none.
Imports == {[Absent EXCEPT !.manifest = m, !.yaml = y] : m \in {"skill", "native"}, y \in {"none", "ok", "bad"}}

\* The number of questions of _skill_questions: no template asks a tracker's.
questions(t) == CASE t \in {"tracker", "unknown"} -> 3 [] t = "logger" -> 1 [] OTHER -> 2

TypeOK ==
  /\ sess \in [Sessions -> [open: BOOLEAN, template: Templates \cup {"unknown"}, name: Names \cup {NoName},
                            step: 0..4, spec: Names \cup {NoName}, old: BOOLEAN]]
  /\ dir \in [Places -> [manifest: {"absent", "none", "skill", "native"}, yaml: {"none", "ok", "bad"},
                         code: BOOLEAN, by: Sessions \cup {NoName}]]
  /\ user \in [Places -> {Absent} \cup Imports]
  /\ reg \in [Places -> {"none", "skill", "native"}]
  /\ outside \subseteq Places /\ imported \subseteq Places
  /\ loaded \in [Places -> {"none", "agents", "user"}]
  /\ agents \subseteq Places /\ taken \subseteq Places
  /\ task \in [Tasks -> [at: Places \cup {Nowhere}, how: {"none", "create", "package"}]]
  /\ runs \in 1..MaxRuns /\ built \in [Sessions -> Places \cup {Nowhere}]

-----------------------------------------------------------------------------
(* The registry.                                                           *)

\* discover: what a scan of agents/ finds, in place of all that was known.
discover(d) == [p \in Places |-> IF d[p].manifest \in {"skill", "native"} THEN d[p].manifest ELSE "none"]

\* register_dir: one directory more, of agents/ or of the user's.
register_dir(d, p) == [reg EXCEPT ![p] = IF d[p].manifest \in {"skill", "native"} THEN d[p].manifest ELSE @]

\* _is_callable: a skill's tools are advertised only over a skill.yaml, in the
\* directory that the name was registered from.
is_callable(p) ==
  reg[p] = "native" \/ (reg[p] = "skill" /\ (IF p \in outside THEN user ELSE dir)[p].yaml # "none")

\* load_skill: skill.yaml names a template there is.
Loads(d, p) == d[p].yaml = "ok"

\* lifespan: the registry is filled, the executor loads the skills of it; the
\* user's are not among them.
AtStart(d) ==
  /\ reg' = discover(d) /\ outside' = {} /\ imported' = {}
  /\ loaded' = [p \in Places |-> IF discover(d)[p] = "skill" /\ Loads(d, p) THEN "agents" ELSE "none"]
  /\ agents' = {}
  /\ task' = [t \in Tasks |-> NoTask]

Init ==
  /\ sess = [s \in Sessions |-> NoSession]
  /\ \E there \in SUBSET {<<n, 1>> : n \in Names} :
       /\ dir = [p \in Places |-> IF p \in there THEN [Absent EXCEPT !.manifest = "native", !.code = TRUE] ELSE Absent]
       /\ reg = [p \in Places |-> IF p \in there THEN "native" ELSE "none"]
  /\ user = [p \in Places |-> Absent] /\ outside = {} /\ imported = {}
  /\ loaded = [p \in Places |-> "none"] /\ agents = {} /\ task = [t \in Tasks |-> NoTask]
  /\ runs = 1 /\ built = [s \in Sessions |-> Nowhere] /\ taken = {}

Restart ==
  /\ runs < MaxRuns /\ runs' = runs + 1
  /\ AtStart(dir)
  /\ sess' = [s \in Sessions |-> IF sess[s].open THEN [NoSession EXCEPT !.old = TRUE] ELSE sess[s]]
  /\ UNCHANGED <<dir, user, built, taken>>

-----------------------------------------------------------------------------
(* The wizard.  An id is used once: old marks the used and the expired.    *)

\* classify_intent: a skill of one of the templates, or of none; a request
\* for an agent is refused.
classify_intent == Templates \cup {"unknown"}

\* _build_spec, once every question has its answer; without a name it raises.
build_spec(t, k, n) == IF k >= questions(t) THEN n ELSE NoName

\* SessionStore.create.
create(s, t, n, k) ==
  sess' = [sess EXCEPT ![s] = [open |-> TRUE, template |-> t, name |-> n, step |-> k,
                               spec |-> build_spec(t, k, n), old |-> FALSE]]

\* SessionStore._evict_expired: half an hour passes.
Age(s) ==
  /\ sess[s].open /\ sess' = [sess EXCEPT ![s] = [NoSession EXCEPT !.old = TRUE]]
  /\ UNCHANGED <<dir, user, kernel, runs, built, taken>>

Fresh(s) == ~sess[s].open /\ ~sess[s].old

start(s) ==
  /\ Fresh(s)
  /\ \E t \in classify_intent, n \in Names \cup {NoName} : create(s, t, n, 0)
  /\ UNCHANGED <<dir, user, kernel, runs, built, taken>>

\* extract_spec: the first answers are taken from the request, or none when the
\* model fails.  Without a name the session stays, but its id is never told.
extract_spec(s) ==
  /\ Fresh(s)
  /\ \E t \in classify_intent, n \in Names \cup {NoName}, k \in 0..3 :
       /\ k <= questions(t) /\ (t = "unknown" => k = 0)
       /\ create(s, t, n, k)
  /\ UNCHANGED <<dir, user, kernel, runs, built, taken>>

\* answer: recorded first; once all are, the spec is built, and built again by
\* every further answer.
answer(s) ==
  /\ sess[s].open /\ sess[s].step < 4
  /\ sess' = [sess EXCEPT ![s].step = @ + 1, ![s].spec = build_spec(sess[s].template, sess[s].step + 1, sess[s].name)]
  /\ UNCHANGED <<dir, user, kernel, runs, built, taken>>

Delete(s) == sess' = [sess EXCEPT ![s] = [NoSession EXCEPT !.old = TRUE]]

cancel(s) ==
  /\ sess[s].open /\ Delete(s)
  /\ UNCHANGED <<dir, user, kernel, runs, built, taken>>

-----------------------------------------------------------------------------
(* Skills.                                                                 *)

\* _dedup_name: the first copy of a name that has no directory.
dedup_name(n) ==
  {p \in {n} \X (1..Copies) : dir[p] = Absent /\ \A j \in 1..(p[2] - 1) : dir[<<n, j>>] # Absent}

\* The files of generate_skill; a disk that is full leaves some of them, or a
\* skill.yaml cut off before its template.
generate_skill(t, s) ==
  [manifest |-> "skill", yaml |-> IF t = "unknown" THEN "bad" ELSE "ok", code |-> FALSE, by |-> s]
Partial(whole) ==
  {Empty, [whole EXCEPT !.yaml = "none"], [whole EXCEPT !.yaml = "bad"]}

\* generate_skill and deploy_skill, in the directory p: it is loaded, or rolled
\* back when it cannot be loaded or scheduled ("failed"; unscheduled, the name is
\* unloaded too), or left in part with the caller's error.
Outcomes == {"deployed", "failed", "broken"}
deploy_skill(t, s, p, how) ==
  \/ /\ how = "broken"
     /\ \E left \in Partial(generate_skill(t, s)) : dir' = [dir EXCEPT ![p] = left]
     /\ UNCHANGED loaded
  \/ how = "failed" /\ loaded' \in {loaded, [loaded EXCEPT ![p] = "none"]} /\ UNCHANGED dir
  \/ /\ how = "deployed" /\ t # "unknown"
     /\ dir' = [dir EXCEPT ![p] = generate_skill(t, s)]
     /\ loaded' = [loaded EXCEPT ![p] = "agents"]

\* Mutant: the deployed skill is left to the next discovery.
DeployUnregistered(s) ==
  /\ sess[s].open /\ sess[s].spec # NoName
  /\ \E p \in dedup_name(sess[s].spec), how \in Outcomes :
       /\ deploy_skill(sess[s].template, s, p, how)
       /\ built' = IF how = "deployed" THEN [built EXCEPT ![s] = p] ELSE built
       /\ IF how = "broken" THEN UNCHANGED sess ELSE Delete(s)
  /\ UNCHANGED <<user, reg, outside, imported, agents, task, runs, taken>>

\* BuilderFlow.deploy: only a built spec; a deployed skill is registered at
\* once, and the session ends unless the files could not be written.
deploy(s) ==
  /\ sess[s].open /\ sess[s].spec # NoName
  /\ \E p \in dedup_name(sess[s].spec), how \in Outcomes :
       /\ deploy_skill(sess[s].template, s, p, how)
       /\ IF how = "deployed"
          THEN /\ built' = [built EXCEPT ![s] = p] /\ imported' = imported \ {p}
               /\ reg' = register_dir(dir', p) /\ outside' = outside \ {p}
          ELSE UNCHANGED <<built, reg, outside, imported>>
       /\ IF how = "broken" THEN UNCHANGED sess ELSE Delete(s)
  /\ UNCHANGED <<user, agents, task, runs, taken>>

\* POST /builder/create-skill: the same, but nobody registers the skill.
create_skill(n) ==
  /\ \E t \in classify_intent, p \in dedup_name(n), how \in Outcomes : deploy_skill(t, NoName, p, how)
  /\ UNCHANGED <<sess, user, reg, outside, imported, agents, task, runs, built, taken>>

-----------------------------------------------------------------------------
(* The user's skills.  The files of an install are SkillInstall's.         *)

\* skills_install, skills_install_bundle: what was installed is registered from
\* its own directory, in place of whoever had the name, and loaded when it has a
\* skill.yaml; an error on the way is logged.
skills_install(p) ==
  /\ \E skill \in Imports : user' = [user EXCEPT ![p] = skill]
  /\ \/ UNCHANGED live
     \/ /\ reg' = register_dir(user', p) /\ outside' = outside \cup {p} /\ imported' = imported \cup {p}
        /\ loaded' = IF Loads(user', p) THEN [loaded EXCEPT ![p] = "user"] ELSE loaded
  /\ UNCHANGED <<sess, dir, agents, task, runs, built, taken>>

\* skills_uninstall, or an install that lost the directory: nobody is told.
skills_uninstall(p) ==
  /\ user[p] # Absent /\ user' = [user EXCEPT ![p] = Absent]
  /\ UNCHANGED <<sess, dir, kernel, runs, built, taken>>

-----------------------------------------------------------------------------
(* Agents and packages: over what is there.                                *)

\* AgentRuntime.load_agent suspends only for an agent that is not there yet.
StartsAgent(t, p, how) ==
  IF p \in agents THEN UNCHANGED task ELSE task' = [task EXCEPT ![t] = [at |-> p, how |-> how]]

\* generate_agent: agent.py and a manifest, into the directory, old or new.
generate_agent(p) == [dir EXCEPT ![p].manifest = "native", ![p].code = TRUE]

\* deploy_agent: all of agents/ is scanned and the agent started, or its
\* directory removed when the manifest is refused.
deploy_agent(t, p, d) ==
  /\ outside' = {}
  /\ \/ dir' = d /\ reg' = discover(d) /\ StartsAgent(t, p, "create")
     \/ dir' = [d EXCEPT ![p] = Absent] /\ reg' = discover([d EXCEPT ![p].manifest = "none"]) /\ UNCHANGED task

\* POST /builder/create-agent.
create_agent(t, p) ==
  /\ task[t] = NoTask
  /\ taken' = taken \cup {p}
  /\ deploy_agent(t, p, generate_agent(p))
  /\ UNCHANGED <<sess, user, loaded, imported, agents, runs, built>>

\* unpack: the members over the files that are there.
unpack(p, kind) ==
  CASE kind = "skill" -> [dir EXCEPT ![p].manifest = "skill", ![p].yaml = "ok"]
    [] kind = "odd" -> [dir EXCEPT ![p].manifest = "skill", ![p].yaml = "bad"]
    [] kind = "agent" -> [dir EXCEPT ![p].manifest = "native", ![p].code = TRUE]
    [] OTHER -> IF dir[p] = Absent THEN [dir EXCEPT ![p] = Empty] ELSE dir

\* install_package: broken, unsafe, a skill (loaded, then registered) or an
\* agent (started after a scan).  Errors leave the files as they are.
install_package(t, p) ==
  /\ task[t] = NoTask
  /\ taken' = taken \cup {p}
  /\ \/ \* the archive is broken, or its checksums are
        /\ \E kind \in {"broken", "skill", "agent"} : dir' = unpack(p, kind)
        /\ UNCHANGED <<reg, outside, loaded, task>>
     \/ \* unsafe code: the directory goes
        /\ dir' = [dir EXCEPT ![p] = Absent] /\ UNCHANGED <<reg, outside, loaded, task>>
     \/ \* a directory with a skill.yaml
        \E kind \in {"skill", "odd", "agent"} :
          /\ dir' = unpack(p, kind) /\ dir'[p].yaml # "none"
          /\ IF Loads(dir', p)
             THEN /\ loaded' = [loaded EXCEPT ![p] = "agents"]
                  /\ reg' = register_dir(dir', p) /\ outside' = outside \ {p}
             ELSE UNCHANGED <<loaded, reg, outside>>
          /\ UNCHANGED task
     \/ \* an agent
        /\ dir' = unpack(p, "agent") /\ dir'[p].yaml = "none"
        /\ reg' = discover(dir') /\ outside' = {} /\ StartsAgent(t, p, "package")
        /\ UNCHANGED loaded
  /\ UNCHANGED <<sess, user, imported, agents, runs, built>>

\* The agent runs: get_status says so, whatever its process does.
Started(t) ==
  /\ task[t] # NoTask
  /\ agents' = agents \cup {task[t].at}
  /\ task' = [task EXCEPT ![t] = NoTask]
  /\ UNCHANGED <<sess, dir, user, live, runs, built, taken>>

\* It cannot be started: deploy_agent unloads it and removes the directory,
\* the registry keeps its entry; install_package keeps the files.
Refused(t) ==
  /\ task[t] # NoTask
  /\ IF task[t].how = "create"
     THEN dir' = [dir EXCEPT ![task[t].at] = Absent] /\ agents' = agents \ {task[t].at}
     ELSE UNCHANGED <<dir, agents>>
  /\ task' = [task EXCEPT ![t] = NoTask]
  /\ UNCHANGED <<sess, user, live, runs, built, taken>>

Next ==
  \/ Restart
  \/ \E s \in Sessions : start(s) \/ extract_spec(s) \/ answer(s) \/ Age(s) \/ cancel(s) \/ deploy(s)
  \/ \E n \in Names : create_skill(n)
  \/ \E p \in Given : skills_install(p) \/ skills_uninstall(p)
  \/ \E t \in Tasks : Started(t) \/ Refused(t) \/ \E p \in Given : create_agent(t, p) \/ install_package(t, p)

Spec == Init /\ [][Next]_vars

-----------------------------------------------------------------------------
\* A skill that the flow reported deployed stays as it was written, whoever
\* builds, fails, rolls back, scans or restarts beside it, until its own name is
\* given to create-agent or to a package.  It is the one that the executor runs,
\* and its tools are advertised: until a skill of the user's of that name is
\* imported, which takes its place in both, and again from the next start on
\* (BuilderFlow.deploy, deploy_skill, register_dir, skills_install, lifespan).
BuiltSkillStands ==
  \A s \in Sessions : built[s] # Nowhere /\ built[s] \notin taken =>
    /\ dir[built[s]] = generate_skill("reminder", s) /\ loaded[built[s]] # "none"
    /\ built[s] \notin imported => loaded[built[s]] = "agents" /\ is_callable(built[s])

=============================================================================
