---------------------------- MODULE Builder_proofs ----------------------------
(***************************************************************************)
(* Theorems about the parts of the builder run, for every value of their   *)
(* constants: the builder (Builder) and the installation of skills         *)
(* (SkillInstall).  The module extends the one that the run checks, where  *)
(* SkillInstall is the instance I; a theorem speaks of the part's own      *)
(* specification and of the run's.                                         *)
(***************************************************************************)
EXTENDS MCBuilder, TLAPS

-----------------------------------------------------------------------------
(* The builder and the user's skills.                                      *)

SessionRecords ==
  [open : BOOLEAN, template : Templates \cup {"unknown"}, name : Names \cup {NoName}, step : Nat,
   spec : Names \cup {NoName}, old : BOOLEAN]

\* What a session built stands as it was written while nobody else is known to
\* have taken its directory, and runs while no skill of the user's has its name.
Stands(p, s) ==
  /\ dir[p] = generate_skill("reminder", s) /\ loaded[p] # "none"
  /\ p \notin imported => loaded[p] = "agents" /\ reg[p] = "skill" /\ p \notin outside

\* An agent that is being started has taken its directory.
BuilderInv ==
  /\ sess \in [Sessions -> SessionRecords] /\ DOMAIN dir = Places /\ DOMAIN reg = Places
  /\ DOMAIN built = Sessions /\ DOMAIN task = Tasks /\ DOMAIN loaded = Places
  /\ \A t \in Tasks : task[t] # NoTask => task[t].at \in taken
  /\ \A s \in Sessions : built[s] # Nowhere => built[s] \in Places
  /\ \A s \in Sessions : built[s] # Nowhere /\ built[s] \notin taken => Stands(built[s], s)

\* Nothing is built at the start.
LEMMA InitBuilderInv == Init => BuilderInv
<1> SUFFICES ASSUME Init PROVE BuilderInv
  OBVIOUS
<1>1. NoSession \in SessionRecords
  BY DEF NoSession, SessionRecords
<1>2. (\A s \in Sessions : built[s] = Nowhere) /\ DOMAIN task = Tasks
  BY DEF Init
<1>3. \A t \in Tasks : task[t] = NoTask
  BY DEF Init
<1>4. DOMAIN dir = Places /\ DOMAIN reg = Places /\ DOMAIN loaded = Places
  BY DEF Init
<1>5. QED
  BY <1>1, <1>2, <1>3, <1>4 DEF Init, BuilderInv

\* A skill's files are the same for every template but unknown; no directory that
\* is absent holds them.
LEMMA SkillForms ==
  /\ \A t, s : t # "unknown" => generate_skill(t, s) = generate_skill("reminder", s)
  /\ \A s : /\ generate_skill("reminder", s) # Absent
            /\ generate_skill("reminder", s).manifest = "skill"
            /\ generate_skill("reminder", s).yaml = "ok"
  /\ Absent.manifest = "absent" /\ Absent.yaml = "none"
BY DEF generate_skill, Absent

\* A new directory is one of agents/ that is absent.
LEMMA NewPlace ==
  ASSUME NEW n \in Names, NEW p \in dedup_name(n)
  PROVE  p \in Places /\ p # Nowhere /\ dir[p] = Absent
BY DEF dedup_name, Places, Nowhere

\* What is known of the names other than p stays, or is known again from agents/.
OthersKept(p) ==
  /\ DOMAIN dir' = Places /\ DOMAIN reg' = Places /\ DOMAIN loaded' = Places
  /\ outside' \subseteq outside /\ imported \subseteq imported' \cup {p}
  /\ \A q \in Places \ {p} :
       /\ dir'[q] = dir[q] /\ loaded'[q] = loaded[q]
       /\ reg[q] = "skill" /\ dir[q].manifest = "skill" => reg'[q] = "skill"

\* Who changes one directory that is absent, or taken, leaves what was built.
LEMMA OthersStand ==
  ASSUME BuilderInv, NEW p, OthersKept(p), taken \subseteq taken', p \in taken' \/ (p \in Places /\ dir[p] = Absent),
         NEW s \in Sessions, built'[s] = built[s], built'[s] # Nowhere, built'[s] \notin taken'
  PROVE  Stands(built[s], s)'
<1>1. built[s] \in Places /\ built[s] \notin taken /\ Stands(built[s], s)
  BY DEF BuilderInv
<1>2. built[s] # p
  BY <1>1, SkillForms DEF Stands
<1>3. dir[built[s]].manifest = "skill"
  BY <1>1, SkillForms DEF Stands
<1>4. dir'[built[s]] = dir[built[s]] /\ loaded'[built[s]] = loaded[built[s]]
  BY <1>1, <1>2 DEF OthersKept
<1>5. built[s] \notin imported' => reg'[built[s]] = "skill" /\ built[s] \notin outside' /\ built[s] \notin imported
  BY <1>1, <1>2, <1>3 DEF Stands, OthersKept
<1>6. QED
  BY <1>1, <1>4, <1>5 DEF Stands

\* The wizard's steps only write sessions.
LEMMA SessionsStep ==
  ASSUME BuilderInv, NEW s \in Sessions, start(s) \/ extract_spec(s) \/ answer(s) \/ Age(s) \/ cancel(s)
  PROVE  BuilderInv'
<1>1. sess[s] \in SessionRecords
  BY DEF BuilderInv
<1>2. [NoSession EXCEPT !.old = TRUE] \in SessionRecords
  BY DEF NoSession, SessionRecords
<1>3. \A t, k : \A n \in Names \cup {NoName} : build_spec(t, k, n) \in Names \cup {NoName}
  BY DEF build_spec
<1>4. ASSUME NEW t \in Templates \cup {"unknown"}, NEW n \in Names \cup {NoName}, NEW k \in Nat
      PROVE  [open |-> TRUE, template |-> t, name |-> n, step |-> k, spec |-> build_spec(t, k, n), old |-> FALSE]
               \in SessionRecords
  BY <1>3 DEF SessionRecords
<1>5. sess' \in [Sessions -> SessionRecords]
  <2>1. CASE start(s)
    BY <2>1, <1>4 DEF start, create, classify_intent, BuilderInv
  <2>2. CASE extract_spec(s)
    <3>1. 0..3 \subseteq Nat
      OBVIOUS
    <3>2. QED
      BY <2>2, <3>1, <1>4 DEF extract_spec, create, classify_intent, BuilderInv
  <2>3. CASE answer(s)
    <3> DEFINE sp == build_spec(sess[s].template, sess[s].step + 1, sess[s].name)
    <3>1. sp \in Names \cup {NoName}
      BY <1>1, <1>3 DEF SessionRecords
    <3>2. sess' = [sess EXCEPT ![s] = [sess[s] EXCEPT !.step = sess[s].step + 1, !.spec = sp]]
      BY <2>3 DEF answer, BuilderInv
    <3> HIDE DEF sp
    <3>3. [sess[s] EXCEPT !.step = sess[s].step + 1, !.spec = sp] \in SessionRecords
      <4>1. sess[s].step + 1 \in Nat
        BY <1>1 DEF SessionRecords
      <4> DEFINE k == sess[s].step + 1
      <4>2. k \in Nat
        BY <4>1
      <4> HIDE DEF k
      <4>3. \A r \in SessionRecords : [r EXCEPT !.step = k, !.spec = sp] \in SessionRecords
        BY <3>1, <4>2 DEF SessionRecords
      <4>4. QED
        BY <1>1, <4>3 DEF k
    <3>4. QED
      BY <3>2, <3>3 DEF BuilderInv
  <2>4. CASE Age(s) \/ cancel(s)
    BY <2>4, <1>2 DEF Age, cancel, Delete, BuilderInv
  <2>5. QED
    BY <2>1, <2>2, <2>3, <2>4
<1>6. UNCHANGED <<dir, reg, outside, loaded, imported, task, built, taken>>
  BY DEF start, extract_spec, answer, Age, cancel, kernel, live
<1>7. QED
  BY <1>5, <1>6 DEF BuilderInv, Stands

\* A start of the kernel finds what was built in the files.
LEMMA RestartStep ==
  ASSUME BuilderInv, Restart
  PROVE  BuilderInv'
<1>1. sess' \in [Sessions -> SessionRecords]
  <2>1. [NoSession EXCEPT !.old = TRUE] \in SessionRecords
    BY DEF NoSession, SessionRecords
  <2>2. QED
    BY <2>1 DEF Restart, BuilderInv
<1>2. DOMAIN reg' = Places /\ DOMAIN loaded' = Places /\ outside' = {} /\ UNCHANGED <<dir, built, taken>>
  BY DEF Restart, AtStart, discover
<1>3. DOMAIN task' = Tasks /\ \A t \in Tasks : task'[t] = NoTask
  BY DEF Restart, AtStart
<1>4. ASSUME NEW s \in Sessions, built[s] # Nowhere, built[s] \notin taken
      PROVE  Stands(built[s], s)'
  <2>1. built[s] \in Places /\ dir[built[s]] = generate_skill("reminder", s)
    BY <1>4 DEF BuilderInv, Stands
  <2>2. discover(dir)[built[s]] = "skill" /\ Loads(dir, built[s])
    BY <2>1, SkillForms DEF discover, Loads
  <2>3. loaded'[built[s]] = "agents" /\ reg'[built[s]] = "skill"
    BY <2>1, <2>2 DEF Restart, AtStart
  <2>4. QED
    BY <1>2, <2>1, <2>3 DEF Stands
<1>5. QED
  BY <1>1, <1>2, <1>3, <1>4 DEF BuilderInv

\* Writing a directory that is absent, with nothing newly built.
LEMMA NothingBuilt ==
  ASSUME BuilderInv, NEW p, OthersKept(p), taken \subseteq taken',
         sess' \in [Sessions -> SessionRecords], DOMAIN task' = Tasks,
         \A t \in Tasks : task'[t] # NoTask => task'[t].at \in taken',
         p \in taken' \/ (p \in Places /\ dir[p] = Absent), built' = built
  PROVE  BuilderInv'
<1>1. ASSUME NEW s \in Sessions, built'[s] # Nowhere, built'[s] \notin taken'
      PROVE  Stands(built[s], s)'
  BY <1>1, OthersStand
<1>2. \A s \in Sessions : built'[s] # Nowhere => built'[s] \in Places
  BY DEF BuilderInv
<1>3. (\A s \in Sessions : built[s] # Nowhere /\ built[s] \notin taken => Stands(built[s], s))'
  BY <1>1
<1>4. DOMAIN dir' = Places /\ DOMAIN reg' = Places /\ DOMAIN loaded' = Places
  BY DEF OthersKept
<1>5. QED
  BY <1>2, <1>3, <1>4 DEF BuilderInv, Stands

\* The wizard's deployment: what it reports built it has written, loaded and
\* registered.
LEMMA DeployStep ==
  ASSUME BuilderInv, NEW s \in Sessions, deploy(s)
  PROVE  BuilderInv'
<1> DEFINE n == sess[s].spec
           t == sess[s].template
<1>1. n \in Names
  BY DEF deploy, BuilderInv, SessionRecords
<1>2. sess' \in [Sessions -> SessionRecords] /\ UNCHANGED <<task, taken>>
  <2>1. [NoSession EXCEPT !.old = TRUE] \in SessionRecords
    BY DEF NoSession, SessionRecords
  <2>2. sess' = sess \/ Delete(s)
    BY DEF deploy
  <2>3. QED
    BY <2>1, <2>2 DEF deploy, Delete, BuilderInv
<1>3. PICK p \in dedup_name(n) :
        \/ /\ \E left \in Partial(generate_skill(t, s)) : dir' = [dir EXCEPT ![p] = left]
           /\ UNCHANGED <<loaded, reg, outside, imported, built>>
        \/ /\ loaded' \in {loaded, [loaded EXCEPT ![p] = "none"]}
           /\ UNCHANGED <<dir, reg, outside, imported, built>>
        \/ /\ t # "unknown" /\ dir' = [dir EXCEPT ![p] = generate_skill(t, s)]
           /\ loaded' = [loaded EXCEPT ![p] = "agents"] /\ built' = [built EXCEPT ![s] = p]
           /\ reg' = register_dir(dir', p) /\ outside' = outside \ {p} /\ imported' = imported \ {p}
  BY DEF deploy, deploy_skill
<1> HIDE DEF n, t
<1>4. p \in Places /\ p # Nowhere /\ dir[p] = Absent
  BY <1>1, NewPlace
<1>5. DOMAIN task' = Tasks /\ \A x \in Tasks : task'[x] # NoTask => task'[x].at \in taken'
  BY <1>2 DEF BuilderInv
<1>6. CASE \E left \in Partial(generate_skill(t, s)) : dir' = [dir EXCEPT ![p] = left]
                                                    /\ UNCHANGED <<loaded, reg, outside, imported, built>>
  <2>1. OthersKept(p)
    BY <1>6 DEF BuilderInv, OthersKept
  <2>2. QED
    BY <1>2, <1>4, <1>5, <1>6, <2>1, NothingBuilt
<1>7. CASE /\ loaded' \in {loaded, [loaded EXCEPT ![p] = "none"]}
           /\ UNCHANGED <<dir, reg, outside, imported, built>>
  <2>1. OthersKept(p)
    BY <1>7 DEF BuilderInv, OthersKept
  <2>2. QED
    BY <1>2, <1>4, <1>5, <1>7, <2>1, NothingBuilt
<1>8. CASE /\ t # "unknown" /\ dir' = [dir EXCEPT ![p] = generate_skill(t, s)]
           /\ loaded' = [loaded EXCEPT ![p] = "agents"] /\ built' = [built EXCEPT ![s] = p]
           /\ reg' = register_dir(dir', p) /\ outside' = outside \ {p} /\ imported' = imported \ {p}
  <2>1. dir'[p] = generate_skill("reminder", s) /\ DOMAIN dir' = Places
        /\ \A q \in Places \ {p} : dir'[q] = dir[q]
    BY <1>4, <1>8, SkillForms DEF BuilderInv
  <2>2. reg'[p] = "skill" /\ DOMAIN reg' = Places /\ \A q \in Places \ {p} : reg'[q] = reg[q]
    BY <1>4, <1>8, <2>1, SkillForms DEF BuilderInv, register_dir
  <2>3. Stands(p, s)'
    <3>1. loaded'[p] = "agents" /\ p \notin outside'
      BY <1>4, <1>8 DEF BuilderInv
    <3>2. QED
      BY <2>1, <2>2, <3>1 DEF Stands
  <2>4. DOMAIN built' = Sessions /\ built'[s] = p /\ \A r \in Sessions \ {s} : built'[r] = built[r]
    BY <1>8 DEF BuilderInv
  <2>5. ASSUME NEW r \in Sessions \ {s}, built'[r] # Nowhere, built'[r] \notin taken'
        PROVE  Stands(built[r], r)'
    <3>1. OthersKept(p)
      BY <1>8, <2>1, <2>2 DEF BuilderInv, OthersKept
    <3>2. QED
      BY <1>2, <1>4, <2>4, <2>5, <3>1, OthersStand
  <2>6. \A r \in Sessions : built'[r] # Nowhere => built'[r] \in Places
    BY <1>4, <2>4 DEF BuilderInv
  <2>7. (\A r \in Sessions : built[r] # Nowhere /\ built[r] \notin taken => Stands(built[r], r))'
    <3>1. Stands(built[s], s)'
      BY <2>3, <2>4 DEF Stands
    <3>2. QED
      BY <2>5, <3>1
  <2>8. DOMAIN loaded' = Places
    BY <1>8 DEF BuilderInv
  <2>9. QED
    BY <1>2, <1>5, <2>1, <2>2, <2>4, <2>6, <2>7, <2>8 DEF BuilderInv, Stands
<1>9. QED
  BY <1>3, <1>6, <1>7, <1>8

\* create-skill takes an absent directory too, and tells nobody.
LEMMA CreateSkillStep ==
  ASSUME BuilderInv, NEW n \in Names, create_skill(n)
  PROVE  BuilderInv'
<1>1. UNCHANGED <<sess, reg, outside, imported, task, built, taken>>
  BY DEF create_skill
<1>2. PICK t \in classify_intent, p \in dedup_name(n) :
        \/ /\ \E left \in Partial(generate_skill(t, NoName)) : dir' = [dir EXCEPT ![p] = left]
           /\ UNCHANGED loaded
        \/ dir' = dir /\ loaded' \in {loaded, [loaded EXCEPT ![p] = "none"]}
        \/ dir' = [dir EXCEPT ![p] = generate_skill(t, NoName)] /\ loaded' = [loaded EXCEPT ![p] = "agents"]
  BY DEF create_skill, deploy_skill
<1>3. p \in Places /\ dir[p] = Absent
  BY NewPlace
<1>4. OthersKept(p)
  BY <1>1, <1>2 DEF BuilderInv, OthersKept
<1>5. /\ taken \subseteq taken' /\ sess' \in [Sessions -> SessionRecords]
      /\ DOMAIN task' = Tasks /\ \A x \in Tasks : task'[x] # NoTask => task'[x].at \in taken'
  BY <1>1 DEF BuilderInv
<1>6. QED
  BY <1>1, <1>3, <1>4, <1>5, NothingBuilt

\* An agent or a package takes its directory first.
LEMMA TakenStep ==
  ASSUME BuilderInv, NEW t \in Tasks, NEW p, create_agent(t, p) \/ install_package(t, p)
  PROVE  BuilderInv'
<1>1. /\ taken' = taken \cup {p} /\ UNCHANGED <<sess, imported, built>> /\ outside' \subseteq outside
      /\ loaded' \in {loaded, [loaded EXCEPT ![p] = "agents"]}
  BY DEF create_agent, deploy_agent, install_package
<1>2. DOMAIN dir' = Places /\ \A q \in Places \ {p} : dir'[q] = dir[q]
  <2>1. CASE create_agent(t, p)
    BY <2>1 DEF create_agent, deploy_agent, generate_agent, BuilderInv
  <2>2. CASE install_package(t, p)
    BY <2>2 DEF install_package, unpack, BuilderInv
  <2>3. QED
    BY <2>1, <2>2
<1>3. reg' = reg \/ reg' = register_dir(dir', p) \/ reg' = discover(dir')
      \/ \E d : d = [generate_agent(p) EXCEPT ![p].manifest = "none"] /\ reg' = discover(d)
  BY DEF create_agent, deploy_agent, install_package
<1>4. /\ DOMAIN reg' = Places
      /\ \A q \in Places \ {p} : reg[q] = "skill" /\ dir[q].manifest = "skill" => reg'[q] = "skill"
  <2>1. CASE reg' = reg
    BY <2>1 DEF BuilderInv
  <2>2. CASE reg' = register_dir(dir', p)
    BY <2>2 DEF register_dir, BuilderInv
  <2>3. CASE reg' = discover(dir')
    BY <2>3, <1>2 DEF discover
  <2>4. CASE \E d : d = [generate_agent(p) EXCEPT ![p].manifest = "none"] /\ reg' = discover(d)
    <3>1. PICK d : d = [generate_agent(p) EXCEPT ![p].manifest = "none"] /\ reg' = discover(d)
      BY <2>4
    <3>2. \A q \in Places \ {p} : d[q] = dir[q]
      BY <3>1 DEF generate_agent, BuilderInv
    <3>3. QED
      BY <3>1, <3>2 DEF discover
  <2>5. QED
    BY <1>3, <2>1, <2>2, <2>3, <2>4
<1>5. DOMAIN task' = Tasks /\ \A x \in Tasks : task'[x] # NoTask => task'[x].at \in taken'
  <2>1. task' = task \/ \E how : task' = [task EXCEPT ![t] = [at |-> p, how |-> how]]
    BY DEF create_agent, deploy_agent, install_package, StartsAgent
  <2>2. QED
    BY <1>1, <2>1 DEF BuilderInv
<1>6. sess' \in [Sessions -> SessionRecords] /\ built' = built /\ taken \subseteq taken' /\ p \in taken'
  BY <1>1 DEF BuilderInv
<1>7. OthersKept(p)
  BY <1>1, <1>2, <1>4 DEF BuilderInv, OthersKept
<1>8. QED
  BY <1>5, <1>6, <1>7, NothingBuilt

\* The end of an agent's start touches the directory it took.
LEMMA TaskStep ==
  ASSUME BuilderInv, NEW t \in Tasks, Started(t) \/ Refused(t)
  PROVE  BuilderInv'
<1> DEFINE p == task[t].at
<1>1. UNCHANGED <<sess, reg, outside, loaded, imported, built, taken>> /\ task' = [task EXCEPT ![t] = NoTask]
  BY DEF Started, Refused, live
<1>2. p \in taken
  BY DEF Started, Refused, BuilderInv
<1>3. DOMAIN dir' = Places /\ \A q \in Places \ {p} : dir'[q] = dir[q]
  BY DEF Started, Refused, BuilderInv
<1>4. DOMAIN task' = Tasks /\ \A x \in Tasks : task'[x] # NoTask => task'[x].at \in taken'
  BY <1>1 DEF BuilderInv
<1> HIDE DEF p
<1>5. OthersKept(p) /\ sess' \in [Sessions -> SessionRecords]
  BY <1>1, <1>3 DEF BuilderInv, OthersKept
<1>6. QED
  BY <1>1, <1>2, <1>4, <1>5, NothingBuilt

\* A skill of the user's takes the name in the registry and the executor, and
\* leaves the directory.
LEMMA ImportStep ==
  ASSUME BuilderInv, NEW p, skills_install(p) \/ skills_uninstall(p)
  PROVE  BuilderInv'
<1>1. UNCHANGED <<sess, dir, task, built, taken>>
  BY DEF skills_install, skills_uninstall, kernel
<1>2. \/ UNCHANGED <<reg, outside, loaded, imported>>
      \/ /\ reg' = register_dir(user', p) /\ outside' = outside \cup {p} /\ imported' = imported \cup {p}
         /\ loaded' \in {loaded, [loaded EXCEPT ![p] = "user"]}
  BY DEF skills_install, skills_uninstall, kernel, live
<1>3. CASE UNCHANGED <<reg, outside, loaded, imported>>
  BY <1>1, <1>3 DEF BuilderInv, Stands
<1>4. CASE /\ reg' = register_dir(user', p) /\ outside' = outside \cup {p} /\ imported' = imported \cup {p}
           /\ loaded' \in {loaded, [loaded EXCEPT ![p] = "user"]}
  <2>1. DOMAIN reg' = Places /\ DOMAIN loaded' = Places
    BY <1>4 DEF BuilderInv, register_dir
  <2>2. \A q \in Places : loaded[q] # "none" => loaded'[q] # "none"
    BY <1>4 DEF BuilderInv
  <2>3. \A q \in Places \ {p} : loaded'[q] = loaded[q] /\ reg'[q] = reg[q]
    BY <1>4 DEF BuilderInv, register_dir
  <2>4. ASSUME NEW s \in Sessions, built[s] # Nowhere, built[s] \notin taken
        PROVE  Stands(built[s], s)'
    <3>1. built[s] \in Places /\ Stands(built[s], s)
      BY <2>4 DEF BuilderInv
    <3>2. CASE built[s] = p
      BY <1>1, <1>4, <2>2, <3>1, <3>2 DEF Stands
    <3>3. CASE built[s] # p
      BY <1>1, <1>4, <2>3, <3>1, <3>3 DEF Stands
    <3>4. QED
      BY <3>2, <3>3
  <2>5. QED
    BY <1>1, <2>1, <2>4 DEF BuilderInv
<1>5. QED
  BY <1>2, <1>3, <1>4

\* Every step of the builder keeps its invariant.
LEMMA StepBuilderInv == BuilderInv /\ [Next]_vars => BuilderInv'
<1> SUFFICES ASSUME BuilderInv, [Next]_vars PROVE BuilderInv'
  OBVIOUS
<1>1. CASE Restart
  BY <1>1, RestartStep
<1>2. CASE \E s \in Sessions : start(s) \/ extract_spec(s) \/ answer(s) \/ Age(s) \/ cancel(s) \/ deploy(s)
  BY <1>2, SessionsStep, DeployStep
<1>3. CASE \E n \in Names : create_skill(n)
  BY <1>3, CreateSkillStep
<1>4. CASE \E t \in Tasks : Started(t) \/ Refused(t) \/ \E p \in Given : create_agent(t, p) \/ install_package(t, p)
  BY <1>4, TaskStep, TakenStep
<1>5. CASE \E p \in Given : skills_install(p) \/ skills_uninstall(p)
  BY <1>5, ImportStep
<1>6. CASE UNCHANGED vars
  BY <1>6 DEF vars, kernel, live, BuilderInv, Stands
<1>7. QED
  BY <1>1, <1>2, <1>3, <1>4, <1>5, <1>6 DEF Next

\* What stands can be called.
LEMMA StandingIsCallable == BuilderInv => BuiltSkillStands
<1> SUFFICES ASSUME BuilderInv, NEW s \in Sessions, built[s] # Nowhere, built[s] \notin taken
             PROVE  /\ dir[built[s]] = generate_skill("reminder", s) /\ loaded[built[s]] # "none"
                    /\ built[s] \notin imported => loaded[built[s]] = "agents" /\ is_callable(built[s])
  BY DEF BuiltSkillStands
<1>1. Stands(built[s], s)
  BY DEF BuilderInv
<1>2. built[s] \notin imported => is_callable(built[s])
  BY <1>1, SkillForms DEF Stands, is_callable
<1>3. QED
  BY <1>1, <1>2 DEF Stands

\* The run's steps are steps of the builder.
LEMMA RunsBuilder == [MCNext]_<<part, vars, install>> => [Next]_vars
BY DEF MCNext

\* For any sessions, names, packages and skills of the user's: a skill that the
\* flow reported deployed keeps its files, whoever builds, fails, rolls back,
\* scans or restarts beside it, until create-agent or a package is given its
\* name; it is what runs and what is advertised while no skill of the user's of
\* that name was imported, and again after a start (BuilderFlow.deploy,
\* deploy_skill, register_dir, skills_install, lifespan).
THEOREM BuiltSkillsStand == (Spec => []BuiltSkillStands) /\ (MCSpec => []BuiltSkillStands)
<1>1. MCInit => Init
  BY DEF MCInit
<1>2. QED
  BY <1>1, InitBuilderInv, StepBuilderInv, StandingIsCallable, RunsBuilder, PTL DEF Spec, MCSpec

-----------------------------------------------------------------------------
(* The installation of a skill.                                            *)

Directories == [version : Nat, whole : BOOLEAN]

\* The premise of the promise: a whole version was there, and every removal went
\* through.
Kept == ~unremoved /\ previous.whole

\* One of the two directories holds the old version, or the new one, whole.
Safe == \E d \in {final, backup} : d.whole /\ d.version \in {previous.version, installs}

\* Where the old version and the new one are at every file operation.
InstallInv ==
  /\ final \in Directories /\ backup \in Directories /\ previous \in Directories /\ installs \in Nat
  /\ pc \in {"idle", "staging", "moving_fresh", "removing_stale", "backing_up", "moving",
             "removing_backup", "rolling_back"}
  /\ pc \in {"removing_stale", "backing_up", "moving", "moving_fresh"} => staged = I!Whole(installs)
  /\ Kept /\ pc \in {"staging", "removing_stale", "backing_up"} => final = previous
  /\ Kept /\ pc \in {"moving", "rolling_back"} => backup = previous
  /\ Kept => pc # "moving_fresh"
  /\ Kept /\ pc = "removing_backup" => final = I!Whole(installs)
  /\ Kept /\ pc = "idle" /\ result # "uninstalled" => Safe

\* Nothing is installed at the start.
LEMMA InitInstallInv == I!Init => InstallInv
BY DEF I!Init, InstallInv, I!None, Directories, Kept

\* Where the old version is, or the new one, one of them is whole.
LEMMA InstallIsSafe == InstallInv => I!PreviousOrNewIsWhole
<1> SUFFICES ASSUME InstallInv, Kept, result # "uninstalled" PROVE Safe
  BY DEF I!PreviousOrNewIsWhole, Kept, Safe
<1>1. CASE final = previous
  BY <1>1 DEF Safe, Kept
<1>2. CASE backup = previous
  BY <1>2 DEF Safe, Kept
<1>3. CASE final = I!Whole(installs)
  BY <1>3 DEF Safe, I!Whole
<1>4. QED
  BY <1>1, <1>2, <1>3 DEF InstallInv

\* A step that ends the operation, or dies in it, and leaves a whole version.
LEMMA Ends ==
  ASSUME InstallInv, NEW how, I!End(how), how # "uninstalled", final' \in Directories, backup' \in Directories,
         UNCHANGED <<installs, previous>>, Kept' => Safe'
  PROVE  InstallInv'
BY DEF InstallInv, I!End

\* Every file operation, failed or not, keeps one whole version.
LEMMA StepInstallInv == InstallInv /\ [I!Next]_I!vars => InstallInv'
<1> SUFFICES ASSUME InstallInv, [I!Next]_I!vars PROVE InstallInv'
  OBVIOUS
<1>1. \A v \in Nat : I!Whole(v) \in Directories /\ I!Whole(v).whole /\ I!Whole(v).version = v
  BY DEF I!Whole, Directories
<1>2. I!None \in Directories /\ ~I!None.whole
  BY DEF I!None, Directories
<1>3. \A d \in Directories : I!Part(d) \in Directories
  BY DEF I!Part, Directories
<1>4. CASE \E overwrite \in BOOLEAN : I!Install(overwrite)
  <2>1. PICK overwrite \in BOOLEAN : I!Install(overwrite)
    BY <1>4
  <2>2. /\ previous' = final /\ UNCHANGED <<final, backup>> /\ installs' = installs + 1 /\ ~unremoved'
    BY <2>1 DEF I!Install
  <2>3. final' \in Directories /\ backup' \in Directories /\ previous' \in Directories /\ installs' \in Nat
    BY <2>2 DEF InstallInv
  <2>4. CASE I!End("refused")
    <3>1. Kept' => Safe'
      BY <2>2 DEF Kept, Safe
    <3>2. QED
      BY <2>3, <2>4, <3>1 DEF InstallInv, I!End
  <2>5. CASE pc' = "staging"
    BY <2>2, <2>3, <2>5 DEF InstallInv
  <2>6. QED
    BY <2>1, <2>4, <2>5 DEF I!Install
<1>5. CASE I!Stage
  <2>1. UNCHANGED <<final, backup, installs, previous, unremoved>> /\ (Kept' <=> Kept) /\ pc = "staging"
    BY <1>5 DEF I!Stage, Kept
  <2>2. Kept => final = previous
    BY <2>1 DEF InstallInv
  <2>3. CASE I!End("failed")
    <3>1. Kept' => Safe'
      BY <2>1, <2>2 DEF Kept, Safe
    <3>2. QED
      BY <2>1, <2>3, <3>1, Ends DEF InstallInv
  <2>4. CASE /\ staged' = I!Whole(installs)
             /\ pc' = IF ~I!Exists(final) THEN "moving_fresh"
                      ELSE IF I!Exists(backup) THEN "removing_stale" ELSE "backing_up"
    <3>1. Kept => I!Exists(final)
      BY <1>2, <2>2 DEF Kept, I!Exists
    <3>2. pc' \in {"moving_fresh", "removing_stale", "backing_up"} /\ (Kept => pc' # "moving_fresh")
      BY <2>4, <3>1
    <3>3. staged' = I!Whole(installs)'
      BY <2>1, <2>4 DEF I!Whole
    <3>4. QED
      BY <2>1, <2>2, <3>2, <3>3 DEF InstallInv
  <2>5. QED
    BY <1>5, <2>3, <2>4 DEF I!Stage
<1>6. CASE I!RemoveStale
  BY <1>2, <1>6 DEF I!RemoveStale, InstallInv, Kept, I!Whole
<1>7. CASE I!RemoveStaleFails
  <2>1. UNCHANGED <<final, installs, previous, unremoved>> /\ backup' \in Directories /\ pc = "removing_stale"
    BY <1>3, <1>7 DEF I!RemoveStaleFails, InstallInv
  <2>2. Kept' => Safe'
    BY <2>1 DEF InstallInv, Kept, Safe
  <2>3. QED
    BY <1>7, <2>1, <2>2, Ends DEF I!RemoveStaleFails, InstallInv
<1>8. CASE I!BackUp
  BY <1>2, <1>8 DEF I!BackUp, InstallInv, Kept, I!Whole
<1>9. CASE I!BackUpFails \/ I!Crash
  <2>1. UNCHANGED <<final, backup, installs, previous, unremoved>> /\ pc # "idle" /\ \E how \in {"failed", "crashed"} : I!End(how)
    BY <1>9 DEF I!BackUpFails, I!Crash
  <2>2. Kept' => Safe'
    <3>1. CASE final = previous \/ backup = previous
      BY <2>1, <3>1 DEF Kept, Safe
    <3>2. CASE final = I!Whole(installs)
      BY <1>1, <2>1, <3>2 DEF Kept, Safe, InstallInv
    <3>3. QED
      BY <2>1, <3>1, <3>2 DEF InstallInv, Kept
  <2>3. QED
    BY <2>1, <2>2, Ends DEF InstallInv
<1>10. CASE I!CopyBegins
  <2>1. pc \in {"moving", "moving_fresh"} /\ UNCHANGED <<backup, staged, pc, installs, previous, result, unremoved>>
        /\ final' \in Directories
    BY <1>1, <1>3, <1>10 DEF I!CopyBegins, InstallInv
  <2>2. QED
    BY <2>1 DEF InstallInv, Kept, I!Whole
<1>11. CASE I!Move
  <2>1. final' = I!Whole(installs) /\ UNCHANGED <<backup, installs, previous, unremoved>> /\ (Kept' <=> Kept)
    BY <1>11 DEF I!Move, InstallInv, Kept
  <2>2. final' \in Directories /\ backup' \in Directories /\ I!Whole(installs)' = I!Whole(installs)
    BY <1>1, <2>1 DEF InstallInv, I!Whole
  <2>3. CASE pc = "moving"
    <3>1. pc' = "removing_backup"
      BY <1>11, <2>3 DEF I!Move
    <3>2. QED
      BY <2>1, <2>2, <3>1 DEF InstallInv
  <2>4. CASE pc # "moving"
    <3>1. I!End("ok") /\ ~Kept
      BY <1>11, <2>4 DEF I!Move, InstallInv
    <3>2. QED
      BY <2>1, <2>2, <3>1, Ends
  <2>5. QED
    BY <2>3, <2>4
<1>12. CASE I!MoveFails
  <2>1. final' \in Directories /\ UNCHANGED <<backup, installs, previous, unremoved>> /\ (Kept' <=> Kept)
    BY <1>1, <1>12 DEF I!MoveFails, InstallInv, Kept
  <2>2. CASE pc = "moving"
    <3>1. pc' = "rolling_back"
      BY <1>12, <2>2 DEF I!MoveFails
    <3>2. QED
      BY <2>1, <2>2, <3>1 DEF InstallInv
  <2>3. CASE pc # "moving"
    <3>1. I!End("failed") /\ ~Kept
      BY <1>12, <2>3 DEF I!MoveFails, InstallInv
    <3>2. QED
      BY <2>1, <3>1, Ends DEF InstallInv
  <2>4. QED
    BY <2>2, <2>3
<1>13. CASE I!RemoveBackup
  <2>1. UNCHANGED <<final, installs, previous, unremoved>> /\ pc = "removing_backup" /\ backup' \in Directories
    BY <1>2, <1>13 DEF I!RemoveBackup
  <2>2. Kept' => Safe'
    <3>1. Kept' => final = I!Whole(installs)
      BY <2>1 DEF InstallInv, Kept
    <3>2. QED
      BY <1>1, <2>1, <3>1 DEF InstallInv, Safe
  <2>3. QED
    BY <1>13, <2>1, <2>2, Ends DEF I!RemoveBackup, InstallInv
<1>14. CASE I!RemoveBackupFails
  BY <1>3, <1>14 DEF I!RemoveBackupFails, InstallInv, Kept
<1>15. CASE I!RollBack
  <2>1. final' = backup /\ backup' = I!None /\ UNCHANGED <<installs, previous, unremoved>> /\ pc = "rolling_back"
    BY <1>15 DEF I!RollBack
  <2>2. Kept' => Safe'
    BY <2>1 DEF InstallInv, Kept, Safe
  <2>3. QED
    BY <1>2, <1>15, <2>1, <2>2, Ends DEF I!RollBack, InstallInv
<1>16. CASE I!RollBackFails
  <2>1. final' \in Directories
    BY <1>2, <1>3, <1>16 DEF I!RollBackFails, InstallInv
  <2>2. QED
    BY <1>16, <2>1, Ends DEF I!RollBackFails, InstallInv, Kept
<1>17. CASE I!Uninstall
  <2>1. final' \in Directories /\ previous' \in Directories /\ UNCHANGED <<backup, staged, pc, installs>> /\ pc = "idle"
    BY <1>2, <1>3, <1>17 DEF I!Uninstall, InstallInv
  <2>2. result' = "uninstalled" \/ ~Kept'
    BY <1>17 DEF I!Uninstall, Kept
  <2>3. QED
    BY <2>1, <2>2 DEF InstallInv
<1>18. CASE UNCHANGED I!vars
  BY <1>18 DEF I!vars, InstallInv, Kept, Safe, I!Whole
<1>19. QED
  BY <1>4, <1>5, <1>6, <1>7, <1>8, <1>9, <1>10, <1>11, <1>12, <1>13, <1>14, <1>15, <1>16, <1>17, <1>18
     DEF I!Next

\* The run's steps are steps of the part that is checked.
LEMMA RunsInstall ==
  ASSUME [MCNext]_<<part, vars, install>>, part' = "install"
  PROVE  part = "install" /\ [I!Next]_I!vars
BY DEF MCNext, install, I!vars

\* For any number of installs, with any of the faults, across file systems or
\* not: a whole version that was there, or the new one, is whole in one of the two
\* directories at every file operation (_deploy_atomic).
THEOREM OldOrNewIsWhole ==
  (I!Spec => []I!PreviousOrNewIsWhole) /\ (MCSpec => []PreviousOrNewIsWhole)
<1>1. MCInit => (part = "install" => InstallInv)
  BY InitInstallInv DEF MCInit
<1>2. (part = "install" => InstallInv) /\ [MCNext]_<<part, vars, install>> => (part = "install" => InstallInv)'
  BY RunsInstall, StepInstallInv
<1>3. (part = "install" => InstallInv) => PreviousOrNewIsWhole
  BY InstallIsSafe DEF PreviousOrNewIsWhole
<1>4. QED
  BY <1>1, <1>2, <1>3, InitInstallInv, StepInstallInv, InstallIsSafe, PTL DEF I!Spec, MCSpec

=============================================================================
