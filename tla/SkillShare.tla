----------------------------- MODULE SkillShare -----------------------------
(***************************************************************************)
(* Skills on several devices and the bundles they share: the registry of   *)
(* SKILL.md skills (kernel/skills/registry.py), the routes that install,   *)
(* remove, export, import and publish them (routers/skills.py) and the     *)
(* packing of a bundle (skills/publisher.py).  Every route runs without an *)
(* await.  The plug-in registry and the executor are those of TimedSkills; *)
(* the files of an installation are SkillInstall's.                        *)
(***************************************************************************)
CONSTANTS
  Devices,
  Names,       \* names of skills
  SpecNames,   \* those that the Agent Skills specification allows
  None

VARIABLES
  agents,      \* agents[d][n]: n's directory among the agents of device d
  user,        \* user[d][n]: its directory in %APPDATA%/KALI/skills
  registry,    \* SkillsRegistry: the skills it lists
  plugins,     \* PluginRegistry: where it found n, or None
  executor,    \* SkillExecutor: the skills it has loaded
  bundle,      \* the bundle that was exported last
  published,   \* the bundle for the community catalog that was made last
  trouble      \* history: devices where a removal failed half-way

vars == <<agents, user, registry, plugins, executor, bundle, published, trouble>>

\* A directory: whether its SKILL.md is missing or passes the strict loader,
\* whether there is a skill.yaml, which the executor needs, and scripts.
Dirs == [md: {"none", "strict"}, yaml: BOOLEAN, scripts: BOOLEAN]
VoiceBuilt == [md |-> "none", yaml |-> TRUE, scripts |-> FALSE]
Bundled == {[md |-> "strict", yaml |-> TRUE, scripts |-> FALSE],
            [md |-> "strict", yaml |-> FALSE, scripts |-> TRUE]}

TypeOK ==
  /\ agents \in [Devices -> [Names -> Dirs \cup {None}]]
  /\ user \in [Devices -> [Names -> Dirs \cup {None}]]
  /\ registry \in [Devices -> SUBSET Names] /\ executor \in [Devices -> SUBSET Names]
  /\ plugins \in [Devices -> [Names -> {"agents", "user", None}]]
  /\ bundle \in [name: SpecNames, dir: Dirs, voice: BOOLEAN] \cup {None}
  /\ published \in Dirs \cup {None} /\ trouble \subseteq Devices

\* What a start finds: the agents, but nothing in the user's directory.
Found(dirs) == [n \in Names |-> IF dirs[n] = None THEN None ELSE "agents"]
Loadable(dirs) == {n \in Names : dirs[n] # None /\ dirs[n].yaml}

\* validate_frontmatter, of a name that is also the directory's.
validate_frontmatter(n) == n \in SpecNames

\* load_skill: the strict loader raises where the lenient one logs.
load_skill(n, dir, strict) ==
  dir # None /\ dir.md # "none" /\ (strict => validate_frontmatter(n))

\* SkillsRegistry.discover: of the two sources only the user's exists.
discover(dirs) == {n \in Names : load_skill(n, dirs[n], FALSE)}

Init ==
  /\ agents \in {[d \in Devices |-> [n \in Names |-> None]]} \cup
       {[d \in Devices |-> [n \in Names |-> IF n = b THEN c ELSE None]] : b \in SpecNames, c \in Bundled}
  /\ user = [d \in Devices |-> [n \in Names |-> None]]
  /\ registry = [d \in Devices |-> {}]
  /\ plugins = [d \in Devices |-> Found(agents[d])]
  /\ executor = [d \in Devices |-> Loadable(agents[d])]
  /\ bundle = None /\ published = None /\ trouble = {}

-----------------------------------------------------------------------------
\* The voice builder deploys a skill (Builder).
deploy_skill(d, n) ==
  /\ agents[d][n] = None /\ agents' = [agents EXCEPT ![d][n] = VoiceBuilt]
  /\ plugins' = [plugins EXCEPT ![d][n] = "agents"] /\ executor' = [executor EXCEPT ![d] = @ \cup {n}]
  /\ UNCHANGED <<user, registry, bundle, published, trouble>>

\* An installed directory: the registry is reloaded, the plug-in registry
\* learns of it, the executor loads it if it can.
Deploy(d, n, dir) ==
  /\ user' = [user EXCEPT ![d][n] = dir]
  /\ registry' = [registry EXCEPT ![d] = discover(user'[d])]
  /\ plugins' = [plugins EXCEPT ![d][n] = "user"]
  /\ executor' = IF dir.yaml THEN [executor EXCEPT ![d] = @ \cup {n}] ELSE executor

\* skills_install: what passes the strict loader and the scan of its scripts,
\* over what is there if asked to.
skills_install(d, n) ==
  /\ validate_frontmatter(n)
  /\ \E yaml, scripts \in BOOLEAN : Deploy(d, n, [md |-> "strict", yaml |-> yaml, scripts |-> scripts])
  /\ UNCHANGED <<agents, bundle, published, trouble>>

\* skills_uninstall: the registry is reloaded if the directory is gone; the
\* plug-in registry and the executor keep the skill.
skills_uninstall(d, n) ==
  /\ user[d][n] # None
  /\ \/ /\ user' = [user EXCEPT ![d][n] = None] /\ UNCHANGED trouble
        /\ registry' = [registry EXCEPT ![d] = discover(user'[d])]
     \/ /\ user' \in {user, [user EXCEPT ![d][n].md = "none"]} /\ trouble' = trouble \cup {d}
        /\ UNCHANGED registry
  /\ UNCHANGED <<agents, plugins, executor, bundle, published>>

-----------------------------------------------------------------------------
(* Sharing.                                                                *)

\* The directory that a name stands for: the registry's, else the one the
\* plug-in registry knows, which may be gone.
skill_dir(d, n) ==
  IF n \in registry[d] \/ plugins[d][n] = "user" THEN user[d][n] ELSE agents[d][n]

\* Mutant: a skill that has no SKILL.md travels without its configuration.
bare_bundle_members(dir) ==
  [md |-> "strict", yaml |-> FALSE, scripts |-> dir # None /\ dir.scripts]

\* _add_bundle_members: SKILL.md and scripts as they are; without a SKILL.md one
\* is made up, and the configuration goes along.  So also for a directory that
\* is not there.
_add_bundle_members(dir) ==
  [md |-> "strict", yaml |-> dir # None /\ dir.md = "none" /\ dir.yaml,
   scripts |-> dir # None /\ dir.scripts]

\* skills_export: refuses a name it does not know or that cannot be imported.
skills_export(d, n) ==
  /\ n \in registry[d] \/ plugins[d][n] # None
  /\ validate_frontmatter(n)
  /\ bundle' = [name |-> n, dir |-> _add_bundle_members(skill_dir(d, n)),
                voice |-> skill_dir(d, n) = VoiceBuilt]
  /\ UNCHANGED <<agents, user, registry, plugins, executor, published, trouble>>

\* install_from_bundle: no scripts, and the strict loader's consent.
install_from_bundle(d, overwrite) ==
  IF bundle.dir.scripts \/ ~load_skill(bundle.name, bundle.dir, TRUE) THEN "invalid"
  ELSE IF user[d][bundle.name] # None /\ ~overwrite THEN "exists"
  ELSE "ok"

\* skills_install_bundle: what was installed is deployed.
skills_install_bundle(d, overwrite) ==
  /\ bundle # None
  /\ IF install_from_bundle(d, overwrite) = "ok" THEN Deploy(d, bundle.name, bundle.dir)
     ELSE UNCHANGED <<user, registry, plugins, executor>>
  /\ UNCHANGED <<agents, bundle, published, trouble>>

\* validate_skill: reads it again, and takes nothing that is out of order.
validate_skill(n, dir) == load_skill(n, dir, FALSE) /\ validate_frontmatter(n)

\* publish_skill: a listed skill; its scripts, if they are to go along, have
\* passed the scan (all that are installed did).
publish_skill(d, n) ==
  /\ n \in registry[d] /\ validate_skill(n, user[d][n])
  /\ \E include_scripts \in BOOLEAN :
       published' = [_add_bundle_members(user[d][n]) EXCEPT !.scripts = @ /\ include_scripts]
  /\ UNCHANGED <<agents, user, registry, plugins, executor, bundle, trouble>>

\* The kernel starts again.
Restart(d) ==
  /\ registry' = [registry EXCEPT ![d] = discover(user[d])]
  /\ plugins' = [plugins EXCEPT ![d] = Found(agents[d])]
  /\ executor' = [executor EXCEPT ![d] = Loadable(agents[d])]
  /\ trouble' = trouble \ {d}
  /\ UNCHANGED <<agents, user, bundle, published>>

Next == \E d \in Devices :
  \/ Restart(d)
  \/ \E overwrite \in BOOLEAN : skills_install_bundle(d, overwrite)
  \/ \E n \in Names :
       deploy_skill(d, n) \/ skills_install(d, n) \/ skills_uninstall(d, n) \/ skills_export(d, n) \/ publish_skill(d, n)

Spec == Init /\ [][Next]_vars

-----------------------------------------------------------------------------

\* A skill that was built by voice runs at once on the device that imports it
\* (_add_bundle_members: "so the imported skill is both spec-valid and runnable").
Runs(d) == \A overwrite \in BOOLEAN :
  skills_install_bundle(d, overwrite) /\ install_from_bundle(d, overwrite) = "ok" /\ bundle.voice =>
    bundle.name \in executor'[d]
VoiceBuiltTravels == [][\A d \in Devices : Runs(d)]_vars

=============================================================================
