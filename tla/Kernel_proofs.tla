----------------------------- MODULE Kernel_proofs -----------------------------
(***************************************************************************)
(* Theorems about the parts of the kernel run, for every value of their    *)
(* constants: the processes of an agent (AgentRuntime), the gates and the  *)
(* audit (Sandbox), the configuration file (Settings), the focus timer     *)
(* (FocusTimer), the database (Database), the way of events to the clients *)
(* (EventRelay) and the records of skills (SkillRecords).  The module      *)
(* extends the one that the run checks, where each part but the first is   *)
(* an instance; a theorem speaks of the part's own specification and of    *)
(* the run's.                                                              *)
(***************************************************************************)
EXTENDS MCKernel, Integers, Sequences, FiniteSetTheorems, WellFoundedInduction, TLAPS

Loading == {"starting", "initializing"}
Owning  == Loading \cup {"stopping"}

\* The part of TypeOK that the argument needs.
Shape ==
  /\ entry \in Procs \cup {NoProc}
  /\ proc \in [Procs -> {"free", "starting", "up", "down"}]
  /\ pc \in [Tasks -> AllPcs]
  /\ mine \in [Tasks -> Procs \cup {NoProc}]
  /\ loadsMet \in BOOLEAN

\* What a task starts or stops is a process that is no longer free, not the
\* entry, and no other task's.
OwnerInv ==
  /\ \A t \in Tasks : pc[t] \in Owning => /\ mine[t] \in Procs /\ mine[t] # entry
                                          /\ proc[mine[t]] # "free"
  /\ \A t, u \in Tasks : pc[t] \in Owning /\ pc[u] \in Owning /\ mine[t] = mine[u] => t = u

\* Nothing is the entry before it has been started.
EntryInv == entry # NoProc => proc[entry] # "free"

\* A live process is the entry or has an owner.
KeptInv == \A p \in Procs : proc[p] = "up" => entry = p \/ \E t \in Tasks : Owns(t, p)

\* As long as no two loads have met, who loads finds no entry when it is done.
AloneInv ==
  ~loadsMet => /\ ~LoadsMeet
               /\ \A t \in Tasks : pc[t] \in Loading => entry = NoProc

RuntimeInv == Shape /\ OwnerInv /\ EntryInv /\ AloneInv /\ (~loadsMet => KeptInv)

\* RuntimeInv holds initially: there is neither entry nor process.
LEMMA InitRuntimeInv == Init => RuntimeInv
<1> SUFFICES ASSUME Init PROVE RuntimeInv
  OBVIOUS
<1>1. \A t \in Tasks : pc[t] = "idle"
  BY DEF Init
<1>2. \A p \in Procs : proc[p] = "free"
  BY DEF Init
<1>3. Shape /\ EntryInv
  BY DEF Init, Shape, EntryInv, AllPcs
<1>4. OwnerInv /\ AloneInv
  BY <1>1 DEF OwnerInv, AloneInv, LoadsMeet, Loading, Owning
<1>5. KeptInv
  BY <1>2 DEF KeptInv
<1>6. QED
  BY <1>3, <1>4, <1>5 DEF RuntimeInv

-----------------------------------------------------------------------------
(* The five things a step may do to the entry and the processes.           *)

\* A task that owns nothing goes on to own nothing.
Quiet(t) ==
  /\ pc[t] \notin Owning /\ UNCHANGED <<entry, proc>>
  /\ \E x \in AllPcs \ Owning, p \in Procs \cup {NoProc} : At(t, x, p)

\* It takes the entry away, and stops it if it lives.
Drops(t) ==
  /\ pc[t] \notin Owning /\ UNCHANGED proc /\ entry' = NoProc
  /\ IF Live(entry) THEN At(t, "stopping", entry) ELSE At(t, "publishing_unload", NoProc)

\* It finds no entry and starts a process.
Spawns(t) ==
  /\ pc[t] \notin Owning /\ entry = NoProc /\ UNCHANGED entry
  /\ \E p \in Procs : /\ proc[p] = "free" /\ proc' = [proc EXCEPT ![p] = "starting"]
                      /\ At(t, "starting", p)

\* Its process comes up.
Rises(t) ==
  /\ pc[t] = "starting" /\ UNCHANGED <<entry, mine>>
  /\ proc' = [proc EXCEPT ![mine[t]] = "up"]
  /\ pc' = [pc EXCEPT ![t] = "initializing"]

\* Its process ends, and it may take away the entry that another has set.
Ends(t) ==
  /\ pc[t] \in Owning /\ proc' = [proc EXCEPT ![mine[t]] = "down"]
  /\ \/ UNCHANGED entry /\ \E x \in AllPcs \ Owning : At(t, x, NoProc)
     \/ entry' = NoProc /\ IF Live(entry) THEN At(t, "stopping", entry) ELSE At(t, "publishing_unload", NoProc)

\* What it has started becomes the entry.
Enters(t) ==
  /\ pc[t] = "initializing" /\ UNCHANGED <<proc, mine>>
  /\ entry' = mine[t] /\ pc' = [pc EXCEPT ![t] = "publishing_load"]

StepKind(t) == Quiet(t) \/ Drops(t) \/ Spawns(t) \/ Rises(t) \/ Ends(t) \/ Enters(t)

\* The operators that end an operation or begin its next part, by kind.
LEMMA HelperKinds ==
  ASSUME Shape, NEW t \in Tasks, pc[t] \notin Owning
  PROVE  /\ \A r : Done(t, r) /\ UNCHANGED <<tables, proc>> => Quiet(t)
         /\ Dispatch(t) /\ UNCHANGED proc => Quiet(t)
         /\ BeginUnload(t) /\ UNCHANGED proc => Drops(t)
         /\ \A o : Loaded(t, o) /\ UNCHANGED proc => Quiet(t) \/ Drops(t)
         /\ \A o : BeginLoad(t, o) => Quiet(t) \/ Drops(t) \/ Spawns(t)
<1>1. ASSUME NEW r, Done(t, r), UNCHANGED <<tables, proc>> PROVE Quiet(t)
  BY <1>1 DEF Done, Quiet, tables, AllPcs, Owning, Loading
<1>2. ASSUME Dispatch(t), UNCHANGED proc PROVE Quiet(t)
  <2>1. CASE entry # NoProc /\ registered /\ Live(entry)
    BY <1>2, <2>1 DEF Dispatch, Quiet, tables, AllPcs, Owning, Loading, Shape
  <2>2. CASE ~(entry # NoProc /\ registered /\ Live(entry))
    BY <1>1, <1>2, <2>2 DEF Dispatch, tables
  <2>3. QED
    BY <2>1, <2>2
<1>3. ASSUME BeginUnload(t), UNCHANGED proc PROVE Drops(t)
  BY <1>3 DEF BeginUnload, Drops
<1>4. ASSUME CheckHealth(t), UNCHANGED proc PROVE Quiet(t) \/ Drops(t)
  <2>1. CASE entry = NoProc
    BY <1>3, <1>4, <2>1 DEF CheckHealth
  <2>2. CASE entry # NoProc /\ Live(entry)
    BY <1>4, <2>2 DEF CheckHealth, Quiet, tables, AllPcs, Owning, Loading, Shape
  <2>3. CASE entry # NoProc /\ ~Live(entry)
    BY <1>1, <1>4, <2>3 DEF CheckHealth, tables
  <2>4. QED
    BY <2>1, <2>2, <2>3
<1>5. ASSUME NEW o, Loaded(t, o), UNCHANGED proc PROVE Quiet(t) \/ Drops(t)
  BY <1>1, <1>2, <1>4, <1>5 DEF Loaded, tables
<1>6. ASSUME NEW o, BeginLoad(t, o) PROVE Quiet(t) \/ Drops(t) \/ Spawns(t)
  BY <1>5, <1>6 DEF BeginLoad, Spawns, tables
<1>7. QED
  BY <1>1, <1>2, <1>3, <1>5, <1>6

\* Every step of a task is of one of the kinds.
LEMMA StepKinds ==
  ASSUME Shape, NEW t \in Tasks, Begin(t) \/ Resume(t)
  PROVE  StepKind(t)
<1> USE DEF Owning, Loading
<1>1. CASE StartDispatch(t)
  BY <1>1, HelperKinds DEF StartDispatch, Start, StepKind
<1>2. CASE StartLoad(t)
  BY <1>2, HelperKinds DEF StartLoad, Start, StepKind
<1>3. CASE StartDeploy(t)
  BY <1>3, HelperKinds DEF StartDeploy, Start, StepKind
<1>4. CASE StartUnload(t)
  BY <1>4, HelperKinds DEF StartUnload, Start, StepKind
<1>5. CASE Started(t)
  BY <1>5 DEF Started, Rises, StepKind
<1>6. CASE StartFails(t)
  BY <1>6 DEF StartFails, BeginUnload, Done, tables, Ends, StepKind, AllPcs
<1>7. CASE Initialized(t)
  BY <1>7 DEF Initialized, Enters, StepKind
<1>8. CASE LoadPublished(t)
  BY <1>8, HelperKinds DEF LoadPublished, StepKind
<1>9. CASE Stopped(t)
  BY <1>9 DEF Stopped, Ends, StepKind, AllPcs
<1>10. CASE UnloadPublished(t)
  BY <1>10, HelperKinds DEF UnloadPublished, StepKind
<1>11. CASE Executed(t)
  BY <1>11, HelperKinds DEF Executed, StepKind
<1>12. CASE Checked(t)
  BY <1>12, HelperKinds DEF Checked, StepKind
<1>13. QED
  BY <1>1, <1>2, <1>3, <1>4, <1>5, <1>6, <1>7, <1>8, <1>9, <1>10, <1>11, <1>12 DEF Begin, Resume

-----------------------------------------------------------------------------
\* No step breaks RuntimeInv: only a load that finds an entry at its end could,
\* and two loads have met then.
LEMMA StepRuntimeInv == RuntimeInv /\ [Next]_vars => RuntimeInv'
<1> SUFFICES ASSUME RuntimeInv, [Next]_vars PROVE RuntimeInv'
  OBVIOUS
<1> USE DEF RuntimeInv, Shape, OwnerInv, EntryInv, KeptInv, AloneInv, Owning, Loading, At, Live, Owns, AllPcs
<1>1. ASSUME loadsMet' = (loadsMet \/ LoadsMeet'), NEW t \in Tasks, Quiet(t) PROVE RuntimeInv'
  BY <1>1, ProcsAssumption DEF Quiet, LoadsMeet
<1>2. ASSUME loadsMet' = (loadsMet \/ LoadsMeet'), NEW t \in Tasks, Drops(t) PROVE RuntimeInv'
  BY <1>2, ProcsAssumption DEF Drops, LoadsMeet
<1>3. ASSUME loadsMet' = (loadsMet \/ LoadsMeet'), NEW t \in Tasks, Spawns(t) PROVE RuntimeInv'
  <2>1. PICK p \in Procs : /\ proc[p] = "free" /\ proc' = [proc EXCEPT ![p] = "starting"]
                           /\ pc' = [pc EXCEPT ![t] = "starting"] /\ mine' = [mine EXCEPT ![t] = p]
    BY <1>3 DEF Spawns
  <2>2. pc[t] \notin Owning /\ entry = NoProc /\ entry' = NoProc
    BY <1>3 DEF Spawns
  <2>3. Shape'
    BY <1>3, <2>1, <2>2
  <2>4. OwnerInv'
    BY <2>1, <2>2, ProcsAssumption
  <2>5. EntryInv' /\ AloneInv'
    BY <1>3, <2>2
  <2>6. KeptInv => KeptInv'
    BY <2>1, <2>2
  <2>7. QED
    BY <1>3, <2>3, <2>4, <2>5, <2>6
<1>4. ASSUME loadsMet' = (loadsMet \/ LoadsMeet'), NEW t \in Tasks, Rises(t) PROVE RuntimeInv'
  BY <1>4, ProcsAssumption DEF Rises, LoadsMeet
<1>5. ASSUME loadsMet' = (loadsMet \/ LoadsMeet'), NEW t \in Tasks, Ends(t) PROVE RuntimeInv'
  BY <1>5, ProcsAssumption DEF Ends, LoadsMeet
<1>6. ASSUME loadsMet' = (loadsMet \/ LoadsMeet'), NEW t \in Tasks, Enters(t) PROVE RuntimeInv'
  BY <1>6, ProcsAssumption DEF Enters, LoadsMeet
<1>7. ASSUME loadsMet' = (loadsMet \/ LoadsMeet'), NEW p \in Procs, Crash(p) PROVE RuntimeInv'
  BY <1>7, ProcsAssumption DEF Crash, tables, LoadsMeet
<1>8. CASE UNCHANGED vars
  BY <1>8 DEF vars, LoadsMeet
<1>9. QED
  BY <1>1, <1>2, <1>3, <1>4, <1>5, <1>6, <1>7, <1>8, StepKinds DEF Next, StepKind

\* Whatever the run checks, the runtime does nothing but its own steps.
LEMMA RunsRuntime == MCSpec => Spec
<1>1. MCInit => Init
  BY DEF MCInit
<1>2. [MCNext]_<<part, vars, consent, sandbox, relay, database, settings, focus, records>> => [Next]_vars
  BY DEF MCNext
<1>3. QED
  BY <1>1, <1>2, PTL DEF MCSpec, Spec

\* A process is started by one coroutine and stopped by one, however many load,
\* unload, deploy and dispatch at once (runtime.py, load_agent, unload_agent).
THEOREM OneOwnerEach == Spec => []OneOwner
<1>1. RuntimeInv => OneOwner
  BY DEF RuntimeInv, OwnerInv, OneOwner, Owns, Owning, Loading
<1>2. QED
  BY InitRuntimeInv, StepRuntimeInv, <1>1, PTL DEF Spec

\* The runtime never forgets a live subprocess unless two first loads of an
\* agent have been in flight at once (runtime.py:67: check and entry are two
\* awaits apart).
THEOREM NoProcessIsLost ==
  /\ Spec => []NoProcessLost
  /\ MCSpec => []NoProcessLost
<1>1. RuntimeInv => NoProcessLost
  BY DEF RuntimeInv, KeptInv, NoProcessLost
<1>2. Spec => []NoProcessLost
  BY InitRuntimeInv, StepRuntimeInv, <1>1, PTL DEF Spec
<1>3. QED
  BY <1>2, RunsRuntime, PTL

-----------------------------------------------------------------------------
(* The configuration file.                                                 *)

\* Between the backup and the replacement the backup is what the file holds,
\* unless the user edits the file just then.
SettingsInv == save = "replace" /\ ~raced => bak = config

\* Initially nothing is being saved.
LEMMA InitSettingsInv == G!Init => SettingsInv
BY DEF G!Init, SettingsInv

\* Only the backup leads to the replacement; an edit in between is remembered.
LEMMA StepSettingsInv == SettingsInv /\ [G!Next]_G!vars => SettingsInv'
<1> SUFFICES ASSUME SettingsInv, [G!Next]_G!vars PROVE SettingsInv'
  OBVIOUS
<1> USE DEF SettingsInv
<1>1. CASE G!HandEdit
  BY <1>1 DEF G!HandEdit
<1>2. CASE G!patch_config
  BY <1>2 DEF G!patch_config
<1>3. CASE G!write_bak
  BY <1>3 DEF G!write_bak
<1>4. CASE G!replace
  BY <1>4 DEF G!replace
<1>5. CASE G!reload
  BY <1>5 DEF G!reload
<1>6. CASE G!save_fails
  BY <1>6 DEF G!save_fails
<1>7. CASE G!Crash
  BY <1>7 DEF G!Crash
<1>8. CASE UNCHANGED G!vars
  BY <1>8 DEF G!vars
<1>9. QED
  BY <1>1, <1>2, <1>3, <1>4, <1>5, <1>6, <1>7, <1>8 DEF G!Next

\* A step of the run while it checks the file is a step of Settings.
LEMMA RunsSettings ==
  ASSUME [MCNext]_<<part, vars, consent, sandbox, relay, database, settings, focus, records>>,
         part' = "settings"
  PROVE  part = "settings" /\ [G!Next]_G!vars
BY DEF MCNext, settings, G!vars

\* What a save replaces is in the .bak sibling (config_manager.py, save: "Hand-
\* edits are recoverable"), however saves, edits by hand, failing writes and
\* crashes follow each other.
THEOREM ReplacedIsBackedUp ==
  /\ G!Spec => G!ReplacedIsInBak
  /\ MCSpec => ReplacedIsInBak
<1>1. SettingsInv => (G!replace /\ ~raced => bak = config)
  BY DEF SettingsInv, G!replace
<1>2. G!Spec => G!ReplacedIsInBak
  <2>1. SettingsInv /\ [G!Next]_G!vars => [G!replace /\ ~raced => bak = config]_G!vars
    BY <1>1
  <2>2. QED
    BY InitSettingsInv, StepSettingsInv, <2>1, PTL DEF G!Spec, G!ReplacedIsInBak
<1>3. MCSpec => ReplacedIsInBak
  <2>1. MCInit => (part = "settings" => SettingsInv)
    BY InitSettingsInv DEF MCInit
  <2>2. /\ part = "settings" => SettingsInv
        /\ [MCNext]_<<part, vars, consent, sandbox, relay, database, settings, focus, records>>
        => (part = "settings" => SettingsInv)'
    BY RunsSettings, StepSettingsInv
  <2>3. (part = "settings" => SettingsInv) =>
          [part = "settings" /\ G!replace /\ ~raced => bak = config]_settings
    BY <1>1
  <2>4. QED
    BY <2>1, <2>2, <2>3, PTL DEF MCSpec, ReplacedIsInBak
<1>4. QED
  BY <1>2, <1>3

-----------------------------------------------------------------------------
(* The audit of executions.                                                *)

Executions == (Procs \cup Fetches) \ Fetches

\* An execution that is not answered has no row; one that was has its row, or
\* is known to have lost it.
SandboxInv ==
  /\ answer \in [Procs \cup Fetches -> S!Statuses \cup {"none"}]
  /\ DOMAIN rows = Procs \cup Fetches /\ DOMAIN where = Procs \cup Fetches
  /\ \A r \in Executions :
       /\ where[r] \in {"idle", "running"} => answer[r] = "none" /\ rows[r] = <<>>
       /\ answer[r] # "none" /\ r \notin lost => rows[r] = <<answer[r]>>

\* Initially nothing is answered.
LEMMA InitSandboxInv == S!Init => SandboxInv
BY DEF S!Init, SandboxInv, Executions

\* A request is answered once, and the row is written in the same step.
LEMMA AnswerKeeps ==
  ASSUME SandboxInv, NEW r \in Executions, NEW s \in S!Statuses,
         where[r] \in {"idle", "running"}, S!Answer(r, s), S!_emit_audit(r, s)
  PROVE  SandboxInv'
<1>1. s # "none" /\ answer' = [answer EXCEPT ![r] = s] /\ where' = [where EXCEPT ![r] = "done"]
  BY DEF S!Answer, S!Statuses
<1>2. rows[r] = <<>> /\ r \in Procs \cup Fetches
  BY DEF SandboxInv, Executions
<1>3. CASE rows' = [rows EXCEPT ![r] = Append(@, s)] /\ UNCHANGED lost
  <2>1. rows' = [rows EXCEPT ![r] = <<s>>]
    <3>1. Append(<<>>, s) = <<s>>
      OBVIOUS
    <3>2. QED
      BY <1>2, <1>3, <3>1
  <2>2. QED
    BY <1>1, <1>2, <1>3, <2>1 DEF SandboxInv, S!Statuses
<1>4. CASE lost' = lost \cup {r} /\ UNCHANGED rows
  BY <1>1, <1>2, <1>4 DEF SandboxInv, S!Statuses
<1>5. QED
  BY <1>3, <1>4 DEF S!_emit_audit

\* Every step of Sandbox keeps SandboxInv.
LEMMA StepSandboxInv == SandboxInv /\ [S!Next]_S!vars => SandboxInv'
<1> SUFFICES ASSUME SandboxInv, [S!Next]_S!vars PROVE SandboxInv'
  OBVIOUS
<1>1. ASSUME NEW r \in Procs \cup Fetches, S!dispatch(r) PROVE SandboxInv'
  <2>1. r \in Executions /\ where[r] = "idle" /\ "denied" \in S!Statuses
    BY <1>1 DEF S!dispatch, Executions, S!Statuses
  <2>2. CASE where' = [where EXCEPT ![r] = "running"] /\ UNCHANGED <<answer, rows, lost>>
    BY <2>1, <2>2 DEF SandboxInv, S!Statuses
  <2>3. CASE S!refuse(r)
    BY <2>1, <2>3, AnswerKeeps DEF S!refuse
  <2>4. QED
    BY <1>1, <2>2, <2>3 DEF S!dispatch
<1>2. ASSUME NEW r \in Procs \cup Fetches, S!dispatched(r) PROVE SandboxInv'
  <2>1. PICK s \in {"ok", "error"} : S!Answer(r, s) /\ S!_emit_audit(r, s)
    BY <1>2 DEF S!dispatched
  <2>2. CASE r \in Executions
    BY <1>2, <2>1, <2>2, AnswerKeeps DEF S!dispatched, S!Statuses
  <2>3. CASE r \notin Executions
    <3>1. \A q \in Executions :
            /\ answer'[q] = answer[q] /\ where'[q] = where[q] /\ rows'[q] = rows[q]
            /\ q \notin lost' => q \notin lost
      BY <2>1, <2>3 DEF SandboxInv, S!Answer, S!_emit_audit, Executions
    <3>2. answer' \in [Procs \cup Fetches -> S!Statuses \cup {"none"}]
      BY <2>1 DEF SandboxInv, S!Answer, S!Statuses
    <3>3. DOMAIN rows' = Procs \cup Fetches /\ DOMAIN where' = Procs \cup Fetches
      BY <2>1 DEF SandboxInv, S!Answer, S!_emit_audit
    <3>4. \A q \in Executions :
            /\ where'[q] \in {"idle", "running"} => answer'[q] = "none" /\ rows'[q] = <<>>
            /\ answer'[q] # "none" /\ q \notin lost' => rows'[q] = <<answer'[q]>>
      <4>1. ASSUME NEW q \in Executions
            PROVE  /\ where'[q] \in {"idle", "running"} => answer'[q] = "none" /\ rows'[q] = <<>>
                   /\ answer'[q] # "none" /\ q \notin lost' => rows'[q] = <<answer'[q]>>
        <5>1. /\ answer'[q] = answer[q] /\ where'[q] = where[q] /\ rows'[q] = rows[q]
              /\ q \notin lost' => q \notin lost
          BY <3>1
        <5>2. QED
          BY <5>1 DEF SandboxInv
      <4>2. QED
        BY <4>1
    <3>5. QED
      BY <3>2, <3>3, <3>4 DEF SandboxInv, Executions, S!Statuses
  <2>4. QED
    BY <2>2, <2>3
<1>3. ASSUME NEW r \in Procs \cup Fetches, S!handle(r) PROVE SandboxInv'
  <2>1. r \notin Executions /\ UNCHANGED <<rows, lost>>
    BY <1>3 DEF S!handle, Executions
  <2>2. PICK s \in S!Statuses : S!Answer(r, s)
    BY <1>3 DEF S!handle, S!Statuses
  <2>3. QED
    BY <2>1, <2>2 DEF SandboxInv, S!Answer, S!Statuses
<1>4. ASSUME NEW a \in Agents, S!Decide(a) PROVE SandboxInv'
  BY <1>4 DEF S!Decide, SandboxInv, S!Statuses
<1>5. CASE S!Tick
  BY <1>5 DEF S!Tick, SandboxInv, S!Statuses
<1>6. CASE S!Restart
  BY <1>6 DEF S!Restart, SandboxInv, S!Statuses, Executions
<1>7. CASE UNCHANGED S!vars
  BY <1>7 DEF S!vars, SandboxInv, S!Statuses
<1>8. QED
  BY <1>1, <1>2, <1>3, <1>4, <1>5, <1>6, <1>7 DEF S!Next

\* A step of the run while it checks the gates is a step of Sandbox.
LEMMA RunsSandbox ==
  ASSUME [MCNext]_<<part, vars, consent, sandbox, relay, database, settings, focus, records>>,
         part' = "sandbox"
  PROVE  part = "sandbox" /\ [S!Next]_S!vars
BY DEF MCNext, sandbox, S!vars

\* An execution that was answered has its one row in the audit log, as it was
\* answered, over refusals, changes of consent, restarts and any number of
\* requests, unless the row could not be written (audit.py).
THEOREM ExecutionsHaveRows ==
  /\ S!Spec => []S!ExecutionsAudited
  /\ MCSpec => []ExecutionsAudited
<1>1. SandboxInv => S!ExecutionsAudited
  BY DEF SandboxInv, S!ExecutionsAudited, Executions
<1>2. S!Spec => []S!ExecutionsAudited
  BY InitSandboxInv, StepSandboxInv, <1>1, PTL DEF S!Spec
<1>3. MCSpec => []ExecutionsAudited
  <2>1. MCInit => (part = "sandbox" => SandboxInv)
    BY InitSandboxInv DEF MCInit
  <2>2. /\ part = "sandbox" => SandboxInv
        /\ [MCNext]_<<part, vars, consent, sandbox, relay, database, settings, focus, records>>
        => (part = "sandbox" => SandboxInv)'
    BY RunsSandbox, StepSandboxInv
  <2>3. (part = "sandbox" => SandboxInv) => ExecutionsAudited
    BY <1>1 DEF ExecutionsAudited
  <2>4. QED
    BY <2>1, <2>2, <2>3, PTL DEF MCSpec
<1>4. QED
  BY <1>2, <1>3

-----------------------------------------------------------------------------
(* The focus timer.                                                        *)

\* A timer that is on has one countdown, the one its task stands for, and it
\* began when the session did; what is recorded as completed ran its time.
FocusInv ==
  /\ time \in Int /\ active \in BOOLEAN /\ start_time \in Int /\ duration \in Int
  /\ task = start_time
  /\ \A c \in countdowns : c.began = start_time /\ c.ends \in Int
  /\ \A c, d \in countdowns : c = d
  /\ active <=> countdowns # {}
  /\ sessions \in Seq([planned : Int, actual : Int, completed : BOOLEAN, from : Int, at : Int])
  /\ \A i \in DOMAIN sessions :
       sessions[i].completed => sessions[i].at - sessions[i].from >= sessions[i].planned

\* Durations are numbers.
Lengths == Durations \subseteq Int

\* Initially the timer is off and nothing is recorded.
LEMMA InitFocusInv == F!Init => FocusInv
<1>1. <<>> \in Seq([planned : Int, actual : Int, completed : BOOLEAN, from : Int, at : Int]) /\ DOMAIN <<>> = {}
  OBVIOUS
<1>2. ASSUME F!Init PROVE FocusInv
  <2>1. sessions = <<>> /\ countdowns = {} /\ active = FALSE /\ time = 1 /\ start_time = 0 /\ duration = 0 /\ task = 0
    BY <1>2 DEF F!Init
  <2>2. sessions \in Seq([planned : Int, actual : Int, completed : BOOLEAN, from : Int, at : Int]) /\ DOMAIN sessions = {}
    BY <1>1, <2>1, Zenon
  <2>3. \A i \in DOMAIN sessions :
          sessions[i].completed => sessions[i].at - sessions[i].from >= sessions[i].planned
    BY <2>2
  <2>4. active <=> countdowns # {}
    BY <2>1
  <2>5. active \in BOOLEAN
    BY <2>1, Zenon
  <2>6. time = 1 /\ start_time = 0 /\ duration = 0 /\ task = 0
    BY <2>1, Zenon
  <2>7. time \in Int /\ active \in BOOLEAN /\ start_time \in Int /\ duration \in Int /\ task = start_time
    BY <2>5, <2>6
  <2>8. /\ \A c \in countdowns : c.began = start_time /\ c.ends \in Int
        /\ \A c, d \in countdowns : c = d
    BY <2>1
  <2>9. QED
    BY <2>2, <2>3, <2>4, <2>7, <2>8, Zenon DEF FocusInv
<1>3. QED
  BY <1>2

\* A session recorded at the end of sessions leaves the others as they are.
LEMMA Recorded ==
  ASSUME FocusInv, NEW s \in [planned : Int, actual : Int, completed : BOOLEAN, from : Int, at : Int],
         s.completed => s.at - s.from >= s.planned, sessions' = Append(sessions, s)
  PROVE  /\ sessions' \in Seq([planned : Int, actual : Int, completed : BOOLEAN, from : Int, at : Int])
         /\ \A i \in DOMAIN sessions' :
              sessions'[i].completed => sessions'[i].at - sessions'[i].from >= sessions'[i].planned
<1> DEFINE SRec == [planned : Int, actual : Int, completed : BOOLEAN, from : Int, at : Int]
<1>1. sessions \in Seq(SRec) /\ s \in SRec
  BY DEF FocusInv
<1>2. sessions' \in Seq(SRec) /\ Len(sessions') = Len(sessions) + 1 /\ sessions'[Len(sessions) + 1] = s
      /\ \A i \in 1..Len(sessions) : sessions'[i] = sessions[i]
  <2> HIDE DEF SRec
  <2>1. QED
    BY <1>1
<1>3. DOMAIN sessions' = 1..(Len(sessions) + 1) /\ DOMAIN sessions = 1..Len(sessions) /\ Len(sessions) \in Nat
  <2> HIDE DEF SRec
  <2>1. QED
    BY <1>1, <1>2
<1>4. ASSUME NEW i \in DOMAIN sessions', sessions'[i].completed
      PROVE  sessions'[i].at - sessions'[i].from >= sessions'[i].planned
  <2>1. CASE i \in 1..Len(sessions)
    BY <1>2, <1>3, <1>4, <2>1 DEF FocusInv
  <2>2. CASE i = Len(sessions) + 1
    BY <1>2, <1>4, <2>2
  <2>3. QED
    BY <1>3, <2>1, <2>2
<1>5. QED
  BY <1>2, <1>4

\* Every step of FocusTimer keeps FocusInv.
LEMMA StepFocusInv == ASSUME Lengths PROVE FocusInv /\ [F!Next]_F!vars => FocusInv'
<1> SUFFICES ASSUME FocusInv, [F!Next]_F!vars PROVE FocusInv'
  OBVIOUS
<1>1. CASE F!start
  <2>1. PICK d \in Durations :
          duration' = d /\ countdowns' = countdowns \cup {[began |-> time, ends |-> time + d]}
    BY <1>1 DEF F!start
  <2>2. ~active /\ active' = TRUE /\ start_time' = time /\ task' = time /\ UNCHANGED <<time, sessions>>
    BY <1>1 DEF F!start
  <2>3. countdowns' = {[began |-> time, ends |-> time + d]}
    BY <2>1, <2>2 DEF FocusInv
  <2>4. time + d \in Int
    BY DEF FocusInv, Lengths
  <2>5. \A c \in countdowns' : c.began = start_time' /\ c.ends \in Int
    BY <2>2, <2>3, <2>4
  <2>6. /\ time' \in Int /\ active' \in BOOLEAN /\ start_time' \in Int /\ duration' \in Int
        /\ task' = start_time'
    BY <2>1, <2>2 DEF FocusInv, Lengths
  <2>7. QED
    BY <2>2, <2>3, <2>5, <2>6 DEF FocusInv
<1>2. CASE F!stop
  <2>1. active /\ active' = FALSE /\ UNCHANGED <<time, start_time, duration, task>>
    BY <1>2 DEF F!stop
  <2>2. countdowns' = {}
    BY <1>2 DEF F!stop, FocusInv
  <2> DEFINE s == F!Session(duration, time - start_time, FALSE)
  <2>3. /\ s \in [planned : Int, actual : Int, completed : BOOLEAN, from : Int, at : Int]
        /\ ~s.completed /\ sessions' = Append(sessions, s)
    BY <1>2 DEF F!stop, F!Session, FocusInv
  <2> HIDE DEF s
  <2>4. QED
    BY <2>1, <2>2, <2>3, Recorded DEF FocusInv
<1>3. ASSUME NEW c \in countdowns, F!_countdown(c) PROVE FocusInv'
  <2>1. active' = FALSE /\ UNCHANGED <<time, start_time, duration, task>>
    BY <1>3 DEF F!_countdown
  <2>2. countdowns' = {}
    BY <1>3 DEF F!_countdown, FocusInv
  <2>3. c.ends <= time /\ c.began = start_time /\ c.ends \in Int
    BY <1>3 DEF F!_countdown, FocusInv
  <2> DEFINE s == F!Session(c.ends - c.began, c.ends - c.began, TRUE)
  <2>4. /\ s \in [planned : Int, actual : Int, completed : BOOLEAN, from : Int, at : Int]
        /\ s.at - s.from >= s.planned /\ sessions' = Append(sessions, s)
    BY <1>3, <2>3 DEF F!_countdown, F!Session, FocusInv
  <2> HIDE DEF s
  <2>5. QED
    BY <2>1, <2>2, <2>4, Recorded DEF FocusInv
<1>4. CASE F!Tick
  BY <1>4 DEF F!Tick, FocusInv
<1>5. CASE UNCHANGED F!vars
  BY <1>5 DEF F!vars, FocusInv
<1>6. QED
  BY <1>1, <1>2, <1>3, <1>4, <1>5 DEF F!Next

\* A step of the run while it checks the timer is a step of FocusTimer.
LEMMA RunsFocus ==
  ASSUME [MCNext]_<<part, vars, consent, sandbox, relay, database, settings, focus, records>>,
         part' = "focus"
  PROVE  part = "focus" /\ [F!Next]_F!vars
BY DEF MCNext, focus, F!vars

\* A session recorded as completed ran its time, and a timer that is off has no
\* countdown left that could end a later session (focus.py: _countdown does not
\* look whose end it announces), for any durations, starts and stops.
THEOREM FullSessionsOnly ==
  ASSUME Lengths
  PROVE  /\ F!Spec => []F!SessionsRunFull
         /\ MCSpec => []SessionsRunFull
<1>1. FocusInv => F!SessionsRunFull
  BY DEF FocusInv, F!SessionsRunFull
<1>2. F!Spec => []F!SessionsRunFull
  BY InitFocusInv, StepFocusInv, <1>1, PTL DEF F!Spec
<1>3. MCSpec => []SessionsRunFull
  <2>1. MCInit => (part = "focus" => FocusInv)
    BY InitFocusInv DEF MCInit
  <2>2. /\ part = "focus" => FocusInv
        /\ [MCNext]_<<part, vars, consent, sandbox, relay, database, settings, focus, records>>
        => (part = "focus" => FocusInv)'
    BY RunsFocus, StepFocusInv
  <2>3. (part = "focus" => FocusInv) => SessionsRunFull
    BY <1>1 DEF SessionsRunFull
  <2>4. QED
    BY <2>1, <2>2, <2>3, PTL DEF MCSpec
<1>4. QED
  BY <1>2, <1>3

-----------------------------------------------------------------------------
(* The database.                                                           *)

\* The topics of the i-th helper of a call, and the statements that may be
\* left of a helper with topic t.
Topics(i) == {D!Profile(i), D!Fact(i), <<"conversation", i>>, <<"key", i>>}
Rests(t) ==
  {D!upsert_user_fact(t), D!delete_user_facts_by_topic(t), D!save_user_fact(t),
   <<D!Statement("put", t), D!commit>>, <<D!commit>>}

Mine(c) == {r \in inserted : r.by = c}

\* A call inserts under each of its topics once, and commits each helper.
CallsInv ==
  /\ DOMAIN todo = Procs /\ DOMAIN ahead = Procs
  /\ writer \in [Procs -> {"new", "busy", "answered", "failed"}]
  /\ \A c \in Procs : \A i \in DOMAIN ahead[c] :
       /\ \E t \in Topics(i) : ahead[c][i] \in Rests(t)
       /\ \A r \in Mine(c) : r.topic \notin Topics(i)
  /\ \A c \in Procs : writer[c] = "busy" =>
       \E i : \E t \in Topics(i) :
         /\ todo[c] \in Rests(t) /\ i \notin DOMAIN ahead[c]
         /\ Head(todo[c]).op # "commit" => \A r \in Mine(c) : r.topic \notin Topics(i)

\* A row goes only with a pair in removed; who is not failed and removed a row
\* has not seen it come back, and when answered has seen it off the disk.
RowsInv ==
  /\ \A r \in inserted : r.by \in Procs /\ writer[r.by] # "new"
  /\ live \subseteq inserted /\ disk \subseteq inserted
  /\ \A p \in removed : /\ p[1] \in inserted /\ p[2] \in Procs /\ writer[p[2]] # "new"
                        /\ writer[p[2]] # "failed" => p[1] \notin live
                        /\ writer[p[2]] = "answered" => p[1] \notin disk
  /\ \A r \in inserted :
       \/ \E p \in removed : p[1] = r
       \/ writer[r.by] = "failed"
       \/ r \in live /\ (writer[r.by] = "answered" => r \in disk)

DatabaseInv == CallsInv /\ RowsInv

\* Nobody has called yet.
LEMMA InitDatabaseInv == D!Init => DatabaseInv
<1> SUFFICES ASSUME D!Init PROVE DatabaseInv
  OBVIOUS
<1>1. CallsInv
  BY DEF D!Init, CallsInv
<1>2. RowsInv
  BY DEF D!Init, RowsInv
<1>3. QED
  BY <1>1, <1>2 DEF DatabaseInv

\* What is at the head of the rest of a helper, and what comes after it.
LEMMA RestForms ==
  ASSUME NEW t, NEW s \in Rests(t)
  PROVE  /\ Head(s).op = "insert" => Head(s).topic = t /\ Len(s) # 1 /\ Tail(s) = <<D!commit>>
         /\ Head(s).op = "put" => Head(s).topic = t /\ Len(s) # 1 /\ Tail(s) = <<D!commit>>
         /\ Head(s).op = "delete" => /\ Head(s).topic = t /\ Len(s) # 1
                                     /\ Tail(s) \in Rests(t)
         /\ Head(s).op = "commit" => Len(s) = 1
         /\ <<D!commit>> \in Rests(t) /\ Head(<<D!commit>>).op = "commit"
<1> USE DEF Rests, D!Statement, D!commit, D!upsert_user_fact, D!delete_user_facts_by_topic, D!save_user_fact
<1>1. CASE s = D!upsert_user_fact(t)
  BY <1>1
<1>2. CASE s = D!delete_user_facts_by_topic(t)
  BY <1>2
<1>3. CASE s = D!save_user_fact(t)
  BY <1>3
<1>4. CASE s = <<D!Statement("put", t), D!commit>>
  BY <1>4
<1>5. CASE s = <<D!commit>>
  BY <1>5
<1>6. QED
  BY <1>1, <1>2, <1>3, <1>4, <1>5

\* The helpers of a call have topics of their own.
LEMMA ProgramForms ==
  ASSUME NEW k, NEW p \in D!Programs(k), NEW i \in DOMAIN p
  PROVE  \E t \in Topics(i) : p[i] \in Rests(t)
<1> USE DEF Rests, Topics
<1>1. CASE k = "profile"
  <2>1. PICK b : p = D!post_profile(b)
    BY <1>1 DEF D!Programs
  <2>2. p[i] \in {D!upsert_user_fact(D!Profile(i)), D!delete_user_facts_by_topic(D!Profile(i))}
    BY <2>1 DEF D!post_profile
  <2>3. QED
    BY <2>2
<1>2. CASE k = "extract"
  <2>1. p = D!extract_facts
    BY <1>2 DEF D!Programs
  <2>2. p[i] = D!save_user_fact(D!Fact(i))
    BY <2>1 DEF D!extract_facts
  <2>3. QED
    BY <2>2
<1>3. CASE k = "converse"
  <2>1. p = <<D!save_conversation>>
    BY <1>3 DEF D!Programs
  <2>2. i = 1 /\ p[i] = D!save_user_fact(<<"conversation", 1>>)
    BY <2>1 DEF D!save_conversation, D!save_user_fact, D!Conversation
  <2>3. QED
    BY <2>2
<1>4. CASE k \notin {"profile", "extract", "converse"}
  <2>1. p = <<D!set_preference>>
    BY <1>4 DEF D!Programs
  <2>2. i = 1 /\ p[i] = <<D!Statement("put", <<"key", 1>>), D!commit>>
    BY <2>1 DEF D!set_preference, D!Key
  <2>3. QED
    BY <2>2
<1>5. QED
  BY <1>1, <1>2, <1>3, <1>4

\* Helpers with different numbers have different topics.
LEMMA TopicsApart == \A i, j : \A t \in Topics(i) : t \in Topics(j) => i = j
BY DEF Topics, D!Profile, D!Fact

\* A call awaits the first of the helpers p, which have topics of their own.
LEMMA AwaitKeeps ==
  ASSUME CallsInv, NEW c \in Procs, NEW p, D!Await(c, p), UNCHANGED inserted,
         \A i \in DOMAIN p : /\ \E t \in Topics(i) : p[i] \in Rests(t)
                             /\ \A r \in Mine(c) : r.topic \notin Topics(i),
         writer' = [writer EXCEPT ![c] = "busy"]
  PROVE  CallsInv'
<1>1. PICK i \in DOMAIN p : /\ todo' = [todo EXCEPT ![c] = p[i]]
                            /\ ahead' = [ahead EXCEPT ![c] = [j \in DOMAIN p \ {i} |-> p[j]]]
  BY DEF D!Await
<1>2. \A d : Mine(d)' = Mine(d)
  BY DEF Mine
<1>3. todo'[c] = p[i] /\ DOMAIN ahead'[c] = DOMAIN p \ {i} /\ \A j \in DOMAIN ahead'[c] : ahead'[c][j] = p[j]
  BY <1>1 DEF CallsInv
<1>4. \A d \in Procs \ {c} : todo'[d] = todo[d] /\ ahead'[d] = ahead[d] /\ writer'[d] = writer[d]
  BY <1>1 DEF CallsInv
<1>5. DOMAIN todo' = Procs /\ DOMAIN ahead' = Procs /\ writer' \in [Procs -> {"new", "busy", "answered", "failed"}]
  BY <1>1 DEF CallsInv
<1>6. ASSUME NEW d \in Procs, NEW j \in DOMAIN ahead'[d]
      PROVE  /\ \E t \in Topics(j) : ahead'[d][j] \in Rests(t)
             /\ \A r \in Mine(d)' : r.topic \notin Topics(j)
  <2>1. CASE d = c
    BY <1>2, <1>3, <1>6, <2>1
  <2>2. CASE d # c
    BY <1>2, <1>4, <1>6, <2>2 DEF CallsInv
  <2>3. QED
    BY <2>1, <2>2
<1>7. ASSUME NEW d \in Procs, writer'[d] = "busy"
      PROVE  \E j : \E t \in Topics(j) :
               /\ todo'[d] \in Rests(t) /\ j \notin DOMAIN ahead'[d]
               /\ Head(todo'[d]).op # "commit" => \A r \in Mine(d)' : r.topic \notin Topics(j)
  <2>1. CASE d = c
    BY <1>2, <1>3, <2>1
  <2>2. CASE d # c
    BY <1>2, <1>4, <1>7, <2>2 DEF CallsInv
  <2>3. QED
    BY <2>1, <2>2
<1>8. QED
  BY <1>5, <1>6, <1>7 DEF CallsInv

\* A call that ends has nothing left.
LEMMA EndKeeps ==
  ASSUME CallsInv, NEW Ended \in SUBSET Procs, UNCHANGED inserted,
         DOMAIN todo' = Procs, DOMAIN ahead' = Procs,
         writer' \in [Procs -> {"new", "busy", "answered", "failed"}],
         \A d \in Ended : DOMAIN ahead'[d] = {} /\ writer'[d] # "busy",
         \A d \in Procs \ Ended : todo'[d] = todo[d] /\ ahead'[d] = ahead[d] /\ writer'[d] = writer[d]
  PROVE  CallsInv'
<1>1. \A d : Mine(d)' = Mine(d)
  BY DEF Mine
<1>2. QED
  BY <1>1 DEF CallsInv

\* A statement other than a commit: its helper goes on, and an insertion is the
\* call's first under its topic.
LEMMA StatementKeeps ==
  ASSUME CallsInv, NEW c \in Procs, writer[c] = "busy", D!Executed(c),
         Head(todo[c]).op \in {"insert", "put", "delete"},
         inserted' = inserted \cup
           IF Head(todo[c]).op = "delete" THEN {} ELSE {D!Row(Head(todo[c]).topic, c)}
  PROVE  /\ CallsInv' /\ UNCHANGED writer
         /\ Head(todo[c]).op # "delete" => D!Row(Head(todo[c]).topic, c) \notin inserted
<1> DEFINE row == D!Row(Head(todo[c]).topic, c)
<1>1. PICK i : \E t \in Topics(i) :
        /\ todo[c] \in Rests(t) /\ i \notin DOMAIN ahead[c]
        /\ Head(todo[c]).op # "commit" => \A r \in Mine(c) : r.topic \notin Topics(i)
  BY DEF CallsInv
<1>2. PICK t \in Topics(i) :
        /\ todo[c] \in Rests(t) /\ i \notin DOMAIN ahead[c]
        /\ Head(todo[c]).op # "commit" => \A r \in Mine(c) : r.topic \notin Topics(i)
  BY <1>1
<1>3. /\ Len(todo[c]) # 1 /\ Head(todo[c]).topic = t /\ Tail(todo[c]) \in Rests(t)
      /\ Head(todo[c]).op # "delete" => Head(Tail(todo[c])).op = "commit"
  BY <1>2, RestForms
<1>4. \A r \in Mine(c) : r.topic \notin Topics(i)
  BY <1>2, <1>3
<1>5. todo' = [todo EXCEPT ![c] = Tail(@)] /\ UNCHANGED <<ahead, writer>>
  <2>1. todo' = [todo EXCEPT ![c] = Tail(@)] /\ UNCHANGED ahead /\ writer' = [writer EXCEPT ![c] = writer[c]]
    BY <1>3 DEF D!Executed
  <2>2. QED
    BY <2>1 DEF CallsInv
<1>6. row.by = c /\ row.topic = t
  BY <1>3 DEF D!Row
<1> HIDE DEF row
<1>7. Head(todo[c]).op # "delete" => row \notin inserted
  BY <1>2, <1>4, <1>6 DEF Mine
<1>8. \A d \in Procs \ {c} : Mine(d)' = Mine(d)
  BY <1>6 DEF Mine, row
<1>9. \A r \in Mine(c)' : r \in Mine(c) \/ (r = row /\ Head(todo[c]).op # "delete")
  BY DEF Mine, row
<1>10. DOMAIN todo' = Procs /\ DOMAIN ahead' = Procs /\ writer' \in [Procs -> {"new", "busy", "answered", "failed"}]
  BY <1>5 DEF CallsInv
<1>11. \A d \in Procs \ {c} : todo'[d] = todo[d]
  BY <1>5 DEF CallsInv
<1>12. todo'[c] = Tail(todo[c])
  BY <1>5 DEF CallsInv
<1>13. ASSUME NEW d \in Procs, NEW j \in DOMAIN ahead'[d]
       PROVE  /\ \E u \in Topics(j) : ahead'[d][j] \in Rests(u)
              /\ \A r \in Mine(d)' : r.topic \notin Topics(j)
  <2>1. CASE d = c
    <3>1. t \notin Topics(j)
      BY <1>2, <1>5, <1>13, <2>1, TopicsApart
    <3>2. QED
      BY <1>5, <1>6, <1>9, <1>13, <2>1, <3>1 DEF CallsInv
  <2>2. CASE d # c
    BY <1>5, <1>8, <1>13, <2>2 DEF CallsInv
  <2>3. QED
    BY <2>1, <2>2
<1>14. ASSUME NEW d \in Procs, writer'[d] = "busy"
       PROVE  \E j : \E u \in Topics(j) :
                /\ todo'[d] \in Rests(u) /\ j \notin DOMAIN ahead'[d]
                /\ Head(todo'[d]).op # "commit" => \A r \in Mine(d)' : r.topic \notin Topics(j)
  <2>1. CASE d = c
    <3>1. Head(todo'[d]).op # "commit" => Head(todo[c]).op = "delete"
      BY <1>3, <1>12, <2>1
    <3>2. Head(todo'[d]).op # "commit" => \A r \in Mine(d)' : r.topic \notin Topics(i)
      BY <1>4, <1>9, <2>1, <3>1
    <3>3. todo'[d] \in Rests(t) /\ i \notin DOMAIN ahead'[d]
      BY <1>2, <1>3, <1>5, <1>12, <2>1
    <3>4. QED
      BY <3>2, <3>3
  <2>2. CASE d # c
    BY <1>5, <1>8, <1>11, <1>14, <2>2 DEF CallsInv
  <2>3. QED
    BY <2>1, <2>2
<1>15. QED
  BY <1>5, <1>7, <1>10, <1>13, <1>14 DEF CallsInv, row

\* A commit ends a helper: the next is awaited, or the call is answered.
LEMMA CommitKeeps ==
  ASSUME CallsInv, NEW c \in Procs, writer[c] = "busy", D!Executed(c),
         Head(todo[c]).op = "commit", UNCHANGED inserted
  PROVE  /\ CallsInv'
         /\ \/ UNCHANGED writer
            \/ writer' = [writer EXCEPT ![c] = "answered"]
<1>1. PICK i : \E t \in Topics(i) : todo[c] \in Rests(t)
  BY DEF CallsInv
<1>2. Len(todo[c]) = 1
  BY <1>1, RestForms
<1>3. CASE DOMAIN ahead[c] # {}
  <2>1. D!Await(c, ahead[c]) /\ writer' = [writer EXCEPT ![c] = "busy"] /\ UNCHANGED writer
    BY <1>2, <1>3 DEF D!Executed, CallsInv
  <2>2. CallsInv'
    BY <2>1, AwaitKeeps DEF CallsInv
  <2>3. QED
    BY <2>1, <2>2
<1>4. CASE DOMAIN ahead[c] = {}
  <2>1. /\ todo' = [todo EXCEPT ![c] = Tail(@)] /\ UNCHANGED ahead
        /\ writer' = [writer EXCEPT ![c] = "answered"]
    BY <1>2, <1>4 DEF D!Executed
  <2>2. CallsInv'
    BY <1>4, <2>1, EndKeeps, {c} \in SUBSET Procs DEF CallsInv
  <2>3. QED
    BY <2>1, <2>2
<1>5. QED
  BY <1>3, <1>4

\* Rows are removed by a call that is busy, and a new row may come.
LEMMA RowsKeep ==
  ASSUME RowsInv, NEW c \in Procs, writer[c] = "busy", NEW old \in SUBSET live, NEW fresh,
         \A r \in fresh : r.by = c /\ r \notin inserted,
         live' = (live \ old) \cup fresh, inserted' = inserted \cup fresh,
         removed' = removed \cup (old \X {c}), UNCHANGED <<disk, writer>>
  PROVE  RowsInv'
<1>1. \A r \in inserted' : r.by \in Procs /\ writer'[r.by] # "new"
  BY DEF RowsInv
<1>2. live' \subseteq inserted' /\ disk' \subseteq inserted'
  BY DEF RowsInv
<1>3. ASSUME NEW p \in removed'
      PROVE  /\ p[1] \in inserted' /\ p[2] \in Procs /\ writer'[p[2]] # "new"
             /\ writer'[p[2]] # "failed" => p[1] \notin live'
             /\ writer'[p[2]] = "answered" => p[1] \notin disk'
  <2>1. CASE p \in removed
    BY <2>1 DEF RowsInv
  <2>2. CASE p \in old \X {c}
    <3>1. p[1] \in old /\ p[2] = c
      BY <2>2
    <3>2. QED
      BY <3>1 DEF RowsInv
  <2>3. QED
    BY <1>3, <2>1, <2>2
<1>4. ASSUME NEW r \in inserted'
      PROVE  \/ \E p \in removed' : p[1] = r
             \/ writer'[r.by] = "failed"
             \/ r \in live' /\ (writer'[r.by] = "answered" => r \in disk')
  <2>1. CASE r \in old
    <3>1. <<r, c>> \in removed' /\ <<r, c>>[1] = r
      BY <2>1
    <3>2. QED
      BY <3>1
  <2>2. CASE r \in fresh
    BY <2>2
  <2>3. CASE r \in inserted \ old
    BY <2>3 DEF RowsInv
  <2>4. QED
    BY <1>4, <2>1, <2>2, <2>3 DEF RowsInv
<1>5. QED
  BY <1>1, <1>2, <1>3, <1>4 DEF RowsInv

\* Every step of Database keeps DatabaseInv.
LEMMA StepDatabaseInv == DatabaseInv /\ [D!Next]_D!vars => DatabaseInv'
<1> SUFFICES ASSUME DatabaseInv, [D!Next]_D!vars PROVE DatabaseInv'
  OBVIOUS
<1>a. CallsInv /\ RowsInv
  BY DEF DatabaseInv
<1>1. ASSUME NEW c \in Procs, D!Call(c) PROVE DatabaseInv'
  <2>1. writer[c] = "new" /\ writer' = [writer EXCEPT ![c] = "busy"]
        /\ UNCHANGED <<live, disk, inserted, removed>>
    BY <1>1 DEF D!Call
  <2>2. PICK k \in Kinds : \E q \in D!Programs(k) : D!Await(c, q)
    BY <1>1 DEF D!Call
  <2>0. PICK p \in D!Programs(k) : D!Await(c, p)
    BY <2>2
  <2>3. Mine(c) = {}
    BY <1>a, <2>1 DEF RowsInv, Mine
  <2>4. CallsInv'
    BY <1>a, <2>0, <2>1, <2>3, AwaitKeeps, ProgramForms
  <2>5. \A d \in Procs : d # c => writer'[d] = writer[d]
    BY <1>a, <2>1 DEF CallsInv
  <2>6. \A r \in inserted : r.by # c
    BY <1>a, <2>1 DEF RowsInv
  <2>7. \A q \in removed : q[2] # c
    BY <1>a, <2>1 DEF RowsInv
  <2>8. RowsInv'
    BY <1>a, <2>1, <2>5, <2>6, <2>7 DEF RowsInv
  <2>9. QED
    BY <2>4, <2>8 DEF DatabaseInv
<1>2. ASSUME NEW c \in Procs, D!Insert(c) \/ D!Put(c) PROVE DatabaseInv'
  <2> DEFINE row == D!Row(Head(todo[c]).topic, c)
  <2>1. writer[c] = "busy" /\ D!Executed(c) /\ Head(todo[c]).op \in {"insert", "put"}
    BY <1>2 DEF D!Insert, D!Put, D!Asks
  <2>2. PICK old \in SUBSET live :
          /\ live' = (live \ old) \cup {row} /\ inserted' = inserted \cup {row}
          /\ removed' = removed \cup (old \X {c}) /\ UNCHANGED disk
    <3>1. CASE D!Insert(c)
      BY <3>1, {} \in SUBSET live DEF D!Insert, D!Write
    <3>2. CASE D!Put(c)
      <4>1. D!Of(Head(todo[c]).topic) \in SUBSET live
        BY DEF D!Of
      <4>2. QED
        BY <3>2, <4>1 DEF D!Put, D!Write
    <3>3. QED
      BY <1>2, <3>1, <3>2
  <2>3. inserted' = inserted \cup
          IF Head(todo[c]).op = "delete" THEN {} ELSE {D!Row(Head(todo[c]).topic, c)}
    BY <2>1, <2>2
  <2>4. CallsInv' /\ UNCHANGED writer /\ row \notin inserted
    BY <1>a, <2>1, <2>3, StatementKeeps
  <2>5. row.by = c
    BY DEF D!Row
  <2> HIDE DEF row
  <2> DEFINE fresh == {row}
  <2>6. RowsInv'
    <3>1. /\ \A r \in fresh : r.by = c /\ r \notin inserted
          /\ live' = (live \ old) \cup fresh /\ inserted' = inserted \cup fresh
      BY <2>2, <2>4, <2>5
    <3> HIDE DEF fresh
    <3>2. QED
      BY <1>a, <2>1, <2>2, <2>4, <3>1, RowsKeep
  <2>7. QED
    BY <2>4, <2>6 DEF DatabaseInv
<1>3. ASSUME NEW c \in Procs, D!Delete(c) PROVE DatabaseInv'
  <2>1. writer[c] = "busy" /\ D!Executed(c) /\ Head(todo[c]).op = "delete"
    BY <1>3 DEF D!Delete, D!Asks
  <2>2. PICK old \in SUBSET live :
          /\ live' = live \ old /\ removed' = removed \cup (old \X {c}) /\ UNCHANGED <<disk, inserted>>
    BY <1>3 DEF D!Delete, D!Of
  <2>3. CallsInv' /\ UNCHANGED writer
    BY <1>a, <2>1, <2>2, StatementKeeps
  <2> DEFINE fresh == {}
  <2>4. /\ \A r \in fresh : r.by = c /\ r \notin inserted
        /\ live' = (live \ old) \cup fresh /\ inserted' = inserted \cup fresh
    BY <2>2
  <2> HIDE DEF fresh
  <2>5. RowsInv'
    BY <1>a, <2>1, <2>2, <2>3, <2>4, RowsKeep
  <2>6. QED
    BY <2>3, <2>5 DEF DatabaseInv
<1>4. ASSUME NEW c \in Procs, D!Commit(c) PROVE DatabaseInv'
  <2>1. /\ writer[c] = "busy" /\ D!Executed(c) /\ Head(todo[c]).op = "commit"
        /\ disk' = live /\ UNCHANGED <<live, inserted, removed>>
    BY <1>4 DEF D!Commit, D!Asks
  <2>2. CallsInv' /\ (UNCHANGED writer \/ writer' = [writer EXCEPT ![c] = "answered"])
    BY <1>a, <2>1, CommitKeeps
  <2>3. \A d \in Procs : \/ writer'[d] = writer[d]
                         \/ writer[d] = "busy" /\ writer'[d] = "answered"
    BY <1>a, <2>1, <2>2 DEF CallsInv
  <2>4. RowsInv'
    BY <1>a, <2>1, <2>3 DEF RowsInv
  <2>5. QED
    BY <2>2, <2>4 DEF DatabaseInv
<1>5. ASSUME NEW c \in Procs, D!Fail(c) PROVE DatabaseInv'
  <2>1. /\ writer[c] = "busy" /\ writer' = [writer EXCEPT ![c] = "failed"]
        /\ todo' = [todo EXCEPT ![c] = <<>>] /\ ahead' = [ahead EXCEPT ![c] = <<>>]
        /\ UNCHANGED <<live, disk, inserted, removed>>
    BY <1>5 DEF D!Fail, D!GivesUp
  <2>2. \A d \in Procs : IF d = c THEN writer'[d] = "failed" ELSE writer'[d] = writer[d]
    BY <1>a, <2>1 DEF CallsInv
  <2>3. CallsInv'
    <3> DEFINE done == {c}
    <3>1. /\ DOMAIN todo' = Procs /\ DOMAIN ahead' = Procs
          /\ writer' \in [Procs -> {"new", "busy", "answered", "failed"}]
      BY <1>a, <2>1 DEF CallsInv
    <3>2. \A d \in done : DOMAIN ahead'[d] = {} /\ writer'[d] # "busy"
      BY <1>a, <2>1, <2>2 DEF CallsInv
    <3>3. \A d \in Procs \ done : todo'[d] = todo[d] /\ ahead'[d] = ahead[d] /\ writer'[d] = writer[d]
      BY <1>a, <2>1, <2>2 DEF CallsInv
    <3>4. done \in SUBSET Procs
      OBVIOUS
    <3> HIDE DEF done
    <3>5. QED
      BY <1>a, <2>1, <3>1, <3>2, <3>3, <3>4, EndKeeps
  <2>4. RowsInv'
    BY <1>a, <2>1, <2>2 DEF RowsInv
  <2>5. QED
    BY <2>3, <2>4 DEF DatabaseInv
<1>6. CASE D!Restart
  <2>1. PICK old \in SUBSET disk :
          /\ live' = disk \ old /\ disk' = disk \ old
          /\ removed' = removed \cup {<<r, r.by>> : r \in old}
    BY <1>6 DEF D!Restart
  <2>2. /\ writer' = [c \in Procs |-> IF writer[c] = "busy" THEN "failed" ELSE writer[c]]
        /\ todo' = [c \in Procs |-> <<>>] /\ ahead' = [c \in Procs |-> <<>>] /\ UNCHANGED inserted
    BY <1>6 DEF D!Restart
  <2>3. \A d \in Procs : IF writer[d] = "busy" THEN writer'[d] = "failed" ELSE writer'[d] = writer[d]
    BY <2>2
  <2>4. CallsInv'
    <3>1. /\ DOMAIN todo' = Procs /\ DOMAIN ahead' = Procs /\ \A d \in Procs : DOMAIN ahead'[d] = {}
          /\ \A d \in Procs : writer'[d] # "busy"
          /\ writer' \in [Procs -> {"new", "busy", "answered", "failed"}]
      BY <1>a, <2>2 DEF CallsInv
    <3>2. QED
      BY <1>a, <2>2, <3>1, EndKeeps, Procs \in SUBSET Procs
  <2>5. ASSUME NEW p \in removed'
        PROVE  /\ p[1] \in inserted' /\ p[2] \in Procs /\ writer'[p[2]] # "new"
               /\ writer'[p[2]] # "failed" => p[1] \notin live'
               /\ writer'[p[2]] = "answered" => p[1] \notin disk'
    <3>1. CASE p \in removed
      <4>1. writer[p[2]] # "new" /\ p[2] \in Procs /\ p[1] \in inserted
            /\ (writer[p[2]] = "answered" => p[1] \notin disk)
        BY <1>a, <3>1 DEF RowsInv
      <4>2. writer'[p[2]] # "failed" => writer[p[2]] = "answered"
        BY <1>a, <2>3, <4>1 DEF CallsInv
      <4>3. writer'[p[2]] # "new"
        BY <2>3, <4>1
      <4>4. QED
        BY <2>1, <2>2, <4>1, <4>2, <4>3
    <3>2. CASE p \notin removed
      <4>1. PICK r \in old : p = <<r, r.by>>
        BY <2>1, <2>5, <3>2
      <4>2. p[1] = r /\ p[2] = r.by /\ r \in inserted /\ r.by \in Procs /\ writer[r.by] # "new"
        BY <1>a, <4>1 DEF RowsInv
      <4>3. writer'[r.by] # "new"
        BY <2>3, <4>2
      <4>4. QED
        BY <2>1, <2>2, <4>1, <4>2, <4>3
    <3>3. QED
      BY <3>1, <3>2
  <2>6. ASSUME NEW r \in inserted'
        PROVE  /\ r.by \in Procs /\ writer'[r.by] # "new"
               /\ \/ \E p \in removed' : p[1] = r
                  \/ writer'[r.by] = "failed"
                  \/ r \in live' /\ (writer'[r.by] = "answered" => r \in disk')
    <3>1. r.by \in Procs /\ writer[r.by] # "new"
      BY <1>a, <2>2, <2>6 DEF RowsInv
    <3>2. writer'[r.by] # "new" /\ (writer[r.by] # "answered" => writer'[r.by] = "failed")
      BY <1>a, <2>3, <3>1 DEF CallsInv
    <3>3. CASE r \in old
      <4>1. <<r, r.by>> \in removed' /\ <<r, r.by>>[1] = r
        BY <2>1, <3>3
      <4>2. QED
        BY <3>1, <3>2, <4>1
    <3>4. CASE r \notin old
      BY <1>a, <2>1, <2>2, <2>6, <3>1, <3>2, <3>4 DEF RowsInv
    <3>5. QED
      BY <3>3, <3>4
  <2>7. live' \subseteq inserted' /\ disk' \subseteq inserted'
    BY <1>a, <2>1, <2>2 DEF RowsInv
  <2>8. RowsInv'
    BY <2>5, <2>6, <2>7 DEF RowsInv
  <2>9. QED
    BY <2>4, <2>8 DEF DatabaseInv
<1>7. CASE UNCHANGED D!vars
  BY <1>7 DEF D!vars, DatabaseInv, CallsInv, RowsInv, Mine
<1>8. QED
  BY <1>1, <1>2, <1>3, <1>4, <1>5, <1>6, <1>7 DEF D!Next

\* A step of the run while it checks the database is a step of Database.
LEMMA RunsDatabase ==
  ASSUME [MCNext]_<<part, vars, consent, sandbox, relay, database, settings, focus, records>>,
         part' = "database"
  PROVE  part = "database" /\ [D!Next]_D!vars
BY DEF MCNext, database, D!vars

\* What a call answered has stored is on the disk unless a statement removed it
\* since, and what it has removed is not: the writers share one connection and
\* one transaction (database.py), and neither another's commit in between, a
\* failed statement, nor a restart undoes it, for any number of writers, fields
\* and facts.
THEOREM AnsweredStays ==
  /\ D!Spec => []D!AnsweredIsStored
  /\ MCSpec => []AnsweredIsStored
<1>1. DatabaseInv => D!AnsweredIsStored
  BY DEF DatabaseInv, RowsInv, D!AnsweredIsStored
<1>2. D!Spec => []D!AnsweredIsStored
  BY InitDatabaseInv, StepDatabaseInv, <1>1, PTL DEF D!Spec
<1>3. MCSpec => []AnsweredIsStored
  <2>1. MCInit => (part = "database" => DatabaseInv)
    BY InitDatabaseInv DEF MCInit
  <2>2. /\ part = "database" => DatabaseInv
        /\ [MCNext]_<<part, vars, consent, sandbox, relay, database, settings, focus, records>>
        => (part = "database" => DatabaseInv)'
    BY RunsDatabase, StepDatabaseInv
  <2>3. (part = "database" => DatabaseInv) => AnsweredIsStored
    BY <1>1 DEF AnsweredIsStored
  <2>4. QED
    BY <2>1, <2>2, <2>3, PTL DEF MCSpec
<1>4. QED
  BY <1>2, <1>3

-----------------------------------------------------------------------------
(* The way of events to the clients.                                       *)

\* A set of numbers has a least one: the intervals up to them are well-founded.
LEMMA Least == ASSUME NEW X, X \subseteq Nat, X # {} PROVE \E n \in X : \A m \in X : n <= m
<1> DEFINE T == {1..n : n \in X}
<1>1. T \subseteq FiniteSubsetsOf(Nat) /\ T # {}
  <2>1. \A n \in X : 1..n \subseteq Nat /\ IsFiniteSet(1..n)
    BY FS_Interval
  <2>2. QED
    BY <2>1 DEF FiniteSubsetsOf
<1>2. IsWellFoundedOn(StrictSubsetOrdering(Nat), FiniteSubsetsOf(Nat))
  BY FS_StrictSubsetOrderingWellFounded
<1>3. PICK s \in T : \A r \in T : ~(<<r, s>> \in StrictSubsetOrdering(Nat))
  <2> HIDE DEF T
  <2>1. QED
    BY <1>1, <1>2, WFMin
<1>4. PICK n \in X : s = 1..n
  OBVIOUS
<1>5. ASSUME NEW m \in X PROVE n <= m
  <2>1. SUFFICES ASSUME m < n PROVE FALSE
    BY <1>5
  <2>2. m \in Nat /\ n \in Nat /\ 1..m \subseteq 1..n /\ n \in 1..n /\ n \notin 1..m
    BY <2>1
  <2>3. 1..m \subseteq Nat /\ 1..n \subseteq Nat /\ 1..m # 1..n
    BY <2>2
  <2>4. <<1..m, 1..n>> \in StrictSubsetOrdering(Nat)
    BY <2>2, <2>3 DEF StrictSubsetOrdering
  <2>5. QED
    BY <1>3, <1>4, <2>4
<1>6. QED
  BY <1>5

\* An order-preserving choice of places only moves up what it takes.
LEMMA MovesUp ==
  ASSUME NEW n \in Nat, NEW l \in Nat, NEW k \in [1..n -> 1..l],
         \A i, j \in 1..n : i < j => k[i] < k[j]
  PROVE  \A i \in 1..n : i <= k[i]
<1> DEFINE X == {i \in 1..n : k[i] < i}
<1>1. SUFFICES ASSUME X # {} PROVE FALSE
  OBVIOUS
<1>2. PICK m \in X : \A i \in X : m <= i
  <2>1. X \subseteq Nat
    OBVIOUS
  <2> HIDE DEF X
  <2>2. QED
    BY <1>1, <2>1, Least
<1>3. m \in 1..n /\ k[m] < m /\ k[m] \in 1..n
  OBVIOUS
<1>4. k[k[m]] < k[m]
  BY <1>3
<1>5. QED
  BY <1>2, <1>3, <1>4

\* What is left of the list when some entries have gone.
LEMMA StayFacts ==
  ASSUME clients \in Seq(Procs), \A i, j \in 1..Len(clients) : clients[i] = clients[j] => i = j,
         NEW P, P \subseteq 1..Len(clients), R!Stay(P)
  PROVE  /\ clients' \in Seq(Procs)
         /\ \A i, j \in 1..Len(clients') : clients'[i] = clients'[j] => i = j
         /\ \A i \in 1..Len(clients') : \E p \in P : clients'[i] = clients[p] /\ i <= p
         /\ \A p \in P : \E i \in 1..Len(clients') : clients'[i] = clients[p]
<1>1. PICK n \in 0..Len(clients) : \E k \in R!Surjection(1..n, P) :
        /\ \A i, j \in 1..n : i < j => k[i] < k[j]
        /\ clients' = [i \in 1..n |-> clients[k[i]]]
  BY DEF R!Stay
<1>2. PICK k \in R!Surjection(1..n, P) :
        /\ \A i, j \in 1..n : i < j => k[i] < k[j]
        /\ clients' = [i \in 1..n |-> clients[k[i]]]
  BY <1>1
<1>3. k \in [1..n -> P] /\ (\A p \in P : \E i \in 1..n : k[i] = p) /\ n \in Nat /\ Len(clients) \in Nat
  BY <1>1, <1>2 DEF R!Surjection
<1>4. \A i \in 1..n : i <= k[i]
  <2>1. k \in [1..n -> 1..Len(clients)]
    BY <1>3
  <2>2. QED
    BY <1>2, <1>3, <2>1, MovesUp
<1>5. clients' \in Seq(Procs) /\ Len(clients') = n /\ \A i \in 1..n : clients'[i] = clients[k[i]]
  <2>1. \A i \in 1..n : k[i] \in 1..Len(clients)
    BY <1>3
  <2>2. \A p \in 1..Len(clients) : clients[p] \in Procs
    OBVIOUS
  <2>3. \A i \in 1..n : clients[k[i]] \in Procs
    BY <2>1, <2>2
  <2>4. clients' \in [1..n -> Procs] /\ \A i \in 1..n : clients'[i] = clients[k[i]]
    BY <1>2, <2>3
  <2>5. \A s \in [1..n -> Procs] : s \in Seq(Procs) /\ Len(s) = n
    BY <1>3
  <2>6. QED
    BY <2>4, <2>5
<1>6. \A i, j \in 1..n : k[i] = k[j] => i = j
  <2>1. SUFFICES ASSUME NEW i \in 1..n, NEW j \in 1..n, k[i] = k[j] PROVE i = j
    OBVIOUS
  <2>2. k[i] \in Int /\ k[j] \in Int
    <3>1. k[i] \in P /\ k[j] \in P
      BY <1>3
    <3>2. \A p \in P : p \in Int
      BY <1>3
    <3>3. QED
      BY <3>1, <3>2
  <2>3. (i < j => k[i] < k[j]) /\ (j < i => k[j] < k[i])
    BY <1>2
  <2>4. QED
    BY <2>1, <2>2, <2>3
<1>7. \A i, j \in 1..n : clients'[i] = clients'[j] => i = j
  <2>1. SUFFICES ASSUME NEW i \in 1..n, NEW j \in 1..n, clients'[i] = clients'[j] PROVE i = j
    OBVIOUS
  <2>2. k[i] \in 1..Len(clients) /\ k[j] \in 1..Len(clients) /\ clients[k[i]] = clients[k[j]]
    BY <1>3, <1>5, <2>1
  <2>3. QED
    BY <1>6, <2>2
<1>8. \A i \in 1..n : k[i] \in P /\ clients'[i] = clients[k[i]] /\ i <= k[i]
  BY <1>3, <1>4, <1>5
<1>9. \A p \in P : \E i \in 1..n : clients'[i] = clients[p]
  BY <1>3, <1>5
<1>10. QED
  BY <1>5, <1>7, <1>8, <1>9

Has(c, e)     == \E i \in 1..Len(got[c]) : got[c][i] = e
Sending(e, c) == rpc[e] = "sending" /\ to[e] = c

RelayType ==
  /\ clients \in Seq(Procs) /\ state \in [Procs -> {"new", "up", "dead", "gone"}]
  /\ rpc \in [Tasks -> {"new", "next", "sending", "removing", "done"}]
  /\ position \in [Tasks -> Nat] /\ to \in [Tasks -> Procs \cup {0}]
  /\ \A e \in Tasks : rpc[e] = "sending" => to[e] \in Procs
  /\ disconnected \in [Tasks -> Seq(Procs)] /\ got \in [Procs -> Seq(Tasks)]
  /\ present \in [Tasks -> SUBSET Procs] /\ shifted \subseteq Tasks

\* A client is in the list once, from its connection on, and leaves it only
\* when it is gone.
Listed ==
  /\ \A p, q \in 1..Len(clients) : clients[p] = clients[q] => p = q
  /\ \A p \in 1..Len(clients) : state[clients[p]] # "new"
  /\ \A c \in Procs : state[c] = "up" => \E p \in 1..Len(clients) : clients[p] = c

\* Who is put on a forwarder's list is gone; who counts as present is not.
GoneInv ==
  /\ \A e \in Tasks : \A i \in 1..Len(disconnected[e]) : state[disconnected[e][i]] \in {"dead", "gone"}
  /\ \A e \in Tasks : \A c \in present[e] : state[c] = "up"

\* A loop has passed whoever got its event, for entries only move up.
Visited ==
  \A e \in Tasks, c \in Procs : Has(c, e) \/ Sending(e, c) =>
    /\ state[c] # "new"
    /\ \A p \in 1..Len(clients) : clients[p] = c => p <= position[e]

\* A loop starts at the first entry, and sends to nobody a second time.
Starts  == \A e \in Tasks : rpc[e] = "new" => position[e] = 0
Pending == \A e \in Tasks : rpc[e] = "sending" => ~Has(to[e], e)
Once == \A c \in Procs : \A i, j \in 1..Len(got[c]) : got[c][i] = got[c][j] => i = j

\* A loop that nobody shifted has sent to everyone present that it has passed.
HeardInv ==
  \A e \in Tasks, c \in Procs : c \in present[e] /\ e \notin shifted =>
    /\ rpc[e] \in {"next", "sending"} =>
         \A p \in 1..Len(clients) : clients[p] = c /\ p <= position[e] => Has(c, e) \/ Sending(e, c)
    /\ rpc[e] \in {"removing", "done"} => Has(c, e)

RelayInv ==
  RelayType /\ Listed /\ GoneInv /\ Visited /\ Starts /\ Pending /\ Once /\ HeardInv

\* RelayInv holds initially: nobody is connected.
LEMMA InitRelayInv == R!Init => RelayInv
<1> SUFFICES ASSUME R!Init PROVE RelayInv
  OBVIOUS
<1>1. clients = <<>> /\ Len(clients) = 0 /\ \A c \in Procs : got[c] = <<>> /\ state[c] = "new"
  BY DEF R!Init
<1>2. \A e \in Tasks : rpc[e] = "new" /\ position[e] = 0 /\ disconnected[e] = <<>> /\ present[e] = {}
  BY DEF R!Init
<1>3. RelayType
  BY <1>2 DEF R!Init, RelayType
<1>4. \A c \in Procs, e \in Tasks : ~Has(c, e) /\ ~Sending(e, c)
  BY <1>1, <1>2 DEF Has, Sending
<1>5. Listed /\ GoneInv /\ Starts /\ Pending /\ Once
  BY <1>1, <1>2 DEF Listed, GoneInv, Starts, Pending, Once
<1>6. Visited /\ HeardInv
  BY <1>2, <1>4 DEF Visited, HeardInv
<1>7. QED
  BY <1>3, <1>5, <1>6 DEF RelayInv

\* A client that connects is at the end of the list, and nobody has sent to it.
LEMMA ConnectKeeps == ASSUME RelayInv, NEW c \in Procs, R!connect(c) PROVE RelayInv'
<1>1. /\ state[c] = "new" /\ state' \in [Procs -> {"new", "up", "dead", "gone"}] /\ state'[c] = "up"
      /\ \A d \in Procs : d # c => state'[d] = state[d]
  BY DEF RelayInv, RelayType, R!connect
<1>2. /\ clients' \in Seq(Procs) /\ Len(clients') = Len(clients) + 1 /\ Len(clients) \in Nat
      /\ clients'[Len(clients) + 1] = c
      /\ \A p \in 1..Len(clients) : clients'[p] = clients[p] /\ clients[p] \in Procs
  BY DEF RelayInv, RelayType, R!connect
<1>3. UNCHANGED <<rpc, position, to, disconnected, got, present, shifted>>
  BY DEF R!connect
<1>4. \A p \in 1..Len(clients) : clients[p] # c
  BY <1>1 DEF RelayInv, Listed
<1>5. \A p \in 1..Len(clients') : p \in 1..Len(clients) \/ p = Len(clients) + 1
  BY <1>2
<1>6. RelayType'
  BY <1>1, <1>2, <1>3 DEF RelayInv, RelayType
<1>7. Listed'
  <2>1. \A p, q \in 1..Len(clients') : clients'[p] = clients'[q] => p = q
    BY <1>2, <1>4, <1>5 DEF RelayInv, Listed
  <2>2. \A p \in 1..Len(clients') : state'[clients'[p]] # "new"
    BY <1>1, <1>2, <1>4, <1>5 DEF RelayInv, Listed
  <2>3. \A d \in Procs : state'[d] = "up" => \E p \in 1..Len(clients') : clients'[p] = d
    <3>1. \A p \in 1..Len(clients) : p \in 1..Len(clients')
      BY <1>2
    <3>2. Len(clients) + 1 \in 1..Len(clients')
      BY <1>2
    <3>3. QED
      BY <1>1, <1>2, <3>1, <3>2 DEF RelayInv, Listed
  <2>4. QED
    BY <2>1, <2>2, <2>3 DEF Listed
<1>8. GoneInv'
  <2>1. \A e \in Tasks : \A i \in 1..Len(disconnected[e]) :
          disconnected[e][i] \in Procs /\ state[disconnected[e][i]] \in {"dead", "gone"}
    BY DEF RelayInv, RelayType, GoneInv
  <2>2. \A e \in Tasks : \A d \in present[e] : d \in Procs /\ state[d] = "up"
    BY DEF RelayInv, RelayType, GoneInv
  <2>3. QED
    BY <1>1, <1>3, <2>1, <2>2 DEF GoneInv
<1>9. \A d \in Procs, e \in Tasks : (Has(d, e)' <=> Has(d, e)) /\ (Sending(e, d)' <=> Sending(e, d))
  BY <1>3 DEF Has, Sending
<1>10. Visited'
  <2>1. SUFFICES ASSUME NEW e \in Tasks, NEW d \in Procs, Has(d, e) \/ Sending(e, d)
                 PROVE  /\ state'[d] # "new"
                        /\ \A p \in 1..Len(clients') : clients'[p] = d => p <= position[e]
    BY <1>3, <1>9 DEF Visited
  <2>2. state[d] # "new" /\ \A p \in 1..Len(clients) : clients[p] = d => p <= position[e]
    BY <2>1 DEF RelayInv, Visited
  <2>3. d # c
    BY <1>1, <2>2
  <2>4. QED
    BY <1>1, <1>2, <1>5, <2>2, <2>3
<1>11. Starts' /\ Pending' /\ Once'
  <2>1. Starts' /\ Once'
    BY <1>3 DEF RelayInv, Starts, Once
  <2>2. Pending'
    BY <1>3 DEF RelayInv, Pending, Has
  <2>3. QED
    BY <2>1, <2>2
<1>12. HeardInv'
  <2>1. SUFFICES ASSUME NEW e \in Tasks, NEW d \in Procs, d \in present[e], e \notin shifted
                 PROVE  /\ rpc[e] \in {"next", "sending"} =>
                             \A p \in 1..Len(clients') :
                               clients'[p] = d /\ p <= position[e] => Has(d, e) \/ Sending(e, d)
                        /\ rpc[e] \in {"removing", "done"} => Has(d, e)
    BY <1>3, <1>9 DEF HeardInv
  <2>2. d # c
    BY <1>1, <2>1 DEF RelayInv, GoneInv
  <2>3. QED
    BY <1>2, <1>5, <2>1, <2>2 DEF RelayInv, HeardInv
<1>13. QED
  BY <1>6, <1>7, <1>8, <1>10, <1>11, <1>12 DEF RelayInv

\* Who goes no longer counts as present; nothing else changes.
LEMMA DieKeeps == ASSUME RelayInv, NEW c \in Procs, R!die(c) PROVE RelayInv'
<1>1. /\ state[c] = "up" /\ state' \in [Procs -> {"new", "up", "dead", "gone"}] /\ state'[c] = "dead"
      /\ \A d \in Procs : d # c => state'[d] = state[d]
  BY DEF RelayInv, RelayType, R!die
<1>2. UNCHANGED <<clients, rpc, position, to, disconnected, got, shifted>>
  BY DEF R!die
<1>3. present' = [e \in Tasks |-> present[e] \ {c}]
  BY DEF R!die
<1>4. RelayType'
  BY <1>1, <1>2, <1>3 DEF RelayInv, RelayType
<1>5. \A p \in 1..Len(clients) : clients[p] \in Procs
  BY DEF RelayInv, RelayType
<1>6. Listed'
  BY <1>1, <1>2, <1>5 DEF RelayInv, Listed
<1>7. GoneInv'
  <2>1. \A e \in Tasks : \A i \in 1..Len(disconnected[e]) :
          disconnected[e][i] \in Procs /\ state[disconnected[e][i]] \in {"dead", "gone"}
    BY DEF RelayInv, RelayType, GoneInv
  <2>2. \A e \in Tasks : \A d \in present[e] : d \in Procs /\ state[d] = "up"
    BY DEF RelayInv, RelayType, GoneInv
  <2>3. QED
    BY <1>1, <1>2, <1>3, <2>1, <2>2 DEF GoneInv
<1>8. \A d \in Procs, e \in Tasks : (Has(d, e)' <=> Has(d, e)) /\ (Sending(e, d)' <=> Sending(e, d))
  BY <1>2 DEF Has, Sending
<1>9. Visited'
  BY <1>1, <1>2, <1>8 DEF RelayInv, Visited
<1>10. Starts' /\ Once'
  BY <1>2 DEF RelayInv, Starts, Once
<1>11. Pending'
  BY <1>2 DEF RelayInv, Pending, Has
<1>12. HeardInv'
  BY <1>2, <1>3, <1>8 DEF RelayInv, HeardInv
<1>13. QED
  BY <1>4, <1>6, <1>7, <1>9, <1>10, <1>11, <1>12 DEF RelayInv

\* A forwarder that starts has passed nobody.
LEMMA PublishKeeps == ASSUME RelayInv, NEW f \in Tasks, R!publish(f) PROVE RelayInv'
<1>1. /\ rpc[f] = "new" /\ rpc' \in [Tasks -> {"new", "next", "sending", "removing", "done"}]
      /\ rpc'[f] = "next" /\ \A e \in Tasks : e # f => rpc'[e] = rpc[e]
  BY DEF RelayInv, RelayType, R!publish
<1>2. UNCHANGED <<clients, state, position, to, disconnected, got, shifted>>
  BY DEF R!publish
<1>3. /\ present' \in [Tasks -> SUBSET Procs] /\ \A c \in present'[f] : state[c] = "up"
      /\ \A e \in Tasks : e # f => present'[e] = present[e]
  BY DEF RelayInv, RelayType, R!publish
<1>4. RelayType'
  BY <1>1, <1>2, <1>3 DEF RelayInv, RelayType
<1>5. Listed' /\ Once'
  BY <1>2 DEF RelayInv, Listed, Once
<1>6. GoneInv'
  BY <1>2, <1>3 DEF RelayInv, GoneInv
<1>7. \A d \in Procs, e \in Tasks : (Has(d, e)' <=> Has(d, e)) /\ (Sending(e, d)' <=> Sending(e, d))
  BY <1>1, <1>2 DEF Has, Sending
<1>8. Visited'
  BY <1>2, <1>7 DEF RelayInv, Visited
<1>9. Starts'
  BY <1>1, <1>2 DEF RelayInv, Starts
<1>10. Pending'
  BY <1>1, <1>2 DEF RelayInv, Pending, Has
<1>11. HeardInv'
  <2>1. SUFFICES ASSUME NEW e \in Tasks, NEW d \in Procs, d \in present'[e], e \notin shifted
                 PROVE  /\ rpc'[e] \in {"next", "sending"} =>
                             \A p \in 1..Len(clients) :
                               clients[p] = d /\ p <= position[e] => Has(d, e) \/ Sending(e, d)
                        /\ rpc'[e] \in {"removing", "done"} => Has(d, e)
    BY <1>2, <1>7 DEF HeardInv
  <2>2. CASE e = f
    <3>1. position[e] = 0
      BY <1>1, <2>2 DEF RelayInv, Starts
    <3>2. QED
      BY <1>1, <2>2, <3>1
  <2>3. CASE e # f
    BY <1>1, <1>3, <2>1, <2>3 DEF RelayInv, HeardInv
  <2>4. QED
    BY <2>2, <2>3
<1>12. QED
  BY <1>4, <1>5, <1>6, <1>8, <1>9, <1>10, <1>11 DEF RelayInv

\* The entry that a loop takes is behind those it has passed; at the end it has
\* passed them all.
LEMMA NextKeeps == ASSUME RelayInv, NEW f \in Tasks, R!next_client(f) PROVE RelayInv'
<1>1. UNCHANGED <<clients, state, disconnected, got, present, shifted>> /\ rpc[f] = "next"
  BY DEF R!next_client
<1>2. Listed' /\ GoneInv' /\ Once'
  BY <1>1 DEF RelayInv, Listed, GoneInv, Once
<1>3. \A d \in Procs, e \in Tasks : Has(d, e)' <=> Has(d, e)
  BY <1>1 DEF Has
<1>4. position \in [Tasks -> Nat] /\ Len(clients) \in Nat /\ \A p \in 1..Len(clients) : clients[p] \in Procs
  BY DEF RelayInv, RelayType
<1>5. CASE position[f] < Len(clients)
  <2> DEFINE c == clients[position[f] + 1]
  <2>1. /\ rpc' \in [Tasks -> {"new", "next", "sending", "removing", "done"}] /\ rpc'[f] = "sending"
        /\ \A e \in Tasks : e # f => rpc'[e] = rpc[e]
    BY <1>5 DEF RelayInv, RelayType, R!next_client
  <2>2. c \in Procs /\ position[f] + 1 \in 1..Len(clients)
    BY <1>4, <1>5
  <2>3. /\ to' \in [Tasks -> Procs \cup {0}] /\ to'[f] = c /\ \A e \in Tasks : e # f => to'[e] = to[e]
    BY <1>5, <2>2 DEF RelayInv, RelayType, R!next_client
  <2>4. /\ position' \in [Tasks -> Nat] /\ position'[f] = position[f] + 1
        /\ \A e \in Tasks : e # f => position'[e] = position[e]
    BY <1>4, <1>5 DEF R!next_client
  <2>5. /\ state[c] # "new" /\ c = clients[position[f] + 1]
        /\ \A p \in 1..Len(clients) : clients[p] = c => p = position[f] + 1
    BY <2>2 DEF RelayInv, Listed
  <2>6. ~Has(c, f)
    BY <1>4, <2>2, <2>5 DEF RelayInv, Visited
  <2> HIDE DEF c
  <2>7. RelayType'
    BY <1>1, <2>1, <2>2, <2>3, <2>4 DEF RelayInv, RelayType
  <2>8. \A d \in Procs, e \in Tasks : e # f => (Sending(e, d)' <=> Sending(e, d))
    BY <2>1, <2>3 DEF Sending
  <2>9. \A d \in Procs : Sending(f, d)' <=> d = c
    BY <2>1, <2>3 DEF Sending
  <2>10. \A d \in Procs : ~Sending(f, d)
    BY <1>1 DEF Sending
  <2>11. Visited'
    <3>1. SUFFICES ASSUME NEW e \in Tasks, NEW d \in Procs, Has(d, e) \/ Sending(e, d)'
                   PROVE  state[d] # "new" /\ \A p \in 1..Len(clients) : clients[p] = d => p <= position'[e]
      BY <1>1, <1>3 DEF Visited
    <3>2. CASE e # f
      BY <2>4, <2>8, <3>1, <3>2 DEF RelayInv, Visited
    <3>3. CASE e = f /\ d = c
      BY <1>4, <2>4, <2>5, <3>3
    <3>4. CASE e = f /\ d # c
      <4>1. Has(d, f)
        BY <2>9, <3>1, <3>4
      <4>2. state[d] # "new" /\ \A p \in 1..Len(clients) : clients[p] = d => p <= position[f]
        BY <4>1 DEF RelayInv, Visited
      <4>3. QED
        BY <1>4, <2>4, <3>4, <4>2
    <3>5. QED
      BY <3>2, <3>3, <3>4
  <2>12. Starts'
    BY <2>1, <2>4 DEF RelayInv, Starts
  <2>13. Pending'
    <3>1. ASSUME NEW e \in Tasks, rpc'[e] = "sending" PROVE ~Has(to'[e], e)
      BY <2>1, <2>3, <2>6, <3>1 DEF RelayInv, Pending
    <3>2. QED
      BY <1>1, <3>1 DEF Pending, Has
  <2>14. HeardInv'
    <3>1. SUFFICES ASSUME NEW e \in Tasks, NEW d \in Procs, d \in present[e], e \notin shifted
                   PROVE  /\ rpc'[e] \in {"next", "sending"} =>
                               \A p \in 1..Len(clients) :
                                 clients[p] = d /\ p <= position'[e] => Has(d, e) \/ Sending(e, d)'
                          /\ rpc'[e] \in {"removing", "done"} => Has(d, e)
      BY <1>1, <1>3 DEF HeardInv
    <3>2. CASE e # f
      BY <2>1, <2>4, <2>8, <3>1, <3>2 DEF RelayInv, HeardInv
    <3>3. CASE e = f
      <4>1. \A p \in 1..Len(clients) : clients[p] = d /\ p <= position[f] => Has(d, f)
        BY <1>1, <2>10, <3>1, <3>3 DEF RelayInv, HeardInv
      <4>2. \A p \in 1..Len(clients) : p <= position[f] + 1 => p <= position[f] \/ p = position[f] + 1
        BY <1>4
      <4>3. \A p \in 1..Len(clients) : clients[p] = d /\ p <= position'[f] => Has(d, f) \/ d = c
        BY <2>4, <2>5, <4>1, <4>2
      <4>4. QED
        BY <2>1, <2>9, <3>3, <4>3
    <3>4. QED
      BY <3>2, <3>3
  <2>15. QED
    BY <1>2, <2>7, <2>11, <2>12, <2>13, <2>14 DEF RelayInv
<1>6. CASE ~(position[f] < Len(clients))
  <2>1. /\ rpc' \in [Tasks -> {"new", "next", "sending", "removing", "done"}] /\ rpc'[f] = "removing"
        /\ \A e \in Tasks : e # f => rpc'[e] = rpc[e]
    BY <1>6 DEF RelayInv, RelayType, R!next_client
  <2>2. UNCHANGED <<to, position>>
    BY <1>6 DEF R!next_client
  <2>3. RelayType'
    BY <1>1, <2>1, <2>2 DEF RelayInv, RelayType
  <2>4. \A d \in Procs, e \in Tasks : Sending(e, d)' <=> Sending(e, d)
    BY <1>1, <2>1, <2>2 DEF Sending
  <2>5. Visited'
    BY <1>1, <1>3, <2>2, <2>4 DEF RelayInv, Visited
  <2>6. Starts'
    BY <2>1, <2>2 DEF RelayInv, Starts
  <2>7. Pending'
    <3>1. ASSUME NEW e \in Tasks, rpc'[e] = "sending" PROVE ~Has(to[e], e)
      BY <2>1, <3>1 DEF RelayInv, Pending
    <3>2. QED
      BY <1>1, <2>2, <3>1 DEF Pending, Has
  <2>8. HeardInv'
    <3>1. SUFFICES ASSUME NEW e \in Tasks, NEW d \in Procs, d \in present[e], e \notin shifted
                   PROVE  /\ rpc'[e] \in {"next", "sending"} =>
                               \A p \in 1..Len(clients) :
                                 clients[p] = d /\ p <= position[e] => Has(d, e) \/ Sending(e, d)
                          /\ rpc'[e] \in {"removing", "done"} => Has(d, e)
      BY <1>1, <1>3, <2>2, <2>4 DEF HeardInv
    <3>2. CASE e # f
      BY <2>1, <3>1, <3>2 DEF RelayInv, HeardInv
    <3>3. CASE e = f
      <4>1. state[d] = "up"
        BY <3>1, <3>3 DEF RelayInv, GoneInv
      <4>2. PICK p \in 1..Len(clients) : clients[p] = d
        BY <4>1 DEF RelayInv, Listed
      <4>3. p <= position[f]
        BY <1>4, <1>6
      <4>4. Has(d, f) \/ Sending(f, d)
        BY <1>1, <3>1, <3>3, <4>2, <4>3 DEF RelayInv, HeardInv
      <4>5. Has(d, f)
        BY <1>1, <4>4 DEF Sending
      <4>6. QED
        BY <2>1, <3>3, <4>5
    <3>4. QED
      BY <3>2, <3>3
  <2>9. QED
    BY <1>2, <2>3, <2>5, <2>6, <2>7, <2>8 DEF RelayInv
<1>7. QED
  BY <1>5, <1>6

\* A send adds the event for a client that has not got it, or marks one as gone.
LEMMA SendKeeps == ASSUME RelayInv, NEW f \in Tasks, R!send_text(f) PROVE RelayInv'
<1>0. PICK c \in Procs : c = to[f]
  BY DEF RelayInv, RelayType, R!send_text
<1>1. /\ UNCHANGED <<clients, state, position, to, present, shifted>>
      /\ rpc[f] = "sending" /\ ~Has(c, f)
  BY <1>0 DEF RelayInv, Pending, R!send_text
<1>2. /\ rpc' \in [Tasks -> {"new", "next", "sending", "removing", "done"}] /\ rpc'[f] = "next"
      /\ \A e \in Tasks : e # f => rpc'[e] = rpc[e]
  BY DEF RelayInv, RelayType, R!send_text
<1>3. \A d \in Procs, e \in Tasks : /\ e # f => (Sending(e, d)' <=> Sending(e, d))
                                    /\ ~Sending(f, d)' /\ (Sending(f, d) <=> d = c)
  BY <1>0, <1>1, <1>2 DEF Sending
<1>4. Listed' /\ Starts'
  BY <1>1, <1>2 DEF RelayInv, Listed, Starts
<1>5. /\ got' \in [Procs -> Seq(Tasks)] /\ disconnected' \in [Tasks -> Seq(Procs)] /\ GoneInv'
      /\ \A d \in Procs, e \in Tasks : ~(d = c /\ e = f) => (Has(d, e)' <=> Has(d, e))
      /\ state[c] = "up" => Has(c, f)'
      /\ Once'
  <2>1. CASE state[c] = "up"
    <3>1. got' = [got EXCEPT ![c] = Append(@, f)] /\ UNCHANGED disconnected
      BY <1>0, <2>1 DEF R!send_text
    <3>2. \A d \in Procs : got[d] \in Seq(Tasks) /\ Len(got[d]) \in Nat
      BY DEF RelayInv, RelayType
    <3>3. /\ got' \in [Procs -> Seq(Tasks)] /\ got'[c] = Append(got[c], f)
          /\ \A d \in Procs : d # c => got'[d] = got[d]
      BY <1>1, <3>1, <3>2 DEF RelayInv, RelayType
    <3>4. /\ Len(got'[c]) = Len(got[c]) + 1 /\ got'[c][Len(got[c]) + 1] = f
          /\ \A i \in 1..Len(got[c]) : got'[c][i] = got[c][i]
      BY <1>1, <3>2, <3>3
    <3>5. \A i \in 1..Len(got'[c]) : i \in 1..Len(got[c]) \/ i = Len(got[c]) + 1
      BY <1>1, <3>2, <3>4
    <3>6. \A i \in 1..Len(got[c]) : i \in 1..Len(got'[c]) /\ got[c][i] # f
      BY <1>1, <3>2, <3>4 DEF Has
    <3>7. Len(got[c]) + 1 \in 1..Len(got'[c])
      BY <1>1, <3>2, <3>4
    <3>8. Has(c, f)'
      BY <3>4, <3>7 DEF Has
    <3>9. \A d \in Procs, e \in Tasks : ~(d = c /\ e = f) => (Has(d, e)' <=> Has(d, e))
      <4>1. \A d \in Procs, e \in Tasks : d # c => (Has(d, e)' <=> Has(d, e))
        BY <3>3 DEF Has
      <4>2. \A e \in Tasks : e # f => (Has(c, e)' <=> Has(c, e))
        BY <3>4, <3>5, <3>6 DEF Has
      <4>3. QED
        BY <4>1, <4>2
    <3>10. Once'
      <4>1. \A i, j \in 1..Len(got'[c]) : got'[c][i] = got'[c][j] => i = j
        BY <1>1, <3>4, <3>5, <3>6 DEF RelayInv, Once
      <4>2. \A d \in Procs : d # c => \A i, j \in 1..Len(got'[d]) : got'[d][i] = got'[d][j] => i = j
        BY <3>3 DEF RelayInv, Once
      <4>3. QED
        BY <4>1, <4>2 DEF Once
    <3>11. GoneInv' /\ disconnected' \in [Tasks -> Seq(Procs)]
      BY <1>1, <3>1 DEF RelayInv, RelayType, GoneInv
    <3>12. QED
      BY <3>3, <3>8, <3>9, <3>10, <3>11
  <2>2. CASE state[c] # "up"
    <3>1. disconnected' = [disconnected EXCEPT ![f] = Append(@, c)] /\ UNCHANGED got
      BY <1>0, <2>2 DEF R!send_text
    <3>2. state[c] \in {"dead", "gone"}
      <4>1. state[c] # "new"
        BY <1>1, <1>3 DEF RelayInv, Visited
      <4>2. QED
        BY <1>1, <2>2, <4>1 DEF RelayInv, RelayType
    <3>3. /\ disconnected \in [Tasks -> Seq(Procs)] /\ Len(disconnected[f]) \in Nat
          /\ disconnected' \in [Tasks -> Seq(Procs)] /\ disconnected'[f] = Append(disconnected[f], c)
          /\ \A e \in Tasks : e # f => disconnected'[e] = disconnected[e]
      BY <1>1, <3>1 DEF RelayInv, RelayType
    <3>4. \A i \in 1..Len(disconnected'[f]) :
            disconnected'[f][i] = c \/ (i \in 1..Len(disconnected[f]) /\ disconnected'[f][i] = disconnected[f][i])
      BY <1>1, <3>3
    <3>5. \A i \in 1..Len(disconnected'[f]) : state[disconnected'[f][i]] \in {"dead", "gone"}
      BY <3>2, <3>4 DEF RelayInv, GoneInv
    <3>6. \A e \in Tasks : e # f => \A i \in 1..Len(disconnected'[e]) : state[disconnected'[e][i]] \in {"dead", "gone"}
      BY <3>3 DEF RelayInv, GoneInv
    <3>7. GoneInv'
      BY <1>1, <3>5, <3>6 DEF RelayInv, GoneInv
    <3>8. \A d \in Procs, e \in Tasks : Has(d, e)' <=> Has(d, e)
      BY <3>1 DEF Has
    <3>9. Once' /\ got' \in [Procs -> Seq(Tasks)]
      BY <3>1 DEF RelayInv, RelayType, Once
    <3>10. QED
      BY <2>2, <3>3, <3>7, <3>8, <3>9
  <2>3. QED
    BY <2>1, <2>2
<1>6. RelayType'
  BY <1>1, <1>2, <1>5 DEF RelayInv, RelayType
<1>7. Visited'
  <2>1. SUFFICES ASSUME NEW e \in Tasks, NEW d \in Procs, Has(d, e)' \/ Sending(e, d)'
                 PROVE  state[d] # "new" /\ \A p \in 1..Len(clients) : clients[p] = d => p <= position[e]
    BY <1>1 DEF Visited
  <2>2. Has(d, e) \/ Sending(e, d)
    BY <1>3, <1>5, <2>1
  <2>3. QED
    BY <2>2 DEF RelayInv, Visited
<1>8. Pending'
  <2>1. SUFFICES ASSUME NEW e \in Tasks, rpc'[e] = "sending" PROVE ~Has(to[e], e)'
    BY <1>1 DEF Pending, Has
  <2>2. e # f /\ rpc[e] = "sending" /\ to[e] \in Procs /\ ~Has(to[e], e)
    BY <1>2, <2>1 DEF RelayInv, RelayType, Pending
  <2>3. \A d \in Procs : d = to[e] => ~Has(d, e)'
    BY <1>5, <2>2
  <2>4. QED
    BY <1>1, <2>2, <2>3 DEF Has
<1>9. HeardInv'
  <2>1. SUFFICES ASSUME NEW e \in Tasks, NEW d \in Procs, d \in present[e], e \notin shifted
                 PROVE  /\ rpc'[e] \in {"next", "sending"} =>
                             \A p \in 1..Len(clients) :
                               clients[p] = d /\ p <= position[e] => Has(d, e)' \/ Sending(e, d)'
                        /\ rpc'[e] \in {"removing", "done"} => Has(d, e)'
    BY <1>1 DEF HeardInv
  <2>2. CASE e # f
    BY <1>2, <1>3, <1>5, <2>1, <2>2 DEF RelayInv, HeardInv
  <2>3. CASE e = f
    <3>1. state[d] = "up"
      BY <2>1, <2>3 DEF RelayInv, GoneInv
    <3>2. \A p \in 1..Len(clients) : clients[p] = d /\ p <= position[f] => Has(d, f) \/ d = c
      BY <1>1, <1>3, <2>1, <2>3 DEF RelayInv, HeardInv
    <3>3. Has(d, f) \/ d = c => Has(d, f)'
      BY <1>1, <1>5, <3>1
    <3>4. QED
      BY <1>2, <2>3, <3>2, <3>3
  <2>4. QED
    BY <2>2, <2>3
<1>10. QED
  BY <1>4, <1>5, <1>6, <1>7, <1>8, <1>9 DEF RelayInv

\* Entries of clients that are gone leave the list; the loops that are under way
\* count as shifted.
LEMMA RemovalKeeps ==
  ASSUME RelayInv, NEW P, P \subseteq 1..Len(clients), R!Stay(P),
         state' \in [Procs -> {"new", "up", "dead", "gone"}],
         \A c \in Procs : (state'[c] = "new" <=> state[c] = "new") /\ (state'[c] = "up" <=> state[c] = "up"),
         \A p \in (1..Len(clients)) \ P : state[clients[p]] # "up",
         rpc' \in [Tasks -> {"new", "next", "sending", "removing", "done"}],
         \A e \in Tasks : rpc'[e] = rpc[e] \/ (rpc[e] = "removing" /\ rpc'[e] = "done"),
         shifted' = shifted \cup {e \in Tasks : rpc'[e] \in {"next", "sending"}},
         UNCHANGED <<position, to, disconnected, got, present>>
  PROVE  RelayInv'
<1>1. /\ clients' \in Seq(Procs)
      /\ \A i, j \in 1..Len(clients') : clients'[i] = clients'[j] => i = j
      /\ \A i \in 1..Len(clients') : \E p \in P : clients'[i] = clients[p] /\ i <= p
      /\ \A p \in P : \E i \in 1..Len(clients') : clients'[i] = clients[p]
  <2>1. clients \in Seq(Procs) /\ \A i, j \in 1..Len(clients) : clients[i] = clients[j] => i = j
    BY DEF RelayInv, RelayType, Listed
  <2>2. QED
    BY <2>1, StayFacts
<1>2. \A p \in 1..Len(clients) : clients[p] \in Procs
  BY DEF RelayInv, RelayType
<1>3. RelayType'
  <2>1. \A e \in Tasks : rpc'[e] = "sending" => to[e] \in Procs
    BY DEF RelayInv, RelayType
  <2>2. QED
    BY <1>1, <2>1 DEF RelayInv, RelayType
<1>4. Listed'
  <2>1. \A i \in 1..Len(clients') : state'[clients'[i]] # "new"
    BY <1>1, <1>2 DEF RelayInv, Listed
  <2>2. ASSUME NEW c \in Procs, state'[c] = "up" PROVE \E i \in 1..Len(clients') : clients'[i] = c
    <3>1. state[c] = "up"
      BY <2>2
    <3>2. PICK p \in 1..Len(clients) : clients[p] = c
      BY <3>1 DEF RelayInv, Listed
    <3>3. p \in P
      BY <3>1, <3>2
    <3>4. QED
      BY <1>1, <3>2, <3>3
  <2>3. QED
    BY <1>1, <2>1, <2>2 DEF Listed
<1>5. GoneInv'
  <2>1. \A e \in Tasks : \A i \in 1..Len(disconnected[e]) :
          disconnected[e][i] \in Procs /\ state[disconnected[e][i]] \in {"dead", "gone"}
    BY DEF RelayInv, RelayType, GoneInv
  <2>2. \A e \in Tasks : \A d \in present[e] : d \in Procs /\ state[d] = "up"
    BY DEF RelayInv, RelayType, GoneInv
  <2>3. \A c \in Procs : state[c] \in {"dead", "gone"} => state'[c] \in {"dead", "gone"}
    OBVIOUS
  <2>4. QED
    BY <2>1, <2>2, <2>3 DEF GoneInv
<1>6. \A d \in Procs, e \in Tasks : Has(d, e)' <=> Has(d, e)
  BY DEF Has
<1>7. \A d \in Procs, e \in Tasks : Sending(e, d)' <=> Sending(e, d)
  BY DEF Sending
<1>8. Visited'
  <2>1. SUFFICES ASSUME NEW e \in Tasks, NEW d \in Procs, Has(d, e) \/ Sending(e, d)
                 PROVE  state'[d] # "new" /\ \A i \in 1..Len(clients') : clients'[i] = d => i <= position[e]
    BY <1>6, <1>7 DEF Visited
  <2>2. state[d] # "new" /\ \A p \in 1..Len(clients) : clients[p] = d => p <= position[e]
    BY <2>1 DEF RelayInv, Visited
  <2>3. ASSUME NEW i \in 1..Len(clients'), clients'[i] = d PROVE i <= position[e]
    <3>1. PICK p \in P : clients'[i] = clients[p] /\ i <= p
      BY <1>1
    <3>2. p \in 1..Len(clients) /\ p <= position[e]
      BY <2>2, <2>3, <3>1
    <3>3. p \in Int /\ i \in Int /\ position[e] \in Int
      BY <3>2 DEF RelayInv, RelayType
    <3>4. QED
      BY <3>1, <3>2, <3>3
  <2>4. QED
    BY <2>2, <2>3
<1>9. Starts' /\ Once'
  BY DEF RelayInv, Starts, Once
<1>10. Pending'
  BY DEF RelayInv, Pending, Has
<1>11. HeardInv'
  <2>1. SUFFICES ASSUME NEW e \in Tasks, NEW d \in Procs, d \in present[e], e \notin shifted'
                 PROVE  /\ rpc'[e] \in {"next", "sending"} =>
                             \A i \in 1..Len(clients') :
                               clients'[i] = d /\ i <= position[e] => Has(d, e) \/ Sending(e, d)
                        /\ rpc'[e] \in {"removing", "done"} => Has(d, e)
    BY <1>6, <1>7 DEF HeardInv
  <2>2. e \notin shifted /\ rpc'[e] \notin {"next", "sending"}
    BY <2>1
  <2>3. rpc'[e] \in {"removing", "done"} => rpc[e] \in {"removing", "done"}
    OBVIOUS
  <2>4. QED
    BY <2>1, <2>2, <2>3 DEF RelayInv, HeardInv
<1>12. QED
  BY <1>3, <1>4, <1>5, <1>8, <1>9, <1>10, <1>11 DEF RelayInv

\* An endpoint takes its client out, unless a forwarder already has.
LEMMA DisconnectKeeps == ASSUME RelayInv, NEW c \in Procs, R!disconnect(c) PROVE RelayInv'
<1>1. /\ state' \in [Procs -> {"new", "up", "dead", "gone"}] /\ state[c] = "dead" /\ state'[c] = "gone"
      /\ \A d \in Procs : d # c => state'[d] = state[d]
  BY DEF RelayInv, RelayType, R!disconnect
<1>2. UNCHANGED <<rpc, position, to, disconnected, got, present>>
  BY DEF R!disconnect
<1>3. rpc \in [Tasks -> {"new", "next", "sending", "removing", "done"}]
  BY DEF RelayInv, RelayType
<1>4. \A d \in Procs : (state'[d] = "new" <=> state[d] = "new") /\ (state'[d] = "up" <=> state[d] = "up")
  BY <1>1
<1>5. CASE c \in R!Range(clients)
  <2>1. R!remove(c) /\ shifted' = shifted \cup {e \in Tasks : rpc'[e] \in {"next", "sending"}}
    BY <1>2, <1>5 DEF R!disconnect, R!Looping
  <2>2. PICK p \in DOMAIN clients : clients[p] = c /\ R!Stay(DOMAIN clients \ {p})
    BY <2>1 DEF R!remove
  <2>3. DOMAIN clients = 1..Len(clients)
    BY DEF RelayInv, RelayType
  <2>4. PICK P : P = (1..Len(clients)) \ {p}
    OBVIOUS
  <2>5. R!Stay(P) /\ P \subseteq 1..Len(clients)
    BY <2>2, <2>3, <2>4
  <2>6. \A q \in (1..Len(clients)) \ P : state[clients[q]] # "up"
    BY <1>1, <2>2, <2>4
  <2>7. QED
    BY <1>1, <1>2, <1>3, <1>4, <2>1, <2>5, <2>6, RemovalKeeps
<1>6. CASE c \notin R!Range(clients)
  <2>1. UNCHANGED <<clients, shifted>>
    BY <1>6 DEF R!disconnect
  <2>2. \A d \in Procs, e \in Tasks : (Has(d, e)' <=> Has(d, e)) /\ (Sending(e, d)' <=> Sending(e, d))
    BY <1>2 DEF Has, Sending
  <2>3. \A q \in 1..Len(clients) : clients[q] \in Procs
    BY DEF RelayInv, RelayType
  <2>4. RelayType'
    BY <1>1, <1>2, <2>1 DEF RelayInv, RelayType
  <2>5. Listed'
    BY <1>4, <2>1, <2>3 DEF RelayInv, Listed
  <2>6. GoneInv'
    <3>1. \A e \in Tasks : \A i \in 1..Len(disconnected[e]) :
            disconnected[e][i] \in Procs /\ state[disconnected[e][i]] \in {"dead", "gone"}
      BY DEF RelayInv, RelayType, GoneInv
    <3>2. \A e \in Tasks : \A d \in present[e] : d \in Procs /\ state[d] = "up"
      BY DEF RelayInv, RelayType, GoneInv
    <3>3. QED
      BY <1>1, <1>2, <3>1, <3>2 DEF GoneInv
  <2>7. Visited'
    BY <1>2, <1>4, <2>1, <2>2 DEF RelayInv, Visited
  <2>8. Starts' /\ Once'
    BY <1>2 DEF RelayInv, Starts, Once
  <2>9. Pending'
    BY <1>2 DEF RelayInv, Pending, Has
  <2>10. HeardInv'
    BY <1>2, <2>1, <2>2 DEF RelayInv, HeardInv
  <2>11. QED
    BY <2>4, <2>5, <2>6, <2>7, <2>8, <2>9, <2>10 DEF RelayInv
<1>7. QED
  BY <1>5, <1>6

\* A forwarder takes out those it could not send to, up to the first that has
\* left already.
LEMMA RemoveKeeps == ASSUME RelayInv, NEW f \in Tasks, R!remove_disconnected(f) PROVE RelayInv'
<1>1. /\ rpc[f] = "removing" /\ rpc' \in [Tasks -> {"new", "next", "sending", "removing", "done"}]
      /\ rpc'[f] = "done" /\ \A e \in Tasks : e # f => rpc'[e] = rpc[e]
  BY DEF RelayInv, RelayType, R!remove_disconnected
<1>2. UNCHANGED <<state, position, to, disconnected, got, present>>
  BY DEF R!remove_disconnected
<1>3. DOMAIN clients = 1..Len(clients)
  BY DEF RelayInv, RelayType
<1>4. \E n \in 0..Len(disconnected[f]) :
        LET leaving == {disconnected[f][i] : i \in 1..n} IN
        IF leaving = {} THEN UNCHANGED <<clients, shifted>>
        ELSE /\ R!Stay({p \in DOMAIN clients : clients[p] \notin leaving})
             /\ shifted' = shifted \cup (R!Looping \ {f})
  BY DEF R!remove_disconnected
<1>5. PICK n \in 0..Len(disconnected[f]) :
        LET leaving == {disconnected[f][i] : i \in 1..n} IN
        IF leaving = {} THEN UNCHANGED <<clients, shifted>>
        ELSE /\ R!Stay({p \in DOMAIN clients : clients[p] \notin leaving})
             /\ shifted' = shifted \cup (R!Looping \ {f})
  BY <1>4
<1>6. PICK leaving : leaving = {disconnected[f][i] : i \in 1..n}
  OBVIOUS
<1>7. \A c \in leaving : state[c] \in {"dead", "gone"}
  BY <1>6 DEF RelayInv, RelayType, GoneInv
<1>8. CASE leaving # {}
  <2>1. /\ R!Stay({p \in DOMAIN clients : clients[p] \notin leaving})
        /\ shifted' = shifted \cup (R!Looping \ {f})
    BY <1>5, <1>6, <1>8
  <2>2. shifted' = shifted \cup {e \in Tasks : rpc'[e] \in {"next", "sending"}}
    <3>1. R!Looping \ {f} = {e \in Tasks : rpc'[e] \in {"next", "sending"}}
      BY <1>1 DEF R!Looping
    <3>2. QED
      BY <2>1, <3>1
  <2>3. PICK P : P = {p \in 1..Len(clients) : clients[p] \notin leaving}
    OBVIOUS
  <2>4. R!Stay(P) /\ P \subseteq 1..Len(clients)
    BY <1>3, <2>1, <2>3
  <2>5. \A q \in (1..Len(clients)) \ P : state[clients[q]] # "up"
    BY <1>7, <2>3
  <2>6. /\ state' \in [Procs -> {"new", "up", "dead", "gone"}]
        /\ \A c \in Procs : (state'[c] = "new" <=> state[c] = "new") /\ (state'[c] = "up" <=> state[c] = "up")
    BY <1>2 DEF RelayInv, RelayType
  <2>7. \A e \in Tasks : rpc'[e] = rpc[e] \/ (rpc[e] = "removing" /\ rpc'[e] = "done")
    BY <1>1
  <2>8. QED
    BY <1>1, <1>2, <2>2, <2>4, <2>5, <2>6, <2>7, RemovalKeeps
<1>9. CASE leaving = {}
  <2>1. UNCHANGED <<clients, shifted>>
    BY <1>5, <1>6, <1>9
  <2>2. \A d \in Procs, e \in Tasks : (Has(d, e)' <=> Has(d, e)) /\ (Sending(e, d)' <=> Sending(e, d))
    BY <1>1, <1>2 DEF Has, Sending
  <2>3. RelayType'
    BY <1>1, <1>2, <2>1 DEF RelayInv, RelayType
  <2>4. Listed' /\ GoneInv' /\ Once'
    BY <1>2, <2>1 DEF RelayInv, Listed, GoneInv, Once
  <2>5. Visited'
    BY <1>2, <2>1, <2>2 DEF RelayInv, Visited
  <2>6. Starts'
    BY <1>1, <1>2 DEF RelayInv, Starts
  <2>7. Pending'
    BY <1>1, <1>2 DEF RelayInv, Pending, Has
  <2>8. HeardInv'
    <3>1. SUFFICES ASSUME NEW e \in Tasks, NEW d \in Procs, d \in present[e], e \notin shifted
                   PROVE  /\ rpc'[e] \in {"next", "sending"} =>
                               \A p \in 1..Len(clients) :
                                 clients[p] = d /\ p <= position[e] => Has(d, e) \/ Sending(e, d)
                          /\ rpc'[e] \in {"removing", "done"} => Has(d, e)
      BY <1>2, <2>1, <2>2 DEF HeardInv
    <3>2. CASE e = f
      BY <1>1, <3>1, <3>2 DEF RelayInv, HeardInv
    <3>3. CASE e # f
      BY <1>1, <3>1, <3>3 DEF RelayInv, HeardInv
    <3>4. QED
      BY <3>2, <3>3
  <2>9. QED
    BY <2>3, <2>4, <2>5, <2>6, <2>7, <2>8 DEF RelayInv
<1>10. QED
  BY <1>8, <1>9

\* Every step of the relay keeps RelayInv.
LEMMA StepRelayInv == RelayInv /\ [R!Next]_R!vars => RelayInv'
<1> SUFFICES ASSUME RelayInv, [R!Next]_R!vars PROVE RelayInv'
  OBVIOUS
<1>1. ASSUME NEW c \in Procs, R!connect(c) \/ R!die(c) \/ R!disconnect(c) PROVE RelayInv'
  BY <1>1, ConnectKeeps, DieKeeps, DisconnectKeeps
<1>2. ASSUME NEW e \in Tasks,
             R!publish(e) \/ R!next_client(e) \/ R!send_text(e) \/ R!remove_disconnected(e)
      PROVE  RelayInv'
  BY <1>2, PublishKeeps, NextKeeps, SendKeeps, RemoveKeeps
<1>3. CASE UNCHANGED R!vars
  <2>1. UNCHANGED <<clients, state, rpc, position, to, disconnected, got, present, shifted>>
    BY <1>3 DEF R!vars
  <2>2. RelayType' /\ Listed' /\ GoneInv' /\ Starts' /\ Once'
    BY <2>1 DEF RelayInv, RelayType, Listed, GoneInv, Starts, Once
  <2>3. \A d \in Procs, e \in Tasks : (Has(d, e)' <=> Has(d, e)) /\ (Sending(e, d)' <=> Sending(e, d))
    BY <2>1 DEF Has, Sending
  <2>4. Visited' /\ HeardInv'
    BY <2>1, <2>3 DEF RelayInv, Visited, HeardInv
  <2>5. Pending'
    BY <2>1 DEF RelayInv, Pending, Has
  <2>6. QED
    BY <2>2, <2>4, <2>5 DEF RelayInv
<1>4. QED
  BY <1>1, <1>2, <1>3 DEF R!Next

\* A step of the run moves the relay, or leaves it as it is.
LEMMA RunsRelay ==
  part = "relay" /\ [MCNext]_<<part, vars, consent, sandbox, relay, database, settings, focus, records>>
    => part' = "relay" /\ [R!Next]_R!vars
  BY DEF MCNext, relay, R!vars

\* A client that was connected all the while gets an event once; it is passed over
\* only if somebody else left the list in the middle of the forwarder's loop
\* (main.py, ws_forwarder).
THEOREM HeardOnce ==
  /\ R!Spec => []R!HeardUnlessShifted
  /\ MCSpec => []HeardUnlessShifted
<1>1. RelayInv => R!HeardUnlessShifted
  <2> SUFFICES ASSUME RelayInv PROVE R!HeardUnlessShifted
    OBVIOUS
  <2>1. \A c \in Procs : DOMAIN got[c] = 1..Len(got[c])
    BY DEF RelayInv, RelayType
  <2>2. \A c \in Procs : R!IsInjective(got[c])
    BY <2>1 DEF RelayInv, Once, R!IsInjective
  <2>3. ASSUME NEW e \in Tasks, NEW c \in Procs, rpc[e] = "done", c \in present[e], e \notin shifted
        PROVE  e \in R!Range(got[c])
    <3>1. Has(c, e)
      BY <2>3 DEF RelayInv, HeardInv
    <3>2. QED
      BY <2>1, <3>1 DEF Has, R!Range
  <2>4. QED
    BY <2>2, <2>3 DEF R!HeardUnlessShifted
<1>2. R!Spec => []R!HeardUnlessShifted
  BY InitRelayInv, StepRelayInv, <1>1, PTL DEF R!Spec
<1>3. MCSpec => []HeardUnlessShifted
  <2>1. MCInit => (part = "relay" => RelayInv)
    BY InitRelayInv DEF MCInit
  <2>2. /\ part = "relay" => RelayInv
        /\ [MCNext]_<<part, vars, consent, sandbox, relay, database, settings, focus, records>>
        => (part = "relay" => RelayInv)'
    <3>1. /\ [MCNext]_<<part, vars, consent, sandbox, relay, database, settings, focus, records>>
          /\ part' = "relay"
          => part = "relay"
      BY DEF MCNext
    <3>2. QED
      BY <3>1, RunsRelay, StepRelayInv
  <2>3. (part = "relay" => RelayInv) => HeardUnlessShifted
    BY <1>1 DEF HeardUnlessShifted
  <2>4. QED
    BY <2>1, <2>2, <2>3, PTL DEF MCSpec
<1>4. QED
  BY <1>2, <1>3

-----------------------------------------------------------------------------
(* The records of skills.                                                  *)

\* The instance's count is the count.
LEMMA SameCount == ASSUME NEW X PROVE K!Cardinality(X) = Cardinality(X)
  BY DEF K!Cardinality, Cardinality

Words == {"", "ok", "down", "error", "sent", "local", "unconfigured"}
Row == [call : Procs, day : Nat, status : Words]
Bounds == Cap \in Nat \ {0} /\ MaxDay \in Nat \ {0}

Rng(q)  == {q[i] : i \in 1..Len(q)}
Days(X) == {r.day : r \in X}
After(X, n) == {d \in Days(X) : d > n}
Newest(X) == {r \in X : Cardinality(After(X, r.day)) < Cap}

\* The records of a file have finitely many days.
LEMMA FiniteRows ==
  ASSUME NEW q \in Seq(Row)
  PROVE  IsFiniteSet(Rng(q)) /\ IsFiniteSet(Days(Rng(q))) /\ Rng(q) \subseteq Row
<1>1. Len(q) \in Nat /\ \A i \in 1..Len(q) : q[i] \in Row
  OBVIOUS
<1>2. IsFiniteSet(1..Len(q))
  BY <1>1, FS_Interval
<1>3. [i \in 1..Len(q) |-> q[i]] \in Surjection(1..Len(q), Rng(q))
  BY DEF Rng, Surjection
<1>4. IsFiniteSet(Rng(q))
  BY <1>2, <1>3, FS_Surjection
<1>5. [r \in Rng(q) |-> r.day] \in Surjection(Rng(q), Days(Rng(q)))
  BY DEF Days, Surjection
<1>6. IsFiniteSet(Days(Rng(q)))
  BY <1>4, <1>5, FS_Surjection
<1>7. QED
  BY <1>1, <1>4, <1>6 DEF Rng

\* Of the records of the newest days and one more, those of the newest days are
\* those of all records and the one more.
LEMMA NewestOfNewest ==
  ASSUME Bounds, NEW X, X \subseteq Row, IsFiniteSet(Days(X)), NEW r0 \in Row,
         \A r \in X : r.day <= r0.day
  PROVE  Newest(Newest(X) \cup {r0}) = Newest(X \cup {r0})
<1> DEFINE Y == Newest(X)
<1>1. Y \subseteq X /\ X \subseteq Row /\ \A r \in Row : r.day \in Nat
  BY DEF Newest, Row
<1>2. \A n : IsFiniteSet(After(X, n))
  <2>1. ASSUME NEW n PROVE IsFiniteSet(After(X, n))
    <3>1. After(X, n) \subseteq Days(X)
      BY DEF After
    <3>2. QED
      BY <3>1, FS_Subset
  <2>2. QED
    BY <2>1
<1>3. \A r \in X : r \in Y <=> Cardinality(After(X, r.day)) < Cap
  BY DEF Newest
<1>4. \A r \in Y : After(Y, r.day) = After(X, r.day)
  <2>1. SUFFICES ASSUME NEW r \in Y, NEW u \in X, u.day > r.day PROVE u \in Y
    BY <1>1 DEF After, Days
  <2>2. After(X, u.day) \subseteq After(X, r.day)
    <3>1. ASSUME NEW d \in After(X, u.day) PROVE d \in After(X, r.day)
      <4>1. d \in Days(X) /\ d > u.day /\ d \in Nat /\ u.day \in Nat /\ r.day \in Nat
        BY <1>1 DEF After, Days
      <4>2. d > r.day
        BY <2>1, <4>1
      <4>3. QED
        BY <4>1, <4>2 DEF After
    <3>2. QED
      BY <3>1
  <2>3. /\ Cardinality(After(X, u.day)) <= Cardinality(After(X, r.day))
        /\ Cardinality(After(X, u.day)) \in Nat /\ Cardinality(After(X, r.day)) \in Nat
    BY <1>2, <2>2, FS_Subset, FS_CardinalityType
  <2>4. Cardinality(After(X, r.day)) < Cap /\ Cap \in Nat
    BY <1>1, <1>3 DEF Bounds
  <2>5. Cardinality(After(X, u.day)) < Cap
    BY <2>3, <2>4
  <2>6. QED
    BY <1>3, <2>5
<1>5. \A n : After(X \cup {r0}, n) = After(X, n) \cup {d \in {r0.day} : d > n}
  BY DEF After, Days
<1>6. \A n : After(Y \cup {r0}, n) = After(Y, n) \cup {d \in {r0.day} : d > n}
  BY DEF After, Days
<1> HIDE DEF Y
<1>7. \A r \in Y : After(Y \cup {r0}, r.day) = After(X \cup {r0}, r.day)
  BY <1>4, <1>5, <1>6
<1>8. After(X \cup {r0}, r0.day) = {} /\ After(Y \cup {r0}, r0.day) = {}
  <2>1. \A r \in X \cup {r0} : ~(r.day > r0.day)
    BY <1>1
  <2>2. QED
    BY <1>1, <2>1 DEF After, Days
<1>9. Cardinality({}) < Cap
  BY FS_EmptySet DEF Bounds
<1>10. \A r \in X : r \notin Y => ~(Cardinality(After(X \cup {r0}, r.day)) < Cap)
  <2>1. SUFFICES ASSUME NEW r \in X, r \notin Y, Cardinality(After(X \cup {r0}, r.day)) < Cap PROVE FALSE
    OBVIOUS
  <2>2. After(X, r.day) \subseteq After(X \cup {r0}, r.day)
    BY <1>5
  <2>3. IsFiniteSet(After(X \cup {r0}, r.day))
    <3>1. {d \in {r0.day} : d > r.day} \subseteq {r0.day} /\ IsFiniteSet({r0.day})
      BY FS_Singleton
    <3>2. IsFiniteSet({d \in {r0.day} : d > r.day})
      BY <3>1, FS_Subset
    <3>3. IsFiniteSet(After(X, r.day)) /\ After(X \cup {r0}, r.day) = After(X, r.day) \cup {d \in {r0.day} : d > r.day}
      BY <1>2, <1>5
    <3>4. QED
      BY <3>2, <3>3, FS_Union
  <2>4. /\ Cardinality(After(X, r.day)) <= Cardinality(After(X \cup {r0}, r.day))
        /\ Cardinality(After(X, r.day)) \in Nat /\ Cardinality(After(X \cup {r0}, r.day)) \in Nat
    BY <1>2, <2>2, <2>3, FS_Subset, FS_CardinalityType
  <2>5. Cap \in Nat
    BY DEF Bounds
  <2>6. Cardinality(After(X, r.day)) < Cap
    BY <2>1, <2>4, <2>5
  <2>7. QED
    BY <1>3, <2>1, <2>6
<1>11. \A r \in Y : Cardinality(After(X \cup {r0}, r.day)) < Cap <=> Cardinality(After(Y \cup {r0}, r.day)) < Cap
  BY <1>7
<1>12. r0 \in Newest(X \cup {r0}) /\ r0 \in Newest(Y \cup {r0})
  BY <1>8, <1>9 DEF Newest
<1>13. \A r \in X : r # r0 => (r \in Newest(X \cup {r0}) <=> r \in Newest(Y \cup {r0}))
  BY <1>1, <1>10, <1>11 DEF Newest
<1>14. \A r : r \in Newest(X \cup {r0}) \/ r \in Newest(Y \cup {r0}) => r \in X \/ r = r0
  BY <1>1 DEF Newest
<1>15. Newest(Y \cup {r0}) = Newest(X \cup {r0})
  <2>1. ASSUME NEW r PROVE r \in Newest(X \cup {r0}) <=> r \in Newest(Y \cup {r0})
    BY <1>12, <1>13, <1>14
  <2>2. QED
    BY <2>1
<1>16. QED
  BY <1>15 DEF Y

\* What the file r of s holds of the records k.
Complete(s, r, k) ==
  IF s \in Trackers THEN Rng(r) = Newest(Rng(k))
  ELSE /\ Len(r) = (IF Len(k) <= Cap THEN Len(k) ELSE Cap)
       /\ \A i \in 1..Len(r) : r[i] = k[Len(k) - Len(r) + i]

\* Appending to a file and cutting it to size keeps it complete.
LEMMA Extends ==
  ASSUME Bounds, NEW s, NEW r \in Seq(Row), NEW k \in Seq(Row), Complete(s, r, k),
         NEW r0 \in Row, \A u \in Rng(k) : u.day <= r0.day,
         NEW q \in K!Latest(s, Append(r, r0))
  PROVE  q \in Seq(Row) /\ Rng(q) \subseteq Rng(r) \cup {r0} /\ Complete(s, q, Append(k, r0))
<1>1. PICK a : a = Append(r, r0)
  OBVIOUS
<1>2. /\ a \in Seq(Row) /\ Len(a) = Len(r) + 1 /\ a[Len(r) + 1] = r0 /\ Len(r) \in Nat
      /\ \A i \in 1..Len(r) : a[i] = r[i]
  BY <1>1
<1>3. PICK b : b = Append(k, r0)
  OBVIOUS
<1>4. /\ b \in Seq(Row) /\ Len(b) = Len(k) + 1 /\ b[Len(k) + 1] = r0 /\ Len(k) \in Nat
      /\ \A i \in 1..Len(k) : b[i] = k[i]
  BY <1>3
<1>5. \A i \in 1..Len(a) : i \in 1..Len(r) \/ i = Len(r) + 1
  BY <1>2
<1>6. \A i \in 1..Len(b) : i \in 1..Len(k) \/ i = Len(k) + 1
  BY <1>4
<1>7. Rng(a) = Rng(r) \cup {r0}
  <2>1. \A i \in 1..Len(r) : i \in 1..Len(a)
    BY <1>2
  <2>2. Len(r) + 1 \in 1..Len(a)
    BY <1>2
  <2>3. QED
    BY <1>2, <1>5, <2>1, <2>2 DEF Rng
<1>8. Rng(b) = Rng(k) \cup {r0}
  <2>1. \A i \in 1..Len(k) : i \in 1..Len(b)
    BY <1>4
  <2>2. Len(k) + 1 \in 1..Len(b)
    BY <1>4
  <2>3. QED
    BY <1>4, <1>6, <2>1, <2>2 DEF Rng
<1>9. CASE s \in Trackers
  <2>1. PICK P : P = {i \in 1..Len(a) : Cardinality(After(Rng(a), a[i].day)) < Cap}
    OBVIOUS
  <2>2. q \in K!At(a, P)
    <3>1. DOMAIN a = 1..Len(a)
      BY <1>2
    <3>2. {a[i].day : i \in DOMAIN a} = Days(Rng(a))
      BY <3>1 DEF Days, Rng
    <3>3. \A i \in DOMAIN a :
            K!Cardinality({d \in {a[l].day : l \in DOMAIN a} : d > a[i].day}) = Cardinality(After(Rng(a), a[i].day))
      BY <3>2, SameCount DEF After
    <3>4. {i \in DOMAIN a : K!Cardinality({d \in {a[l].day : l \in DOMAIN a} : d > a[i].day}) < Cap} = P
      BY <2>1, <3>1, <3>3
    <3>5. K!Latest(s, a) =
            K!At(a, {i \in DOMAIN a : K!Cardinality({d \in {a[l].day : l \in DOMAIN a} : d > a[i].day}) < Cap})
      BY <1>9 DEF K!Latest
    <3>6. QED
      BY <1>1, <3>4, <3>5
  <2>3. PICK n : n = K!Cardinality(P)
    OBVIOUS
  <2>4. PICK l \in K!Bijection(1..n, P) : q = [i \in 1..n |-> a[l[i]]]
    BY <2>2, <2>3 DEF K!At
  <2>5. l \in [1..n -> P] /\ \A p \in P : \E i \in 1..n : l[i] = p
    BY <2>4 DEF K!Bijection, K!Injection, K!Surjection
  <2>6. n \in Nat
    <3>1. P \subseteq 1..Len(a) /\ IsFiniteSet(1..Len(a))
      BY <1>2, <2>1, FS_Interval
    <3>2. IsFiniteSet(P)
      BY <3>1, FS_Subset
    <3>3. QED
      BY <2>3, <3>2, SameCount, FS_CardinalityType
  <2>7. \A p \in P : p \in 1..Len(a) /\ a[p] \in Row
    BY <1>2, <2>1
  <2>8. q \in [1..n -> Row] /\ \A i \in 1..n : q[i] = a[l[i]]
    BY <2>4, <2>5, <2>7
  <2>9. q \in Seq(Row) /\ Len(q) = n
    BY <2>6, <2>8
  <2>10. Rng(q) = {a[p] : p \in P}
    <3>1. \A i \in 1..n : q[i] = a[l[i]] /\ l[i] \in P
      BY <2>5, <2>8
    <3>2. \A p \in P : \E i \in 1..n : a[p] = q[i]
      BY <2>5, <3>1
    <3>3. Rng(q) = {q[i] : i \in 1..n}
      BY <2>9 DEF Rng
    <3>4. QED
      BY <3>1, <3>2, <3>3
  <2>11. {a[p] : p \in P} = Newest(Rng(a))
    BY <2>1 DEF Newest, Rng
  <2>12. Rng(q) = Newest(Newest(Rng(k)) \cup {r0})
    BY <1>7, <1>9, <2>10, <2>11 DEF Complete
  <2>13. Rng(q) = Newest(Rng(b))
    BY <1>8, <2>12, FiniteRows, NewestOfNewest
  <2>14. Rng(q) \subseteq Rng(a)
    BY <2>10, <2>11 DEF Newest
  <2>15. QED
    BY <1>3, <1>7, <1>9, <2>9, <2>13, <2>14 DEF Complete
<1>10. CASE s \notin Trackers
  <2>1. PICK m : m = (IF Len(a) > Cap THEN Len(a) - Cap + 1 ELSE 1)
    OBVIOUS
  <2>2. q = SubSeq(a, m, Len(a))
    BY <1>1, <1>10, <2>1 DEF K!Latest
  <2>3. m \in 1..Len(a) /\ Len(a) \in Nat /\ Cap \in Nat /\ Cap > 0
    BY <1>2, <2>1 DEF Bounds
  <2>4. /\ q \in Seq(Row) /\ Len(q) = Len(a) - m + 1
        /\ \A i \in 1..Len(q) : q[i] = a[m + i - 1] /\ m + i - 1 \in 1..Len(a)
    BY <1>2, <2>2, <2>3
  <2>5. Rng(q) \subseteq Rng(a)
    BY <2>4 DEF Rng
  <2>6. /\ Len(r) = (IF Len(k) <= Cap THEN Len(k) ELSE Cap)
        /\ \A i \in 1..Len(r) : r[i] = k[Len(k) - Len(r) + i]
    BY <1>10 DEF Complete
  <2>7. Len(q) = (IF Len(b) <= Cap THEN Len(b) ELSE Cap)
    <3>1. CASE Len(k) < Cap
      <4>1. Len(r) = Len(k) /\ Len(a) = Len(b) /\ Len(b) <= Cap
        BY <1>2, <1>4, <2>3, <2>6, <3>1
      <4>2. m = 1
        BY <2>1, <2>3, <4>1
      <4>3. QED
        BY <2>3, <2>4, <4>1, <4>2
    <3>2. CASE ~(Len(k) < Cap)
      <4>1. Len(r) = Cap /\ Len(a) = Cap + 1 /\ ~(Len(b) <= Cap)
        BY <1>2, <1>4, <2>3, <2>6, <3>2
      <4>2. m = 2
        BY <2>1, <2>3, <4>1
      <4>3. QED
        BY <2>3, <2>4, <4>1, <4>2
    <3>3. QED
      BY <3>1, <3>2
  <2>8. \A i \in 1..Len(a) : a[i] = b[Len(b) - Len(a) + i]
    <3>1. ASSUME NEW i \in 1..Len(r) PROVE a[i] = b[Len(b) - Len(a) + i]
      <4>1. Len(k) - Len(r) + i \in 1..Len(k) /\ Len(b) - Len(a) + i = Len(k) - Len(r) + i
        BY <1>2, <1>4, <2>3, <2>6
      <4>2. QED
        BY <1>2, <1>4, <2>6, <4>1
    <3>2. Len(b) - Len(a) + (Len(r) + 1) = Len(k) + 1
      BY <1>2, <1>4
    <3>3. QED
      BY <1>2, <1>4, <1>5, <3>1, <3>2
  <2>9. \A i \in 1..Len(q) : q[i] = b[Len(b) - Len(q) + i]
    <3>1. ASSUME NEW i \in 1..Len(q) PROVE q[i] = b[Len(b) - Len(q) + i]
      <4>1. Len(b) - Len(a) + (m + i - 1) = Len(b) - Len(q) + i
        BY <1>2, <1>4, <2>3, <2>4
      <4>2. QED
        BY <2>4, <2>8, <4>1
    <3>2. QED
      BY <3>1
  <2>10. QED
    BY <1>3, <1>7, <1>10, <2>4, <2>5, <2>7, <2>9 DEF Complete
<1>11. QED
  BY <1>9, <1>10

Outcomes == {"", "ok", "down", "error", "sent"}
Stages == {"new", "thread", "request", "pin", "open", "back", "answered", "raised"}

RecordsType ==
  /\ file \in [K!Skills -> [state : {"none", "whole", "broken", "cut"}, rows : Seq(Row)]]
  /\ kept \in [K!Skills -> Seq(Row)]
  /\ stage \in [Procs -> Stages] /\ outcome \in [Procs -> Outcomes]
  /\ delivered \subseteq Procs /\ today \in 1..MaxDay
  /\ DOMAIN skill = Procs
  /\ \A c \in Procs : stage[c] \in {"thread", "request", "pin", "open", "back"} => skill[c] \in K!Skills

\* A file that is not whole has nothing, and nothing was answered for since; one
\* that is whole is complete.
FilesInv ==
  \A s \in K!Skills : /\ file[s].state # "whole" => file[s].rows = <<>> /\ kept[s] = <<>>
                      /\ Complete(s, file[s].rows, kept[s])

\* No record is of a day to come.
DatedInv == \A s \in K!Skills : \A u \in Rng(kept[s]) : u.day <= today

\* A message that has arrived is of a call that has been sent; a call that comes
\* back with "sent" is of one that has arrived.
ArrivedInv ==
  /\ \A c \in delivered : stage[c] \in {"back", "answered", "raised"}
  /\ \A c \in Procs : stage[c] = "back" /\ outcome[c] = "sent" => c \in delivered

\* The records are of answered calls, and say what became of the message.
TruthInv ==
  \A s \in K!Skills : \A u \in Rng(file[s].rows) :
    /\ stage[u.call] = "answered"
    /\ u.status = "sent" => u.call \in delivered
    /\ u.status \in {"local", "unconfigured"} => u.call \notin delivered

RecordsInv == RecordsType /\ FilesInv /\ DatedInv /\ ArrivedInv /\ TruthInv

\* Nothing is complete for nothing.
LEMMA NothingIsComplete == ASSUME Bounds, NEW s PROVE Complete(s, <<>>, <<>>) /\ Rng(<<>>) = {}
<1>1. Len(<<>>) = 0 /\ 1..0 = {}
  OBVIOUS
<1>2. Rng(<<>>) = {} /\ Newest({}) = {}
  BY <1>1 DEF Rng, Newest
<1>3. 0 <= Cap
  BY DEF Bounds
<1>4. CASE s \in Trackers
  BY <1>2, <1>4 DEF Complete
<1>5. CASE s \notin Trackers
  <2>1. Len(<<>>) = (IF Len(<<>>) <= Cap THEN Len(<<>>) ELSE Cap) /\ 1..Len(<<>>) = {}
    BY <1>1, <1>3
  <2>2. QED
    BY <1>2, <1>5, <2>1 DEF Complete
<1>6. QED
  BY <1>4, <1>5

\* RecordsInv holds initially: no file has been written.
LEMMA InitRecordsInv == Bounds /\ K!Init => RecordsInv
<1> SUFFICES ASSUME Bounds, K!Init PROVE RecordsInv
  OBVIOUS
<1>1. \A s \in K!Skills : file[s].state = "none" /\ file[s].rows = <<>> /\ kept[s] = <<>>
  BY DEF K!Init, K!Nothing
<1>2. \A c \in Procs : stage[c] = "new" /\ outcome[c] = ""
  BY DEF K!Init
<1>3. RecordsType
  <2>1. file \in [K!Skills -> [state : {"none", "whole", "broken", "cut"}, rows : Seq(Row)]]
    <3>1. file = [s \in K!Skills |-> [state |-> "none", rows |-> <<>>]]
      BY DEF K!Init, K!Nothing
    <3>2. <<>> \in Seq(Row)
      OBVIOUS
    <3>3. [state |-> "none", rows |-> <<>>] \in [state : {"none", "whole", "broken", "cut"}, rows : Seq(Row)]
      BY <3>2
    <3>4. QED
      BY <3>1, <3>3
  <2>2. 1 \in 1..MaxDay
    BY DEF Bounds
  <2>3. kept \in [K!Skills -> Seq(Row)]
    <3>1. kept = [s \in K!Skills |-> <<>>]
      BY DEF K!Init
    <3>2. <<>> \in Seq(Row)
      OBVIOUS
    <3>3. QED
      BY <3>1, <3>2
  <2>4. stage \in [Procs -> Stages] /\ outcome \in [Procs -> Outcomes]
    BY DEF K!Init, Stages, Outcomes
  <2>5. delivered \subseteq Procs /\ today \in 1..MaxDay /\ DOMAIN skill = Procs
    BY <2>2 DEF K!Init
  <2>6. \A c \in Procs : stage[c] \notin {"thread", "request", "pin", "open", "back"}
    BY <1>2
  <2>7. QED
    BY <2>1, <2>3, <2>4, <2>5, <2>6 DEF RecordsType
<1>4. FilesInv
  BY <1>1, NothingIsComplete DEF FilesInv
<1>5. DatedInv /\ TruthInv
  BY <1>1, NothingIsComplete DEF DatedInv, TruthInv
<1>6. ArrivedInv
  BY <1>2 DEF K!Init, ArrivedInv
<1>7. QED
  BY <1>3, <1>4, <1>5, <1>6 DEF RecordsInv

\* A call that records leaves a file that is whole and complete, or nothing at all.
LEMMA RecordKeeps ==
  ASSUME Bounds, RecordsInv, NEW c \in Procs, NEW s \in K!Skills, NEW w \in Words,
         K!Record(c, s, w), stage[c] \in {"new", "back"},
         w = "sent" => c \in delivered, w \in {"local", "unconfigured"} => c \notin delivered,
         UNCHANGED <<outcome, delivered, today>>,
         DOMAIN skill' = Procs, \A d \in Procs : d # c => skill'[d] = skill[d]
  PROVE  RecordsInv'
<1>1. PICK r0 : r0 = [call |-> c, day |-> today, status |-> w]
  OBVIOUS
<1>2. r0 \in Row /\ r0.call = c /\ r0.day = today /\ r0.status = w /\ today \in Nat
  <2>1. today \in Nat
    BY DEF RecordsInv, RecordsType
  <2>2. QED
    BY <1>1, <2>1 DEF Row
<1>3. stage' \in [Procs -> Stages] /\ stage'[c] \in {"answered", "raised"} /\ \A d \in Procs : d # c => stage'[d] = stage[d]
  BY DEF K!Record, RecordsInv, RecordsType, Stages
<1>4. \A t \in K!Skills : \A u \in Rng(file[t].rows) : u.call \in Procs /\ u.call # c
  <2>1. ASSUME NEW t \in K!Skills, NEW u \in Rng(file[t].rows) PROVE u.call \in Procs /\ u.call # c
    <3>1. file[t].rows \in Seq(Row)
      BY DEF RecordsInv, RecordsType
    <3>2. u \in Row
      BY <3>1, FiniteRows
    <3>3. stage[u.call] = "answered"
      BY DEF RecordsInv, TruthInv
    <3>4. QED
      BY <3>2, <3>3 DEF Row
  <2>2. QED
    BY <2>1
<1>5. \E n \in {"none", "whole", "broken", "cut"} : \E q \in Seq(Row), k \in Seq(Row) :
        /\ file' = [file EXCEPT ![s] = [state |-> n, rows |-> q]] /\ kept' = [kept EXCEPT ![s] = k]
        /\ n # "whole" => q = <<>> /\ k = <<>>
        /\ Complete(s, q, k)
        /\ \A u \in Rng(k) : u.day <= today
        /\ Rng(q) \subseteq Rng(file[s].rows) \cup {r0}
        /\ r0 \in Rng(q) => stage'[c] = "answered"
  <2>1. /\ file[s].rows \in Seq(Row) /\ kept[s] \in Seq(Row) /\ Complete(s, file[s].rows, kept[s])
        /\ file[s].state \in {"none", "whole", "broken", "cut"}
        /\ file[s].state # "whole" => file[s].rows = <<>> /\ kept[s] = <<>>
        /\ \A u \in Rng(kept[s]) : u.day <= today
    BY DEF RecordsInv, RecordsType, FilesInv, DatedInv
  <2>2. r0 \notin Rng(file[s].rows)
    BY <1>2, <1>4
  <2>3. CASE file[s].state = "cut" /\ UNCHANGED <<file, kept>>
    <3>1. file' = [file EXCEPT ![s] = [state |-> file[s].state, rows |-> file[s].rows]]
      BY <2>3 DEF RecordsInv, RecordsType
    <3>2. kept' = [kept EXCEPT ![s] = kept[s]]
      BY <2>3 DEF RecordsInv, RecordsType
    <3>3. QED
      BY <2>1, <2>2, <3>1, <3>2
  <2>4. ASSUME NEW unread \in BOOLEAN, NEW q \in K!Latest(s, Append(K!load_data(s, unread), r0)),
               file' = [file EXCEPT ![s] = [state |-> "whole", rows |-> q]],
               kept' = [kept EXCEPT ![s] = Append(IF unread THEN <<>> ELSE @, r0)],
               stage' = [stage EXCEPT ![c] = "answered"]
        PROVE  \E n \in {"none", "whole", "broken", "cut"} : \E p \in Seq(Row), k \in Seq(Row) :
                 /\ file' = [file EXCEPT ![s] = [state |-> n, rows |-> p]] /\ kept' = [kept EXCEPT ![s] = k]
                 /\ n # "whole" => p = <<>> /\ k = <<>>
                 /\ Complete(s, p, k)
                 /\ \A u \in Rng(k) : u.day <= today
                 /\ Rng(p) \subseteq Rng(file[s].rows) \cup {r0}
                 /\ r0 \in Rng(p) => stage'[c] = "answered"
    <3>1. PICK r : r = (IF unread THEN <<>> ELSE file[s].rows)
      OBVIOUS
    <3>2. PICK k : k = (IF unread THEN <<>> ELSE kept[s])
      OBVIOUS
    <3>3. /\ r \in Seq(Row) /\ k \in Seq(Row) /\ Complete(s, r, k) /\ \A u \in Rng(k) : u.day <= today
          /\ Rng(r) \subseteq Rng(file[s].rows)
      <4>1. CASE unread
        BY <3>1, <3>2, <4>1, NothingIsComplete
      <4>2. CASE ~unread
        BY <2>1, <3>1, <3>2, <4>2
      <4>3. QED
        BY <4>1, <4>2
    <3>4. q \in K!Latest(s, Append(r, r0))
      BY <2>4, <3>1 DEF K!load_data
    <3>5. \A u \in Rng(k) : u.day <= r0.day
      BY <1>2, <3>3
    <3>6. q \in Seq(Row) /\ Rng(q) \subseteq Rng(r) \cup {r0} /\ Complete(s, q, Append(k, r0))
      BY <1>2, <3>3, <3>4, <3>5, Extends
    <3>7. kept' = [kept EXCEPT ![s] = Append(k, r0)] /\ Append(k, r0) \in Seq(Row)
      BY <1>2, <2>4, <3>2, <3>3
    <3>8. \A u \in Rng(Append(k, r0)) : u.day <= today
      <4>1. \A i \in 1..Len(Append(k, r0)) : (i \in 1..Len(k) /\ Append(k, r0)[i] = k[i]) \/ Append(k, r0)[i] = r0
        BY <1>2, <3>3
      <4>2. QED
        BY <1>2, <3>3, <4>1 DEF Rng
    <3>9. stage'[c] = "answered"
      BY <2>4 DEF RecordsInv, RecordsType
    <3>10. Rng(q) \subseteq Rng(file[s].rows) \cup {r0}
      BY <3>3, <3>6
    <3> HIDE DEF Rng
    <3>11. QED
      BY <2>4, <3>6, <3>7, <3>8, <3>9, <3>10
  <2>5. ASSUME NEW n \in {"broken", "cut"}, file' = [file EXCEPT ![s] = K!Nothing(n)],
               kept' = [kept EXCEPT ![s] = <<>>]
        PROVE  \E m \in {"none", "whole", "broken", "cut"} : \E q \in Seq(Row), k \in Seq(Row) :
                 /\ file' = [file EXCEPT ![s] = [state |-> m, rows |-> q]] /\ kept' = [kept EXCEPT ![s] = k]
                 /\ m # "whole" => q = <<>> /\ k = <<>>
                 /\ Complete(s, q, k)
                 /\ \A u \in Rng(k) : u.day <= today
                 /\ Rng(q) \subseteq Rng(file[s].rows) \cup {r0}
                 /\ r0 \in Rng(q) => stage'[c] = "answered"
    <3>1. file' = [file EXCEPT ![s] = [state |-> n, rows |-> <<>>]] /\ <<>> \in Seq(Row)
      BY <2>5 DEF K!Nothing
    <3>2. QED
      BY <2>5, <3>1, NothingIsComplete
  <2>6. QED
    BY <1>1, <2>3, <2>4, <2>5 DEF K!Record
<1>6. PICK n \in {"none", "whole", "broken", "cut"} : \E q \in Seq(Row), k \in Seq(Row) :
        /\ file' = [file EXCEPT ![s] = [state |-> n, rows |-> q]] /\ kept' = [kept EXCEPT ![s] = k]
        /\ n # "whole" => q = <<>> /\ k = <<>>
        /\ Complete(s, q, k)
        /\ \A u \in Rng(k) : u.day <= today
        /\ Rng(q) \subseteq Rng(file[s].rows) \cup {r0}
        /\ r0 \in Rng(q) => stage'[c] = "answered"
  BY <1>5
<1>7. PICK q \in Seq(Row), k \in Seq(Row) :
        /\ file' = [file EXCEPT ![s] = [state |-> n, rows |-> q]] /\ kept' = [kept EXCEPT ![s] = k]
        /\ n # "whole" => q = <<>> /\ k = <<>>
        /\ Complete(s, q, k)
        /\ \A u \in Rng(k) : u.day <= today
        /\ Rng(q) \subseteq Rng(file[s].rows) \cup {r0}
        /\ r0 \in Rng(q) => stage'[c] = "answered"
  BY <1>6
<1>8. /\ file' \in [K!Skills -> [state : {"none", "whole", "broken", "cut"}, rows : Seq(Row)]]
      /\ file'[s].state = n /\ file'[s].rows = q
      /\ \A t \in K!Skills : t # s => file'[t] = file[t]
  BY <1>7 DEF RecordsInv, RecordsType
<1>9. kept' \in [K!Skills -> Seq(Row)] /\ kept'[s] = k /\ \A t \in K!Skills : t # s => kept'[t] = kept[t]
  BY <1>7 DEF RecordsInv, RecordsType
<1>10. RecordsType'
  BY <1>3, <1>8, <1>9 DEF RecordsInv, RecordsType
<1>11. FilesInv'
  BY <1>7, <1>8, <1>9 DEF RecordsInv, FilesInv
<1>12. DatedInv'
  BY <1>7, <1>9 DEF RecordsInv, DatedInv
<1>13. ArrivedInv'
  BY <1>3 DEF RecordsInv, RecordsType, ArrivedInv
<1>14. TruthInv'
  <2>1. SUFFICES ASSUME NEW t \in K!Skills, NEW u \in Rng(file'[t].rows)
                 PROVE  /\ stage'[u.call] = "answered"
                        /\ u.status = "sent" => u.call \in delivered
                        /\ u.status \in {"local", "unconfigured"} => u.call \notin delivered
    BY DEF TruthInv
  <2>2. CASE u \in Rng(file[t].rows)
    BY <1>3, <1>4, <2>2 DEF RecordsInv, TruthInv
  <2>3. CASE u \notin Rng(file[t].rows)
    <3>1. t = s /\ u = r0 /\ r0 \in Rng(q)
      BY <1>7, <1>8, <2>1, <2>3
    <3>2. QED
      BY <1>2, <1>7, <3>1
  <2>4. QED
    BY <2>2, <2>3
<1>15. QED
  BY <1>10, <1>11, <1>12, <1>13, <1>14 DEF RecordsInv

\* A step that leaves the files alone, and the fate of what was answered.
LEMMA QuietKeeps ==
  ASSUME RecordsInv, UNCHANGED <<file, kept>>,
         stage' \in [Procs -> Stages], outcome' \in [Procs -> Outcomes],
         delivered' \subseteq Procs, today' \in 1..MaxDay, today <= today', DOMAIN skill' = Procs,
         \A c \in Procs : stage'[c] \in {"thread", "request", "pin", "open", "back"} => skill'[c] \in K!Skills,
         \A c \in Procs : stage[c] = "answered" =>
           stage'[c] = "answered" /\ (c \in delivered' <=> c \in delivered),
         ArrivedInv'
  PROVE  RecordsInv'
<1>1. RecordsType' /\ FilesInv'
  BY DEF RecordsInv, RecordsType, FilesInv
<1>2. DatedInv'
  <2>1. SUFFICES ASSUME NEW s \in K!Skills, NEW u \in Rng(kept[s]) PROVE u.day <= today'
    BY DEF DatedInv
  <2>2. u.day <= today
    BY DEF RecordsInv, DatedInv
  <2>3. kept[s] \in Seq(Row) /\ today \in Int /\ today' \in Int
    BY DEF RecordsInv, RecordsType
  <2>4. u \in Row
    BY <2>3, FiniteRows
  <2>5. u.day \in Int
    BY <2>4 DEF Row
  <2>6. QED
    BY <2>2, <2>3, <2>5
<1>3. TruthInv'
  <2>1. SUFFICES ASSUME NEW s \in K!Skills, NEW u \in Rng(file[s].rows)
                 PROVE  /\ stage'[u.call] = "answered"
                        /\ u.status = "sent" => u.call \in delivered'
                        /\ u.status \in {"local", "unconfigured"} => u.call \notin delivered'
    BY DEF TruthInv
  <2>2. file[s].rows \in Seq(Row)
    BY DEF RecordsInv, RecordsType
  <2>3. u \in Row
    BY <2>2, FiniteRows
  <2>4. u.call \in Procs
    BY <2>3 DEF Row
  <2>5. /\ stage[u.call] = "answered"
        /\ u.status = "sent" => u.call \in delivered
        /\ u.status \in {"local", "unconfigured"} => u.call \notin delivered
    BY DEF RecordsInv, TruthInv
  <2>6. stage'[u.call] = "answered" /\ (u.call \in delivered' <=> u.call \in delivered)
    BY <2>4, <2>5
  <2>7. QED
    BY <2>5, <2>6
<1>4. QED
  BY <1>1, <1>2, <1>3 DEF RecordsInv

\* A call of a skill records at once, or goes to the thread or to the request.
LEMMA ExecuteKeeps == ASSUME Bounds, RecordsInv, NEW c \in Procs, NEW s \in K!Skills, K!execute(c, s) PROVE RecordsInv'
<1>1. /\ stage[c] = "new" /\ UNCHANGED <<outcome, delivered, today>>
      /\ DOMAIN skill' = Procs /\ skill'[c] = s /\ \A d \in Procs : d # c => skill'[d] = skill[d]
  BY DEF K!execute, RecordsInv, RecordsType
<1>2. c \notin delivered
  BY <1>1 DEF RecordsInv, ArrivedInv
<1>3. ASSUME NEW w \in {"", "local", "unconfigured"}, K!Record(c, s, w) PROVE RecordsInv'
  <2>1. w \in Words /\ w # "sent"
    BY DEF Words
  <2>2. QED
    BY <1>1, <1>2, <1>3, <2>1, RecordKeeps
<1>4. ASSUME UNCHANGED <<file, kept>>, NEW n \in {"thread", "request"}, stage' = [stage EXCEPT ![c] = n]
      PROVE  RecordsInv'
  <2>1. stage' \in [Procs -> Stages] /\ stage'[c] = n /\ \A d \in Procs : d # c => stage'[d] = stage[d]
    BY <1>4 DEF RecordsInv, RecordsType, Stages
  <2>2. ArrivedInv'
    BY <1>1, <1>2, <2>1 DEF RecordsInv, RecordsType, ArrivedInv
  <2>3. outcome' \in [Procs -> Outcomes] /\ delivered' \subseteq Procs /\ today' \in 1..MaxDay /\ today <= today'
    BY <1>1 DEF RecordsInv, RecordsType
  <2>4. \A d \in Procs : stage'[d] \in {"thread", "request", "pin", "open", "back"} => skill'[d] \in K!Skills
    BY <1>1, <2>1 DEF RecordsInv, RecordsType
  <2>5. \A d \in Procs : stage[d] = "answered" => stage'[d] = "answered" /\ (d \in delivered' <=> d \in delivered)
    BY <1>1, <2>1
  <2>6. QED
    BY <1>1, <1>4, <2>1, <2>2, <2>3, <2>4, <2>5, QuietKeeps
<1>5. K!log(c, s) \/ K!notify(c, s) \/ K!check(c, s)
  BY DEF K!execute
<1>6. CASE K!log(c, s)
  BY <1>3, <1>6 DEF K!log
<1>7. CASE K!notify(c, s)
  BY <1>3, <1>4, <1>7 DEF K!notify, K!Unsent
<1>8. CASE K!check(c, s)
  BY <1>4, <1>8 DEF K!check
<1>9. QED
  BY <1>5, <1>6, <1>7, <1>8

\* A call under way moves on, or comes back with what became of its message.
LEMMA MoveKeeps ==
  ASSUME RecordsInv, NEW c \in Procs, NEW n \in Stages \ {"new", "thread", "request"},
         stage[c] \in {"thread", "request", "pin", "open"},
         stage' = [stage EXCEPT ![c] = n], outcome' \in [Procs -> Outcomes],
         \A d \in Procs : d # c => outcome'[d] = outcome[d],
         delivered' \in {delivered, delivered \cup {c}},
         delivered' # delivered => n = "back", n = "back" /\ outcome'[c] = "sent" => c \in delivered',
         UNCHANGED <<file, kept, skill, today>>
  PROVE  RecordsInv'
<1>1. stage' \in [Procs -> Stages] /\ stage'[c] = n /\ \A d \in Procs : d # c => stage'[d] = stage[d]
  BY DEF RecordsInv, RecordsType
<1>2. c \notin delivered /\ delivered \subseteq Procs
  BY DEF RecordsInv, RecordsType, ArrivedInv
<1>3. \A d \in Procs : d # c => (d \in delivered' <=> d \in delivered)
  OBVIOUS
<1>4. ArrivedInv'
  <2>1. \A d \in delivered' : stage'[d] \in {"back", "answered", "raised"}
    BY <1>1, <1>2, <1>3 DEF RecordsInv, ArrivedInv
  <2>2. \A d \in Procs : stage'[d] = "back" /\ outcome'[d] = "sent" => d \in delivered'
    BY <1>1, <1>3 DEF RecordsInv, ArrivedInv
  <2>3. QED
    BY <2>1, <2>2 DEF ArrivedInv
<1>5. delivered' \subseteq Procs /\ today' \in 1..MaxDay /\ today <= today' /\ DOMAIN skill' = Procs
  BY <1>2 DEF RecordsInv, RecordsType
<1>6. \A d \in Procs : stage'[d] \in {"thread", "request", "pin", "open", "back"} => skill'[d] \in K!Skills
  BY <1>1 DEF RecordsInv, RecordsType
<1>7. \A d \in Procs : stage[d] = "answered" => stage'[d] = "answered" /\ (d \in delivered' <=> d \in delivered)
  BY <1>1, <1>3
<1>8. QED
  BY <1>1, <1>4, <1>5, <1>6, <1>7, QuietKeeps

\* Every step of the skills keeps RecordsInv.
LEMMA StepRecordsInv == Bounds /\ RecordsInv /\ [K!Next]_K!vars => RecordsInv'
<1> SUFFICES ASSUME Bounds, RecordsInv, [K!Next]_K!vars PROVE RecordsInv'
  OBVIOUS
<1>1. /\ stage \in [Procs -> Stages] /\ outcome \in [Procs -> Outcomes] /\ delivered \subseteq Procs
      /\ today \in 1..MaxDay /\ DOMAIN skill = Procs
      /\ \A c \in Procs : stage[c] \in {"thread", "request", "pin", "open", "back"} => skill[c] \in K!Skills
  BY DEF RecordsInv, RecordsType
<1>2. ASSUME UNCHANGED <<file, kept, stage, outcome, delivered, skill>>, today' \in 1..MaxDay, today <= today'
      PROVE  RecordsInv'
  <2>1. ArrivedInv'
    BY <1>2 DEF RecordsInv, ArrivedInv
  <2>2. QED
    BY <1>1, <1>2, <2>1, QuietKeeps
<1>3. CASE K!Configure
  <2>1. UNCHANGED <<file, kept, stage, outcome, delivered, skill, today>>
    BY <1>3 DEF K!Configure
  <2>2. QED
    BY <1>1, <1>2, <2>1
<1>4. CASE K!NewDay
  <2>1. UNCHANGED <<file, kept, stage, outcome, delivered, skill>> /\ today < MaxDay /\ today' = today + 1
    BY <1>4 DEF K!NewDay, K!http
  <2>2. today' \in 1..MaxDay /\ today <= today'
    BY <1>1, <2>1 DEF Bounds
  <2>3. QED
    BY <1>2, <2>1, <2>2
<1>5. CASE K!Die
  <2>1. /\ UNCHANGED <<file, kept, outcome, delivered, skill, today>>
        /\ stage' = [c \in Procs |-> IF stage[c] \in {"new", "answered"} THEN stage[c] ELSE "raised"]
    BY <1>5 DEF K!Die
  <2>2. stage' \in [Procs -> Stages] /\ \A c \in Procs : stage'[c] \in {"new", "answered", "raised"}
                                          /\ (stage[c] \in {"new", "answered"} => stage'[c] = stage[c])
                                          /\ (stage[c] \notin {"new", "answered"} => stage'[c] = "raised")
    BY <1>1, <2>1 DEF Stages
  <2>3. ArrivedInv'
    BY <1>1, <2>1, <2>2 DEF RecordsInv, ArrivedInv
  <2>4. QED
    BY <1>1, <2>1, <2>2, <2>3, QuietKeeps
<1>6. ASSUME NEW c \in Procs, K!request(c) PROVE RecordsInv'
  <2>1. /\ stage[c] \in {"thread", "request"} /\ stage' = [stage EXCEPT ![c] = "pin"]
        /\ UNCHANGED <<file, kept, outcome, delivered, skill, today>>
    BY <1>6 DEF K!request
  <2>2. "pin" \in Stages \ {"new", "thread", "request"}
    BY DEF Stages
  <2>3. QED
    BY <1>1, <2>1, <2>2, MoveKeeps
<1>7. ASSUME NEW c \in Procs, K!refuse(c) PROVE RecordsInv'
  <2>1. /\ stage[c] \in {"thread", "request"} /\ stage' = [stage EXCEPT ![c] = "back"]
        /\ outcome' = [outcome EXCEPT ![c] = "error"] /\ UNCHANGED <<file, kept, delivered, skill, today>>
    BY <1>7 DEF K!refuse, K!http
  <2>2. /\ outcome' \in [Procs -> Outcomes] /\ outcome'[c] = "error"
        /\ \A d \in Procs : d # c => outcome'[d] = outcome[d]
    BY <1>1, <2>1 DEF Outcomes
  <2>3. "back" \in Stages \ {"new", "thread", "request"}
    BY DEF Stages
  <2>4. QED
    BY <1>1, <2>1, <2>2, <2>3, MoveKeeps
<1>8. ASSUME NEW c \in Procs, K!Pin(c) PROVE RecordsInv'
  <2>1. /\ stage[c] = "pin" /\ stage' = [stage EXCEPT ![c] = "open"]
        /\ UNCHANGED <<file, kept, outcome, delivered, skill, today>>
    BY <1>8 DEF K!Pin
  <2>2. "open" \in Stages \ {"new", "thread", "request"}
    BY DEF Stages
  <2>3. QED
    BY <1>1, <2>1, <2>2, MoveKeeps
<1>9. ASSUME NEW c \in Procs, K!Unpin(c) PROVE RecordsInv'
  <2>1. stage[c] = "open" /\ UNCHANGED <<file, kept, skill, today>>
    BY <1>9 DEF K!Unpin
  <2>2. "back" \in Stages \ {"new", "thread", "request"} /\ "raised" \in Stages \ {"new", "thread", "request"}
    BY DEF Stages
  <2>3. ASSUME NEW w \in {"ok", "down", "error"}, stage' = [stage EXCEPT ![c] = "back"],
               outcome' = [outcome EXCEPT ![c] = w], UNCHANGED delivered
        PROVE  RecordsInv'
    <3>1. outcome' \in [Procs -> Outcomes] /\ outcome'[c] = w /\ \A d \in Procs : d # c => outcome'[d] = outcome[d]
      BY <1>1, <2>3 DEF Outcomes
    <3>2. QED
      BY <1>1, <2>1, <2>2, <2>3, <3>1, MoveKeeps
  <2>4. ASSUME stage' = [stage EXCEPT ![c] = "raised"], UNCHANGED <<outcome, delivered>> PROVE RecordsInv'
    BY <1>1, <2>1, <2>2, <2>4, MoveKeeps
  <2>5. ASSUME stage' = [stage EXCEPT ![c] = "back"], NEW arrived \in BOOLEAN, NEW w \in {"sent", "error"},
               w = "sent" => arrived, outcome' = [outcome EXCEPT ![c] = w],
               delivered' = IF arrived THEN delivered \cup {c} ELSE delivered
        PROVE  RecordsInv'
    <3>1. outcome' \in [Procs -> Outcomes] /\ outcome'[c] = w /\ \A d \in Procs : d # c => outcome'[d] = outcome[d]
      BY <1>1, <2>5 DEF Outcomes
    <3>2. delivered' \in {delivered, delivered \cup {c}} /\ (w = "sent" => c \in delivered')
      BY <2>5
    <3>3. QED
      BY <1>1, <2>1, <2>2, <2>5, <3>1, <3>2, MoveKeeps
  <2>6. CASE K!Fetched(c)
    BY <2>3, <2>4, <2>6 DEF K!Fetched
  <2>7. CASE K!Sent(c)
    BY <2>5, <2>7 DEF K!Sent
  <2>8. QED
    BY <1>9, <2>6, <2>7 DEF K!Unpin
<1>10. ASSUME NEW c \in Procs, K!Back(c) PROVE RecordsInv'
  <2>1. /\ stage[c] = "back" /\ K!Record(c, skill[c], outcome[c])
        /\ UNCHANGED <<outcome, delivered, skill, today>>
    BY <1>10 DEF K!Back
  <2>2. skill[c] \in K!Skills /\ outcome[c] \in Words /\ outcome[c] \notin {"local", "unconfigured"}
    BY <1>1, <2>1 DEF Words, Outcomes
  <2>3. outcome[c] = "sent" => c \in delivered
    BY <2>1 DEF RecordsInv, ArrivedInv
  <2>4. PICK s \in K!Skills : s = skill[c]
    BY <2>2
  <2>5. PICK w \in Words : w = outcome[c]
    BY <2>2
  <2>6. QED
    BY <1>1, <2>1, <2>2, <2>3, <2>4, <2>5, RecordKeeps
<1>11. CASE UNCHANGED K!vars
  <2>1. UNCHANGED <<file, kept, stage, outcome, delivered, skill, today>>
    BY <1>11 DEF K!vars
  <2>2. QED
    BY <1>1, <1>2, <2>1
<1>12. QED
  BY <1>3, <1>4, <1>5, <1>6, <1>7, <1>8, <1>9, <1>10, <1>11, ExecuteKeeps DEF K!Next

\* A step of the run moves the skills, or leaves them as they are.
LEMMA RunsRecords ==
  ASSUME [MCNext]_<<part, vars, consent, sandbox, relay, database, settings, focus, records>>,
         part' = "records"
  PROVE  part = "records" /\ [K!Next]_K!vars
BY DEF MCNext, records, K!vars

\* What is complete is what the property says.
LEMMA CompleteIsKept ==
  ASSUME Bounds, RecordsInv PROVE K!AnsweredIsKept
<1> DEFINE AsSaid(s, q, k, days) ==
      IF s \in Trackers
        THEN {q[i] : i \in DOMAIN q} =
               {r \in {k[i] : i \in 1..Len(k)} : r.day \in {d \in days : K!Cardinality(days \cap (d + 1)..MaxDay) < Cap}}
        ELSE /\ Len(k) > 0 => q[Len(q)] = k[Len(k)]
             /\ \A i \in 1..Len(k) : i > Len(k) - Cap => \E j \in DOMAIN q : q[j] = k[i] /\ Len(q) - j = Len(k) - i
<1>1. SUFFICES ASSUME NEW s \in K!Skills
               PROVE  AsSaid(s, file[s].rows, kept[s], {kept[s][i].day : i \in DOMAIN kept[s]})
  BY Zenon DEF K!AnsweredIsKept, K!Shown
<1> HIDE DEF AsSaid
<1>2. SUFFICES ASSUME NEW q, NEW k, q = file[s].rows, k = kept[s] PROVE AsSaid(s, q, k, {k[i].day : i \in DOMAIN k})
  BY Zenon
<1> USE DEF AsSaid
<1>3. q \in Seq(Row) /\ k \in Seq(Row) /\ Complete(s, q, k) /\ \A u \in Rng(k) : u.day <= today
  BY <1>2 DEF RecordsInv, RecordsType, FilesInv, DatedInv
<1>4. DOMAIN q = 1..Len(q) /\ DOMAIN k = 1..Len(k) /\ Len(q) \in Nat /\ Len(k) \in Nat /\ Cap \in Nat /\ Cap > 0
  BY <1>3 DEF Bounds
<1>5. CASE s \in Trackers
  <2>1. {k[i].day : i \in DOMAIN k} = Days(Rng(k))
    BY <1>4 DEF Days, Rng
  <2>2. Rng(k) \subseteq Row
    BY <1>3, FiniteRows
  <2>3. \A u \in Rng(k) : After(Rng(k), u.day) = Days(Rng(k)) \cap (u.day + 1)..MaxDay
    <3>1. \A u \in Rng(k) : u.day \in Nat /\ u.day <= MaxDay
      <4>1. today \in 1..MaxDay /\ MaxDay \in Nat
        BY DEF RecordsInv, RecordsType, Bounds
      <4>2. \A u \in Rng(k) : u.day \in Nat
        BY <2>2 DEF Row
      <4>3. QED
        BY <1>3, <4>1, <4>2
    <3>2. \A d \in Days(Rng(k)) : d \in Nat /\ d <= MaxDay
      BY <3>1 DEF Days
    <3>3. \A u \in Rng(k) : \A d \in Days(Rng(k)) : d > u.day <=> d \in (u.day + 1)..MaxDay
      BY <3>1, <3>2 DEF Bounds
    <3>4. QED
      BY <3>3 DEF After
  <2>4. \A u \in Rng(k) : K!Cardinality(Days(Rng(k)) \cap (u.day + 1)..MaxDay) = Cardinality(After(Rng(k), u.day))
    BY <2>3, SameCount
  <2>5. \A u \in Rng(k) : u.day \in Days(Rng(k))
    BY DEF Days
  <2>6. \A u \in Rng(k) :
          u.day \in {d \in Days(Rng(k)) : K!Cardinality(Days(Rng(k)) \cap (d + 1)..MaxDay) < Cap}
            <=> u \in Newest(Rng(k))
    BY <2>4, <2>5 DEF Newest
  <2>7. {u \in Rng(k) : u.day \in {d \in Days(Rng(k)) : K!Cardinality(Days(Rng(k)) \cap (d + 1)..MaxDay) < Cap}}
          = Newest(Rng(k))
    BY <2>6 DEF Newest
  <2>8. {q[i] : i \in DOMAIN q} = Newest(Rng(k)) /\ {k[i] : i \in 1..Len(k)} = Rng(k)
    BY <1>3, <1>4, <1>5 DEF Complete, Rng
  <2>9. AsSaid(s, q, k, Days(Rng(k)))
    BY <1>5, <2>7, <2>8
  <2>10. QED
    BY <2>1, <2>9
<1>6. CASE s \notin Trackers
  <2>1. /\ Len(q) = (IF Len(k) <= Cap THEN Len(k) ELSE Cap)
        /\ \A i \in 1..Len(q) : q[i] = k[Len(k) - Len(q) + i]
    BY <1>3, <1>6 DEF Complete
  <2>2. Len(k) > 0 => q[Len(q)] = k[Len(k)]
    <3>1. Len(k) > 0 => Len(q) \in 1..Len(q) /\ Len(k) - Len(q) + Len(q) = Len(k)
      BY <1>4, <2>1
    <3>2. QED
      BY <2>1, <3>1
  <2>3. \A i \in 1..Len(k) : i > Len(k) - Cap => \E j \in DOMAIN q : q[j] = k[i] /\ Len(q) - j = Len(k) - i
    <3>1. SUFFICES ASSUME NEW i \in 1..Len(k), i > Len(k) - Cap
                   PROVE  \E j \in DOMAIN q : q[j] = k[i] /\ Len(q) - j = Len(k) - i
      OBVIOUS
    <3>2. PICK j : j = i - Len(k) + Len(q)
      OBVIOUS
    <3>3. j \in 1..Len(q) /\ Len(k) - Len(q) + j = i /\ Len(q) - j = Len(k) - i
      <4>1. i \in Int /\ 1 <= i /\ i <= Len(k) /\ i > Len(k) - Cap /\ j \in Int
        BY <1>4, <3>1, <3>2
      <4>2. CASE Len(k) <= Cap
        BY <1>4, <2>1, <3>2, <4>1, <4>2
      <4>3. CASE ~(Len(k) <= Cap)
        BY <1>4, <2>1, <3>2, <4>1, <4>3
      <4>4. QED
        BY <4>2, <4>3
    <3>4. QED
      BY <1>4, <2>1, <3>3
  <2>4. QED
    BY <1>6, <2>2, <2>3
<1>7. QED
  BY <1>5, <1>6

\* What the skills have on file is complete, and true: the last records of a list
\* and all of the newest days of a tracker, for any calls, threads, failing writes
\* and restarts; a message that is recorded as sent has arrived, one that is
\* recorded as kept on the device or unsent has not (kernel/skill_templates).
THEOREM RecordsStayTrue ==
  ASSUME Bounds
  PROVE  /\ K!Spec => []K!RecordsAreTrue
         /\ MCSpec => []RecordsAreTrue
<1>1. RecordsInv => K!RecordsAreTrue
  <2> SUFFICES ASSUME RecordsInv PROVE K!RecordsAreTrue
    OBVIOUS
  <2>1. K!SentIsDelivered
    <3>1. SUFFICES ASSUME NEW s \in K!Skills, NEW i \in DOMAIN file[s].rows
                   PROVE  /\ file[s].rows[i].status = "sent" => file[s].rows[i].call \in delivered
                          /\ file[s].rows[i].status \in {"local", "unconfigured"}
                               => file[s].rows[i].call \notin delivered
      BY DEF K!SentIsDelivered, K!Shown
    <3>2. DOMAIN file[s].rows = 1..Len(file[s].rows)
      BY DEF RecordsInv, RecordsType
    <3>3. file[s].rows[i] \in Rng(file[s].rows)
      BY <3>1, <3>2 DEF Rng
    <3>4. QED
      BY <3>3 DEF RecordsInv, TruthInv
  <2>2. QED
    BY <2>1, CompleteIsKept DEF K!RecordsAreTrue
<1>2. Bounds /\ K!Init => RecordsInv
  BY InitRecordsInv
<1>3. K!Spec => []K!RecordsAreTrue
  <2>1. RecordsInv /\ [K!Next]_K!vars => RecordsInv'
    BY StepRecordsInv
  <2>2. K!Init => RecordsInv
    BY <1>2
  <2>3. QED
    BY <1>1, <2>1, <2>2, PTL DEF K!Spec
<1>4. MCSpec => []RecordsAreTrue
  <2>1. MCInit => (part = "records" => RecordsInv)
    BY <1>2 DEF MCInit
  <2>2. /\ part = "records" => RecordsInv
        /\ [MCNext]_<<part, vars, consent, sandbox, relay, database, settings, focus, records>>
        => (part = "records" => RecordsInv)'
    BY RunsRecords, StepRecordsInv
  <2>3. (part = "records" => RecordsInv) => RecordsAreTrue
    BY <1>1 DEF RecordsAreTrue
  <2>4. QED
    BY <2>1, <2>2, <2>3, PTL DEF MCSpec
<1>5. QED
  BY <1>3, <1>4

=============================================================================
