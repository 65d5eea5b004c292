---------------------------- MODULE SkillInstall ----------------------------
(***************************************************************************)
(* The directories of one skill while versions of it are installed over    *)
(* one another and uninstalled: install_from_catalog / install_from_bundle *)
(* and _deploy_atomic.  The handlers call them on the event loop without   *)
(* an await, so there is one installer at a time; it may fail at every     *)
(* file operation, and the kernel may die between two of them.             *)
(***************************************************************************)
EXTENDS Naturals

CONSTANTS MaxInstalls,  \* bound on the installs of one behaviour
          CrossDevice,  \* the staging directory is on another file system
          Faults        \* which of AllFaults happen

AllFaults == {"move", "remove", "crash"}

VARIABLES final,     \* the skill's directory: a version, whole or in part
          backup,    \* its ".old" sibling
          staged,    \* the extracted download
          pc,        \* the file operation that is next
          installs,  \* installs begun so far: also the version they bring
          previous,  \* history: final when the install began
          result,    \* history: how the last operation ended
          unremoved  \* history: a removal of the last operation failed

dirs == <<final, backup, staged>>
vars == <<final, backup, staged, pc, installs, previous, result, unremoved>>

None     == [version |-> 0, whole |-> FALSE]
Whole(v) == [version |-> v, whole |-> TRUE]
Part(d)  == [d EXCEPT !.whole = FALSE]

Exists(d) == d # None

Init == /\ final = None /\ backup = None /\ staged = None
        /\ pc = "idle"
        /\ installs = 0
        /\ previous = None
        /\ result = "none"
        /\ unremoved = FALSE

\* The operation ends; TemporaryDirectory removes the staging directory.
End(how) == pc' = "idle" /\ staged' = None /\ result' = how

-----------------------------------------------------------------------------
Install(overwrite) ==
  /\ pc = "idle"
  /\ installs < MaxInstalls
  /\ installs' = installs + 1
  /\ previous' = final
  /\ IF Exists(final) /\ ~overwrite
     THEN End("refused")
     ELSE pc' = "staging" /\ UNCHANGED <<staged, result>>
  /\ unremoved' = FALSE
  /\ UNCHANGED <<final, backup>>

\* Download, manifest and safety check: they end the install or stage a version.
Stage ==
  /\ pc = "staging"
  /\ \/ End("failed")
     \/ /\ staged' = Whole(installs)
        /\ pc' = IF ~Exists(final) THEN "moving_fresh"
                 ELSE IF Exists(backup) THEN "removing_stale"
                 ELSE "backing_up"
        /\ UNCHANGED result
  /\ UNCHANGED <<final, backup, installs, previous, unremoved>>

\* A backup left by an earlier crash goes first.
RemoveStale ==
  /\ pc = "removing_stale"
  /\ backup' = None
  /\ pc' = "backing_up"
  /\ UNCHANGED <<final, staged, installs, previous, result, unremoved>>

RemoveStaleFails ==
  /\ "remove" \in Faults
  /\ pc = "removing_stale"
  /\ backup' = Part(backup)
  /\ End("failed")
  /\ UNCHANGED <<final, installs, previous, unremoved>>

\* Mutant of BackUp: the old version is removed first.
BackUpNot ==
  /\ pc = "backing_up"
  /\ final' = None
  /\ pc' = "moving"
  /\ UNCHANGED <<backup, staged, installs, previous, result, unremoved>>

BackUp ==
  /\ pc = "backing_up"
  /\ backup' = final
  /\ final' = None
  /\ pc' = "moving"
  /\ UNCHANGED <<staged, installs, previous, result, unremoved>>

BackUpFails ==
  /\ "move" \in Faults
  /\ pc = "backing_up"
  /\ End("failed")
  /\ UNCHANGED <<final, backup, installs, previous, unremoved>>

\* shutil.move renames; across file systems it copies, which takes its time.
CopyBegins ==
  /\ pc \in {"moving", "moving_fresh"}
  /\ CrossDevice
  /\ final = None
  /\ final' = Part(staged)
  /\ UNCHANGED <<backup, staged, pc, installs, previous, result, unremoved>>

Move ==
  /\ pc \in {"moving", "moving_fresh"}
  /\ CrossDevice => final # None
  /\ final' = staged
  /\ IF pc = "moving" THEN pc' = "removing_backup" /\ staged' = None /\ UNCHANGED result
     ELSE End("ok")
  /\ UNCHANGED <<backup, installs, previous, unremoved>>

\* The copy stops half-way, or is complete and the staged one cannot be removed.
MoveFails ==
  /\ "move" \in Faults
  /\ pc \in {"moving", "moving_fresh"}
  /\ \/ UNCHANGED final
     \/ Exists(final) /\ final' = staged
  /\ IF pc = "moving" THEN pc' = "rolling_back" /\ UNCHANGED <<staged, result>>
     ELSE End("failed")
  /\ UNCHANGED <<backup, installs, previous, unremoved>>

RemoveBackup ==
  /\ pc = "removing_backup"
  /\ backup' = None
  /\ End("ok")
  /\ UNCHANGED <<final, installs, previous, unremoved>>

\* A file of the backup cannot be removed: that too rolls back.
RemoveBackupFails ==
  /\ "remove" \in Faults
  /\ pc = "removing_backup"
  /\ backup' = Part(backup)
  /\ pc' = "rolling_back"
  /\ unremoved' = TRUE
  /\ UNCHANGED <<final, staged, installs, previous, result>>

RollBack ==
  /\ pc = "rolling_back"
  /\ final' = backup
  /\ backup' = None
  /\ End("failed")
  /\ UNCHANGED <<installs, previous, unremoved>>

\* The part that was moved cannot be removed, or the backup not renamed.
RollBackFails ==
  /\ "remove" \in Faults
  /\ pc = "rolling_back"
  /\ final' \in {Part(final), None}
  /\ End("failed")
  /\ unremoved' = TRUE
  /\ UNCHANGED <<backup, installs, previous>>

Uninstall ==
  /\ pc = "idle"
  /\ Exists(final)
  /\ previous' = final
  /\ \/ final' = None /\ result' = "uninstalled" /\ unremoved' = FALSE
     \/ /\ "remove" \in Faults
        /\ final' = Part(final)
        /\ result' = "uninstall_failed"
        /\ unremoved' = TRUE
  /\ UNCHANGED <<backup, staged, pc, installs>>

Crash ==
  /\ "crash" \in Faults
  /\ pc # "idle"
  /\ End("crashed")
  /\ UNCHANGED <<final, backup, installs, previous, unremoved>>

Next == \/ \E overwrite \in BOOLEAN : Install(overwrite)
        \/ Stage
        \/ RemoveStale \/ RemoveStaleFails
        \/ BackUp \/ BackUpFails
        \/ CopyBegins \/ Move \/ MoveFails
        \/ RemoveBackup \/ RemoveBackupFails
        \/ RollBack \/ RollBackFails
        \/ Uninstall
        \/ Crash

Spec == Init /\ [][Next]_vars

-----------------------------------------------------------------------------
(* Properties *)

Dirs == [version : 0..MaxInstalls, whole : BOOLEAN]

\* The values every variable keeps.
TypeOK ==
  /\ final \in Dirs /\ backup \in Dirs /\ staged \in Dirs
  /\ pc \in {"idle", "staging", "moving_fresh", "removing_stale", "backing_up", "moving",
             "removing_backup", "rolling_back"}
  /\ installs \in 0..MaxInstalls
  /\ previous \in Dirs
  /\ unremoved \in BOOLEAN
  /\ result \in {"none", "ok", "refused", "failed", "crashed", "uninstalled",
                 "uninstall_failed"}

\* What was installed when the install began is whole in one of the two
\* directories until the new version is: a crash at any step loses neither.
PreviousOrNewIsWhole ==
  ~unremoved /\ previous.whole /\ result # "uninstalled" =>
    \E d \in {final, backup} : d.whole /\ d.version \in {previous.version, installs}

=============================================================================
