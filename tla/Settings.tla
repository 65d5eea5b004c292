------------------------------ MODULE Settings -------------------------------
(***************************************************************************)
(* The configuration file: ConfigManager (kernel/config_manager.py) under  *)
(* PATCH /config (routers/system.py), with a user who edits the file by    *)
(* hand while the kernel runs, failing writes, and crashes in between.     *)
(* A document is a number; a new one is a number not used before.          *)
(***************************************************************************)
EXTENDS Integers

CONSTANTS
  Defaults,     \* the document of a missing or unreadable file
  MaxDocuments  \* bound on the documents

VARIABLES
  file,         \* the document in config.yaml
  bak,          \* the document in config.yaml.bak, Torn, or Defaults when there is none
  memory,       \* _config
  pc,           \* save(): "idle", "backup", "replace" or "reload"
  new,          \* the document being saved
  used,         \* the documents so far
  raced         \* history: the file was edited after the backup of the running save

vars == <<file, bak, memory, pc, new, used, raced>>

Torn == -1

Init ==
  /\ file = Defaults /\ bak = Defaults /\ memory = Defaults
  /\ pc = "idle" /\ new = Defaults /\ used = 0 /\ raced = FALSE

load == memory' = file

\* The user saves the file from his editor, which replaces it.
HandEdit ==
  /\ used < MaxDocuments /\ used' = used + 1 /\ file' = used'
  /\ raced' = (raced \/ pc = "replace")
  /\ UNCHANGED <<bak, memory, pc, new>>

\* patch_config: a refused patch changes nothing; one that is valid is saved.
patch_config ==
  /\ pc = "idle" /\ used < MaxDocuments
  /\ used' = used + 1 /\ new' = used' /\ pc' = "backup" /\ raced' = FALSE
  /\ UNCHANGED <<file, bak, memory>>

\* Mutant: what is backed up is the document in memory.
write_bak_of_memory ==
  /\ pc = "backup"
  /\ \/ bak' = memory /\ pc' = "replace"
     \/ bak' = Torn /\ pc' = "idle"
  /\ UNCHANGED <<file, memory, new, used, raced>>

\* The backup is a copy of the file, written in place, which may break off.
write_bak ==
  /\ pc = "backup"
  /\ \/ bak' = file /\ pc' = "replace"
     \/ bak' = Torn /\ pc' = "idle"
  /\ UNCHANGED <<file, memory, new, used, raced>>

\* The temporary file is whole before it takes the name.
replace ==
  /\ pc = "replace" /\ file' = new /\ pc' = "reload"
  /\ UNCHANGED <<bak, memory, new, used, raced>>
reload == pc = "reload" /\ load /\ pc' = "idle" /\ UNCHANGED <<file, bak, new, used, raced>>

\* Any write raises: the request fails, the temporary file goes.
save_fails ==
  /\ pc \in {"backup", "replace"} /\ pc' = "idle"
  /\ UNCHANGED <<file, bak, memory, new, used, raced>>

\* The kernel stops anywhere and starts again.
Crash == load /\ pc' = "idle" /\ UNCHANGED <<file, bak, new, used, raced>>

Next ==
  HandEdit \/ patch_config \/ write_bak \/ replace \/ reload \/ save_fails \/ Crash

Spec == Init /\ [][Next]_vars

-----------------------------------------------------------------------------
\* A save never replaces a document that is not in the backup (save: "Hand-edits
\* are recoverable from the .bak sibling"), unless it was edited between the two.
ReplacedIsInBak == [][replace /\ ~raced => bak = file]_vars
=============================================================================
