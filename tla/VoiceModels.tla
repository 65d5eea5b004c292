----------------------------- MODULE VoiceModels -----------------------------
(***************************************************************************)
(* How the models of the voice get onto the disk and into memory:          *)
(* POST /models/download (kernel/routers/voice.py, model_downloader.py),   *)
(* each request a task of its own that nothing keeps from running beside   *)
(* another, and the Whisper model that POST /voice/transcribe and the      *)
(* start-up load on first use (transcribe_helper.py, stt.py).              *)
(* A file is an inode, which its names may leave while it is written.      *)
(***************************************************************************)
EXTENDS Integers, Sequences, FiniteSets, Functions

CONSTANTS
  Tasks,        \* download requests
  Models,       \* REQUIRED_MODELS
  Blocks,       \* the number of blocks of a model file
  Callers       \* requests for a transcription

VARIABLES
  target,       \* target[m]: the inode under the model's name, or 0
  temp,         \* temp[m]: the inode under its .tmp name, or 0
  content,      \* content[f]: the blocks inode f holds
  pc,           \* pc[t]: "new", "next", "open" or "over"
  missing,      \* missing[t]: the models of the task, at the time of the request
  done,         \* done[t]: how many of them it is through with
  file,         \* file[t]: the inode it has open
  pos,          \* pos[t]: the next block
  event,        \* event[t]: the event of the task, "none", "complete" or "failed"
  disturbed,    \* history: models two tasks wrote at once, or whose answer broke off
  stt,          \* app.state.stt: "none", "model" or "empty" (its load failed)
  lock,         \* the holder of _stt_lock, or "nobody"
  call          \* call[c]: "new", "wait", "load", "use", "text", "silence" or "error"

files == <<target, temp, content>>
tasks == <<pc, missing, done, file, pos, event, disturbed>>
whisper == <<stt, lock, call>>
vars == <<files, tasks, whisper>>

Inodes == 1..(2 * Cardinality(Models) + Cardinality(Tasks) + 1)

Init ==
  /\ target \in [Models -> {0}] /\ temp = [m \in Models |-> 0]
  /\ content = [f \in Inodes |-> {}]
  /\ pc = [t \in Tasks |-> "new"] /\ missing = [t \in Tasks |-> <<>>]
  /\ done = [t \in Tasks |-> 0] /\ file = [t \in Tasks |-> 0] /\ pos = [t \in Tasks |-> 1]
  /\ event = [t \in Tasks |-> "none"] /\ disturbed = {}
  /\ stt = "none" /\ lock = "nobody" /\ call = [c \in Callers |-> "new"]

-----------------------------------------------------------------------------
\* get_missing_models: a model is there when its file is.
get_missing_models == {m \in Models : target[m] = 0}

\* The order of REQUIRED_MODELS.
Ordered == CHOOSE s \in [1..Cardinality(Models) -> Models] : IsInjective(s)

InOrder(s) ==
  \A i, j \in DOMAIN s : i < j => \E k, l \in DOMAIN Ordered : k < l /\ Ordered[k] = s[i] /\ Ordered[l] = s[j]

\* POST /models/download.
download_models_api(t) ==
  /\ pc[t] = "new" /\ get_missing_models # {}
  /\ \E n \in 1..Cardinality(Models) : \E s \in Surjection(1..n, get_missing_models) :
       InOrder(s) /\ missing' = [missing EXCEPT ![t] = s]
  /\ pc' = [pc EXCEPT ![t] = "next"]
  /\ UNCHANGED <<files, done, file, pos, event, disturbed, whisper>>

Model(t) == missing[t][done[t] + 1]
Writers(m) == {t \in Tasks : file[t] # 0 /\ Model(t) = m}
InUse == {target[m] : m \in Models} \cup {temp[m] : m \in Models} \cup {file[t] : t \in Tasks}

\* The first inode that nothing uses.
Fresh == {f \in Inodes : f \notin InUse /\ \A g \in 1..(f - 1) : g \in InUse}

\* Mutant: the file is written under its own name.
open_in_place(t) ==
  /\ pc[t] = "next" /\ done[t] < Len(missing[t])
  /\ LET m == Model(t) IN
     \E f \in IF target[m] = 0 THEN Fresh ELSE {target[m]} :
     /\ target' = [target EXCEPT ![m] = f] /\ temp' = [temp EXCEPT ![m] = f]
     /\ content' = [content EXCEPT ![f] = {}]
     /\ file' = [file EXCEPT ![t] = f]
     /\ disturbed' = IF Writers(m) # {} THEN disturbed \cup {m}
                     ELSE IF target[m] = 0 THEN disturbed \ {m} ELSE disturbed
  /\ pos' = [pos EXCEPT ![t] = 1] /\ pc' = [pc EXCEPT ![t] = "open"]
  /\ UNCHANGED <<missing, done, event, whisper>>

\* download_model: open(temp, "wb") empties the file that is there.
open_temp(t) ==
  /\ pc[t] = "next" /\ done[t] < Len(missing[t])
  /\ LET m == Model(t) IN
     \E f \in IF temp[m] = 0 THEN Fresh ELSE {temp[m]} :
     /\ temp' = [temp EXCEPT ![m] = f] /\ UNCHANGED target
     /\ content' = [content EXCEPT ![f] = {}]
     /\ file' = [file EXCEPT ![t] = f]
     /\ disturbed' = IF Writers(m) # {} THEN disturbed \cup {m}
                     ELSE IF target[m] = 0 THEN disturbed \ {m} ELSE disturbed
  /\ pos' = [pos EXCEPT ![t] = 1] /\ pc' = [pc EXCEPT ![t] = "open"]
  /\ UNCHANGED <<missing, done, event, whisper>>

read_block(t) ==
  /\ pc[t] = "open" /\ pos[t] <= Blocks
  /\ content' = [content EXCEPT ![file[t]] = @ \cup {pos[t]}]
  /\ pos' = [pos EXCEPT ![t] = @ + 1]
  /\ UNCHANGED <<target, temp, pc, missing, done, file, event, disturbed, whisper>>

Report(t, what) == event' = [event EXCEPT ![t] = what] /\ pc' = [pc EXCEPT ![t] = "over"]
Close(t) == file' = [file EXCEPT ![t] = 0]

\* A download that returned False ends the task.
soft_fail(t) == Report(t, "failed") /\ UNCHANGED done

\* The end of the answer, or the connection's, which looks the same: the rename
\* to the model's name, which fails when another task has done it.
rename(t) ==
  /\ pc[t] = "open" /\ Close(t)
  /\ LET m == Model(t) IN
     IF temp[m] # 0
     THEN /\ target' = [target EXCEPT ![m] = temp[m]] /\ temp' = [temp EXCEPT ![m] = 0]
          /\ done' = [done EXCEPT ![t] = @ + 1] /\ pc' = [pc EXCEPT ![t] = "next"]
          /\ UNCHANGED event
     ELSE soft_fail(t) /\ UNCHANGED <<target, temp>>
  /\ disturbed' = IF pos[t] <= Blocks THEN disturbed \cup {Model(t)} ELSE disturbed
  /\ UNCHANGED <<content, missing, pos, whisper>>

\* Any exception: the temporary file goes, if it can be removed (else the task
\* itself fails, which _on_download_done reports the same way).
download_fails(t) ==
  /\ pc[t] \in {"next", "open"} /\ done[t] < Len(missing[t]) /\ Close(t)
  /\ \/ temp' = [temp EXCEPT ![Model(t)] = 0] /\ soft_fail(t)
     \/ UNCHANGED <<temp, done>> /\ Report(t, "failed")
  /\ UNCHANGED <<target, content, missing, pos, disturbed, whisper>>

complete(t) ==
  /\ pc[t] = "next" /\ done[t] = Len(missing[t]) /\ Report(t, "complete")
  /\ UNCHANGED <<files, missing, done, file, pos, disturbed, whisper>>

-----------------------------------------------------------------------------
\* get_or_create_stt: the cached model, or the lock and a second look.
get_or_create_stt(c) ==
  /\ \/ /\ call[c] = "new" /\ UNCHANGED lock
        /\ call' = [call EXCEPT ![c] = IF stt # "none" THEN "use" ELSE "wait"]
     \/ /\ call[c] = "wait" /\ lock = "nobody"
        /\ IF stt # "none" THEN call' = [call EXCEPT ![c] = "use"] /\ UNCHANGED lock
           ELSE call' = [call EXCEPT ![c] = "load"] /\ lock' = c
  /\ UNCHANGED <<files, tasks, stt>>

\* Mutant: the cache is set before the load, as _ensure_stt of the worker does.
load_cached(c) ==
  /\ call[c] = "load" /\ lock' = "nobody"
  /\ \/ stt' = "model" /\ call' = [call EXCEPT ![c] = "use"]
     \/ stt' = "empty" /\ call' = [call EXCEPT ![c] = "error"]
  /\ UNCHANGED <<files, tasks>>

\* load() swallows its exception: is_loaded decides, before anything is cached.
load(c) ==
  /\ call[c] = "load" /\ lock' = "nobody"
  /\ \/ stt' = "model" /\ call' = [call EXCEPT ![c] = "use"]
     \/ UNCHANGED stt /\ call' = [call EXCEPT ![c] = "error"]
  /\ UNCHANGED <<files, tasks>>

\* SpeechToText.transcribe: without a model, an empty text.
transcribe(c) ==
  /\ call[c] = "use"
  /\ call' = [call EXCEPT ![c] = IF stt = "model" THEN "text" ELSE "silence"]
  /\ UNCHANGED <<files, tasks, stt, lock>>
transcribe_fails(c) ==
  /\ call[c] = "use" /\ stt = "model" /\ call' = [call EXCEPT ![c] = "error"]
  /\ UNCHANGED <<files, tasks, stt, lock>>

-----------------------------------------------------------------------------
\* The kernel starts again; what it had open is closed, the files stay.
Restart ==
  /\ pc' = [t \in Tasks |-> IF pc[t] = "new" THEN "new" ELSE "over"]
  /\ file' = [t \in Tasks |-> 0]
  /\ stt' = "none" /\ lock' = "nobody"
  /\ call' = [c \in Callers |-> IF call[c] \in {"wait", "load", "use"} THEN "error" ELSE call[c]]
  /\ UNCHANGED <<files, missing, done, pos, event, disturbed>>

Next ==
  \/ \E t \in Tasks :
       \/ download_models_api(t) \/ open_temp(t) \/ read_block(t)
       \/ rename(t) \/ download_fails(t) \/ complete(t)
  \/ \E c \in Callers :
       get_or_create_stt(c) \/ load(c) \/ transcribe(c) \/ transcribe_fails(c)
  \/ Restart

Spec == Init /\ [][Next]_vars

-----------------------------------------------------------------------------
\* A model under its name is whole, whatever fails or stops, unless two tasks
\* wrote it at once or the server broke off (download_model's temporary file).
WholeUnlessDisturbed ==
  \A m \in Models \ disturbed : target[m] # 0 => content[target[m]] = 1..Blocks

\* Nobody is answered with an empty text for want of a model, which is the
\* failure get_or_create_stt says it is there to avoid.
NoSilentTranscript == \A c \in Callers : call[c] # "silence"
=============================================================================
