------------------------------ MODULE TtsWorker ------------------------------
(***************************************************************************)
(* The Python worker behind the Rust bridge (kernel/workers/tts_worker.py):*)
(* one thread that reads a line, serves it and writes one line; the models *)
(* it loads on first use; and the wake word's buffer of samples            *)
(* (kernel/voice/wake_word.py).                                            *)
(***************************************************************************)
EXTENDS Integers, SequencesExt

CONSTANTS
  MinSamples,   \* _MIN_SAMPLES, in chunks
  MaxLines      \* bound on the lines sent

VARIABLES
  model,        \* model[m]: "none", "loaded", or "empty" (kept though its load failed)
  buffer,       \* _buffer: the sounds of the chunks that were too short to judge
  reply,        \* the last reply: [id, op, result]
  asked,        \* history: the ids of the requests read, in order
  answered,     \* history: the ids of the replies written, in order
  reported,     \* history: the operations that an error has told have no model
  lines,        \* lines read
  alive

vars == <<model, buffer, reply, asked, answered, reported, lines, alive>>

Loadable == {"f5", "stt", "wake"}
NoId == 0

\* What the bridge writes, with ids that count up; a line that was cut has no
\* id, or does not parse.
Lines == [id : {NoId, Len(asked) + 1}, op : {"ping", "tts_speak", "wake_reset", "unknown"},
          good : {TRUE}, sound : {""}]
    \cup [id : {Len(asked) + 1}, op : {"stt_transcribe", "wake_detect"},
          good : BOOLEAN, sound : {"word", "other"}]

Init ==
  /\ model = [m \in Loadable |-> "none"] /\ buffer = <<>>
  /\ reply = [id |-> NoId, op |-> "", result |-> ""]
  /\ asked = <<>> /\ answered = <<>> /\ reported = {} /\ lines = 0 /\ alive = TRUE

-----------------------------------------------------------------------------
\* _emit: one line to the descriptor that is kept for the bridge.
Reply(line, result) ==
  /\ reply' = [id |-> line.id, op |-> line.op, result |-> result]
  /\ answered' = Append(answered, line.id)
  /\ reported' = IF result = "no model" THEN reported \cup {line.op} ELSE reported

\* _ensure_f5: what failed to load is loaded anew.
_ensure_f5 == model' = [model EXCEPT !["f5"] = "loaded"]

\* _ensure_stt and _ensure_wake_word: state is what the request works with.
_ensure(m, state) ==
  \/ model[m] # "none" /\ state = model[m] /\ UNCHANGED model
  \/ model[m] = "none" /\ state = "loaded" /\ model' = [model EXCEPT ![m] = "loaded"]

\* Mutant: a failed load is not reported.
load_fails_silently(m, line) ==
  /\ model[m] = "none" /\ model' = [model EXCEPT ![m] = "empty"]
  /\ UNCHANGED buffer /\ Reply(line, "silent")

\* The object was kept before its model was loaded: only the first request
\* hears of a failure.
load_fails(m, line) ==
  /\ model[m] = "none" /\ model' = [model EXCEPT ![m] = "empty"]
  /\ UNCHANGED buffer /\ Reply(line, "no model")

\* The text is prepared before the model is loaded, and that may fail too.
_handle_tts_speak(line) ==
  \/ UNCHANGED <<model, buffer>> /\ Reply(line, "raised")
  \/ _ensure_f5 /\ UNCHANGED buffer /\ \E r \in {"audio", "raised"} : Reply(line, r)
  \/ model["f5"] # "loaded" /\ UNCHANGED <<model, buffer>> /\ Reply(line, "no model")

\* Audio of an odd length is refused before the model is loaded.
_handle_stt_transcribe(line) ==
  \/ ~line.good /\ Reply(line, "refused") /\ UNCHANGED <<model, buffer>>
  \/ line.good /\ load_fails("stt", line)
  \/ line.good /\ _ensure("stt", "empty") /\ UNCHANGED buffer /\ Reply(line, "silent")
  \/ /\ line.good /\ _ensure("stt", "loaded") /\ UNCHANGED buffer
     /\ \E r \in {"text", "raised"} : Reply(line, r)

\* WakeWordDetector.process: chunks are gathered until there are enough of
\* them; of the words the models know, only the configured one counts, and that
\* only when it reaches the threshold of this request.
process(line, state) ==
  LET heard == Append(buffer, line.sound) IN
  CASE state = "empty" -> UNCHANGED buffer /\ Reply(line, "silent")
    [] state = "loaded" /\ Len(heard) < MinSamples -> buffer' = heard /\ Reply(line, "undetected")
    [] OTHER ->
         /\ buffer' = <<>>
         /\ \/ Contains(heard, "word") /\ Reply(line, "detected")
            \/ Reply(line, "undetected")

_handle_wake_detect(line) ==
  \/ ~line.good /\ Reply(line, "refused") /\ UNCHANGED <<model, buffer>>
  \/ line.good /\ load_fails("wake", line)
  \/ line.good /\ \E state \in {"empty", "loaded"} : _ensure("wake", state) /\ process(line, state)

\* The detector's reset leaves its buffer alone.
_handle_wake_reset(line) == Reply(line, "ok") /\ UNCHANGED <<model, buffer>>

_handle(line) ==
  CASE line.op = "ping" -> Reply(line, "pong") /\ UNCHANGED <<model, buffer>>
    [] line.op = "tts_speak" -> _handle_tts_speak(line)
    [] line.op = "stt_transcribe" -> _handle_stt_transcribe(line)
    [] line.op = "wake_detect" -> _handle_wake_detect(line)
    [] line.op = "wake_reset" -> _handle_wake_reset(line)
    [] OTHER -> Reply(line, "raised") /\ UNCHANGED <<model, buffer>>

\* One turn of main(): a line without an id is logged and passed over.
Turn(line) ==
  /\ alive /\ lines < MaxLines /\ lines' = lines + 1
  /\ \/ /\ line.id = NoId
        /\ UNCHANGED <<model, buffer, reply, asked, answered, reported>>
     \/ /\ line.id # NoId /\ asked' = Append(asked, line.id) /\ _handle(line)
  /\ UNCHANGED alive

\* The bridge closes the pipe, or the process dies; a new worker starts empty.
Stop ==
  /\ alive /\ alive' = FALSE
  /\ UNCHANGED <<model, buffer, reply, asked, answered, reported, lines>>

Next == Stop \/ \E line \in Lines : Turn(line)

Spec == Init /\ [][Next]_vars

-----------------------------------------------------------------------------
\* Every request is answered once, in order; and an answer that no model gave
\* comes only after an error has told that this model failed to load.
AnswersExplained ==
  /\ answered = asked
  /\ reply.result = "silent" => reply.op \in reported
=============================================================================
