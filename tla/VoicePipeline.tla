--------------------------- MODULE VoicePipeline ---------------------------
(***************************************************************************)
(* The kernel's own voice pipeline (kernel/voice/pipeline.py): start() and *)
(* stop() as called by the HTTP routes, the main-loop task with the        *)
(* utterance it is working on, the recorder, the builder session a voice   *)
(* user answers, and the chat route's auto-speak, which switches the same  *)
(* recorder.                                                               *)
(*                                                                         *)
(* Everything runs on one event loop: an action is what one coroutine does *)
(* between two suspensions, and pc names the await at which a main-loop    *)
(* task is suspended.  stop() cancels the task, so CancelledError may come *)
(* out of any of these awaits.                                             *)
(***************************************************************************)
EXTENDS Naturals, FiniteSets

CONSTANTS Callers,      \* HTTP requests that call start() or stop()
          MaxStarts,    \* bound on the main-loop tasks created
          MaxStops,     \* bound on the calls of stop()
          MaxChats,     \* bound on the chat answers spoken
          Sessions      \* ids of builder sessions, numbers from 1

ASSUME BoundsAssumption == /\ MaxStarts \in Nat /\ MaxStops \in Nat
                           /\ MaxChats \in Nat /\ Sessions \subseteq Nat \ {0}

VARIABLES mode,        \* _voice_config.mode, fixed at start-up
          started,     \* _started
          vstate,      \* _state
          mainTask,    \* _main_loop_task, 0 for None
          recording,   \* the recorder's _recording
          stale,       \* its queue still holds chunks after a stop
          wake,        \* _wake_detected
          heard,       \* _audio_buffer holds an utterance
          session,     \* _active_builder_session, 0 for None
          awaiting,    \* _awaiting_deploy_confirm
          alive,       \* sessions the builder's SessionStore holds
          complete,    \* those of them whose wizard has been answered
          pc,          \* where each main-loop task is suspended
          cancel,      \* a CancelledError will come out of its await
          wasRec,      \* its local was_recording
          then,        \* what follows its _play_tts_with_guard
          result,      \* how its LLM stream or playback ended
          at,          \* where each request is suspended
          joins,       \* the task a stop() waits for
          stops,       \* calls of stop() so far
          chatAt,      \* _speak_response: "idle" or "speaking"
          chatRec,     \* its local was_recording
          chats,       \* chat answers spoken so far
          shown,       \* the last voice.pipeline event said active
                       \* to its end and is not answered yet
          overlapped,  \* history: a request began before another had ended
          micFailed,   \* history: the recorder has raised, on starting or
                       \* stopping, and no stop() has come to its end since
          lingers,     \* tasks whose sentence sounds on after its await has
                       \* been cancelled: a thread cannot be
          failed       \* history: STT or the LLM has raised, and no stop()
                       \* has followed

mic      == <<recording, stale, micFailed>>
window   == <<wake, heard>>
builder  == <<session, awaiting, alive, complete>>
locals   == <<wasRec, then, result>>
requests == <<started, mainTask, at, joins, stops, shown, overlapped>>
chat     == <<chatAt, chatRec, chats>>
vars == <<mode, vstate, mic, window, builder, pc, cancel, locals, requests,
          chat, failed, lingers>>

Loops    == 1..MaxStarts

Busy    == {"thinking", "speaking"}
Playing == {"play", "stream", "tail"}

\* The awaits of _play_tts_with_guard, and all those at which an utterance is
\* being worked on.
Guarded == {"mute", "play", "drain", "spoken"}
Working == {"stt", "ctx", "ask", "muteStream", "stream", "tail", "tools",
            "finish"} \cup Guarded

Live(l) == pc[l] \notin {"unborn", "done"}

Init == /\ mode \in {"wake_word", "continuous"}
        /\ started = FALSE /\ vstate = "idle" /\ mainTask = 0
        /\ recording = FALSE /\ stale = FALSE
        /\ wake = FALSE /\ heard = FALSE
        /\ session = 0 /\ awaiting = FALSE
        /\ alive = {} /\ complete = {}
        /\ pc = [l \in Loops |-> "unborn"]
        /\ cancel = [l \in Loops |-> FALSE]
        /\ wasRec = [l \in Loops |-> FALSE]
        /\ then = [l \in Loops |-> "none"]
        /\ result = [l \in Loops |-> "none"]
        /\ at = [c \in Callers |-> "idle"] /\ joins = [c \in Callers |-> 0]
        /\ stops = 0
        /\ chatAt = "idle" /\ chatRec = FALSE /\ chats = 0
        /\ shown = FALSE
        /\ overlapped = FALSE /\ micFailed = FALSE /\ failed = FALSE
        /\ lingers = {}

Goto(l, p) == pc' = [pc EXCEPT ![l] = p]

\* Starting drains the queue; stopping may leave chunks in it.
Opening == stale' = FALSE
Closing == /\ recording' = FALSE
           /\ stale' \in IF recording THEN BOOLEAN ELSE {stale}

RecorderOn  == Opening /\ recording' = TRUE /\ UNCHANGED micFailed
RecorderOff == Closing /\ UNCHANGED micFailed

\* The audio library raises: the flag says that nothing is recorded.  Only a
\* stream that is there, or has been left by an earlier failure, fails to close.
OpenFails  == Opening /\ ~recording /\ UNCHANGED recording /\ micFailed' = TRUE
CloseFails == Closing /\ (recording \/ micFailed) /\ micFailed' = TRUE

RecorderOnIf(b)  == IF b THEN RecorderOn ELSE UNCHANGED mic
RecorderOffIf(b) == IF b THEN RecorderOff ELSE UNCHANGED mic

\* The finally clause after the answer to the deploy question.
ClearIf(b) == IF b THEN awaiting' = FALSE /\ session' = 0
              ELSE UNCHANGED <<session, awaiting>>

\* The locals of a playback end with it.
ForgetLocals(l) == /\ wasRec' = [wasRec EXCEPT ![l] = FALSE]
                   /\ then' = [then EXCEPT ![l] = "none"]
                   /\ result' = [result EXCEPT ![l] = "none"]

-----------------------------------------------------------------------------
(* start() and stop() *)

BeginRequest(c) ==
  /\ at[c] = "idle"
  /\ overlapped' = (overlapped \/ \E d \in Callers : at[d] # "idle")

\* A task is created when the start() that has begun resumes.
Unborn == {l \in Loops : pc[l] = "unborn"}
StartsUnderWay == {c \in Callers : at[c] = "starting"}

\* _started is set first: when the microphone cannot be opened, it stays set.
Start(c) ==
  /\ BeginRequest(c)
  /\ ~started
  /\ Cardinality(Unborn) > Cardinality(StartsUnderWay)
  /\ started' = TRUE
  /\ \/ /\ RecorderOnIf(~recording)
        /\ vstate' = "idle"
        /\ shown' = TRUE
        /\ at' = [at EXCEPT ![c] = "starting"]
     \/ OpenFails /\ UNCHANGED <<vstate, shown, at>>
  /\ UNCHANGED <<mode, window, builder, pc, cancel, locals, mainTask, joins,
                 stops, chat, failed, lingers>>

\* The status has been published: create the main loop.
StartResumes(c) ==
  /\ at[c] = "starting"
  /\ at' = [at EXCEPT ![c] = "idle"]
  /\ \E l \in Unborn : /\ \A m \in Unborn : l <= m
                       /\ Goto(l, "between")
                       /\ mainTask' = l
  /\ UNCHANGED <<mode, vstate, mic, window, builder, cancel, locals, started,
                 joins, stops, shown, overlapped, chat, failed, lingers>>

\* The end of stop(): the state is published next, unless the recorder raises.
SwitchOff(c) ==
  \/ /\ Closing
     /\ wake' = FALSE /\ heard' = FALSE
     /\ vstate' = "idle"
     /\ micFailed' = FALSE /\ failed' = FALSE
     /\ at' = [at EXCEPT ![c] = "stopping"]
  \/ /\ CloseFails
     /\ at' = [at EXCEPT ![c] = "idle"]
     /\ UNCHANGED <<window, vstate, failed>>

\* Mutant of Stop: the recorder is stopped first and the task not cancelled.
StopUncancelled(c) ==
  /\ BeginRequest(c)
  /\ stops < MaxStops
  /\ stops' = stops + 1
  /\ started' = FALSE
  /\ \/ /\ mainTask # 0
        /\ RecorderOff
        /\ joins' = [joins EXCEPT ![c] = mainTask]
        /\ at' = [at EXCEPT ![c] = "joining"]
        /\ UNCHANGED <<cancel, window, vstate, failed>>
     \/ /\ mainTask = 0
        /\ SwitchOff(c)
        /\ UNCHANGED <<cancel, joins>>
  /\ UNCHANGED <<mode, builder, pc, locals, mainTask, shown, chat, lingers>>

Stop(c) ==
  /\ BeginRequest(c)
  /\ stops < MaxStops
  /\ stops' = stops + 1
  /\ started' = FALSE
  /\ \/ /\ mainTask # 0
        /\ cancel' = [cancel EXCEPT ![mainTask] = Live(mainTask)]
        /\ joins' = [joins EXCEPT ![c] = mainTask]
        /\ at' = [at EXCEPT ![c] = "joining"]
        /\ UNCHANGED <<mic, window, vstate, failed>>
     \/ /\ mainTask = 0
        /\ SwitchOff(c)
        /\ UNCHANGED <<cancel, joins>>
  /\ UNCHANGED <<mode, builder, pc, locals, mainTask, shown, chat, lingers>>

\* Mutant of StopJoined: without waiting for the cancelled task.
StopUnjoined(c) ==
  /\ at[c] = "joining"
  /\ mainTask' = 0
  /\ joins' = [joins EXCEPT ![c] = 0]
  /\ SwitchOff(c)
  /\ UNCHANGED <<mode, builder, pc, cancel, locals, started, stops, shown,
                 overlapped, chat, lingers>>

\* The cancelled task has ended.
StopJoined(c) ==
  /\ at[c] = "joining"
  /\ pc[joins[c]] = "done"
  /\ mainTask' = 0
  /\ joins' = [joins EXCEPT ![c] = 0]
  /\ SwitchOff(c)
  /\ UNCHANGED <<mode, builder, pc, cancel, locals, started, stops, shown,
                 overlapped, chat, lingers>>

StopPublishes(c) ==
  /\ at[c] = "stopping"
  /\ shown' = FALSE
  /\ at' = [at EXCEPT ![c] = "idle"]
  /\ UNCHANGED <<mode, vstate, mic, window, builder, pc, cancel, locals,
                 started, mainTask, joins, stops, overlapped, chat, failed,
                 lingers>>

-----------------------------------------------------------------------------
(* The main loop, up to the end of an utterance *)

At(l, p) == pc[l] = p /\ ~cancel[l]

kernel == <<mode, requests, chat, lingers>>

\* The loop's condition, wherever it comes round to it.
Again == IF started /\ recording THEN "read" ELSE "done"

NextIteration(l) ==
  /\ At(l, "between")
  /\ Goto(l, Again)
  /\ UNCHANGED <<kernel, vstate, mic, window, builder, cancel, locals, failed>>

\* read_chunk: from the queue, which a stopped recorder leaves as it was.
Read(l) ==
  /\ At(l, "read")
  /\ recording \/ stale
  /\ stale' \in IF stale THEN BOOLEAN ELSE {FALSE}
  /\ UNCHANGED <<kernel, recording, micFailed, builder, cancel, locals, failed>>

Attentive == vstate \notin Busy
Hears     == mode = "continuous" \/ wake

\* Skipped in a busy state; no wake word; silence that decides nothing yet.
IgnoreChunk(l) == Read(l) /\ Goto(l, Again) /\ UNCHANGED <<vstate, window>>

HearWakeWord(l) ==
  /\ Read(l)
  /\ Attentive /\ ~Hears
  /\ wake' = TRUE /\ heard' = FALSE
  /\ vstate' = "listening"
  /\ Goto(l, "between")

\* Whether anything has been said in the window is not asked.
ListenTimeout(l) ==
  /\ Read(l)
  /\ Attentive /\ wake
  /\ wake' = FALSE /\ heard' = FALSE
  /\ vstate' = "idle"
  /\ Goto(l, "between")

HearSpeech(l) ==
  /\ Read(l)
  /\ Attentive /\ Hears
  /\ heard' = TRUE
  /\ IF mode = "continuous" /\ vstate = "idle"
     THEN vstate' = "listening" /\ Goto(l, "between")
     ELSE UNCHANGED vstate /\ Goto(l, Again)
  /\ UNCHANGED wake

EndOfSpeech(l) ==
  /\ Read(l)
  /\ Attentive /\ Hears /\ heard
  /\ vstate' = "thinking"
  /\ Goto(l, "stt")
  /\ UNCHANGED window

SttEmpty(l) ==
  /\ At(l, "stt")
  /\ vstate' = "idle"
  /\ Goto(l, "ending")
  /\ UNCHANGED <<kernel, mic, window, builder, cancel, locals, failed>>

\* _main_loop logs the exception; the state stays.
SttFails(l) ==
  /\ At(l, "stt")
  /\ failed' = TRUE
  /\ Goto(l, "between")
  /\ UNCHANGED <<kernel, vstate, mic, window, builder, cancel, locals>>

Transcribed(l) ==
  /\ At(l, "stt")
  /\ Goto(l, "ctx")
  /\ UNCHANGED <<kernel, vstate, mic, window, builder, cancel, locals, failed>>

EndUtterance(l) ==
  /\ At(l, "ending")
  /\ wake' = FALSE /\ heard' = FALSE
  /\ Goto(l, Again)
  /\ UNCHANGED <<kernel, vstate, mic, builder, cancel, locals, failed>>

-----------------------------------------------------------------------------
(* _handle_transcription: whom the text is for *)

\* "except asyncio.CancelledError" around this await takes a stop()'s
\* cancellation for one of the memory lookup: the utterance goes on.
Understood(l) ==
  /\ pc[l] = "ctx"
  /\ cancel' = [cancel EXCEPT ![l] = FALSE]
  /\ UNCHANGED <<kernel, mic, window, failed>>

\* _play_tts_with_guard up to the event of its state change.
SpeakThen(l, what) ==
  /\ wasRec' = [wasRec EXCEPT ![l] = recording]
  /\ then' = [then EXCEPT ![l] = what]
  /\ result' = [result EXCEPT ![l] = "none"]
  /\ vstate' = "speaking"
  /\ Goto(l, "mute")

Confirming == awaiting /\ session # 0

\* Neither yes nor no, or both.
Reask(l) ==
  /\ Understood(l)
  /\ Confirming
  /\ SpeakThen(l, "next")
  /\ UNCHANGED builder

Forget(s) == alive' = alive \ {s} /\ complete' = complete \ {s}

\* flow.deploy never suspends.  It reports an error as it does success.
Confirm(l) ==
  /\ Understood(l)
  /\ Confirming /\ session \in alive
  /\ Forget(session)
  /\ SpeakThen(l, "clear")
  /\ UNCHANGED <<session, awaiting>>

\* Mutant of ConfirmFails: without the return to IDLE.
ConfirmFailsBusy(l) ==
  /\ Understood(l)
  /\ Confirming
  /\ Forget(session) \/ UNCHANGED <<alive, complete>>
  /\ awaiting' = FALSE /\ session' = 0
  /\ Goto(l, "ending")
  /\ UNCHANGED <<vstate, locals>>

\* The session has expired, or the skill cannot be generated or registered.
ConfirmFails(l) ==
  /\ Understood(l)
  /\ Confirming
  /\ Forget(session) \/ UNCHANGED <<alive, complete>>
  /\ awaiting' = FALSE /\ session' = 0
  /\ vstate' = "idle"
  /\ Goto(l, "ending")
  /\ UNCHANGED locals

Decline(l) ==
  /\ Understood(l)
  /\ Confirming
  /\ Forget(session)
  /\ SpeakThen(l, "clear")
  /\ UNCHANGED <<session, awaiting>>

\* Another answer in the wizard: the next question, or after the last one the
\* question whether to deploy.
AnswerWizard(l) ==
  /\ Understood(l)
  /\ ~awaiting /\ session \in alive
  /\ \/ session \notin complete /\ SpeakThen(l, "answer") /\ UNCHANGED complete
     \/ complete' = complete \cup {session} /\ SpeakThen(l, "confirm")
  /\ UNCHANGED <<session, awaiting, alive>>

\* No session, or flow.answer raises because it has expired.
NoSession(l) == Understood(l) /\ ~Confirming /\ session \notin alive

\* flow.start: the id is new.
OpenSession == \E s \in Sessions \ (alive \cup {session}) :
                 session' = s /\ alive' = alive \cup {s}

StartBuilder(l) ==
  /\ NoSession(l)
  /\ OpenSession
  /\ SpeakThen(l, "start")
  /\ UNCHANGED <<awaiting, complete>>

Converse(l) ==
  /\ NoSession(l)
  /\ session' = 0
  /\ Goto(l, "ask")
  /\ UNCHANGED <<vstate, awaiting, alive, complete, locals>>

\* The store's time to live, or the builder's HTTP routes.
SessionGone(s) ==
  /\ s \in alive
  /\ Forget(s)
  /\ UNCHANGED <<kernel, vstate, mic, window, session, awaiting, pc,
                 cancel, locals, failed>>

-----------------------------------------------------------------------------
(* Speaking with the microphone off *)

\* Mutant of Mute: the stream is played without stopping the recorder.
MuteOnce(l) ==
  /\ \/ At(l, "mute") /\ Goto(l, "play")
     \/ At(l, "muteStream") /\ Goto(l, "stream")
  /\ RecorderOffIf(wasRec[l] /\ pc[l] = "mute")
  /\ UNCHANGED <<kernel, vstate, window, builder, cancel, locals, failed>>

\* was_recording was read before the state change was published.
Mute(l) ==
  /\ \/ At(l, "mute") /\ Goto(l, "play")
     \/ At(l, "muteStream") /\ Goto(l, "stream")
  /\ RecorderOffIf(wasRec[l])
  /\ UNCHANGED <<kernel, vstate, window, builder, cancel, locals, failed>>

\* The recorder raises on stopping or starting again, and its exception comes
\* out of the playback, in the finally clause in place of a CancelledError: the
\* state stays "speaking".  The main loop takes it, or the builder's dialogue,
\* which goes on without a session, with the LLM or with a new one.
RecorderFails(l) ==
  /\ ~cancel[l] /\ wasRec[l]
  /\ \/ pc[l] \in {"mute", "muteStream"} /\ CloseFails
     \/ pc[l] \in {"drain", "tail"} /\ OpenFails
  /\ \/ /\ then[l] \in {"none", "next"}
        /\ Goto(l, "between") /\ ForgetLocals(l)
        /\ UNCHANGED <<vstate, builder>>
     \/ /\ then[l] = "clear"
        /\ ClearIf(TRUE) /\ vstate' = "idle"
        /\ Goto(l, "ending") /\ ForgetLocals(l)
        /\ UNCHANGED <<alive, complete>>
     \/ /\ then[l] \in {"start", "answer", "confirm"}
        /\ session' = IF then[l] = "start" THEN session ELSE 0
        /\ Goto(l, "ask") /\ ForgetLocals(l)
        /\ UNCHANGED <<vstate, awaiting, alive, complete>>
     \/ /\ then[l] \in {"answer", "confirm"}
        /\ OpenSession
        /\ wasRec' = [wasRec EXCEPT ![l] = FALSE]
        /\ then' = [then EXCEPT ![l] = "start"]
        /\ result' = [result EXCEPT ![l] = "none"]
        /\ vstate' = "speaking" /\ Goto(l, "mute")
        /\ UNCHANGED <<awaiting, complete>>
  /\ UNCHANGED <<kernel, window, cancel, failed>>

PlaybackEnds(l) ==
  /\ At(l, "play")
  /\ Goto(l, "drain")
  /\ UNCHANGED <<kernel, vstate, mic, window, builder, cancel, locals, failed>>

DrainEnds(l) ==
  /\ At(l, "drain")
  /\ RecorderOnIf(wasRec[l])
  /\ heard' = FALSE
  /\ vstate' = "idle"
  /\ IF result[l] = "cancelled"
     THEN Goto(l, "done") /\ ClearIf(then[l] = "clear") /\ ForgetLocals(l)
     ELSE Goto(l, "spoken") /\ UNCHANGED <<session, awaiting, locals>>
  /\ UNCHANGED <<kernel, wake, alive, complete, cancel, failed>>

Spoken(l) ==
  /\ At(l, "spoken")
  /\ IF then[l] = "confirm"
     THEN awaiting' = TRUE /\ UNCHANGED session
     ELSE ClearIf(then[l] = "clear")
  /\ wake' = FALSE /\ heard' = FALSE
  /\ vstate' = "idle"
  /\ Goto(l, Again)
  /\ ForgetLocals(l)
  /\ UNCHANGED <<kernel, mic, alive, complete, cancel, failed>>

AskLlm(l) ==
  /\ At(l, "ask")
  /\ wasRec' = [wasRec EXCEPT ![l] = recording]
  /\ vstate' = "speaking"
  /\ Goto(l, "muteStream")
  /\ UNCHANGED <<kernel, mic, window, builder, cancel, then, result, failed>>

\* route_streaming returns the answer, tool calls with an empty stream, or
\* raises; what it streamed is still being played.
StreamEnds(l) ==
  /\ At(l, "stream")
  /\ \E r \in {"plain", "tools", "error"} :
       /\ result' = [result EXCEPT ![l] = r]
       /\ failed' = (failed \/ r = "error")
  /\ Goto(l, "tail")
  /\ UNCHANGED <<kernel, vstate, mic, window, builder, cancel, wasRec, then>>

\* Mutant of TailEnds: the recorder is not restarted in a finally clause.
TailEndsUnguarded(l) ==
  /\ At(l, "tail")
  /\ RecorderOnIf(wasRec[l] /\ result[l] \in {"plain", "tools"})
  /\ heard' = FALSE
  /\ Goto(l, CASE result[l] = "plain" -> "finish"
               [] result[l] = "tools" -> "tools"
               [] result[l] = "error" -> "between"
               [] OTHER -> "done")
  /\ ForgetLocals(l)
  /\ UNCHANGED <<kernel, vstate, wake, builder, cancel, failed>>

\* The state stays "speaking": the caller is to leave it, unless the LLM raised.
TailEnds(l) ==
  /\ At(l, "tail")
  /\ RecorderOnIf(wasRec[l])
  /\ heard' = FALSE
  /\ Goto(l, CASE result[l] = "plain" -> "finish"
               [] result[l] = "tools" -> "tools"
               [] result[l] = "error" -> "between"
               [] OTHER -> "done")
  /\ ForgetLocals(l)
  /\ UNCHANGED <<kernel, vstate, wake, builder, cancel, failed>>

ToolsEnd(l) ==
  /\ At(l, "tools")
  /\ \/ SpeakThen(l, "next")
     \/ vstate' = "idle" /\ Goto(l, "ending") /\ UNCHANGED locals
  /\ UNCHANGED <<kernel, mic, window, builder, cancel, failed>>

Finish(l) ==
  /\ At(l, "finish")
  /\ vstate' = "idle"
  /\ Goto(l, "ending")
  /\ UNCHANGED <<kernel, mic, window, builder, cancel, locals, failed>>

\* CancelledError comes out of the await.  The finally clauses of the two
\* playbacks run first, and may be cancelled in turn.  A sentence that is being
\* played sounds on in its thread; in "stream" the consumer is another task.
Cancelled(l) ==
  /\ cancel[l] /\ pc[l] # "ctx"
  /\ lingers' \in {lingers} \cup {lingers \cup {l} : p \in {pc[l]} \cap {"play", "tail"}}
  /\ cancel' = [cancel EXCEPT ![l] = FALSE]
  /\ IF pc[l] \in {"play", "stream"}
     THEN /\ Goto(l, IF pc[l] = "play" THEN "drain" ELSE "tail")
          /\ result' = [result EXCEPT ![l] = "cancelled"]
          /\ UNCHANGED <<session, awaiting, wasRec, then>>
     ELSE /\ Goto(l, "done")
          /\ ClearIf(pc[l] \in Guarded /\ then[l] = "clear")
          /\ ForgetLocals(l)
  /\ UNCHANGED <<mode, requests, chat, vstate, mic, window, alive, complete,
                 failed>>

\* sd.wait() returns in the thread that nobody waits for.
SoundEnds(l) ==
  /\ l \in lingers
  /\ lingers' = lingers \ {l}
  /\ UNCHANGED <<mode, requests, chat, vstate, mic, window, builder, pc, cancel,
                 locals, failed>>

-----------------------------------------------------------------------------
(* The chat route speaks its answer *)

ChatSpeaks ==
  /\ chatAt = "idle" /\ chats < MaxChats
  /\ chats' = chats + 1
  /\ \/ /\ chatAt' = "speaking"
        /\ chatRec' = recording
        /\ RecorderOffIf(recording)
     \/ recording /\ CloseFails /\ UNCHANGED <<chatAt, chatRec>>
  /\ UNCHANGED <<mode, vstate, window, builder, pc, cancel, locals, requests,
                 failed, lingers>>

ChatEnds ==
  /\ chatAt = "speaking"
  /\ chatAt' = "idle" /\ chatRec' = FALSE
  /\ RecorderOnIf(chatRec) \/ (chatRec /\ OpenFails)
  /\ UNCHANGED <<mode, vstate, window, builder, pc, cancel, locals, requests,
                 chats, failed, lingers>>

-----------------------------------------------------------------------------

Resumes(l) ==
  \/ NextIteration(l) \/ IgnoreChunk(l) \/ HearWakeWord(l) \/ ListenTimeout(l)
  \/ HearSpeech(l) \/ EndOfSpeech(l) \/ SttEmpty(l) \/ SttFails(l)
  \/ Transcribed(l) \/ EndUtterance(l)
  \/ Reask(l) \/ Confirm(l) \/ ConfirmFails(l) \/ Decline(l) \/ AnswerWizard(l)
  \/ StartBuilder(l) \/ Converse(l)
  \/ Mute(l) \/ RecorderFails(l) \/ PlaybackEnds(l) \/ DrainEnds(l) \/ Spoken(l)
  \/ AskLlm(l) \/ StreamEnds(l) \/ TailEnds(l)
  \/ ToolsEnd(l) \/ Finish(l) \/ Cancelled(l)

Next ==
  \/ \E c \in Callers : \/ Start(c) \/ StartResumes(c)
                        \/ Stop(c) \/ StopJoined(c) \/ StopPublishes(c)
  \/ \E l \in Loops : Resumes(l) \/ SoundEnds(l)
  \/ \E s \in Sessions : SessionGone(s)
  \/ ChatSpeaks \/ ChatEnds

Spec == Init /\ [][Next]_vars

\* The event loop resumes every coroutine whose await is over, and the awaits
\* for a thread, the LLM or a subscriber are over some time.
Fairness ==
  /\ \A l \in Loops : WF_vars(Resumes(l))
  /\ \A c \in Callers : WF_vars(StartResumes(c) \/ StopJoined(c) \/ StopPublishes(c))
  /\ WF_vars(ChatEnds)

FairSpec == Spec /\ Fairness

-----------------------------------------------------------------------------
(* Properties *)

TypeOK ==
  /\ mode \in {"wake_word", "continuous"}
  /\ vstate \in {"idle", "listening"} \cup Busy
  /\ {started, recording, stale, wake, heard, awaiting, chatRec, shown,
      overlapped, micFailed, failed} \subseteq BOOLEAN
  /\ mainTask \in Loops \cup {0}
  /\ session \in Sessions \cup {0}
  /\ alive \subseteq Sessions /\ complete \subseteq alive
  /\ pc \in [Loops -> Working \cup {"unborn", "between", "read", "ending",
                                    "done"}]
  /\ cancel \in [Loops -> BOOLEAN] /\ wasRec \in [Loops -> BOOLEAN]
  /\ then \in [Loops -> {"none", "next", "answer", "start", "confirm", "clear"}]
  /\ result \in [Loops -> {"none", "plain", "tools", "error", "cancelled"}]
  /\ at \in [Callers -> {"idle", "starting", "joining", "stopping"}]
  /\ joins \in [Callers -> Loops \cup {0}]
  /\ stops \in 0..MaxStops /\ chats \in 0..MaxChats
  /\ chatAt \in {"idle", "speaking"}
  /\ lingers \subseteq Loops

\* No request is under way and none has ever met another.
Settled == ~overlapped /\ \A c \in Callers : at[c] = "idle"

\* Once stop() has returned, nothing of the pipeline is left at work: no main
\* loop, whatever it was doing when it was cancelled, no busy state and no
\* microphone, although the finally clauses of a cancelled playback switch it on
\* again.  What a stop() that raises leaves behind is excluded (`micFailed`), and
\* of the microphone a chat answer, which may switch it on again; the rest of a
\* sentence may still be heard (`lingers`).
StoppedMeansOff ==
  Settled /\ ~started /\ ~micFailed =>
    /\ \A l \in Loops : ~Live(l)
    /\ vstate = "idle" /\ ~shown
    /\ chats = 0 => ~recording

\* A pipeline shown as active hears: its main loop lives, and the microphone is
\* on or an utterance is being worked on that will switch it on again.  A chat
\* answer that meets it can end the loop; a recorder that raises ends it, or
\* leaves _started set without one.
StartedMeansListening ==
  Settled /\ started /\ chats = 0 /\ ~micFailed =>
    /\ shown
    /\ mainTask # 0 /\ Live(mainTask)
    /\ recording \/ pc[mainTask] \in Working

\* Its own sound: a sentence is being played, awaited or not.
Sounds(l) == pc[l] \in Playing \/ l \in lingers

\* The pipeline's microphone is off while it speaks (_play_tts_with_guard, even
\* when the recorder has raised), with one exception: the rest of a sentence that
\* a stop() has cut off, and that not before the task that spoke it has ended.
MicOffWhilePlaying ==
  ~overlapped /\ chats = 0 =>
    \A l \in Loops :
      Sounds(l) /\ recording => l \in lingers /\ pc[l] = "done"

\* In the busy states every chunk is skipped, so somebody must be on the way to
\* leave them: a task at work on an utterance, or the stop() that cancelled it.
\* An exception of STT or the LLM (`failed`) or of the recorder (`micFailed`)
\* leaves them to the next stop().
BusyHasOwner ==
  vstate \in Busy /\ ~failed /\ ~micFailed =>
    \/ \E l \in Loops : pc[l] \in Working
    \/ \E c \in Callers : at[c] = "joining"

\* start() and stop() return, whatever the main loop was doing.
RequestsEnd == \A c \in Callers : at[c] # "idle" ~> at[c] = "idle"

=============================================================================
