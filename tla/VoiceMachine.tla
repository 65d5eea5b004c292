---------------------------- MODULE VoiceMachine ----------------------------
(***************************************************************************)
(* The desktop voice pipeline: PipelineMachine.step and the runner that    *)
(* performs its actions.  The runner takes one event at a time; the        *)
(* recorder's chunks come on a channel of their own, everything else on    *)
(* the FIFO event channel, written by the tasks the runner spawns, by the  *)
(* wake timer and by start()/stop().  The playback thread shares only the  *)
(* mute flag with it.                                                      *)
(*                                                                         *)
(* An event carries, as history, the number of the utterance it is about;  *)
(* the code's events carry none.                                           *)
(***************************************************************************)
EXTENDS Naturals, Sequences

CONSTANTS MinSpeech,     \* cfg.min_speech_chunks
          SilenceToEnd,  \* cfg.silence_chunks_to_end
          QueueCap,      \* bound on the event channel (256 in the code)
          MaxWakes,      \* bound on the wake words heard
          MaxCommands    \* bound on the calls of start() and stop()

ASSUME FramingAssumption == MinSpeech \in Nat /\ SilenceToEnd \in Nat \ {0}
ASSUME BoundsAssumption  == /\ QueueCap \in Nat \ {0}
                            /\ MaxWakes \in Nat
                            /\ MaxCommands \in Nat

VARIABLES state,      \* PipelineState
          silence,    \* silence_count, counted up to SilenceToEnd
          speech,     \* speech_chunks, counted up to MinSpeech
          mute,       \* the MuteFlag shared with recorder and playback
          wakeBusy,   \* wake_in_flight
          jobs,       \* tasks spawned whose result is not yet in the channel
          events,     \* the event channel
          timer,      \* the wake timer runs
          plays,      \* utterances waiting for the playback thread
          playing,    \* the utterance the playback thread plays, 0 for none
          utt,        \* history: number of the last utterance transcribed
          abandoned,  \* history: a Stop left an utterance unfinished
          wakes,      \* wake words heard so far
          commands    \* start() and stop() calls so far

framing == <<silence, speech>>
player  == <<plays, playing>>
bounds  == <<wakes, commands>>
vars == <<state, silence, speech, mute, wakeBusy, jobs, events, timer, plays,
          playing, utt, abandoned, wakes, commands>>

Idle   == {"off", "listening"}
Window == {"wake_detected", "capturing"}
Busy   == {"transcribing", "generating", "speaking"}

Stages == {"stt", "chat", "tts", "play"}

Event(kind, ok, u) == [kind |-> kind, ok |-> ok, utt |-> u]
Job(stage, u) == [stage |-> stage, utt |-> u]

Init == /\ state = "off"
        /\ silence = 0 /\ speech = 0
        /\ mute = FALSE
        /\ wakeBusy = FALSE
        /\ jobs = {}
        /\ events = <<>>
        /\ timer = FALSE
        /\ plays = {} /\ playing = 0
        /\ utt = 0
        /\ abandoned = FALSE
        /\ wakes = 0 /\ commands = 0

\* A sender waits while the channel is full.
Put(e) == Len(events) < QueueCap /\ events' = Append(events, e)

Take(kind) == events # <<>> /\ Head(events).kind = kind /\ events' = Tail(events)

Upto(n, max) == IF n < max THEN n ELSE max

-----------------------------------------------------------------------------
(* Writers of the event channel *)

Command(kind) ==
  /\ commands < MaxCommands
  /\ commands' = commands + 1
  /\ Put(Event(kind, TRUE, 0))
  /\ UNCHANGED <<state, framing, mute, wakeBusy, jobs, timer, player, utt, abandoned, wakes>>

\* The wake word is heard in the chunk under test.
WakeHeard ==
  /\ wakeBusy
  /\ wakes < MaxWakes
  /\ wakes' = wakes + 1
  /\ wakeBusy' = FALSE
  /\ Put(Event("wake", TRUE, 0))
  /\ UNCHANGED <<state, framing, mute, jobs, timer, player, utt, abandoned, commands>>

\* It is not, or the test failed: WakeNotDetected moves no state.
WakeNotHeard ==
  /\ wakeBusy
  /\ wakeBusy' = FALSE
  /\ UNCHANGED <<state, framing, mute, jobs, events, timer, player, utt, abandoned, bounds>>

\* A spawned task ends with a result or an error; each has its own timeout.
JobEnds(job, ok) ==
  /\ job \in jobs
  /\ jobs' = jobs \ {job}
  /\ Put(Event(job.stage, ok, job.utt))
  /\ UNCHANGED <<state, framing, mute, wakeBusy, timer, player, utt, abandoned, bounds>>

TimerFires ==
  /\ timer
  /\ timer' = FALSE
  /\ Put(Event("timeout", TRUE, 0))
  /\ UNCHANGED <<state, framing, mute, wakeBusy, jobs, player, utt, abandoned, bounds>>

-----------------------------------------------------------------------------
(* The playback thread *)

\* Mutant of PlayBegins: completion is reported when playing begins.
PlayBeginsReported(u) ==
  /\ playing = 0 /\ u \in plays
  /\ playing' = u
  /\ plays' = plays \ {u}
  /\ mute' = TRUE
  /\ jobs' = jobs \cup {Job("play", u)}
  /\ UNCHANGED <<state, framing, wakeBusy, events, timer, utt, abandoned, bounds>>

\* play_pcm_f32: MutedGuard::new.
PlayBegins(u) ==
  /\ playing = 0 /\ u \in plays
  /\ playing' = u
  /\ plays' = plays \ {u}
  /\ mute' = TRUE
  /\ UNCHANGED <<state, framing, wakeBusy, jobs, events, timer, utt, abandoned, bounds>>

\* The guard is dropped, then the waiting task learns of the end.
PlayEnds ==
  /\ playing # 0
  /\ playing' = 0
  /\ mute' = FALSE
  /\ jobs' = jobs \cup {Job("play", playing)}
  /\ UNCHANGED <<state, framing, wakeBusy, events, timer, plays, utt, abandoned, bounds>>

\* Nothing is played: the thread has no audio device, or the rate is 0.
PlayFails(u) ==
  /\ playing = 0 /\ u \in plays
  /\ plays' = plays \ {u}
  /\ mute' \in {mute, FALSE}
  /\ jobs' = jobs \cup {Job("play", u)}
  /\ UNCHANGED <<state, framing, wakeBusy, events, timer, playing, utt, abandoned, bounds>>

-----------------------------------------------------------------------------
(* The runner *)

\* A chunk of the recorder.  FeedWake tests one chunk at a time; FeedVad may
\* yield a result (512 samples are needed for one, a chunk has 480).
Chunk(active) ==
  \/ /\ state = "listening"
     /\ ~wakeBusy
     /\ wakeBusy' = TRUE
     /\ UNCHANGED <<state, framing, mute, jobs, events, timer, player, utt, abandoned, bounds>>
  \/ /\ state \in Window
     /\ state' = "capturing"
     /\ Put(Event("vad", active, 0)) \/ UNCHANGED events
     /\ UNCHANGED <<framing, mute, wakeBusy, jobs, timer, player, utt, abandoned, bounds>>

OnStart ==
  /\ Take("start")
  /\ state' = IF state = "off" THEN "listening" ELSE state
  /\ UNCHANGED <<framing, mute, wakeBusy, jobs, timer, player, utt, abandoned, bounds>>

\* Mutant of OnStop: the state is called by its other name.
OnStopStopped ==
  /\ Take("stop")
  /\ state' = "stopped"
  /\ mute' = FALSE
  /\ UNCHANGED <<framing, wakeBusy, jobs, timer, player, utt, abandoned, bounds>>

\* Stop ends no task and no playback.
OnStop ==
  /\ Take("stop")
  /\ state' = "off"
  /\ mute' = IF state = "off" THEN mute ELSE FALSE
  /\ timer' = (timer /\ state \in Busy \cup {"off"})
  /\ abandoned' = (abandoned \/ state \in Busy)
  /\ UNCHANGED <<framing, wakeBusy, jobs, player, utt, bounds>>

\* StartWakeTimeout aborts the timer that runs and arms a new one.
OnWake ==
  /\ Take("wake")
  /\ state = "listening"
  /\ state' = "wake_detected"
  /\ silence' = 0 /\ speech' = 0
  /\ timer' = TRUE
  /\ UNCHANGED <<mute, wakeBusy, jobs, player, utt, abandoned, bounds>>

\* Mutant of OnTimeout: the wake timeout is a cancel in every state.
OnTimeoutAnywhere ==
  /\ Take("timeout")
  /\ state # "off"
  /\ state' = "listening"
  /\ mute' = FALSE
  /\ UNCHANGED <<framing, wakeBusy, jobs, timer, player, utt, abandoned, bounds>>

\* The window closes, whatever was captured in it is dropped.
OnTimeout ==
  /\ Take("timeout")
  /\ state \in Window
  /\ state' = "listening"
  /\ UNCHANGED <<framing, mute, wakeBusy, jobs, timer, player, utt, abandoned, bounds>>

OnSpeech ==
  /\ Take("vad") /\ Head(events).ok
  /\ state = "capturing"
  /\ speech' = Upto(speech + 1, MinSpeech)
  /\ silence' = 0
  /\ UNCHANGED <<state, mute, wakeBusy, jobs, timer, player, utt, abandoned, bounds>>

\* Enough silence after enough speech: the utterance goes to STT.
OnSilence ==
  /\ Take("vad") /\ ~Head(events).ok
  /\ state = "capturing"
  /\ silence' = Upto(silence + 1, SilenceToEnd)
  /\ IF silence' = SilenceToEnd /\ speech = MinSpeech
     THEN /\ state' = "transcribing"
          /\ timer' = FALSE
          /\ utt' = utt + 1
          /\ jobs' = jobs \cup {Job("stt", utt + 1)}
     ELSE UNCHANGED <<state, timer, utt, jobs>>
  /\ UNCHANGED <<speech, mute, wakeBusy, player, abandoned, bounds>>

\* The state in which a stage's result is looked at.
Awaits == [stt |-> "transcribing", chat |-> "generating", tts |-> "speaking",
           play |-> "speaking"]

Spawn(stage) == jobs' = jobs \cup {Job(stage, Head(events).utt)}

OnTranscript ==
  /\ Take("stt") /\ Head(events).ok
  /\ state = "transcribing"
  /\ state' = "generating"
  /\ Spawn("chat")
  /\ UNCHANGED <<framing, mute, wakeBusy, timer, player, utt, abandoned, bounds>>

OnReply ==
  /\ Take("chat") /\ Head(events).ok
  /\ state = "generating"
  /\ state' = "speaking"
  /\ mute' = TRUE
  /\ Spawn("tts")
  /\ UNCHANGED <<framing, wakeBusy, timer, player, utt, abandoned, bounds>>

OnSound ==
  /\ Take("tts") /\ Head(events).ok
  /\ state = "speaking"
  /\ plays' = plays \cup {Head(events).utt}
  /\ UNCHANGED <<state, framing, mute, wakeBusy, jobs, timer, playing, utt, abandoned, bounds>>

\* Mutant of OnFailure: a failed chat is only logged.
OnFailureChatIgnored(stage) ==
  /\ Take(stage) /\ ~Head(events).ok
  /\ state = Awaits[stage]
  /\ IF stage = "chat" THEN UNCHANGED <<state, mute>>
     ELSE state' = "listening" /\ mute' = (mute /\ stage = "stt")
  /\ UNCHANGED <<framing, wakeBusy, jobs, timer, player, utt, abandoned, bounds>>

\* Mutant of OnFailure: a failed TTS leaves the recorder muted.
OnFailureMuted(stage) ==
  /\ Take(stage) /\ ~Head(events).ok
  /\ state = Awaits[stage]
  /\ state' = "listening"
  /\ UNCHANGED <<framing, mute, wakeBusy, jobs, timer, player, utt, abandoned, bounds>>

\* Any stage's failure returns to listening; STT's also resets the framing.
OnFailure(stage) ==
  /\ Take(stage) /\ ~Head(events).ok
  /\ state = Awaits[stage]
  /\ state' = "listening"
  /\ mute' = (mute /\ stage = "stt")
  /\ IF stage = "stt" THEN silence' = 0 /\ speech' = 0 ELSE UNCHANGED framing
  /\ UNCHANGED <<wakeBusy, jobs, timer, player, utt, abandoned, bounds>>

OnPlayed ==
  /\ Take("play") /\ Head(events).ok
  /\ state = "speaking"
  /\ state' = "listening"
  /\ mute' = FALSE
  /\ silence' = 0 /\ speech' = 0
  /\ UNCHANGED <<wakeBusy, jobs, timer, player, utt, abandoned, bounds>>

Unexpected(e) ==
  CASE e.kind = "wake"    -> state # "listening"
    [] e.kind = "timeout" -> state \notin Window
    [] e.kind = "vad"     -> state # "capturing"
    [] e.kind \in Stages  -> state # Awaits[e.kind]
    [] OTHER              -> FALSE

\* The `(state, _) => {}' rows.
OnUnexpected ==
  /\ events # <<>>
  /\ Unexpected(Head(events))
  /\ events' = Tail(events)
  /\ UNCHANGED <<state, framing, mute, wakeBusy, jobs, timer, player, utt, abandoned, bounds>>

Handle == \/ OnStart \/ OnStop \/ OnWake \/ OnTimeout \/ OnSpeech \/ OnSilence
          \/ OnTranscript \/ OnReply \/ OnSound \/ OnPlayed
          \/ \E stage \in Stages : OnFailure(stage)
          \/ OnUnexpected

TasksStep == \/ \E job \in jobs, ok \in BOOLEAN : JobEnds(job, ok)
             \/ TimerFires

PlaybackStep == (\E u \in plays : PlayBegins(u) \/ PlayFails(u)) \/ PlayEnds

Next == \/ \E kind \in {"start", "stop"} : Command(kind)
        \/ WakeHeard \/ WakeNotHeard
        \/ \E active \in BOOLEAN : Chunk(active)
        \/ TasksStep
        \/ PlaybackStep
        \/ Handle

Spec == Init /\ [][Next]_vars

\* Tokio runs its ready tasks; every task has a timeout; sound ends.
Fairness == /\ WF_vars(Handle)
            /\ WF_vars(PlaybackStep)
            /\ SF_vars(TimerFires)
            /\ \A stage \in Stages, u \in 1..MaxWakes :
                 SF_vars(\E ok \in BOOLEAN : JobEnds(Job(stage, u), ok))

FairSpec == Spec /\ Fairness

-----------------------------------------------------------------------------
(* Properties *)

Utterances == 1..MaxWakes

EventKinds == {"start", "stop", "wake", "timeout", "vad"} \cup Stages

\* The values every variable keeps.
TypeOK ==
  /\ state \in Idle \cup Window \cup Busy
  /\ silence \in 0..SilenceToEnd
  /\ speech \in 0..MinSpeech
  /\ mute \in BOOLEAN
  /\ wakeBusy \in BOOLEAN
  /\ jobs \subseteq [stage : Stages, utt : Utterances]
  /\ events \in Seq([kind : EventKinds, ok : BOOLEAN, utt : 0..MaxWakes])
  /\ timer \in BOOLEAN
  /\ plays \subseteq Utterances
  /\ playing \in 0..MaxWakes
  /\ utt \in 0..MaxWakes
  /\ abandoned \in BOOLEAN
  /\ wakes \in 0..MaxWakes
  /\ commands \in 0..MaxCommands

\* While the player emits sound the recorder's chunks are zeroed (mute.rs:3-5).
EchoSafe == playing # 0 => mute

\* EchoSafe, as long as no Stop left an utterance unfinished.
EchoSafeUnlessAbandoned == ~abandoned => EchoSafe

\* As long as no Stop left an utterance unfinished, the result that moves the
\* conversation on is one for the utterance it is about.
OwnResultUnlessAbandoned ==
  [][(state \in Busy /\ state' # state /\ Head(events).kind \in Stages /\ ~abandoned)
       => Head(events).utt = utt]_vars

\* A conversation ends: whatever stage fails, and whatever results of abandoned
\* utterances come late, the machine listens again or is off.
BusyEnds == state \in Busy ~> state \in Idle
=============================================================================
