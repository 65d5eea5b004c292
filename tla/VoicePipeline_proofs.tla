------------------------ MODULE VoicePipeline_proofs ------------------------
(***************************************************************************)
(* Theorems about the two parts of MCVoicePipeline: VoicePipeline, for every *)
(* set of requests and every bound, and Updater, for every number of         *)
(* versions, files, blocks, concurrent calls of install, failures and starts.*)
(***************************************************************************)
EXTENDS MCVoicePipeline, TLAPS

\* The part of TypeOK that the argument needs.
Shape ==
  /\ pc \in [Loops -> Working \cup {"unborn", "between", "read", "ending",
                                    "done"}]
  /\ cancel \in [Loops -> BOOLEAN]
  /\ result \in [Loops -> {"none", "plain", "tools", "error", "cancelled"}]
  /\ at \in [Callers -> {"idle", "starting", "joining", "stopping"}]
  /\ joins \in [Callers -> Loops \cup {0}]
  /\ mainTask \in Loops \cup {0}

Joined(l) == \E c \in Callers : at[c] = "joining" /\ joins[c] = l

\* Where the locals of a playback say how it ended.
ResultInv ==
  \A l \in Loops :
    /\ result[l] = "cancelled" => pc[l] \in {"drain", "tail"}
    /\ pc[l] = "tail" => result[l] # "none"

\* A cancelled task has a stop() that waits for it, until it is done.
JoinInv ==
  \A l \in Loops : cancel[l] \/ result[l] = "cancelled" => Live(l) /\ Joined(l)

\* A playback whose LLM has raised will not leave the busy state.
WillLeave(l) == pc[l] \in Working /\ ~(pc[l] = "tail" /\ result[l] = "error")

OwnerInv ==
  vstate \in Busy /\ ~failed /\ ~micFailed =>
    \/ \E l \in Loops : WillLeave(l)
    \/ \E c \in Callers : at[c] = "joining"

PipelineInv == Shape /\ ResultInv /\ JoinInv /\ OwnerInv

\* PipelineInv holds initially: no task has been born.
LEMMA InitPipelineInv == Init => PipelineInv
BY DEF Init, PipelineInv, Shape, ResultInv, JoinInv, OwnerInv, Busy

\* No step breaks PipelineInv: a task that enters a busy state is at work, one
\* that is cancelled in it has a stop() waiting for it, and a stop() that goes
\* on sets the state to idle.
LEMMA StepPipelineInv == PipelineInv /\ [Next]_vars => PipelineInv'
<1> SUFFICES ASSUME PipelineInv, [Next]_vars PROVE PipelineInv'
  OBVIOUS
<1> USE DEF PipelineInv, Shape, ResultInv, JoinInv, OwnerInv, Joined,
      WillLeave, Live, Working, Guarded, Busy, kernel, requests, locals, chat,
      mic, window, builder, Opening, Closing, RecorderOn, RecorderOff,
      RecorderOnIf, RecorderOffIf, OpenFails, CloseFails
<1>1. ASSUME NEW c \in Callers, Start(c) PROVE PipelineInv'
  BY <1>1 DEF Start, BeginRequest
<1>2. ASSUME NEW c \in Callers, StartResumes(c) PROVE PipelineInv'
  \* The task of a start() was unborn: neither cancelled nor at work.
  <2>1. PICK l \in Unborn : pc' = [pc EXCEPT ![l] = "between"] /\ mainTask' = l
    BY <1>2 DEF StartResumes, Goto
  <2>2. l \in Loops /\ pc[l] = "unborn"
    BY <2>1 DEF Unborn
  <2>3. /\ at' = [at EXCEPT ![c] = "idle"] /\ at[c] = "starting"
        /\ UNCHANGED <<vstate, cancel, result, joins, failed, micFailed>>
    BY <1>2 DEF StartResumes
  <2>4. Shape'
    BY <2>1, <2>2, <2>3
  <2>5. ResultInv'
    BY <2>1, <2>2, <2>3
  <2>6. JoinInv'
    BY <2>1, <2>2, <2>3
  <2>7. OwnerInv'
    BY <2>1, <2>2, <2>3
  <2>8. QED
    BY <2>4, <2>5, <2>6, <2>7
<1>3. ASSUME NEW c \in Callers, Stop(c) PROVE PipelineInv'
  \* What it cancels, it waits for; with no task to cancel it sets the state.
  <2>1. at[c] = "idle" /\ UNCHANGED <<pc, result, mainTask>>
    BY <1>3 DEF Stop, BeginRequest
  <2>2. CASE mainTask # 0
    <3>1. /\ cancel' = [cancel EXCEPT ![mainTask] = Live(mainTask)]
          /\ joins' = [joins EXCEPT ![c] = mainTask]
          /\ at' = [at EXCEPT ![c] = "joining"]
      BY <1>3, <2>2 DEF Stop
    <3>2. mainTask \in Loops
      BY <2>2
    <3>3. Shape'
      BY <2>1, <3>1, <3>2
    <3>4. ResultInv'
      BY <2>1
    <3>5. JoinInv'
      BY <2>1, <3>1, <3>2
    <3>6. OwnerInv'
      BY <3>1
    <3>7. QED
      BY <3>3, <3>4, <3>5, <3>6
  <2>3. CASE mainTask = 0
    <3>1. /\ \E a \in {"stopping", "idle"} : at' = [at EXCEPT ![c] = a]
          /\ vstate' = "idle" \/ micFailed'
          /\ UNCHANGED <<cancel, joins>>
      BY <1>3, <2>3 DEF Stop, SwitchOff
    <3>2. Shape'
      BY <2>1, <3>1
    <3>3. ResultInv'
      BY <2>1
    <3>4. JoinInv'
      BY <2>1, <3>1
    <3>5. OwnerInv'
      BY <3>1
    <3>6. QED
      BY <3>2, <3>3, <3>4, <3>5
  <2>4. QED
    BY <2>2, <2>3
<1>4. ASSUME NEW c \in Callers, StopJoined(c) PROVE PipelineInv'
  <2>1. /\ at[c] = "joining" /\ pc[joins[c]] = "done" /\ mainTask' = 0
        /\ joins' = [joins EXCEPT ![c] = 0]
        /\ \E a \in {"stopping", "idle"} : at' = [at EXCEPT ![c] = a]
        /\ vstate' = "idle" \/ micFailed'
        /\ UNCHANGED <<pc, cancel, result>>
    BY <1>4 DEF StopJoined, SwitchOff
  <2>2. Shape'
    BY <2>1
  <2>3. ResultInv'
    BY <2>1
  <2>4. JoinInv'
    BY <2>1
  <2>5. OwnerInv'
    BY <2>1
  <2>6. QED
    BY <2>2, <2>3, <2>4, <2>5
<1>5. ASSUME NEW c \in Callers, StopPublishes(c) PROVE PipelineInv'
  BY <1>5 DEF StopPublishes
<1>6. ASSUME NEW l \in Loops, NextIteration(l) PROVE PipelineInv'
  BY <1>6 DEF NextIteration, At, Goto, Again
<1>7. ASSUME NEW l \in Loops, IgnoreChunk(l) PROVE PipelineInv'
  BY <1>7 DEF IgnoreChunk, Read, At, Goto, Again
<1>8. ASSUME NEW l \in Loops, HearWakeWord(l) PROVE PipelineInv'
  BY <1>8 DEF HearWakeWord, Read, At, Goto
<1>9. ASSUME NEW l \in Loops, ListenTimeout(l) PROVE PipelineInv'
  BY <1>9 DEF ListenTimeout, Read, At, Goto
<1>10. ASSUME NEW l \in Loops, HearSpeech(l) PROVE PipelineInv'
  BY <1>10 DEF HearSpeech, Read, At, Goto, Again
<1>11. ASSUME NEW l \in Loops, EndOfSpeech(l) PROVE PipelineInv'
  BY <1>11 DEF EndOfSpeech, Read, At, Goto
<1>12. ASSUME NEW l \in Loops, SttEmpty(l) PROVE PipelineInv'
  BY <1>12 DEF SttEmpty, At, Goto
<1>13. ASSUME NEW l \in Loops, SttFails(l) PROVE PipelineInv'
  BY <1>13 DEF SttFails, At, Goto
<1>14. ASSUME NEW l \in Loops, Transcribed(l) PROVE PipelineInv'
  BY <1>14 DEF Transcribed, At, Goto
<1>15. ASSUME NEW l \in Loops, EndUtterance(l) PROVE PipelineInv'
  BY <1>15 DEF EndUtterance, At, Goto, Again
<1>16. ASSUME NEW l \in Loops, Reask(l) PROVE PipelineInv'
  BY <1>16 DEF Reask, Understood, SpeakThen, Goto
<1>17. ASSUME NEW l \in Loops, Confirm(l) PROVE PipelineInv'
  BY <1>17 DEF Confirm, Understood, SpeakThen, Goto
<1>18. ASSUME NEW l \in Loops, ConfirmFails(l) PROVE PipelineInv'
  BY <1>18 DEF ConfirmFails, Understood, Goto
<1>19. ASSUME NEW l \in Loops, Decline(l) PROVE PipelineInv'
  BY <1>19 DEF Decline, Understood, SpeakThen, Goto
<1>20. ASSUME NEW l \in Loops, AnswerWizard(l) PROVE PipelineInv'
  BY <1>20 DEF AnswerWizard, Understood, SpeakThen, Goto
<1>21. ASSUME NEW l \in Loops, StartBuilder(l) PROVE PipelineInv'
  BY <1>21 DEF StartBuilder, NoSession, Understood, SpeakThen, Goto
<1>22. ASSUME NEW l \in Loops, Converse(l) PROVE PipelineInv'
  BY <1>22 DEF Converse, NoSession, Understood, Goto
<1>23. ASSUME NEW l \in Loops, Mute(l) PROVE PipelineInv'
  BY <1>23 DEF Mute, At, Goto
<1>24. ASSUME NEW l \in Loops, PlaybackEnds(l) PROVE PipelineInv'
  BY <1>24 DEF PlaybackEnds, At, Goto
<1>25. ASSUME NEW l \in Loops, DrainEnds(l) PROVE PipelineInv'
  BY <1>25 DEF DrainEnds, At, Goto, ForgetLocals
<1>26. ASSUME NEW l \in Loops, Spoken(l) PROVE PipelineInv'
  BY <1>26 DEF Spoken, At, Goto, Again, ForgetLocals
<1>27. ASSUME NEW l \in Loops, AskLlm(l) PROVE PipelineInv'
  BY <1>27 DEF AskLlm, At, Goto
<1>28. ASSUME NEW l \in Loops, StreamEnds(l) PROVE PipelineInv'
  \* The LLM has raised, or the tail will leave the busy state.
  <2>1. PICK r \in {"plain", "tools", "error"} :
          /\ result' = [result EXCEPT ![l] = r]
          /\ failed' = (failed \/ r = "error")
    BY <1>28 DEF StreamEnds
  <2>2. /\ pc[l] = "stream" /\ ~cancel[l]
        /\ pc' = [pc EXCEPT ![l] = "tail"]
        /\ UNCHANGED <<vstate, cancel, at, joins, mainTask>>
    BY <1>28 DEF StreamEnds, At, Goto
  <2>3. Shape'
    BY <2>1, <2>2
  <2>4. ResultInv'
    BY <2>1, <2>2
  <2>5. JoinInv'
    BY <2>1, <2>2
  <2>6. OwnerInv'
    BY <2>1, <2>2
  <2>7. QED
    BY <2>3, <2>4, <2>5, <2>6
<1>29. ASSUME NEW l \in Loops, TailEnds(l) PROVE PipelineInv'
  BY <1>29 DEF TailEnds, At, Goto, ForgetLocals
<1>30. ASSUME NEW l \in Loops, ToolsEnd(l) PROVE PipelineInv'
  BY <1>30 DEF ToolsEnd, At, SpeakThen, Goto
<1>31. ASSUME NEW l \in Loops, Finish(l) PROVE PipelineInv'
  BY <1>31 DEF Finish, At, Goto
<1>32. ASSUME NEW l \in Loops, Cancelled(l) PROVE PipelineInv'
  \* Whatever the task leaves undone, the stop() that cancelled it will undo.
  <2>1. PICK c \in Callers : at[c] = "joining" /\ joins[c] = l
    BY <1>32 DEF Cancelled
  <2>2. /\ cancel' = [cancel EXCEPT ![l] = FALSE]
        /\ UNCHANGED <<at, joins, mainTask, vstate, failed, micFailed>>
    BY <1>32 DEF Cancelled
  <2>3. OwnerInv'
    BY <2>1, <2>2
  <2>4. CASE pc[l] \in {"play", "stream"}
    <3>1. /\ pc' = [pc EXCEPT ![l] = IF pc[l] = "play" THEN "drain"
                                                       ELSE "tail"]
          /\ result' = [result EXCEPT ![l] = "cancelled"]
      BY <1>32, <2>4 DEF Cancelled, Goto
    <3>2. Shape'
      BY <2>2, <3>1
    <3>3. ResultInv'
      BY <2>4, <3>1
    <3>4. JoinInv'
      BY <2>1, <2>2, <2>4, <3>1
    <3>5. QED
      BY <2>3, <3>2, <3>3, <3>4
  <2>5. CASE pc[l] \notin {"play", "stream"}
    <3>1. /\ pc' = [pc EXCEPT ![l] = "done"]
          /\ result' = [result EXCEPT ![l] = "none"]
      BY <1>32, <2>5 DEF Cancelled, Goto, ForgetLocals
    <3>2. Shape'
      BY <2>2, <3>1
    <3>3. ResultInv'
      BY <3>1
    <3>4. JoinInv'
      BY <2>2, <3>1
    <3>5. QED
      BY <2>3, <3>2, <3>3, <3>4
  <2>6. QED
    BY <2>4, <2>5
<1>33. ASSUME NEW s \in Sessions, SessionGone(s) PROVE PipelineInv'
  BY <1>33 DEF SessionGone
<1>34. CASE ChatSpeaks
  BY <1>34 DEF ChatSpeaks
<1>35. CASE ChatEnds
  BY <1>35 DEF ChatEnds
<1>36. CASE UNCHANGED vars
  BY <1>36 DEF vars
<1>38. ASSUME NEW l \in Loops, RecorderFails(l) PROVE PipelineInv'
  \* The failure is remembered, and the task lives on, as the one that waits for
  \* it expects of a task that is no longer cancelled.
  <2>1. /\ \E p \in {"between", "ending", "ask", "mute"} : pc' = [pc EXCEPT ![l] = p]
        /\ result' = [result EXCEPT ![l] = "none"]
        /\ micFailed' = TRUE
        /\ UNCHANGED <<cancel, at, joins, mainTask>>
    BY <1>38 DEF RecorderFails, Goto, ForgetLocals
  <2>2. ~cancel[l] /\ pc[l] \in {"mute", "muteStream", "drain", "tail"}
    BY <1>38 DEF RecorderFails
  <2>3. Shape'
    BY <2>1
  <2>4. ResultInv'
    BY <2>1
  <2>5. JoinInv'
    BY <2>1, <2>2
  <2>6. QED
    BY <2>1, <2>3, <2>4, <2>5
<1>39. ASSUME NEW l \in Loops, SoundEnds(l) PROVE PipelineInv'
  BY <1>39 DEF SoundEnds
<1>37. QED
  BY <1>1, <1>2, <1>3, <1>4, <1>5, <1>6, <1>7, <1>8, <1>9, <1>10, <1>11,
     <1>12, <1>13, <1>14, <1>15, <1>16, <1>17, <1>18, <1>19, <1>20, <1>21,
     <1>22, <1>23, <1>24, <1>25, <1>26, <1>27, <1>28, <1>29, <1>30, <1>31,
     <1>32, <1>33, <1>34, <1>35, <1>36, <1>38, <1>39 DEF Next, Resumes

\* Unless STT, the LLM or the recorder has raised, no busy state of the voice
\* pipeline is left without somebody to leave it, however many start() and stop()
\* requests overlap (pipeline.py, process_chunk skips every chunk in those states).
THEOREM BusyIsOwned == Spec => []BusyHasOwner
<1>1. PipelineInv => BusyHasOwner
  BY DEF PipelineInv, OwnerInv, WillLeave, BusyHasOwner
<1>2. QED
  BY InitPipelineInv, StepPipelineInv, <1>1, PTL DEF Spec

-----------------------------------------------------------------------------
(* As long as no two requests have overlapped.                             *)

AllIdle == \A c \in Callers : at[c] = "idle"
Quiet == ~overlapped

\* The pipeline is off, but for what a chat answer does to the recorder.
Off == vstate = "idle" /\ (chats = 0 => ~recording)

\* One request at most is under way, and it decides what else there is.
RequestInv ==
  Quiet =>
    /\ \A c, d \in Callers : at[c] # "idle" /\ at[d] # "idle" => c = d
    /\ \A c \in Callers :
         /\ at[c] = "starting" => mainTask = 0 /\ started /\ shown /\ (chats = 0 => recording)
         /\ at[c] = "joining" => ~started /\ mainTask # 0 /\ joins[c] = mainTask
         /\ at[c] = "stopping" => ~started /\ mainTask = 0 /\ Off
    /\ AllIdle /\ ~started => mainTask = 0 /\ (micFailed \/ (Off /\ ~shown))
    /\ AllIdle /\ started => (mainTask = 0 => micFailed) /\ (mainTask # 0 => shown)

Muted == {"play", "stream", "drain", "tail"}

\* A live task never plays into a running recorder; and it knows whether the
\* recorder runs, unless that has raised.
Knows(l) == /\ pc[l] \in Muted => ~recording
            /\ recording /\ pc[l] \in {"mute", "muteStream"} => wasRec[l]
            /\ ~micFailed /\ pc[l] \in Muted \cup {"mute", "muteStream"} => wasRec[l]
            /\ ~micFailed /\ pc[l] \notin Muted => recording

\* The one live task is the main one.
LoopInv ==
  Quiet =>
    /\ \A l \in Loops : Live(l) => l = mainTask
    /\ started /\ chats = 0 /\ mainTask # 0 /\ ~micFailed => Live(mainTask)
    /\ chats = 0 => \A l \in Loops : Live(l) => Knows(l)

\* A task whose sentence was cut off ends in switching the recorder on again, or
\* has failed to and lives on without one.
Cut(l) == ~recording /\ (wasRec[l] => pc[l] = "drain" /\ result[l] = "cancelled")

LingerInv ==
  Quiet /\ chats = 0 =>
    \A l \in Loops : l \in lingers => pc[l] # "unborn" /\ (Live(l) => Cut(l))

Booleans == /\ started \in BOOLEAN /\ recording \in BOOLEAN /\ shown \in BOOLEAN
            /\ overlapped \in BOOLEAN /\ micFailed \in BOOLEAN
            /\ wasRec \in [Loops -> BOOLEAN] /\ chats \in Nat

QuietInv == Booleans /\ RequestInv /\ LoopInv /\ LingerInv

\* What a main-loop task may do between two suspensions.
LoopStep(l) ==
  /\ Live(l) /\ UNCHANGED <<requests, chat>>
  /\ recording' \in BOOLEAN /\ wasRec' \in [Loops -> BOOLEAN]
  /\ micFailed' \in BOOLEAN /\ (micFailed => micFailed')
  /\ \A k \in Loops \ {l} : pc'[k] = pc[k] /\ wasRec'[k] = wasRec[k]
  /\ pc'[l] # "unborn" /\ lingers' \subseteq lingers \cup {l}
  /\ Quiet /\ chats = 0 =>
       /\ started /\ ~micFailed' => Live(l)'
       /\ Live(l)' => Knows(l)'
       /\ Live(l)' /\ l \in lingers' => Cut(l)'

\* QuietInv holds initially.
LEMMA InitQuiet == Init => QuietInv
<1> SUFFICES ASSUME Init PROVE QuietInv
  OBVIOUS
<1>1. Booleans
  BY DEF Init, Booleans
<1>2. RequestInv
  BY DEF Init, RequestInv, AllIdle, Off
<1>3. LoopInv /\ LingerInv
  BY DEF Init, LoopInv, Live, LingerInv
<1>4. QED
  BY <1>1, <1>2, <1>3 DEF QuietInv

\* Such a step of a task keeps all parts: no request is between its steps.
LEMMA LoopStepKeeps ==
  ASSUME NEW l \in Loops, QuietInv, LoopStep(l)
  PROVE  QuietInv'
<1>0. RequestInv /\ LoopInv /\ LingerInv /\ Booleans
  BY DEF QuietInv
<1>1. l # 0 /\ (Quiet => l = mainTask)
  BY <1>0, BoundsAssumption DEF LoopStep, LoopInv, Loops
<1>2. UNCHANGED <<started, mainTask, at, joins, shown, overlapped, chats>>
  BY DEF LoopStep, requests, chat
<1>3. RequestInv'
  BY <1>0, <1>1, <1>2 DEF RequestInv, AllIdle, Quiet, Off, LoopStep
<1>4. LoopInv'
  <2>1. Quiet' => \A k \in Loops : Live(k)' => k = mainTask'
    BY <1>0, <1>1, <1>2 DEF LoopInv, LoopStep, Quiet, Live
  <2>2. Quiet' /\ started' /\ chats' = 0 /\ mainTask' # 0 /\ ~micFailed' => Live(mainTask)'
    BY <1>1, <1>2 DEF LoopStep, Quiet, Live
  <2>3. ASSUME Quiet', chats' = 0, NEW k \in Loops, Live(k)' PROVE Knows(k)'
    <3>1. k = l
      BY <1>1, <1>2, <2>1, <2>3 DEF Quiet
    <3>2. QED
      BY <1>2, <2>3, <3>1 DEF LoopStep, Quiet, Live, Knows
  <2>4. QED
    BY <2>1, <2>2, <2>3 DEF LoopInv
<1>5. Booleans'
  BY <1>0, <1>2 DEF Booleans, LoopStep
<1>7. LingerInv'
  <2> SUFFICES ASSUME NEW k \in Loops, k \in lingers', Quiet', chats' = 0
               PROVE  pc'[k] # "unborn" /\ (Live(k)' => Cut(k)')
    BY DEF LingerInv
  <2>1. CASE k = l
    BY <1>2, <2>1 DEF LoopStep, Quiet, Live, Cut
  <2>2. CASE k # l
    BY <1>0, <1>1, <1>2, <2>2 DEF LoopStep, Quiet, LingerInv, LoopInv, Live
  <2>3. QED
    BY <2>1, <2>2
<1>6. QED
  BY <1>3, <1>4, <1>5, <1>7 DEF QuietInv

\* Every step of a main-loop task is such a step: the recorder is restarted by
\* the finally clause of the playback that stopped it, and a task ends only when
\* it is cancelled, finds the pipeline stopped, or has no recorder any more.
LEMMA ResumesAreLoopSteps ==
  ASSUME NEW l \in Loops, PipelineInv, QuietInv, Resumes(l)
  PROVE  LoopStep(l)
<1> USE DEF LoopStep, At, Goto, kernel, Live, Again, locals, mic, Muted
<1>0. /\ pc \in [Loops -> Working \cup {"unborn", "between", "read", "ending", "done"}]
      /\ wasRec \in [Loops -> BOOLEAN] /\ recording \in BOOLEAN /\ micFailed \in BOOLEAN
      /\ result \in [Loops -> {"none", "plain", "tools", "error", "cancelled"}]
  BY DEF PipelineInv, Shape, QuietInv, Booleans
\* What the invariant says of a live task.
<1>1. Quiet /\ chats = 0 /\ Live(l) => Knows(l) /\ (l \in lingers => Cut(l))
  BY DEF QuietInv, LoopInv, LingerInv
\* A task that is cancelled belongs to a stop(), which has cleared started.
<1>2. Quiet /\ (cancel[l] \/ result[l] = "cancelled") => ~started
  BY DEF PipelineInv, JoinInv, Joined, QuietInv, RequestInv
<1>3. CASE NextIteration(l)
  BY <1>0, <1>1, <1>2, <1>3 DEF NextIteration, Knows, Cut
<1>4. CASE IgnoreChunk(l)
  BY <1>0, <1>1, <1>2, <1>4 DEF IgnoreChunk, Knows, Cut, Read
<1>5. CASE HearWakeWord(l)
  BY <1>0, <1>1, <1>2, <1>5 DEF HearWakeWord, Knows, Cut, Read
<1>6. CASE ListenTimeout(l)
  BY <1>0, <1>1, <1>2, <1>6 DEF ListenTimeout, Knows, Cut, Read
<1>7. CASE HearSpeech(l)
  BY <1>0, <1>1, <1>2, <1>7 DEF HearSpeech, Knows, Cut, Read
<1>8. CASE EndOfSpeech(l)
  BY <1>0, <1>1, <1>2, <1>8 DEF EndOfSpeech, Knows, Cut, Read
<1>9. CASE SttEmpty(l)
  BY <1>0, <1>1, <1>2, <1>9 DEF SttEmpty, Knows, Cut
<1>10. CASE SttFails(l)
  BY <1>0, <1>1, <1>2, <1>10 DEF SttFails, Knows, Cut
<1>11. CASE Transcribed(l)
  BY <1>0, <1>1, <1>2, <1>11 DEF Transcribed, Knows, Cut
<1>12. CASE EndUtterance(l)
  BY <1>0, <1>1, <1>2, <1>12 DEF EndUtterance, Knows, Cut
<1>13. CASE Reask(l)
  BY <1>0, <1>1, <1>2, <1>13 DEF Reask, Knows, Cut, Understood, SpeakThen
<1>14. CASE Confirm(l)
  BY <1>0, <1>1, <1>2, <1>14 DEF Confirm, Knows, Cut, Understood, SpeakThen
<1>15. CASE ConfirmFails(l)
  BY <1>0, <1>1, <1>2, <1>15 DEF ConfirmFails, Knows, Cut, Understood
<1>16. CASE Decline(l)
  BY <1>0, <1>1, <1>2, <1>16 DEF Decline, Knows, Cut, Understood, SpeakThen
<1>17. CASE AnswerWizard(l)
  BY <1>0, <1>1, <1>2, <1>17 DEF AnswerWizard, Knows, Cut, Understood, SpeakThen
<1>18. CASE StartBuilder(l)
  BY <1>0, <1>1, <1>2, <1>18 DEF StartBuilder, Knows, Cut, NoSession, Understood, SpeakThen
<1>19. CASE Converse(l)
  BY <1>0, <1>1, <1>2, <1>19 DEF Converse, Knows, Cut, NoSession, Understood
<1>20. CASE Mute(l)
  BY <1>0, <1>1, <1>2, <1>20 DEF Mute, Knows, Cut, RecorderOffIf, RecorderOff, Closing
<1>21. CASE PlaybackEnds(l)
  BY <1>0, <1>1, <1>2, <1>21 DEF PlaybackEnds, Knows, Cut
<1>22. CASE DrainEnds(l)
  BY <1>0, <1>1, <1>2, <1>22 DEF DrainEnds, Knows, Cut, RecorderOnIf, RecorderOn, Opening, ForgetLocals
<1>23. CASE Spoken(l)
  BY <1>0, <1>1, <1>2, <1>23 DEF Spoken, Knows, Cut, ForgetLocals
<1>24. CASE AskLlm(l)
  BY <1>0, <1>1, <1>2, <1>24 DEF AskLlm, Knows, Cut
<1>25. CASE StreamEnds(l)
  BY <1>0, <1>1, <1>2, <1>25 DEF StreamEnds, Knows, Cut
<1>26. CASE TailEnds(l)
  BY <1>0, <1>1, <1>2, <1>26 DEF TailEnds, Knows, Cut, RecorderOnIf, RecorderOn, Opening, ForgetLocals, PipelineInv, ResultInv, Shape
<1>27. CASE ToolsEnd(l)
  BY <1>0, <1>1, <1>2, <1>27 DEF ToolsEnd, Knows, Cut, SpeakThen
<1>28. CASE Finish(l)
  BY <1>0, <1>1, <1>2, <1>28 DEF Finish, Knows, Cut
<1>29. CASE Cancelled(l)
  <2>1. /\ cancel[l] /\ UNCHANGED <<requests, chat, recording, micFailed>> /\ Live(l)
        /\ lingers' \subseteq lingers \cup {l}
    BY <1>29 DEF Cancelled, PipelineInv, JoinInv
  <2>2. CASE pc[l] \in {"play", "stream"}
    <3>1. /\ pc' = [pc EXCEPT ![l] = IF pc[l] = "play" THEN "drain" ELSE "tail"]
          /\ result' = [result EXCEPT ![l] = "cancelled"]
          /\ pc[l] = "stream" => lingers' = lingers
          /\ UNCHANGED wasRec
      BY <1>29, <2>2 DEF Cancelled
    <3>2. /\ pc'[l] = IF pc[l] = "play" THEN "drain" ELSE "tail"
          /\ result'[l] = "cancelled" /\ \A k \in Loops \ {l} : pc'[k] = pc[k]
      BY <1>0, <3>1
    <3>3. recording' \in BOOLEAN /\ wasRec' \in [Loops -> BOOLEAN]
      BY <1>0, <2>1, <3>1
    <3>4. Quiet /\ chats = 0 => Live(l)' /\ Knows(l)' /\ (l \in lingers' => Cut(l)')
      BY <1>1, <2>1, <2>2, <3>1, <3>2 DEF Knows, Cut
    <3>5. QED
      BY <1>0, <2>1, <3>1, <3>2, <3>3, <3>4
  <2>3. CASE pc[l] \notin {"play", "stream"}
    <3>1. /\ pc' = [pc EXCEPT ![l] = "done"]
          /\ wasRec' = [wasRec EXCEPT ![l] = FALSE]
      BY <1>29, <2>3 DEF Cancelled, ForgetLocals
    <3>2. pc'[l] = "done" /\ \A k \in Loops \ {l} : pc'[k] = pc[k] /\ wasRec'[k] = wasRec[k]
      BY <1>0, <3>1
    <3>3. recording' \in BOOLEAN /\ wasRec' \in [Loops -> BOOLEAN]
      BY <1>0, <2>1, <3>1
    <3>4. ~Live(l)' /\ (Quiet => ~started)
      BY <1>2, <2>1, <3>2
    <3>5. QED
      BY <1>0, <2>1, <3>2, <3>3, <3>4
  <2>4. QED
    BY <2>2, <2>3
<1>31. CASE RecorderFails(l)
  <2>1. /\ \E p \in {"between", "ending", "ask", "mute"} : pc' = [pc EXCEPT ![l] = p]
        /\ wasRec' = [wasRec EXCEPT ![l] = FALSE]
        /\ micFailed' = TRUE /\ recording' = FALSE
        /\ UNCHANGED <<requests, chat, lingers>>
    BY <1>0, <1>31 DEF RecorderFails, ForgetLocals, OpenFails, CloseFails, Opening, Closing
  <2>2. pc[l] \in {"mute", "muteStream", "drain", "tail"}
    BY <1>31 DEF RecorderFails
  <2>3. /\ pc'[l] \in {"between", "ending", "ask", "mute"} /\ ~wasRec'[l]
        /\ \A k \in Loops \ {l} : pc'[k] = pc[k] /\ wasRec'[k] = wasRec[k]
    BY <1>0, <2>1
  <2>4. wasRec' \in [Loops -> BOOLEAN]
    BY <1>0, <2>1
  <2>5. QED
    BY <2>1, <2>2, <2>3, <2>4 DEF Knows, Cut
<1>30. QED
  BY <1>3, <1>4, <1>5, <1>6, <1>7, <1>8, <1>9, <1>10, <1>11, <1>12, <1>13, <1>14, <1>15, <1>16, <1>17, <1>18, <1>19, <1>20, <1>21, <1>22, <1>23, <1>24, <1>25, <1>26, <1>27, <1>28, <1>29, <1>31 DEF Resumes

\* A chat answer that is being spoken has been counted.
ChatInv == chats \in Nat /\ (chatAt = "speaking" => chats > 0)

\* Only the chat route's two steps touch what is counted.
LEMMA StepChat == ChatInv /\ [Next]_vars => ChatInv'
<1>1. [Next]_vars => UNCHANGED chat \/ ChatSpeaks \/ ChatEnds
  BY DEF Next, Resumes, vars, Start, StartResumes, Stop, StopJoined, StopPublishes, NextIteration, IgnoreChunk,
     HearWakeWord, ListenTimeout, HearSpeech, EndOfSpeech, Read, SttEmpty, SttFails, Transcribed, EndUtterance,
     Reask, Confirm, ConfirmFails, Decline, AnswerWizard, StartBuilder, Converse, NoSession, Understood, Mute,
     PlaybackEnds, DrainEnds, Spoken, AskLlm, StreamEnds, TailEnds, ToolsEnd, Finish, Cancelled, SessionGone, kernel, RecorderFails, SoundEnds
<1>2. QED
  BY <1>1 DEF ChatInv, ChatSpeaks, ChatEnds, chat

\* No step breaks QuietInv.
LEMMA StepQuiet == ChatInv /\ PipelineInv /\ QuietInv /\ [Next]_vars => QuietInv'
<1> SUFFICES ASSUME ChatInv, PipelineInv, QuietInv, [Next]_vars PROVE QuietInv'
  OBVIOUS
<1> USE DEF requests, chat, locals, mic
<1>0. RequestInv /\ LoopInv /\ Booleans /\ LingerInv
  BY DEF QuietInv
<1>1. ASSUME NEW l \in Loops, Resumes(l) PROVE QuietInv'
  BY <1>1, ResumesAreLoopSteps, LoopStepKeeps
\* While a request is idle in a quiet pipeline, so are all.
<1>2. ASSUME NEW c \in Callers, BeginRequest(c), Quiet' PROVE Quiet /\ AllIdle
  BY <1>0, <1>2 DEF BeginRequest, Quiet, AllIdle, Booleans
<1>3. ASSUME NEW c \in Callers, Start(c) PROVE QuietInv'
  <2>1. /\ BeginRequest(c) /\ ~started /\ started' = TRUE
        /\ UNCHANGED <<pc, wasRec, mainTask, joins, chats, lingers, result>>
    BY <1>3 DEF Start
  <2>5. Quiet' => Quiet /\ AllIdle /\ \A l \in Loops : ~Live(l)
    BY <1>0, <1>2, <2>1, BoundsAssumption DEF RequestInv, LoopInv, Loops
  <2>6. LingerInv'
    BY <1>0, <2>1, <2>5 DEF LingerInv, Live
  <2>2. CASE OpenFails /\ UNCHANGED <<vstate, shown, at>>
    <3>1. Booleans'
      BY <1>0, <2>1, <2>2 DEF Booleans, BeginRequest, OpenFails
    <3>2. RequestInv'
      BY <1>0, <2>1, <2>2, <2>5 DEF RequestInv, AllIdle, OpenFails
    <3>3. LoopInv'
      BY <2>1, <2>2, <2>5 DEF LoopInv, Live, OpenFails
    <3>4. QED
      BY <2>6, <3>1, <3>2, <3>3 DEF QuietInv
  <2>3. CASE /\ RecorderOnIf(~recording) /\ vstate' = "idle" /\ shown' = TRUE
             /\ at' = [at EXCEPT ![c] = "starting"]
    <3>1. recording' = TRUE /\ UNCHANGED micFailed
      BY <1>0, <2>3 DEF RecorderOnIf, RecorderOn, Booleans
    <3>2. Booleans'
      BY <1>0, <2>1, <2>3, <3>1 DEF Booleans, BeginRequest
    <3>3. RequestInv'
      BY <1>0, <2>1, <2>3, <2>5, <3>1 DEF RequestInv, AllIdle, Off, PipelineInv, Shape
    <3>4. LoopInv'
      BY <1>0, <2>1, <2>3, <2>5, <3>1 DEF LoopInv, RequestInv, Live
    <3>5. QED
      BY <2>6, <3>2, <3>3, <3>4 DEF QuietInv
  <2>4. QED
    BY <1>3, <2>2, <2>3 DEF Start
<1>4. ASSUME NEW c \in Callers, StartResumes(c) PROVE QuietInv'
  <2>1. PICK l \in Unborn : pc' = [pc EXCEPT ![l] = "between"] /\ mainTask' = l
    BY <1>4 DEF StartResumes, Goto
  <2>2. l \in Loops /\ l # 0 /\ pc[l] = "unborn"
    BY <2>1, BoundsAssumption DEF Unborn, Loops
  <2>3. /\ at[c] = "starting" /\ at' = [at EXCEPT ![c] = "idle"]
        /\ UNCHANGED <<recording, wasRec, started, joins, shown, overlapped, micFailed, chats, vstate, lingers, result>>
    BY <1>4 DEF StartResumes
  <2>4. pc' \in [Loops -> Working \cup {"unborn", "between", "read", "ending", "done"}]
        /\ \A k \in Loops : pc'[k] = IF k = l THEN "between" ELSE pc[k]
    BY <2>1, <2>2 DEF PipelineInv, Shape
  <2>5. Quiet => \A k \in Loops : ~Live(k)
    BY <1>0, <2>3, BoundsAssumption DEF RequestInv, LoopInv, Loops
  <2>6. Booleans'
    BY <1>0, <2>3 DEF Booleans
  <2>7. RequestInv'
    BY <1>0, <2>1, <2>2, <2>3 DEF RequestInv, AllIdle, Quiet, PipelineInv, Shape
  <2>8. LoopInv'
    BY <1>0, <2>1, <2>2, <2>3, <2>4, <2>5 DEF LoopInv, RequestInv, Live, Knows, Muted, Quiet
  <2>10. LingerInv'
    BY <1>0, <2>2, <2>3, <2>4, <2>5 DEF LingerInv, Live, Quiet
  <2>9. QED
    BY <2>6, <2>7, <2>8, <2>10 DEF QuietInv
<1>5. ASSUME NEW c \in Callers, Stop(c) PROVE QuietInv'
  <2>1. BeginRequest(c) /\ started' = FALSE /\ UNCHANGED <<pc, wasRec, mainTask, shown, chats, lingers, result>>
    BY <1>5 DEF Stop
  <2>2. CASE mainTask # 0
    <3>1. /\ joins' = [joins EXCEPT ![c] = mainTask] /\ at' = [at EXCEPT ![c] = "joining"]
          /\ UNCHANGED <<recording, vstate, micFailed>>
      BY <1>5, <2>2 DEF Stop
    <3>2. Booleans'
      BY <1>0, <2>1, <3>1 DEF Booleans, BeginRequest
    <3>3. RequestInv'
      BY <1>0, <1>2, <2>1, <2>2, <3>1 DEF RequestInv, AllIdle, Off, PipelineInv, Shape
    <3>4. LoopInv' /\ LingerInv'
      BY <1>0, <1>2, <2>1, <3>1 DEF LoopInv, Live, Knows, LingerInv, Cut
    <3>5. QED
      BY <3>2, <3>3, <3>4 DEF QuietInv
  <2>3. CASE mainTask = 0
    <3>1. /\ recording' = FALSE /\ UNCHANGED joins
          /\ \/ at' = [at EXCEPT ![c] = "stopping"] /\ vstate' = "idle" /\ micFailed' = FALSE
             \/ at' = [at EXCEPT ![c] = "idle"] /\ micFailed' = TRUE
      BY <1>5, <2>3 DEF Stop, SwitchOff, Closing, CloseFails
    <3>2. Booleans'
      BY <1>0, <2>1, <3>1 DEF Booleans, BeginRequest
    <3>6. Quiet' => Quiet /\ AllIdle /\ \A l \in Loops : ~Live(l)
      BY <1>0, <1>2, <2>1, <2>3, BoundsAssumption DEF LoopInv, Loops
    <3>3. RequestInv'
      BY <2>1, <2>3, <3>1, <3>6 DEF RequestInv, AllIdle, Off, PipelineInv, Shape
    <3>4. LoopInv' /\ LingerInv'
      BY <1>0, <2>1, <3>1, <3>6 DEF LoopInv, LingerInv, Live
    <3>5. QED
      BY <3>2, <3>3, <3>4 DEF QuietInv
  <2>4. QED
    BY <2>2, <2>3
<1>6. ASSUME NEW c \in Callers, StopJoined(c) PROVE QuietInv'
  <2>1. /\ at[c] = "joining" /\ pc[joins[c]] = "done" /\ mainTask' = 0
        /\ joins' = [joins EXCEPT ![c] = 0] /\ recording' = FALSE
        /\ \/ at' = [at EXCEPT ![c] = "stopping"] /\ vstate' = "idle" /\ micFailed' = FALSE
           \/ at' = [at EXCEPT ![c] = "idle"] /\ micFailed' = TRUE
        /\ UNCHANGED <<pc, wasRec, started, shown, overlapped, chats, lingers, result>>
    BY <1>6 DEF StopJoined, SwitchOff, Closing, CloseFails
  <2>2. Quiet => \A k \in Loops : ~Live(k)
    BY <1>0, <2>1 DEF RequestInv, LoopInv, Live
  <2>3. Booleans'
    BY <1>0, <2>1 DEF Booleans
  <2>4. RequestInv'
    BY <1>0, <2>1 DEF RequestInv, AllIdle, Off, Quiet, PipelineInv, Shape
  <2>5. LoopInv' /\ LingerInv'
    BY <1>0, <2>1, <2>2 DEF LoopInv, LingerInv, Live, Quiet
  <2>6. QED
    BY <2>3, <2>4, <2>5 DEF QuietInv
<1>7. ASSUME NEW c \in Callers, StopPublishes(c) PROVE QuietInv'
  <2>1. /\ at[c] = "stopping" /\ at' = [at EXCEPT ![c] = "idle"] /\ shown' = FALSE
        /\ UNCHANGED <<pc, wasRec, recording, vstate, started, mainTask, joins, overlapped, micFailed, chats, lingers, result>>
    BY <1>7 DEF StopPublishes
  <2>2. Booleans'
    BY <1>0, <2>1 DEF Booleans
  <2>3. RequestInv'
    BY <1>0, <2>1 DEF RequestInv, AllIdle, Off, Quiet, PipelineInv, Shape
  <2>4. LoopInv' /\ LingerInv'
    BY <1>0, <2>1 DEF LoopInv, LingerInv, Live, Quiet, Knows, Cut
  <2>5. QED
    BY <2>2, <2>3, <2>4 DEF QuietInv
<1>8. CASE (\E s \in Sessions : SessionGone(s)) \/ (\E l \in Loops : SoundEnds(l)) \/ UNCHANGED vars
  <2>1. UNCHANGED <<pc, wasRec, recording, micFailed, vstate, requests, chat, result>> /\ lingers' \subseteq lingers
    BY <1>8 DEF SessionGone, SoundEnds, kernel, vars
  <2>2. RequestInv' /\ LoopInv' /\ Booleans'
    BY <1>0, <2>1 DEF Booleans, RequestInv, LoopInv, AllIdle, Off, Quiet, Live, Knows
  <2>3. LingerInv'
    BY <1>0, <2>1 DEF LingerInv, Quiet, Live, Cut
  <2>4. QED
    BY <2>2, <2>3 DEF QuietInv
<1>9. CASE ChatSpeaks \/ ChatEnds
  <2>1. UNCHANGED <<pc, wasRec, vstate, requests>>
    BY <1>9 DEF ChatSpeaks, ChatEnds
  <2>3. recording' \in BOOLEAN /\ micFailed' \in BOOLEAN /\ (micFailed => micFailed')
    <3>1. /\ recording' = TRUE \/ recording' = FALSE \/ recording' = recording
          /\ micFailed' = TRUE \/ micFailed' = micFailed
      BY <1>9 DEF ChatSpeaks, ChatEnds, RecorderOnIf, RecorderOn, RecorderOffIf, RecorderOff,
                  Closing, Opening, OpenFails, CloseFails
    <3>2. recording' \in BOOLEAN
      BY <1>0, <3>1 DEF Booleans
    <3>3. CASE micFailed' = TRUE
      BY <3>2, <3>3
    <3>4. CASE micFailed' = micFailed
      <4>1. micFailed \in BOOLEAN
        BY <1>0 DEF Booleans
      <4>2. QED
        BY <3>2, <3>4, <4>1, Zenon
    <3>5. QED
      BY <3>1, <3>3, <3>4
  <2>4. chats' \in Nat /\ chats' > 0
    BY <1>9 DEF ChatInv, ChatSpeaks, ChatEnds
  <2>5. LingerInv'
    BY <2>4 DEF LingerInv
  <2>6. RequestInv' /\ LoopInv' /\ Booleans'
    BY <1>0, <2>1, <2>3, <2>4 DEF Booleans, RequestInv, LoopInv, AllIdle, Off, Quiet, Live, Knows
  <2>2. QED
    BY <2>5, <2>6 DEF QuietInv
<1>10. QED
  BY <1>1, <1>3, <1>4, <1>5, <1>6, <1>7, <1>8, <1>9 DEF Next

\* QuietInv holds throughout.
LEMMA AlwaysQuietInv == Spec => []QuietInv
<1>1. Init => ChatInv
  BY DEF Init, ChatInv
<1>2. Spec => []ChatInv
  BY <1>1, StepChat, PTL DEF Spec
<1>3. Spec => []PipelineInv
  BY InitPipelineInv, StepPipelineInv, PTL DEF Spec
<1>4. QED
  BY <1>2, <1>3, InitQuiet, StepQuiet, PTL DEF Spec

\* Once a stop() that met no other request has returned, and not raised, no task
\* is left at work and, but for a chat answer, no microphone is on, whatever it
\* cancelled (stop() and the finally clauses of playback).
THEOREM StoppedIsOff == Spec => []StoppedMeansOff
<1>1. QuietInv => StoppedMeansOff
  BY BoundsAssumption DEF QuietInv, RequestInv, LoopInv, Off, AllIdle, Quiet, StoppedMeansOff, Settled, Loops
<1>2. QED
  BY AlwaysQuietInv, <1>1, PTL

\* A pipeline shown as active has a live main loop that hears or is at work
\* (start(), and the recorder that every playback switches on again).
THEOREM StartedIsListening == Spec => []StartedMeansListening
<1>1. QuietInv /\ PipelineInv => StartedMeansListening
  <2> SUFFICES ASSUME QuietInv, PipelineInv, Settled, started, chats = 0, ~micFailed
               PROVE  /\ shown /\ mainTask # 0 /\ Live(mainTask)
                      /\ recording \/ pc[mainTask] \in Working
    BY DEF StartedMeansListening
  <2>1. shown /\ mainTask # 0
    BY DEF QuietInv, RequestInv, AllIdle, Quiet, Settled
  <2>2. Live(mainTask) /\ mainTask \in Loops
    BY <2>1 DEF QuietInv, LoopInv, Quiet, Settled, PipelineInv, Shape
  <2>3. Knows(mainTask)
    BY <2>2 DEF QuietInv, LoopInv, Quiet, Settled
  <2>4. QED
    BY <2>1, <2>2, <2>3 DEF Knows, Muted, Working, Guarded
<1>2. Spec => []PipelineInv
  BY InitPipelineInv, StepPipelineInv, PTL DEF Spec
<1>3. QED
  BY AlwaysQuietInv, <1>1, <1>2, PTL

\* A task never plays into an open microphone, recorder failures included; the
\* rest of a sentence that a stop() has cut off may be heard, but not before its
\* task has ended (_play_tts_with_guard, _speak_streaming_response).
THEOREM PlaysWithMicOff == Spec => []MicOffWhilePlaying
<1>1. QuietInv /\ PipelineInv => MicOffWhilePlaying
  <2> SUFFICES ASSUME QuietInv, PipelineInv, Quiet, chats = 0, NEW l \in Loops, Sounds(l), recording
               PROVE  l \in lingers /\ pc[l] = "done"
    BY DEF MicOffWhilePlaying, Quiet
  <2>1. pc[l] \notin Playing
    BY DEF QuietInv, LoopInv, Knows, Muted, Live, Playing
  <2>2. l \in lingers
    BY <2>1 DEF Sounds
  <2>3. pc[l] # "unborn" /\ ~Live(l)
    BY <2>2 DEF QuietInv, LingerInv, Cut
  <2>4. QED
    BY <2>2, <2>3 DEF Live
<1>2. Spec => []PipelineInv
  BY InitPipelineInv, StepPipelineInv, PTL DEF Spec
<1>3. QED
  BY AlwaysQuietInv, <1>1, <1>2, PTL

-----------------------------------------------------------------------------
(* The updater.                                                            *)

\* What is assumed of the constants: a version has a setup, so one file.
Sizes ==
  /\ Last \in Nat /\ Number \in Nat \ {0} /\ Size \in Nat
  /\ MaxFaults \in Nat /\ MaxRestarts \in Nat

\* The types of a file, of all files, of the download's task and of a call.
Files == [len: 0..Size + 1, good: BOOLEAN]
Disks == [U!Versions -> [U!Assets -> Files]]
Loads == [at: {"idle", "asset", "asked", "reading", "hashing"}, v: 0..Last, a: 1..Number + 1]
CallsOf == [at: {"none", "looked", "verifying", "spawned"}, setup: 0..Last,
            v: 0..Last, a: 1..Number + 1, ready: BOOLEAN]

\* TypeOK in these names.
Typed ==
  /\ current \in 0..Last /\ published \in 0..Last /\ available \in 0..Last
  /\ answer \in {<<>>} \cup {<<v>> : v \in 0..Last}
  /\ phase \in {"idle", "available", "downloading", "ready", "installing", "error"}
  /\ disk \in Disks /\ load \in Loads /\ install \in [Calls -> CallsOf]
  /\ faults \in 0..MaxFaults /\ starts \in 0..MaxRestarts

Verified(v, n) == \A a \in U!Assets : a < n => U!Whole(disk[v][a])

\* The task of a download lives exactly while the phase says so: from ready to
\* the installer's end nobody of the desktop writes a file.
LoadInv == load.at # "idle" => phase = "downloading" /\ load.v # 0 /\ load.a <= Number

\* A version that is offered has files.
OfferInv == phase # "idle" => available # 0

\* A call whose path was looked up when the update was ready still speaks of the
\* version on offer: no check replaces it from then on.
LookedInv ==
  \A c \in Calls :
    /\ install[c].ready => install[c].at # "none" /\ install[c].setup = available
                           /\ phase \notin {"idle", "available"}

\* One call at most is past the second look, and the phase is installing; the
\* files it has been through are whole.
ClaimInv ==
  /\ \A c \in Calls : install[c].at = "looked" => install[c].a = 1
  /\ \A c, d \in Calls : install[c].at \in {"verifying", "spawned"}
                         => (install[d].at \in {"verifying", "spawned"} => c = d)
  /\ \A c \in Calls :
       install[c].at \in {"verifying", "spawned"} =>
         /\ phase = "installing" /\ install[c].v = available /\ available # 0
         /\ Verified(available, install[c].a)
         /\ install[c].at = "spawned" => install[c].a > Number

UpdaterInv == Typed /\ LoadInv /\ OfferInv /\ LookedInv /\ ClaimInv

\* What a start makes of the memory of the desktop, and the first state is such.
Forgotten ==
  /\ answer = <<>> /\ phase = "idle" /\ available = 0
  /\ load = U!Idle /\ install = [c \in Calls |-> U!NoCall]

\* In such a state there is no download and no call.
LEMMA ForgottenInv == Forgotten => LoadInv /\ OfferInv /\ LookedInv /\ ClaimInv
<1> SUFFICES ASSUME Forgotten PROVE LoadInv /\ OfferInv /\ LookedInv /\ ClaimInv
  OBVIOUS
<1>1. \A c \in Calls : install[c].at = "none"
  BY DEF Forgotten, U!NoCall
<1>7. \A c \in Calls : ~install[c].ready
  BY DEF Forgotten, U!NoCall
<1>2. LoadInv
  BY DEF Forgotten, U!Idle, LoadInv
<1>3. OfferInv
  BY DEF Forgotten, OfferInv
<1>4. LookedInv
  BY <1>7 DEF LookedInv
<1>5. ClaimInv
  BY <1>1 DEF ClaimInv
<1>6. QED
  BY <1>2, <1>3, <1>4, <1>5

\* Empty files have the type of the disk.
LEMMA EmptyType == ASSUME Sizes PROVE U!Empty \in Files
BY DEF Sizes, U!Empty, Files

\* The same of a call.
LEMMA NoCallType == ASSUME Sizes PROVE U!NoCall \in CallsOf /\ U!NoCall.at = "none" /\ ~U!NoCall.ready
BY DEF Sizes, U!NoCall, CallsOf

\* It has the type of the whole, if the rest has.
LEMMA ForgottenType ==
  ASSUME Sizes
  PROVE  /\ Forgotten /\ current \in 0..Last /\ published \in 0..Last
         /\ disk \in Disks /\ faults \in 0..MaxFaults /\ starts \in 0..MaxRestarts
         => Typed
<1>1. U!Idle \in Loads
  BY DEF Sizes, U!Idle, Loads
<1>2. U!NoCall \in CallsOf
  BY NoCallType
<1>3. QED
  BY <1>1, <1>2 DEF Sizes, Forgotten, Typed

\* UpdaterInv holds initially.
LEMMA InitUpdaterInv == ASSUME Sizes PROVE U!Init => UpdaterInv
<1> SUFFICES ASSUME U!Init PROVE UpdaterInv
  OBVIOUS
<1>1. Forgotten
  BY DEF U!Init, Forgotten
<1>2. Typed
  <2>1. disk \in Disks
    BY EmptyType DEF U!Init, Disks
  <2>2. QED
    BY <1>1, <2>1, ForgottenType DEF Sizes, U!Init
<1>3. QED
  BY <1>1, <1>2, ForgottenInv DEF UpdaterInv

\* Writing one file with a legal content keeps the type of the disk.
LEMMA WriteType ==
  ASSUME Sizes, NEW v \in U!Versions, NEW a \in U!Assets, NEW f \in Files,
         disk \in Disks
  PROVE  [disk EXCEPT ![v][a] = f] \in Disks
<1> USE DEF Disks
<1>1. [disk[v] EXCEPT ![a] = f] \in [U!Assets -> Files]
  OBVIOUS
<1>2. QED
  BY <1>1

\* What the task of a download does: it writes one file of the version it loads,
\* goes to another file, fails, or makes the update ready.
LEMMA DownloadStep ==
  ASSUME Sizes, UpdaterInv, U!Download \/ U!header_arrives
  PROVE  /\ phase = "downloading" /\ phase' \in {"downloading", "error", "ready"}
         /\ load' \in Loads
         /\ load'.at # "idle" => phase' = "downloading" /\ load'.v # 0 /\ load'.a <= Number
         /\ disk' \in Disks
         /\ faults' \in 0..MaxFaults
         /\ UNCHANGED <<current, published, answer, available, install, starts>>
<1> USE DEF Sizes, UpdaterInv, U!Fault
<1>1. load.v \in U!Versions /\ load.a \in U!Assets /\ U!File \in Files
  <2>1. load.v # 0 /\ load.a <= Number /\ load \in Loads
    BY DEF U!Download, U!download_asset, U!header_arrives, U!read_chunk, U!hash_asset, Typed, LoadInv
  <2>2. load.v \in U!Versions /\ load.a \in U!Assets
    BY <2>1 DEF Loads, U!Versions, U!Assets
  <2>3. QED
    BY <2>2 DEF Typed, Disks, U!File
<1>2. ASSUME NEW f \in Files, U!Write(f)
      PROVE  disk' \in Disks
  BY <1>1, <1>2, WriteType DEF U!Write, Typed
<1>3. U!Empty \in Files
  BY EmptyType
<1>4. load.at # "idle" /\ phase = "downloading" /\ load.v # 0 /\ load.a <= Number
  BY DEF U!Download, U!download_asset, U!header_arrives, U!read_chunk, U!hash_asset, LoadInv
<1>5. ASSUME U!Next_asset
      PROVE  load' \in Loads /\ load'.v # 0 /\ load'.a <= Number
  <2>1. load \in Loads /\ load.a \in 1..Number
    BY <1>1 DEF Typed, U!Assets
  <2>2. CASE load.a = Number
    <3>1. load' = [load EXCEPT !.at = "hashing", !.a = 1]
      BY <1>5, <2>2 DEF U!Next_asset
    <3>2. load' = [at |-> "hashing", v |-> load.v, a |-> 1]
      BY <2>1, <3>1 DEF Loads
    <3>3. QED
      BY <1>4, <2>1, <3>2 DEF Loads
  <2>3. CASE load.a # Number
    <3>1. load' = [load EXCEPT !.at = "asset", !.a = load.a + 1]
      BY <1>5, <2>3 DEF U!Next_asset
    <3>2. load' = [at |-> "asset", v |-> load.v, a |-> load.a + 1]
      BY <2>1, <3>1 DEF Loads
    <3>3. load.a + 1 \in 1..Number
      BY <2>1, <2>3
    <3>4. QED
      BY <1>4, <2>1, <3>2, <3>3 DEF Loads
  <2>4. QED
    BY <2>2, <2>3
<1>6. ASSUME U!Fails PROVE load' \in Loads /\ load'.at = "idle" /\ phase' = "error"
  BY <1>6 DEF U!Fails, U!Idle, Loads
<1>7. CASE U!download_asset
  <2>1. /\ load' \in Loads
        /\ \/ load'.v # 0 /\ load'.a <= Number
           \/ load'.at = "idle" /\ phase' = "error"
    <3>1. [load EXCEPT !.at = "asked"] \in Loads /\ load \in Loads
      BY DEF Typed, Loads
    <3>2. [load EXCEPT !.at = "asked"].v = load.v /\ [load EXCEPT !.at = "asked"].a = load.a
      BY <3>1 DEF Loads
    <3>3. QED
      BY <1>4, <1>5, <1>6, <1>7, <3>1, <3>2 DEF U!download_asset
  <2>2. phase' \in {"downloading", "error"} /\ (load'.at # "idle" => phase' = "downloading")
    BY <1>4, <1>6, <1>7 DEF U!download_asset
  <2>3. disk' \in Disks
    BY <1>1, <1>2, <1>3, <1>7 DEF U!download_asset, Typed, Disks
  <2>4. QED
    BY <1>4, <1>7, <2>1, <2>2, <2>3 DEF U!download_asset, Typed
<1>11. CASE U!header_arrives
  <2>1. /\ load' \in Loads
        /\ \/ load'.v # 0 /\ load'.a <= Number
           \/ load'.at = "idle" /\ phase' = "error"
    <3>1. [load EXCEPT !.at = "reading"] \in Loads /\ load \in Loads
      BY DEF Typed, Loads
    <3>2. [load EXCEPT !.at = "reading"].v = load.v /\ [load EXCEPT !.at = "reading"].a = load.a
      BY <3>1 DEF Loads
    <3>3. QED
      BY <1>4, <1>5, <1>6, <1>11, <3>1, <3>2 DEF U!header_arrives
  <2>2. phase' \in {"downloading", "error"} /\ (load'.at # "idle" => phase' = "downloading")
    BY <1>4, <1>6, <1>11 DEF U!header_arrives
  <2>3. disk' \in Disks
    BY <1>1, <1>2, <1>3, <1>11 DEF U!header_arrives, Typed, Disks
  <2>4. QED
    BY <1>4, <1>11, <2>1, <2>2, <2>3 DEF U!header_arrives, Typed
<1>8. CASE U!read_chunk
  <2>1. /\ load' \in Loads
        /\ \/ load'.v # 0 /\ load'.a <= Number
           \/ load'.at = "idle" /\ phase' = "error"
    <3>1. [load EXCEPT !.at = "reading"] \in Loads /\ load \in Loads
      BY DEF Typed, Loads
    <3>2. [load EXCEPT !.at = "reading"].v = load.v /\ [load EXCEPT !.at = "reading"].a = load.a
      BY <3>1 DEF Loads
    <3>3. QED
      BY <1>4, <1>5, <1>6, <1>8, <3>1, <3>2 DEF U!read_chunk
  <2>2. phase' \in {"downloading", "error"} /\ (load'.at # "idle" => phase' = "downloading")
    BY <1>4, <1>6, <1>8 DEF U!read_chunk
  <2>3. /\ U!File.len < Size => [U!File EXCEPT !.len = @ + 1] \in Files
        /\ U!File.len <= Size => [len |-> U!File.len + 1, good |-> FALSE] \in Files
    BY <1>1 DEF Files
  <2>4. disk' \in Disks
    BY <1>2, <1>8, <2>3 DEF U!read_chunk, Typed, Disks
  <2>5. QED
    BY <1>4, <1>8, <2>1, <2>2, <2>4 DEF U!read_chunk, Typed
<1>9. CASE U!hash_asset
  <2>1. CASE ~U!Whole(U!File)
    BY <1>2, <1>3, <1>4, <1>6, <1>9, <2>1 DEF U!hash_asset, Typed
  <2>2. CASE U!Whole(U!File) /\ load.a = Number
    BY <1>4, <1>9, <2>2 DEF U!hash_asset, Typed, U!Idle, Loads, Disks
  <2>3. CASE U!Whole(U!File) /\ load.a # Number
    <3>1. load' = [load EXCEPT !.a = load.a + 1] /\ UNCHANGED <<phase, disk, faults>>
      BY <1>9, <2>3 DEF U!hash_asset
    <3>2. load' \in Loads /\ load'.v = load.v /\ load'.a <= Number
      BY <1>1, <1>4, <2>3, <3>1 DEF Typed, Loads, U!Assets
    <3>3. QED
      BY <1>4, <1>9, <3>1, <3>2 DEF U!hash_asset, Typed, Disks
  <2>4. QED
    BY <2>1, <2>2, <2>3
<1>10. QED
  BY <1>7, <1>8, <1>9, <1>11 DEF U!Download

\* No step breaks UpdaterInv: what writes a file or moves the offer needs a phase
\* in which no call is past its second look.
LEMMA StepUpdaterInv == ASSUME Sizes PROVE UpdaterInv /\ [U!Next]_U!vars => UpdaterInv'
<1> SUFFICES ASSUME UpdaterInv, [U!Next]_U!vars PROVE UpdaterInv'
  OBVIOUS
<1> USE DEF Sizes, UpdaterInv, U!Fault
<1>1. CASE U!check_fetches
  BY <1>1 DEF U!check_fetches, Typed, LoadInv, OfferInv, LookedInv, ClaimInv, Verified, U!Whole
<1>2. CASE U!check_takes
  <2>1. answer[1] \in 0..Last
    BY <1>2 DEF U!check_takes, Typed
  <2>2. Typed'
    BY <1>2, <2>1 DEF U!check_takes, Typed
  <2>3. LoadInv' /\ OfferInv'
    BY <1>2, <2>1 DEF U!check_takes, Typed, LoadInv, OfferInv
  <2>4. LookedInv' /\ ClaimInv'
    BY <1>2, <2>1 DEF U!check_takes, LookedInv, ClaimInv, Verified, U!Whole
  <2>5. QED
    BY <2>2, <2>3, <2>4
<1>3. CASE U!start_download
  <2>1. /\ phase \in {"idle", "available", "error"} /\ phase' \in {"error", "downloading"}
        /\ UNCHANGED <<current, published, answer, available, disk, install, starts>>
    BY <1>3 DEF U!start_download
  <2>2. \/ load' = load
        \/ load' = [at |-> "asset", v |-> available, a |-> 1] /\ phase' = "downloading"
    BY <1>3 DEF U!start_download
  <2>3. Typed' /\ available # 0
    BY <1>3, <2>1, <2>2 DEF U!start_download, Typed, Loads
  <2>4. LoadInv' /\ OfferInv'
    BY <2>1, <2>2, <2>3 DEF LoadInv, OfferInv
  <2>5. LookedInv' /\ ClaimInv'
    BY <2>1 DEF LookedInv, ClaimInv
  <2>6. QED
    BY <2>3, <2>4, <2>5
<1>4. CASE U!Download \/ U!header_arrives
  <2>1. UpdaterInv /\ phase' \in {"downloading", "error", "ready"}
    BY <1>4, DownloadStep
  <2>2. QED
    BY <1>4, <2>1, DownloadStep DEF Typed, LoadInv, OfferInv, LookedInv, ClaimInv
<1>5. ASSUME NEW c \in Calls, U!install_looks(c) PROVE UpdaterInv'
  <2> DEFINE looked == [U!NoCall EXCEPT !.at = "looked", !.setup = available, !.ready = phase = "ready"]
  <2>1. /\ install' = [install EXCEPT ![c] = looked] /\ install[c].at = "none"
        /\ UNCHANGED <<current, published, answer, phase, available, disk, load, faults, starts>>
    BY <1>5, NoCallType DEF U!install_looks, U!Goto
  <2>2. U!NoCall \in CallsOf /\ U!NoCall.a = 1 /\ available \in 0..Last /\ (phase = "ready") \in BOOLEAN
    BY NoCallType DEF Typed, U!NoCall
  <2>3. /\ looked \in CallsOf /\ looked.at = "looked" /\ looked.setup = available /\ looked.a = 1
        /\ looked.ready => phase = "ready"
    BY <2>2 DEF CallsOf
  <2> HIDE DEF looked
  <2>4. install'[c] = looked /\ \A d \in Calls \ {c} : install'[d] = install[d]
    BY <2>1 DEF Typed
  <2>5. Typed'
    BY <2>1, <2>3 DEF Typed
  <2>6. LookedInv'
    BY <2>1, <2>3, <2>4 DEF LookedInv
  <2>7. ClaimInv'
    BY <2>1, <2>3, <2>4 DEF ClaimInv, Verified
  <2>8. QED
    BY <2>1, <2>5, <2>6, <2>7 DEF LoadInv, OfferInv
<1>6. ASSUME NEW c \in Calls, U!install_begins(c) PROVE UpdaterInv'
  <2> DEFINE begun == [install[c] EXCEPT !.at = "verifying", !.v = available]
  <2>1. install[c] \in CallsOf /\ install[c].at = "looked"
        /\ UNCHANGED <<current, published, answer, available, disk, load, faults, starts>>
    BY <1>6 DEF U!install_begins, Typed
  <2>2. CASE phase = "ready"
    <3>1. phase' = "installing" /\ install' = [install EXCEPT ![c] = begun]
      BY <1>6, <2>2 DEF U!install_begins, U!Goto
    <3>2. begun \in CallsOf /\ begun.at = "verifying" /\ begun.v = available /\ begun.a = install[c].a
          /\ begun.setup = install[c].setup /\ begun.ready = install[c].ready
      BY <2>1 DEF CallsOf, Typed
    <3>3. Typed'
      BY <2>1, <3>1, <3>2 DEF Typed
    <3>4. LoadInv' /\ OfferInv'
      BY <2>1, <2>2, <3>1 DEF LoadInv, OfferInv
    <3>5. LookedInv'
      BY <2>1, <2>2, <3>1, <3>2 DEF LookedInv, Typed
    <3>6. Verified(available, 1)
      BY DEF Verified, U!Assets
    <3>7. install[c].a = 1
      BY <2>1 DEF ClaimInv
    <3>8. ClaimInv'
      BY <2>1, <2>2, <3>1, <3>2, <3>6, <3>7 DEF ClaimInv, OfferInv, Typed, Verified
    <3>9. QED
      BY <3>3, <3>4, <3>5, <3>8
  <2>3. CASE phase # "ready"
    <3>1. phase' = phase /\ install' = [install EXCEPT ![c] = U!NoCall]
      BY <1>6, <2>3 DEF U!install_begins, U!Goto
    <3>2. Typed'
      BY <2>1, <3>1, NoCallType DEF Typed
    <3>3. LookedInv' /\ ClaimInv'
      BY <2>1, <3>1, NoCallType DEF LookedInv, ClaimInv, Verified, Typed
    <3>4. QED
      BY <2>1, <3>1, <3>2, <3>3 DEF LoadInv, OfferInv
  <2>4. QED
    BY <2>2, <2>3
<1>7. ASSUME NEW c \in Calls, U!verify(c) PROVE UpdaterInv'
  <2> DEFINE v == install[c].v  a == install[c].a
  <2>1. /\ phase = "installing" /\ v = available /\ v \in U!Versions /\ a \in U!Assets
        /\ Verified(v, a) /\ load.at = "idle"
        /\ \A d \in Calls : install[d].at \in {"verifying", "spawned"} => d = c
    <3>1. install[c] \in CallsOf /\ install[c].at = "verifying" /\ a <= Number
      BY <1>7 DEF U!verify, Typed
    <3>2. phase = "installing" /\ v = available /\ available # 0 /\ Verified(v, a)
      BY <3>1 DEF ClaimInv
    <3>3. v \in U!Versions /\ a \in U!Assets
      BY <3>1, <3>2 DEF CallsOf, U!Versions, U!Assets
    <3>4. QED
      BY <3>1, <3>2, <3>3 DEF LoadInv, ClaimInv
  <2>2. CASE U!Whole(disk[v][a])
    <3> DEFINE next == [install[c] EXCEPT !.a = a + 1]
    <3>1. /\ install' = [install EXCEPT ![c] = next]
          /\ UNCHANGED <<current, published, answer, phase, available, disk, load, faults, starts>>
      BY <1>7, <2>2 DEF U!verify, U!Goto
    <3>2. next \in CallsOf /\ next.at = "verifying" /\ next.v = v /\ next.a = a + 1
          /\ next.setup = install[c].setup /\ next.ready = install[c].ready
      <4>1. install[c] \in CallsOf /\ install[c].at = "verifying" /\ a + 1 \in 1..Number + 1
        BY <1>7, <2>1 DEF U!verify, Typed, U!Assets
      <4>2. QED
        BY <4>1 DEF CallsOf
    <3>3. Verified(v, a + 1)
      BY <2>1, <2>2 DEF Verified, U!Assets
    <3>4. Typed'
      BY <3>1, <3>2 DEF Typed
    <3>5. ClaimInv'
      BY <1>7, <2>1, <3>1, <3>2, <3>3 DEF U!verify, ClaimInv, Typed, Verified
    <3>6. LookedInv'
      BY <1>7, <3>1, <3>2 DEF U!verify, LookedInv, Typed
    <3>7. QED
      BY <3>1, <3>4, <3>5, <3>6 DEF LoadInv, OfferInv
  <2>3. CASE ~U!Whole(disk[v][a])
    <3>1. /\ install' = [install EXCEPT ![c] = U!NoCall]
          /\ phase' = "error" /\ disk' = [disk EXCEPT ![v][a] = U!Empty]
          /\ UNCHANGED <<current, published, answer, available, load, faults, starts>>
      BY <1>7, <2>3 DEF U!verify, U!Goto
    <3>2. disk' \in Disks
      BY <2>1, <3>1, WriteType, EmptyType DEF Typed
    <3>3. Typed'
      BY <3>1, <3>2, NoCallType DEF Typed
    <3>4. LookedInv' /\ ClaimInv'
      <4>1. install'[c] = U!NoCall /\ \A d \in Calls \ {c} : install'[d] = install[d]
        BY <2>1, <3>1 DEF Typed
      <4>2. \A d \in Calls : install'[d].ready => d # c
        BY <4>1, NoCallType
      <4>3. \A d \in Calls : install'[d].at \notin {"verifying", "spawned"} /\ (install'[d].at = "looked" => d # c)
        BY <2>1, <4>1, NoCallType
      <4>4. LookedInv'
        BY <2>1, <2>1, <3>1, <4>1, <4>2 DEF LookedInv
      <4>5. ClaimInv'
        BY <4>1, <4>3 DEF ClaimInv
      <4>6. QED
        BY <4>4, <4>5
    <3>5. QED
      BY <2>1, <3>1, <3>3, <3>4 DEF LoadInv, OfferInv
  <2>4. QED
    BY <2>2, <2>3
<1>8. ASSUME NEW c \in Calls, U!spawn(c) PROVE UpdaterInv'
  <2> DEFINE gone == [install[c] EXCEPT !.at = "spawned"]
  <2>1. /\ phase = "installing" /\ load.at = "idle" /\ install[c] \in CallsOf
        /\ \A d \in Calls : install[d].at \in {"verifying", "spawned"} => d = c
        /\ UNCHANGED <<current, published, answer, available, disk, load, starts>>
    BY <1>8 DEF U!spawn, Typed, LoadInv, ClaimInv
  <2>2. CASE install' = [install EXCEPT ![c] = gone] /\ UNCHANGED <<phase, faults>>
    <3>1. gone \in CallsOf /\ gone.at = "spawned" /\ gone.v = install[c].v /\ gone.a = install[c].a
          /\ gone.setup = install[c].setup /\ gone.ready = install[c].ready
      BY <2>1 DEF CallsOf
    <3>2. Typed'
      BY <2>1, <2>2, <3>1 DEF Typed
    <3>3. LookedInv' /\ ClaimInv'
      BY <1>8, <2>1, <2>2, <3>1 DEF U!spawn, LookedInv, ClaimInv, Typed, Verified
    <3>4. QED
      BY <2>1, <2>2, <3>2, <3>3 DEF LoadInv, OfferInv
  <2>3. CASE install' = [install EXCEPT ![c] = U!NoCall] /\ phase' = "error" /\ U!Fault
    <3>1. Typed'
      BY <2>1, <2>3, NoCallType DEF Typed
    <3>2. LookedInv' /\ ClaimInv'
      <4>1. install'[c] = U!NoCall /\ \A d \in Calls \ {c} : install'[d] = install[d]
        BY <2>1, <2>3 DEF Typed
      <4>2. \A d \in Calls : install'[d].ready => d # c
        BY <4>1, NoCallType
      <4>3. \A d \in Calls : install'[d].at \notin {"verifying", "spawned"} /\ (install'[d].at = "looked" => d # c)
        BY <2>1, <4>1, NoCallType
      <4>4. LookedInv'
        BY <2>1, <2>1, <2>3, <4>1, <4>2 DEF LookedInv
      <4>5. ClaimInv'
        BY <4>1, <4>3 DEF ClaimInv
      <4>6. QED
        BY <4>4, <4>5
    <3>3. QED
      BY <2>1, <2>3, <3>1, <3>2 DEF LoadInv, OfferInv
  <2>4. QED
    BY <1>8, <2>2, <2>3 DEF U!spawn, U!Goto
<1>9. ASSUME NEW v \in 0..Last, U!Start(v) PROVE UpdaterInv'
  <2>1. Forgotten'
    BY <1>9 DEF U!Start, Forgotten
  <2>2. disk' \in Disks
    <3>1. disk' = [w \in U!Versions |-> IF w > v THEN disk[w] ELSE [a \in U!Assets |-> U!Empty]]
      BY <1>9 DEF U!Start
    <3>2. \A w \in U!Versions : disk[w] \in [U!Assets -> Files]
      BY DEF Typed, Disks
    <3>3. [a \in U!Assets |-> U!Empty] \in [U!Assets -> Files]
      BY EmptyType
    <3>4. QED
      BY <3>1, <3>2, <3>3 DEF Disks
  <2>3. (Forgotten => LoadInv /\ OfferInv /\ LookedInv /\ ClaimInv)'
    BY ForgottenInv, PTL
  <2>4. (/\ Forgotten /\ current \in 0..Last /\ published \in 0..Last
         /\ disk \in Disks /\ faults \in 0..MaxFaults /\ starts \in 0..MaxRestarts
         => Typed)'
    BY ForgottenType, PTL
  <2>5. /\ current' \in 0..Last /\ published' \in 0..Last
        /\ faults' \in 0..MaxFaults /\ starts' \in 0..MaxRestarts
    BY <1>9 DEF U!Start, Typed
  <2>6. QED
    BY <2>1, <2>2, <2>3, <2>4, <2>5
<1>10. CASE U!Restart
  BY <1>9, <1>10 DEF U!Restart, Typed
<1>11. CASE U!Installed
  <2>1. PICK c \in Calls : U!Start(install[c].setup) \/ U!Start(current)
    BY <1>11 DEF U!Installed
  <2>2. install[c].setup \in 0..Last /\ current \in 0..Last
    BY DEF Typed, CallsOf
  <2>3. QED
    BY <1>9, <2>1, <2>2
<1>12. CASE U!Publish
  BY <1>12 DEF U!Publish, Typed, LoadInv, OfferInv, LookedInv, ClaimInv, Verified, U!Whole
<1>13. CASE U!Damage
  <2>1. PICK v \in U!Versions, a \in U!Assets, f \in Files :
          disk' = [disk EXCEPT ![v][a] = f]
    <3>1. PICK v \in U!Versions, a \in U!Assets :
            disk[v][a].len > 0 /\ \E f \in {U!Empty, [disk[v][a] EXCEPT !.good = FALSE]} : disk' = [disk EXCEPT ![v][a] = f]
      BY <1>13 DEF U!Damage
    <3>2. disk[v][a] \in Files
      BY DEF Typed, Disks
    <3>3. [disk[v][a] EXCEPT !.good = FALSE] \in Files
      BY <3>2 DEF Files
    <3>4. QED
      BY <3>1, <3>3, EmptyType
  <2>2. disk' \in Disks
    BY <2>1, WriteType DEF Typed
  <2>3. phase # "installing"
        /\ UNCHANGED <<current, published, answer, phase, available, load, install, starts>>
    BY <1>13 DEF U!Damage
  <2>4. Typed'
    BY <1>13, <2>2, <2>3 DEF U!Damage, Typed
  <2>5. LookedInv' /\ ClaimInv'
    BY <2>3 DEF LookedInv, ClaimInv
  <2>6. QED
    BY <2>3, <2>4, <2>5 DEF LoadInv, OfferInv
<1>14. CASE UNCHANGED U!vars
  BY <1>14 DEF U!vars, Typed, LoadInv, OfferInv, LookedInv, ClaimInv, Verified, U!Whole
<1>15. QED
  BY <1>1, <1>2, <1>3, <1>4, <1>5, <1>6, <1>7, <1>8, <1>10, <1>11, <1>12, <1>13, <1>14 DEF U!Next

-----------------------------------------------------------------------------
\* The updater of the run does nothing but the updater's steps.
LEMMA RunsUpdater == MCSpec => U!Spec
<1>1. MCInit => U!Init
  BY DEF MCInit
<1>2. [MCNext]_<<part, vars, updater>> => [U!Next]_U!vars
  BY DEF MCNext, updater, U!vars
<1>3. QED
  BY <1>1, <1>2, PTL DEF MCSpec, U!Spec

\* The type invariant of the updater, for every instance.
THEOREM UpdaterTypeCorrect == ASSUME Sizes PROVE U!Spec => []U!TypeOK
<1>1. UpdaterInv => U!TypeOK
  BY DEF UpdaterInv, Typed, U!TypeOK, Files, Disks, Loads, CallsOf
<1>2. QED
  BY InitUpdaterInv, StepUpdaterInv, <1>1, PTL DEF U!Spec

\* An installer that was asked for when the update was ready is started on the
\* whole files of its own version, whatever is published, checked, clicked and
\* damaged meanwhile, by however many callers (updater.rs, install_with).
THEOREM OnlyVerifiedIsInstalled ==
  ASSUME Sizes
  PROVE  /\ U!Spec => []InstalledIsVerified
         /\ MCSpec => []InstalledIsVerified
<1>1. UpdaterInv => InstalledIsVerified
  <2> SUFFICES ASSUME UpdaterInv, NEW c \in Calls, install[c].at = "spawned", install[c].ready
               PROVE  U!WholeVersion(install[c].setup)
    BY DEF InstalledIsVerified, U!InstalledIsVerified
  <2>1. install[c].setup = available
    BY DEF UpdaterInv, LookedInv
  <2>2. available # 0 /\ Verified(available, install[c].a) /\ install[c].a > Number
    BY DEF UpdaterInv, ClaimInv
  <2>3. install[c].a \in Nat
    BY DEF UpdaterInv, Typed, CallsOf
  <2>4. QED
    BY <2>1, <2>2, <2>3 DEF Verified, U!WholeVersion, U!Assets, Sizes
<1>2. U!Spec => []InstalledIsVerified
  BY InitUpdaterInv, StepUpdaterInv, <1>1, PTL DEF U!Spec
<1>3. QED
  BY <1>2, RunsUpdater, PTL

=============================================================================
