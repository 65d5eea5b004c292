---------------------------- MODULE Voice_proofs ----------------------------
(***************************************************************************)
(* Theorems about the two parts of MCVoice: the desktop's voice machine,   *)
(* for every framing, every capacity of its channel and any number of wake *)
(* words and commands; and its bridge to the Python worker, for every set  *)
(* of calls and every capacity of the channel and of the pipe.             *)
(***************************************************************************)
EXTENDS MCVoice, SequenceTheorems, TLAPS

(* The voice machine.  While no Stop has left an utterance unfinished there *)
(* is one piece of work in a busy state, and none in the others.            *)

Message == [kind : EventKinds, ok : BOOLEAN, utt : Nat]

\* No event of the queue q is a stage's result.
NoResult(q) == \A i \in 1..Len(q) : q[i].kind \notin Stages

\* One event of q is: that of stage s for the utterance u.
OneResult(q, s, u) ==
  \E i \in 1..Len(q) : /\ q[i].kind = s /\ q[i].utt = u
                       /\ \A j \in 1..Len(q) : q[j].kind \in Stages => j = i

Channel ==
  /\ events \in Seq(Message) /\ utt \in Nat
  /\ jobs \subseteq [stage : Stages, utt : Nat] /\ plays \subseteq Nat /\ playing \in Nat
  /\ state \in Idle \cup Window \cup Busy

Silent == plays = {} /\ playing = 0

\* Nothing is at work for any utterance.
NoWork == jobs = {} /\ NoResult(events) /\ Silent

\* A stage is at work for the current utterance, or its result is in the channel,
\* or the utterance waits for the playback thread, or is played and not heard.
AtWork(s)   == jobs = {Job(s, utt)} /\ NoResult(events) /\ Silent
Finished(s) == jobs = {} /\ OneResult(events, s, utt) /\ Silent
Queued      == jobs = {} /\ NoResult(events) /\ plays = {utt} /\ playing = 0
Sounding    == jobs = {} /\ NoResult(events) /\ plays = {} /\ playing = utt /\ mute

\* The work of a state is that whose result the state awaits.
OneWork ==
  \/ state \notin Busy /\ NoWork
  \/ \E s \in Stages : state = Awaits[s] /\ (AtWork(s) \/ Finished(s))
  \/ state = "speaking" /\ (Queued \/ Sounding)

MachineInv == Channel /\ (~abandoned => OneWork)

\* What sending an event makes of the results in the channel.
LEMMA AppendResult ==
  ASSUME NEW q \in Seq(Message), NEW e \in Message
  PROVE  /\ Append(q, e) \in Seq(Message)
         /\ NoResult(q) /\ e.kind \notin Stages => NoResult(Append(q, e))
         /\ NoResult(q) /\ e.kind \in Stages => OneResult(Append(q, e), e.kind, e.utt)
         /\ \A s \in Stages, u \in Nat :
              OneResult(q, s, u) /\ e.kind \notin Stages => OneResult(Append(q, e), s, u)
<1> DEFINE r == Append(q, e)  n == Len(q)
<1>1. /\ r \in Seq(Message) /\ n \in Nat /\ Len(r) = n + 1
      /\ \A i \in 1..n : i \in 1..Len(r) /\ r[i] = q[i]
      /\ n + 1 \in 1..Len(r) /\ r[n + 1] = e
      /\ \A i \in 1..Len(r) : i \in 1..n \/ i = n + 1
  OBVIOUS
<1> HIDE DEF r, n
<1>2. NoResult(q) <=> \A i \in 1..n : q[i].kind \notin Stages
  BY DEF NoResult, n
<1>3. ASSUME NoResult(q), e.kind \notin Stages PROVE NoResult(r)
  BY <1>1, <1>2, <1>3 DEF NoResult
<1>4. ASSUME NoResult(q), e.kind \in Stages PROVE OneResult(r, e.kind, e.utt)
  BY <1>1, <1>2, <1>4 DEF OneResult
<1>5. ASSUME NEW s \in Stages, NEW u \in Nat, OneResult(q, s, u), e.kind \notin Stages
      PROVE  OneResult(r, s, u)
  <2>1. PICK i \in 1..n : /\ q[i].kind = s /\ q[i].utt = u
                          /\ \A j \in 1..n : q[j].kind \in Stages => j = i
    BY <1>5 DEF OneResult, n
  <2>2. i \in 1..Len(r) /\ r[i].kind = s /\ r[i].utt = u
    BY <1>1, <2>1
  <2>3. \A j \in 1..Len(r) : r[j].kind \in Stages => j = i
    BY <1>1, <1>5, <2>1
  <2>4. QED
    BY <2>2, <2>3 DEF OneResult
<1>6. QED
  BY <1>1, <1>3, <1>4, <1>5 DEF r

\* What taking the first event makes of them.
LEMMA TailResult ==
  ASSUME NEW q \in Seq(Message), q # <<>>
  PROVE  /\ Tail(q) \in Seq(Message) /\ Head(q) \in Message
         /\ NoResult(q) => NoResult(Tail(q)) /\ Head(q).kind \notin Stages
         /\ \A s \in Stages, u \in Nat :
              OneResult(q, s, u) =>
                \/ Head(q).kind = s /\ Head(q).utt = u /\ NoResult(Tail(q))
                \/ Head(q).kind \notin Stages /\ OneResult(Tail(q), s, u)
<1> DEFINE r == Tail(q)  n == Len(r)
<1>1. /\ r \in Seq(Message) /\ n \in Nat /\ Len(q) = n + 1 /\ Head(q) = q[1] /\ q[1] \in Message
      /\ \A i \in 1..n : r[i] = q[i + 1] /\ i + 1 \in 1..Len(q)
      /\ 1 \in 1..Len(q) /\ \A i \in 1..Len(q) : i = 1 \/ (i - 1 \in 1..n /\ r[i - 1] = q[i])
  BY EmptySeq
<1>2. ASSUME NoResult(q) PROVE NoResult(r) /\ Head(q).kind \notin Stages
  BY <1>1, <1>2 DEF NoResult
<1>3. ASSUME NEW s \in Stages, NEW u \in Nat, OneResult(q, s, u)
      PROVE  \/ Head(q).kind = s /\ Head(q).utt = u /\ NoResult(r)
             \/ Head(q).kind \notin Stages /\ OneResult(r, s, u)
  <2>1. PICK i \in 1..Len(q) : /\ q[i].kind = s /\ q[i].utt = u
                               /\ \A j \in 1..Len(q) : q[j].kind \in Stages => j = i
    BY <1>3 DEF OneResult
  <2>2. CASE i = 1
    <3>1. \A j \in 1..n : q[j + 1].kind \notin Stages
      BY <1>1, <2>1, <2>2
    <3>2. QED
      BY <1>1, <2>1, <2>2, <3>1 DEF NoResult
  <2>3. CASE i # 1
    <3>1. i - 1 \in 1..n /\ r[i - 1].kind = s /\ r[i - 1].utt = u
      BY <1>1, <2>1, <2>3
    <3>2. \A j \in 1..n : r[j].kind \in Stages => j = i - 1
      BY <1>1, <2>1
    <3>3. Head(q).kind \notin Stages
      BY <1>1, <2>1, <2>3
    <3>4. QED
      BY <3>1, <3>2, <3>3 DEF OneResult
  <2>4. QED
    BY <2>2, <2>3
<1>4. QED
  BY <1>1, <1>2, <1>3

\* MachineInv holds initially: the machine is off and has heard nothing.
LEMMA InitMachineInv == Init => MachineInv
BY DEF Init, MachineInv, Channel, OneWork, NoWork, NoResult, Silent, Idle, Busy

\* What the work of a state is does not change when the channel keeps its results,
\* and the state, the mute flag and the rest of the work do.
LEMMA SameWork ==
  ASSUME OneWork, NoResult(events) => NoResult(events'),
         \A s \in Stages : OneResult(events, s, utt) => OneResult(events', s, utt),
         state' = state \/ (state \notin Busy /\ state' \notin Busy),
         mute' = mute \/ state \notin Busy, UNCHANGED <<jobs, player, utt>>
  PROVE  OneWork'
<1> USE DEF player, Silent
<1>1. NoWork => NoWork'
  BY DEF NoWork
<1>2. \A s \in Stages : (AtWork(s) => AtWork(s)') /\ (Finished(s) => Finished(s)')
  BY DEF AtWork, Finished, Job
<1>3. \A s \in Stages : Awaits[s] \in Busy
  BY DEF Stages, Awaits, Busy
<1>4. Queued => Queued'
  BY DEF Queued
<1>5. Sounding /\ mute' = mute => Sounding'
  BY DEF Sounding
<1>6. "speaking" \in Busy
  BY DEF Busy
<1>7. QED
  BY <1>1, <1>2, <1>3, <1>4, <1>5, <1>6 DEF OneWork

\* An event that is no result is sent.
LEMMA SignalKeeps ==
  ASSUME MachineInv, NEW e \in Message, e.kind \notin Stages, events' = Append(events, e),
         state' \in Idle \cup Window \cup Busy,
         state' = state \/ (state \notin Busy /\ state' \notin Busy),
         UNCHANGED <<mute, jobs, player, utt, abandoned>>
  PROVE  MachineInv'
<1> USE DEF MachineInv, Channel
<1>1. Channel'
  BY AppendResult DEF player
<1>2. OneWork => OneWork'
  BY AppendResult, SameWork
<1>3. QED
  BY <1>1, <1>2

\* An event that is no result is taken.
LEMMA TakeKeeps ==
  ASSUME MachineInv, events # <<>>, Head(events).kind \notin Stages, events' = Tail(events),
         state' \in Idle \cup Window \cup Busy,
         state' = state \/ (state \notin Busy /\ state' \notin Busy),
         mute' = mute \/ state \notin Busy, UNCHANGED <<jobs, player, utt, abandoned>>
  PROVE  MachineInv'
<1> USE DEF MachineInv, Channel
<1>1. Channel'
  BY TailResult DEF player
<1>2. \A s \in Stages : OneResult(events, s, utt) => OneResult(events', s, utt)
  BY TailResult
<1>3. NoResult(events) => NoResult(events')
  BY TailResult
<1>4. OneWork => OneWork'
  BY <1>2, <1>3, SameWork
<1>5. QED
  BY <1>1, <1>4

\* A result that is taken, while no Stop has left an utterance unfinished, is the
\* one the state awaits, for the current utterance, and the only work.
LEMMA TakesOwn ==
  ASSUME MachineInv, ~abandoned, events # <<>>, Head(events).kind \in Stages
  PROVE  /\ state = Awaits[Head(events).kind] /\ Head(events).utt = utt
         /\ jobs = {} /\ NoResult(Tail(events)) /\ Silent
<1> USE DEF MachineInv, Channel
<1>1. ~NoResult(events)
  BY TailResult
<1>2. PICK s \in Stages : state = Awaits[s] /\ Finished(s)
  BY <1>1 DEF OneWork, NoWork, AtWork, Queued, Sounding
<1>3. Head(events).kind = s /\ Head(events).utt = utt /\ NoResult(Tail(events))
  BY <1>2, TailResult DEF Finished
<1>4. QED
  BY <1>2, <1>3 DEF Finished

\* No step of the machine, of its tasks or of the playback thread breaks MachineInv.
LEMMA StepMachineInv == MachineInv /\ [Next]_vars => MachineInv'
<1> SUFFICES ASSUME MachineInv, [Next]_vars PROVE MachineInv'
  OBVIOUS
<1>0. /\ Channel /\ "capturing" \notin Busy /\ "listening" \notin Busy /\ "off" \notin Busy
      /\ {"capturing", "listening", "wake_detected", "off"} \cap Busy = {}
      /\ {"start", "stop", "wake", "timeout", "vad"} \cap Stages = {}
  BY DEF MachineInv, Busy, Stages
<1>1. ASSUME NEW kind \in {"start", "stop", "wake", "timeout", "vad"}, NEW ok \in BOOLEAN,
             Put(Event(kind, ok, 0)), state' \in Idle \cup Window \cup Busy,
             state' = state \/ (state \notin Busy /\ state' \notin Busy),
             UNCHANGED <<mute, jobs, player, utt, abandoned>>
      PROVE  MachineInv'
  <2>1. Event(kind, ok, 0) \in Message /\ Event(kind, ok, 0).kind = kind
    BY DEF Event, Message, EventKinds
  <2>2. QED
    BY <1>0, <1>1, <2>1, SignalKeeps DEF Put
<1>2. ASSUME state' \in Idle \cup Window \cup Busy,
             state' = state \/ (state \notin Busy /\ state' \notin Busy),
             UNCHANGED <<mute, jobs, events, player, utt, abandoned>>
      PROVE  MachineInv'
  BY <1>0, <1>2, SameWork DEF MachineInv, Channel, player
<1>3. ASSUME NEW kind \in {"start", "stop"}, Command(kind) PROVE MachineInv'
  BY <1>0, <1>1, <1>3 DEF Command, Channel
<1>4. CASE WakeHeard
  BY <1>0, <1>1, <1>4 DEF WakeHeard, Channel
<1>5. CASE WakeNotHeard
  BY <1>0, <1>2, <1>5 DEF WakeNotHeard, Channel
<1>6. ASSUME NEW active \in BOOLEAN, Chunk(active) PROVE MachineInv'
  <2>1. CASE state = "listening" /\ UNCHANGED <<state, mute, jobs, events, player, utt, abandoned>>
    BY <1>0, <1>2, <2>1 DEF Channel
  <2>2. CASE /\ state \in Window /\ state' = "capturing" /\ (Put(Event("vad", active, 0)) \/ UNCHANGED events)
             /\ UNCHANGED <<mute, jobs, player, utt, abandoned>>
    <3>1. state' \in Idle \cup Window \cup Busy /\ state \notin Busy /\ state' \notin Busy
      BY <2>2 DEF Window, Busy
    <3>2. QED
      BY <1>1, <1>2, <2>2, <3>1
  <2>3. QED
    BY <1>6, <2>1, <2>2 DEF Chunk
<1>7. CASE TimerFires
  BY <1>0, <1>1, <1>7 DEF TimerFires, Channel
<1>8. ASSUME NEW job \in jobs, NEW ok \in BOOLEAN, JobEnds(job, ok) PROVE MachineInv'
  <2> DEFINE e == Event(job.stage, ok, job.utt)
  <2>1. job \in [stage : Stages, utt : Nat]
    BY <1>0 DEF Channel
  <2>2. e \in Message /\ e.kind = job.stage /\ e.utt = job.utt /\ e.kind \in Stages
    BY <2>1 DEF Event, Message, EventKinds
  <2>3. /\ events' = Append(events, e) /\ jobs' = jobs \ {job}
        /\ UNCHANGED <<state, mute, player, utt, abandoned>>
    BY <1>8 DEF JobEnds, Put
  <2> HIDE DEF e
  <2>4. Channel'
    BY <1>0, <2>2, <2>3, AppendResult DEF Channel, player
  <2>5. ASSUME OneWork PROVE OneWork'
    <3>1. PICK s \in Stages : state = Awaits[s] /\ AtWork(s)
      BY <2>5 DEF OneWork, NoWork, Finished, Queued, Sounding
    <3>2. job = Job(s, utt) /\ jobs = {job} /\ NoResult(events) /\ Silent
      BY <3>1 DEF AtWork
    <3>3. e.kind = s /\ e.utt = utt
      BY <2>2, <3>2 DEF Job
    <3>4. OneResult(events', s, utt)
      BY <1>0, <2>2, <2>3, <3>2, <3>3, AppendResult DEF Channel
    <3>5. Finished(s)'
      BY <2>3, <3>2, <3>4 DEF Finished, Silent, player
    <3>6. QED
      BY <2>3, <3>1, <3>5 DEF OneWork
  <2>6. QED
    BY <2>3, <2>4, <2>5 DEF MachineInv
<1>9. ASSUME NEW u \in plays, PlayBegins(u) PROVE MachineInv'
  <2>1. /\ u \in plays /\ playing' = u /\ plays' = plays \ {u} /\ mute'
        /\ UNCHANGED <<state, jobs, events, utt, abandoned>>
    BY <1>9 DEF PlayBegins
  <2>2. OneWork => state = "speaking" /\ Queued
    BY <2>1 DEF OneWork, NoWork, AtWork, Finished, Sounding, Silent
  <2>3. Queued => Sounding'
    BY <2>1 DEF Queued, Sounding
  <2>4. QED
    BY <1>0, <2>1, <2>2, <2>3 DEF MachineInv, Channel, OneWork
<1>10. ASSUME NEW u \in plays, PlayFails(u) PROVE MachineInv'
  <2>1. /\ u \in plays /\ plays' = plays \ {u} /\ jobs' = jobs \cup {Job("play", u)}
        /\ UNCHANGED <<state, events, playing, utt, abandoned>>
    BY <1>10 DEF PlayFails
  <2>2. OneWork => state = "speaking" /\ Queued
    BY <2>1 DEF OneWork, NoWork, AtWork, Finished, Sounding, Silent
  <2>3. Queued => AtWork("play")'
    BY <2>1 DEF Queued, AtWork, Silent, Job
  <2>4. "play" \in Stages /\ Awaits["play"] = "speaking"
    BY DEF Stages, Awaits
  <2>5. Channel'
    BY <1>0, <2>1, <2>4 DEF Channel, Job
  <2>6. QED
    BY <2>1, <2>2, <2>3, <2>4, <2>5 DEF MachineInv, OneWork
<1>11. CASE PlayEnds
  <2>1. /\ playing # 0 /\ playing' = 0 /\ jobs' = jobs \cup {Job("play", playing)}
        /\ UNCHANGED <<state, events, plays, utt, abandoned>>
    BY <1>11 DEF PlayEnds
  <2>2. OneWork => state = "speaking" /\ Sounding
    BY <2>1 DEF OneWork, NoWork, AtWork, Finished, Queued, Silent
  <2>3. Sounding => AtWork("play")'
    BY <2>1 DEF Sounding, AtWork, Silent, Job
  <2>4. "play" \in Stages /\ Awaits["play"] = "speaking"
    BY DEF Stages, Awaits
  <2>5. Channel'
    BY <1>0, <2>1, <2>4 DEF Channel, Job
  <2>6. QED
    BY <2>1, <2>2, <2>3, <2>4, <2>5 DEF MachineInv, OneWork
<1>12. ASSUME NEW kind \in {"start", "stop", "wake", "timeout", "vad"}, Take(kind),
              state' \in Idle \cup Window \cup Busy,
              state' = state \/ (state \notin Busy /\ state' \notin Busy),
              mute' = mute \/ state \notin Busy, UNCHANGED <<jobs, player, utt, abandoned>>
       PROVE  MachineInv'
  BY <1>0, <1>12, TakeKeeps DEF Take
<1>13. CASE OnStart
  <2>1. state' \in Idle \cup Window \cup Busy /\ (state' = state \/ (state \notin Busy /\ state' \notin Busy))
    BY <1>0, <1>13 DEF OnStart, Channel, Idle
  <2>2. QED
    BY <1>12, <1>13, <2>1 DEF OnStart
<1>14. CASE OnStop
  <2>1. CASE state \in Busy
    <3>1. Channel' /\ abandoned'
      BY <1>0, <1>14, <2>1, TailResult DEF OnStop, Take, Channel, Idle, player
    <3>2. QED
      BY <3>1 DEF MachineInv
  <2>2. CASE state \notin Busy
    <3>1. state' \in Idle \cup Window \cup Busy /\ state' \notin Busy
      BY <1>0, <1>14 DEF OnStop, Idle
    <3>2. Take("stop") /\ UNCHANGED <<jobs, player, utt>>
      BY <1>14 DEF OnStop
    <3>3. abandoned' = (abandoned \/ state \in Busy)
      BY <1>14 DEF OnStop
    <3>4. CASE abandoned
      BY <1>0, <3>1, <3>2, <3>3, <3>4, TailResult DEF MachineInv, Channel, Take, player
    <3>5. CASE ~abandoned
      <4>1. ~abandoned' /\ OneWork
        BY <2>2, <3>3, <3>5 DEF MachineInv
      <4>2. NoWork
        BY <2>2, <4>1 DEF OneWork, Busy, Stages, Awaits
      <4>3. events # <<>> /\ events' = Tail(events)
        BY <3>2 DEF Take
      <4>4. NoWork'
        BY <1>0, <3>2, <4>2, <4>3, TailResult DEF NoWork, Silent, player, Channel
      <4>5. OneWork'
        BY <3>1, <4>4 DEF OneWork
      <4>6. Channel'
        BY <1>0, <3>1, <3>2, <4>3, TailResult DEF Channel, player
      <4>7. QED
        BY <4>5, <4>6 DEF MachineInv
    <3>6. QED
      BY <3>4, <3>5
  <2>3. QED
    BY <2>1, <2>2
<1>15. CASE OnWake
  <2>1. state' \in Idle \cup Window \cup Busy /\ state \notin Busy /\ state' \notin Busy
    BY <1>0, <1>15 DEF OnWake, Window
  <2>2. QED
    BY <1>12, <1>15, <2>1 DEF OnWake
<1>16. CASE OnTimeout
  <2>1. state' \in Idle \cup Window \cup Busy /\ state \notin Busy /\ state' \notin Busy
    BY <1>0, <1>16 DEF OnTimeout, Window, Idle
  <2>2. QED
    BY <1>12, <1>16, <2>1 DEF OnTimeout
<1>17. CASE OnSpeech
  BY <1>0, <1>12, <1>17 DEF OnSpeech, Channel
<1>18. CASE OnSilence
  <2>1. CASE UNCHANGED <<state, utt, jobs>>
    BY <1>0, <1>12, <1>18, <2>1 DEF OnSilence, Channel
  <2>2. CASE /\ state' = "transcribing" /\ utt' = utt + 1 /\ jobs' = jobs \cup {Job("stt", utt + 1)}
    <3>1. /\ events # <<>> /\ events' = Tail(events) /\ state = "capturing"
          /\ UNCHANGED <<player, abandoned>>
      BY <1>18 DEF OnSilence, Take
    <3>2. "stt" \in Stages /\ Awaits["stt"] = "transcribing" /\ state' \in Busy
      BY <2>2 DEF Stages, Awaits, Busy
    <3>3. Channel'
      BY <1>0, <2>2, <3>1, <3>2, TailResult DEF Channel, player, Job
    <3>4. ASSUME OneWork PROVE OneWork'
      <4>1. NoWork
        BY <3>1, <3>4 DEF OneWork, Busy, Stages, Awaits
      <4>2. AtWork("stt")'
        BY <1>0, <2>2, <3>1, <4>1, TailResult DEF NoWork, AtWork, Silent, player, Channel, Job
      <4>3. QED
        BY <2>2, <3>2, <4>2 DEF OneWork
    <3>5. QED
      BY <3>1, <3>3, <3>4 DEF MachineInv
  <2>3. QED
    BY <1>18, <2>1, <2>2 DEF OnSilence
<1>19. ASSUME NEW s \in Stages, Take(s)
       PROVE  /\ events' \in Seq(Message) /\ Head(events).utt \in Nat
              /\ ~abandoned => /\ Head(events).utt = utt /\ jobs = {} /\ NoResult(events') /\ Silent
  <2>1. events # <<>> /\ Head(events).kind \in Stages /\ events' = Tail(events)
    BY <1>19 DEF Take
  <2>2. events' \in Seq(Message) /\ Head(events) \in Message
    BY <1>0, <2>1, TailResult DEF Channel
  <2>3. QED
    BY <2>1, <2>2, TakesOwn DEF Message
<1>20. ASSUME NEW s \in Stages, Take(s), NEW n \in Stages, Spawn(n), state' = Awaits[n],
              UNCHANGED <<player, utt, abandoned>>
       PROVE  MachineInv'
  <2>1. Awaits[n] \in Busy
    BY DEF Awaits, Stages, Busy
  <2>2. jobs' = jobs \cup {Job(n, Head(events).utt)}
    BY <1>20 DEF Spawn
  <2>3. Channel'
    BY <1>0, <1>19, <1>20, <2>1, <2>2 DEF Channel, Job, player
  <2>4. ~abandoned => AtWork(n)'
    BY <1>19, <1>20, <2>2 DEF AtWork, Silent, player, Job
  <2>5. QED
    BY <1>20, <2>3, <2>4 DEF MachineInv, OneWork
<1>21. ASSUME NEW s \in Stages, Take(s), state' = "listening",
              UNCHANGED <<jobs, player, utt, abandoned>>
       PROVE  MachineInv'
  <2>1. Channel'
    BY <1>0, <1>19, <1>21 DEF Channel, player, Idle
  <2>2. ~abandoned => NoWork'
    BY <1>19, <1>21 DEF NoWork, Silent, player
  <2>3. QED
    BY <1>0, <1>21, <2>1, <2>2 DEF MachineInv, OneWork
<1>22. "stt" \in Stages /\ "chat" \in Stages /\ "tts" \in Stages /\ "play" \in Stages
       /\ Awaits["chat"] = "generating" /\ Awaits["tts"] = "speaking"
  BY DEF Stages, Awaits
<1>23. CASE OnTranscript
  BY <1>20, <1>22, <1>23 DEF OnTranscript
<1>24. CASE OnReply
  BY <1>20, <1>22, <1>24 DEF OnReply
<1>25. CASE OnSound
  <2>1. /\ Take("tts") /\ state = "speaking" /\ plays' = plays \cup {Head(events).utt}
        /\ UNCHANGED <<state, jobs, playing, utt, abandoned>>
    BY <1>25 DEF OnSound
  <2>2. Channel'
    BY <1>0, <1>19, <1>22, <2>1 DEF Channel
  <2>3. ~abandoned => Queued'
    BY <1>19, <1>22, <2>1 DEF Queued, Silent
  <2>4. QED
    BY <2>1, <2>2, <2>3 DEF MachineInv, OneWork
<1>26. CASE OnPlayed
  BY <1>21, <1>22, <1>26 DEF OnPlayed
<1>27. ASSUME NEW s \in Stages, OnFailure(s) PROVE MachineInv'
  BY <1>21, <1>27 DEF OnFailure
<1>28. CASE OnUnexpected
  <2>1. /\ events # <<>> /\ events' = Tail(events) /\ Unexpected(Head(events))
        /\ UNCHANGED <<state, mute, jobs, player, utt, abandoned>>
    BY <1>28 DEF OnUnexpected
  <2>2. CASE Head(events).kind \notin Stages
    BY <1>0, <2>1, <2>2, TakeKeeps DEF Channel
  <2>3. CASE Head(events).kind \in Stages
    <3>1. state # Awaits[Head(events).kind]
      BY <1>0, <2>1, <2>3 DEF Unexpected, Stages
    <3>2. abandoned
      BY <2>1, <2>3, <3>1, TakesOwn
    <3>3. QED
      BY <1>0, <2>1, <3>2, TailResult DEF MachineInv, Channel, player
  <2>4. QED
    BY <2>2, <2>3
<1>29. CASE UNCHANGED vars
  BY <1>0, <1>2, <1>29 DEF vars, player, Channel
<1>30. QED
  BY <1>3, <1>4, <1>5, <1>6, <1>7, <1>8, <1>9, <1>10, <1>11, <1>13, <1>14, <1>15, <1>16, <1>17, <1>18,
     <1>23, <1>24, <1>25, <1>26, <1>27, <1>28, <1>29 DEF Next, TasksStep, PlaybackStep, Handle

\* The recorder is deaf while the player sounds, as long as no Stop has left an
\* utterance unfinished (mute.rs, MuteFlag and MutedGuard).
THEOREM SoundIsNotHeard == Spec => []EchoSafeUnlessAbandoned
<1>1. MachineInv => EchoSafeUnlessAbandoned
  BY DEF MachineInv, OneWork, NoWork, AtWork, Finished, Queued, Sounding, Silent,
         EchoSafeUnlessAbandoned, EchoSafe
<1>2. QED
  BY InitMachineInv, StepMachineInv, <1>1, PTL DEF Spec

\* A result that moves the conversation on is one for the utterance it is about,
\* although no event carries its number (state.rs, PipelineEvent), as long as no
\* Stop has left an utterance unfinished.
THEOREM ResultsAreOwn == Spec => OwnResultUnlessAbandoned
<1>1. MachineInv /\ [Next]_vars =>
        [(state \in Busy /\ state' # state /\ Head(events).kind \in Stages /\ ~abandoned)
           => Head(events).utt = utt]_vars
  <2> SUFFICES ASSUME MachineInv, Next, state \in Busy, state' # state,
                      Head(events).kind \in Stages, ~abandoned
               PROVE  Head(events).utt = utt
    OBVIOUS
  <2>1. Handle
    BY DEF Next, Command, WakeHeard, WakeNotHeard, Chunk, TasksStep, JobEnds, TimerFires,
           PlaybackStep, PlayBegins, PlayFails, PlayEnds, Busy, Window
  <2>2. events # <<>>
    BY <2>1 DEF Handle, OnStart, OnStop, OnWake, OnTimeout, OnSpeech, OnSilence, OnTranscript,
                OnReply, OnSound, OnPlayed, OnFailure, OnUnexpected, Take
  <2>3. QED
    BY <2>2, TakesOwn
<1>2. QED
  BY InitMachineInv, StepMachineInv, <1>1, PTL DEF Spec, OwnResultUnlessAbandoned

-----------------------------------------------------------------------------
(* The bridge.                                                             *)

\* The part of TypeOK that the argument needs.
BridgeShape ==
  /\ call \in [Ids -> B!Places]
  /\ chan \in Seq(Ids) /\ stdout \in Seq(Ids) /\ stdin \in Seq(Ids)
  /\ busy \in Ids \cup {NoId} /\ inHand \in Ids \cup {NoId} /\ pending \subseteq Ids

\* The reader leaves only a dead worker; an idle writer holds nothing, and one
\* that is writing holds a request.
EndInv ==
  /\ reader # "exited" => reader = "reading"
  /\ reader = "exited" => ~alive
  /\ writer = "idle" => inHand = NoId
  /\ writer = "filed" => inHand # NoId

\* NoCallerLost, and the writer has filed what it has in hand.
HeldInv ==
  \A i \in Ids : call[i] = "waiting" =>
    \/ writer # "exited" /\ i \in B!Ranged(chan)
    \/ i \in pending /\ inHand = i
    \/ i \in pending /\ reader = "reading" /\ (alive => B!UnderWay(i))

BridgeInv == BridgeShape /\ EndInv /\ HeldInv

\* BridgeInv holds initially: nobody has called.
LEMMA InitBridgeInv == B!Init => BridgeInv
BY DEF B!Init, BridgeInv, BridgeShape, EndInv, HeldInv, B!Places

\* What an append and a tail make of the members of a sequence.
LEMMA RangedFacts ==
  ASSUME NEW S, NEW s \in Seq(S)
  PROVE  /\ \A e \in S : Append(s, e) \in Seq(S) /\ B!Ranged(Append(s, e)) = B!Ranged(s) \cup {e}
         /\ s # <<>> => /\ Head(s) \in S /\ Tail(s) \in Seq(S)
                        /\ B!Ranged(s) = {Head(s)} \cup B!Ranged(Tail(s))
         /\ B!Ranged(s) \subseteq S
<1>1. ASSUME NEW e \in S PROVE Append(s, e) \in Seq(S) /\ B!Ranged(Append(s, e)) = B!Ranged(s) \cup {e}
  <2>1. /\ Append(s, e) \in Seq(S) /\ Len(Append(s, e)) = Len(s) + 1
        /\ \A k \in 1..Len(s) : Append(s, e)[k] = s[k]
        /\ Append(s, e)[Len(s) + 1] = e /\ Len(s) \in Nat
    OBVIOUS
  <2>2. DOMAIN s = 1..Len(s) /\ DOMAIN Append(s, e) = 1..Len(s) + 1
    BY <2>1
  <2>3. \A k \in 1..Len(s) + 1 : k \in 1..Len(s) \/ k = Len(s) + 1
    BY <2>1
  <2>4. 1..Len(s) \subseteq 1..Len(s) + 1 /\ Len(s) + 1 \in 1..Len(s) + 1
    BY <2>1
  <2>5. QED
    BY <2>1, <2>2, <2>3, <2>4 DEF B!Ranged
<1>2. ASSUME s # <<>>
      PROVE  /\ Head(s) \in S /\ Tail(s) \in Seq(S)
             /\ B!Ranged(s) = {Head(s)} \cup B!Ranged(Tail(s))
  <2>1. /\ Head(s) = s[1] /\ Tail(s) \in Seq(S) /\ Len(s) \in Nat \ {0} /\ Len(Tail(s)) = Len(s) - 1
        /\ \A k \in 1..Len(s) - 1 : Tail(s)[k] = s[k + 1]
    BY <1>2, EmptySeq
  <2>2. DOMAIN s = 1..Len(s) /\ DOMAIN Tail(s) = 1..Len(s) - 1
    BY <2>1
  <2>3. /\ 1 \in 1..Len(s)
        /\ \A k \in 1..Len(s) : k = 1 \/ (k - 1 \in 1..Len(s) - 1 /\ (k - 1) + 1 = k)
        /\ \A k \in 1..Len(s) - 1 : k + 1 \in 1..Len(s)
    BY <2>1
  <2>4. B!Ranged(s) \subseteq {Head(s)} \cup B!Ranged(Tail(s))
    <3>1. SUFFICES ASSUME NEW k \in 1..Len(s) PROVE s[k] \in {Head(s)} \cup B!Ranged(Tail(s))
      BY <2>2 DEF B!Ranged
    <3>2. CASE k = 1
      BY <3>2, <2>1
    <3>3. CASE k - 1 \in 1..Len(s) - 1 /\ (k - 1) + 1 = k
      <4>1. Tail(s)[k - 1] = s[k]
        BY <3>3, <2>1
      <4>2. Tail(s)[k - 1] \in B!Ranged(Tail(s))
        BY <3>3, <2>2 DEF B!Ranged
      <4>3. QED
        BY <4>1, <4>2
    <3>4. QED
      BY <2>3, <3>2, <3>3
  <2>5. {Head(s)} \cup B!Ranged(Tail(s)) \subseteq B!Ranged(s)
    BY <2>1, <2>2, <2>3 DEF B!Ranged
  <2>6. QED
    BY <2>1, <2>2, <2>3, <2>4, <2>5
<1>3. B!Ranged(s) \subseteq S
  BY DEF B!Ranged
<1>4. QED
  BY <1>1, <1>2, <1>3

\* No step breaks BridgeInv: whoever drops a resp_tx tells its caller.
LEMMA StepBridgeInv == ASSUME NoId \notin Ids PROVE BridgeInv /\ [B!Next]_B!vars => BridgeInv'
<1> SUFFICES ASSUME BridgeInv, [B!Next]_B!vars PROVE BridgeInv'
  OBVIOUS
<1> USE DEF BridgeInv, BridgeShape, EndInv, HeldInv, B!UnderWay, B!Places, B!worker
<1>1. ASSUME NEW i \in Ids, B!CallBegins(i) PROVE BridgeInv'
  BY <1>1 DEF B!CallBegins
<1>2. ASSUME NEW i \in Ids, B!Timeout(i) PROVE BridgeInv'
  BY <1>2 DEF B!Timeout
<1>3. ASSUME NEW i \in Ids, B!Send(i) PROVE BridgeInv'
  <2>1. Append(chan, i) \in Seq(Ids) /\ B!Ranged(Append(chan, i)) = B!Ranged(chan) \cup {i}
    BY RangedFacts
  <2>2. CASE writer = "exited"
    BY <1>3, <2>2 DEF B!Send
  <2>3. CASE writer # "exited"
    <3>1. /\ chan' = Append(chan, i) /\ call' = [call EXCEPT ![i] = "waiting"]
          /\ UNCHANGED <<writer, inHand, pending, B!worker, reader>>
      BY <1>3, <2>3 DEF B!Send
    <3>2. BridgeShape' /\ EndInv'
      BY <3>1, <2>1
    <3>3. ASSUME NEW j \in Ids, call'[j] = "waiting"
          PROVE  \/ writer' # "exited" /\ j \in B!Ranged(chan')
                 \/ j \in pending' /\ inHand' = j
                 \/ j \in pending' /\ reader' = "reading" /\ (alive' => B!UnderWay(j)')
      BY <3>1, <3>3, <2>1, <2>3
    <3>4. QED
      BY <3>2, <3>3
  <2>4. QED
    BY <2>2, <2>3
<1>4. CASE B!WriterFiles
  <2>1. /\ Head(chan) \in Ids /\ Tail(chan) \in Seq(Ids) /\ B!Ranged(chan) = {Head(chan)} \cup B!Ranged(Tail(chan))
    BY <1>4, RangedFacts DEF B!WriterFiles
  <2>2. QED
    BY <1>4, <2>1 DEF B!WriterFiles
<1>5. CASE B!WriterWrites
  <2>1. inHand \in Ids
    BY <1>5 DEF B!WriterWrites
  <2>2. Append(stdin, inHand) \in Seq(Ids) /\ B!Ranged(Append(stdin, inHand)) = B!Ranged(stdin) \cup {inHand}
    BY <2>1, RangedFacts
  <2>3. QED
    BY <1>5, <2>1, <2>2 DEF B!WriterWrites
<1>6. CASE B!WriterFails
  <2>1. B!Ranged(chan) \subseteq Ids /\ <<>> \in Seq(Ids)
    BY RangedFacts
  <2>2. QED
    BY <1>6, <2>1 DEF B!WriterFails, B!Released
<1>7. CASE B!ReaderReads
  <2>1. /\ Head(stdout) \in Ids /\ Tail(stdout) \in Seq(Ids)
        /\ B!Ranged(stdout) = {Head(stdout)} \cup B!Ranged(Tail(stdout))
    BY <1>7, RangedFacts DEF B!ReaderReads
  <2>2. QED
    BY <1>7, <2>1 DEF B!ReaderReads
<1>8. CASE B!ReaderEof
  BY <1>8 DEF B!ReaderEof, B!Released
<1>9. CASE B!WorkerReads
  BY <1>9, RangedFacts DEF B!WorkerReads
<1>10. CASE B!WorkerAnswers
  BY <1>10, RangedFacts DEF B!WorkerAnswers
<1>11. CASE B!WorkerDies
  BY <1>11 DEF B!WorkerDies
<1>12. CASE UNCHANGED B!vars
  BY <1>12 DEF B!vars
<1>13. QED
  BY <1>1, <1>2, <1>3, <1>4, <1>5, <1>6, <1>7, <1>8, <1>9, <1>10, <1>11, <1>12
     DEF B!Next, B!BridgeStep, B!WriterStep, B!WorkerStep

-----------------------------------------------------------------------------
\* The bridge of the run does nothing but the bridge's steps.
LEMMA RunsBridge == MCSpec => B!Spec
<1>1. MCInit => B!Init
  BY DEF MCInit
<1>2. [MCNext]_<<part, vars, bridge>> => [B!Next]_B!vars
  BY DEF MCNext, bridge, B!vars
<1>3. QED
  BY <1>1, <1>2, PTL DEF MCSpec, B!Spec

\* Nobody waits for what cannot come: whoever drops a resp_tx tells its caller, and
\* one in the map will be found there (bridge.rs, writer_task and reader_task).
THEOREM WaitersAreServed ==
  ASSUME NoId \notin Ids
  PROVE  /\ B!Spec => []NoCallerLost
         /\ MCSpec => []NoCallerLost
<1>1. BridgeInv => NoCallerLost
  BY DEF BridgeInv, HeldInv, NoCallerLost, B!NoCallerLost
<1>2. B!Spec => []NoCallerLost
  BY InitBridgeInv, StepBridgeInv, <1>1, PTL DEF B!Spec
<1>3. QED
  BY <1>2, RunsBridge, PTL

=============================================================================
