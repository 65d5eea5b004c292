---------------------------- MODULE MCAssistant ----------------------------
(* Four parts, checked apart.  Two requests of the chat that overlap, or two *)
(* utterances of the phone, the second begun while the first is in process   *)
(* (Assistant; chat and phone share only the settings and the extraction's   *)
(* router, so they are not mixed); the synthesis of speech by two engines    *)
(* (Speech); the models on disk and in memory (VoiceModels); and the Python  *)
(* worker that the Rust bridge talks to (TtsWorker).                         *)
EXTENDS Assistant, TLC
CONSTANTS c1, c2, v1, v2, Requests, Downloads, Sentences, Models, Blocks, MinSamples, MaxLines
VARIABLES part,
  preferred, provider, module, lock, builds, loaded, kind, todo, want, using, fallen,
  tried, spoken, at,
  target, temp, content, pc, missing, done, file, pos, event, disturbed, stt, stt_lock, caller,
  model, buffer, reply, asked, answered, reported, lines, alive

S == INSTANCE Speech WITH said <- spoken
M == INSTANCE VoiceModels WITH Tasks <- Downloads, Callers <- Requests, lock <- stt_lock, call <- caller
W == INSTANCE TtsWorker

speech == <<preferred, provider, module, lock, builds, loaded, kind, todo, want, using,
            fallen, tried, spoken, at>>
models == <<target, temp, content, pc, missing, done, file, pos, event, disturbed, stt,
            stt_lock, caller>>
worker == <<model, buffer, reply, asked, answered, reported, lines, alive>>
MCTogether == {{c1, c2}, {v1, v2}}
Symmetry == Permutations(Requests) \cup Permutations(Downloads)

\* A part that is not checked rests: Assistant in an initial state.
S_rests ==
  /\ preferred = 0 /\ provider = 0 /\ module = 0 /\ lock = 0 /\ builds = 0 /\ loaded = 0
  /\ kind = 0 /\ todo = 0 /\ want = 0 /\ using = 0 /\ fallen = 0 /\ tried = 0 /\ spoken = 0
  /\ at = 0
M_rests ==
  /\ target = 0 /\ temp = 0 /\ content = 0 /\ pc = 0 /\ missing = 0 /\ done = 0 /\ file = 0
  /\ pos = 0 /\ event = 0 /\ disturbed = 0 /\ stt = 0 /\ stt_lock = 0 /\ caller = 0
W_rests ==
  /\ model = 0 /\ buffer = 0 /\ reply = 0 /\ asked = 0 /\ answered = 0 /\ reported = 0
  /\ lines = 0 /\ alive = 0
MCInit ==
  /\ Init /\ part \in {"assistant", "speech", "models", "worker"}
  /\ (part # "assistant" => auto /\ listens = 0)
  /\ IF part = "speech" THEN S!Init ELSE S_rests
  /\ IF part = "models" THEN M!Init ELSE M_rests
  /\ IF part = "worker" THEN W!Init ELSE W_rests
MCNext ==
  \/ part = "assistant" /\ Next /\ UNCHANGED <<part, speech, models, worker>>
  \/ part = "speech" /\ S!Next /\ UNCHANGED <<part, vars, models, worker>>
  \/ part = "models" /\ M!Next /\ UNCHANGED <<part, vars, speech, worker>>
  \/ part = "worker" /\ W!Next /\ UNCHANGED <<part, vars, speech, models>>
MCSpec == MCInit /\ [][MCNext]_<<part, vars, speech, models, worker>>

\* No request gets a sentence from two engines (tts_router.py).
NothingSaidTwice == part = "speech" => S!NothingSaidTwice
\* A model under its name is whole, whatever fails (download_model).
WholeUnlessDisturbed == part = "models" => M!WholeUnlessDisturbed
\* No transcription is empty for want of a model (get_or_create_stt).
NoSilentTranscript == part = "models" => M!NoSilentTranscript
\* The worker answers every request, in order, and explains a silent answer.
AnswersExplained == part = "worker" => W!AnswersExplained
=============================================================================
