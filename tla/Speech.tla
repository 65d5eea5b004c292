------------------------------- MODULE Speech --------------------------------
(***************************************************************************)
(* Speech synthesis: the router of kernel/voice/tts_router.py over the     *)
(* local engine F5 (tts_engine_f5.py) and the cloud engine                 *)
(* (tts_engine_elevenlabs.py), as POST /tts and /tts/speak, the voice      *)
(* pipelines and the start-up warm-up call it from threads that share the  *)
(* module globals.  What a request still has to do is a sequence of steps; *)
(* each is what one thread does between two places where another may run.  *)
(***************************************************************************)
EXTENDS Integers, Sequences

CONSTANTS
  Requests,     \* each speaks one text
  Sentences     \* the number of sentences of a text

VARIABLES
  preferred,    \* what "auto" resolves to: the hardware, the keys, KALI_TTS_PROVIDER
  provider,     \* _active_provider
  module,       \* _active_module
  lock,         \* the holder of _load_lock, or NoOne
  builds,       \* how often the F5 model was built; _f5_instance is set after the first
  loaded,       \* _loaded of the F5 engine
  kind,         \* kind[r]: "new", "one" (a whole waveform), "stream" or "warm" (start-up)
  todo,         \* todo[r]: the steps r has still to take
  want,         \* want[r]: the provider it is switching to
  using,        \* using[r]: the engine whose generate_audio it is in
  fallen,       \* fallen[r]: it is in the except branch of the router
  tried,        \* tried[r]: the engines it has asked to load or to speak
  said,         \* said[r]: the sentences it has got, in order
  at            \* at[r]: the sentence it is at

vars == <<preferred, provider, module, lock, builds, loaded, kind, todo, want, using, fallen, tried, said, at>>
router == <<preferred, provider, module>>
engine == <<lock, builds, loaded>>

F5 == "f5_russian"
EL == "elevenlabs"
Auto == "auto"          \* no provider yet
NoOne == "nobody"
Providers == {F5, EL}

Init ==
  /\ preferred \in Providers
  /\ provider = Auto /\ module = Auto
  /\ lock = NoOne /\ builds = 0 /\ loaded = FALSE
  /\ kind = [r \in Requests |-> "new"] /\ todo = [r \in Requests |-> <<>>]
  /\ want = [r \in Requests |-> Auto] /\ using = [r \in Requests |-> Auto]
  /\ fallen = [r \in Requests |-> FALSE] /\ tried = [r \in Requests |-> {}]
  /\ said = [r \in Requests |-> <<>>] /\ at = [r \in Requests |-> 1]

-----------------------------------------------------------------------------
\* The steps of a request.

At(r, step) == todo[r] # <<>> /\ Head(todo[r]) = step
Then(r, steps) == todo' = [todo EXCEPT ![r] = steps \o Tail(@)]
Failed(r) == todo[r] = <<"failed">>

\* POST /tts and /tts/speak load the engine first unless it is loaded (the cloud
\* engine is when it has a key); the pipelines' streams do not; the warm-up does,
\* and then speaks with F5 itself, so that its failure moves nothing.  Each call
\* of the router looks for itself whether there is a provider, when it is made.
Ask(r) ==
  /\ kind[r] = "new"
  /\ \E k \in {"one", "stream", "warm"}, key \in BOOLEAN :
       LET ready == (module = F5 /\ loaded) \/ (module = EL /\ key)
           load == IF k = "stream" \/ ready THEN <<>> ELSE <<"choose", "load">> IN
       /\ kind' = [kind EXCEPT ![r] = k]
       /\ todo' = [todo EXCEPT ![r] = load \o (IF k = "warm" THEN <<"warm">>
                                               ELSE <<"choose", "generate">>)]
  /\ UNCHANGED <<router, engine, want, using, fallen, tried, said, at>>

\* set_provider: the comparison, the import, and two assignments.
Switch(r, p) ==
  /\ want' = [want EXCEPT ![r] = p]
  /\ Then(r, IF p = provider THEN <<>> ELSE <<"set module", "set provider">>)
\* load_models and generate_audio set a provider when there is no module.
choose(r) ==
  /\ At(r, "choose")
  /\ IF module = Auto THEN Switch(r, preferred) ELSE Then(r, <<>>) /\ UNCHANGED want
  /\ UNCHANGED <<router, engine, kind, using, fallen, tried, said, at>>
fall_back(r) ==
  /\ At(r, "fall back")
  /\ Switch(r, IF provider = F5 THEN EL ELSE F5)
  /\ UNCHANGED <<router, engine, kind, using, fallen, tried, said, at>>
set_provider(r) ==
  /\ \/ At(r, "set module") /\ module' = want[r] /\ UNCHANGED <<preferred, provider>>
     \/ At(r, "set provider") /\ provider' = want[r] /\ UNCHANGED <<preferred, module>>
  /\ Then(r, <<>>)
  /\ UNCHANGED <<engine, kind, want, using, fallen, tried, said, at>>

\* An exception: the router falls back once if it was in generate_audio of the
\* first engine; anything later, and any failure to load before, ends the request.
Raise(r) ==
  IF using[r] # Auto /\ ~fallen[r] /\ kind[r] # "warm"
  THEN /\ fallen' = [fallen EXCEPT ![r] = TRUE]
       /\ todo' = [todo EXCEPT ![r] = <<"fall back", "load", "generate">>]
  ELSE todo' = [todo EXCEPT ![r] = <<"failed">>] /\ UNCHANGED fallen

\* load_models: F5 wants its reference audio and its model, the cloud engine
\* wants to be let in.
load_models(r) ==
  /\ At(r, "load")
  /\ tried' = [tried EXCEPT ![r] = @ \cup {module}]
  /\ \/ module = F5 /\ loaded /\ Then(r, <<>>) /\ UNCHANGED fallen
     \/ module = F5 /\ ~loaded /\ Then(r, <<"get", "loaded">>) /\ UNCHANGED fallen
     \/ module = EL /\ Then(r, <<>>) /\ UNCHANGED fallen
     \/ ~(module = F5 /\ loaded) /\ Raise(r)
  /\ UNCHANGED <<router, engine, kind, want, using, said, at>>
set_loaded(r) ==
  /\ At(r, "loaded") /\ loaded' = TRUE /\ Then(r, <<>>)
  /\ UNCHANGED <<router, lock, builds, kind, want, using, fallen, tried, said, at>>

\* _get_f5: the instance, or the lock and a second look.
_get_f5(r) ==
  /\ At(r, "get")
  /\ IF builds > 0 THEN Then(r, <<>>) /\ UNCHANGED lock
     ELSE lock = NoOne /\ lock' = r /\ Then(r, <<"build">>)
  /\ UNCHANGED <<router, builds, loaded, kind, want, using, fallen, tried, said, at>>

\* Under the lock: the model is found or built, or that raises.
build(r) ==
  /\ At(r, "build") /\ lock' = NoOne
  /\ \/ builds > 0 /\ Then(r, <<>>) /\ UNCHANGED <<builds, fallen>>
     \/ builds = 0 /\ builds' = builds + 1 /\ Then(r, <<>>) /\ UNCHANGED fallen
     \/ builds = 0 /\ UNCHANGED builds /\ Raise(r)
  /\ UNCHANGED <<router, loaded, kind, want, using, tried, said, at>>

\* generate_audio, generate_audio_stream and the warm-up enter an engine.
generate_audio(r) ==
  /\ \/ At(r, "generate") /\ using' = [using EXCEPT ![r] = module]
     \/ At(r, "warm") /\ provider = F5 /\ using' = [using EXCEPT ![r] = F5]
  /\ tried' = [tried EXCEPT ![r] = @ \cup {using'[r]}]
  /\ at' = [at EXCEPT ![r] = 1]
  /\ Then(r, IF using'[r] = F5 THEN <<"get", "say">> ELSE <<"say">>)
  /\ UNCHANGED <<router, engine, kind, want, fallen, said>>
no_warmup(r) ==
  /\ At(r, "warm") /\ provider # F5 /\ Then(r, <<>>)
  /\ UNCHANGED <<router, engine, kind, want, using, fallen, tried, said, at>>

\* A sentence that fails: F5 and both streams log it and go on with the next.
Skips(r) == using[r] = F5 \/ kind[r] = "stream"

\* Mutant: the failure of a sentence leaves the stream.
say_raising(r) ==
  /\ At(r, "say")
  /\ \/ /\ said' = [said EXCEPT ![r] = Append(@, at[r])]
        /\ at' = [at EXCEPT ![r] = @ + 1]
        /\ IF at[r] < Sentences THEN UNCHANGED todo ELSE Then(r, <<>>)
        /\ UNCHANGED fallen
     \/ Raise(r) /\ UNCHANGED <<said, at>>
  /\ UNCHANGED <<router, engine, kind, want, using, tried>>

\* One sentence; the cloud engine speaks a whole text at once or raises.
say(r) ==
  /\ At(r, "say")
  /\ \/ /\ Skips(r)
        /\ \/ said' = [said EXCEPT ![r] = Append(@, at[r])]
           \/ UNCHANGED said
        /\ at' = [at EXCEPT ![r] = @ + 1]
        /\ IF at[r] < Sentences THEN UNCHANGED todo ELSE Then(r, <<>>)
        /\ UNCHANGED fallen
     \/ /\ ~Skips(r)
        /\ said' = [said EXCEPT ![r] = @ \o [i \in 1..Sentences |-> i]]
        /\ Then(r, <<>>) /\ UNCHANGED <<at, fallen>>
     \/ ~Skips(r) /\ Raise(r) /\ UNCHANGED <<said, at>>
  /\ UNCHANGED <<router, engine, kind, want, using, tried>>

Next ==
  \E r \in Requests :
    \/ Ask(r) \/ choose(r) \/ fall_back(r) \/ set_provider(r)
    \/ load_models(r) \/ set_loaded(r) \/ _get_f5(r) \/ build(r)
    \/ generate_audio(r) \/ no_warmup(r) \/ say(r)

Spec == Init /\ [][Next]_vars

-----------------------------------------------------------------------------
\* No request speaks a sentence twice: the router starts the text again with the
\* other engine, so an engine may raise only before its first chunk.
NothingSaidTwice ==
  \A r \in Requests : \A i, j \in DOMAIN said[r] : i < j => said[r][i] < said[r][j]

\* A failed request has asked both engines (generate_audio: "Falls back to the
\* other one on failure").
FallsBackToOther ==
  \A r \in Requests : Failed(r) /\ fallen[r] => tried[r] = Providers
=============================================================================
