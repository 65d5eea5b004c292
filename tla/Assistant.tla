------------------------------ MODULE Assistant ------------------------------
(***************************************************************************)
(* One assistant, three ways to an LLM: a chat request (routers/chat.py),  *)
(* an utterance of the phone (voice/remote_pipeline.py) and the background *)
(* extraction of facts that either starts (long_term_memory.py).  All of   *)
(* them call an LLMRouter (llm_router.py) with its two circuit breakers,   *)
(* and hand tool calls to tool_dispatch.py.                                *)
(*                                                                         *)
(* A chat request makes a router of its own from the current settings; the *)
(* phone's pipeline and the fact extraction keep the one made at start-up, *)
(* with the settings of that moment.  Every await is the end of a step.    *)
(*                                                                         *)
(* Texts are abstracted to what the code tells apart: whether there is     *)
(* one, whether it came with tool calls, and how much of it was spoken.    *)
(* The five minutes of a breaker pass in one step, Cool.                   *)
(***************************************************************************)
EXTENDS Naturals, Sequences, FiniteSets

CONSTANTS
  Chats,        \* chat requests, each made once
  Voices,       \* utterances of the phone, each processed once
  Together,     \* bound: the sets of turns one behaviour makes
  Extracting,   \* bound: turns whose extraction lasts; the others' are over at once
  MaxCalls,     \* MAX_TOOL_CALLS_PER_TURN
  Emitted,      \* bound: tool calls one reply of a model holds
  MaxTurns,     \* MAX_CONTEXT_TURNS: turns kept in the chat's memory
  Cap,          \* MAX_AUDIO_BUFFER_BYTES, in chunks
  MaxListens    \* bound: times the phone starts to listen

Turns == Chats \cup Voices
Facts == {"facts"} \X Extracting       \* the extraction a turn starts
Tasks == Turns \cup Facts
Remote == "remote"                     \* RemoteVoicePipeline._llm
Memory == "memory"                     \* LongTermMemory._llm
Routers == Chats \cup {Remote, Memory}
Router(t) == IF t \in Chats THEN t ELSE IF t \in Voices THEN Remote ELSE Memory

ASSUME AssistantAssumption ==
  /\ Chats \cap Voices = {} /\ Extracting \subseteq Turns /\ Together \subseteq SUBSET Turns
  /\ {Remote, Memory} \cap Chats = {} /\ Facts \cap Turns = {}
  /\ MaxCalls \in Nat \ {0} /\ Emitted \in Nat /\ MaxTurns \in Nat \ {0}
  /\ Cap \in Nat /\ MaxListens \in Nat

VARIABLES
  auto,      \* config.llm.auto_route as the settings page last saved it
  rt,        \* the routers: their settings and breakers
  call,      \* the LLM call each task awaits or has back
  turn,      \* where each turn is
  mem,       \* ConversationMemory._session_context: <<role, turn>>
  said,      \* how much of an utterance's reply was spoken
  st, buf,   \* RemoteVoicePipeline._state and its audio buffer, in chunks
  listens,   \* times the phone started to listen
  talking,   \* an utterance is under way that the cap did not drop
  crossed    \* it began to while an earlier utterance was in process

voice == <<st, buf, listens, talking, crossed>>
vars == <<auto, rt, call, turn, mem, said, voice>>

Breaker == {"up", "down", "cooled"}
Asked == {"cloud", "local", "cloud2", "local2", "stream"}   \* 2: the fallback
Answers == {"text", "tools", "error", "raise"}
NoCall == "none"
Fresh(a) == [auto |-> a, cloud |-> "up", local |-> "up", fails |-> 0]
NewTurn == [pc |-> "new", left |-> 0, ran |-> FALSE, failed |-> FALSE, broken |-> FALSE, private |-> FALSE, reply |-> "none"]
Steps == {"new", "spawned", "stt", "llm", "tool", "phrase", "done", "lost"}

TypeOK ==
  /\ auto \in BOOLEAN
  /\ rt \in [Routers -> [auto: BOOLEAN, cloud: Breaker, local: Breaker, fails: 0..2]]
  /\ call \in [Tasks -> {NoCall} \cup Asked \cup Answers]
  /\ turn \in [Turns -> [pc: Steps, left: Nat, ran: BOOLEAN, failed: BOOLEAN, broken: BOOLEAN, private: BOOLEAN,
                         reply: {"none", "text", "tools", "error", "nokey"}]]
  /\ mem \in Seq({"user", "assistant"} \X Chats)
  /\ said \in [Voices -> {"none", "part", "all"}]
  /\ st \in {"idle", "listening", "thinking", "speaking"} /\ buf \in 0..Cap
  /\ listens \in 0..MaxListens /\ talking \in BOOLEAN /\ crossed \in BOOLEAN

Init ==
  /\ auto \in BOOLEAN
  /\ rt = [r \in Routers |-> Fresh(auto)]
  /\ call = [t \in Tasks |-> NoCall]
  /\ \E made \in Together :
       /\ turn = [t \in Turns |-> IF t \in made THEN NewTurn ELSE [NewTurn EXCEPT !.pc = "lost"]]
       /\ listens = IF made \cap Voices = {} THEN MaxListens ELSE 0
  /\ mem = <<>> /\ said = [v \in Voices |-> "none"]
  /\ st = "idle" /\ buf = 0 /\ talking = FALSE /\ crossed = FALSE

-----------------------------------------------------------------------------
(* LLMRouter.                                                              *)

\* The breakers a selection finds: cooled ones close again, but a local-only
\* router returns before it looks at them.
Warm(b) ==
  IF ~b.auto THEN b
  ELSE [b EXCEPT !.cloud = IF @ = "cooled" THEN "up" ELSE @,
                 !.local = IF @ = "cooled" THEN "up" ELSE @,
                 !.fails = IF b.local = "cooled" THEN 0 ELSE @]

select_provider(b) ==
  IF ~b.auto THEN "local"
  ELSE IF b.cloud = "up" THEN "cloud"
  ELSE IF b.local = "up" THEN "local" ELSE "cloud"

\* route: select and await the provider.
Route(t, routers) ==
  LET r == Router(t)  b == Warm(routers[r]) IN
  /\ rt' = [routers EXCEPT ![r] = b]
  /\ call' = [call EXCEPT ![t] = select_provider(b)]

\* route_streaming: the cloud is streamed if its provider is OpenAI, all else
\* is routed whole.
RouteStreaming(t) ==
  LET b == Warm(rt[Router(t)])  p == select_provider(b) IN
  /\ rt' = [rt EXCEPT ![Router(t)] = b]
  /\ \E openai \in BOOLEAN :
       call' = [call EXCEPT ![t] = IF p = "cloud" /\ openai THEN "stream" ELSE p]

\* What the providers answer a request that offers tools.  Arguments of a tool
\* call that are no JSON are an exception, but for the local model.
_call_anthropic == {"text", "tools"}
_call_openai == {"text", "tools"}
_call_openai_compat == {"text", "tools"}
_call_google == {"text"}
_call_local == {"text", "tools"}
Replies(at) ==
  IF at \in {"local", "local2"} THEN _call_local
  ELSE _call_anthropic \cup _call_openai \cup _call_openai_compat \cup _call_google

Answer(t) ==
  /\ call[t] \in Asked \ {"stream"}
  /\ \E a \in Replies(call[t]) :
       /\ a = "tools" => (t \in Turns /\ turn[t].pc = "llm" /\ Emitted > 0)
       /\ call' = [call EXCEPT ![t] = a]
  /\ UNCHANGED <<auto, rt, turn, mem, said, voice>>

\* What route does with the exception of a provider.
CloudDown(t) ==
  /\ call[t] = "cloud"
  /\ rt' = [rt EXCEPT ![Router(t)].cloud = "down"]
  /\ call' = [call EXCEPT ![t] = "local2"]

\* Mutant: the fallback forgets the local-only choice.
LocalDownToCloud(t) ==
  LET r == Router(t)  n == IF rt[r].fails = 2 THEN 2 ELSE rt[r].fails + 1 IN
  /\ call[t] = "local"
  /\ rt' = [rt EXCEPT ![r].fails = n, ![r].local = IF n = 2 THEN "down" ELSE @]
  /\ call' = [call EXCEPT ![t] = IF rt[r].cloud = "up" THEN "cloud2" ELSE "error"]

\* The count of failures matters up to two.
LocalDown(t) ==
  LET r == Router(t)  n == IF rt[r].fails = 2 THEN 2 ELSE rt[r].fails + 1 IN
  /\ call[t] = "local"
  /\ rt' = [rt EXCEPT ![r].fails = n, ![r].local = IF n = 2 THEN "down" ELSE @]
  /\ call' = [call EXCEPT ![t] =
                IF rt[r].auto /\ rt[r].cloud = "up" THEN "cloud2" ELSE "error"]

FallbackDown(t) ==
  /\ call[t] \in {"local2", "cloud2"}
  /\ call' = [call EXCEPT ![t] = IF call[t] = "local2" THEN "error" ELSE "raise"]
  /\ UNCHANGED rt

Fails(t) ==
  /\ CloudDown(t) \/ LocalDown(t) \/ FallbackDown(t)
  /\ UNCHANGED <<auto, turn, mem, said, voice>>

\* Five minutes without a request of this router.
Cool(r) ==
  /\ r \notin Chats
  /\ "down" \in {rt[r].cloud, rt[r].local}
  /\ rt' = [rt EXCEPT ![r].cloud = IF @ = "down" THEN "cooled" ELSE @,
                      ![r].local = IF @ = "down" THEN "cooled" ELSE @]
  /\ UNCHANGED <<auto, call, turn, mem, said, voice>>

\* PATCH /config: only the requests of routers made from now on see it.
Settings ==
  /\ auto' = ~auto
  /\ UNCHANGED <<rt, call, turn, mem, said, voice>>

-----------------------------------------------------------------------------
(* A chat request.                                                         *)

\* _chat_logic up to the first route: facts into the prompt, a new router.
Chat(c) ==
  /\ turn[c].pc = "new"
  /\ turn' = [turn EXCEPT ![c].pc = "llm", ![c].private = ~auto]
  /\ Route(c, [rt EXCEPT ![c] = Fresh(auto)])
  /\ UNCHANGED <<auto, mem, said, voice>>

\* Mutant: the memory is cut to MaxTurns entries, not pairs.
RememberHalf(c) ==
  LET all == mem \o <<<<"user", c>>, <<"assistant", c>>>>  n == Len(all) IN
  mem' = IF n > MaxTurns THEN SubSeq(all, n - MaxTurns + 1, n) ELSE all

\* ConversationMemory.add_turn, twice: the last MaxTurns pairs are kept.
Remember(c) ==
  LET all == mem \o <<<<"user", c>>, <<"assistant", c>>>>  n == Len(all) IN
  mem' = IF n > 2 * MaxTurns THEN SubSeq(all, n - 2 * MaxTurns + 1, n) ELSE all

\* The request is over, and its router with it.
Over(c, routers, reply) ==
  /\ turn' = [turn EXCEPT ![c].pc = IF reply = "none" THEN "lost" ELSE "done", ![c].reply = reply, ![c].left = 0]
  /\ rt' = [routers EXCEPT ![c] = Fresh(TRUE)]

\* A reply that calls tools: execute_tool_calls takes the first MaxCalls.
TakeCalls(t) ==
  \E n \in 1..Emitted : turn' = [turn EXCEPT ![t].pc = "tool", ![t].left = IF n > MaxCalls THEN MaxCalls ELSE n]

\* maybe_extract_and_save_facts: a background task with the router of the
\* start-up; it is started by the chat before its tools, by the phone at the end.
Asks(t) == t \in Extracting
Extracted(t, calls) ==
  IF Asks(t) THEN [calls EXCEPT ![<<"facts", t>>] = select_provider(Warm(rt[Memory]))] ELSE calls
Selected(t) == IF Asks(t) THEN [rt EXCEPT ![Memory] = Warm(@)] ELSE rt

\* The first reply of a chat request is back: no answer at all is the "no
\* key" reply, an exception the server's error.
ChatAnswered(c) ==
  /\ turn[c].pc = "llm" /\ call[c] \in Answers
  /\ LET back == [call EXCEPT ![c] = NoCall] IN
     \/ call[c] = "error" /\ Over(c, rt, "nokey") /\ call' = back /\ UNCHANGED mem
     \/ call[c] = "raise" /\ Over(c, rt, "none") /\ call' = back /\ UNCHANGED mem
     \/ call[c] = "text" /\ Over(c, Selected(c), "text") /\ call' = Extracted(c, back) /\ Remember(c)
     \/ /\ call[c] = "tools" /\ TakeCalls(c)
        /\ rt' = Selected(c) /\ call' = Extracted(c, back) /\ UNCHANGED mem
  /\ UNCHANGED <<auto, said, voice>>

\* _extract_facts_bg ends: its facts are saved or its exception is logged.
FactsDone(f) ==
  /\ f \in Facts /\ call[f] \in Answers
  /\ call' = [call EXCEPT ![f] = NoCall]
  /\ UNCHANGED <<auto, rt, turn, mem, said, voice>>

-----------------------------------------------------------------------------
(* Tool calls (tool_dispatch.py), shared by chat and phone.                *)

\* Mutant: the exception of a tool reaches the server.
ToolsRaiseOut(t) ==
  IF t \in Chats THEN Over(t, rt, "none")
  ELSE turn' = [turn EXCEPT ![t].pc = "tool", ![t].left = 0, ![t].failed = TRUE] /\ UNCHANGED rt

\* An exception in execute_tool_calls: the chat answers with an error that
\* names every call, the phone goes on with the text of the first reply.
ToolsRaise(t) ==
  IF t \in Chats THEN Over(t, rt, "error")
  ELSE turn' = [turn EXCEPT ![t].pc = "tool", ![t].left = 0, ![t].failed = TRUE] /\ UNCHANGED rt

\* execute_tool_call up to its second pass: the name is no tool, the skill or
\* agent raises, or there is a result, to be phrased by the model.
Execute(t) ==
  /\ turn[t].pc = "tool" /\ turn[t].left > 0
  /\ \/ /\ turn' = [turn EXCEPT ![t].left = @ - 1]
        /\ UNCHANGED <<rt, call>>
     \/ ToolsRaise(t) /\ UNCHANGED call
     \/ /\ turn' = [turn EXCEPT ![t].left = @ - 1, ![t].pc = "phrase"]
        /\ Route(t, rt)
  /\ UNCHANGED <<auto, mem, said, voice>>

\* The second pass is back.
Phrased(t) ==
  /\ turn[t].pc = "phrase" /\ call[t] \in Answers
  /\ IF call[t] = "raise" THEN ToolsRaise(t)
     ELSE turn' = [turn EXCEPT ![t].pc = "tool", ![t].ran = TRUE] /\ UNCHANGED rt
  /\ call' = [call EXCEPT ![t] = NoCall]
  /\ UNCHANGED <<auto, mem, said, voice>>

\* No call is left: the chat remembers the turn and replies.
ChatToolsDone(c) ==
  /\ c \in Chats /\ turn[c].pc = "tool" /\ turn[c].left = 0
  /\ Remember(c)
  /\ Over(c, rt, IF turn[c].ran THEN "tools" ELSE "text")
  /\ UNCHANGED <<auto, call, said, voice>>

-----------------------------------------------------------------------------
(* The phone's pipeline.  Its handlers run to the end without suspension.  *)

InProcess == {v \in Voices : turn[v].pc \notin {"new", "done", "lost"}}

\* voice.state "listening"
OnListening ==
  /\ listens < MaxListens
  /\ listens' = listens + 1
  /\ buf' = 0 /\ st' = "listening" /\ talking' = TRUE
  /\ crossed' = (InProcess # {})
  /\ UNCHANGED <<auto, rt, call, turn, mem, said>>

\* voice.audio_stream: dropped unless listening, and past the cap the whole
\* utterance is.
OnAudio ==
  /\ talking /\ st = "listening"
  /\ IF buf + 1 > Cap THEN buf' = 0 /\ st' = "idle" /\ talking' = FALSE
     ELSE buf' = buf + 1 /\ UNCHANGED <<st, talking>>
  /\ UNCHANGED <<auto, rt, call, turn, mem, said, listens, crossed>>

\* voice.state "idle": ignored unless listening, else a task is created.
OnIdle ==
  /\ talking /\ talking' = FALSE
  /\ IF st # "listening" THEN UNCHANGED <<st, turn>>
     ELSE \E v \in Voices :
            /\ turn[v].pc = "new"
            /\ turn' = [turn EXCEPT ![v].pc = "spawned", ![v].private = ~auto] /\ st' = "thinking"
  /\ UNCHANGED <<auto, rt, call, mem, said, buf, listens, crossed>>

\* Mutant: the early return with an empty buffer keeps the state.
ProcessKeeps(v) ==
  /\ turn[v].pc = "spawned"
  /\ turn' = [turn EXCEPT ![v].pc = IF buf = 0 THEN "done" ELSE "stt"] /\ UNCHANGED st
  /\ UNCHANGED <<auto, rt, call, mem, said, buf, listens, talking, crossed>>

\* _process_utterance starts: with nothing in the buffer it is over.
Process(v) ==
  /\ turn[v].pc = "spawned"
  /\ IF buf = 0 THEN turn' = [turn EXCEPT ![v].pc = "done"] /\ st' = "idle"
     ELSE turn' = [turn EXCEPT ![v].pc = "stt"] /\ UNCHANGED st
  /\ UNCHANGED <<auto, rt, call, mem, said, buf, listens, talking, crossed>>

\* The speech recognition is back: it raised (voice.error is published), it
\* found nothing, or the reply is asked for.
Transcribed(v) ==
  /\ turn[v].pc = "stt"
  /\ \/ /\ turn' = [turn EXCEPT ![v].pc = "done"] /\ st' = "idle"
        /\ UNCHANGED <<rt, call>>
     \/ /\ turn' = [turn EXCEPT ![v].pc = "llm"] /\ UNCHANGED st
        /\ RouteStreaming(v)
  /\ UNCHANGED <<auto, mem, said, buf, listens, talking, crossed>>

\* A sentence of the stream is complete: _emit_tts_for speaks it.
Delta(v) ==
  /\ call[v] = "stream" /\ said[v] = "none"
  /\ said' = [said EXCEPT ![v] = "part"] /\ st' = "speaking"
  /\ UNCHANGED <<auto, rt, call, turn, mem, buf, listens, talking, crossed>>

\* Mutant: the rest of the text in the sentence buffer is not flushed.
StreamEndsUnflushed(v) ==
  /\ call[v] = "stream" /\ said[v] = "part"
  /\ call' = [call EXCEPT ![v] = "text"]
  /\ UNCHANGED <<auto, rt, turn, said, mem, voice>>

\* The stream ends: with its text, which is flushed and spoken; empty, which
\* is routed again for the tool call behind it; or it breaks off, and what
\* was said is said.
StreamEnds(v) ==
  /\ call[v] = "stream"
  /\ \/ /\ call' = [call EXCEPT ![v] = "text"]
        /\ said' = [said EXCEPT ![v] = "all"] /\ st' = "speaking"
        /\ UNCHANGED <<rt, turn>>
     \/ /\ said[v] = "none" /\ Route(v, rt)
        /\ turn' = [turn EXCEPT ![v].broken = TRUE] /\ UNCHANGED <<said, st>>
     \/ /\ Route(v, rt)
        /\ turn' = [turn EXCEPT ![v].broken = TRUE] /\ UNCHANGED <<said, st>>
  /\ UNCHANGED <<auto, mem, buf, listens, talking, crossed>>

\* The whole response is back.  What was routed and not streamed is handed to
\* on_delta and spoken, unless the route stood in for a stream.
VoiceAnswered(v) ==
  /\ v \in Voices /\ turn[v].pc = "llm" /\ call[v] \in Answers
  /\ call' = [call EXCEPT ![v] = NoCall]
  /\ IF call[v] \in {"text", "error"} /\ ~turn[v].broken /\ said[v] = "none"
     THEN said' = [said EXCEPT ![v] = "all"] /\ st' = "speaking"
     ELSE UNCHANGED <<said, st>>
  /\ CASE call[v] = "raise" -> turn' = [turn EXCEPT ![v].pc = "lost"]
       [] call[v] = "tools" -> TakeCalls(v)
       [] OTHER -> turn' = [turn EXCEPT ![v].pc = "tool", ![v].reply = "text"]
  /\ UNCHANGED <<auto, rt, mem, buf, listens, talking, crossed>>

\* agent.response is published, after the combined result was spoken; facts
\* are extracted and the pipeline is idle.
VoiceDone(v) ==
  /\ v \in Voices /\ turn[v].pc = "tool" /\ turn[v].left = 0
  /\ LET executed == turn[v].ran /\ ~turn[v].failed IN
     /\ turn' = [turn EXCEPT ![v].pc = "done", ![v].reply = IF executed THEN "tools" ELSE @]
     /\ said' = [said EXCEPT ![v] = IF executed THEN "all" ELSE @]
  /\ rt' = Selected(v) /\ call' = Extracted(v, call)
  /\ st' = "idle"
  /\ UNCHANGED <<auto, mem, buf, listens, talking, crossed>>

-----------------------------------------------------------------------------
OfChat(c) == Chat(c) \/ ChatAnswered(c) \/ ChatToolsDone(c)
OfVoice(v) == Process(v) \/ Transcribed(v) \/ Delta(v) \/ StreamEnds(v) \/ VoiceAnswered(v) \/ VoiceDone(v)
OfTask(t) == Answer(t) \/ Fails(t) \/ FactsDone(t)

Next ==
  \/ \E c \in Chats : OfChat(c)
  \/ \E v \in Voices : OfVoice(v)
  \/ \E t \in Turns : Execute(t) \/ Phrased(t)
  \/ \E t \in Tasks : OfTask(t)
  \/ \E r \in Routers : Cool(r)
  \/ Settings \/ OnListening \/ OnAudio \/ OnIdle

Spec == Init /\ [][Next]_vars

-----------------------------------------------------------------------------
\* A router made with auto_route off sends nothing to the cloud: not by
\* selection, not as a fallback, not as a stream, and not for the second pass
\* of a tool call ("local-only (privacy) choice", route).
LocalOnlyPerRouter ==
  \A t \in Tasks : call[t] \in {"cloud", "cloud2", "stream"} => rt[Router(t)].auto

\* Nothing of a turn that was made while the settings say local-only reaches
\* the cloud: what the comments of select_provider and route promise.
LocalOnlyStaysLocal ==
  \A t \in Tasks : call[t] \in {"cloud", "cloud2", "stream"} =>
    ~turn[IF t \in Turns THEN t ELSE t[2]].private

\* The chat's memory is whole exchanges of one request each, the newest ones,
\* however requests overlap (_chat_logic; ConversationMemory.add_turn).
TurnsPaired ==
  /\ Len(mem) % 2 = 0 /\ Len(mem) <= 2 * MaxTurns
  /\ \A i \in 1..(Len(mem) \div 2) :
       \E c \in Chats : mem[2*i - 1] = <<"user", c>> /\ mem[2*i] = <<"assistant", c>>

\* An utterance that gets a reply has all of it spoken, streamed or not,
\* unless the stream broke off or came empty (_process_utterance).
SaidInFull ==
  \A v \in Voices :
    turn[v].pc = "done" /\ turn[v].reply # "none" /\ ~turn[v].broken => said[v] = "all"

\* A request that ran a tool says so or reports the error: it neither dies
\* nor answers as if nothing had run (_chat_logic, step 4).
NoSilentWork ==
  \A c \in Chats : turn[c].ran =>
    turn[c].pc # "lost" /\ (turn[c].pc = "done" => turn[c].reply \in {"tools", "error"})
=============================================================================
