-------------------------- MODULE Assistant_proofs --------------------------
(***************************************************************************)
(* Theorems about the parts of the assistant run, for every value of their *)
(* constants: the assistant (Assistant), the synthesis of speech (Speech), *)
(* the models on disk and in memory (VoiceModels) and the Python worker    *)
(* (TtsWorker).  The module extends the one that the run checks, where the *)
(* last three are the instances S, M and W; a theorem speaks of the part's *)
(* own specification and of the run's.                                     *)
(***************************************************************************)
EXTENDS MCAssistant, SequenceTheorems, TLAPS

-----------------------------------------------------------------------------
(* The run's steps are steps of the assistant: its other parts rest.       *)

\* A behaviour of the run is one of the assistant.
LEMMA RunsAssistant == MCSpec => Spec
<1>1. MCInit => Init
  BY DEF MCInit
<1>2. [MCNext]_<<part, vars, speech, models, worker>> => [Next]_vars
  BY DEF MCNext
<1>3. QED
  BY <1>1, <1>2, PTL DEF MCSpec, Spec

-----------------------------------------------------------------------------
(* A local-only router sends nothing to the cloud.                         *)

Boxes == [auto: BOOLEAN, cloud: Breaker, local: Breaker, fails: 0..2]
Cloudy == {"cloud", "cloud2", "stream"}

PrivacyInv ==
  /\ rt \in [Routers -> Boxes]
  /\ call \in [Tasks -> {NoCall} \cup Asked \cup Answers]
  /\ LocalOnlyPerRouter

\* Which router a task uses; a chat request's is its own.
LEMMA RouterFacts ==
  /\ \A t \in Tasks : Router(t) \in Routers
  /\ \A c \in Chats : c \in Tasks /\ Router(c) = c
  /\ \A t \in Tasks, c \in Chats : Router(t) = c => t = c
  /\ Memory \in Routers /\ Turns \subseteq Tasks /\ Voices \subseteq Turns /\ Chats \subseteq Turns
  /\ \A t \in Turns : Asks(t) => <<"facts", t>> \in Tasks /\ Router(<<"facts", t>>) = Memory
BY AssistantAssumption DEF Tasks, Turns, Facts, Routers, Router, Asks, Remote, Memory

\* Cooling keeps a router's settings, and a local-only one selects no cloud.
LEMMA SelectFacts ==
  ASSUME NEW b \in Boxes
  PROVE  /\ Warm(b) \in Boxes /\ Warm(b).auto = b.auto
         /\ select_provider(b) \in {"cloud", "local"}
         /\ select_provider(b) = "cloud" => b.auto
<1> DEFINE cloud == IF b.cloud = "cooled" THEN "up" ELSE b.cloud
           local == IF b.local = "cooled" THEN "up" ELSE b.local
           fails == IF b.local = "cooled" THEN 0 ELSE b.fails
<1>1. cloud \in Breaker /\ local \in Breaker /\ fails \in 0..2 /\ b.auto \in BOOLEAN
  BY DEF Boxes, Breaker
<1>2. CASE b.auto
  <2>1. Warm(b) = [b EXCEPT !.cloud = cloud, !.local = local, !.fails = fails]
    BY <1>2 DEF Warm
  <2>2. Warm(b) \in Boxes /\ Warm(b).auto = b.auto
    BY <1>1, <2>1 DEF Boxes
  <2>3. QED
    BY <1>2, <2>2 DEF select_provider
<1>3. CASE ~b.auto
  BY <1>3 DEF Warm, select_provider
<1>4. QED
  BY <1>2, <1>3

\* Fresh routers are well formed.
LEMMA FreshFacts == \A a \in BOOLEAN : Fresh(a) \in Boxes /\ Fresh(a).auto = a
BY DEF Fresh, Boxes, Breaker

\* PrivacyInv holds initially: nothing has been called.
LEMMA InitPrivacy == Init => PrivacyInv
BY FreshFacts DEF Init, PrivacyInv, LocalOnlyPerRouter, NoCall


\* A step that leaves the settings of every router alone, and begins no call of
\* a local-only one to the cloud.
Private ==
  /\ rt' \in [Routers -> Boxes]
  /\ \A r \in Routers : rt'[r].auto = rt[r].auto
  /\ call' \in [Tasks -> {NoCall} \cup Asked \cup Answers]
  /\ \A t \in Tasks : call'[t] \in Cloudy => call[t] \in Cloudy \/ rt[Router(t)].auto

\* Such a step keeps PrivacyInv.
LEMMA PrivateKeeps == PrivacyInv /\ Private => PrivacyInv'
<1> SUFFICES ASSUME PrivacyInv, Private, NEW t \in Tasks, call'[t] \in Cloudy
             PROVE  rt'[Router(t)].auto
  BY DEF PrivacyInv, Private, LocalOnlyPerRouter, Cloudy
<1>1. rt'[Router(t)].auto = rt[Router(t)].auto
  BY RouterFacts DEF Private
<1>2. rt[Router(t)].auto
  BY DEF PrivacyInv, Private, LocalOnlyPerRouter, Cloudy
<1>3. QED
  BY <1>1, <1>2

\* What route does to a router and to the call of its task.
LEMMA RouteFacts ==
  ASSUME NEW t \in Tasks, NEW routers \in [Routers -> Boxes], Route(t, routers),
         call \in [Tasks -> {NoCall} \cup Asked \cup Answers]
  PROVE  /\ rt' \in [Routers -> Boxes] /\ \A r \in Routers : rt'[r].auto = routers[r].auto
         /\ call' \in [Tasks -> {NoCall} \cup Asked \cup Answers]
         /\ call'[t] \in Cloudy => routers[Router(t)].auto
         /\ \A u \in Tasks \ {t} : call'[u] = call[u]
<1> DEFINE r == Router(t)
           b == Warm(routers[r])
<1>1. r \in Routers /\ routers[r] \in Boxes
  BY RouterFacts
<1>2. b \in Boxes /\ b.auto = routers[r].auto
  BY <1>1, SelectFacts
<1>3. select_provider(b) \in {"cloud", "local"} /\ (select_provider(b) = "cloud" => b.auto)
  BY <1>2, SelectFacts
<1>4. rt' = [routers EXCEPT ![r] = b] /\ call' = [call EXCEPT ![t] = select_provider(b)]
  BY DEF Route
<1>5. rt' \in [Routers -> Boxes] /\ \A q \in Routers : rt'[q].auto = routers[q].auto
  <2>1. \A q \in Routers : rt'[q] = IF q = r THEN b ELSE routers[q]
    BY <1>4
  <2> HIDE DEF b
  <2>2. rt' \in [Routers -> Boxes]
    BY <1>1, <1>2, <1>4
  <2>3. QED
    BY <2>1, <2>2, <1>2
<1>6. QED
  BY <1>2, <1>3, <1>4, <1>5 DEF Asked, Cloudy

\* Over ends the request of a chat: its router is fresh.
LEMMA OverFacts ==
  ASSUME NEW c \in Chats, NEW routers \in [Routers -> Boxes], NEW answer, Over(c, routers, answer)
  PROVE  /\ rt' \in [Routers -> Boxes] /\ rt'[c].auto
         /\ \A r \in Routers \ {c} : rt'[r].auto = routers[r].auto
<1>1. rt' = [routers EXCEPT ![c] = Fresh(TRUE)] /\ c \in Routers /\ Fresh(TRUE) \in Boxes /\ Fresh(TRUE).auto
  BY FreshFacts DEF Over, Routers
<1> HIDE DEF Fresh
<1>2. QED
  BY <1>1

\* What the start of an extraction does to its router and its call.
LEMMA ExtractFacts ==
  ASSUME NEW t \in Turns, PrivacyInv, NEW calls \in [Tasks -> {NoCall} \cup Asked \cup Answers]
  PROVE  /\ Selected(t) \in [Routers -> Boxes]
         /\ \A r \in Routers : Selected(t)[r].auto = rt[r].auto
         /\ Extracted(t, calls) \in [Tasks -> {NoCall} \cup Asked \cup Answers]
         /\ \A u \in Tasks : Extracted(t, calls)[u] \in Cloudy => calls[u] \in Cloudy \/ rt[Router(u)].auto
<1> DEFINE b == Warm(rt[Memory])
           f == <<"facts", t>>
<1>1. Memory \in Routers /\ rt[Memory] \in Boxes
  BY RouterFacts DEF PrivacyInv
<1>2. /\ b \in Boxes /\ b.auto = rt[Memory].auto
      /\ select_provider(b) \in {"cloud", "local"} /\ (select_provider(b) = "cloud" => b.auto)
  BY <1>1, SelectFacts
<1>3. CASE ~Asks(t)
  BY <1>3 DEF Selected, Extracted, PrivacyInv
<1>4. CASE Asks(t)
  <2>1. f \in Tasks /\ Router(f) = Memory
    BY <1>4, RouterFacts
  <2>2. Extracted(t, calls) = [calls EXCEPT ![f] = select_provider(b)]
    BY <1>4 DEF Extracted
  <2>3. /\ Extracted(t, calls) \in [Tasks -> {NoCall} \cup Asked \cup Answers]
        /\ \A u \in Tasks : Extracted(t, calls)[u] = IF u = f THEN select_provider(b) ELSE calls[u]
    BY <2>1, <2>2, <1>2 DEF Asked
  <2>4. Selected(t) = [rt EXCEPT ![Memory] = b] /\ rt \in [Routers -> Boxes]
    BY <1>4 DEF Selected, PrivacyInv
  <2> HIDE DEF b
  <2>5. Selected(t) \in [Routers -> Boxes] /\ \A r \in Routers : Selected(t)[r].auto = rt[r].auto
    <3>1. \A r \in Routers : Selected(t)[r] = IF r = Memory THEN b ELSE rt[r]
      BY <2>4
    <3>2. Selected(t) \in [Routers -> Boxes]
      BY <2>4, <1>1, <1>2
    <3>3. QED
      BY <3>1, <3>2, <1>2
  <2>6. ASSUME NEW u \in Tasks, Extracted(t, calls)[u] \in Cloudy
        PROVE  calls[u] \in Cloudy \/ rt[Router(u)].auto
    BY <2>1, <2>3, <2>6, <1>2 DEF Cloudy
  <2>7. QED
    BY <2>3, <2>5, <2>6
<1>5. QED
  BY <1>3, <1>4

\* The setting stays on or off.
LEMMA StepAuto == auto \in BOOLEAN /\ [Next]_vars => (auto \in BOOLEAN)'
<1>1. [Next]_vars => auto' = auto \/ auto' = ~auto
  BY DEF Next, vars, OfChat, OfVoice, OfTask, Chat, ChatAnswered, ChatToolsDone, Process, Transcribed, Delta,
     StreamEnds, VoiceAnswered, VoiceDone, Execute, Phrased, Answer, Fails, FactsDone, Cool, Settings,
     OnListening, OnAudio, OnIdle
<1>2. QED
  BY <1>1

\* No step breaks PrivacyInv.
LEMMA StepPrivacy == auto \in BOOLEAN /\ PrivacyInv /\ [Next]_vars => PrivacyInv'
<1> SUFFICES ASSUME auto \in BOOLEAN, PrivacyInv, [Next]_vars PROVE PrivacyInv'
  OBVIOUS
<1> DEFINE Calls == {NoCall} \cup Asked \cup Answers
<1>0. rt \in [Routers -> Boxes] /\ call \in [Tasks -> Calls] /\ "none" \in Calls
  BY DEF PrivacyInv, NoCall
<1>1. ASSUME NEW t \in Tasks, \/ Answer(t) \/ FactsDone(t) \/ (t \in Turns /\ (Phrased(t) /\ t \notin Chats))
      PROVE  Private
  <2>1. /\ rt' = rt
        /\ \E a \in Answers \cup {NoCall} : call' = [call EXCEPT ![t] = a]
    BY <1>1 DEF Answer, FactsDone, Phrased, ToolsRaise, Replies, Answers, _call_local, _call_anthropic,
         _call_openai, _call_openai_compat, _call_google
  <2>2. QED
    BY <2>1, <1>0 DEF Private, Cloudy, Answers, NoCall
<1>2. ASSUME NEW t \in Tasks, Fails(t) PROVE Private
  <2>1. Router(t) \in Routers
    BY RouterFacts
  <2>2. /\ rt' \in [Routers -> Boxes]
        /\ \A r \in Routers : rt'[r].auto = rt[r].auto
    BY <1>2, <1>0, <2>1 DEF Fails, CloudDown, LocalDown, FallbackDown, Boxes, Breaker
  <2>3. \E a \in {"local2", "cloud2", "error", "raise"} :
          call' = [call EXCEPT ![t] = a] /\ (a = "cloud2" => rt[Router(t)].auto)
    BY <1>2 DEF Fails, CloudDown, LocalDown, FallbackDown
  <2>4. QED
    BY <2>2, <2>3, <1>0 DEF Private, Cloudy, Asked, Answers
<1>3. ASSUME NEW r \in Routers, Cool(r) PROVE Private
  <2> DEFINE cloud == IF rt[r].cloud = "down" THEN "cooled" ELSE rt[r].cloud
             local == IF rt[r].local = "down" THEN "cooled" ELSE rt[r].local
             box == [rt[r] EXCEPT !.cloud = cloud, !.local = local]
  <2>1. rt' = [rt EXCEPT ![r] = box] /\ call' = call
    BY <1>3 DEF Cool
  <2>2. rt[r] \in Boxes /\ cloud \in Breaker /\ local \in Breaker
    BY <1>0 DEF Boxes, Breaker
  <2>3. box \in Boxes /\ box.auto = rt[r].auto
    BY <2>2 DEF Boxes
  <2> HIDE DEF box
  <2>4. rt' \in [Routers -> Boxes] /\ \A q \in Routers : rt'[q] = IF q = r THEN box ELSE rt[q]
    BY <1>0, <2>1, <2>3
  <2>5. \A q \in Routers : rt'[q].auto = rt[q].auto
    BY <2>3, <2>4
  <2>6. QED
    BY <1>0, <2>1, <2>4, <2>5 DEF Private
<1>4. ASSUME NEW c \in Chats, Chat(c) PROVE PrivacyInv'
  <2> DEFINE routers == [rt EXCEPT ![c] = Fresh(auto)]
  <2>1. c \in Routers /\ Fresh(auto) \in Boxes /\ c \in Tasks
    BY FreshFacts, RouterFacts DEF Routers
  <2>2. routers \in [Routers -> Boxes] /\ \A r \in Routers \ {c} : routers[r] = rt[r]
    BY <1>0, <2>1
  <2>3. Route(c, routers)
    BY <1>4, Zenon DEF Chat
  <2> HIDE DEF routers
  <2>4. /\ rt' \in [Routers -> Boxes] /\ \A r \in Routers : rt'[r].auto = routers[r].auto
        /\ call' \in [Tasks -> {NoCall} \cup Asked \cup Answers]
        /\ call'[c] \in Cloudy => routers[Router(c)].auto
        /\ \A u \in Tasks \ {c} : call'[u] = call[u]
    BY <2>1, <2>2, <2>3, <1>0, RouteFacts
  <2>5. ASSUME NEW t \in Tasks, call'[t] \in Cloudy PROVE rt'[Router(t)].auto
    <3>1. CASE t = c
      BY <3>1, <2>1, <2>4, <2>5, RouterFacts
    <3>2. CASE t # c
      <4>1. Router(t) \in Routers \ {c} /\ rt[Router(t)].auto
        BY <3>2, <2>4, <2>5, RouterFacts DEF PrivacyInv, LocalOnlyPerRouter, Cloudy
      <4>2. rt'[Router(t)].auto = rt[Router(t)].auto
        BY <4>1, <2>2, <2>4
      <4>3. QED
        BY <4>1, <4>2
    <3>3. QED
      BY <3>1, <3>2
  <2>6. QED
    BY <2>4, <2>5 DEF PrivacyInv, LocalOnlyPerRouter, Cloudy
\* The request ends with its router; what is left is unchanged.
<1>5. ASSUME NEW c \in Chats, NEW routers \in [Routers -> Boxes], NEW answer, Over(c, routers, answer),
             \A r \in Routers : routers[r].auto = rt[r].auto,
             call' \in [Tasks -> Calls],
             \A u \in Tasks : call'[u] \in Cloudy => call[u] \in Cloudy \/ rt[Router(u)].auto
      PROVE PrivacyInv'
  <2>1. /\ rt' \in [Routers -> Boxes] /\ rt'[c].auto
        /\ \A r \in Routers \ {c} : rt'[r].auto = routers[r].auto
    BY <1>5, OverFacts
  <2>2. ASSUME NEW t \in Tasks, call'[t] \in Cloudy PROVE rt'[Router(t)].auto
    <3>1. CASE t = c
      BY <3>1, <2>1, RouterFacts
    <3>2. CASE t # c
      <4>1. Router(t) \in Routers \ {c} /\ rt[Router(t)].auto
        BY <3>2, <2>2, <1>5, RouterFacts DEF PrivacyInv, LocalOnlyPerRouter, Cloudy
      <4>2. rt'[Router(t)].auto = rt[Router(t)].auto
        BY <4>1, <2>1, <1>5
      <4>3. QED
        BY <4>1, <4>2
    <3>3. QED
      BY <3>1, <3>2
  <2>3. QED
    BY <1>5, <2>1, <2>2 DEF PrivacyInv, LocalOnlyPerRouter, Cloudy
<1>6. ASSUME NEW c \in Chats, ChatAnswered(c) PROVE PrivacyInv'
  <2> DEFINE back == [call EXCEPT ![c] = NoCall]
  <2>1. /\ back \in [Tasks -> Calls] /\ c \in Turns /\ c \in Tasks
        /\ \A u \in Tasks : back[u] \in Cloudy => call[u] \in Cloudy
    BY <1>0, RouterFacts DEF NoCall, Cloudy
  <2>2. /\ Selected(c) \in [Routers -> Boxes]
        /\ \A r \in Routers : Selected(c)[r].auto = rt[r].auto
        /\ Extracted(c, back) \in [Tasks -> Calls]
        /\ \A u \in Tasks : Extracted(c, back)[u] \in Cloudy => back[u] \in Cloudy \/ rt[Router(u)].auto
    <3> HIDE DEF back
    <3>1. QED
      BY <2>1, ExtractFacts
  <2>3. CASE call' = back /\ (Over(c, rt, "nokey") \/ Over(c, rt, "none"))
    BY <2>3, <2>1, <1>0, <1>5
  <2>4. CASE Over(c, Selected(c), "text") /\ call' = Extracted(c, back)
    BY <2>4, <2>1, <2>2, <1>5
  <2>5. CASE rt' = Selected(c) /\ call' = Extracted(c, back)
    <3>1. Private
      BY <2>5, <2>1, <2>2 DEF Private
    <3>2. QED
      BY <3>1, PrivateKeeps
  <2>6. QED
    BY <1>6, <2>3, <2>4, <2>5 DEF ChatAnswered
<1>7. ASSUME NEW t \in Turns, \/ Execute(t)
                              \/ (t \in Chats /\ (Phrased(t) \/ ChatToolsDone(t)))
      PROVE PrivacyInv'
  <2>1. t \in Tasks
    BY RouterFacts
  <2>2. CASE Route(t, rt)
    <3>1. Private
      BY <1>0, <2>1, <2>2, RouteFacts DEF Private
    <3>2. QED
      BY <3>1, PrivateKeeps
  <2>3. CASE rt' = rt /\ (call' = call \/ call' = [call EXCEPT ![t] = NoCall])
    <3>1. Private
      BY <2>3, <1>0 DEF Private, Cloudy, NoCall
    <3>2. QED
      BY <3>1, PrivateKeeps
  <2>4. CASE /\ t \in Chats /\ \E answer : Over(t, rt, answer)
             /\ (call' = call \/ call' = [call EXCEPT ![t] = NoCall])
    <3>1. call' \in [Tasks -> Calls] /\ \A u \in Tasks : call'[u] \in Cloudy => call[u] \in Cloudy
      BY <2>4, <1>0 DEF NoCall, Cloudy
    <3>2. QED
      BY <2>4, <3>1, <1>0, <1>5
  <2>5. QED
    BY <1>7, <2>2, <2>3, <2>4 DEF Execute, Phrased, ChatToolsDone, ToolsRaise
<1>8. ASSUME NEW v \in Voices, Process(v) \/ Delta(v) \/ VoiceAnswered(v) PROVE Private
  <2>1. rt' = rt /\ (call' = call \/ call' = [call EXCEPT ![v] = NoCall]) /\ v \in Tasks
    BY <1>8, RouterFacts DEF Process, Delta, VoiceAnswered, voice
  <2>2. QED
    BY <2>1, <1>0 DEF Private, Cloudy, NoCall
<1>9. ASSUME NEW v \in Voices, Transcribed(v) PROVE Private
  <2>1. CASE UNCHANGED <<rt, call>>
    BY <2>1, <1>0 DEF Private
  <2>2. CASE RouteStreaming(v)
    <3> DEFINE b == Warm(rt[Router(v)])
    <3>1. Router(v) \in Routers /\ rt[Router(v)] \in Boxes /\ v \in Tasks
      BY <1>0, RouterFacts
    <3>2. /\ b \in Boxes /\ b.auto = rt[Router(v)].auto
          /\ select_provider(b) \in {"cloud", "local"} /\ (select_provider(b) = "cloud" => b.auto)
      BY <3>1, SelectFacts
    <3>3. /\ rt' = [rt EXCEPT ![Router(v)] = b]
          /\ \E a \in {"stream", "cloud", "local"} :
                call' = [call EXCEPT ![v] = a] /\ (a # "local" => select_provider(b) = "cloud")
      BY <2>2, <3>2 DEF RouteStreaming
    <3> HIDE DEF b
    <3>4. rt' \in [Routers -> Boxes] /\ \A q \in Routers : rt'[q] = IF q = Router(v) THEN b ELSE rt[q]
      BY <1>0, <3>1, <3>2, <3>3
    <3>5. \A q \in Routers : rt'[q].auto = rt[q].auto
      BY <3>2, <3>4
    <3>6. \A t \in Tasks : call'[t] \in Cloudy => call[t] \in Cloudy \/ rt[Router(t)].auto
      BY <1>0, <3>1, <3>2, <3>3 DEF Cloudy
    <3>7. call' \in [Tasks -> Calls]
      BY <1>0, <3>3 DEF Asked
    <3>8. QED
      BY <3>4, <3>5, <3>6, <3>7 DEF Private
  <2>3. QED
    BY <1>9, <2>1, <2>2 DEF Transcribed
<1>10. ASSUME NEW v \in Voices, StreamEnds(v) PROVE Private
  <2>1. v \in Tasks
    BY RouterFacts
  <2>2. CASE UNCHANGED rt /\ call' = [call EXCEPT ![v] = "text"]
    BY <2>2, <1>0 DEF Private, Cloudy, Answers
  <2>3. CASE Route(v, rt)
    BY <1>0, <2>1, <2>3, RouteFacts DEF Private
  <2>4. QED
    BY <1>10, <2>2, <2>3 DEF StreamEnds
<1>11. ASSUME NEW v \in Voices, VoiceDone(v) PROVE Private
  BY <1>0, <1>11, ExtractFacts, RouterFacts DEF VoiceDone, Private
<1>12. CASE Settings \/ OnListening \/ OnAudio \/ OnIdle \/ UNCHANGED vars
  <2>1. UNCHANGED <<rt, call>>
    BY <1>12 DEF Settings, OnListening, OnAudio, OnIdle, vars
  <2>2. QED
    BY <2>1, <1>0, PrivateKeeps DEF Private
<1>13. QED
  BY <1>1, <1>2, <1>3, <1>4, <1>6, <1>7, <1>8, <1>9, <1>10, <1>11, <1>12, PrivateKeeps, RouterFacts
     DEF Next, OfChat, OfVoice, OfTask

\* A router made with auto_route off sends nothing to the cloud, however many
\* requests, fallbacks, streams and extractions overlap (LLMRouter.route).
THEOREM LocalOnlyRoutersStayLocal == (Spec => []LocalOnlyPerRouter) /\ (MCSpec => []LocalOnlyPerRouter)
<1>1. Init => auto \in BOOLEAN
  BY DEF Init
<1>2. Spec => [](auto \in BOOLEAN)
  BY <1>1, StepAuto, PTL DEF Spec
<1>3. PrivacyInv => LocalOnlyPerRouter
  BY DEF PrivacyInv
<1>4. QED
  BY <1>2, <1>3, InitPrivacy, StepPrivacy, RunsAssistant, PTL DEF Spec

-----------------------------------------------------------------------------
(* The work a chat request has done is not passed over in silence.         *)

\* Where a chat request that has run a tool can be.
Accounted(t) == \/ t.pc \in {"tool", "phrase"}
                \/ t.pc = "done" /\ t.reply \in {"tools", "error"}

WorkInv == /\ turn \in [Turns -> [pc: Steps, left: Nat, ran: BOOLEAN, failed: BOOLEAN, broken: BOOLEAN, private: BOOLEAN,
                                  reply: {"none", "text", "tools", "error", "nokey"}]]
           /\ \A c \in Chats : turn[c].ran => Accounted(turn[c])

\* WorkInv holds initially: no tool has run.
LEMMA InitWork == Init => WorkInv
<1> SUFFICES ASSUME Init PROVE WorkInv
  OBVIOUS
<1>1. PICK made \in Together : turn = [t \in Turns |-> IF t \in made THEN NewTurn ELSE [NewTurn EXCEPT !.pc = "lost"]]
  BY DEF Init
<1>2. QED
  BY <1>1 DEF WorkInv, NewTurn, Steps, Turns, Accounted

\* No step breaks WorkInv: a request leaves its tools with a reply that says so.
LEMMA StepWork == WorkInv /\ auto \in BOOLEAN /\ [Next]_vars => WorkInv'
<1> SUFFICES ASSUME WorkInv, auto \in BOOLEAN, [Next]_vars PROVE WorkInv'
  OBVIOUS
<1> DEFINE TurnSet == [pc: Steps, left: Nat, ran: BOOLEAN, failed: BOOLEAN, broken: BOOLEAN, private: BOOLEAN,
                       reply: {"none", "text", "tools", "error", "nokey"}]
<1>0. turn \in [Turns -> TurnSet] /\ Chats \subseteq Turns /\ Voices \subseteq Turns
  BY DEF WorkInv, Turns
\* One turn goes on.
<1>1. ASSUME NEW t \in Turns, NEW new \in TurnSet, turn' = [turn EXCEPT ![t] = new],
             t \in Chats /\ new.ran => Accounted(new)
      PROVE  WorkInv'
  <2>1. turn' \in [Turns -> TurnSet] /\ \A u \in Turns : turn'[u] = IF u = t THEN new ELSE turn[u]
    BY <1>1, <1>0
  <2>2. ASSUME NEW c \in Chats, turn'[c].ran PROVE Accounted(turn'[c])
    BY <2>1, <2>2, <1>0, <1>1 DEF WorkInv
  <2>3. QED
    BY <2>1, <2>2 DEF WorkInv
\* Before its tools a request has run none.
<1>11. ASSUME NEW c \in Chats, turn[c].pc \in {"new", "llm"} PROVE ~turn[c].ran
  BY <1>11 DEF WorkInv, Accounted
<1>2. ASSUME NEW c \in Chats, Chat(c) PROVE WorkInv'
  <2> DEFINE new == [turn[c] EXCEPT !.pc = "llm", !.private = ~auto]
  <2>1. turn' = [turn EXCEPT ![c] = new]
    BY <1>2 DEF Chat
  <2>2. turn[c] \in TurnSet /\ "llm" \in Steps /\ (~auto) \in BOOLEAN /\ c \in Turns
    <3>1. turn[c] \in TurnSet /\ "llm" \in Steps /\ c \in Turns
      BY <1>0 DEF Steps
    <3>2. (~auto) \in BOOLEAN
      OBVIOUS
    <3>3. QED
      BY <3>1, <3>2
  <2>3. new \in TurnSet
    BY <2>2
  <2>4. new.ran <=> turn[c].ran
    BY <2>2
  <2>5. ~new.ran
    BY <1>2, <2>4, <1>11 DEF Chat
  <2>6. QED
    BY <1>1, <2>1, <2>2, <2>3, <2>5
\* A request ends without having run a tool, or with a reply that says so.
<1>12. ASSUME NEW c \in Chats, NEW routers, NEW answer \in {"none", "text", "tools", "error", "nokey"},
              Over(c, routers, answer), turn[c].ran => answer \in {"tools", "error"}
       PROVE WorkInv'
  <2> DEFINE where == IF answer = "none" THEN "lost" ELSE "done"
             new == [turn[c] EXCEPT !.pc = where, !.reply = answer, !.left = 0]
  <2>1. turn' = [turn EXCEPT ![c] = new]
    BY <1>12 DEF Over
  <2>2. turn[c] \in TurnSet /\ where \in Steps /\ c \in Turns
    BY <1>0 DEF Steps
  <2>3. new \in TurnSet /\ new.pc = where /\ new.reply = answer
    BY <2>2, <1>12
  <2>4. new.ran <=> turn[c].ran
    BY <2>2
  <2>5. new.ran => Accounted(new)
    BY <1>12, <2>3, <2>4 DEF Accounted
  <2>6. QED
    BY <1>1, <2>1, <2>2, <2>3, <2>5
\* A turn goes to its tools.
<1>13. ASSUME NEW t \in Turns, TakeCalls(t) PROVE WorkInv'
  <2>1. PICK n \in 1..Emitted : turn' = [turn EXCEPT ![t].pc = "tool", ![t].left = IF n > MaxCalls THEN MaxCalls ELSE n]
    BY <1>13 DEF TakeCalls
  <2> DEFINE left == IF n > MaxCalls THEN MaxCalls ELSE n
             new == [turn[t] EXCEPT !.pc = "tool", !.left = left]
  <2>2. turn[t] \in TurnSet /\ "tool" \in Steps /\ left \in Nat
    BY <1>0, AssistantAssumption DEF Steps
  <2>3. turn' = [turn EXCEPT ![t] = new]
    BY <2>1
  <2> HIDE DEF left
  <2>4. new \in TurnSet /\ new.pc = "tool"
    BY <2>2
  <2> HIDE DEF new
  <2>5. QED
    BY <1>1, <2>3, <2>4 DEF Accounted
<1>3. ASSUME NEW c \in Chats, ChatAnswered(c) PROVE WorkInv'
  <2>1. ~turn[c].ran
    BY <1>3, <1>11 DEF ChatAnswered
  <2>2. TakeCalls(c) \/ \E answer \in {"none", "text", "nokey"} : \E routers : Over(c, routers, answer)
    BY <1>3 DEF ChatAnswered
  <2>3. QED
    BY <2>1, <2>2, <1>0, <1>12, <1>13
<1>4. ASSUME NEW c \in Chats, ChatToolsDone(c) PROVE WorkInv'
  <2>1. \/ turn[c].ran /\ Over(c, rt, "tools")
        \/ ~turn[c].ran /\ Over(c, rt, "text")
    BY <1>4 DEF ChatToolsDone
  <2>2. QED
    BY <2>1, <1>12
\* The exception of a tool.
<1>14. ASSUME NEW t \in Turns, ToolsRaise(t) PROVE WorkInv'
  <2>1. CASE t \in Chats
    BY <1>14, <2>1, <1>12 DEF ToolsRaise
  <2>2. CASE t \notin Chats
    <3> DEFINE new == [turn[t] EXCEPT !.pc = "tool", !.left = 0, !.failed = TRUE]
    <3>1. turn' = [turn EXCEPT ![t] = new]
      BY <1>14, <2>2 DEF ToolsRaise
    <3>2. turn[t] \in TurnSet /\ "tool" \in Steps
      BY <1>0 DEF Steps
    <3>3. new \in TurnSet
      BY <3>2
    <3>4. QED
      BY <1>1, <2>2, <3>1, <3>3
  <2>3. QED
    BY <2>1, <2>2
<1>5. ASSUME NEW t \in Turns, Execute(t) PROVE WorkInv'
  <2>1. turn[t] \in TurnSet /\ turn[t].left - 1 \in Nat /\ "phrase" \in Steps
    <3>1. turn[t] \in TurnSet /\ turn[t].left > 0
      BY <1>0, <1>5 DEF Execute
    <3>2. turn[t].left \in Nat
      BY <3>1
    <3>3. QED
      BY <3>1, <3>2 DEF Steps
  <2>2. CASE turn' = [turn EXCEPT ![t].left = @ - 1]
    <3> DEFINE new == [turn[t] EXCEPT !.left = turn[t].left - 1]
    <3>1. turn' = [turn EXCEPT ![t] = new]
      BY <2>2
    <3>2. new \in TurnSet /\ new.pc = turn[t].pc
      BY <2>1
    <3>3. Accounted(new)
      BY <3>2, <1>5 DEF Execute, Accounted
    <3>4. QED
      BY <1>1, <3>1, <3>2, <3>3
  <2>3. CASE turn' = [turn EXCEPT ![t].left = @ - 1, ![t].pc = "phrase"]
    <3> DEFINE new == [turn[t] EXCEPT !.left = turn[t].left - 1, !.pc = "phrase"]
    <3>1. turn' = [turn EXCEPT ![t] = new]
      BY <2>3
    <3>2. new \in TurnSet /\ new.pc = "phrase"
      BY <2>1
    <3>3. QED
      BY <1>1, <3>1, <3>2 DEF Accounted
  <2>4. QED
    BY <1>5, <1>14, <2>2, <2>3 DEF Execute
<1>6. ASSUME NEW t \in Turns, Phrased(t) PROVE WorkInv'
  <2>1. CASE turn' = [turn EXCEPT ![t].pc = "tool", ![t].ran = TRUE]
    <3> DEFINE new == [turn[t] EXCEPT !.pc = "tool", !.ran = TRUE]
    <3>1. turn' = [turn EXCEPT ![t] = new]
      BY <2>1
    <3>2. turn[t] \in TurnSet /\ "tool" \in Steps
      BY <1>0 DEF Steps
    <3>3. new \in TurnSet /\ new.pc = "tool"
      BY <3>2
    <3>4. QED
      BY <1>1, <3>1, <3>3 DEF Accounted
  <2>2. QED
    BY <1>6, <1>14, <2>1 DEF Phrased
\* A step of the phone's pipeline, which no chat request is part of.
<1>15. ASSUME NEW v \in Voices, turn' \in [Turns -> TurnSet], \A u \in Turns \ {v} : turn'[u] = turn[u]
       PROVE WorkInv'
  <2>1. \A c \in Chats : turn'[c] = turn[c]
    BY <1>15, <1>0, AssistantAssumption
  <2>2. QED
    BY <1>15, <2>1 DEF WorkInv
<1>7. ASSUME NEW v \in Voices, OfVoice(v) PROVE WorkInv'
  <2>1. CASE TakeCalls(v)
    BY <2>1, <1>0, <1>13
  <2>2. CASE ~TakeCalls(v)
    <3>0. v \in Turns /\ turn[v] \in TurnSet
      BY <1>0
    <3>1. \E new \in TurnSet : turn' = [turn EXCEPT ![v] = new]
      <4>1. CASE Process(v)
        BY <3>0, <4>1 DEF Process, Steps
      <4>2. CASE Transcribed(v)
        BY <3>0, <4>2 DEF Transcribed, Steps
      <4>3. CASE Delta(v)
        BY <3>0, <1>0, <4>3 DEF Delta
      <4>4. CASE StreamEnds(v)
        BY <3>0, <1>0, <4>4 DEF StreamEnds
      <4>5. CASE VoiceAnswered(v)
        BY <3>0, <4>5, <2>2 DEF VoiceAnswered, Steps
      <4>6. CASE VoiceDone(v)
        BY <3>0, <4>6 DEF VoiceDone, Steps
      <4>7. QED
        BY <1>7, <4>1, <4>2, <4>3, <4>4, <4>5, <4>6 DEF OfVoice
    <3>2. QED
      BY <1>0, <3>1, <1>15
  <2>3. QED
    BY <2>1, <2>2
<1>8. CASE OnIdle
  <2>1. \/ UNCHANGED turn
        \/ \E v \in Voices : turn' = [turn EXCEPT ![v].pc = "spawned", ![v].private = ~auto]
    BY <1>8 DEF OnIdle
  <2>2. ASSUME NEW v \in Voices, turn' = [turn EXCEPT ![v].pc = "spawned", ![v].private = ~auto]
        PROVE WorkInv'
    <3> DEFINE new == [turn[v] EXCEPT !.pc = "spawned", !.private = ~auto]
    <3>1. turn' = [turn EXCEPT ![v] = new]
      BY <2>2
    <3>2. turn[v] \in TurnSet /\ "spawned" \in Steps /\ (~auto) \in BOOLEAN /\ v \notin Chats
      <4>1. turn[v] \in TurnSet /\ "spawned" \in Steps /\ v \notin Chats
        BY <1>0, AssistantAssumption DEF Steps
      <4>2. (~auto) \in BOOLEAN
        OBVIOUS
      <4>3. QED
        BY <4>1, <4>2
    <3>3. new \in TurnSet
      BY <3>2
    <3>4. QED
      BY <1>1, <1>0, <3>1, <3>2, <3>3
  <2>3. QED
    BY <2>1, <2>2 DEF WorkInv
<1>9. CASE UNCHANGED turn
  BY <1>9 DEF WorkInv
<1>10. QED
  BY <1>2, <1>3, <1>4, <1>5, <1>6, <1>7, <1>8, <1>9 DEF Next, vars, OfChat, OfTask, Answer, Fails, FactsDone, Cool, Settings,
     OnListening, OnAudio

\* A request that ran a tool says so or reports the error, whatever its tools
\* and the second passes do (_chat_logic, step 4).
THEOREM WorkIsNotSilent == (Spec => []NoSilentWork) /\ (MCSpec => []NoSilentWork)
<1>1. WorkInv => NoSilentWork
  BY DEF WorkInv, NoSilentWork, Accounted
<1>2. Init => auto \in BOOLEAN
  BY DEF Init
<1>3. Spec => [](auto \in BOOLEAN)
  BY <1>2, StepAuto, PTL DEF Spec
<1>4. QED
  BY <1>1, <1>3, InitWork, StepWork, RunsAssistant, PTL DEF Spec

-----------------------------------------------------------------------------
(* The chat's memory is whole exchanges.                                   *)

Entries == {"user", "assistant"} \X Chats
Exchange(s, i) == \E c \in Chats : s[2*i - 1] = <<"user", c>> /\ s[2*i] = <<"assistant", c>>

\* A memory of k exchanges.
Exchanges(s, k) == s \in Seq(Entries) /\ Len(s) = 2 * k /\ \A i \in 1..k : Exchange(s, i)

MemInv == \E k \in Nat : k <= MaxTurns /\ Exchanges(mem, k)

\* One more exchange at the end.
LEMMA AppendExchange ==
  ASSUME NEW s, NEW k \in Nat, Exchanges(s, k), NEW c \in Chats
  PROVE  Exchanges(s \o <<<<"user", c>>, <<"assistant", c>>>>, k + 1)
<1> DEFINE two == <<<<"user", c>>, <<"assistant", c>>>>
           all == s \o two
<1>1. /\ s \in Seq(Entries) /\ Len(s) = 2 * k /\ two \in Seq(Entries) /\ Len(two) = 2
      /\ two[1] = <<"user", c>> /\ two[2] = <<"assistant", c>>
  BY DEF Exchanges, Entries
<1> HIDE DEF two
<1>2. /\ all \in Seq(Entries) /\ Len(all) = 2 * (k + 1)
      /\ \A j \in 1..2*k : all[j] = s[j]
      /\ all[2 * k + 1] = two[1] /\ all[2 * k + 2] = two[2]
  <2>1. /\ all \in Seq(Entries) /\ Len(all) = 2 * k + 2
        /\ \A i \in 1..2 * k + 2 : all[i] = IF i <= 2 * k THEN s[i] ELSE two[i - 2 * k]
    <3>1. /\ s \o two \in Seq(Entries) /\ Len(s \o two) = Len(s) + Len(two)
          /\ \A i \in 1 .. Len(s) + Len(two) :
                (s \o two)[i] = IF i <= Len(s) THEN s[i] ELSE two[i - Len(s)]
      BY <1>1, ConcatProperties
    <3>2. QED
      BY <1>1, <3>1
  <2> HIDE DEF all
  <2>2. /\ \A j \in 1..2 * k : j \in 1..2 * k + 2 /\ j <= 2 * k
        /\ 2 * k + 1 \in 1..2 * k + 2 /\ 2 * k + 2 \in 1..2 * k + 2
        /\ ~(2 * k + 1 <= 2 * k) /\ ~(2 * k + 2 <= 2 * k)
        /\ (2 * k + 1) - 2 * k = 1 /\ (2 * k + 2) - 2 * k = 2 /\ 2 * (k + 1) = 2 * k + 2
    OBVIOUS
  <2>3. QED
    BY <2>1, <2>2
<1> HIDE DEF all
<1>3. ASSUME NEW i \in 1..k + 1 PROVE Exchange(all, i)
  <2>1. CASE i \in 1..k
    <3>1. 2*i - 1 \in 1..2*k /\ 2*i \in 1..2*k
      BY <2>1
    <3>2. Exchange(s, i)
      BY <2>1 DEF Exchanges
    <3>3. QED
      BY <1>2, <3>1, <3>2 DEF Exchange
  <2>2. CASE i = k + 1
    <3>1. 2*i - 1 = 2*k + 1 /\ 2*i = 2*k + 2
      BY <2>2
    <3>2. QED
      BY <1>1, <1>2, <3>1 DEF Exchange
  <2>3. QED
    BY <1>3, <2>1, <2>2
<1>4. QED
  BY <1>2, <1>3 DEF Exchanges, all, two

\* The newest exchanges of a memory.
LEMMA LastExchanges ==
  ASSUME NEW s, NEW k \in Nat, Exchanges(s, k), NEW m \in Nat, m <= k
  PROVE  Exchanges(SubSeq(s, 2 * k - 2 * m + 1, 2 * k), m)
<1> DEFINE last == SubSeq(s, 2 * k - 2 * m + 1, 2 * k)
<1>1. s \in Seq(Entries) /\ Len(s) = 2 * k
  BY DEF Exchanges
<1>2. /\ last \in Seq(Entries) /\ Len(last) = 2 * m
      /\ \A j \in 1..2*m : last[j] = s[2 * k - 2 * m + j]
  <2>1. \A j \in 2 * k - 2 * m + 1..2 * k : s[j] \in Entries
    BY <1>1, ElementOfSeq
  <2> DEFINE from == 2 * k - 2 * m + 1
             to == 2 * k
  <2>2. from \in Int /\ to \in Int /\ to - from + 1 = 2 * m /\ (from <= to <=> m > 0)
    OBVIOUS
  <2>3. /\ SubSeq(s, from, to) \in Seq(Entries)
        /\ Len(SubSeq(s, from, to)) = IF from <= to THEN to - from + 1 ELSE 0
        /\ \A i \in 1..to - from + 1 : SubSeq(s, from, to)[i] = s[from + i - 1]
    <3> HIDE DEF from, to
    <3>1. QED
      BY <2>1, <2>2, SubSeqProperties DEF from, to
  <2>4. \A j \in 1..2*m : from + j - 1 = 2 * k - 2 * m + j
    OBVIOUS
  <2>5. QED
    BY <2>2, <2>3, <2>4
<1> HIDE DEF last
<1>3. ASSUME NEW i \in 1..m PROVE Exchange(last, i)
  <2>1. k - m + i \in 1..k /\ 2*i - 1 \in 1..2*m /\ 2*i \in 1..2*m
    OBVIOUS
  <2>2. Exchange(s, k - m + i)
    BY <2>1 DEF Exchanges
  <2>3. /\ 2 * (k - m + i) - 1 = 2 * k - 2 * m + (2*i - 1)
        /\ 2 * (k - m + i) = 2 * k - 2 * m + 2*i
    OBVIOUS
  <2>4. QED
    BY <1>2, <2>1, <2>2, <2>3 DEF Exchange
<1>4. QED
  BY <1>2, <1>3 DEF Exchanges, last

\* A memory of whole exchanges remembers one more and stays one.
LEMMA RememberKeeps == ASSUME NEW c \in Chats, Remember(c), MemInv PROVE MemInv'
<1> DEFINE all == mem \o <<<<"user", c>>, <<"assistant", c>>>>
<1>1. PICK k \in Nat : k <= MaxTurns /\ Exchanges(mem, k)
  BY DEF MemInv
<1>2. Exchanges(all, k + 1)
  BY <1>1, AppendExchange
<1>3. mem' = IF Len(all) > 2 * MaxTurns THEN SubSeq(all, Len(all) - 2 * MaxTurns + 1, Len(all)) ELSE all
  BY DEF Remember
<1> HIDE DEF all
<1>4. Len(all) = 2 * (k + 1) /\ MaxTurns \in Nat /\ k + 1 \in Nat
  BY <1>2, AssistantAssumption DEF Exchanges
<1>5. CASE k + 1 <= MaxTurns
  <2>1. mem' = all
    BY <1>3, <1>4, <1>5
  <2>2. QED
    BY <1>2, <1>4, <1>5, <2>1 DEF MemInv
<1>6. CASE k + 1 > MaxTurns
  <2>1. mem' = SubSeq(all, 2 * (k + 1) - 2 * MaxTurns + 1, 2 * (k + 1))
    BY <1>3, <1>4, <1>6
  <2>2. MaxTurns <= k + 1
    BY <1>4, <1>6
  <2>3. Exchanges(mem', MaxTurns)
    BY <1>2, <1>4, <2>1, <2>2, LastExchanges
  <2>4. QED
    BY <1>4, <2>3 DEF MemInv
<1>7. QED
  BY <1>4, <1>5, <1>6

\* The chat's memory is whole exchanges of one request each, the newest ones,
\* however requests overlap (ConversationMemory.add_turn).
THEOREM MemoryIsExchanges == (Spec => []TurnsPaired) /\ (MCSpec => []TurnsPaired)
<1>1. Init => MemInv
  <2>1. ASSUME Init PROVE Exchanges(mem, 0)
    BY <2>1 DEF Init, Exchanges
  <2>2. QED
    BY <2>1, AssistantAssumption DEF MemInv
<1>2. MemInv /\ [Next]_vars => MemInv'
  <2>1. [Next]_vars => mem' = mem \/ \E c \in Chats : Remember(c)
    BY DEF Next, vars, OfChat, OfVoice, OfTask, Chat, ChatAnswered, ChatToolsDone, Process, Transcribed, Delta,
       StreamEnds, VoiceAnswered, VoiceDone, Execute, Phrased, Answer, Fails, FactsDone, Cool, Settings,
       OnListening, OnAudio, OnIdle
  <2>2. QED
    BY <2>1, RememberKeeps DEF MemInv
<1>3. MemInv => TurnsPaired
  <2> SUFFICES ASSUME MemInv PROVE TurnsPaired
    OBVIOUS
  <2>1. PICK k \in Nat : k <= MaxTurns /\ Exchanges(mem, k)
    BY DEF MemInv
  <2>2. Len(mem) = 2 * k /\ MaxTurns \in Nat /\ \A i \in 1..k : Exchange(mem, i)
    BY <2>1, AssistantAssumption DEF Exchanges
  <2>3. Len(mem) % 2 = 0 /\ Len(mem) \div 2 = k /\ Len(mem) <= 2 * MaxTurns
    BY <2>1, <2>2
  <2>4. QED
    BY <2>2, <2>3 DEF TurnsPaired, Exchange
<1>4. QED
  BY <1>1, <1>2, <1>3, RunsAssistant, PTL DEF Spec

-----------------------------------------------------------------------------
(* A reply of the phone is spoken in full.                                 *)

\* How much is said at every stage of an utterance.
VoiceSays(v) ==
  /\ turn[v].pc \in {"new", "spawned", "stt"} => said[v] = "none" /\ turn[v].reply = "none"
  /\ call[v] = "stream" => turn[v].pc = "llm"
  /\ ~turn[v].broken /\ said[v] = "part" => call[v] = "stream"
  /\ ~turn[v].broken /\ turn[v].reply # "none" => said[v] = "all"

SaidInv ==
  /\ DOMAIN call = Tasks /\ said \in [Voices -> {"none", "part", "all"}]
  /\ \A v \in Voices : VoiceSays(v)

\* Nothing is said at the start.
LEMMA InitSaid == Init => SaidInv
<1> SUFFICES ASSUME Init PROVE SaidInv
  OBVIOUS
<1>1. \A t \in Turns : turn[t].pc \in {"new", "lost"} /\ turn[t].reply = "none"
  <2>1. PICK made \in Together : turn = [t \in Turns |-> IF t \in made THEN NewTurn ELSE [NewTurn EXCEPT !.pc = "lost"]]
    BY DEF Init
  <2>2. QED
    BY <2>1 DEF NewTurn
<1>2. call = [t \in Tasks |-> NoCall] /\ said = [v \in Voices |-> "none"]
  BY DEF Init
<1>3. QED
  BY <1>1, <1>2, RouterFacts DEF SaidInv, VoiceSays, NoCall

\* The record of a turn, and what its changes leave.
TurnRecords ==
  [pc : Steps, left : Nat, ran : BOOLEAN, failed : BOOLEAN, broken : BOOLEAN, private : BOOLEAN,
   reply : {"none", "text", "tools", "error", "nokey"}]

Typed == turn \in [Turns -> TurnRecords]

\* One change of one turn.
Changes(t, new) ==
  /\ \A u \in Turns \ {t} : turn'[u] = turn[u]
  /\ t \in Turns => turn'[t] = new

\* An assignment to a turn changes that turn only.
LEMMA Assigned == ASSUME Typed, NEW t, NEW new, turn' = [turn EXCEPT ![t] = new] PROVE Changes(t, new)
BY DEF Typed, Changes

\* A step that leaves an utterance alone leaves what is said of it.
Alone(v) == turn'[v] = turn[v] /\ call'[v] = call[v] /\ said'[v] = said[v]

\* A step of one utterance at most.
LEMMA OneVoice ==
  ASSUME SaidInv, NEW v, \A u \in Voices \ {v} : Alone(u),
         DOMAIN call' = Tasks, said' \in [Voices -> {"none", "part", "all"}],
         v \in Voices => VoiceSays(v)'
  PROVE  SaidInv'
BY DEF SaidInv, Alone, VoiceSays

\* The calls of an extraction and of a chat request are not those of an
\* utterance.
LEMMA NoVoices ==
  /\ \A c \in Chats : c \in Turns /\ c \notin Voices
  /\ \A t : <<"facts", t>> \in Facts => <<"facts", t>> \notin Voices
  /\ \A t \in Turns : Asks(t) => <<"facts", t>> \in Facts
BY AssistantAssumption DEF Facts, Turns, Asks

\* The start of an extraction leaves every other call.
LEMMA ExtractedLeaves ==
  ASSUME NEW t \in Turns, NEW calls
  PROVE  /\ DOMAIN Extracted(t, calls) = DOMAIN calls
         /\ \A v \in Voices : Extracted(t, calls)[v] = calls[v]
<1>1. CASE Asks(t)
  <2> DEFINE f == <<"facts", t>>
             p == select_provider(Warm(rt[Memory]))
  <2>1. Extracted(t, calls) = [calls EXCEPT ![f] = p] /\ f \notin Voices
    BY <1>1, NoVoices DEF Extracted
  <2> HIDE DEF f, p
  <2>2. QED
    BY <2>1
<1>2. CASE ~Asks(t)
  BY <1>2 DEF Extracted
<1>3. QED
  BY <1>1, <1>2

\* What is routed is not streamed.
LEMMA RoutedNotStreamed ==
  ASSUME NEW t, NEW routers, Route(t, routers), DOMAIN call = Tasks
  PROVE  DOMAIN call' = Tasks /\ (t \in Tasks => call'[t] # "stream") /\ \A u \in Tasks \ {t} : call'[u] = call[u]
<1> DEFINE p == select_provider(Warm(routers[Router(t)]))
<1>1. call' = [call EXCEPT ![t] = p]
  BY DEF Route
<1>2. p # "stream"
  BY DEF select_provider
<1> HIDE DEF p
<1>3. QED
  BY <1>1, <1>2

\* The end of a chat request changes its turn only.
LEMMA OverAlone ==
  ASSUME Typed, NEW c \in Chats, NEW routers, NEW answer, Over(c, routers, answer)
  PROVE  \A v \in Voices : turn'[v] = turn[v]
<1> DEFINE where == IF answer = "none" THEN "lost" ELSE "done"
<1>1. turn' = [turn EXCEPT ![c] = [turn[c] EXCEPT !.pc = where, !.reply = answer, !.left = 0]]
  BY NoVoices DEF Over, Typed
<1>2. QED
  BY <1>1, Assigned, NoVoices, RouterFacts DEF Changes

\* The first reply's tool calls change its turn only.
LEMMA TakeCallsAlone ==
  ASSUME Typed, NEW t \in Turns, TakeCalls(t)
  PROVE  /\ turn'[t].pc = "tool" /\ turn'[t].reply = turn[t].reply /\ turn'[t].broken = turn[t].broken
         /\ \A u \in Turns \ {t} : turn'[u] = turn[u]
<1>1. PICK n \in 1..Emitted : turn' = [turn EXCEPT ![t].pc = "tool", ![t].left = IF n > MaxCalls THEN MaxCalls ELSE n]
  BY DEF TakeCalls
<1> DEFINE left == IF n > MaxCalls THEN MaxCalls ELSE n
           new == [turn[t] EXCEPT !.pc = "tool", !.left = left]
<1>2. turn' = [turn EXCEPT ![t] = new]
  BY <1>1 DEF Typed
<1> HIDE DEF left
<1>3. new.pc = "tool" /\ new.reply = turn[t].reply /\ new.broken = turn[t].broken
  BY DEF Typed, TurnRecords
<1> HIDE DEF new
<1>4. QED
  BY <1>2, <1>3, Assigned DEF Changes

\* The steps of a chat request are not about the phone.
LEMMA ChatSaid == ASSUME SaidInv, Typed, NEW c \in Chats, OfChat(c) PROVE SaidInv'
<1>1. UNCHANGED said /\ c \in Turns /\ c \notin Voices
  BY NoVoices DEF OfChat, Chat, ChatAnswered, ChatToolsDone, voice
<1>2. \A v \in Voices : turn'[v] = turn[v]
  <2>1. CASE Chat(c)
    <3>1. turn' = [turn EXCEPT ![c] = [turn[c] EXCEPT !.pc = "llm", !.private = ~auto]]
      BY <1>1, <2>1 DEF Chat, Typed
    <3>2. QED
      BY <3>1, <1>1, Assigned, RouterFacts DEF Changes
  <2>2. CASE ChatAnswered(c)
    <3>1. TakeCalls(c) \/ \E answer : \E routers : Over(c, routers, answer)
      BY <2>2 DEF ChatAnswered
    <3>2. QED
      BY <1>1, <3>1, OverAlone, TakeCallsAlone, RouterFacts
  <2>3. CASE ChatToolsDone(c)
    <3>1. \E answer : \E routers : Over(c, routers, answer)
      BY <2>3 DEF ChatToolsDone
    <3>2. QED
      BY <3>1, OverAlone
  <2>4. QED
    BY <2>1, <2>2, <2>3 DEF OfChat
<1>3. DOMAIN call' = Tasks /\ \A v \in Voices : call'[v] = call[v]
  <2> DEFINE back == [call EXCEPT ![c] = NoCall]
  <2>1. DOMAIN back = Tasks /\ \A v \in Voices : back[v] = call[v]
    BY <1>1 DEF SaidInv
  <2>2. CASE Chat(c)
    BY <2>2, <1>1, RoutedNotStreamed, RouterFacts DEF Chat, SaidInv
  <2>3. CASE ChatAnswered(c)
    <3>1. call' = back \/ call' = Extracted(c, back)
      BY <2>3 DEF ChatAnswered
    <3> HIDE DEF back
    <3>2. QED
      BY <1>1, <2>1, <3>1, ExtractedLeaves
  <2>4. CASE ChatToolsDone(c)
    BY <2>4 DEF ChatToolsDone, SaidInv
  <2>5. QED
    BY <2>2, <2>3, <2>4 DEF OfChat
<1>4. QED
  BY <1>1, <1>2, <1>3, OneVoice DEF Alone, SaidInv

\* Tools and their second passes say nothing.
LEMMA ToolsSaid == ASSUME SaidInv, Typed, NEW t \in Turns, Execute(t) \/ Phrased(t) PROVE SaidInv'
<1>1. UNCHANGED said /\ turn[t].pc \in {"tool", "phrase"}
  BY DEF Execute, Phrased, voice
<1>2. \/ \E answer : \E routers : t \in Chats /\ Over(t, routers, answer)
      \/ \E new : /\ turn' = [turn EXCEPT ![t] = new]
                  /\ new.pc \in {"tool", "phrase"} /\ new.broken = turn[t].broken /\ new.reply = turn[t].reply
  <2>1. ASSUME NEW left PROVE /\ [turn[t] EXCEPT !.left = left].pc = turn[t].pc
                              /\ [turn[t] EXCEPT !.left = left].broken = turn[t].broken
                              /\ [turn[t] EXCEPT !.left = left].reply = turn[t].reply
    BY DEF Typed, TurnRecords
  <2>2. ASSUME NEW left PROVE /\ [turn[t] EXCEPT !.left = left, !.pc = "phrase"].pc = "phrase"
                              /\ [turn[t] EXCEPT !.left = left, !.pc = "phrase"].broken = turn[t].broken
                              /\ [turn[t] EXCEPT !.left = left, !.pc = "phrase"].reply = turn[t].reply
    BY DEF Typed, TurnRecords
  <2>3. /\ [turn[t] EXCEPT !.pc = "tool", !.left = 0, !.failed = TRUE].pc = "tool"
        /\ [turn[t] EXCEPT !.pc = "tool", !.left = 0, !.failed = TRUE].broken = turn[t].broken
        /\ [turn[t] EXCEPT !.pc = "tool", !.left = 0, !.failed = TRUE].reply = turn[t].reply
    BY DEF Typed, TurnRecords
  <2>4. /\ [turn[t] EXCEPT !.pc = "tool", !.ran = TRUE].pc = "tool"
        /\ [turn[t] EXCEPT !.pc = "tool", !.ran = TRUE].broken = turn[t].broken
        /\ [turn[t] EXCEPT !.pc = "tool", !.ran = TRUE].reply = turn[t].reply
    BY DEF Typed, TurnRecords
  <2>5. \/ turn' = [turn EXCEPT ![t] = [turn[t] EXCEPT !.left = turn[t].left - 1]]
        \/ turn' = [turn EXCEPT ![t] = [turn[t] EXCEPT !.left = turn[t].left - 1, !.pc = "phrase"]]
        \/ turn' = [turn EXCEPT ![t] = [turn[t] EXCEPT !.pc = "tool", !.ran = TRUE]]
        \/ ToolsRaise(t)
    BY DEF Execute, Phrased, Typed
  <2>6. ToolsRaise(t) =>
          \/ t \in Chats /\ Over(t, rt, "error")
          \/ turn' = [turn EXCEPT ![t] = [turn[t] EXCEPT !.pc = "tool", !.left = 0, !.failed = TRUE]]
    BY DEF ToolsRaise, Typed
  <2>7. CASE turn' = [turn EXCEPT ![t] = [turn[t] EXCEPT !.left = turn[t].left - 1]]
    <3> DEFINE new == [turn[t] EXCEPT !.left = turn[t].left - 1]
    <3>1. turn' = [turn EXCEPT ![t] = new] /\ new.pc \in {"tool", "phrase"} /\ new.broken = turn[t].broken /\ new.reply = turn[t].reply
      BY <1>1, <2>1, <2>7
    <3> HIDE DEF new
    <3>2. QED
      BY <3>1
  <2>8. CASE turn' = [turn EXCEPT ![t] = [turn[t] EXCEPT !.left = turn[t].left - 1, !.pc = "phrase"]]
    <3> DEFINE new == [turn[t] EXCEPT !.left = turn[t].left - 1, !.pc = "phrase"]
    <3>1. turn' = [turn EXCEPT ![t] = new] /\ new.pc = "phrase" /\ new.broken = turn[t].broken /\ new.reply = turn[t].reply
      BY <2>2, <2>8
    <3> HIDE DEF new
    <3>2. QED
      BY <3>1
  <2>9. CASE turn' = [turn EXCEPT ![t] = [turn[t] EXCEPT !.pc = "tool", !.ran = TRUE]]
    <3> DEFINE new == [turn[t] EXCEPT !.pc = "tool", !.ran = TRUE]
    <3>1. turn' = [turn EXCEPT ![t] = new] /\ new.pc = "tool" /\ new.broken = turn[t].broken /\ new.reply = turn[t].reply
      BY <2>4, <2>9
    <3> HIDE DEF new
    <3>2. QED
      BY <3>1
  <2>10. CASE turn' = [turn EXCEPT ![t] = [turn[t] EXCEPT !.pc = "tool", !.left = 0, !.failed = TRUE]]
    <3> DEFINE new == [turn[t] EXCEPT !.pc = "tool", !.left = 0, !.failed = TRUE]
    <3>1. turn' = [turn EXCEPT ![t] = new] /\ new.pc = "tool" /\ new.broken = turn[t].broken /\ new.reply = turn[t].reply
      BY <2>3, <2>10
    <3> HIDE DEF new
    <3>2. QED
      BY <3>1
  <2>11. QED
    BY <2>5, <2>6, <2>7, <2>8, <2>9, <2>10
<1>3. \A v \in Voices \ {t} : turn'[v] = turn[v]
  BY <1>2, OverAlone, Assigned, RouterFacts DEF Changes
<1>4. t \in Voices => /\ turn'[t].pc \in {"tool", "phrase"}
                      /\ turn'[t].broken = turn[t].broken /\ turn'[t].reply = turn[t].reply
  BY <1>2, Assigned, NoVoices DEF Changes
<1>5. /\ DOMAIN call' = Tasks /\ \A u \in Tasks \ {t} : call'[u] = call[u]
      /\ call'[t] = call[t] \/ call'[t] # "stream"
  <2>1. call' = call \/ call' = [call EXCEPT ![t] = NoCall] \/ Route(t, rt)
    BY DEF Execute, Phrased
  <2>2. t \in Tasks
    BY RouterFacts
  <2>3. QED
    BY <2>1, <2>2, RoutedNotStreamed DEF SaidInv, NoCall
<1>6. t \in Voices => VoiceSays(t)'
  BY <1>1, <1>4, <1>5 DEF SaidInv, VoiceSays
<1>7. \A v \in Voices \ {t} : Alone(v)
  BY <1>1, <1>3, <1>5, RouterFacts DEF Alone
<1>8. QED
  BY <1>1, <1>5, <1>6, <1>7, OneVoice DEF SaidInv

\* An answer, or the failure of a provider, ends no stream.
LEMMA TaskSaid == ASSUME SaidInv, NEW t \in Tasks, OfTask(t) PROVE SaidInv'
<1>1. UNCHANGED <<turn, said>>
  BY DEF OfTask, Answer, Fails, FactsDone, voice
<1>2. \E a : a # "stream" /\ call' = [call EXCEPT ![t] = a]
  BY DEF OfTask, Answer, Fails, FactsDone, CloudDown, LocalDown, FallbackDown, Replies, NoCall,
     _call_anthropic, _call_openai, _call_openai_compat, _call_google, _call_local
<1>3. call[t] # "stream" \/ t \notin Voices
  BY AssistantAssumption DEF OfTask, Answer, Fails, FactsDone, CloudDown, LocalDown, FallbackDown, Answers, Turns
<1>4. DOMAIN call' = Tasks /\ call'[t] # "stream" /\ \A u \in Tasks \ {t} : call'[u] = call[u]
  BY <1>2 DEF SaidInv
<1>5. t \in Voices => VoiceSays(t)'
  BY <1>1, <1>3, <1>4 DEF SaidInv, VoiceSays
<1>6. \A v \in Voices \ {t} : Alone(v)
  BY <1>1, <1>4, RouterFacts DEF Alone
<1>7. QED
  BY <1>1, <1>4, <1>5, <1>6, OneVoice DEF SaidInv

\* What an assignment to the record of a turn leaves of it.
LEMMA TurnFields ==
  ASSUME NEW r \in TurnRecords, NEW where, NEW answer, NEW priv
  PROVE  /\ [r EXCEPT !.pc = where].pc = where /\ [r EXCEPT !.pc = where].reply = r.reply
         /\ [r EXCEPT !.pc = where].broken = r.broken
         /\ [r EXCEPT !.broken = TRUE].pc = r.pc /\ [r EXCEPT !.broken = TRUE].reply = r.reply
         /\ [r EXCEPT !.broken = TRUE].broken = TRUE
         /\ [r EXCEPT !.pc = where, !.reply = answer].pc = where
         /\ [r EXCEPT !.pc = where, !.reply = answer].reply = answer
         /\ [r EXCEPT !.pc = where, !.reply = answer].broken = r.broken
         /\ [r EXCEPT !.pc = where, !.private = priv].pc = where
         /\ [r EXCEPT !.pc = where, !.private = priv].reply = r.reply
         /\ [r EXCEPT !.pc = where, !.private = priv].broken = r.broken
BY DEF TurnRecords

\* One utterance's turn becomes a record.
LEMMA Becomes ==
  ASSUME Typed, NEW v \in Voices, NEW new, turn' = [turn EXCEPT ![v] = new]
  PROVE  turn'[v] = new /\ \A u \in Voices \ {v} : turn'[u] = turn[u]
BY Assigned, RouterFacts DEF Changes

\* The steps of an utterance, one by one: its turn, its call and what is said.
LEMMA VoiceSaid == ASSUME SaidInv, Typed, NEW v \in Voices, OfVoice(v) PROVE SaidInv'
<1>1. /\ v \in Turns /\ v \in Tasks /\ VoiceSays(v) /\ said[v] \in {"none", "part", "all"}
      /\ DOMAIN call = Tasks /\ turn[v] \in TurnRecords /\ Voices \subseteq Tasks
  BY RouterFacts DEF SaidInv, Typed
\* It is enough to say what the step does to its own utterance.
<1>2. ASSUME \A u \in Voices \ {v} : turn'[u] = turn[u], DOMAIN call' = Tasks,
             \A u \in Voices \ {v} : call'[u] = call[u], VoiceSays(v)',
             said' = said \/ said' = [said EXCEPT ![v] = "part"] \/ said' = [said EXCEPT ![v] = "all"]
      PROVE  SaidInv'
  <2>1. said' \in [Voices -> {"none", "part", "all"}] /\ \A u \in Voices \ {v} : said'[u] = said[u]
    BY <1>2 DEF SaidInv
  <2>2. QED
    BY <1>2, <2>1, OneVoice DEF Alone
<1>3. CASE Process(v)
  <2>1. PICK where \in {"done", "stt"} : turn' = [turn EXCEPT ![v] = [turn[v] EXCEPT !.pc = where]]
    BY <1>3 DEF Process
  <2>2. /\ turn'[v].pc = where /\ turn'[v].reply = turn[v].reply /\ turn'[v].broken = turn[v].broken
        /\ \A u \in Voices \ {v} : turn'[u] = turn[u]
    <3> DEFINE new == [turn[v] EXCEPT !.pc = where]
    <3>1. new.pc = where /\ new.reply = turn[v].reply /\ new.broken = turn[v].broken
      BY <1>1, TurnFields
    <3>2. turn' = [turn EXCEPT ![v] = new]
      BY <2>1
    <3> HIDE DEF new
    <3>3. QED
      BY <3>1, <3>2, Becomes
  <2>3. UNCHANGED <<call, said>> /\ turn[v].pc = "spawned"
    BY <1>3 DEF Process
  <2>4. VoiceSays(v)'
    BY <1>1, <2>2, <2>3 DEF VoiceSays
  <2>5. QED
    BY <1>1, <1>2, <2>2, <2>3, <2>4
<1>4. CASE Transcribed(v)
  <2>1. UNCHANGED said /\ turn[v].pc = "stt"
    BY <1>4 DEF Transcribed
  <2>2. PICK where \in {"done", "llm"} :
          /\ turn' = [turn EXCEPT ![v] = [turn[v] EXCEPT !.pc = where]]
          /\ where = "done" => UNCHANGED call
          /\ where = "llm" => \E p : call' = [call EXCEPT ![v] = p]
    <3>1. CASE turn' = [turn EXCEPT ![v].pc = "done"] /\ UNCHANGED call
      BY <3>1
    <3>2. CASE turn' = [turn EXCEPT ![v].pc = "llm"] /\ RouteStreaming(v)
      <4>1. \E p : call' = [call EXCEPT ![v] = p]
        BY <3>2 DEF RouteStreaming
      <4>2. QED
        BY <3>2, <4>1
    <3>3. QED
      BY <1>4, <3>1, <3>2 DEF Transcribed
  <2>3. /\ turn'[v].pc = where /\ turn'[v].reply = turn[v].reply /\ turn'[v].broken = turn[v].broken
        /\ \A u \in Voices \ {v} : turn'[u] = turn[u]
    <3> DEFINE new == [turn[v] EXCEPT !.pc = where]
    <3>1. new.pc = where /\ new.reply = turn[v].reply /\ new.broken = turn[v].broken
      BY <1>1, TurnFields
    <3>2. turn' = [turn EXCEPT ![v] = new]
      BY <2>2
    <3> HIDE DEF new
    <3>3. QED
      BY <3>1, <3>2, Becomes
  <2>4. DOMAIN call' = Tasks /\ \A u \in Voices \ {v} : call'[u] = call[u]
    BY <1>1, <2>2
  <2>5. VoiceSays(v)'
    BY <1>1, <2>1, <2>2, <2>3 DEF VoiceSays
  <2>6. QED
    BY <1>2, <2>1, <2>3, <2>4, <2>5
<1>5. CASE Delta(v)
  <2>1. UNCHANGED <<turn, call>> /\ call[v] = "stream" /\ said' = [said EXCEPT ![v] = "part"] /\ said[v] = "none"
    BY <1>5 DEF Delta
  <2>2. said'[v] = "part"
    BY <2>1 DEF SaidInv
  <2>3. VoiceSays(v)'
    BY <1>1, <2>1, <2>2 DEF VoiceSays
  <2>4. QED
    BY <1>1, <1>2, <2>1, <2>3
<1>6. CASE StreamEnds(v)
  <2>1. call[v] = "stream" /\ turn[v].pc = "llm"
    BY <1>1, <1>6 DEF StreamEnds, VoiceSays
  <2>2. CASE /\ call' = [call EXCEPT ![v] = "text"] /\ said' = [said EXCEPT ![v] = "all"] /\ UNCHANGED turn
    <3>1. call'[v] = "text" /\ said'[v] = "all"
      BY <1>1, <2>2 DEF SaidInv
    <3>2. VoiceSays(v)'
      BY <2>1, <2>2, <3>1 DEF VoiceSays
    <3>3. QED
      BY <1>1, <1>2, <2>2, <3>2
  <2>3. CASE /\ Route(v, rt) /\ turn' = [turn EXCEPT ![v].broken = TRUE] /\ UNCHANGED said
    <3>1. turn' = [turn EXCEPT ![v] = [turn[v] EXCEPT !.broken = TRUE]]
      BY <2>3
    <3>2. /\ turn'[v].pc = turn[v].pc /\ turn'[v].broken /\ turn'[v].reply = turn[v].reply
          /\ \A u \in Voices \ {v} : turn'[u] = turn[u]
      <4> DEFINE new == [turn[v] EXCEPT !.broken = TRUE]
      <4>1. new.pc = turn[v].pc /\ new.reply = turn[v].reply /\ new.broken = TRUE
        BY <1>1, TurnFields
      <4>2. turn' = [turn EXCEPT ![v] = new]
        BY <3>1
      <4> HIDE DEF new
      <4>3. QED
        BY <4>1, <4>2, Becomes
    <3>3. DOMAIN call' = Tasks /\ call'[v] # "stream" /\ \A u \in Voices \ {v} : call'[u] = call[u]
      BY <1>1, <2>3, RoutedNotStreamed
    <3>4. VoiceSays(v)'
      BY <2>1, <2>3, <3>2, <3>3 DEF VoiceSays
    <3>5. QED
      BY <1>2, <2>3, <3>2, <3>3, <3>4
  <2>4. QED
    BY <1>6, <2>2, <2>3 DEF StreamEnds
<1>7. CASE VoiceAnswered(v)
  <2>1. call[v] \in Answers /\ turn[v].pc = "llm" /\ call' = [call EXCEPT ![v] = NoCall]
    BY <1>7 DEF VoiceAnswered
  <2>2. call[v] # "stream" /\ call'[v] # "stream" /\ DOMAIN call' = Tasks /\ \A u \in Voices \ {v} : call'[u] = call[u]
    BY <1>1, <2>1 DEF Answers, NoCall
  <2>3. ~turn[v].broken => said[v] \in {"none", "all"}
    BY <1>1, <2>2 DEF VoiceSays
  <2>4. said' = said \/ said' = [said EXCEPT ![v] = "all"]
    BY <1>7 DEF VoiceAnswered
  <2>5. said'[v] = said[v] \/ said'[v] = "all"
    BY <2>4 DEF SaidInv
  <2>6. /\ turn'[v].pc \in {"lost", "tool"} /\ turn'[v].broken = turn[v].broken
        /\ \A u \in Voices \ {v} : turn'[u] = turn[u]
        /\ turn'[v].reply = turn[v].reply \/ call[v] \in {"text", "error"}
    <3>1. CASE call[v] = "raise"
      <4>1. turn' = [turn EXCEPT ![v] = [turn[v] EXCEPT !.pc = "lost"]]
        BY <1>7, <3>1 DEF VoiceAnswered
      <4> DEFINE new == [turn[v] EXCEPT !.pc = "lost"]
      <4>2. new.pc = "lost" /\ new.reply = turn[v].reply /\ new.broken = turn[v].broken
        BY <1>1, TurnFields
      <4>3. turn' = [turn EXCEPT ![v] = new]
        BY <4>1
      <4> HIDE DEF new
      <4>4. QED
        BY <4>2, <4>3, Becomes
    <3>2. CASE call[v] = "tools"
      <4>1. TakeCalls(v)
        BY <1>7, <3>2 DEF VoiceAnswered
      <4>2. QED
        BY <1>1, <4>1, TakeCallsAlone, RouterFacts
    <3>3. CASE call[v] \in {"text", "error"}
      <4>1. turn' = [turn EXCEPT ![v].pc = "tool", ![v].reply = "text"]
        BY <1>7, <3>3 DEF VoiceAnswered
      <4>2. turn' = [turn EXCEPT ![v] = [turn[v] EXCEPT !.pc = "tool", !.reply = "text"]]
        BY <1>1, <4>1 DEF Typed
      <4> DEFINE new == [turn[v] EXCEPT !.pc = "tool", !.reply = "text"]
      <4>3. new.pc = "tool" /\ new.broken = turn[v].broken
        BY <1>1, TurnFields
      <4>4. turn' = [turn EXCEPT ![v] = new]
        BY <4>2
      <4> HIDE DEF new
      <4>5. QED
        BY <3>3, <4>3, <4>4, Becomes
    <3>4. QED
      BY <2>1, <3>1, <3>2, <3>3 DEF Answers
  <2>7. call[v] \in {"text", "error"} /\ ~turn[v].broken => said'[v] = "all"
    <3> SUFFICES ASSUME call[v] \in {"text", "error"}, ~turn[v].broken PROVE said'[v] = "all"
      OBVIOUS
    <3>1. CASE said[v] = "none"
      <4>1. said' = [said EXCEPT ![v] = "all"]
        BY <1>7, <3>1 DEF VoiceAnswered
      <4>2. QED
        BY <4>1 DEF SaidInv
    <3>2. CASE said[v] = "all"
      BY <2>5, <3>2
    <3>3. QED
      BY <2>3, <3>1, <3>2
  <2>8. VoiceSays(v)'
    BY <1>1, <2>2, <2>3, <2>5, <2>6, <2>7 DEF VoiceSays
  <2>9. QED
    BY <1>2, <2>2, <2>4, <2>6, <2>8
<1>8. CASE VoiceDone(v)
  <2> DEFINE executed == turn[v].ran /\ ~turn[v].failed
  <2>1. DOMAIN call' = Tasks /\ \A u \in Voices : call'[u] = call[u]
    BY <1>1, <1>8, ExtractedLeaves DEF VoiceDone
  <2>2. turn[v].pc = "tool"
    BY <1>8 DEF VoiceDone
  <2>3. \/ /\ turn' = [turn EXCEPT ![v] = [turn[v] EXCEPT !.pc = "done", !.reply = "tools"]]
           /\ said' = [said EXCEPT ![v] = "all"]
        \/ /\ turn' = [turn EXCEPT ![v] = [turn[v] EXCEPT !.pc = "done", !.reply = turn[v].reply]]
           /\ said' = said
    <3>1. /\ turn' = [turn EXCEPT ![v] = [turn[v] EXCEPT !.pc = "done", !.reply = IF executed THEN "tools" ELSE turn[v].reply]]
      BY <1>1, <1>8 DEF VoiceDone, Typed, TurnRecords
    <3>2. said' = [said EXCEPT ![v] = IF executed THEN "all" ELSE @]
      BY <1>8 DEF VoiceDone
    <3> HIDE DEF executed
    <3>3. CASE executed
      BY <3>1, <3>2, <3>3
    <3>4. CASE ~executed
      <4>1. said' = said
        BY <3>2, <3>4 DEF SaidInv
      <4>2. QED
        BY <3>1, <3>4, <4>1
    <3>5. QED
      BY <3>3, <3>4
  <2>4. /\ turn'[v].pc = "done" /\ turn'[v].broken = turn[v].broken
        /\ \A u \in Voices \ {v} : turn'[u] = turn[u]
        /\ turn'[v].reply = turn[v].reply \/ said'[v] = "all"
        /\ said'[v] = said[v] \/ said'[v] = "all"
    <3>1. \A answer : LET new == [turn[v] EXCEPT !.pc = "done", !.reply = answer] IN
                      new.pc = "done" /\ new.broken = turn[v].broken /\ new.reply = answer
      BY <1>1, TurnFields
    <3>2. ASSUME NEW answer, turn' = [turn EXCEPT ![v] = [turn[v] EXCEPT !.pc = "done", !.reply = answer]]
          PROVE  /\ turn'[v].pc = "done" /\ turn'[v].broken = turn[v].broken /\ turn'[v].reply = answer
                 /\ \A u \in Voices \ {v} : turn'[u] = turn[u]
      <4> DEFINE new == [turn[v] EXCEPT !.pc = "done", !.reply = answer]
      <4>1. new.pc = "done" /\ new.broken = turn[v].broken /\ new.reply = answer
        BY <3>1
      <4>2. turn' = [turn EXCEPT ![v] = new]
        BY <3>2
      <4> HIDE DEF new
      <4>3. QED
        BY <4>1, <4>2, Becomes
    <3>3. CASE /\ turn' = [turn EXCEPT ![v] = [turn[v] EXCEPT !.pc = "done", !.reply = "tools"]]
               /\ said' = [said EXCEPT ![v] = "all"]
      BY <3>2, <3>3 DEF SaidInv
    <3>4. CASE /\ turn' = [turn EXCEPT ![v] = [turn[v] EXCEPT !.pc = "done", !.reply = turn[v].reply]]
               /\ said' = said
      BY <3>2, <3>4
    <3>5. QED
      BY <2>3, <3>3, <3>4
  <2>5. VoiceSays(v)'
    BY <1>1, <2>1, <2>2, <2>4 DEF VoiceSays
  <2>6. QED
    BY <1>2, <2>1, <2>3, <2>4, <2>5
<1>9. QED
  BY <1>3, <1>4, <1>5, <1>6, <1>7, <1>8 DEF OfVoice

\* No step breaks SaidInv.
LEMMA StepSaid == WorkInv /\ SaidInv /\ [Next]_vars => SaidInv'
<1> SUFFICES ASSUME WorkInv, SaidInv, [Next]_vars PROVE SaidInv'
  OBVIOUS
<1>0. Typed
  BY DEF WorkInv, Typed, TurnRecords
<1>1. CASE OnIdle
  <2>1. UNCHANGED <<call, said>>
    BY <1>1 DEF OnIdle
  <2>2. CASE UNCHANGED turn
    BY <2>1, <2>2 DEF SaidInv, VoiceSays
  <2>3. ASSUME NEW v \in Voices, turn[v].pc = "new",
               turn' = [turn EXCEPT ![v].pc = "spawned", ![v].private = ~auto]
        PROVE  SaidInv'
    <3> DEFINE priv == ~auto
    <3>1. turn' = [turn EXCEPT ![v] = [turn[v] EXCEPT !.pc = "spawned", !.private = priv]] /\ turn[v] \in TurnRecords
      BY <1>0, <2>3, RouterFacts DEF Typed
    <3> HIDE DEF priv
    <3>2. /\ turn'[v].pc = "spawned" /\ turn'[v].reply = turn[v].reply /\ turn'[v].broken = turn[v].broken
          /\ \A u \in Voices \ {v} : turn'[u] = turn[u]
      <4> DEFINE new == [turn[v] EXCEPT !.pc = "spawned", !.private = priv]
      <4>1. new.pc = "spawned" /\ new.reply = turn[v].reply /\ new.broken = turn[v].broken
        BY <3>1, TurnFields
      <4>2. turn' = [turn EXCEPT ![v] = new]
        BY <3>1
      <4> HIDE DEF new
      <4>3. QED
        BY <1>0, <4>1, <4>2, Becomes
    <3>3. VoiceSays(v)'
      BY <2>1, <2>3, <3>2 DEF SaidInv, VoiceSays
    <3>4. QED
      BY <2>1, <3>2, <3>3, OneVoice DEF Alone, SaidInv
  <2>4. QED
    BY <1>1, <2>2, <2>3 DEF OnIdle
<1>2. CASE UNCHANGED <<turn, call, said>>
  BY <1>2 DEF SaidInv, VoiceSays
<1>3. QED
  BY <1>0, <1>1, <1>2, ChatSaid, ToolsSaid, TaskSaid, VoiceSaid
     DEF Next, vars, voice, Cool, Settings, OnListening, OnAudio

\* For any utterances, however they overlap with chats and with each other: one
\* that gets a reply has all of it spoken, streamed or not, unless the stream
\* broke off or came empty (_process_utterance).
THEOREM RepliesAreSaid == (Spec => []SaidInFull) /\ (MCSpec => []SaidInFull)
<1>1. SaidInv => SaidInFull
  BY DEF SaidInv, VoiceSays, SaidInFull
<1>2. Init => auto \in BOOLEAN
  BY DEF Init
<1>3. Spec => []SaidInFull
  BY <1>1, <1>2, StepAuto, InitWork, StepWork, InitSaid, StepSaid, PTL DEF Spec
<1>4. QED
  BY <1>3, RunsAssistant, PTL

-----------------------------------------------------------------------------
(* Speech: no sentence is spoken twice.                                    *)

\* The steps that come before a request speaks, and those between the choice of
\* the engine and its first sentence.
Preparing == {"choose", "fall back", "set module", "set provider", "load", "get", "build", "loaded"}
Getting == {"get", "build"}
StepNames == Preparing \cup {"generate", "warm", "say"}

\* A list of steps of a set that ends with one step of another kind.
EndsWith(q, x, steps) ==
  q \in Seq(StepNames) /\ Len(q) > 0 /\ q[Len(q)] = x /\ \A i \in 1..(Len(q) - 1) : q[i] \in steps

\* The sentences got so far are in order, and come before the next one.
Rising(q) == q \in Seq(Int) /\ \A i, j \in 1..Len(q) : i < j => q[i] < q[j]
Below(q, n) == n \in Int /\ \A i \in 1..Len(q) : q[i] < n

\* One sentence more, or none: the list still rises, to below the next sentence.
LEMMA Appended ==
  ASSUME NEW s, NEW n \in Int, Rising(s), Below(s, n), NEW q, q \in {s, Append(s, n)}
  PROVE  Rising(q) /\ Below(q, n + 1)
<1>1. s \in Seq(Int) /\ Len(s) \in Nat /\ \A i \in 1..Len(s) : s[i] \in Int /\ s[i] < n
  <2>1. s \in Seq(Int)
    BY DEF Rising
  <2>2. \A i \in 1..Len(s) : s[i] < n
    BY DEF Below
  <2>3. QED
    BY <2>1, <2>2
<1>2. \A i, j \in 1..Len(s) : i < j => s[i] < s[j]
  BY DEF Rising
<1>3. CASE q = s
  BY <1>1, <1>2, <1>3 DEF Rising, Below
<1>4. CASE q = Append(s, n)
  <2>1. q \in Seq(Int) /\ Len(q) = Len(s) + 1 /\ q[Len(s) + 1] = n /\ \A i \in 1..Len(s) : q[i] = s[i]
    BY <1>1, <1>4
  <2>2. \A i \in 1..(Len(s) + 1) : i = Len(s) + 1 \/ i \in 1..Len(s)
    BY <1>1
  <2>3. ASSUME NEW i \in 1..Len(q) PROVE q[i] < n + 1
    BY <1>1, <2>1, <2>2
  <2>4. ASSUME NEW i \in 1..Len(q), NEW j \in 1..Len(q), i < j PROVE q[i] < q[j]
    <3>1. i \in 1..Len(s)
      BY <1>1, <2>1, <2>2, <2>4
    <3>2. CASE j = Len(s) + 1
      BY <1>1, <2>1, <3>1, <3>2
    <3>3. CASE j \in 1..Len(s)
      BY <1>2, <2>1, <2>4, <3>1, <3>3
    <3>4. QED
      BY <2>1, <2>2, <3>2, <3>3
  <2>5. QED
    BY <2>1, <2>3, <2>4 DEF Rising, Below
<1>5. QED
  BY <1>3, <1>4

\* Where a request can be: it has got sentences only once its engine speaks, and
\* none before the first chunk of an engine that may still raise.
Stages(r) ==
  \/ kind[r] = "new" /\ todo[r] = <<>> /\ spoken[r] = <<>>
  \/ /\ kind[r] # "new" /\ spoken[r] = <<>>
     /\ \E x \in {"generate", "warm"} : EndsWith(todo[r], x, Preparing)
  \/ /\ kind[r] # "new" /\ EndsWith(todo[r], "say", Getting) /\ Below(spoken[r], at[r])
     /\ (Len(todo[r]) # 1 \/ ~S!Skips(r)) => spoken[r] = <<>>
  \/ kind[r] # "new" /\ todo[r] \in {<<>>, <<"failed">>}

SpeechInv ==
  /\ DOMAIN kind = Requests /\ DOMAIN todo = Requests /\ DOMAIN using = Requests
  /\ DOMAIN spoken = Requests /\ DOMAIN at = Requests
  /\ \A r \in Requests : Rising(spoken[r]) /\ Stages(r)

\* Nothing is asked at the start.
LEMMA InitSpeech == S!Init => SpeechInv
BY DEF S!Init, SpeechInv, Stages, Rising

\* A prefix of such steps keeps a list of that kind.
LEMMA Prefixed ==
  ASSUME NEW steps \in SUBSET StepNames, NEW x, NEW q, EndsWith(q, x, steps), NEW pre \in Seq(steps)
  PROVE  EndsWith(pre \o q, x, steps)
<1>1. q \in Seq(StepNames) /\ Len(q) \in Nat /\ Len(q) > 0 /\ pre \in Seq(StepNames) /\ Len(pre) \in Nat
      /\ \A i \in 1..Len(pre) : pre[i] \in steps
  <2>1. q \in Seq(StepNames) /\ Len(q) > 0
    BY DEF EndsWith
  <2>2. Len(pre) \in Nat /\ \A i \in 1..Len(pre) : pre[i] \in steps
    OBVIOUS
  <2>3. pre \in Seq(StepNames)
    BY SeqMonotonic
  <2>4. QED
    BY <2>1, <2>2, <2>3
<1>2. pre \o q \in Seq(StepNames) /\ Len(pre \o q) = Len(pre) + Len(q)
  BY <1>1
<1>3. (pre \o q)[Len(pre \o q)] = x
  BY <1>1, <1>2 DEF EndsWith
<1>4. ASSUME NEW i \in 1..(Len(pre \o q) - 1) PROVE (pre \o q)[i] \in steps
  <2>1. CASE i <= Len(pre)
    BY <1>1, <2>1
  <2>2. CASE i > Len(pre)
    <3>1. (pre \o q)[i] = q[i - Len(pre)] /\ i - Len(pre) \in 1..(Len(q) - 1)
      BY <1>1, <1>2, <2>2
    <3>2. QED
      BY <3>1 DEF EndsWith
  <2>3. QED
    BY <1>1, <1>2, <2>1, <2>2
<1>5. QED
  BY <1>1, <1>2, <1>3, <1>4 DEF EndsWith

\* The first step of such a list: it is the last one, or others take its place.
LEMMA FirstOf ==
  ASSUME NEW steps \in SUBSET StepNames, NEW x, x \notin steps, NEW q, EndsWith(q, x, steps)
  PROVE  /\ q # <<>> /\ Head(q) \in steps \cup {x}
         /\ Head(q) = x => Tail(q) = <<>> /\ Len(q) = 1
         /\ Head(q) # x => Len(q) # 1 /\ \A pre \in Seq(steps) : EndsWith(pre \o Tail(q), x, steps)
<1>1. q \in Seq(StepNames) /\ Len(q) \in Nat /\ Len(q) > 0 /\ q # <<>> /\ Head(q) = q[1]
  BY DEF EndsWith
<1>2. Len(q) = 1 \/ (Len(q) > 1 /\ q[1] \in steps)
  <2>1. CASE Len(q) > 1
    <3>1. 1 \in 1..(Len(q) - 1)
      BY <1>1, <2>1
    <3>2. QED
      BY <2>1, <3>1 DEF EndsWith
  <2>2. CASE ~(Len(q) > 1)
    <3>1. \A n \in Nat : n > 0 /\ ~(n > 1) => n = 1
      OBVIOUS
    <3>2. QED
      BY <1>1, <2>2, <3>1
  <2>3. QED
    BY <2>1, <2>2
<1>3. Len(q) = 1 => q[1] = x /\ Tail(q) = <<>>
  <2>1. Len(q) = 1 => q[1] = x
    BY DEF EndsWith
  <2>2. ASSUME Len(q) = 1 PROVE Tail(q) = <<>>
    <3>1. Tail(q) \in Seq(StepNames) /\ Len(Tail(q)) = 0
      BY <1>1, <2>2
    <3>2. QED
      BY <3>1, EmptySeq
  <2>3. QED
    BY <2>1, <2>2
<1>4. ASSUME Len(q) > 1 PROVE EndsWith(Tail(q), x, steps)
  <2>1. Tail(q) \in Seq(StepNames) /\ Len(Tail(q)) = Len(q) - 1
    BY <1>1
  <2>2. \A i \in 1..(Len(q) - 1) : Tail(q)[i] = q[i + 1]
    BY <1>1
  <2>3. QED
    BY <1>1, <1>4, <2>1, <2>2 DEF EndsWith
<1>5. QED
  BY <1>1, <1>2, <1>3, <1>4, Prefixed

\* The lists that the steps are made of.
LEMMA StepLists ==
  /\ Preparing \in SUBSET StepNames /\ Getting \in SUBSET StepNames
  /\ {"generate", "warm", "say"} \cap Preparing = {} /\ "say" \notin Getting
  /\ EndsWith(<<"generate">>, "generate", Preparing) /\ EndsWith(<<"warm">>, "warm", Preparing)
  /\ EndsWith(<<"say">>, "say", Getting)
  /\ EndsWith(<<"get", "say">>, "say", Getting) /\ EndsWith(<<"choose", "generate">>, "generate", Preparing)
  /\ EndsWith(<<"fall back", "load", "generate">>, "generate", Preparing)
  /\ <<>> \in Seq(Preparing) /\ <<>> \in Seq(Getting) /\ <<"build">> \in Seq(Getting)
  /\ <<"set module", "set provider">> \in Seq(Preparing) /\ <<"get", "loaded">> \in Seq(Preparing)
  /\ <<"build">> \in Seq(Preparing) /\ <<"load">> \in Seq(Preparing) /\ <<"choose", "load">> \in Seq(Preparing)
<1>1. Preparing \in SUBSET StepNames /\ Getting \in SUBSET StepNames
  BY DEF Preparing, Getting, StepNames
<1>2. {"generate", "warm", "say"} \cap Preparing = {} /\ "say" \notin Getting
  BY DEF Preparing, Getting
<1>3. \A x \in StepNames, steps \in SUBSET StepNames : EndsWith(<<x>>, x, steps)
  <2> SUFFICES ASSUME NEW x \in StepNames, NEW steps \in SUBSET StepNames PROVE EndsWith(<<x>>, x, steps)
    OBVIOUS
  <2>1. <<x>> \in Seq(StepNames) /\ Len(<<x>>) = 1 /\ <<x>>[1] = x
    OBVIOUS
  <2>2. QED
    BY <2>1 DEF EndsWith
<1>4. \A steps \in SUBSET StepNames : \A a \in steps, b \in steps : <<a>> \in Seq(steps) /\ <<a, b>> \in Seq(steps)
  <2> SUFFICES ASSUME NEW steps, NEW a \in steps, NEW b \in steps PROVE <<a>> \in Seq(steps) /\ <<a, b>> \in Seq(steps)
    OBVIOUS
  <2>1. QED
    OBVIOUS
<1>5. /\ "get" \in Getting /\ "build" \in Getting /\ "fall back" \in Preparing /\ "load" \in Preparing
      /\ "set module" \in Preparing /\ "set provider" \in Preparing /\ "get" \in Preparing /\ "loaded" \in Preparing
      /\ "build" \in Preparing /\ "choose" \in Preparing
  BY DEF Preparing, Getting
<1>6. EndsWith(<<"generate">>, "generate", Preparing) /\ EndsWith(<<"warm">>, "warm", Preparing)
      /\ EndsWith(<<"say">>, "say", Getting)
  BY <1>1, <1>3 DEF StepNames
<1>7. \A x \in StepNames, steps \in SUBSET StepNames : \A a \in steps : EndsWith(<<a, x>>, x, steps)
  <2> SUFFICES ASSUME NEW x \in StepNames, NEW steps \in SUBSET StepNames, NEW a \in steps
               PROVE  EndsWith(<<a, x>>, x, steps)
    OBVIOUS
  <2> DEFINE q == <<a, x>>
  <2>1. q \in Seq(StepNames) /\ Len(q) = 2 /\ q[1] = a /\ q[2] = x
    OBVIOUS
  <2> HIDE DEF q
  <2>2. \A i \in 1..(Len(q) - 1) : i = 1
    BY <2>1
  <2>3. q[Len(q)] = x /\ Len(q) > 0
    BY <2>1
  <2>4. \A i \in 1..(Len(q) - 1) : q[i] \in steps
    BY <2>1, <2>2
  <2>5. EndsWith(q, x, steps)
    BY <2>1, <2>3, <2>4 DEF EndsWith
  <2>6. QED
    BY <2>5 DEF q
<1>8. EndsWith(<<"fall back", "load", "generate">>, "generate", Preparing)
  <2> DEFINE q == <<"fall back", "load", "generate">>
  <2>1. q \in Seq(StepNames)
    <3>1. "fall back" \in StepNames /\ "load" \in StepNames /\ "generate" \in StepNames
      BY <1>1, <1>5 DEF StepNames
    <3>2. \A a, b, c \in StepNames : <<a, b, c>> \in Seq(StepNames)
      OBVIOUS
    <3>3. QED
      BY <3>1, <3>2
  <2>2. Len(q) = 3
    OBVIOUS
  <2>3. q[1] = "fall back" /\ q[2] = "load" /\ q[3] = "generate"
    OBVIOUS
  <2> HIDE DEF q
  <2>4. q[Len(q)] = "generate" /\ Len(q) > 0
    <3>1. \A n : n = 3 => q[n] = q[3] /\ n > 0
      OBVIOUS
    <3>2. QED
      BY <2>2, <2>3, <3>1
  <2>5. ASSUME NEW i \in 1..(Len(q) - 1) PROVE q[i] \in Preparing
    <3>1. \A n \in 1..(3 - 1) : n = 1 \/ n = 2
      OBVIOUS
    <3>2. i = 1 \/ i = 2
      BY <2>2, <3>1
    <3>3. QED
      BY <1>5, <2>3, <3>2
  <2>6. \A i \in 1..(Len(q) - 1) : q[i] \in Preparing
    BY <2>5
  <2>7. EndsWith(q, "generate", Preparing)
    BY <2>1, <2>4, <2>6 DEF EndsWith
  <2>8. QED
    BY <2>7 DEF q
<1>9. /\ <<"build">> \in Seq(Getting) /\ <<"set module", "set provider">> \in Seq(Preparing)
      /\ <<"get", "loaded">> \in Seq(Preparing)
      /\ <<"build">> \in Seq(Preparing) /\ <<"load">> \in Seq(Preparing) /\ <<"choose", "load">> \in Seq(Preparing)
  BY <1>1, <1>4, <1>5
<1>10. <<>> \in Seq(Preparing) /\ <<>> \in Seq(Getting)
  BY EmptySeq
<1>11. /\ EndsWith(<<"get", "say">>, "say", Getting)
       /\ EndsWith(<<"choose", "generate">>, "generate", Preparing)
  BY <1>1, <1>5, <1>7 DEF StepNames
<1>12. QED
  BY <1>1, <1>2, <1>6, <1>8, <1>9, <1>10, <1>11


\* The first step of a request that prepares.
LEMMA FirstPreparing ==
  ASSUME NEW x \in {"generate", "warm"}, NEW q, EndsWith(q, x, Preparing)
  PROVE  /\ q # <<>> /\ Head(q) \in Preparing \cup {"generate", "warm"}
         /\ Head(q) \in {"generate", "warm"} => Tail(q) = <<>>
         /\ Head(q) \in Preparing => \A pre \in Seq(Preparing) : EndsWith(pre \o Tail(q), x, Preparing)
BY StepLists, FirstOf
\* And of one that talks.
LEMMA FirstTalking ==
  ASSUME NEW q, EndsWith(q, "say", Getting)
  PROVE  /\ q # <<>> /\ Head(q) \in {"get", "build", "say"}
         /\ Head(q) = "say" => Tail(q) = <<>> /\ Len(q) = 1
         /\ Head(q) # "say" => Len(q) # 1 /\ \A pre \in Seq(Getting) : EndsWith(pre \o Tail(q), "say", Getting)
<1>1. Getting \in SUBSET StepNames /\ "say" \notin Getting
  BY StepLists
<1>2. /\ q # <<>> /\ Head(q) \in Getting \cup {"say"}
      /\ Head(q) = "say" => Tail(q) = <<>> /\ Len(q) = 1
      /\ Head(q) # "say" => Len(q) # 1 /\ \A pre \in Seq(Getting) : EndsWith(pre \o Tail(q), "say", Getting)
  BY <1>1, FirstOf
<1>3. Head(q) \in {"get", "build", "say"}
  BY <1>2 DEF Getting
<1>4. QED
  BY <1>2, <1>3

\* One request's step keeps the invariant if it keeps its stage.
LEMMA OneSpeaks ==
  ASSUME SpeechInv, NEW r \in Requests, Stages(r)', Rising(spoken'[r]),
         DOMAIN kind' = Requests, DOMAIN todo' = Requests, DOMAIN using' = Requests,
         DOMAIN spoken' = Requests, DOMAIN at' = Requests,
         \A s \in Requests \ {r} : /\ kind'[s] = kind[s] /\ todo'[s] = todo[s] /\ using'[s] = using[s]
                                   /\ spoken'[s] = spoken[s] /\ at'[s] = at[s]
  PROVE  SpeechInv'
<1>1. ASSUME NEW s \in Requests \ {r} PROVE Stages(s)' /\ Rising(spoken'[s])
  BY <1>1 DEF SpeechInv, Stages, S!Skips
<1>2. QED
  BY <1>1 DEF SpeechInv

\* The steps of one request, from the stage it is in.
LEMMA Speaks ==
  ASSUME SpeechInv, NEW r \in Requests,
         S!Ask(r) \/ S!choose(r) \/ S!fall_back(r) \/ S!set_provider(r) \/ S!load_models(r) \/ S!set_loaded(r)
         \/ S!_get_f5(r) \/ S!build(r) \/ S!generate_audio(r) \/ S!no_warmup(r) \/ S!say(r),
         Sentences \in Nat
  PROVE  SpeechInv'
<1>1. Rising(spoken[r]) /\ Stages(r)
  BY DEF SpeechInv
<1>2. <<>> \in Seq(Int) /\ Rising(<<>>) /\ Len(<<>>) = 0
  BY EmptySeq DEF Rising
<1> DEFINE Prepares == spoken[r] = <<>> /\ \E x \in {"generate", "warm"} : EndsWith(todo[r], x, Preparing)
           Talks == /\ EndsWith(todo[r], "say", Getting) /\ Below(spoken[r], at[r])
                    /\ (Len(todo[r]) # 1 \/ ~S!Skips(r)) => spoken[r] = <<>>
\* Who takes a step that Then goes on from.
<1>3. ASSUME kind[r] # "new", todo[r] # <<>>, todo[r] # <<"failed">> PROVE Prepares \/ Talks
  BY <1>1, <1>3 DEF Stages
\* The lists of a step: the next one is in it, the others take its place.
<1>4. ASSUME NEW first, S!At(r, first) PROVE todo[r] # <<>> /\ Head(todo[r]) = first
  BY <1>4 DEF S!At
<1>5. DOMAIN todo = Requests /\ DOMAIN spoken = Requests /\ DOMAIN at = Requests /\ DOMAIN using = Requests
      /\ DOMAIN kind = Requests
  BY DEF SpeechInv
<1>6. ASSUME NEW q, todo' = [todo EXCEPT ![r] = q], UNCHANGED <<kind, using, spoken, at>>,
             Stages(r)'
      PROVE  SpeechInv'
  BY <1>1, <1>5, <1>6, OneSpeaks
\* A step that only puts others in its place.
<1>7. ASSUME NEW first \in Preparing, S!At(r, first), UNCHANGED <<kind, using, spoken, at>>, kind[r] # "new",
             NEW pre \in Seq(Preparing), S!Then(r, pre), first \in Getting => pre \in Seq(Getting)
      PROVE  SpeechInv'
  <2> DEFINE q == pre \o Tail(todo[r])
  <2>1. todo' = [todo EXCEPT ![r] = q] /\ todo'[r] = q
    BY <1>5, <1>7 DEF S!Then
  <2>2. Head(todo[r]) = first /\ first # "generate" /\ first # "warm" /\ first # "say" /\ first # "failed"
    BY <1>4, <1>7, StepLists DEF Preparing
  <2>3. todo[r] # <<>> /\ todo[r] # <<"failed">>
    BY <1>4, <1>7, <2>2
  <2>4. CASE Prepares
    <3>1. PICK x \in {"generate", "warm"} : EndsWith(todo[r], x, Preparing)
      BY <2>4
    <3>2. EndsWith(q, x, Preparing)
      BY <1>7, <2>2, <3>1, StepLists, FirstOf
    <3>3. Stages(r)'
      BY <1>7, <2>1, <2>4, <3>2 DEF Stages
    <3>4. QED
      BY <1>6, <1>7, <2>1, <3>3
  <2>5. CASE Talks
    <3>1. first \in Getting /\ Len(todo[r]) # 1
      BY <2>2, <2>5, StepLists, FirstOf
    <3>2. EndsWith(q, "say", Getting) /\ spoken[r] = <<>>
      BY <1>7, <2>2, <2>5, <3>1, StepLists, FirstOf
    <3>3. Stages(r)'
      BY <1>7, <2>1, <2>5, <3>2 DEF Stages, Below
    <3>4. QED
      BY <1>6, <1>7, <2>1, <3>3
  <2>6. QED
    BY <1>3, <1>7, <2>3, <2>4, <2>5
\* An exception before anything is spoken.
<1>8. ASSUME spoken[r] = <<>>, kind[r] # "new", UNCHANGED <<kind, using, spoken, at>>, S!Raise(r)
      PROVE  SpeechInv'
  <2>1. CASE todo' = [todo EXCEPT ![r] = <<"fall back", "load", "generate">>]
    <3>1. todo'[r] = <<"fall back", "load", "generate">>
      BY <1>5, <2>1
    <3>2. Stages(r)'
      BY <1>8, <3>1, StepLists DEF Stages
    <3>3. QED
      BY <1>6, <1>8, <2>1, <3>2
  <2>2. CASE todo' = [todo EXCEPT ![r] = <<"failed">>]
    <3>1. todo'[r] = <<"failed">>
      BY <1>5, <2>2
    <3>2. Stages(r)'
      BY <1>8, <3>1 DEF Stages
    <3>3. QED
      BY <1>6, <1>8, <2>2, <3>2
  <2>3. QED
    BY <1>8, <2>1, <2>2 DEF S!Raise
\* Who has a step to take has been asked, and has not failed.
<1>9. ASSUME NEW first, S!At(r, first), first # "failed" PROVE kind[r] # "new" /\ (Prepares \/ Talks)
  <2>1. todo[r] # <<>> /\ Head(todo[r]) = first
    BY <1>4, <1>9
  <2>2. todo[r] # <<"failed">>
    BY <1>9, <2>1
  <2>3. QED
    BY <1>1, <2>1, <2>2 DEF Stages
<1>10. CASE S!Ask(r)
  <2>1. kind[r] = "new" /\ spoken[r] = <<>> /\ UNCHANGED <<using, spoken, at>>
    BY <1>1, <1>10 DEF S!Ask, Stages, EndsWith
  <2>2. PICK k \in {"one", "stream", "warm"}, load \in {<<>>, <<"choose", "load">>} :
          /\ kind' = [kind EXCEPT ![r] = k]
          /\ todo' = [todo EXCEPT ![r] = load \o (IF k = "warm" THEN <<"warm">> ELSE <<"choose", "generate">>)]
    BY <1>10 DEF S!Ask
  <2>4. load \in Seq(Preparing)
    BY <2>2, StepLists
  <2> DEFINE end == IF k = "warm" THEN <<"warm">> ELSE <<"choose", "generate">>
             q == load \o end
  <2>5. \E x \in {"generate", "warm"} : EndsWith(end, x, Preparing)
    BY StepLists
  <2> HIDE DEF end
  <2>6. \E x \in {"generate", "warm"} : EndsWith(q, x, Preparing)
    BY <2>4, <2>5, StepLists, Prefixed
  <2>7. kind' = [kind EXCEPT ![r] = k] /\ todo' = [todo EXCEPT ![r] = q] /\ k # "new"
    BY <2>2 DEF end
  <2> HIDE DEF q
  <2>8. kind'[r] # "new" /\ todo'[r] = q
    BY <1>5, <2>7
  <2>9. Stages(r)'
    BY <2>1, <2>6, <2>8 DEF Stages
  <2>10. QED
    BY <1>1, <1>5, <2>1, <2>7, <2>9, OneSpeaks
<1>11. CASE S!choose(r) \/ S!fall_back(r)
  <2>1. PICK first \in {"choose", "fall back"} : S!At(r, first)
    BY <1>11 DEF S!choose, S!fall_back
  <2>2. UNCHANGED <<kind, using, spoken, at>>
    BY <1>11 DEF S!choose, S!fall_back, S!router, S!engine
  <2>3. S!Then(r, <<>>) \/ S!Then(r, <<"set module", "set provider">>)
    BY <1>11 DEF S!choose, S!fall_back, S!Switch
  <2>4. first \in Preparing /\ first \notin Getting /\ first # "failed"
    BY <2>1 DEF Preparing, Getting
  <2>5. QED
    BY <1>7, <1>9, <2>1, <2>2, <2>3, <2>4, StepLists
<1>12. CASE S!set_provider(r) \/ S!set_loaded(r)
  <2>1. PICK first \in {"set module", "set provider", "loaded"} : S!At(r, first)
    BY <1>12 DEF S!set_provider, S!set_loaded
  <2>2. UNCHANGED <<kind, using, spoken, at>> /\ S!Then(r, <<>>)
    BY <1>12 DEF S!set_provider, S!set_loaded, S!router, S!engine
  <2>3. first \in Preparing /\ first \notin Getting /\ first # "failed"
    BY <2>1 DEF Preparing, Getting
  <2>4. QED
    BY <1>7, <1>9, <2>1, <2>2, <2>3, StepLists
<1>13. CASE S!load_models(r)
  <2>1. S!At(r, "load") /\ UNCHANGED <<kind, using, spoken, at>>
    BY <1>13 DEF S!load_models, S!router, S!engine
  <2>2. "load" \in Preparing /\ "load" \notin Getting /\ "load" # "say"
    BY DEF Preparing, Getting
  <2>3. S!Then(r, <<>>) \/ S!Then(r, <<"get", "loaded">>) \/ S!Raise(r)
    BY <1>13 DEF S!load_models
  <2>4. Prepares /\ kind[r] # "new"
    <3>1. ~Talks
      BY <1>4, <2>1, FirstTalking
    <3>2. QED
      BY <1>9, <2>1, <3>1
  <2>5. QED
    BY <1>7, <1>8, <2>1, <2>2, <2>3, <2>4, StepLists
<1>14. CASE S!_get_f5(r)
  <2>1. S!At(r, "get") /\ UNCHANGED <<kind, using, spoken, at>> /\ (S!Then(r, <<>>) \/ S!Then(r, <<"build">>))
    BY <1>14 DEF S!_get_f5, S!router
  <2>2. "get" \in Preparing /\ "get" # "failed"
    BY DEF Preparing
  <2>3. QED
    BY <1>7, <1>9, <2>1, <2>2, StepLists
<1>15. CASE S!build(r)
  <2>1. S!At(r, "build") /\ UNCHANGED <<kind, using, spoken, at>> /\ (S!Then(r, <<>>) \/ S!Raise(r))
    BY <1>15 DEF S!build, S!router
  <2>2. "build" \in Preparing /\ "build" # "failed" /\ "build" # "say"
    BY DEF Preparing
  <2>3. Talks => spoken[r] = <<>>
    BY <1>4, <2>1, <2>2, StepLists, FirstOf
  <2>4. spoken[r] = <<>> /\ kind[r] # "new"
    BY <1>9, <2>1, <2>2, <2>3
  <2>5. QED
    BY <1>7, <1>8, <2>1, <2>2, <2>4, StepLists
<1>16. CASE S!generate_audio(r)
  <2>1. PICK first \in {"generate", "warm"} : S!At(r, first)
    BY <1>16 DEF S!generate_audio
  <2>2. ~Talks
    BY <1>4, <2>1, FirstTalking
  <2>3. Prepares /\ kind[r] # "new"
    BY <1>9, <2>1, <2>2
  <2>4. Tail(todo[r]) = <<>>
    BY <1>4, <2>1, <2>3, FirstPreparing
  <2>5. /\ UNCHANGED <<kind, spoken>> /\ at' = [at EXCEPT ![r] = 1]
        /\ \E e : using' = [using EXCEPT ![r] = e]
        /\ \E pre \in {<<"get", "say">>, <<"say">>} : S!Then(r, pre)
    BY <1>16 DEF S!generate_audio, S!router, S!engine
  <2>6. PICK pre \in {<<"get", "say">>, <<"say">>} : S!Then(r, pre)
    BY <2>5
  <2>7. EndsWith(pre, "say", Getting)
    BY <2>6, <1>3, StepLists, Prefixed
  <2>8. pre \o <<>> = pre
    BY <2>7, ConcatEmptySeq DEF EndsWith
  <2>9. todo' = [todo EXCEPT ![r] = pre]
    BY <2>4, <2>6, <2>8 DEF S!Then
  <2>10. todo'[r] = pre /\ at'[r] = 1
    BY <1>5, <2>5, <2>9
  <2>11. Stages(r)'
    BY <1>2, <2>3, <2>5, <2>7, <2>10 DEF Stages, Below
  <2>12. QED
    BY <1>1, <1>5, <2>5, <2>9, <2>11, OneSpeaks
<1>17. CASE S!no_warmup(r)
  <2>1. S!At(r, "warm") /\ UNCHANGED <<kind, using, spoken, at>> /\ S!Then(r, <<>>)
    BY <1>17 DEF S!no_warmup, S!router, S!engine
  <2>2. ~Talks
    BY <1>4, <2>1, FirstTalking
  <2>3. Prepares /\ kind[r] # "new"
    BY <1>9, <2>1, <2>2
  <2>4. Tail(todo[r]) = <<>>
    BY <1>4, <2>1, <2>3, FirstPreparing
  <2>5. <<>> \o <<>> = <<>>
    BY <1>2, ConcatEmptySeq
  <2>6. todo' = [todo EXCEPT ![r] = <<>>]
    BY <2>1, <2>4, <2>5 DEF S!Then
  <2>7. todo'[r] = <<>>
    BY <1>5, <2>6
  <2>8. Stages(r)'
    BY <2>1, <2>3, <2>7 DEF Stages
  <2>9. QED
    BY <1>6, <2>1, <2>6, <2>8
<1>18. CASE S!say(r)
  <2>1. S!At(r, "say") /\ UNCHANGED <<kind, using>>
    BY <1>18 DEF S!say, S!router, S!engine
  <2>2. ~Prepares
    <3>1. "say" \notin Preparing \cup {"generate", "warm"}
      BY DEF Preparing
    <3>2. QED
      BY <1>4, <2>1, <3>1, FirstPreparing
  <2>3. Talks /\ kind[r] # "new"
    BY <1>9, <2>1, <2>2
  <2>4. Tail(todo[r]) = <<>> /\ Len(todo[r]) = 1
    BY <1>4, <2>1, <2>3, StepLists, FirstOf
  <2>5. <<>> \o <<>> = <<>>
    BY <1>2, ConcatEmptySeq
  <2>6. spoken[r] \in Seq(Int) /\ Len(spoken[r]) \in Nat /\ at[r] \in Int
    BY <1>1, <2>3 DEF Rising, Below
  <2>7. CASE /\ S!Skips(r)
             /\ spoken' = [spoken EXCEPT ![r] = Append(@, at[r])] \/ spoken' = spoken
             /\ at' = [at EXCEPT ![r] = @ + 1]
             /\ UNCHANGED todo \/ S!Then(r, <<>>)
    <3>1. PICK q \in {spoken[r], Append(spoken[r], at[r])} :
             spoken'[r] = q /\ DOMAIN spoken' = Requests /\ \A s \in Requests \ {r} : spoken'[s] = spoken[s]
      <4>1. CASE spoken' = spoken
        BY <1>5, <4>1
      <4>2. CASE spoken' = [spoken EXCEPT ![r] = Append(spoken[r], at[r])]
        BY <1>5, <4>2
      <4>3. QED
        BY <2>7, <4>1, <4>2
    <3>2. Rising(q) /\ Below(q, at[r] + 1)
      BY <1>1, <2>3, <2>6, Appended
    <3>3. spoken'[r] = q /\ at'[r] = at[r] + 1 /\ DOMAIN spoken' = Requests /\ DOMAIN at' = Requests
          /\ \A s \in Requests \ {r} : spoken'[s] = spoken[s] /\ at'[s] = at[s]
      BY <1>5, <2>7, <3>1
    <3>4. Below(spoken'[r], at'[r])
      BY <3>2, <3>3
    <3>5. todo' = todo \/ todo' = [todo EXCEPT ![r] = <<>>]
      BY <2>4, <2>5, <2>7 DEF S!Then
    <3>6. DOMAIN todo' = Requests /\ (todo'[r] = todo[r] \/ todo'[r] = <<>>)
          /\ \A s \in Requests \ {r} : todo'[s] = todo[s]
      BY <1>5, <3>5
    <3>7. S!Skips(r)'
      BY <2>1, <2>7 DEF S!Skips
    <3>8. Stages(r)'
      BY <2>1, <2>3, <2>4, <3>4, <3>6, <3>7 DEF Stages
    <3>9. QED
      BY <1>5, <2>1, <3>2, <3>3, <3>6, <3>8, OneSpeaks
  <2>8. CASE /\ ~S!Skips(r)
             /\ spoken' = [spoken EXCEPT ![r] = @ \o [i \in 1..Sentences |-> i]]
             /\ S!Then(r, <<>>) /\ UNCHANGED at
    <3> DEFINE text == [i \in 1..Sentences |-> i]
    <3>1. spoken[r] = <<>>
      BY <2>3, <2>8
    <3>2. text \in Seq(Int) /\ Len(text) = Sentences /\ \A i \in 1..Sentences : text[i] = i
      OBVIOUS
    <3>3. <<>> \o text = text /\ Rising(text)
      BY <3>2, ConcatEmptySeq DEF Rising
    <3>4. spoken' = [spoken EXCEPT ![r] = text]
      BY <2>8, <3>1, <3>3
    <3> HIDE DEF text
    <3>5. spoken'[r] = text /\ DOMAIN spoken' = Requests /\ \A s \in Requests \ {r} : spoken'[s] = spoken[s]
      BY <1>5, <3>4
    <3>6. todo' = [todo EXCEPT ![r] = <<>>]
      BY <2>4, <2>5, <2>8 DEF S!Then
    <3>7. todo'[r] = <<>> /\ DOMAIN todo' = Requests /\ \A s \in Requests \ {r} : todo'[s] = todo[s]
      BY <1>5, <3>6
    <3>8. Stages(r)'
      BY <2>1, <2>3, <3>7 DEF Stages
    <3>9. QED
      BY <1>5, <2>1, <2>8, <3>3, <3>5, <3>7, <3>8, OneSpeaks
  <2>9. CASE ~S!Skips(r) /\ S!Raise(r) /\ UNCHANGED <<spoken, at>>
    BY <1>8, <2>1, <2>3, <2>9
  <2>10. QED
    BY <1>18, <2>7, <2>8, <2>9 DEF S!say
<1>19. QED
  BY <1>10, <1>11, <1>12, <1>13, <1>14, <1>15, <1>16, <1>17, <1>18

\* Every step of the synthesis keeps the invariant.
LEMMA StepSpeech == ASSUME Sentences \in Nat PROVE SpeechInv /\ [S!Next]_S!vars => SpeechInv'
<1> SUFFICES ASSUME SpeechInv, [S!Next]_S!vars PROVE SpeechInv'
  OBVIOUS
<1>1. CASE S!Next
  BY <1>1, Speaks DEF S!Next
<1>2. CASE UNCHANGED S!vars
  BY <1>2 DEF S!vars, SpeechInv, Stages, S!Skips
<1>3. QED
  BY <1>1, <1>2

\* The run's steps are steps of the part that is checked.
LEMMA RunsSpeech ==
  ASSUME [MCNext]_<<part, vars, speech, models, worker>>, part' = "speech"
  PROVE  part = "speech" /\ [S!Next]_S!vars
BY DEF MCNext, speech, S!vars

\* For any requests and any number of sentences: no request speaks a sentence
\* twice, though the router starts the text again with the other engine
\* (tts_router.generate_audio).
THEOREM NothingIsSaidTwice ==
  ASSUME Sentences \in Nat
  PROVE  (S!Spec => []S!NothingSaidTwice) /\ (MCSpec => []NothingSaidTwice)
<1>1. MCInit => (part = "speech" => SpeechInv)
  BY InitSpeech DEF MCInit
<1>2. (part = "speech" => SpeechInv) /\ [MCNext]_<<part, vars, speech, models, worker>>
        => (part = "speech" => SpeechInv)'
  BY RunsSpeech, StepSpeech
<1>3. SpeechInv => S!NothingSaidTwice
  BY DEF SpeechInv, Rising, S!NothingSaidTwice
<1>4. (part = "speech" => SpeechInv) => NothingSaidTwice
  BY <1>3 DEF NothingSaidTwice
<1>5. QED
  BY <1>1, <1>2, <1>3, <1>4, InitSpeech, StepSpeech, PTL DEF S!Spec, MCSpec

-----------------------------------------------------------------------------
(* The Python worker answers for every silence.                            *)

WorkerInv ==
  /\ answered = asked /\ DOMAIN model = W!Loadable
  /\ reply.result = "silent" => reply.op \in reported
  /\ model["stt"] = "empty" => "stt_transcribe" \in reported
  /\ model["wake"] = "empty" => "wake_detect" \in reported

\* No model is there at the start, and nothing has been answered.
LEMMA InitWorker == W!Init => WorkerInv
<1> SUFFICES ASSUME W!Init PROVE WorkerInv
  OBVIOUS
<1>1. DOMAIN model = W!Loadable
  BY DEF W!Init
<1>2. model["stt"] = "none" /\ model["wake"] = "none"
  BY DEF W!Init, W!Loadable
<1>3. reply.result = ""
  BY DEF W!Init
<1>4. answered = asked
  BY DEF W!Init
<1>5. QED
  BY <1>1, <1>2, <1>3, <1>4 DEF WorkerInv

\* A reply, and what it says of a model that could not be loaded.
LEMMA ReplyFacts ==
  ASSUME NEW line, NEW result, W!Reply(line, result)
  PROVE  /\ reply'.result = result /\ reply'.op = line.op /\ answered' = Append(answered, line.id)
         /\ reported \subseteq reported' /\ (result = "no model" => line.op \in reported')
BY DEF W!Reply

\* What one request does: it is answered once, in silence only if its model was
\* found empty, which an error has told; only such an error leaves a model empty.
Served(line) ==
  \E result : /\ W!Reply(line, result)
              /\ result = "silent" => \/ line.op = "stt_transcribe" /\ model["stt"] = "empty"
                                      \/ line.op = "wake_detect" /\ model["wake"] = "empty"
              /\ \/ model' = model
                 \/ \E m \in W!Loadable : model' = [model EXCEPT ![m] = "loaded"]
                 \/ line.op = "stt_transcribe" /\ model' = [model EXCEPT !["stt"] = "empty"] /\ result = "no model"
                 \/ line.op = "wake_detect" /\ model' = [model EXCEPT !["wake"] = "empty"] /\ result = "no model"

\* Speech is synthesized, or its model cannot be loaded.
LEMMA SpeakServed == ASSUME NEW line, W!_handle_tts_speak(line), DOMAIN model = W!Loadable PROVE Served(line)
<1>1. /\ model' = model \/ model' = [model EXCEPT !["f5"] = "loaded"]
      /\ \E result \in {"audio", "raised", "no model"} : W!Reply(line, result)
  BY DEF W!_handle_tts_speak, W!_ensure_f5
<1>2. QED
  BY <1>1 DEF Served, W!Loadable

\* A transcription.
LEMMA TranscribeServed ==
  ASSUME NEW line, line.op = "stt_transcribe", W!_handle_stt_transcribe(line)
  PROVE  Served(line)
<1>1. CASE line.good
  <2>1. \/ model' = model /\ model["stt"] = "empty" /\ W!Reply(line, "silent")
        \/ /\ model' = model \/ model' = [model EXCEPT !["stt"] = "loaded"]
           /\ \E result \in {"text", "raised"} : W!Reply(line, result)
        \/ model' = [model EXCEPT !["stt"] = "empty"] /\ W!Reply(line, "no model")
    BY <1>1 DEF W!_handle_stt_transcribe, W!_ensure, W!load_fails
  <2>2. "stt" \in W!Loadable
    BY DEF W!Loadable
  <2>3. QED
    BY <2>1, <2>2 DEF Served
<1>2. CASE ~line.good
  BY <1>2 DEF W!_handle_stt_transcribe, Served
<1>3. QED
  BY <1>1, <1>2

\* A look for the wake word.
LEMMA DetectServed ==
  ASSUME NEW line, line.op = "wake_detect", W!_handle_wake_detect(line)
  PROVE  Served(line)
<1>1. CASE line.good
  <2>1. ASSUME NEW state, W!process(line, state)
        PROVE  \/ state = "empty" /\ W!Reply(line, "silent")
               \/ \E result \in {"detected", "undetected"} : W!Reply(line, result)
    BY <2>1 DEF W!process
  <2>2. \/ \E state : model' = model /\ state = model["wake"] /\ W!process(line, state)
        \/ model' = [model EXCEPT !["wake"] = "loaded"] /\ W!process(line, "loaded")
        \/ model' = [model EXCEPT !["wake"] = "empty"] /\ W!Reply(line, "no model")
    BY <1>1 DEF W!_handle_wake_detect, W!_ensure, W!load_fails
  <2>3. "wake" \in W!Loadable
    BY DEF W!Loadable
  <2>4. CASE \E state : model' = model /\ state = model["wake"] /\ W!process(line, state)
    BY <2>1, <2>4 DEF Served
  <2>5. CASE model' = [model EXCEPT !["wake"] = "loaded"] /\ W!process(line, "loaded")
    <3>1. \E result \in {"detected", "undetected"} : W!Reply(line, result)
      BY <2>1, <2>5
    <3>2. QED
      BY <2>3, <2>5, <3>1 DEF Served
  <2>6. CASE model' = [model EXCEPT !["wake"] = "empty"] /\ W!Reply(line, "no model")
    BY <2>6 DEF Served
  <2>7. QED
    BY <2>2, <2>4, <2>5, <2>6
<1>2. CASE ~line.good
  BY <1>2 DEF W!_handle_wake_detect, Served
<1>3. QED
  BY <1>1, <1>2

\* One line that has an id.
LEMMA LineServed == ASSUME WorkerInv, NEW line, W!_handle(line) PROVE Served(line)
<1>1. CASE line.op = "tts_speak"
  BY <1>1, SpeakServed DEF W!_handle, WorkerInv
<1>2. CASE line.op = "stt_transcribe"
  BY <1>2, TranscribeServed DEF W!_handle
<1>3. CASE line.op = "wake_detect"
  BY <1>3, DetectServed DEF W!_handle
<1>4. CASE line.op \notin {"tts_speak", "stt_transcribe", "wake_detect"}
  <2>1. \E result \in {"pong", "ok", "raised"} : W!Reply(line, result) /\ model' = model
    BY <1>4 DEF W!_handle, W!_handle_wake_reset
  <2>2. QED
    BY <2>1 DEF Served
<1>5. QED
  BY <1>1, <1>2, <1>3, <1>4

\* Every line keeps the invariant.
LEMMA StepWorker == WorkerInv /\ [W!Next]_W!vars => WorkerInv'
<1> SUFFICES ASSUME WorkerInv, [W!Next]_W!vars PROVE WorkerInv'
  OBVIOUS
<1>1. CASE UNCHANGED <<model, reply, asked, answered, reported>>
  BY <1>1 DEF WorkerInv, W!Loadable
<1>2. ASSUME NEW line, asked' = Append(asked, line.id), W!_handle(line) PROVE WorkerInv'
  <2>1. PICK result : /\ W!Reply(line, result)
                      /\ result = "silent" => \/ line.op = "stt_transcribe" /\ model["stt"] = "empty"
                                              \/ line.op = "wake_detect" /\ model["wake"] = "empty"
                      /\ \/ model' = model
                         \/ \E m \in W!Loadable : model' = [model EXCEPT ![m] = "loaded"]
                         \/ line.op = "stt_transcribe" /\ model' = [model EXCEPT !["stt"] = "empty"] /\ result = "no model"
                         \/ line.op = "wake_detect" /\ model' = [model EXCEPT !["wake"] = "empty"] /\ result = "no model"
    BY <1>2, LineServed DEF Served
  <2>2. /\ reply'.result = result /\ reply'.op = line.op /\ answered' = Append(answered, line.id)
        /\ reported \subseteq reported' /\ (result = "no model" => line.op \in reported')
    BY <2>1, ReplyFacts
  <2>3. answered' = asked'
    BY <1>2, <2>2 DEF WorkerInv
  <2>4. reply'.result = "silent" => reply'.op \in reported'
    BY <2>1, <2>2 DEF WorkerInv
  <2>5. /\ DOMAIN model' = W!Loadable
        /\ model'["stt"] = "empty" => model["stt"] = "empty" \/ (line.op = "stt_transcribe" /\ result = "no model")
        /\ model'["wake"] = "empty" => model["wake"] = "empty" \/ (line.op = "wake_detect" /\ result = "no model")
    BY <2>1 DEF WorkerInv, W!Loadable
  <2>6. W!Loadable' = W!Loadable
    BY DEF W!Loadable
  <2>7. QED
    BY <2>2, <2>3, <2>4, <2>5, <2>6 DEF WorkerInv
<1>3. QED
  BY <1>1, <1>2 DEF W!Next, W!Stop, W!Turn, W!vars

\* The run's steps are steps of the part that is checked.
LEMMA RunsWorker ==
  ASSUME [MCNext]_<<part, vars, speech, models, worker>>, part' = "worker"
  PROVE  part = "worker" /\ [W!Next]_W!vars
BY DEF MCNext, worker, W!vars

\* For any lines, whatever fails to load: every request is answered once, in
\* order, and an answer that no model gave comes after an error has told that the
\* model failed to load (tts_worker.main, _ensure_stt, _ensure_wake_word).
THEOREM SilenceIsExplained == (W!Spec => []W!AnswersExplained) /\ (MCSpec => []AnswersExplained)
<1>1. MCInit => (part = "worker" => WorkerInv)
  BY InitWorker DEF MCInit
<1>2. (part = "worker" => WorkerInv) /\ [MCNext]_<<part, vars, speech, models, worker>>
        => (part = "worker" => WorkerInv)'
  BY RunsWorker, StepWorker
<1>3. WorkerInv => W!AnswersExplained
  BY DEF WorkerInv, W!AnswersExplained
<1>4. (part = "worker" => WorkerInv) => AnswersExplained
  BY <1>3 DEF AnswersExplained
<1>5. QED
  BY <1>1, <1>2, <1>3, <1>4, InitWorker, StepWorker, PTL DEF W!Spec, MCSpec

-----------------------------------------------------------------------------
\* A request uses the Whisper model only while there is one; no request has been
\* answered for want of it.
WhisperInv ==
  /\ stt \in {"none", "model"} /\ DOMAIN caller = Requests
  /\ \A c \in Requests : caller[c] # "silence" /\ (caller[c] = "use" => stt = "model")

\* Nobody has called at the start.
LEMMA InitWhisper == M!Init => WhisperInv
BY DEF M!Init, WhisperInv

\* The runs' steps of the part that is checked.
LEMMA RunsModels ==
  ASSUME [MCNext]_<<part, vars, speech, models, worker>>, part' = "models"
  PROVE  part = "models" /\ [M!Next]_M!vars
BY DEF MCNext, models, M!vars, M!files, M!tasks, M!whisper

\* Every step keeps the invariant.
LEMMA StepWhisper == WhisperInv /\ [M!Next]_M!vars => WhisperInv'
<1> SUFFICES ASSUME WhisperInv, [M!Next]_M!vars PROVE WhisperInv'
  OBVIOUS
<1>1. CASE UNCHANGED <<stt, caller>>
  BY <1>1 DEF WhisperInv
<1>2. ASSUME NEW c \in Requests, M!get_or_create_stt(c) PROVE WhisperInv'
  BY <1>2 DEF WhisperInv, M!get_or_create_stt
<1>3. ASSUME NEW c \in Requests, M!load(c) PROVE WhisperInv'
  BY <1>3 DEF WhisperInv, M!load
<1>4. ASSUME NEW c \in Requests, M!transcribe(c) \/ M!transcribe_fails(c) PROVE WhisperInv'
  BY <1>4 DEF WhisperInv, M!transcribe, M!transcribe_fails
<1>5. CASE M!Restart
  BY <1>5 DEF WhisperInv, M!Restart
<1>6. ASSUME NEW t \in Downloads,
             \/ M!download_models_api(t) \/ M!open_temp(t) \/ M!read_block(t)
             \/ M!rename(t) \/ M!download_fails(t) \/ M!complete(t)
      PROVE  UNCHANGED <<stt, caller>>
  BY <1>6 DEF M!download_models_api, M!open_temp, M!read_block, M!rename, M!download_fails,
              M!complete, M!whisper
<1>7. QED
  BY <1>1, <1>2, <1>3, <1>4, <1>5, <1>6 DEF M!Next, M!vars, M!whisper

\* For any number of requests and restarts: no transcription is empty for want of
\* a model, because nothing is cached before its load succeeded
\* (get_or_create_stt, SpeechToText.transcribe).
THEOREM SilenceIsHeard == (M!Spec => []M!NoSilentTranscript) /\ (MCSpec => []NoSilentTranscript)
<1>1. MCInit => (part = "models" => WhisperInv)
  BY InitWhisper DEF MCInit
<1>2. (part = "models" => WhisperInv) /\ [MCNext]_<<part, vars, speech, models, worker>>
        => (part = "models" => WhisperInv)'
  BY RunsModels, StepWhisper
<1>3. WhisperInv => M!NoSilentTranscript
  BY DEF WhisperInv, M!NoSilentTranscript
<1>4. (part = "models" => WhisperInv) => NoSilentTranscript
  BY <1>3 DEF NoSilentTranscript
<1>5. QED
  BY <1>1, <1>2, <1>3, <1>4, InitWhisper, StepWhisper, PTL DEF M!Spec, MCSpec

-----------------------------------------------------------------------------
\* What a file is, to the tasks that write it: the models a name or a task of
\* which holds one inode are the same model; an inode is whole before it gets the
\* model's name, and nobody writes it then.
Slots == {0} \cup M!Inodes
ModelsType ==
  /\ target \in [Models -> Slots] /\ temp \in [Models -> Slots] /\ DOMAIN content = M!Inodes
  /\ file \in [Downloads -> Slots] /\ done \in [Downloads -> Nat] /\ pos \in [Downloads -> Nat]
  /\ missing \in [Downloads -> Seq(Models)] /\ DOMAIN pc = Downloads
Opened ==
  \A t \in Downloads : /\ file[t] # 0 <=> pc[t] = "open"
                       /\ pc[t] = "open" => done[t] < Len(missing[t])
Apart ==
  /\ \A m, n \in Models : target[m] # 0 =>
       target[m] # temp[n] /\ (target[m] = target[n] => m = n)
  /\ \A m, n \in Models : temp[m] # 0 /\ temp[m] = temp[n] => m = n
  /\ \A t \in Downloads, m \in Models : file[t] # 0 /\ file[t] \in {target[m], temp[m]} => M!Model(t) = m
  /\ \A t, u \in Downloads : file[t] # 0 /\ file[t] = file[u] => M!Model(t) = M!Model(u)
Finished ==
  \A m \in Models \ disturbed : target[m] # 0 =>
    content[target[m]] = 1..Blocks /\ \A t \in Downloads : file[t] # target[m]
Written ==
  \A t \in Downloads : file[t] # 0 /\ M!Model(t) \notin disturbed =>
    /\ temp[M!Model(t)] \in {0, file[t]} /\ content[file[t]] = 1..(pos[t] - 1)
    /\ pos[t] \in 1..(Blocks + 1)
    /\ \A u \in Downloads : file[u] # 0 /\ M!Model(u) = M!Model(t) => u = t
DownloadsInv == ModelsType /\ Opened /\ Apart /\ Finished /\ Written

\* Inodes are numbered from one.
LEMMA Numbered == M!Inodes \subseteq Nat /\ 0 \notin M!Inodes /\ M!Inodes' = M!Inodes /\ Slots' = Slots
BY DEF M!Inodes, Slots

\* The model a task has open is one of the models.
LEMMA ModelIsModel ==
  ASSUME ModelsType, NEW t \in Downloads, done[t] < Len(missing[t])
  PROVE  M!Model(t) \in Models
<1>1. missing[t] \in Seq(Models) /\ done[t] \in Nat
  BY DEF ModelsType
<1>2. QED
  BY <1>1 DEF M!Model

\* Nothing is there at the start.
LEMMA InitModels == M!Init => DownloadsInv
<1> SUFFICES ASSUME M!Init PROVE DownloadsInv
  OBVIOUS
<1>1. ModelsType
  BY DEF M!Init, ModelsType, Slots
<1>2. \A t \in Downloads : file[t] = 0 /\ pc[t] = "new"
  BY DEF M!Init
<1>3. \A m \in Models : target[m] = 0 /\ temp[m] = 0
  BY DEF M!Init
<1>4. QED
  BY <1>1, <1>2, <1>3 DEF DownloadsInv, Opened, Apart, Finished, Written

\* A step that only closes files and takes temporary names away.
LEMMA Released ==
  ASSUME DownloadsInv, ModelsType', target' = target, content' = content,
         \A m \in Models : temp'[m] \in {0, temp[m]},
         \A t \in Downloads : /\ file'[t] # 0 => /\ file'[t] = file[t] /\ pos'[t] = pos[t]
                                              /\ missing'[t] = missing[t] /\ done'[t] = done[t],
         disturbed \subseteq disturbed'
  PROVE  Apart' /\ Finished' /\ Written'
<1>1. \A t \in Downloads : file'[t] # 0 => file'[t] = file[t] /\ M!Model(t)' = M!Model(t)
  BY DEF M!Model
<1>2. Apart'
  BY <1>1 DEF DownloadsInv, Apart
<1>3. \A m \in Models : target[m] # 0 => \A t \in Downloads : file[t] # target[m] => file'[t] # target[m]
  OBVIOUS
<1>4. Finished'
  BY <1>3 DEF DownloadsInv, Finished
<1>5. ASSUME NEW t \in Downloads, file'[t] # 0, M!Model(t)' \notin disturbed'
      PROVE  /\ temp'[M!Model(t)'] \in {0, file'[t]} /\ content'[file'[t]] = 1..(pos'[t] - 1)
             /\ pos'[t] \in 1..(Blocks + 1)
             /\ \A u \in Downloads : file'[u] # 0 /\ M!Model(u)' = M!Model(t)' => u = t
  <2>1. file[t] # 0 /\ M!Model(t) \notin disturbed /\ M!Model(t) \in Models
    BY <1>1, <1>5, ModelIsModel DEF DownloadsInv, Opened
  <2>2. /\ temp[M!Model(t)] \in {0, file[t]} /\ content[file[t]] = 1..(pos[t] - 1)
        /\ pos[t] \in 1..(Blocks + 1)
        /\ \A u \in Downloads : file[u] # 0 /\ M!Model(u) = M!Model(t) => u = t
    BY <2>1 DEF DownloadsInv, Written
  <2>3. QED
    BY <1>1, <1>5, <2>1, <2>2
<1>6. QED
  BY <1>2, <1>4, <1>5 DEF Written

\* A request for the models that are missing.
LEMMA KeptByApi ==
  ASSUME DownloadsInv, NEW t \in Downloads, M!download_models_api(t), Slots' = Slots, M!Inodes' = M!Inodes
  PROVE  DownloadsInv'
<1>1. PICK n \in 1..M!Cardinality(Models) : \E s \in M!Surjection(1..n, M!get_missing_models) :
        missing' = [missing EXCEPT ![t] = s]
  BY Zenon DEF M!download_models_api
<1>2. PICK s \in Seq(Models) : missing' = [missing EXCEPT ![t] = s]
  <2>1. M!get_missing_models \subseteq Models /\ n \in Nat
    BY DEF M!get_missing_models
  <2>2. PICK s : s \in [1..n -> M!get_missing_models] /\ missing' = [missing EXCEPT ![t] = s]
    BY <1>1, Zenon DEF M!Surjection
  <2>3. s \in [1..n -> Models]
    BY <2>1, <2>2
  <2>4. s \in Seq(Models)
    BY <2>1, <2>3
  <2>5. QED
    BY <2>2, <2>4
<1>3. ModelsType'
  BY <1>2 DEF M!download_models_api, M!files, DownloadsInv, ModelsType
<1>4. pc[t] = "new" /\ file[t] = 0
  BY DEF M!download_models_api, DownloadsInv, Opened
<1>5. Opened'
  BY <1>2, <1>4 DEF M!download_models_api, DownloadsInv, Opened, ModelsType
<1>6. Apart' /\ Finished' /\ Written'
  <2>1. \A u \in Downloads : file'[u] # 0 => missing'[u] = missing[u]
    BY <1>2, <1>4 DEF M!download_models_api, DownloadsInv, ModelsType
  <2>2. UNCHANGED <<target, temp, content, file, pos, done, disturbed>>
    BY DEF M!download_models_api, M!files
  <2>3. QED
    BY <1>3, <2>1, <2>2, Released
<1>7. QED
  BY <1>3, <1>5, <1>6 DEF DownloadsInv

\* A task that ends.
LEMMA KeptByEnd ==
  ASSUME DownloadsInv, NEW t \in Downloads, M!download_fails(t) \/ M!complete(t), Slots' = Slots, M!Inodes' = M!Inodes
  PROVE  DownloadsInv'
<1>1. UNCHANGED <<target, content, missing, done, pos, disturbed>>
  BY DEF M!download_fails, M!complete, M!files, M!soft_fail
<1>2. /\ temp' = temp \/ \E m : temp' = [temp EXCEPT ![m] = 0]
      /\ file' = [file EXCEPT ![t] = 0] \/ (file' = file /\ pc[t] = "next")
      /\ pc' = [pc EXCEPT ![t] = "over"]
  BY DEF M!download_fails, M!complete, M!files, M!soft_fail, M!Report, M!Close
<1>3. ModelsType'
  BY <1>1, <1>2 DEF DownloadsInv, ModelsType, Slots
<1>4. Opened'
  BY <1>1, <1>2 DEF DownloadsInv, Opened, ModelsType
<1>5. Apart' /\ Finished' /\ Written'
  <2>1. /\ \A m \in Models : temp'[m] \in {0, temp[m]}
        /\ \A u \in Downloads : file'[u] # 0 => file'[u] = file[u]
    BY <1>2 DEF DownloadsInv, ModelsType
  <2>2. QED
    BY <1>1, <1>3, <2>1, Released
<1>6. QED
  BY <1>3, <1>4, <1>5 DEF DownloadsInv

\* A restart closes every file.
LEMMA KeptByRestart ==
  ASSUME DownloadsInv, M!Restart, Slots' = Slots, M!Inodes' = M!Inodes
  PROVE  DownloadsInv'
<1>1. UNCHANGED <<target, temp, content, missing, done, pos, disturbed>>
  BY DEF M!Restart, M!files
<1>2. /\ file' = [t \in Downloads |-> 0]
      /\ pc' = [t \in Downloads |-> IF pc[t] = "new" THEN "new" ELSE "over"]
  BY DEF M!Restart
<1>3. ModelsType' /\ Opened'
  BY <1>1, <1>2 DEF DownloadsInv, ModelsType, Opened, Slots
<1>4. Apart' /\ Finished' /\ Written'
  BY <1>1, <1>2, <1>3, Released
<1>5. QED
  BY <1>3, <1>4 DEF DownloadsInv

\* A block that is read.
LEMMA KeptByRead ==
  ASSUME DownloadsInv, Blocks \in Nat,
         NEW t \in Downloads, M!read_block(t), Slots' = Slots, M!Inodes' = M!Inodes
  PROVE  DownloadsInv'
<1>1. /\ pc[t] = "open" /\ pos[t] <= Blocks /\ file[t] # 0 /\ file[t] \in M!Inodes /\ M!Model(t) \in Models
      /\ UNCHANGED <<target, temp, pc, missing, done, file, disturbed>>
  BY ModelIsModel DEF M!read_block, DownloadsInv, Opened, ModelsType, Slots
<1>2. /\ content' = [content EXCEPT ![file[t]] = content[file[t]] \cup {pos[t]}]
      /\ pos' = [pos EXCEPT ![t] = pos[t] + 1]
  BY DEF M!read_block
<1>3. ModelsType' /\ Opened' /\ (\A u \in Downloads : M!Model(u)' = M!Model(u))
  BY <1>1, <1>2 DEF DownloadsInv, ModelsType, Opened, M!Model
<1>4. Apart'
  BY <1>1, <1>3 DEF DownloadsInv, Apart
<1>5. \A f \in M!Inodes : f # file[t] => content'[f] = content[f]
  BY <1>2 DEF DownloadsInv, ModelsType
<1>6. Finished'
  <2>1. SUFFICES ASSUME NEW m \in Models \ disturbed, target[m] # 0
                 PROVE  content'[target[m]] = 1..Blocks /\ \A u \in Downloads : file[u] # target[m]
    BY <1>1 DEF Finished
  <2>2. content[target[m]] = 1..Blocks /\ \A u \in Downloads : file[u] # target[m]
    BY <2>1 DEF DownloadsInv, Finished
  <2>3. target[m] \in M!Inodes /\ target[m] # file[t]
    BY <2>1, <2>2 DEF DownloadsInv, ModelsType, Slots
  <2>4. QED
    BY <1>5, <2>2, <2>3
<1>7. Written'
  <2>1. SUFFICES ASSUME NEW u \in Downloads, file[u] # 0, M!Model(u) \notin disturbed
                 PROVE  /\ temp[M!Model(u)] \in {0, file[u]} /\ content'[file[u]] = 1..(pos'[u] - 1)
                        /\ pos'[u] \in 1..(Blocks + 1)
                        /\ \A v \in Downloads : file[v] # 0 /\ M!Model(v) = M!Model(u) => v = u
    BY <1>1, <1>3 DEF Written
  <2>2. /\ temp[M!Model(u)] \in {0, file[u]} /\ content[file[u]] = 1..(pos[u] - 1)
        /\ pos[u] \in 1..(Blocks + 1)
        /\ \A v \in Downloads : file[v] # 0 /\ M!Model(v) = M!Model(u) => v = u
    BY <2>1 DEF DownloadsInv, Written
  <2>3. CASE u = t
    <3>1. content'[file[t]] = content[file[t]] \cup {pos[t]} /\ pos'[t] = pos[t] + 1 /\ pos[t] \in Nat
      BY <1>1, <1>2 DEF DownloadsInv, ModelsType
    <3>2. (1..(pos[t] - 1)) \cup {pos[t]} = 1..(pos[t] + 1 - 1)
      BY <2>2, <2>3, <3>1
    <3>3. pos[t] + 1 \in 1..(Blocks + 1)
      BY <1>1, <3>1
    <3>4. QED
      BY <2>2, <2>3, <3>1, <3>2, <3>3
  <2>4. CASE u # t
    <3>1. file[u] # file[t]
      BY <1>1, <2>1, <2>2, <2>4 DEF DownloadsInv, Apart
    <3>2. file[u] \in M!Inodes
      BY <2>1 DEF DownloadsInv, ModelsType, Slots
    <3>3. pos'[u] = pos[u]
      BY <1>2, <2>4 DEF DownloadsInv, ModelsType
    <3>4. QED
      BY <1>5, <2>2, <3>1, <3>2, <3>3
  <2>5. QED
    BY <2>3, <2>4
<1>8. QED
  BY <1>3, <1>4, <1>6, <1>7 DEF DownloadsInv

\* A file that is emptied and written from its start.
LEMMA KeptByOpen ==
  ASSUME DownloadsInv, Blocks \in Nat, NEW t \in Downloads, M!open_temp(t), Slots' = Slots, M!Inodes' = M!Inodes
  PROVE  DownloadsInv'
<1> DEFINE m == M!Model(t)
<1>1. /\ pc[t] = "next" /\ done[t] < Len(missing[t]) /\ file[t] = 0 /\ m \in Models
      /\ UNCHANGED <<target, missing, done>>
  BY ModelIsModel DEF M!open_temp, DownloadsInv, Opened
<1>2. PICK f \in M!Inodes :
        /\ f = temp[m] \/ (temp[m] = 0 /\ f \notin M!InUse)
        /\ temp' = [temp EXCEPT ![m] = f] /\ content' = [content EXCEPT ![f] = {}]
        /\ file' = [file EXCEPT ![t] = f]
  BY <1>1 DEF M!open_temp, M!Fresh, DownloadsInv, ModelsType, Slots
<1>3. /\ disturbed' = IF M!Writers(m) # {} THEN disturbed \cup {m}
                      ELSE IF target[m] = 0 THEN disturbed \ {m} ELSE disturbed
      /\ pos' = [pos EXCEPT ![t] = 1] /\ pc' = [pc EXCEPT ![t] = "open"]
  BY DEF M!open_temp
<1>4. f # 0
  BY <1>2, Numbered
<1>5. \A u \in Downloads : M!Model(u)' = M!Model(u)
  BY <1>1 DEF M!Model
<1> HIDE DEF m
<1>6. ModelsType' /\ Opened'
  BY <1>1, <1>2, <1>3, <1>4 DEF DownloadsInv, ModelsType, Opened, Slots
<1>7. /\ \A n \in Models : target[n] # f /\ (temp[n] = f => n = m)
      /\ \A u \in Downloads : file[u] = f => M!Model(u) = m
  <2>1. CASE f = temp[m]
    BY <1>1, <1>4, <2>1 DEF DownloadsInv, Apart
  <2>2. CASE f \notin M!InUse
    BY <1>1, <2>2 DEF M!InUse
  <2>3. QED
    BY <1>2, <2>1, <2>2
<1>8. /\ \A n \in Models : temp'[n] = IF n = m THEN f ELSE temp[n]
      /\ \A u \in Downloads : file'[u] = IF u = t THEN f ELSE file[u]
      /\ \A u \in Downloads : pos'[u] = IF u = t THEN 1 ELSE pos[u]
      /\ \A g \in M!Inodes : content'[g] = IF g = f THEN {} ELSE content[g]
  BY <1>2, <1>3 DEF DownloadsInv, ModelsType
<1>9. M!Model(t) = m
  BY DEF m
<1>10. Apart'
  <2>1. \A n, o \in Models : target[n] # 0 => target[n] # temp'[o] /\ (target[n] = target[o] => n = o)
    BY <1>7, <1>8 DEF DownloadsInv, Apart
  <2>2. \A n, o \in Models : temp'[n] # 0 /\ temp'[n] = temp'[o] => n = o
    BY <1>7, <1>8 DEF DownloadsInv, Apart
  <2>3. \A u \in Downloads, n \in Models : file'[u] # 0 /\ file'[u] \in {target[n], temp'[n]} => M!Model(u) = n
    BY <1>7, <1>8, <1>9 DEF DownloadsInv, Apart
  <2>4. \A u, v \in Downloads : file'[u] # 0 /\ file'[u] = file'[v] => M!Model(u) = M!Model(v)
    BY <1>7, <1>8, <1>9 DEF DownloadsInv, Apart
  <2>5. QED
    BY <1>1, <1>5, <2>1, <2>2, <2>3, <2>4 DEF Apart
<1>11. \A n \in Models \ disturbed' : n \in disturbed => n = m /\ target[m] = 0 /\ M!Writers(m) = {}
  BY <1>3
<1>12. Finished'
  <2>1. SUFFICES ASSUME NEW n \in Models \ disturbed', target[n] # 0
                 PROVE  content'[target[n]] = 1..Blocks /\ \A u \in Downloads : file'[u] # target[n]
    BY <1>1 DEF Finished
  <2>2. n \notin disturbed
    BY <1>11, <2>1
  <2>3. content[target[n]] = 1..Blocks /\ \A u \in Downloads : file[u] # target[n]
    BY <2>1, <2>2 DEF DownloadsInv, Finished
  <2>4. target[n] \in M!Inodes
    BY <2>1 DEF DownloadsInv, ModelsType, Slots
  <2>5. QED
    BY <1>7, <1>8, <2>3, <2>4
<1>13. Written'
  <2>1. SUFFICES ASSUME NEW u \in Downloads, file'[u] # 0, M!Model(u) \notin disturbed'
                 PROVE  /\ temp'[M!Model(u)] \in {0, file'[u]} /\ content'[file'[u]] = 1..(pos'[u] - 1)
                        /\ pos'[u] \in 1..(Blocks + 1)
                        /\ \A v \in Downloads : file'[v] # 0 /\ M!Model(v) = M!Model(u) => v = u
    BY <1>5 DEF Written
  <2>2. CASE M!Model(u) = m
    <3>1. M!Writers(m) = {}
      BY <1>3, <2>1, <2>2
    <3>2. \A v \in Downloads : file[v] # 0 => M!Model(v) # m
      BY <3>1 DEF M!Writers
    <3>3. u = t /\ \A v \in Downloads : file'[v] # 0 /\ M!Model(v) = m => v = t
      BY <1>8, <2>1, <2>2, <3>2
    <3>4. temp'[m] = f /\ file'[u] = f /\ content'[f] = {} /\ pos'[u] = 1
      BY <1>1, <1>2, <1>8, <3>3
    <3>5. 1..(1 - 1) = {} /\ 1 \in 1..(Blocks + 1)
      OBVIOUS
    <3>6. QED
      BY <2>2, <3>3, <3>4, <3>5
  <2>3. CASE M!Model(u) # m
    <3>1. u # t /\ file[u] # 0 /\ M!Model(u) \in Models
      BY <1>8, <1>9, <2>1, <2>3, ModelIsModel DEF DownloadsInv, Opened
    <3>2. M!Model(u) \notin disturbed
      BY <1>11, <2>1, <2>3, <3>1
    <3>3. /\ temp[M!Model(u)] \in {0, file[u]} /\ content[file[u]] = 1..(pos[u] - 1)
          /\ pos[u] \in 1..(Blocks + 1)
          /\ \A v \in Downloads : file[v] # 0 /\ M!Model(v) = M!Model(u) => v = u
      BY <3>1, <3>2 DEF DownloadsInv, Written
    <3>4. file[u] \in M!Inodes /\ file[u] # f
      BY <1>7, <2>3, <3>1 DEF DownloadsInv, ModelsType, Slots
    <3>5. QED
      BY <1>8, <1>9, <2>3, <3>1, <3>3, <3>4
  <2>4. QED
    BY <2>2, <2>3
<1>14. QED
  BY <1>6, <1>10, <1>12, <1>13 DEF DownloadsInv

\* The end of an answer: the file gets the model's name, if it still has its own.
LEMMA KeptByRename ==
  ASSUME DownloadsInv, Blocks \in Nat, NEW t \in Downloads, M!rename(t), Slots' = Slots, M!Inodes' = M!Inodes
  PROVE  DownloadsInv'
<1> DEFINE m == M!Model(t)
<1>1. /\ pc[t] = "open" /\ file[t] # 0 /\ m \in Models
      /\ file' = [file EXCEPT ![t] = 0] /\ UNCHANGED <<content, missing, pos>>
      /\ disturbed' = IF pos[t] <= Blocks THEN disturbed \cup {m} ELSE disturbed
  BY ModelIsModel DEF M!rename, M!Close, DownloadsInv, Opened
<1>2. CASE temp[m] = 0
  <2>1. /\ UNCHANGED <<target, temp, done>> /\ pc' = [pc EXCEPT ![t] = "over"]
    BY <1>2 DEF M!rename, M!soft_fail, M!Report
  <2>2. ModelsType' /\ Opened'
    BY <1>1, <2>1 DEF DownloadsInv, ModelsType, Opened, Slots
  <2>3. \A u \in Downloads : file'[u] # 0 => file'[u] = file[u]
    BY <1>1 DEF DownloadsInv, ModelsType
  <2>4. Apart' /\ Finished' /\ Written'
    BY <1>1, <2>1, <2>2, <2>3, Released
  <2>5. QED
    BY <2>2, <2>4 DEF DownloadsInv
<1>3. CASE temp[m] # 0
  <2>1. /\ target' = [target EXCEPT ![m] = temp[m]] /\ temp' = [temp EXCEPT ![m] = 0]
        /\ done' = [done EXCEPT ![t] = done[t] + 1] /\ pc' = [pc EXCEPT ![t] = "next"]
    BY <1>3 DEF M!rename
  <2>2. \A u \in Downloads \ {t} : M!Model(u)' = M!Model(u)
    BY <1>1, <2>1 DEF M!Model, DownloadsInv, ModelsType
  <2>3. M!Model(t) = m
    OBVIOUS
  <2> HIDE DEF m
  <2>4. ModelsType' /\ Opened'
    BY <1>1, <1>3, <2>1 DEF DownloadsInv, ModelsType, Opened, Slots
  <2>5. /\ \A n \in Models : target'[n] = IF n = m THEN temp[m] ELSE target[n]
        /\ \A n \in Models : temp'[n] = IF n = m THEN 0 ELSE temp[n]
        /\ \A u \in Downloads : file'[u] = IF u = t THEN 0 ELSE file[u]
    BY <1>1, <2>1 DEF DownloadsInv, ModelsType
  <2>6. Apart'
    <3>1. \A n, o \in Models : target'[n] # 0 => target'[n] # temp'[o] /\ (target'[n] = target'[o] => n = o)
      BY <1>1, <2>5 DEF DownloadsInv, Apart
    <3>2. \A n, o \in Models : temp'[n] # 0 /\ temp'[n] = temp'[o] => n = o
      BY <2>5 DEF DownloadsInv, Apart
    <3>3. \A u \in Downloads, n \in Models : file'[u] # 0 /\ file'[u] \in {target'[n], temp'[n]} => M!Model(u) = n
      BY <2>5 DEF DownloadsInv, Apart
    <3>4. \A u, v \in Downloads : file'[u] # 0 /\ file'[u] = file'[v] => M!Model(u) = M!Model(v)
      BY <2>5 DEF DownloadsInv, Apart
    <3>5. \A u \in Downloads : file'[u] # 0 => M!Model(u)' = M!Model(u)
      BY <2>2, <2>5
    <3>6. QED
      BY <3>1, <3>2, <3>3, <3>4, <3>5 DEF Apart
  <2>7. Finished'
    <3>1. SUFFICES ASSUME NEW n \in Models \ disturbed', target'[n] # 0
                   PROVE  content[target'[n]] = 1..Blocks /\ \A u \in Downloads : file'[u] # target'[n]
      BY <1>1 DEF Finished
    <3>2. n \notin disturbed /\ (n = m => ~ pos[t] <= Blocks)
      BY <1>1, <3>1
    <3>3. CASE n = m
      <4>1. /\ temp[m] = file[t] /\ content[file[t]] = 1..(pos[t] - 1) /\ pos[t] \in 1..(Blocks + 1)
            /\ \A u \in Downloads : file[u] # 0 /\ M!Model(u) = m => u = t
        BY <1>1, <1>3, <2>3, <3>2, <3>3 DEF DownloadsInv, Written
      <4>2. pos[t] - 1 = Blocks
        BY <3>2, <3>3, <4>1
      <4>3. ASSUME NEW u \in Downloads, file[u] = temp[m] PROVE u = t
        BY <1>1, <1>3, <4>1, <4>3 DEF DownloadsInv, Apart
      <4>4. QED
        BY <1>1, <1>3, <2>5, <3>3, <4>1, <4>2, <4>3
    <3>4. CASE n # m
      BY <2>5, <3>1, <3>2, <3>4 DEF DownloadsInv, Finished
    <3>5. QED
      BY <3>3, <3>4
  <2>8. Written'
    <3>1. SUFFICES ASSUME NEW u \in Downloads, file'[u] # 0, M!Model(u)' \notin disturbed'
                   PROVE  /\ temp'[M!Model(u)'] \in {0, file'[u]} /\ content[file'[u]] = 1..(pos[u] - 1)
                          /\ pos[u] \in 1..(Blocks + 1)
                          /\ \A v \in Downloads : file'[v] # 0 /\ M!Model(v)' = M!Model(u)' => v = u
      BY <1>1 DEF Written
    <3>2. u # t /\ file[u] # 0 /\ file'[u] = file[u] /\ M!Model(u)' = M!Model(u)
      BY <2>2, <2>5, <3>1
    <3>3. M!Model(u) \notin disturbed /\ M!Model(u) \in Models
      BY <1>1, <3>1, <3>2, ModelIsModel DEF DownloadsInv, Opened
    <3>4. /\ temp[M!Model(u)] \in {0, file[u]} /\ content[file[u]] = 1..(pos[u] - 1)
          /\ pos[u] \in 1..(Blocks + 1)
          /\ \A v \in Downloads : file[v] # 0 /\ M!Model(v) = M!Model(u) => v = u
      BY <3>2, <3>3 DEF DownloadsInv, Written
    <3>5. \A v \in Downloads : file'[v] # 0 => file[v] # 0 /\ M!Model(v)' = M!Model(v)
      BY <2>2, <2>5
    <3>6. temp'[M!Model(u)] \in {0, file[u]}
      BY <2>5, <3>3, <3>4
    <3>7. QED
      BY <3>2, <3>4, <3>5, <3>6
  <2>9. QED
    BY <2>4, <2>6, <2>7, <2>8 DEF DownloadsInv
<1>4. QED
  BY <1>2, <1>3

\* Every step keeps the invariant.
LEMMA StepModels == Blocks \in Nat => (DownloadsInv /\ [M!Next]_M!vars => DownloadsInv')
<1> SUFFICES ASSUME Blocks \in Nat, DownloadsInv, [M!Next]_M!vars PROVE DownloadsInv'
  OBVIOUS
<1>1. M!Inodes' = M!Inodes /\ Slots' = Slots
  BY Numbered
<1>2. CASE UNCHANGED <<target, temp, content, pc, missing, done, file, pos, disturbed>>
  <2>1. ModelsType' /\ Opened'
    BY <1>1, <1>2 DEF DownloadsInv, ModelsType, Opened
  <2>2. Apart' /\ Finished' /\ Written'
    BY <1>2, <2>1, Released
  <2>3. QED
    BY <2>1, <2>2 DEF DownloadsInv
<1>3. ASSUME NEW t \in Downloads,
             \/ M!download_models_api(t) \/ M!open_temp(t) \/ M!read_block(t)
             \/ M!rename(t) \/ M!download_fails(t) \/ M!complete(t)
      PROVE  DownloadsInv'
  BY <1>1, <1>3, KeptByApi, KeptByOpen, KeptByRead, KeptByRename, KeptByEnd
<1>4. CASE M!Restart
  BY <1>1, <1>4, KeptByRestart
<1>5. ASSUME NEW c \in Requests,
             M!get_or_create_stt(c) \/ M!load(c) \/ M!transcribe(c) \/ M!transcribe_fails(c)
      PROVE  UNCHANGED <<target, temp, content, pc, missing, done, file, pos, disturbed>>
  BY <1>5 DEF M!get_or_create_stt, M!load, M!transcribe, M!transcribe_fails, M!files, M!tasks
<1>6. [M!Next]_M!vars =>
        \/ UNCHANGED <<target, temp, content, pc, missing, done, file, pos, disturbed>>
        \/ M!Restart
        \/ \E t \in Downloads :
             \/ M!download_models_api(t) \/ M!open_temp(t) \/ M!read_block(t)
             \/ M!rename(t) \/ M!download_fails(t) \/ M!complete(t)
        \/ \E c \in Requests :
             M!get_or_create_stt(c) \/ M!load(c) \/ M!transcribe(c) \/ M!transcribe_fails(c)
  BY DEF M!Next, M!vars, M!files, M!tasks
<1>7. QED
  BY <1>2, <1>3, <1>4, <1>5, <1>6

\* For any number of requests that overlap, of models and of blocks, and of
\* restarts: a model's name stands for a whole file, unless two tasks wrote that
\* model at once or its answer broke off (download_model).
THEOREM DownloadedIsWhole ==
  ASSUME Blocks \in Nat
  PROVE  (M!Spec => []M!WholeUnlessDisturbed) /\ (MCSpec => []WholeUnlessDisturbed)
<1>1. MCInit => (part = "models" => DownloadsInv)
  BY InitModels DEF MCInit
<1>2. (part = "models" => DownloadsInv) /\ [MCNext]_<<part, vars, speech, models, worker>>
        => (part = "models" => DownloadsInv)'
  BY RunsModels, StepModels
<1>3. DownloadsInv => M!WholeUnlessDisturbed
  BY DEF DownloadsInv, Finished, M!WholeUnlessDisturbed
<1>4. (part = "models" => DownloadsInv) => WholeUnlessDisturbed
  BY <1>3 DEF WholeUnlessDisturbed
<1>5. QED
  BY <1>1, <1>2, <1>3, <1>4, InitModels, StepModels, PTL DEF M!Spec, MCSpec

=============================================================================
