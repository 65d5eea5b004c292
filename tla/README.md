# A verification of the KALI assistant

KALI is a desktop voice assistant: a Python kernel (`kernel/`, FastAPI and
asyncio), a Rust shell with its own voice pipeline and updater (`src-tauri/`),
agents that run as child processes (`agents/`), a React user interface (`ui/`), a
mobile application (`mobile/`) and a marketplace on Supabase. This directory holds
TLA+ modules of the parts in which concurrency, failure and ordering decide
whether the program is correct, the TLC configurations that check them, and proofs
that TLAPS checks. Paths are relative to the repository's `src/`; `PROJECT.json`
maps every definition to the lines it models.

    tlc -config MCAgentRpc.cfg MCAgentRpc.tla      # model-check one instance
    tlapm Kernel_proofs.tla                        # check the proofs of one module

1. The system · 2. The modules · 3. The runs · 4. The proofs · 5. What the code does
that it may not mean to · 6. Plan · 7. What is not modelled

## 1. The system

### 1.1 Inventory

| part | state it keeps | operations | talks to |
|---|---|---|---|
| NativeProtocol, BaseAgent (`agent_runtime/protocols/native.py`, `agents/_base`) | one child process, its pipes, a lock, a request counter | initialize, execute, health, stop; the agent's read-answer loop and its network calls | runtime above, network proxy beside |
| AgentRuntime, ToolDispatcher, deployer (`agent_runtime/`, `builder/deployer.py`, `tool_dispatch.py`) | `_agents`, `_statuses` | load, unload, ensure_loaded, dispatch, get_status, shutdown_all, deploy_agent | the protocol, the enforcer, the event bus |
| Consent (`routers/agents.py`, `permission_enforcer.py`, `plugin_registry.py`) | manifests with their approval flag, the enforcer's references, the consent table | enable, revoke, execute, discover, restore at start-up | runtime, SQLite |
| Sandbox (`sandbox/backend.py`, `audit.py`, `network_proxy.py`, `rate_limiter.py`) | rate windows, audit rows | dispatch, handle | agents, database |
| Database (`database.py`) | one SQLite connection, tables | facts, conversations, consents, preferences | every router |
| Settings (`config_manager.py`, `routers/system.py`) | `config.yaml`, its `.bak`, the document in memory | load, save, reload | the user's editor |
| Event bus and WebSocket clients (`event_bus.py`, `main.py`, `routers/ws.py`) | subscribers, `ws_connections` | publish, connect, disconnect | everybody |
| Skills' templates and HTTP client (`skill_templates/`, `sandbox/http_client.py`) | one JSON file per skill, the process's name resolution | log, notify, check, request | Telegram, the executor |
| Scheduler, executor (`scheduler.py`, `skill_executor.py`, `main.py`) | cron jobs, what fired last, loaded skills | loop, register, trigger, start, stop | event bus, templates |
| Focus timer (`focus.py`) | session, countdown task | start, stop | event bus |
| LLM router, chat, memory (`llm_router.py`, `routers/chat.py`, `memory.py`, `long_term_memory.py`) | two breakers, the conversation | route, stream, fall back, remember | providers, tools |
| Remote voice pipeline (`voice/remote_pipeline.py`) | state, buffer, processing task | utterance, stream | router, phone |
| Python voice pipeline (`voice/pipeline.py`, `recorder.py`) | state, wake window, recorder, main-loop task, builder session | start, stop, the utterance, the chat route's auto-speak | STT, LLM, TTS, builder |
| Speech engines and models (`voice/tts_router.py`, `tts_engine_*.py`, `model_downloader.py`, `stt.py`) | active provider, model instances, files | speak, fall back, download, load | Hugging Face, ElevenLabs |
| Rust voice pipeline (`backend/voice/`) | state machine, event channel, wake timer, mute flag | start, stop, wake, results of the stages | worker bridge, speakers |
| Worker bridge and worker (`backend/voice/bridge.rs`, `workers/tts_worker.py`) | request channel, pending replies, loaded models | call; one operation per line | the pipeline's stages |
| Desktop updater (`backend/updater.rs`) | phase, manifest, files | check, download, verify, install | the release server |
| Builder (`builder/`, `catalog/package.py`, `plugin_registry.py`) | sessions, directories of agents and skills, registry | start, answer, deploy, package | executor, registry, runtime |
| Skill installer (`skills/installer.py`) | a skill's directory, its `.old`, a staging directory | install, roll back, uninstall | the file system |
| Skills' registry and sharing (`skills/registry.py`, `publisher.py`, `loader.py`) | installed skills | install, remove, export, import, publish | executor |
| Marketplace, account, feed (`catalog/`, `skills/catalog.py`) | rows on the server, session, device id, cached index | publish, install, rate, sign in, merge | Supabase, GitHub |
| Everything else | routines, budget, converter, reel generator, Rust HTTP layer, UI, mobile, scripts | | |

`PROJECT.json` lists the parts one by one with their files; those that are not
modelled give the reason there and in section 7.

### 1.2 How the parts interact

A spoken or typed request becomes an LLM call; the LLM's tool calls go through
ToolDispatcher, which makes sure that the agent's process lives, asks the
permission enforcer whether the user has consented, and sends one JSON-RPC line
to the agent. The agent may ask the kernel for the network in the middle of its
answer, on the same pipes. What happens is published on the event bus, and a
forwarder sends it to the clients. Skills that the builder made are loaded into the
executor, given a cron job, installed from bundles, exported, and published. The
kernel's event loop is one thread: coroutines interleave only at an `await` that
really suspends, but speech engines, model loads and messages run in threads. The
Rust side runs Tokio tasks on several threads that share channels, and one playback
thread that shares the mute flag. Almost every file of the user is written in place.

### 1.3 What is hard, and what makes each part correct

* **One pair of pipes, many callers, no ids compared.** A caller must get its own
  answer; stop() must end the process; nobody may wait for ever.
* **Tables written on both sides of an await.** Each process must have one owner
  and must not be lost; a list that is walked must not skip who stays in it.
* **Consent in four places** (the registry's manifest, the enforcer's, the
  database, the user's mind): the last decision must hold in all of them.
* **One database connection for all coroutines**, whose transaction anybody commits.
* **Two voice machines**, one with events that do not say what they are about, one
  with a task that may be cancelled at any await: neither may listen to itself, go
  deaf, or stay busy.
* **A worker that dies or hangs** under pipelined requests, and models that are
  cached before they are loaded: silence must have been explained.
* **File operations that fail one at a time**: the user must keep a working skill,
  a restorable configuration, and records that are true.
* **A loop that is late, held up and restarted**: nothing may fire twice for one
  time, no reminder speak before its interval.
* **Routers that outlive the settings they were made from**: what the user keeps
  off the cloud must stay off it.

`PROJECT.json` lists these as hazards at their lines, with the properties that
cover them. Hazards that no property can cover because the code promises nothing
there are told in section 5.

## 2. The modules

| module | models | run |
|---|---|---|
| `AgentRpc`, `RpcService` | NativeProtocol and BaseAgent on the pipes; what `_send` promises | `rpc` |
| `AgentRuntime` | load, unload, re-spawn, dispatch, deploy of one name | `kernel` |
| `Consent` | the decisions about one agent, in memory and on disk | `kernel`, `consent_race` |
| `Sandbox` | rate limit, permission, audit, network proxy | `kernel` |
| `EventRelay` | the forwarder's walk over the clients | `kernel` |
| `Database` | the writers' statements on the shared connection | `kernel`, `profile_race` |
| `Settings` | PATCH /config, backup, replacement, hand edits, crashes | `kernel` |
| `FocusTimer` | sessions and their countdowns | `kernel` |
| `SkillRecords` | trackers, loggers, monitors, notifiers, the pin of names | `kernel`, `resolver` |
| `VoiceMachine` | the Rust voice pipeline | `voice` |
| `BridgeWorker` | the bridge and its worker process | `voice` |
| `VoicePipeline` | the kernel's own voice pipeline and its builder dialogue | `pipeline` |
| `Updater` | the desktop's updater | `pipeline` |
| `Assistant` | chat, phone and fact extraction on the LLM router | `assistant`, `assistant_local` |
| `Speech` | two engines behind one router, called from threads | `assistant`, `speech_fallback` |
| `VoiceModels` | downloads of models and the first load of Whisper | `assistant` |
| `TtsWorker` | the worker's loop, its models, the wake word's buffer | `assistant` |
| `Builder` | sessions, directories, packages, the registry | `building` |
| `SkillInstall` | the directories of one skill | `building` |
| `Hub` | the marketplace under the server's row policies | `catalog` |
| `Account` | session and device id of one installation | `catalog` |
| `SkillShare` | installing, exporting, importing, publishing on several devices | `catalog` |
| `CatalogIndex` | the curated index, its cache, the merged feed | `catalog` |
| `TimedSkills` | the scheduler's loop, cron jobs, reminders | `catalog` |
| `MC...` | the instances that TLC checks | |
| `..._proofs` | the theorems (section 4) | |

In each module an action is one stretch of code between two suspension points, one
statement of another thread, one file operation, or one handler that runs without a
pause. Comments that begin with "Mutant" mark variants of a definition with a
plausible bug; nothing in a specification uses them. They record what each property
guards against: with the variant in place, TLC reports the property violated
(`PROJECT.json`, "mutants").

The layers meet at named points. AgentRuntime's `"executing"` await is one call of
AgentRpc; its `Crash` is AgentRpc's `AgentCrashes`. Consent's requests abstract
AgentRuntime's load to "the process starts, is registered, is initialized"; Sandbox
takes Consent's verdict as a permission that may change at any time. VoiceMachine's
jobs are calls of BridgeWorker, and what the worker does with a line is TtsWorker's.
VoicePipeline and Assistant speak through Speech. Builder, SkillShare and
TimedSkills share the directories of skills; what an installation does to one of
them, file by file, is SkillInstall's.

**AgentRpc, RpcService.** A line on a pipe is a record of its kind and its JSON-RPC
id. `Send` is `_send` up to its first suspension; `Locked` what follows inside the
lock (a caller that queued does not look at `is_running` again, as in the code).
`ReadAnswer`, `ReadProxyCall`, `ReadGarbage` and `ReadEof` are the outcomes of
`readline`, `Timeout` its 10 s, `ProxyReturns` and `ProxyRaises` the proxy's `handle`.
A `drain()` either does not suspend or waits (`DrainEnds`, `DrainRaises`), under the
lock and under no timeout.
stop() is `StopCall`, `StopTerminate`, `StopDetach`. The agent reads one line at a
time, answers, asks for the network (and takes whatever comes next for the reply),
prints, crashes, or does nothing for ever. `disturbed` is history: an exchange was
given up before its answer was read, or a stray line was printed. `RpcService` has
neither pipes nor lock nor agent: a request is begun, then answered or failed; an
answer is the request's own unless the service was disturbed, and even then answers
come in request order, none twice and none before its request.

**AgentRuntime.** `entry` and `status` are the two tables for one name; `pc` names
the await: starting, initializing, publishing (which suspends, since `main.py`
subscribes to `agent.*`), executing, health, stopping. `loadsMet` remembers whether
two first loads were in flight at once, which the code does not guard against.

**Consent.** `current` and `enforcer` are the manifests that registry and enforcer
hold, `approved` their flags, `db` the row, `dbq` the calls not yet served. `word` is
the user's last decision, `acked` the last one answered, `crossed` that a revoke came
while a direct call had asked for the consent and not yet acted on it. `captured` is
the manifest object a task has looked up: a direct call approves and registers the one
it got before it asked (`agents.py:75`), whatever the registry has since. `detached`
says that in this process a revoke found the enforcer with a replaced manifest, or a
load gave it one.

**Sandbox.** `dispatch` with its two refusals, `dispatched` with every answer or
exception, `_emit_audit` whose write may fail silently (`lost`), `handle` of the
proxy. **EventRelay.** The forwarder's index runs over the live list; whoever is
removed moves the others up under it (`shifted`). **Database.** A call is a sequence
of helpers, a helper a sequence of statements; a statement that raises ends the call
and rolls nothing back; a restart keeps what was committed. **Settings.** A document
is a number; the backup is written in place before the new file takes the name;
`raced` says that the user wrote the file during the save. **FocusTimer.** A session
is a task that sleeps; the countdown that is over ends whatever session is active.
**SkillRecords.** A record is loaded, extended and saved in one step of the loop; a
notifier sends in a thread first; a file may be unreadable, cut short by a crash, or
fail to be written; every request replaces and restores the process's
`getaddrinfo`. What a tracker keeps is the records of its newest days, which stand
for its sums by day.

**VoiceMachine.** Every row of `PipelineMachine::step` is an action (`OnStart` ...
`OnPlayed`, `OnUnexpected` for rows that ignore an event). The timer's event, once in
the channel, is not taken back. The utterance number on jobs and events is history:
the code has none, which is what `OwnResultUnlessAbandoned` is about. `abandoned`
remembers that a Stop left an utterance unfinished. **BridgeWorker.** A call is its
uuid; the writer files the reply channel before it writes, the reader drains the map
when the worker is gone, and the writer may file one more after that: a caller is lost
when its reply is read before it is filed, or its channel left where nobody looks.

**VoicePipeline.** `pc` says at which await a main-loop task is suspended; `Cancelled`
is the CancelledError of a stop() at any of them, with the `finally` clauses that run
after it and may be cancelled in turn. `was_recording` is read before the state change
is published. `heard` stands for an audio buffer long enough to be an utterance.
`overlapped`, `failed` and `micFailed` say that two requests met, that STT or the LLM
raised, that the recorder did, on starting or on stopping (`RecorderFails`); the last
two until the next stop() that ends. A playback is a thread, which no cancellation
ends: where `play` or `tail` is cancelled, the task may get into `lingers`, and its
sentence is heard until `SoundEnds`, whatever the recorder does meanwhile.
**Updater.** A file is the blocks it has and whether they are the manifest's; a
download asks for a file, waits for the header (`load.at = "asked"`, ended by
`header_arrives`), reads blocks, and runs beside checks and clicks; what an install
call looked up under one lock it uses under the next.

**Assistant.** Texts are abstracted to what the code tells apart: whether there is
one, whether it came with tool calls, how much was spoken. A chat request makes a
router of its own; the phone's pipeline and the fact extraction keep that of the
start-up. **Speech.** What a request still has to do is a sequence of steps, each what
one thread does between two places where another may run. **VoiceModels.** A file is
an inode, which its names may leave while it is written. **TtsWorker.** One line, one
answer; a model that failed to load stays cached.

**Builder.** A directory is what its files say and who wrote them; every route runs
without a pause except where an agent is started. `dir` are those of `agents/`, `user`
those of the user's own skills, which `skills_install` registers and loads under the
same names (`outside` and `loaded` say whose directory registry and executor have) and
`skills_uninstall` removes without telling either; `imported` is history: a name was
given to a skill of the user's since the kernel started or the builder last wrote it.
**SkillInstall.** `_deploy_atomic`
one file operation at a time, with a copy that may stop half-way where the move
crosses file systems. **Hub.** A kernel runs one route at a time, the calls of several
interleave at the server and each may fail; the catalog's connection never has a
session. **Account.** Tokens with the sessions they belong to; every read, write and
call may fail. **SkillShare.** The registry, the bundles and the executor of several
devices. **CatalogIndex.** An index is a sequence of names; the merge is a recursive
function over the cards. **TimedSkills.** Time is counted in ticks; the loop takes the
time once per round and awaits each event it emits, during which a skill may be
deployed again, removed or asked for. There are two clocks: `register_cron` reads the
system's, the loop that of `schedule.timezone`, which is `ahead` of it by a constant
that each start reads anew; neither is set back, so summer time is left out.

## 3. The runs

Twelve runs: seven that pass and five disagreements. A run checks one composition or
several **parts apart**: the MC module extends one module and takes the others as
instances, `part` is chosen initially, and the variables of the parts that are not
chosen rest. So TLC explores the union of the parts' state graphs and not their
product; the parts share no state. Each part's property in a run is
`part = "..." => I!Property`.

| run | shows | bounds, and why they suffice |
|---|---|---|
| `rpc` | own answers until a disturbance; the network's reply reaches its call; AgentRpc implements RpcService; every call and stop() ends, but for two kinds of agent | 2 callers and stop(), 3 requests, any number of network calls, 1 stray line, all disturbances: a late answer, its victim, and a third request to be out of step with |
| `kernel` | eight parts: no process lost, revoked means denied and stays, executions audited, events heard once, answered facts stored, records true, sessions full, replaced configuration in `.bak` | 2 coroutines and 3 processes (two loads that overlap and a re-spawn); 2 tasks, 2 manifests, 1 restart; 4 requests, window of 2 ticks; 3 clients, 2 events (one list shifted under two loops); 3 writers, 2 fields, 1 failure, 2 starts; 4 documents; lengths of 1 to 3 minutes; 3 calls of 3 skills, files of 1 record, 2 days |
| `voice` | the microphone is muted during playback; results move their own utterance; a conversation ends; no caller of the bridge waits for what cannot come | 3 start/stop commands, 2 wake words, channel of 2: a result of the first utterance in the states of the second; 3 calls, channel and pipe of 1: one request in each place there is |
| `pipeline` | what is stopped is off, what is started hears, no playback into an open microphone but the rest of one cut off, no busy state without an owner, requests end; only whole files are installed, a retry succeeds if headers arrive | 1 caller, 2 starts, 2 stops, 1 chat answer, 2 builder sessions, both modes: a dialogue cut off and taken up again; the chat answer in wake-word mode, before the first stop(); failures of the recorder everywhere in continuous mode, under the chat's own calls in the other; 2 versions of 2 files of 2 blocks, 2 failures, 1 more start |
| `assistant` | local-only routers stay local, memory holds exchanges, replies are spoken, work is told; nothing is said twice; models are whole; transcripts and the worker's silences are explained | 2 chats or 2 utterances, 3 tool calls over a cap of 2, memory of 1 exchange; 2 requests of 2 sentences; 2 downloads of 2 models of 2 blocks; 6 lines: two of every kind of request that may meet |
| `building` | a built skill stands, and runs unless the user imported one of its name; the previous or the new version is whole | 2 sessions, 1 name with 2 copies, 1 task, 2 starts; the same with 1 session and skills of the user's under that name, of protocol skill, with a skill.yaml that loads or none (other imports are in the proof only); 4 installs across file systems with every fault: a crash, a retry over its remains, and another |
| `catalog` | the counter never ahead, the feed by precedence, one trigger per slot, the last account restored, imported skills run, intervals kept | 2 kernels, 2 installs; 3 sessions, 1 renewal; 2 devices; lists over three names of which two collide, 1 own; 2 skills, 3 ticks with hours of 2, 2 starts, a timezone level with the system's clock at the first, up to a tick behind or ahead at the second |

The other five are disagreements between the code and what it, its comments or its
tests say; TLC's counterexample is the shortest history.

| run | property that fails | what happens |
|---|---|---|
| `consent_race` | `RevokeIsStickyAlways` | a direct call that had read the consent grants it again after the revoke |
| `assistant_local` | `LocalOnlyStaysLocal` | after the opt-out of the cloud, extraction and phone keep the settings of the start-up |
| `speech_fallback` | `FallsBackToOther` | a request that comes between the two assignments of the first choice falls back to the engine that has just failed it |
| `profile_race` | `OneFactPerTopic` | two saves of a field both delete and then both insert |
| `resolver` | `ResolverRestored` | a request in a thread saves the pin of another as the real resolver and restores it last |

Each has a counterpart among the passing properties that says how far the promise
does hold: `RevokeIsSticky`, `LocalOnlyPerRouter`, `NothingSaidTwice`,
`AnsweredIsStored`, `RecordsAreTrue`.

**Conditions.** Where the code promises less than one would like, a history variable
names the excluded case, and the case happens in the run: `disturbed` (AgentRpc,
VoiceModels), `loadsMet`, `crossed`, `detached`, `shifted`, `raced`, `abandoned`,
`failed`, `micFailed`, `chats`, `lingers`, `broken`, `unremoved`, `taken`, `imported`,
`early`, `snags`, `lost`. One does not: `overlapped` cannot become TRUE in `pipeline`,
which has one caller; only the proofs speak of several.

**Deadlock** is checked for `rpc` and `consent_race`. The other configurations say
`CHECK_DEADLOCK FALSE` because their bounds really run out or everybody may stop:
each cfg says which.

**Symmetry** is used for tasks, callers, processes and kernels, which no module
orders, and only where a run checks no liveness.

**Fairness.** AgentRpc: the event loop runs what is ready and its timers fire (`WF`
of the kernel's and of stop()'s steps), and a drain ends once the agent has read
everything; before that it may end, since the pipe has a buffer, or not. No fairness
is assumed of the agent, which may hang at any line. `EveryCallReturns` names the two
agents against which the code has no timeout, `AsksWithoutEnd` (each `readline` in the
loop has 10 s of its own) and `NeverReads` (a drain): with either hypothesis dropped
TLC finds a caller who waits for ever, and stop() behind him. VoiceMachine: Tokio runs the
runner and the playback thread (`WF`), and every spawned task ends, since each stage
has a timeout of its own; tasks and the timer get `SF`, because a full channel may
disable them again and again and Tokio's channel serves waiting senders in order.
VoicePipeline: the loop resumes every coroutine whose await is over, and each of those
awaits is over some time: threads end, the LLM returns or raises. Nobody need speak,
start or stop. Updater: the download's task goes on, and a user whose update failed
tries again; failures are bounded by `MaxFaults`. Connecting and each read have a time
limit, waiting for the header of an answer has none (`updater.rs:208`), so that no
fairness is assumed of it: `RetrySucceeds` is stated under `HeadersArrive`, without
which TLC finds a download that stays "asked" for ever. All other properties are safety.

## 4. The proofs

Every safety invariant and every action property of the passing runs is a theorem,
for every value of the constants; so is the refinement. Eight modules hold the
theorems. A theorem that a run's property belongs to is stated twice in one
conjunction: of the part's own specification, and of the run's (`MCSpec`), whose
steps are steps of one part while the others rest; that is why a proof module
extends the MC module, and how it sees the property as the run checks it.
TLC evaluated the invariants on the runs' instances before they were proved.

### 4.1 What is proved

| module | theorem | establishes |
|---|---|---|
| `AgentRpc_proofs` | `TypeCorrect`, `LockIsExclusive`, `StopKills` | types; one exchange at a time; a returned stop() leaves no process |
| | `AnswersAreOwn`, `ProxyRepliesArrive` | `OwnAnswerUnlessDisturbed`, `ProxyReplyReachesItsCall` |
| | `ServiceIsImplemented` | AgentRpc refines RpcService, step by step |
| `Kernel_proofs` | `OneOwnerEach`, `NoProcessIsLost` | one owner per process; `NoProcessLost` |
| | `ExecutionsHaveRows` | `ExecutionsAudited` |
| | `HeardOnce` | `HeardUnlessShifted` |
| | `AnsweredStays` | `AnsweredIsStored` |
| | `ReplacedIsBackedUp` | `ReplacedIsInBak` |
| | `FullSessionsOnly` | `SessionsRunFull` |
| | `RecordsStayTrue` | `RecordsAreTrue` |
| `Consent_proofs` | `RevokedIsDenied`, `RevokeStays` | `RevokedMeansDenied`, `RevokeIsSticky` |
| `Voice_proofs` | `SoundIsNotHeard`, `ResultsAreOwn` | `EchoSafeUnlessAbandoned`, `OwnResultUnlessAbandoned` |
| | `WaitersAreServed` | `NoCallerLost` |
| `VoicePipeline_proofs` | `BusyIsOwned`, `StoppedIsOff`, `StartedIsListening`, `PlaysWithMicOff` | `BusyHasOwner`, `StoppedMeansOff`, `StartedMeansListening`, `MicOffWhilePlaying` |
| | `UpdaterTypeCorrect`, `OnlyVerifiedIsInstalled` | types; `InstalledIsVerified` |
| `Assistant_proofs` | `LocalOnlyRoutersStayLocal`, `WorkIsNotSilent`, `MemoryIsExchanges`, `RepliesAreSaid` | `LocalOnlyPerRouter`, `NoSilentWork`, `TurnsPaired`, `SaidInFull` |
| | `NothingIsSaidTwice` | `NothingSaidTwice` |
| | `DownloadedIsWhole`, `SilenceIsHeard` | `WholeUnlessDisturbed`, `NoSilentTranscript` |
| | `SilenceIsExplained` | `AnswersExplained` |
| `Builder_proofs` | `BuiltSkillsStand`, `OldOrNewIsWhole` | `BuiltSkillStands`, `PreviousOrNewIsWhole` |
| `Catalog_proofs` | `CountNotAhead` | `CountWithinInstalls` |
| | `LastIsRestored`, `DeviceIsOne` | `RestoresLast`; one device id |
| | `VoiceBuiltRuns` | `VoiceBuiltTravels` |
| | `FeedHasPrecedence` | `MergeIsPrecedence` |
| | `SlotsAreOnce`, `RemindersKeepInterval` | `SlotOnce`, `IntervalKept` |

A run fixes one caller of the pipeline and one install call of the updater; the
theorems hold for any number, and where TLC needed a bound (calls, requests, files,
clock) they hold for all bounds.

### 4.2 From which assumptions

The ASSUMEs of the modules (`CallersAssumption`, `BoundsAssumption`,
`ProcsAssumption`, `FramingAssumption`, `AssistantAssumption`, `TimedAssumption`,
`IndexAssumption` and their like) say that bounds are numbers, that null values are
none of the values, and what an enumeration of inputs is closed under; TLC evaluates
them in every run. A few theorems name a fact of the same kind as a hypothesis,
because it is about constants of an instance: `Bounds` (a file keeps at least one
record, there is at least one day), `Lengths` (a session's length is a number),
`Sizes` (numbers of versions, files, blocks), `Bound` (manifests and restarts),
`NoId`, `NoRow`, `NamesApart`, `None # S!VoiceBuilt` (None is no call, row, token,
skill), `Sentences \in Nat`, `Blocks \in Nat`. The cfgs satisfy all of them.

### 4.3 Along which argument

None of the properties is inductive. Each module begins a part with the
strengthening, then a lemma per kind of step, `Init...`, `Step...`, and the theorem.

* **`RpcInv`** = `Sane` (requests begun and queued stay within the bound) /\ `LockInv`
  (who is between write and answer holds the lock; the queue has no duplicates) /\
  `StopInv` /\ `OrderInv`: while nothing is disturbed the pipes hold at most what the
  one open exchange put there, so the first line a caller reads is his, although no id
  is compared. The refinement adds **`FlowInv`**: request numbers increase from the
  answers handed out over stdout and the agent to stdin, disturbed or not; it gives
  "in order, none twice, none before its request".
* **`RuntimeInv`**: an owner per process (`OwnerInv`), no entry before its process was
  started, and as long as no two loads met, a loader finds no entry when it is done
  (`AloneInv`) - the fact that makes the unconditional assignment after the await safe.
* **`ConsentInv`**: the user's last word is the last explicit decision in the
  database's queue, or the one answered last (`WordInv`); no implicit approval follows
  a revoke without a decision between them (`OrderInv`); who asks after a revoke sees
  it (`SeenInv`); after it neither the registry's manifest nor a later one is approved
  (`FlagInv`), nor the enforcer's (`DeniedInv`).
* **`SandboxInv`**: an open execution has no row; **`SettingsInv`**: between backup and
  replacement the two files agree; **`FocusInv`**: a timer that is on has the one
  countdown its task stands for, begun with the session.
* **`DatabaseInv`** = `CallsInv` (what is left of a call are whole helpers of topics it
  has not inserted under) /\ `RowsInv` (a row goes only with a pair in `removed`; who
  has not failed never sees its row come back).
* **`RelayInv`**: entries of the client list only move up, so a loop has passed whoever
  got its event (`Visited`), and as long as nobody shifted it, everyone present whom
  it has passed got it (`HeardInv`).
* **`RecordsInv`**: the file of a skill is complete for what was answered since it was
  last whole, of tracker days the newest (`FilesInv`, lemmas `NewestOfNewest`,
  `Extends`), and what it says of a message is so (`ArrivedInv`, `TruthInv`).
* **`MachineInv`**: while no Stop abandoned an utterance there is exactly one piece of
  work in a busy state - a stage at work, its result in the channel, or the playback -
  and none in the others (`OneWork`). **`BridgeInv`**: the reader leaves only a dead
  worker, and what the writer has in hand is filed (`HeldInv`).
* **`PipelineInv`**: a task cancelled in a playback is in that playback's finally clause
  and some stop() waits for it (`JoinInv`), so a busy state has somebody who will leave
  it (`OwnerInv`). **`QuietInv`**, while no two requests overlapped: one at most is under
  way and decides what else there is (`RequestInv`); the one live task never plays into
  a running recorder, and knows whether it runs unless that has raised (`LoopInv`); a
  task whose sentence was cut off ends in switching the recorder on again, or has failed
  to and lives on without one (`LingerInv`).
* **`UpdaterInv`**: one install call at most is past the second look, the phase is then
  "installing" and the files it has been through are whole (`ClaimInv`), since from
  ready on nobody of the desktop writes them (`LoadInv`, `LookedInv`).
* **`PrivacyInv`, `WorkInv`, `MemInv`, `SaidInv`**: a call to the cloud is of a router
  that may; a request that ran a tool is at one of the steps that tell; the memory is
  `k` whole exchanges; how much is said at every stage of an utterance.
* **`SpeechInv`**: what a request still has to do is a list of preparations that ends
  with generating, or of loads that ends with speaking; nothing has been said while
  its engine may still raise. **`DownloadsInv`**: no two models share an inode
  (`Apart`), a named one is whole and nobody writes it (`Finished`), an undisturbed
  temporary file is a prefix (`Written`). **`WhisperInv`**, **`WorkerInv`**.
* **`BuilderInv`**: a directory that an agent takes is known to be taken before its
  files are written; what a session built stands as written while it is not taken, and
  registry and executor have it while its name is not imported (`Stands`).
  **`InstallInv`**: where the old version and the new one are at
  every file operation.
* **`HubInv`**: who adds has read a counter within the installs. **`SessionInv`,
  `DeviceInv`**: as long as the files can be used, the session's is of who signed in
  last. **`ShareInv`**: a bundle of a voice-built skill has its configuration.
* **`SlotInv`**: a registered job, or one listed by the loop, is due after the time its
  skill was last triggered for, also when it was deployed again under the loop's await.
  It needs a loop whose clock is never ahead of the one that jobs are registered by;
  `ClockInv` says that it is not until a start finds it so (`early`).
  **`FiredInv`**: a reminder's file says what its user saw, unless damaged.
* **The feed.** The merge is a recursive function over sequences. That a function with
  these equations exists, and that each round keeps "the cards so far are the first of
  their keys, by source", is shown without an induction rule: the set of rounds for
  which the fact fails has no least member (`Least`, `Steps`; a finite interval of
  numbers is well-founded). The rest is `I!TypeOK`, proved inductive.

### 4.4 What is only model-checked, and why

The four liveness properties: `EveryCallReturns`, `BusyEnds`, `RequestsEnd`,
`RetrySucceeds`. They rest on fairness and ENABLED, which the prover does not treat.
The five counterexamples are TLC's by nature.

## 5. What the code does that it may not mean to

Met while modelling, beyond the five findings. The properties leave these out by
the conditions of section 3, or promise nothing of them. A line is given where one
says it all.

* **Protocol and runtime.** The id of a response is never compared. A caller that waited
  behind stop() fails at a process that is None (`native.py:117`). An agent that asks
  for the network without end, or does not read what `drain()` waits for, holds the lock
  for ever, and stop() waits for it (`native.py:134`, `136`). Two overlapping first
  loads leak a process (`runtime.py:78`, `105`); an unload forgets the status of a load
  it meets; a second dispatch unloads what the first re-spawned (`runtime.py:135`,
  `187`).
* **Bridge.** `tx.send` is outside the timeout: behind a hung worker a call waits for
  ever (`bridge.rs:153`).
* **Rust voice machine.** A Stop clears the mute flag while the playback goes on
  (`state.rs:280`, `playback.rs:39`).
* **Python pipeline.** A start() during a stop() leaves `_started` set, the recorder off
  and a task that nobody cancels; the chat route's `finally` may switch the microphone
  on after a stop(); where STT or the LLM raises, the state stays busy until the next
  stop(), as it does where the recorder raises, although `pipeline.py:629` promises that
  the guard "always returns the pipeline to IDLE"; a sentence that stop() cuts off is
  played to its end by its thread (`pipeline.py:654`), also into the microphone that the
  next start() opens. `ListenTimeout` cuts long commands off (against `pipeline.py:61`).
  The pipeline is not stopped at shutdown; /voice/start blocks the loop.
* **Database.** Another caller's commit in the middle of an upsert, followed by a crash,
  loses the field. Nothing is ever rolled back. Extracted facts append for ever.
* **Consent and sandbox.** A revoke clears the flag of the registry's manifest. When a
  rediscovery has replaced that since the enforcer got its own (any deploy or catalog
  installation does, `plugin_registry.py:140`), calls stay allowed until a restart,
  although `agents.py:109` says that the enforcer shares the object; the same when a
  load or a direct call registers the manifest it looked up before its await. LLM tool
  calls bypass the sandbox's gates. Oversized and redirected answers and read timeouts
  are not audited; a cancelled dispatch leaves no row. The rate limiter, audit sink and
  `for_agent` of SandboxHttpClient are never wired.
* **Settings.** `.env` is written in place, and `os.environ` set before that may fail. A
  second save drops hand edits from `.bak`; hand edits are overwritten by the cached
  document.
* **Events.** A removal under a forwarder's loop makes it pass a client over; a remove()
  that raises leaves other dead clients; a client that does not read stalls the
  scheduler.
* **Skills' records.** A monitor with `expected_status` of 400 or more can never be ok;
  a server that hangs raises TimeoutError and nothing is recorded (against
  `monitor.py:122`). A file cut in the middle of a letter breaks the skill for good
  (`base.py:72` promises the default); an unreadable one is overwritten by defaults.
* **Timed skills.** A job is registered by the system's naive time (`scheduler.py:109`)
  and compared with the time of `schedule.timezone` (160): where that is ahead, a job
  fires at once for a future slot, and again for the same one after a redeployment or a
  restart; the comment at 107-108 says that jobs "may misfire". An hourly reminder may
  be skipped as "too_soon" (`reminder.py:97`); the wizard gives minutes where the
  template reads `interval_hours`, `daily_goal` where it reads `goal`; "*/90" is no cron
  expression; start and end hour are never derived; a scheduled monitor never notifies
  and a scheduled notifier sends an empty message. Hour and day events repeat after a
  restart; uninstalling leaves executor and cron job until a restart; installed skills
  get no cron job. In the packaged build the installer's directory is the templates'
  data directory, so an uninstall removes the data of a skill in `agents/`.
* **Assistant.** A stream that breaks off is answered by a whole route whose text the
  phone never hears; two tasks share a router's breakers (`llm_router.py:150`).
* **Speech and models.** The two assignments of `set_provider` are not one step; a
  sentence that fails is skipped without a word. Two downloads of a model share one
  `.tmp`, and an answer that broke off is renamed as complete. The worker's `_STT` and
  `_WAKE_WORD` are cached before they are loaded; a line that is JSON but no object ends
  the worker; wake reset keeps the sample buffer.
* **Updater.** An install call looks its path up under an earlier lock than the
  manifest; only the first bad file is removed per attempt. A header has no time limit
  (`updater.rs:208`): a server that accepts and stays silent leaves the phase
  "downloading", in which every further try is refused (398), the stuck phase that the
  comment at 10-14 means to prevent; the limits it and 304-305 name are those of
  connecting and of the body.
* **Builder.** Importing a skill of a built one's name (`routers/skills.py:142`, `209`)
  puts it in that one's place in registry and executor until the next start: a
  SKILL.md-only skill hides the built one's tools (`plugin_registry.py:273`), a scan
  brings them back while the executor has the imported one; uninstalling it tells
  neither. create-agent overwrites an agent of that name, and the roll-back removes it
  (`deployer.py:155`); a refused package deletes what was installed there; a failed
  deploy_agent leaves its tools advertised, as does a skill of which a part was written;
  create-skill registers nothing until the next scan; a ValueError after the answer was
  recorded is a 500; `agents/custom` is never discovered; an agent that is loaded keeps
  its old code.
* **Installer.** After a crash that leaves `<name>.old`, the stale copy is listed
  (`plugin_registry.py`); a removal of the backup that fails half-way lets the roll-back
  put it in place of the good new version. Bundles are named to the second and overwrite
  each other.
* **Sharing.** A bundle that exports scripts is refused on import (`installer.py:368`,
  `publisher.py:227`); sharing an imported voice skill again, or the water-tracker,
  loses `skill.yaml`; exporting what is not installed gives an empty bundle.
* **Marketplace.** The catalog's client never gets the account's session, so the row
  policies deny publishing, rating and commenting; a report passes a slug for a uuid;
  the gate reads a tar where publishing packs a zip; an upload precedes gate and row.
  The counter is read, incremented and written back, and an update of no row is "ok".
  Renewed tokens are never stored; a device-id that cannot be read is overwritten.
* **Feed.** After an expired cache and a restart without network the list is empty; a
  file that could not be fetched is missing for an hour; `POST /skills/catalog/refresh`
  is shadowed by another route (`catalog.py:271`).
* **Phone (not modelled).** `websocket_client.dart`: overlapping connects leave two
  channels, and a stale onDone clears the newer one.

## 6. Plan

Done, in the order of importance: the modules of section 2, their runs, and the proof
of every safety property. Next:

1. A composition of AgentRuntime with RpcService in place of the single
   `"executing"` step, to carry "own answers" through a re-spawn.
2. An abstract conversation that listens, works, speaks and listens again, which
   VoicePipeline and VoiceMachine both implement.
3. Refinements for the parts that have an evident abstraction: SkillInstall (an atomic
   replacement, or none), Settings (a document and its predecessor), Database (a map
   of topics to facts).
4. The phone's WebSocket client.

## 7. What is not modelled, and why

* Within the modelled parts: log and stderr lines, wording, arguments of calls; the
  proxy's domain checks (what `handle` returns or raises is enumerated); the capability
  matching of destructive actions; more than one agent name (names share no state in
  the runtime's tables); malformed lines on the bridge; audio data, resampling and
  model inference; the contents of facts and texts; queries and statistics; the audio
  stream that a failing recorder.stop() leaves open beside the one opened next.
* The voice runner's full channel of 256 events, which would block its only reader:
  here a sender waits, so the runner's own send is never blocked for ever.
* Parts outside: routines, budget, previews and the converter are texts, sums and
  single files written by one request at a time; validators, classifiers and
  generators are functions of text; the user interfaces mirror the kernel's events;
  the Rust HTTP layer is plumbing in front of the kernel; the marketplace's schema is
  SQL of an external service, whose row policies Hub takes as guards; scripts are not
  part of the running system.
