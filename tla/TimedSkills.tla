----------------------------- MODULE TimedSkills -----------------------------
(***************************************************************************)
(* Skills that run by the clock: the scheduler's loop (scheduler.py), the  *)
(* handler of its triggers (main.py), the executor and the templates       *)
(* (skill_executor.py, skill_templates/), and what loads skills and gives  *)
(* them a cron job: the start-up, the builder's deployment, the installer. *)
(*                                                                         *)
(* Time is counted in ticks.  A cron job of a skill is due at the          *)
(* multiples of its period; events of the day and the hour are due in      *)
(* theirs.  The loop takes the time once per round and awaits every event  *)
(* it emits: clients may be slow to read, a notifier waits for a thread.   *)
(* What a skill knows is in its files; what has been emitted is in memory. *)
(*                                                                         *)
(* There are two clocks: register_cron reads the system's, the loop the    *)
(* one of config.schedule.timezone.  Neither is set back.                  *)
(***************************************************************************)
EXTENDS Integers, Sequences, FiniteSets, Functions

CONSTANTS
  Skills,        \* names of skills that have a schedule
  Template,      \* the template of each: "reminder", "monitor" or "notifier"
  Period,        \* ticks between the times of each skill's cron job
  Interval,      \* interval_hours of the reminders, in ticks
  Poll,          \* ticks the loop sleeps at least
  HourLen, DayLen,  \* ticks of an hour and of a day
  DayHour,       \* config.schedule: the hour of "morning" and of "evening"
  Zones,         \* timezones: ticks that the clock of each is ahead of the system's
  Frozen,        \* the packaged build, whose start-up awaits before it subscribes
  Changing,      \* bound: skills that are deployed, installed or asked for
  MaxTime,       \* bound: ticks
  MaxRuns        \* bound: starts of the kernel

TimedAssumption ==
  /\ Template \in [Skills -> {"reminder", "monitor", "notifier"}]
  /\ Period \in [Skills -> Nat \ {0}] /\ Interval \in Nat \ {0} /\ Poll \in Nat \ {0}
  /\ HourLen \in Nat \ {0} /\ DayLen \in Nat \ {0}
  /\ Zones \subseteq Int
  /\ DayHour \in [{"morning", "evening"} -> Nat]
  /\ Changing \subseteq Skills /\ Skills \cap {"none", "event"} = {} /\ Frozen \in BOOLEAN /\ MaxTime \in Nat /\ MaxRuns \in Nat \ {0}

Never == -1
NoJob == [next |-> Never, since |-> Never]
Stages == <<"morning", "evening", "hourly", "cron">>

VARIABLES
  now,      \* the system's clock
  ahead,    \* _tz: ticks that the loop's clock is ahead of it
  early,    \* history: a start found the loop's clock ahead
  kernel,   \* "down", "boot" (not subscribed yet) or "up"
  runs,     \* starts so far
  dir,      \* where a skill's directory is: agents/, the user's skills, both
  home,     \* the directory its template writes to exists
  fired,    \* history.json of a reminder: when it fired last
  snooze,   \* snooze.json: until when it is silent
  loaded,   \* SkillExecutor._skills
  jobs,     \* Scheduler._cron_jobs: next_run, and when it was registered
  last,     \* _last_morning, _last_evening and _last_hourly
  loop,     \* the loop: its stage, the time it took (asleep: the system's, since
            \* when), the jobs still to visit
  told,     \* the times a reminder fired, as its user saw them
  lost,     \* its file was damaged or removed since
  slot,     \* the due time each skill was last triggered for
  twice     \* it was triggered twice for one

files == <<dir, home, fired, snooze>>
memory == <<loaded, jobs, last>>
seen == <<told, lost, slot, twice>>
zone == <<ahead, early>>
vars == <<now, kernel, runs, zone, files, memory, loop, seen>>

Off == [pc |-> "off", t |-> 0, todo |-> <<>>, wait |-> "none"]
Forgotten == [s \in {"morning", "evening", "hourly"} |-> Never]

TypeOK ==
  /\ ahead \in Zones \cup {0} /\ early \in BOOLEAN
  /\ now \in 0..MaxTime /\ kernel \in {"down", "boot", "up"} /\ runs \in 0..MaxRuns
  /\ dir \in [Skills -> SUBSET {"agents", "user"}] /\ home \in [Skills -> BOOLEAN]
  /\ fired \in [Skills -> Nat \cup {Never}] /\ snooze \in [Skills -> Nat]
  /\ loaded \subseteq Skills
  /\ jobs \in [Skills -> [next: Nat \cup {Never}, since: Nat \cup {Never}]]
  /\ last \in [{"morning", "evening", "hourly"} -> Int]
  /\ loop.pc \in {"off", "sleep", "morning", "evening", "hourly", "cron"}
  /\ loop.wait \in {"none", "event"} \cup Skills
  /\ told \in [Skills -> Nat \cup {Never}] /\ lost \in [Skills -> BOOLEAN]
  /\ slot \in [Skills -> Nat \cup {Never}] /\ twice \in [Skills -> BOOLEAN]

Init ==
  /\ now = 0 /\ kernel = "down" /\ runs = 0 /\ ahead = 0 /\ early = FALSE
  /\ \E there \in SUBSET Changing :
       dir = [s \in Skills |-> IF s \in there \cup (Skills \ Changing) THEN {"agents"} ELSE {}]
  /\ home = [s \in Skills |-> FALSE]
  /\ fired = [s \in Skills |-> Never] /\ snooze = [s \in Skills |-> 0]
  /\ loaded = {} /\ jobs = [s \in Skills |-> NoJob] /\ last = Forgotten
  /\ loop = Off
  /\ told = [s \in Skills |-> Never] /\ lost = [s \in Skills |-> FALSE]
  /\ slot = [s \in Skills |-> Never] /\ twice = [s \in Skills |-> FALSE]

\* croniter(expr, t).get_next: the first multiple of the period after t.
get_next(s, t) == (t \div Period[s] + 1) * Period[s]

Tick ==
  /\ now < MaxTime /\ now' = now + 1
  /\ UNCHANGED <<kernel, runs, zone, files, memory, loop, seen>>

-----------------------------------------------------------------------------
(* The kernel.                                                             *)

\* Mutant: a job that is registered at a due time is due at once.
register_cron_inclusive(s) == [next |-> get_next(s, now - 1), since |-> now]

\* register_cron, by the naive time of the system.
register_cron(s) == [next |-> get_next(s, now), since |-> now]

\* _resolve_tz, when the scheduler is made; the clocks show times since the first
\* day of both.
resolve_tz ==
  /\ ahead' \in {z \in Zones : now + z >= 0}
  /\ early' = (early \/ ahead' > 0)

\* lifespan up to its first suspension: skills in agents/ are loaded and get
\* their cron jobs, the loop's task is created.
Boot ==
  LET there == {s \in Skills : "agents" \in dir[s]} IN
  /\ kernel = "down" /\ runs < MaxRuns
  /\ runs' = runs + 1 /\ resolve_tz
  /\ loaded' = there
  /\ home' = [s \in Skills |-> home[s] \/ s \in there]
  /\ jobs' = [s \in Skills |-> IF s \in there THEN register_cron(s) ELSE NoJob]
  /\ last' = Forgotten
  /\ loop' = [Off EXCEPT !.pc = "sleep", !.t = now - Poll]
  /\ kernel' = IF Frozen THEN "boot" ELSE "up"
  /\ UNCHANGED <<now, dir, fired, snooze, seen>>

\* The rest of the start-up: the triggers have a subscriber.
Subscribe ==
  /\ kernel = "boot" /\ kernel' = "up"
  /\ UNCHANGED <<now, runs, zone, files, memory, loop, seen>>

\* The process ends, by itself or not.  In the midst of write_text a file is
\* left damaged: load_data then answers with the default.
Die ==
  /\ kernel # "down" /\ kernel' = "down"
  /\ loaded' = {} /\ jobs' = [s \in Skills |-> NoJob] /\ last' = Forgotten /\ loop' = Off
  /\ UNCHANGED <<now, runs, zone, dir, home, snooze, told, slot, twice>>
  /\ \/ UNCHANGED <<fired, lost>>
     \/ \E s \in loaded : /\ Template[s] = "reminder"
                          /\ fired' = [fired EXCEPT ![s] = Never]
                          /\ lost' = [lost EXCEPT ![s] = TRUE]

-----------------------------------------------------------------------------
(* Skills come and go.                                                     *)

\* A skill is loaded: its template makes the directory it writes to.
Load(s) == loaded' = loaded \cup {s} /\ home' = [home EXCEPT ![s] = TRUE]

\* In the packaged build the templates write to the user's skill directories.
Emptied(s) ==
  /\ fired' = [fired EXCEPT ![s] = Never]
  /\ snooze' = [snooze EXCEPT ![s] = 0]
  /\ lost' = [lost EXCEPT ![s] = TRUE]

\* deploy_skill of the builder: a directory in agents/ that did not exist,
\* loaded, with a cron job in place of an older one of this name.
Deploy(s) ==
  /\ kernel = "up" /\ "agents" \notin dir[s]
  /\ dir' = [dir EXCEPT ![s] = @ \cup {"agents"}]
  /\ Load(s)
  /\ jobs' = [jobs EXCEPT ![s] = register_cron(s)]
  /\ UNCHANGED <<now, kernel, runs, zone, fired, snooze, last, loop, seen>>

\* create-agent or a package of the same name fails: the directory goes.
Remove(s) ==
  /\ kernel = "up" /\ "agents" \in dir[s]
  /\ dir' = [dir EXCEPT ![s] = @ \ {"agents"}]
  /\ UNCHANGED <<now, kernel, runs, zone, home, fired, snooze, memory, loop, seen>>

\* The installer finds a directory of this name in the user's skills.
Exists(s) == "user" \in dir[s] \/ (Frozen /\ home[s])

\* skills_install and skills_install_bundle: into the user's directory, over
\* what is there if asked to, and loaded, but without a cron job.
Install(s) ==
  /\ kernel = "up"
  /\ dir' = [dir EXCEPT ![s] = @ \cup {"user"}]
  /\ Load(s)
  /\ IF Frozen /\ Exists(s) THEN Emptied(s) ELSE UNCHANGED <<fired, snooze, lost>>
  /\ UNCHANGED <<now, kernel, runs, zone, jobs, last, loop, told, slot, twice>>

\* skills_uninstall: the directory goes, the executor keeps the skill.
Uninstall(s) ==
  /\ kernel = "up" /\ Exists(s)
  /\ dir' = [dir EXCEPT ![s] = @ \ {"user"}]
  /\ IF Frozen THEN Emptied(s) /\ home' = [home EXCEPT ![s] = FALSE]
     ELSE UNCHANGED <<home, fired, snooze, lost>>
  /\ UNCHANGED <<now, kernel, runs, zone, memory, loop, told, slot, twice>>

-----------------------------------------------------------------------------
(* A reminder.                                                             *)

\* Mutant: the last delivery is looked for only in the hour's own slot.
TooSoonInHour(s) == fired[s] # Never /\ fired[s] \div HourLen = now \div HourLen

TooSoon(s) == fired[s] # Never /\ now - fired[s] < Interval

\* ReminderTemplate._check: outside its window or snoozed, or too soon, or its
\* file cannot be written, or it fires; its result is delivered by the caller.
Check(s, window) ==
  IF ~window \/ now < snooze[s] \/ TooSoon(s) \/ ~home[s] THEN UNCHANGED <<fired, told, lost>>
  ELSE /\ fired' = [fired EXCEPT ![s] = now]
       /\ told' = [told EXCEPT ![s] = now]
       /\ lost' = [lost EXCEPT ![s] = FALSE]

\* POST /skills/{name}/{action}, or a tool call: check or snooze at any time.
Ask(s) ==
  /\ kernel = "up" /\ s \in loaded /\ Template[s] = "reminder"
  /\ \/ Check(s, TRUE) /\ UNCHANGED snooze
     \/ home[s] /\ snooze' = [snooze EXCEPT ![s] = now + 1] /\ UNCHANGED <<fired, told, lost>>
  /\ UNCHANGED <<now, kernel, runs, zone, dir, home, memory, loop, slot, twice>>

-----------------------------------------------------------------------------
(* The loop.                                                               *)

\* A round begins: the time is taken once, from the loop's own clock.
Wake ==
  /\ loop.pc = "sleep" /\ now >= loop.t + Poll
  /\ loop' = [loop EXCEPT !.pc = "morning", !.t = now + ahead]
  /\ UNCHANGED <<now, kernel, runs, zone, files, memory, seen>>

\* What the time of the round says of each event: its mark, if it is due.
Hour(t) == (t % DayLen) \div HourLen
Mark(stage) == IF stage = "hourly" THEN Hour(loop.t) ELSE loop.t \div DayLen
IsDue(stage) ==
  /\ last[stage] # Mark(stage)
  /\ stage \in {"morning", "evening"} => Hour(loop.t) = DayHour[stage]

After(stage) == CASE stage = "morning" -> "evening" [] stage = "evening" -> "hourly" [] OTHER -> "cron"

\* The jobs are listed when the events of the hour are over, in the order in
\* which they were first registered, whichever that was.
Listed ==
  LET registered == {s \in Skills : jobs[s] # NoJob}
  IN UNION {Bijection(1..n, registered) : n \in 0..Cardinality(Skills)}
ToCron(l) == \E q \in Listed :
  loop' = [l EXCEPT !.pc = "cron", !.todo = [i \in DOMAIN q |-> <<q[i], jobs[q[i]]>>]]
Onward(l) == IF After(l.pc) = "cron" THEN ToCron(l) ELSE loop' = [l EXCEPT !.pc = After(l.pc)]

\* An event of the day or the hour: marked, then emitted and awaited.
Stage ==
  /\ loop.pc \in {"morning", "evening", "hourly"} /\ loop.wait = "none"
  /\ IF IsDue(loop.pc)
     THEN last' = [last EXCEPT ![loop.pc] = Mark(loop.pc)] /\ loop' = [loop EXCEPT !.wait = "event"]
     ELSE Onward(loop) /\ UNCHANGED last
  /\ UNCHANGED <<now, kernel, runs, zone, files, loaded, jobs, seen>>

StageHeard ==
  /\ loop.wait = "event"
  /\ Onward([loop EXCEPT !.wait = "none"])
  /\ UNCHANGED <<now, kernel, runs, zone, files, memory, seen>>

RoundOver ==
  /\ loop.pc = "cron" /\ loop.todo = <<>> /\ loop.wait = "none"
  /\ loop' = [loop EXCEPT !.pc = "sleep", !.t = now]
  /\ UNCHANGED <<now, kernel, runs, zone, files, memory, seen>>

Skip ==
  /\ loop.pc = "cron" /\ loop.todo # <<>> /\ loop.wait = "none"
  /\ loop.t < Head(loop.todo)[2].next
  /\ loop' = [loop EXCEPT !.todo = Tail(@)]
  /\ UNCHANGED <<now, kernel, runs, zone, files, memory, seen>>

\* A due job: its trigger is emitted, and _on_skill_trigger, if subscribed,
\* runs the skill's action.  A reminder checks and notifies without a pause,
\* a monitor keeps the loop for its request, a notifier awaits a thread.
Trigger ==
  /\ loop.pc = "cron" /\ loop.todo # <<>> /\ loop.wait = "none"
  /\ LET s == Head(loop.todo)[1]  job == Head(loop.todo)[2] IN
     /\ loop.t >= job.next
     /\ slot' = [slot EXCEPT ![s] = job.next]
     /\ twice' = [twice EXCEPT ![s] = @ \/ job.next <= slot[s]]
     /\ loop' = [loop EXCEPT !.wait = s]
     /\ IF kernel = "up" /\ s \in loaded /\ Template[s] = "reminder"
        THEN \E window \in BOOLEAN : Check(s, window)
        ELSE UNCHANGED <<fired, told, lost>>
  /\ UNCHANGED <<now, kernel, runs, zone, dir, home, snooze, memory>>

\* The handlers are done: the next time is counted from the time of the round
\* and written to the job that fired, which may have been replaced by now.
TriggerHeard ==
  /\ loop.wait \in Skills
  /\ jobs' = [jobs EXCEPT ![loop.wait] =
                IF @ = Head(loop.todo)[2] THEN [@ EXCEPT !.next = get_next(loop.wait, loop.t)] ELSE @]
  /\ loop' = [loop EXCEPT !.todo = Tail(@), !.wait = "none"]
  /\ UNCHANGED <<now, kernel, runs, zone, files, loaded, last, seen>>

Round == Wake \/ Stage \/ StageHeard \/ RoundOver \/ Skip \/ Trigger \/ TriggerHeard

Next ==
  \/ Tick \/ Boot \/ Subscribe \/ Die \/ Round
  \/ \E s \in Changing : Deploy(s) \/ Remove(s) \/ Install(s) \/ Uninstall(s) \/ Ask(s)

Spec == Init /\ [][Next]_vars

-----------------------------------------------------------------------------
\* However late the loop is, and however often a skill is deployed again or
\* the kernel restarted, with whatever timezones, a skill is triggered once at
\* most for a due time of its cron expression, as long as no start found a
\* timezone whose clock is ahead of the system's (_loop, register_cron: "If
\* timezone config differs from system local time, jobs may misfire").
SlotOnce == ~early => \A s \in Skills : ~twice[s]

\* Two deliveries of a reminder are Interval apart, over triggers, requests of
\* the user, redeployments and restarts, unless a crash damaged its history or
\* the directory was removed with the skill (ReminderTemplate: "Minimum hours between reminders").
KeepsInterval ==
  \A s \in Skills : told'[s] # told[s] /\ told[s] # Never =>
    told'[s] - told[s] >= Interval \/ lost[s]
=============================================================================
