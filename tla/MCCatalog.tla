------------------------------ MODULE MCCatalog ------------------------------
(* Five parts, checked apart: the marketplace with two kernels (Hub), of which *)
(* none, one or both have the service key, the account of one installation     *)
(* (Account), two devices that share skills (SkillShare), named as the kernels *)
(* are, the feed of one kernel (CatalogIndex), where a1 and a2 are names of    *)
(* one skill and s has no letters, and skills that run by the clock, a         *)
(* reminder every two ticks and a notifier every three, over two hours of two  *)
(* ticks and two starts of the kernel, where the timezone's clock is at the    *)
(* system's or, from the second on, a tick ahead of it or behind (TimedSkills).*)
EXTENDS Hub, TLC, Integers, Sequences
CONSTANTS u1, Blank, s1, s2, Holders, MaxSessions, MaxRenewals, Skills, Template, Period,
  Interval, Poll, HourLen, DayLen, DayHour, Zones, Frozen, Changing, MaxTime, MaxRuns,
  Names, SpecNames, Lists, slugify, CACHE_TTL
VARIABLES part, auth, file, live, sessions, last, device, store, ids, snags,
          agents, user, registry, plugins, executor, bundle, published, trouble,
          remote, entries, cache, ugc, local,
          now, ahead, early, clock, starts, place, home, fired, snooze, loaded, jobs, latest, loop,
          told, lost, slot, twice

A == INSTANCE Account WITH Accounts <- Holders, trouble <- snags
S == INSTANCE SkillShare WITH Devices <- Kernels
MCslugify == [n \in {"a1", "a2", "s"} |-> IF n = "s" THEN Blank ELSE "a"]
MCLists == {<<>>, <<"a1">>, <<"a2">>, <<"s">>, <<"a1", "a2">>, <<"a2", "s">>}
I == INSTANCE CatalogIndex
ASSUME IndexHolds == I!IndexAssumption

T == INSTANCE TimedSkills WITH dir <- place, kernel <- clock, runs <- starts, last <- latest
ASSUME TimedHolds == T!TimedAssumption
MCTemplate == (s1 :> "reminder") @@ (s2 :> "notifier")
MCPeriod == (s1 :> 2) @@ (s2 :> 3)
MCZones == {-1, 0, 1}
MCDayHour == [morning |-> 0, evening |-> 1]

MCWho == [k \in Kernels |-> u1]
Symmetry == Permutations(Kernels)

account == <<auth, file, live, sessions, last, device, store, ids, snags>>
share == <<agents, user, registry, plugins, executor, bundle, published, trouble>>
index == <<remote, entries, cache, ugc, local>>
timed == <<now, ahead, early, clock, starts, place, home, fired, snooze, loaded, jobs, latest, loop,
           told, lost, slot, twice>>

\* A part that is not checked rests.
A_rests == auth = 0 /\ file = 0 /\ live = 0 /\ sessions = 0 /\ last = 0 /\ device = 0 /\ store = 0
           /\ ids = 0 /\ snags = 0
S_rests == agents = 0 /\ user = 0 /\ registry = 0 /\ plugins = 0 /\ executor = 0 /\ bundle = 0
           /\ published = 0 /\ trouble = 0
I_rests == remote = 0 /\ entries = 0 /\ cache = 0 /\ ugc = 0 /\ local = 0
T_rests == now = 0 /\ ahead = 0 /\ early = 0 /\ clock = 0 /\ starts = 0 /\ place = 0 /\ home = 0
           /\ fired = 0 /\ snooze = 0 /\ loaded = 0 /\ jobs = 0 /\ latest = 0 /\ loop = 0 /\ told = 0 /\ lost = 0
           /\ slot = 0 /\ twice = 0
MCInit ==
  /\ part \in {"hub", "account", "share", "index", "skills"}
  /\ Init /\ (part # "hub" => service = {})
  /\ IF part = "account" THEN A!Init ELSE A_rests
  /\ IF part = "share" THEN S!Init ELSE S_rests
  /\ IF part = "index" THEN I!Init ELSE I_rests
  /\ IF part = "skills" THEN T!Init ELSE T_rests
MCNext ==
  \/ part = "hub" /\ Next /\ UNCHANGED <<part, account, share, index, timed>>
  \/ part = "account" /\ A!Next /\ UNCHANGED <<part, vars, share, index, timed>>
  \/ part = "share" /\ S!Next /\ UNCHANGED <<part, vars, account, index, timed>>
  \/ part = "index" /\ I!Next /\ UNCHANGED <<part, vars, account, share, timed>>
  \/ part = "skills" /\ T!Next /\ (starts' = 1 => ahead' = 0) /\ UNCHANGED <<part, vars, account, share, index>>
MCSpec == MCInit /\ [][MCNext]_<<part, vars, account, share, index, timed>>

\* A start restores the last account or nobody (identity.py).
RestoresLast == [][part = "account" => A!RestoredIsLast]_account
\* What was built by voice runs on the device that imports it (publisher.py).
VoiceBuiltTravels == [][part = "share" => \A d \in Kernels : S!Runs(d)]_share
\* One card for every skill, from the source that has precedence (merge.py).
MergeIsPrecedence == part = "index" => I!MergeIsPrecedence
\* A skill is triggered once at most for a due time of its cron, unless a start
\* found the timezone's clock ahead of the system's (scheduler.py).
SlotOnce == part = "skills" => T!SlotOnce
\* Two deliveries of a reminder are an interval apart (reminder.py).
IntervalKept == [][part = "skills" => T!KeepsInterval]_timed
=============================================================================
