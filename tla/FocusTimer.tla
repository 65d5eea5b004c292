----------------------------- MODULE FocusTimer ------------------------------
(***************************************************************************)
(* The Pomodoro timer: FocusTimer of kernel/focus.py under /focus/start    *)
(* and /focus/stop (routers/life.py).  A session is a task that sleeps; a  *)
(* task that is cancelled ends without a word.  focus.* has no subscriber, *)
(* so that publish() does not yield, and start and stop are one step each. *)
(***************************************************************************)
EXTENDS Integers, Sequences

CONSTANTS
  Durations,    \* durations of a session, in ticks
  MaxTime,      \* bound on the clock
  MaxSessions   \* bound on the sessions

VARIABLES
  now,
  active,       \* _active
  start_time,   \* _start_time
  duration,     \* _duration_minutes
  task,         \* _task: the start of the countdown it stands for, or 0
  countdowns,   \* the countdowns that live: records of when they began and end
  sessions      \* _sessions: what was recorded

vars == <<now, active, start_time, duration, task, countdowns, sessions>>

Init ==
  /\ now = 1 /\ active = FALSE /\ start_time = 0 /\ duration = 0
  /\ task = 0 /\ countdowns = {} /\ sessions = <<>>

start ==
  /\ ~active /\ now < MaxTime /\ Len(sessions) < MaxSessions
  /\ \E d \in Durations :
       /\ duration' = d
       /\ countdowns' = countdowns \cup {[began |-> now, ends |-> now + d]}
  /\ active' = TRUE /\ start_time' = now /\ task' = now
  /\ UNCHANGED <<now, sessions>>

Session(planned, actual, completed) ==
  [planned |-> planned, actual |-> actual, completed |-> completed, from |-> start_time, at |-> now]

\* Mutant: the countdown of a session that is stopped goes on.
stop_uncancelled ==
  /\ active /\ active' = FALSE
  /\ sessions' = Append(sessions, Session(duration, now - start_time, FALSE))
  /\ UNCHANGED <<now, start_time, duration, task, countdowns>>

\* The task is cancelled, asleep or due.
stop ==
  /\ active /\ active' = FALSE
  /\ countdowns' = {c \in countdowns : c.began # task}
  /\ sessions' = Append(sessions, Session(duration, now - start_time, FALSE))
  /\ UNCHANGED <<now, start_time, duration, task>>

\* A countdown comes to its end: it does not look whether it is the one that is
\* active.
_countdown(c) ==
  /\ c.ends <= now /\ countdowns' = countdowns \ {c}
  /\ active' = FALSE
  /\ sessions' = Append(sessions, Session(c.ends - c.began, c.ends - c.began, TRUE))
  /\ UNCHANGED <<now, start_time, duration, task>>

Tick == now < MaxTime /\ now' = now + 1 /\ UNCHANGED <<active, start_time, duration, task, countdowns, sessions>>

Next == start \/ stop \/ Tick \/ \E c \in countdowns : _countdown(c)

Spec == Init /\ [][Next]_vars

-----------------------------------------------------------------------------
\* A session that is recorded as completed began and ran its time; a timer that
\* is off has no countdown that could end a later session.
SessionsRunFull ==
  /\ active <=> countdowns # {}
  /\ \A i \in DOMAIN sessions :
       LET s == sessions[i] IN s.completed => s.at - s.from >= s.planned
=============================================================================
