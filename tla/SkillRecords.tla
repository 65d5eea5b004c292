---------------------------- MODULE SkillRecords -----------------------------
(***************************************************************************)
(* What trackers, loggers, monitors and notifiers record                   *)
(* (kernel/skill_templates), called through SkillExecutor.execute.  A      *)
(* record is loaded, extended and saved in one step of the event loop.  A  *)
(* monitor's request is synchronous and holds the loop; a message to       *)
(* Telegram is sent in a thread of its own.  Every request pins the name   *)
(* resolution of the whole process to the addresses it has checked, and    *)
(* puts back what it found (kernel/sandbox/http_client.py).                *)
(***************************************************************************)
EXTENDS Integers, Sequences, FiniteSets, Functions

CONSTANTS
  Calls,        \* calls of skills, each made once
  Trackers, Loggers, Monitors, Notifiers,   \* the skills of each template
  Cap,          \* _MAX_HISTORY: records of a list, days of a tracker
  MaxDay,       \* bound on the days
  MaxFaults,    \* bound on reads and writes that fail
  NoCall

VARIABLES
  file,         \* file[s]: state "none", "whole", "broken" or "cut", and rows [call, day, status]
  pc,           \* pc[c]: "new", "thread", "request", "pin", "open", "back", "answered" or "raised"
  skill,        \* skill[c]: the skill called
  status,       \* status[c]: the outcome of the request or the delivery
  loop,         \* the monitor's call that holds the event loop, or NoCall
  getaddrinfo,  \* the pins on top of the real socket.getaddrinfo
  real_gai,     \* real_gai[c]: what the request of c found there
  configured,   \* TELEGRAM_BOT_TOKEN and TELEGRAM_CHAT_ID are set
  delivered,    \* the calls whose message Telegram has taken
  kept,         \* history: kept[s]: the rows answered for since the file was last damaged
  today,
  faults        \* reads and writes that have failed

Skills == Trackers \cup Loggers \cup Monitors \cup Notifiers

vars == <<file, pc, skill, status, loop, getaddrinfo, real_gai, configured, delivered,
          kept, today, faults>>
http == <<loop, getaddrinfo, real_gai, configured, delivered>>

Nothing(state) == [state |-> state, rows |-> <<>>]
Real == <<>>

Init ==
  /\ file = [s \in Skills |-> Nothing("none")]
  /\ pc = [c \in Calls |-> "new"] /\ skill = [c \in Calls |-> CHOOSE s \in Skills : TRUE]
  /\ status = [c \in Calls |-> ""] /\ loop = NoCall
  /\ getaddrinfo = Real /\ real_gai = [c \in Calls |-> Real]
  /\ configured = TRUE /\ delivered = {}
  /\ kept = [s \in Skills |-> <<>>] /\ today = 1 /\ faults = 0

-----------------------------------------------------------------------------
(* The files.                                                              *)

\* The records at some positions, in their order.
At(rows, positions) ==
  LET n == Cardinality(positions) IN
  {[i \in 1..n |-> rows[k[i]]] :
     k \in {l \in Bijection(1..n, positions) : \A i, j \in 1..n : i < j => l[i] < l[j]}}

\* Mutant: the list keeps its oldest records.
Latest_first(s, rows) ==
  {SubSeq(rows, 1, IF Len(rows) > Cap THEN Cap ELSE Len(rows))}

\* A list keeps its last records, a tracker the records of its newest days.
Latest(s, rows) ==
  IF s \notin Trackers
    THEN {SubSeq(rows, IF Len(rows) > Cap THEN Len(rows) - Cap + 1 ELSE 1, Len(rows))}
    ELSE LET days == {rows[i].day : i \in DOMAIN rows} IN
         At(rows, {i \in DOMAIN rows : Cardinality({d \in days : d > rows[i].day}) < Cap})

\* load_data: a file that does not parse, or cannot be read, counts as empty;
\* one that ends within a letter raises.
load_data(s, unread) == IF unread THEN <<>> ELSE file[s].rows

\* The record of c: the skill's file is loaded, extended, cut to size and
\* written in place.  Digits and dates, all that a tracker writes, are never
\* cut within a letter.
Record(c, s, word) ==
  LET row == [call |-> c, day |-> today, status |-> word] IN
  \/ /\ file[s].state = "cut" /\ pc' = [pc EXCEPT ![c] = "raised"]
     /\ UNCHANGED <<file, kept, faults>>
  \/ /\ file[s].state # "cut"
     /\ \E unread \in BOOLEAN : \E rows \in Latest(s, Append(load_data(s, unread), row)) :
          /\ unread => faults < MaxFaults /\ file[s].state = "whole"
          /\ faults' = faults + (IF unread THEN 1 ELSE 0)
          /\ file' = [file EXCEPT ![s] = [state |-> "whole", rows |-> rows]]
          /\ kept' = [kept EXCEPT ![s] = Append(IF unread THEN <<>> ELSE @, row)]
     /\ pc' = [pc EXCEPT ![c] = "answered"]
  \/ /\ file[s].state # "cut" /\ faults < MaxFaults /\ faults' = faults + 1
     /\ \E state \in IF s \in Trackers THEN {"broken"} ELSE {"broken", "cut"} :
          file' = [file EXCEPT ![s] = Nothing(state)]
     /\ kept' = [kept EXCEPT ![s] = <<>>] /\ pc' = [pc EXCEPT ![c] = "raised"]

-----------------------------------------------------------------------------
(* The calls.                                                              *)

\* Mutant: a message that cannot be sent counts as sent.
Unsent_reported == "sent"

\* _notify_telegram without the bot's token or the chat.
Unsent == "unconfigured"

\* LoggerTemplate._log; TrackerTemplate._log does the same with its file.
log(c, s) == s \in Trackers \cup Loggers /\ Record(c, s, "")

\* NotifierTemplate._notify: a channel of this device, or Telegram, whose
\* message leaves in a thread.
notify(c, s) ==
  /\ s \in Notifiers
  /\ \/ Record(c, s, "local")
     \/ ~configured /\ Record(c, s, Unsent)
     \/ configured /\ pc' = [pc EXCEPT ![c] = "thread"] /\ UNCHANGED <<file, kept, faults>>

\* MonitorTemplate._fetch_status, which the loop waits for.
check(c, s) ==
  /\ s \in Monitors /\ loop' = c /\ pc' = [pc EXCEPT ![c] = "request"]
  /\ UNCHANGED <<file, kept, faults>>

\* SkillExecutor.execute on the event loop.  Every call but a message to
\* Telegram and a check is over at once.
execute(c, s) ==
  /\ pc[c] = "new" /\ loop = NoCall /\ skill' = [skill EXCEPT ![c] = s]
  /\ \/ (log(c, s) \/ notify(c, s)) /\ UNCHANGED loop
     \/ check(c, s)
  /\ UNCHANGED <<status, getaddrinfo, real_gai, configured, delivered, today>>

\* A host that is not allowed, not known or not public, or, in the thread, a
\* token that is gone.
refuse(c) ==
  /\ pc[c] \in {"thread", "request"}
  /\ pc' = [pc EXCEPT ![c] = "back"] /\ status' = [status EXCEPT ![c] = "error"]
  /\ UNCHANGED <<file, skill, http, kept, today, faults>>

\* SandboxHttpClient.request finds the resolver of the moment.
request(c) ==
  /\ pc[c] = "request" \/ (pc[c] = "thread" /\ configured)
  /\ pc' = [pc EXCEPT ![c] = "pin"] /\ real_gai' = [real_gai EXCEPT ![c] = getaddrinfo]
  /\ UNCHANGED <<file, skill, status, loop, getaddrinfo, configured, delivered, kept, today, faults>>

\* The pin calls what the request found for every other host.
Pin(c) ==
  /\ pc[c] = "pin" /\ pc' = [pc EXCEPT ![c] = "open"]
  /\ getaddrinfo' = Append(real_gai[c], c)
  /\ UNCHANGED <<file, skill, status, loop, real_gai, configured, delivered, kept, today, faults>>

\* A check ends: answered; refused by the server, by a redirect or for its
\* size; or with an exception that request() does not turn into its own, such
\* as a timeout of the answer, which the monitor does not catch.
Fetched(c) ==
  /\ skill[c] \in Monitors /\ UNCHANGED delivered
  /\ \/ /\ pc' = [pc EXCEPT ![c] = "back"] /\ UNCHANGED loop
        /\ \E w \in {"ok", "down", "error"} : status' = [status EXCEPT ![c] = w]
     \/ pc' = [pc EXCEPT ![c] = "raised"] /\ loop' = NoCall /\ UNCHANGED status

\* TelegramAgent._send_message catches everything: a message whose answer is
\* lost may have arrived.
Sent(c) ==
  /\ skill[c] \in Notifiers /\ pc' = [pc EXCEPT ![c] = "back"] /\ UNCHANGED loop
  /\ \E arrived \in BOOLEAN, w \in {"sent", "error"} :
       /\ w = "sent" => arrived
       /\ status' = [status EXCEPT ![c] = w]
       /\ delivered' = IF arrived THEN delivered \cup {c} ELSE delivered

\* The request is over, in whatever way, and puts back what it found.
Unpin(c) ==
  /\ pc[c] = "open" /\ getaddrinfo' = real_gai[c]
  /\ Fetched(c) \/ Sent(c)
  /\ UNCHANGED <<file, skill, real_gai, configured, kept, today, faults>>

\* Back on the loop, the outcome is recorded and answered.
Back(c) ==
  /\ pc[c] = "back" /\ loop \in {NoCall, c} /\ Record(c, skill[c], status[c])
  /\ loop' = NoCall
  /\ UNCHANGED <<skill, status, getaddrinfo, real_gai, configured, delivered, today>>

\* The user enters or clears the keys while nothing holds the loop.
Configure ==
  /\ loop = NoCall /\ configured' = ~configured
  /\ UNCHANGED <<file, pc, skill, status, loop, getaddrinfo, real_gai, delivered, kept, today, faults>>

NewDay ==
  /\ today < MaxDay /\ today' = today + 1
  /\ UNCHANGED <<file, pc, skill, status, kept, faults, http>>

\* The kernel dies, between writes or in one of them (Record), and starts again.
Die ==
  /\ faults < MaxFaults /\ faults' = faults + 1
  /\ pc' = [c \in Calls |-> IF pc[c] \in {"new", "answered"} THEN pc[c] ELSE "raised"]
  /\ loop' = NoCall /\ getaddrinfo' = Real
  /\ UNCHANGED <<file, skill, status, real_gai, configured, delivered, kept, today>>

Next ==
  \/ Configure \/ NewDay \/ Die
  \/ \E c \in Calls :
       \/ request(c) \/ refuse(c) \/ Pin(c) \/ Unpin(c) \/ Back(c)
       \/ \E s \in Skills : execute(c, s)

Spec == Init /\ [][Next]_vars

-----------------------------------------------------------------------------
\* What history, search, summary and trend read.
Shown(s) == file[s].rows

\* The file of a skill holds what was answered for since it was last damaged:
\* the last records of a list, in the order of the answers, and every record of
\* the newest days of a tracker.
AnsweredIsKept ==
  \A s \in Skills :
    LET newest == {d \in {kept[s][i].day : i \in DOMAIN kept[s]} :
                     Cardinality({kept[s][i].day : i \in DOMAIN kept[s]} \cap (d + 1)..MaxDay) < Cap}
        n == Len(kept[s])
    IN IF s \in Trackers
         THEN {Shown(s)[i] : i \in DOMAIN Shown(s)} = {r \in {kept[s][i] : i \in 1..n} : r.day \in newest}
         ELSE /\ n > 0 => Shown(s)[Len(Shown(s))] = kept[s][n]
              /\ \A i \in 1..n : i > n - Cap =>
                   \E j \in DOMAIN Shown(s) : Shown(s)[j] = kept[s][i] /\ Len(Shown(s)) - j = n - i

\* Telegram has taken every message that is recorded as sent to it, and none
\* that is recorded as kept on the device or as not sent for want of a key.
SentIsDelivered ==
  \A s \in Skills : \A i \in DOMAIN Shown(s) :
    LET r == Shown(s)[i] IN
    /\ r.status = "sent" => r.call \in delivered
    /\ r.status \in {"local", "unconfigured"} => r.call \notin delivered

\* What the skills have on file is true and complete.
RecordsAreTrue == AnsweredIsKept /\ SentIsDelivered

\* The pin is scoped to the request (http_client.py:277): with no request open
\* the process resolves names as ever.
ResolverRestored ==
  (\A c \in Calls : pc[c] \notin {"pin", "open"}) => getaddrinfo = Real
=============================================================================
