------------------------------ MODULE Database -------------------------------
(***************************************************************************)
(* The database of the kernel (kernel/database.py) under its writers: the  *)
(* questionnaire (POST /profile of routers/chat.py), the facts extracted   *)
(* in the background (long_term_memory.py), conversations, consents,       *)
(* configurations, preferences and widgets.  All coroutines share one      *)
(* aiosqlite connection: each execute and each commit is one statement of  *)
(* its thread, those of different callers interleave, and the transaction  *)
(* that the first of them opens ends with anybody's commit.                *)
(***************************************************************************)
EXTENDS Integers, FiniteSets, Sequences

CONSTANTS
  Callers,      \* writers, each of one call
  Kinds,        \* the calls made: "profile", "extract", "converse", "put"
  Fields,       \* the number of PROFILE_FIELDS
  Facts,        \* the number of facts an extraction finds
  MaxFaults,    \* bound on statements that fail
  MaxRuns       \* bound on starts of the kernel

VARIABLES
  live,         \* the rows as the connection sees them: [topic, by]
  disk,         \* the rows committed
  todo,         \* todo[c]: the statements left of the helper that c awaits
  ahead,        \* ahead[c]: the helpers that c has yet to await, in order
  pc,           \* pc[c]: "new", "busy", "answered" or "failed"
  inserted,     \* history: the rows inserted so far
  removed,      \* history: pairs of a row and the caller that removed it
  faults,       \* statements that have failed
  runs          \* starts of the kernel

vars == <<live, disk, todo, ahead, pc, inserted, removed, faults, runs>>

Row(t, c) == [topic |-> t, by |-> c]
Statement(op, t) == [op |-> op, topic |-> t]

Profile(i) == <<"profile", i>>
Fact(i) == <<"fact", i>>
Conversation == <<"conversation", 1>>
Key == <<"key", 1>>
commit == Statement("commit", Key)

Init ==
  /\ live = {} /\ disk = {} /\ inserted = {} /\ removed = {} /\ faults = 0 /\ runs = 1
  /\ todo = [c \in Callers |-> <<>>] /\ ahead = [c \in Callers |-> <<>>]
  /\ pc = [c \in Callers |-> "new"]

-----------------------------------------------------------------------------
(* A call awaits helpers, and each of them makes its statements.           *)

upsert_user_fact(t) == <<Statement("delete", t), Statement("insert", t), commit>>
delete_user_facts_by_topic(t) == <<Statement("delete", t), commit>>
save_user_fact(t) == <<Statement("insert", t), commit>>
save_conversation == <<Statement("insert", Conversation), commit>>

\* set_consent, save_agent_config, set_preference and save_dashboard_data are
\* one INSERT ... ON CONFLICT DO UPDATE each.
set_preference == <<Statement("put", Key), commit>>

\* A field of the body that is missing is skipped, an empty one is cleared.
post_profile(body) ==
  [i \in {j \in 1..Fields : body[j] # "missing"} |->
     IF body[i] = "value" THEN upsert_user_fact(Profile(i)) ELSE delete_user_facts_by_topic(Profile(i))]

extract_facts == [i \in 1..Facts |-> save_user_fact(Fact(i))]

Programs(kind) ==
  CASE kind = "profile" -> {post_profile(b) : b \in [1..Fields -> {"value", "", "missing"}]}
    [] kind = "extract" -> {extract_facts}
    [] kind = "converse" -> {<<save_conversation>>}
    [] OTHER -> {<<set_preference>>}

\* c awaits the first of the helpers of p, and will then await the rest.
Await(c, p) ==
  \E i \in DOMAIN p :
    /\ \A j \in DOMAIN p : i <= j
    /\ todo' = [todo EXCEPT ![c] = p[i]]
    /\ ahead' = [ahead EXCEPT ![c] = [j \in DOMAIN p \ {i} |-> p[j]]]

\* A body that is refused, or has no field, makes no statement.
Call(c) ==
  /\ pc[c] = "new" /\ pc' = [pc EXCEPT ![c] = "busy"]
  /\ \E k \in Kinds : \E p \in Programs(k) : Await(c, p)
  /\ UNCHANGED <<live, disk, inserted, removed, faults, runs>>

-----------------------------------------------------------------------------
Of(t) == {r \in live : r.topic = t}

\* The statement is made: the helper goes on, the next is awaited, or the call
\* is answered.
Executed(c) ==
  /\ IF Len(todo[c]) = 1 /\ DOMAIN ahead[c] # {}
     THEN Await(c, ahead[c])
     ELSE todo' = [todo EXCEPT ![c] = Tail(@)] /\ UNCHANGED ahead
  /\ pc' = [pc EXCEPT ![c] = IF Len(todo[c]) = 1 /\ DOMAIN ahead[c] = {} THEN "answered" ELSE @]
  /\ UNCHANGED <<faults, runs>>

Asks(c, op) == pc[c] = "busy" /\ Head(todo[c]).op = op

\* An insertion; the rows of the topic that it replaces go.
Write(c, old) ==
  LET new == Row(Head(todo[c]).topic, c) IN
  /\ live' = (live \ old) \cup {new}
  /\ inserted' = inserted \cup {new}
  /\ removed' = removed \cup (old \X {c})
  /\ UNCHANGED disk

Insert(c) == Asks(c, "insert") /\ Executed(c) /\ Write(c, {})
Put(c) == Asks(c, "put") /\ Executed(c) /\ Write(c, Of(Head(todo[c]).topic))

Delete(c) ==
  LET old == Of(Head(todo[c]).topic) IN
  /\ Asks(c, "delete") /\ Executed(c)
  /\ live' = live \ old /\ removed' = removed \cup (old \X {c})
  /\ UNCHANGED <<disk, inserted>>

\* The commit takes everything the connection has done, whoever asked for it.
Commit(c) ==
  /\ Asks(c, "commit") /\ Executed(c)
  /\ disk' = live /\ UNCHANGED <<live, inserted, removed>>

GivesUp(c) == todo' = [todo EXCEPT ![c] = <<>>] /\ ahead' = [ahead EXCEPT ![c] = <<>>]

\* Mutant: a statement that fails rolls the transaction back.
Fail_and_roll_back(c) ==
  /\ pc[c] = "busy" /\ faults < MaxFaults /\ faults' = faults + 1
  /\ pc' = [pc EXCEPT ![c] = "failed"] /\ GivesUp(c)
  /\ live' = disk /\ UNCHANGED <<disk, inserted, removed, runs>>

\* A statement raises, and the call with it; nothing rolls back, and what the
\* call did so far is committed by whoever commits next.
Fail(c) ==
  /\ pc[c] = "busy" /\ faults < MaxFaults /\ faults' = faults + 1
  /\ pc' = [pc EXCEPT ![c] = "failed"] /\ GivesUp(c)
  /\ UNCHANGED <<live, disk, inserted, removed, runs>>

\* The kernel closes the connection, or dies, and starts again: what is not
\* committed is gone, and the conversations that have come of age are pruned.
Restart ==
  /\ runs < MaxRuns /\ runs' = runs + 1
  /\ \E old \in SUBSET {r \in disk : r.topic = Conversation} :
       /\ live' = disk \ old /\ disk' = disk \ old
       /\ removed' = removed \cup {<<r, r.by>> : r \in old}
  /\ pc' = [c \in Callers |-> IF pc[c] = "busy" THEN "failed" ELSE pc[c]]
  /\ todo' = [c \in Callers |-> <<>>] /\ ahead' = [c \in Callers |-> <<>>]
  /\ UNCHANGED <<inserted, faults>>

Next ==
  \/ Restart
  \/ \E c \in Callers :
       Call(c) \/ Insert(c) \/ Delete(c) \/ Put(c) \/ Commit(c) \/ Fail(c)

Spec == Init /\ [][Next]_vars

-----------------------------------------------------------------------------
\* get_profile: rows come newest first and the dict keeps the last of a topic.
Shown(t) == {r \in disk : r.topic = t}

\* What a call answered has removed is off the disk, and what it has inserted
\* is on it unless a statement has removed it since: neither another caller's
\* commit in between, nor a failed statement, nor a restart undoes it.
AnsweredIsStored ==
  \A c \in Callers : pc[c] = "answered" =>
    /\ \A p \in removed : p[2] = c => p[1] \notin disk
    /\ \A r \in inserted : r.by = c => r \in disk \/ \E p \in removed : p[1] = r

\* Re-saving the questionnaire does not accumulate rows (database.py:252).
OneFactPerTopic == \A i \in 1..Fields : Cardinality(Shown(Profile(i))) <= 1
=============================================================================
