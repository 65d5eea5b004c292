----------------------------- MODULE Catalog_proofs -----------------------------
(***************************************************************************)
(* Theorems about the parts of the catalog run, for every value of their   *)
(* constants: the marketplace (Hub), the account of an installation        *)
(* (Account), the sharing of skills (SkillShare), the skills that run by   *)
(* the clock (TimedSkills) and the community feed (CatalogIndex).  The     *)
(* module extends the one that the run checks, where each part but the     *)
(* first is an instance; a theorem speaks of the part's own specification  *)
(* and of the run's.                                                       *)
(***************************************************************************)
EXTENDS MCCatalog, Integers, FiniteSetTheorems, SequenceTheorems, WellFoundedInduction, TLAPS

-----------------------------------------------------------------------------
(* The marketplace.                                                        *)

Makers == {Who[k] : k \in Kernels}
Ops == [do : {"idle", "publish", "fetch", "install", "record", "add", "count", "like", "rate", "comment"},
        by : Accounts \cup Bundles \cup Makers \cup {None}, n : Nat]

Rows == [status : Statuses, creator : Makers, count : Nat]

\* None is not a row.
NoRow == None \notin Rows

\* Who adds an event has read a counter within the events before it, and who
\* writes the counter has read one that was less than they are now.
HubInv ==
  /\ skill \in {None} \cup Rows
  /\ installs \in Nat /\ op \in [Kernels -> Ops]
  /\ skill # None => skill.count <= installs
  /\ \A k \in Kernels : /\ op[k].do = "add" => op[k].n <= installs
                        /\ op[k].do = "count" => op[k].n + 1 <= installs
                        /\ op[k].do \in {"add", "count"} => skill # None

\* Nothing is published and nobody does anything.
LEMMA InitHubInv == Init => HubInv
BY DEF Init, HubInv, Ops, Idle

\* What an operation does next neither counts nor is about to.
LEMMA OtherOps ==
  ASSUME HubInv, NEW k \in Kernels, NEW o \in Ops, o.do \notin {"add", "count"},
         op' = [op EXCEPT ![k] = o], UNCHANGED <<skill, installs>>
  PROVE  HubInv'
<1>1. op' \in [Kernels -> Ops] /\ op'[k] = o /\ \A j \in Kernels \ {k} : op'[j] = op[j]
  BY DEF HubInv
<1>2. QED
  BY <1>1 DEF HubInv

\* An operation that ends.
LEMMA IdleForm ==
  ASSUME HubInv, NEW k \in Kernels, op' = [op EXCEPT ![k] = Idle]
  PROVE  /\ Idle \in Ops /\ Idle.do = "idle" /\ op[k] \in Ops
         /\ op' \in [Kernels -> Ops] /\ op'[k].do = "idle" /\ \A j \in Kernels \ {k} : op'[j] = op[j]
<1>1. Idle \in Ops /\ Idle.do = "idle"
  BY DEF Ops, Idle
<1>2. QED
  BY <1>1 DEF HubInv

\* Every step of the marketplace keeps HubInv: events are only added, and each
\* counter written was read before one of them.
LEMMA StepHubInv == ASSUME NoRow PROVE HubInv /\ [Next]_vars => HubInv'
<1> SUFFICES ASSUME HubInv, [Next]_vars PROVE HubInv'
  OBVIOUS
<1>1. ASSUME NEW k \in Kernels, Fail(k) \/ like(k) \/ set_rating(k) \/ post_comment(k) PROVE HubInv'
  <2>1. op' = [op EXCEPT ![k] = Idle] /\ UNCHANGED <<skill, installs>>
    BY <1>1 DEF Fail, like, set_rating, post_comment, End, server
  <2>2. QED
    BY <2>1, IdleForm, OtherOps
<1>2. ASSUME NEW k \in Kernels, Upload(k) \/ Lookup(k) \/ CheckLike(k) \/ AsAccount(k) PROVE HubInv'
  <2>1. /\ UNCHANGED <<skill, installs>>
        /\ \E what \in {"publish", "fetch", "like", "rate", "comment"} :
             \E by \in Accounts \cup Bundles \cup Makers \cup {None} :
               op' = [op EXCEPT ![k] = [Idle EXCEPT !.do = what, !.by = by]]
    BY <1>2 DEF Upload, Lookup, CheckLike, AsAccount, Begin, server, Makers
  <2>2. PICK what \in {"publish", "fetch", "like", "rate", "comment"} :
          \E by \in Accounts \cup Bundles \cup Makers \cup {None} :
            op' = [op EXCEPT ![k] = [Idle EXCEPT !.do = what, !.by = by]]
    BY <2>1
  <2>3. PICK by \in Accounts \cup Bundles \cup Makers \cup {None} :
          op' = [op EXCEPT ![k] = [Idle EXCEPT !.do = what, !.by = by]]
    BY <2>2
  <2> DEFINE o == [Idle EXCEPT !.do = what, !.by = by]
  <2>4. op' = [op EXCEPT ![k] = o] /\ o \in Ops /\ o.do = what
    BY <2>3 DEF Ops, Idle
  <2> HIDE DEF o
  <2>5. QED
    BY <2>1, <2>4, OtherOps
<1>3. ASSUME NEW k \in Kernels, Download(k) \/ install_skill(k) PROVE HubInv'
  <2>1. /\ UNCHANGED <<skill, installs>>
        /\ \/ op' = [op EXCEPT ![k] = Idle]
           \/ \E what \in {"install", "record"} : op' = [op EXCEPT ![k] = [op[k] EXCEPT !.do = what]]
    BY <1>3 DEF Download, install_skill, community_install, Goto, End, server
  <2>2. CASE op' = [op EXCEPT ![k] = Idle]
    BY <2>1, <2>2, IdleForm, OtherOps
  <2>3. CASE \E what \in {"install", "record"} : op' = [op EXCEPT ![k] = [op[k] EXCEPT !.do = what]]
    <3>1. PICK what \in {"install", "record"} : op' = [op EXCEPT ![k] = [op[k] EXCEPT !.do = what]]
      BY <2>3
    <3> DEFINE o == [op[k] EXCEPT !.do = what]
    <3>0. op[k] \in Ops
      BY DEF HubInv
    <3>2. op' = [op EXCEPT ![k] = o] /\ o \in Ops /\ o.do = what
      BY <3>0, <3>1 DEF Ops
    <3> HIDE DEF o
    <3>3. QED
      BY <2>1, <3>2, OtherOps
  <2>4. QED
    BY <2>1, <2>2, <2>3
<1>4. ASSUME NEW k \in Kernels, publish_skill(k) PROVE HubInv'
  <2> DEFINE row == [status |-> IF auto_approve_gate(op[k].by) THEN "approved" ELSE "pending",
                     creator |-> Who[k], count |-> 0]
  <2>1. skill' = row /\ UNCHANGED installs /\ op' = [op EXCEPT ![k] = Idle]
    BY <1>4 DEF publish_skill, End
  <2>2. row \in Rows /\ row.count = 0 /\ row # None
    BY DEF Rows, NoRow, Makers, Statuses
  <2> HIDE DEF row
  <2>3. op' \in [Kernels -> Ops] /\ op'[k].do = "idle" /\ \A j \in Kernels \ {k} : op'[j] = op[j]
    BY <2>1, IdleForm
  <2>4. skill' \in {None} \cup Rows
    BY <2>1, <2>2 DEF HubInv
  <2>5. skill' # None => skill'.count <= installs'
    BY <2>1, <2>2 DEF HubInv
  <2>6. QED
    BY <2>1, <2>2, <2>3, <2>4, <2>5 DEF HubInv
<1>5. ASSUME NEW k \in Kernels, set_skill_status(k) PROVE HubInv'
  <2>1. PICK s \in Statuses : skill' = [skill EXCEPT !.status = s]
    BY <1>5 DEF set_skill_status
  <2>2. skill # None /\ UNCHANGED <<installs, op>>
    BY <1>5 DEF set_skill_status
  <2>3. skill' \in Rows /\ skill'.count = skill.count /\ skill' # None
    BY <2>1, <2>2 DEF HubInv, Rows, NoRow
  <2>4. QED
    BY <2>2, <2>3 DEF HubInv
<1>6. ASSUME NEW k \in Kernels, ReadCount(k) PROVE HubInv'
  <2> DEFINE o == [op[k] EXCEPT !.do = "add", !.n = skill.count]
  <2>1. skill # None /\ UNCHANGED <<skill, installs>> /\ op' = [op EXCEPT ![k] = o]
    BY <1>6 DEF ReadCount, Seen, server
  <2>2. skill.count \in Nat
    BY <2>1 DEF HubInv, Rows
  <2>6. op[k] \in Ops
    BY DEF HubInv
  <2>3. o \in Ops /\ o.do = "add" /\ o.n = skill.count
    BY <2>2, <2>6 DEF Ops
  <2> HIDE DEF o
  <2>4. op' \in [Kernels -> Ops] /\ op'[k] = o /\ \A j \in Kernels \ {k} : op'[j] = op[j]
    BY <2>1, <2>3 DEF HubInv
  <2>5. QED
    BY <2>1, <2>3, <2>4 DEF HubInv
<1>7. ASSUME NEW k \in Kernels, AddInstall(k) PROVE HubInv'
  <2> DEFINE o == [op[k] EXCEPT !.do = "count"]
  <2>1. op[k].do = "add" /\ installs' = installs + 1 /\ UNCHANGED skill /\ op' = [op EXCEPT ![k] = o]
    BY <1>7 DEF AddInstall, At, Goto
  <2>0. op[k] \in Ops
    BY DEF HubInv
  <2>2. o \in Ops /\ o.do = "count" /\ o.n = op[k].n
    BY <2>0 DEF Ops
  <2> HIDE DEF o
  <2>3. op' \in [Kernels -> Ops] /\ op'[k] = o /\ \A j \in Kernels \ {k} : op'[j] = op[j]
    BY <2>1, <2>2 DEF HubInv
  <2>4. \A j \in Kernels : op[j].n \in Nat
    BY DEF HubInv, Ops
  <2>5. skill # None => skill.count \in Nat
    BY DEF HubInv, Rows
  <2>6. QED
    BY <2>1, <2>2, <2>3, <2>4, <2>5 DEF HubInv
<1>8. ASSUME NEW k \in Kernels, record_install(k) PROVE HubInv'
  <2>1. /\ op[k].do = "count" /\ UNCHANGED installs /\ op' = [op EXCEPT ![k] = Idle]
        /\ skill' = IF Privileged(k) THEN [skill EXCEPT !.count = op[k].n + 1] ELSE skill
    BY <1>8 DEF record_install, At, End
  <2>2. op[k].n \in Nat /\ op[k].n + 1 <= installs
    BY <2>1 DEF HubInv, Ops
  <2>3. op' \in [Kernels -> Ops] /\ op'[k].do = "idle" /\ \A j \in Kernels \ {k} : op'[j] = op[j]
    BY <2>1, IdleForm
  <2>4. skill \in Rows
    BY <2>1 DEF HubInv
  <2>5. skill' \in Rows /\ skill'.count <= installs'
    <3>1. CASE Privileged(k)
      BY <2>1, <2>2, <2>4, <3>1 DEF Rows
    <3>2. CASE ~Privileged(k)
      BY <2>1, <2>4, <3>2, NoRow DEF HubInv, NoRow
    <3>3. QED
      BY <3>1, <3>2
  <2>6. QED
    BY <2>1, <2>3, <2>5 DEF HubInv, NoRow
<1>9. ASSUME NEW k \in Kernels, unlike(k) \/ set_comment_status(k) PROVE HubInv'
  BY <1>9 DEF unlike, set_comment_status, HubInv
<1>10. CASE UNCHANGED vars
  BY <1>10 DEF vars, server, HubInv
<1>11. QED
  BY <1>1, <1>2, <1>3, <1>4, <1>5, <1>6, <1>7, <1>8, <1>9, <1>10 DEF Next, Step

\* Whatever the run checks, the marketplace does nothing but its own steps.
LEMMA RunsHub == MCSpec => Spec
<1>1. MCInit => Init
  BY DEF MCInit
<1>2. [MCNext]_<<part, vars, account, share, index, timed>> => [Next]_vars
  BY DEF MCNext
<1>3. QED
  BY <1>1, <1>2, PTL DEF MCSpec, Spec

\* The install counter never runs ahead of the install events, however the
\* recordings of any number of kernels interleave and whichever call fails
\* (client.py, record_install).
THEOREM CountNotAhead ==
  ASSUME NoRow
  PROVE  /\ Spec => []CountWithinInstalls
         /\ MCSpec => []CountWithinInstalls
<1>1. HubInv => CountWithinInstalls
  BY DEF HubInv, CountWithinInstalls
<1>2. Spec => []CountWithinInstalls
  BY InitHubInv, StepHubInv, <1>1, PTL DEF Spec
<1>3. QED
  BY <1>2, RunsHub, PTL

-----------------------------------------------------------------------------
(* The account.                                                            *)

\* The session's file and memory hold tokens, and as long as the files can be
\* used, the file holds one of who signed in last.
SessionInv ==
  /\ file \in A!Tokens \cup {None} /\ auth \in A!Tokens \cup {None} /\ live \subseteq A!Tokens
  /\ sessions \in 0..MaxSessions
  /\ snags \in BOOLEAN
  /\ ~snags => file = None \/ file.by = last

\* As long as its file can be used, the one device-id made is the stored one.
DeviceInv ==
  /\ ids \in Nat /\ store \in Nat
  /\ ~snags => ids = 0 \/ (ids = 1 /\ store # 0)

\* The names a proof needs: a token is not None, and the bounds are numbers.
NamesApart == None \notin A!Tokens /\ MaxSessions \in Nat /\ MaxRenewals \in Nat

\* A new sign-in and a renewal give tokens of the account.
LEMMA TokenFacts ==
  ASSUME NamesApart
  PROVE  /\ \A a \in Holders, n \in 1..MaxSessions : /\ [by |-> a, no |-> n, gen |-> 0] \in A!Tokens
                                                     /\ [by |-> a, no |-> n, gen |-> 0].by = a
         /\ \A t \in A!Tokens : t.gen < MaxRenewals => A!Renewed(t) \in A!Tokens /\ A!Renewed(t).by = t.by
BY DEF NamesApart, A!Tokens, A!Renewed

\* SessionInv holds initially: nobody has signed in.
LEMMA InitSession == ASSUME NamesApart PROVE A!Init => SessionInv
<1> SUFFICES ASSUME A!Init PROVE SessionInv
  OBVIOUS
<1>1. 0 \in 0..MaxSessions
  BY DEF NamesApart
<1>2. snags \in BOOLEAN
  BY DEF A!Init
<1>3. QED
  BY <1>1, <1>2 DEF A!Init, SessionInv

\* No step breaks SessionInv.
LEMMA StepSession == ASSUME NamesApart PROVE SessionInv /\ [A!Next]_A!vars => SessionInv'
<1> SUFFICES ASSUME SessionInv, [A!Next]_A!vars PROVE SessionInv'
  OBVIOUS
<1> USE DEF SessionInv, A!deviceId, A!session
<1>1. ASSUME NEW a \in Holders, A!verify_magic_link(a) PROVE SessionInv'
  <2> DEFINE t == [by |-> a, no |-> sessions + 1, gen |-> 0]
  <2>1. sessions + 1 \in 1..MaxSessions /\ sessions' = sessions + 1
    BY <1>1 DEF A!verify_magic_link, NamesApart
  <2>2. t \in A!Tokens /\ t.by = a
    BY <2>1, TokenFacts
  <2>3. /\ auth' = t /\ live' = live \cup {t} /\ last' = a
        /\ \/ file' = t /\ UNCHANGED snags
           \/ file' = file /\ snags' = TRUE
    BY <1>1 DEF A!verify_magic_link
  <2> HIDE DEF t
  <2>4. sessions' \in 0..MaxSessions
    BY <2>1
  <2>5. QED
    BY <2>2, <2>3, <2>4
<1>2. CASE A!Renew
  <2>1. auth \in A!Tokens /\ auth.gen < MaxRenewals
    BY <1>2 DEF A!Renew
  <2>2. A!Renewed(auth) \in A!Tokens
    BY <2>1, TokenFacts
  <2>3. QED
    BY <1>2, <2>2 DEF A!Renew
<1>3. CASE A!Restart
  <2>1. file \in live /\ file.gen < MaxRenewals => A!Renewed(file) \in A!Tokens
    BY TokenFacts
  <2>2. auth' \in A!Tokens \cup {None} /\ live' \subseteq A!Tokens
    BY <1>3, <2>1 DEF A!Restart, A!restore_session
  <2>3. QED
    BY <1>3, <2>2 DEF A!Restart
<1>4. CASE A!sign_out
  BY <1>4 DEF A!sign_out
<1>5. CASE A!get_device_id
  BY <1>5 DEF A!get_device_id
<1>6. CASE UNCHANGED A!vars
  BY <1>6 DEF A!vars
<1>7. QED
  BY <1>1, <1>2, <1>3, <1>4, <1>5, <1>6 DEF A!Next

\* A step of the run while it checks the account is a step of Account.
LEMMA RunsAccount ==
  ASSUME [MCNext]_<<part, vars, account, share, index, timed>>, part' = "account"
  PROVE  part = "account" /\ [A!Next]_A!vars
BY DEF MCNext, account, A!vars, A!session, A!deviceId

\* As long as the files can be used, a start restores the account that signed in
\* last or nobody (identity.py, restore_session after sign_out or another sign-in).
THEOREM LastIsRestored ==
  ASSUME NamesApart
  PROVE  /\ A!Spec => A!RestoresLast
         /\ MCSpec => RestoresLast
<1>1. SessionInv /\ [A!Next]_A!vars => [A!RestoredIsLast]_A!vars
  <2> SUFFICES ASSUME SessionInv, A!Restart, ~snags PROVE auth' = None \/ auth'.by = last
    BY DEF A!RestoredIsLast
  <2>1. CASE auth' = None
    BY <2>1
  <2>2. CASE file \in live /\ auth' = file
    BY <2>2 DEF SessionInv, NamesApart
  <2>3. CASE file \in live /\ file.gen < MaxRenewals /\ auth' = A!Renewed(file)
    <3>1. file \in A!Tokens /\ file # None
      BY <2>3 DEF SessionInv, NamesApart
    <3>2. file.by = last
      BY <3>1 DEF SessionInv
    <3>3. A!Renewed(file).by = file.by
      BY <2>3, <3>1, TokenFacts
    <3>4. QED
      BY <2>3, <3>2, <3>3
  <2>4. QED
    BY <2>1, <2>2, <2>3 DEF A!Restart, A!restore_session
<1>2. A!Spec => A!RestoresLast
  BY <1>1, InitSession, StepSession, PTL DEF A!Spec, A!RestoresLast
<1>3. MCSpec => RestoresLast
  <2>1. MCInit => (part = "account" => SessionInv)
    BY InitSession DEF MCInit
  <2>2. /\ part = "account" => SessionInv
        /\ [MCNext]_<<part, vars, account, share, index, timed>>
        => (part = "account" => SessionInv)'
    BY RunsAccount, StepSession
  <2>3. /\ part = "account" => SessionInv
        /\ [MCNext]_<<part, vars, account, share, index, timed>>
        => [part = "account" => A!RestoredIsLast]_account
    <3> SUFFICES ASSUME part = "account", SessionInv,
                        [MCNext]_<<part, vars, account, share, index, timed>>,
                        ~UNCHANGED account
                 PROVE  A!RestoredIsLast
      OBVIOUS
    <3>1. A!Next /\ ~UNCHANGED A!vars
      BY DEF MCNext, account, A!vars, A!session, A!deviceId
    <3>2. QED
      BY <1>1, <3>1
  <2>4. QED
    BY <2>1, <2>2, <2>3, PTL DEF MCSpec, RestoresLast
<1>4. QED
  BY <1>2, <1>3

\* An installation whose files can be used has one device-id, over any number of
\* restarts (identity.py, get_device_id).
THEOREM DeviceIsOne == A!Spec => []A!OneDevice
<1>1. A!Init => DeviceInv
  BY DEF A!Init, DeviceInv
<1>2. DeviceInv /\ [A!Next]_A!vars => DeviceInv'
  <2> SUFFICES ASSUME DeviceInv, [A!Next]_A!vars PROVE DeviceInv'
    OBVIOUS
  <2> USE DEF DeviceInv, A!deviceId, A!session
  <2>1. CASE A!get_device_id
    <3>1. CASE store # 0 /\ UNCHANGED <<store, ids, snags>>
      BY <3>1
    <3>2. CASE \E unread, unwritten \in BOOLEAN :
                 /\ store = 0 \/ unread
                 /\ ids' = ids + 1
                 /\ store' = IF unwritten THEN store ELSE ids'
                 /\ snags' = (snags \/ unread \/ unwritten)
      <4>1. PICK unread \in BOOLEAN, unwritten \in BOOLEAN :
                 /\ store = 0 \/ unread
                 /\ ids' = ids + 1
                 /\ store' = IF unwritten THEN store ELSE ids'
                 /\ snags' = (snags \/ unread \/ unwritten)
        BY <3>2
      <4>2. ids' \in Nat /\ store' \in Nat
        BY <4>1
      <4>3. ~snags' => ~snags /\ ~unread /\ ~unwritten
        BY <4>1
      <4>4. ~snags' => store = 0 /\ ids' = 1 /\ store' = 1
        BY <4>1, <4>3
      <4>5. QED
        BY <4>2, <4>4
    <3>3. QED
      BY <2>1, <3>1, <3>2 DEF A!get_device_id
  <2>2. CASE A!sign_out \/ \E a \in Holders : A!verify_magic_link(a)
    <3>1. UNCHANGED <<ids, store>> /\ (snags' = snags \/ snags' = TRUE)
      BY <2>2 DEF A!sign_out, A!verify_magic_link
    <3>2. QED
      BY <3>1
  <2>3. CASE A!Renew \/ A!Restart \/ UNCHANGED A!vars
    BY <2>3 DEF A!Renew, A!Restart, A!vars
  <2>4. QED
    BY <2>1, <2>2, <2>3 DEF A!Next
<1>3. DeviceInv => A!OneDevice
  BY DEF DeviceInv, A!OneDevice
<1>4. QED
  BY <1>1, <1>2, <1>3, PTL DEF A!Spec

-----------------------------------------------------------------------------
\* A job that is registered, or listed by the loop, is due after the time its
\* skill was last triggered for; so is one that took the place of a listed one.
JobRecords == [next : Int, since : Int]
LoopType ==
  /\ loop \in [pc : {"off", "sleep", "morning", "evening", "hourly", "cron"}, t : Int,
               todo : Seq(Skills \X JobRecords), wait : {"none", "event"} \cup Skills]
  /\ loop.pc \notin {"off", "sleep"} => loop.t \in Nat /\ loop.t <= now
  /\ loop.pc # "cron" => loop.todo = <<>> /\ loop.wait \notin Skills
  /\ loop.wait = "event" => loop.pc \in {"morning", "evening", "hourly"}
TimedType ==
  /\ now \in Nat /\ jobs \in [Skills -> JobRecords] /\ slot \in [Skills -> Int]
  /\ DOMAIN twice = Skills /\ LoopType
Ahead == \A s \in Skills : jobs[s] # T!NoJob =>
           jobs[s].next > slot[s] \/ (loop.wait = s /\ jobs[s] = loop.todo[1][2])
Waiting == loop.wait \in Skills =>
           /\ loop.todo # <<>> /\ loop.wait = loop.todo[1][1]
           /\ slot[loop.wait] = loop.todo[1][2].next /\ slot[loop.wait] <= loop.t
Visits == \A i \in 1..Len(loop.todo) :
           /\ loop.todo[i][2].next > slot[loop.todo[i][1]] \/ (i = 1 /\ loop.wait \in Skills)
           /\ jobs[loop.todo[i][1]] = loop.todo[i][2] \/ jobs[loop.todo[i][1]].next > loop.t
           /\ \A j \in 1..Len(loop.todo) : loop.todo[i][1] = loop.todo[j][1] => i = j
Once == \A s \in Skills : slot[s] <= now /\ ~twice[s]
SlotInv == TimedType /\ Ahead /\ Waiting /\ Visits /\ Once

\* The two clocks: the loop's is ahead of the system's only if a start found it so.
ClockInv == now \in Nat /\ ahead \in Int /\ now + ahead >= 0 /\ (~early => ahead <= 0)
TimedInv == ClockInv /\ (~early => SlotInv)

\* The next time of a cron job is in the future.
LEMMA NextIsLater ==
  ASSUME NEW s \in Skills, NEW t \in Nat
  PROVE  T!get_next(s, t) \in Nat /\ T!get_next(s, t) > t
<1>1. Period[s] \in Nat /\ Period[s] > 0
  BY TimedHolds DEF T!TimedAssumption
<1> DEFINE p == Period[s]
<1>2. p \in Nat /\ p > 0
  BY <1>1
<1> HIDE DEF p
<1>3. t \div p \in Nat /\ t = p * (t \div p) + (t % p) /\ t % p \in 0..(p - 1)
  BY <1>2
<1>4. (t \div p + 1) * p = p * (t \div p) + p
  BY <1>2, <1>3
<1>5. (t \div p + 1) * p \in Nat /\ (t \div p + 1) * p > t
  BY <1>2, <1>3, <1>4
<1>6. QED
  BY <1>5 DEF T!get_next, p

\* What the loop waits for is a skill, an event or nothing.
LEMMA WaitNames == "none" \notin Skills /\ "event" \notin Skills
BY TimedHolds DEF T!TimedAssumption

\* A loop that is not running, or sleeps, has nothing to visit.
LEMMA Empty == <<>> \in Seq(Skills \X JobRecords) /\ Len(<<>>) = 0
OBVIOUS

\* The kernel is down at the start.
LEMMA InitSlot == T!Init => SlotInv
<1> SUFFICES ASSUME T!Init PROVE SlotInv
  OBVIOUS
<1>1. loop = [pc |-> "off", t |-> 0, todo |-> <<>>, wait |-> "none"]
  BY DEF T!Init, T!Off
<1>2. LoopType /\ loop.todo = <<>> /\ loop.wait \notin Skills
  BY <1>1, WaitNames, Empty DEF LoopType
<1>3. /\ now = 0 /\ slot = [s \in Skills |-> -1] /\ twice = [s \in Skills |-> FALSE]
      /\ jobs = [s \in Skills |-> [next |-> -1, since |-> -1]]
      /\ jobs = [s \in Skills |-> T!NoJob]
  BY DEF T!Init, T!NoJob, T!Never
<1>4. TimedType
  BY <1>2, <1>3 DEF TimedType, JobRecords
<1>5. Ahead /\ Waiting
  BY <1>2, <1>3 DEF Ahead, Waiting
<1>6. Visits
  BY <1>2, Empty DEF Visits
<1>7. Once
  <2>1. \A s \in Skills : slot[s] <= now
    BY <1>3
  <2>2. \A s \in Skills : ~twice[s]
    BY <1>3, Zenon
  <2>3. QED
    BY <2>1, <2>2 DEF Once
<1>8. QED
  BY <1>4, <1>5, <1>6, <1>7 DEF SlotInv

\* A job that has just been registered.
LEMMA Registered ==
  ASSUME NEW s \in Skills, now \in Nat
  PROVE  T!register_cron(s) \in JobRecords /\ T!register_cron(s).next > now
BY NextIsLater DEF T!register_cron, JobRecords

\* Time passes, files change: the loop and its jobs stay as they are.
LEMMA KeptByOthers ==
  ASSUME SlotInv, UNCHANGED <<jobs, slot, twice, loop>>, now' \in Nat, now <= now'
  PROVE  SlotInv'
<1>1. LoopType'
  BY DEF SlotInv, TimedType, LoopType
<1>2. Once'
  BY DEF SlotInv, TimedType, Once
<1>3. Ahead' /\ Waiting' /\ Visits' /\ TimedType'
  BY <1>1, T!NoJob' = T!NoJob DEF SlotInv, TimedType, Ahead, Waiting, Visits, T!NoJob
<1>4. QED
  BY <1>2, <1>3 DEF SlotInv

\* The kernel ends, or starts with the jobs of what it finds.
LEMMA KeptByStart ==
  ASSUME SlotInv, T!Die \/ T!Boot
  PROVE  SlotInv'
<1>1. \E t \in Int, at \in {"off", "sleep"} : loop' = [pc |-> at, t |-> t, todo |-> <<>>, wait |-> "none"]
  <2>1. CASE T!Die
    BY <2>1 DEF T!Die, T!Off
  <2>2. CASE T!Boot
    <3>1. now - Poll \in Int
      BY TimedHolds DEF T!TimedAssumption, SlotInv, TimedType
    <3>2. loop' = [pc |-> "sleep", t |-> now - Poll, todo |-> <<>>, wait |-> "none"]
      BY <2>2 DEF T!Boot, T!Off
    <3>3. QED
      BY <3>1, <3>2
  <2>3. QED
    BY <2>1, <2>2
<1>2. LoopType' /\ loop'.todo = <<>> /\ loop'.wait = "none"
  BY <1>1, WaitNames, Empty DEF LoopType
<1>3. UNCHANGED <<now, slot, twice>>
  BY DEF T!Die, T!Boot, T!files, T!seen
<1>4. /\ DOMAIN jobs' = Skills /\ jobs' = [s \in Skills |-> jobs'[s]]
      /\ \A s \in Skills : jobs'[s] \in {T!NoJob, T!register_cron(s)}
  <2>1. CASE T!Die
    BY <2>1 DEF T!Die
  <2>2. CASE T!Boot
    BY <2>2 DEF T!Boot
  <2>3. QED
    BY <2>1, <2>2
<1>5. T!NoJob \in JobRecords /\ T!NoJob' = T!NoJob
  BY DEF T!NoJob, T!Never, JobRecords
<1>6. \A s \in Skills : jobs'[s] = T!NoJob \/ (jobs'[s] \in JobRecords /\ jobs'[s].next > now)
  BY <1>4, Registered DEF SlotInv, TimedType
<1>7. TimedType'
  BY <1>2, <1>3, <1>4, <1>5, <1>6 DEF SlotInv, TimedType
<1>8. Ahead'
  <2>1. SUFFICES ASSUME NEW s \in Skills, jobs'[s] # T!NoJob PROVE jobs'[s].next > slot[s]
    BY <1>3, <1>5 DEF Ahead
  <2>2. slot[s] <= now /\ slot[s] \in Int /\ now \in Nat
    BY DEF SlotInv, TimedType, Once
  <2>3. jobs'[s].next \in Int /\ jobs'[s].next > now
    BY <1>6, <2>1 DEF JobRecords
  <2>4. QED
    BY <2>2, <2>3
<1>9. Waiting' /\ Visits'
  BY <1>2, WaitNames, Empty DEF Waiting, Visits
<1>10. Once'
  BY <1>3 DEF SlotInv, Once
<1>11. QED
  BY <1>7, <1>8, <1>9, <1>10 DEF SlotInv

\* A skill that is deployed gets a new job, due in the future.
LEMMA KeptByDeploy ==
  ASSUME SlotInv, NEW s \in Skills, T!Deploy(s)
  PROVE  SlotInv'
<1>1. /\ jobs' = [jobs EXCEPT ![s] = T!register_cron(s)] /\ UNCHANGED <<now, loop, slot, twice>>
  BY DEF T!Deploy, T!seen
<1> DEFINE job == T!register_cron(s)
<1>2. job \in JobRecords /\ job.next > now /\ job.next \in Int
  BY Registered DEF SlotInv, TimedType, JobRecords
<1>3. \A o \in Skills : jobs'[o] = IF o = s THEN job ELSE jobs[o]
  BY <1>1 DEF SlotInv, TimedType
<1>4. TimedType'
  BY <1>1, <1>2 DEF SlotInv, TimedType, LoopType
<1> HIDE DEF job
<1>5. T!NoJob' = T!NoJob
  BY DEF T!NoJob
<1>6. Ahead'
  BY <1>1, <1>2, <1>3, <1>5 DEF SlotInv, TimedType, Once, Ahead
<1>7. Waiting' /\ Once'
  BY <1>1 DEF SlotInv, Waiting, Once
<1>8. Visits'
  <2>1. SUFFICES ASSUME NEW i \in 1..Len(loop.todo)
                 PROVE  jobs'[loop.todo[i][1]] = loop.todo[i][2] \/ jobs'[loop.todo[i][1]].next > loop.t
    BY <1>1 DEF SlotInv, Visits
  <2>2. loop.todo \in Seq(Skills \X JobRecords) /\ loop.todo # <<>> /\ loop.t \in Int
    BY <2>1 DEF SlotInv, TimedType, LoopType
  <2>3. loop.todo[i][1] \in Skills
    BY <2>1, <2>2
  <2>4. loop.pc = "cron" /\ loop.t <= now
    BY <2>2 DEF SlotInv, TimedType, LoopType
  <2>5. jobs[loop.todo[i][1]] = loop.todo[i][2] \/ jobs[loop.todo[i][1]].next > loop.t
    BY <2>1 DEF SlotInv, Visits
  <2>6. now \in Nat
    BY DEF SlotInv, TimedType
  <2>7. QED
    BY <1>2, <1>3, <2>2, <2>3, <2>4, <2>5, <2>6
<1>9. QED
  BY <1>4, <1>6, <1>7, <1>8 DEF SlotInv

\* The rest of a list.
LEMMA TailFacts ==
  ASSUME NEW Elems, NEW q \in Seq(Elems), q # <<>>
  PROVE  /\ Tail(q) \in Seq(Elems) /\ Len(Tail(q)) = Len(q) - 1 /\ Len(q) \in Nat \ {0}
         /\ \A i \in 1..Len(Tail(q)) : Tail(q)[i] = q[i + 1] /\ i + 1 \in 1..Len(q) /\ i + 1 # 1
OBVIOUS

\* A round begins or ends, or an event of the day or the hour is emitted.
LEMMA KeptByIdle ==
  ASSUME SlotInv, NEW l, loop' = l, l.todo = <<>>, l.wait \notin Skills, LoopType',
         UNCHANGED <<now, jobs, slot, twice>>, loop.wait \notin Skills
  PROVE  SlotInv'
<1>1. TimedType' /\ Once'
  BY DEF SlotInv, TimedType, Once
<1>2. T!NoJob' = T!NoJob
  BY DEF T!NoJob
<1>3. Ahead'
  BY <1>2 DEF SlotInv, Ahead
<1>4. Waiting' /\ Visits'
  BY Empty DEF Waiting, Visits
<1>5. QED
  BY <1>1, <1>3, <1>4 DEF SlotInv

\* The loop lists the jobs.
LEMMA KeptByListing ==
  ASSUME SlotInv, NEW l, l = loop \/ l = [loop EXCEPT !.wait = "none"], T!ToCron(l),
         UNCHANGED <<now, jobs, slot, twice>>, loop.pc \in {"morning", "evening", "hourly"},
         l.wait = "none"
  PROVE  SlotInv'
<1>1. PICK q \in T!Listed : loop' = [l EXCEPT !.pc = "cron", !.todo = [i \in DOMAIN q |-> <<q[i], jobs[q[i]]>>]]
  BY DEF T!ToCron
<1> DEFINE todo == [i \in DOMAIN q |-> <<q[i], jobs[q[i]]>>]
<1>2. PICK n \in Nat : /\ DOMAIN q = 1..n
                       /\ \A i \in 1..n : q[i] \in Skills /\ jobs[q[i]] # T!NoJob
                       /\ \A i, j \in 1..n : q[i] = q[j] => i = j
  <2>1. PICK n \in 0..T!Cardinality(Skills) :
          q \in T!Bijection(1..n, {s \in Skills : jobs[s] # T!NoJob})
    BY DEF T!Listed
  <2>2. n \in Nat
    OBVIOUS
  <2>3. /\ q \in [1..n -> {s \in Skills : jobs[s] # T!NoJob}]
        /\ \A i, j \in 1..n : q[i] = q[j] => i = j
    BY <2>1 DEF T!Bijection, T!Injection, T!Surjection, T!IsInjective
  <2>4. QED
    BY <2>2, <2>3
<1>3. /\ todo \in Seq(Skills \X JobRecords) /\ Len(todo) = n
      /\ \A i \in 1..n : todo[i][1] = q[i] /\ todo[i][2] = jobs[q[i]]
  BY <1>2 DEF SlotInv, TimedType
<1>4. /\ loop' = [pc |-> "cron", t |-> loop.t, todo |-> todo, wait |-> "none"]
  BY <1>1 DEF SlotInv, TimedType, LoopType
<1> HIDE DEF todo
<1>5. LoopType'
  BY <1>3, <1>4, WaitNames DEF SlotInv, TimedType, LoopType
<1>6. TimedType' /\ Once'
  BY <1>5 DEF SlotInv, TimedType, Once
<1>7. loop.wait \notin Skills
  BY DEF SlotInv, TimedType, LoopType
<1>8. T!NoJob' = T!NoJob
  BY DEF T!NoJob
<1>9. Ahead'
  BY <1>7, <1>8 DEF SlotInv, Ahead
<1>10. Waiting'
  BY <1>4, WaitNames DEF Waiting
<1>11. Visits'
  <2>1. SUFFICES ASSUME NEW i \in 1..n
                 PROVE  /\ todo[i][2].next > slot[todo[i][1]] /\ jobs[todo[i][1]] = todo[i][2]
                        /\ \A j \in 1..n : todo[i][1] = todo[j][1] => i = j
    BY <1>3, <1>4 DEF Visits
  <2>2. jobs[q[i]].next > slot[q[i]]
    BY <1>2, <1>7, <2>1 DEF SlotInv, Ahead
  <2>3. QED
    BY <1>2, <1>3, <2>1, <2>2
<1>12. QED
  BY <1>6, <1>9, <1>10, <1>11 DEF SlotInv

\* A listed job that is not due is passed over.
LEMMA KeptBySkip == ASSUME SlotInv, T!Skip PROVE SlotInv'
<1>1. /\ loop.pc = "cron" /\ loop.todo # <<>> /\ loop.wait = "none"
      /\ loop' = [loop EXCEPT !.todo = Tail(loop.todo)] /\ UNCHANGED <<now, jobs, slot, twice>>
  BY DEF T!Skip, T!memory, T!seen
<1> DEFINE rest == Tail(loop.todo)
<1>2. /\ rest \in Seq(Skills \X JobRecords) /\ Len(loop.todo) \in Nat \ {0}
      /\ \A i \in 1..Len(rest) : rest[i] = loop.todo[i + 1] /\ i + 1 \in 1..Len(loop.todo) /\ i \in Nat
  BY <1>1, TailFacts DEF SlotInv, TimedType, LoopType
<1>3. loop' = [pc |-> "cron", t |-> loop.t, todo |-> rest, wait |-> "none"]
  BY <1>1 DEF SlotInv, TimedType, LoopType
<1> HIDE DEF rest
<1>4. TimedType' /\ Once'
  <2>1. loop.t \in Nat /\ loop.t <= now /\ now' = now
    BY <1>1 DEF SlotInv, TimedType, LoopType
  <2>2. LoopType'
    BY <1>2, <1>3, <2>1, WaitNames DEF LoopType, JobRecords
  <2>3. QED
    BY <1>1, <2>2 DEF SlotInv, TimedType, Once
<1>5. T!NoJob' = T!NoJob
  BY DEF T!NoJob
<1>6. Ahead' /\ Waiting'
  BY <1>1, <1>3, <1>5, WaitNames DEF SlotInv, Ahead, Waiting
<1>7. Visits'
  BY <1>1, <1>2, <1>3, WaitNames DEF SlotInv, Visits
<1>8. QED
  BY <1>4, <1>6, <1>7 DEF SlotInv

\* A due job is triggered: it is later than the last trigger of its skill.
LEMMA KeptByTrigger == ASSUME SlotInv, T!Trigger PROVE SlotInv'
<1> DEFINE s == loop.todo[1][1]
           job == loop.todo[1][2]
<1>1. /\ loop.pc = "cron" /\ loop.todo # <<>> /\ loop.wait = "none" /\ loop.t >= job.next
      /\ slot' = [slot EXCEPT ![s] = job.next]
      /\ loop' = [loop EXCEPT !.wait = s] /\ UNCHANGED <<now, jobs>>
  BY DEF T!Trigger, T!memory
<1>2. loop.todo \in Seq(Skills \X JobRecords) /\ loop.t \in Nat /\ loop.t <= now /\ now \in Nat
  BY <1>1 DEF SlotInv, TimedType, LoopType
<1>3. s \in Skills /\ job.next \in Int /\ 1 \in 1..Len(loop.todo) /\ Len(loop.todo) \in Nat
  BY <1>1, <1>2 DEF JobRecords
<1>4. job.next > slot[s] /\ (jobs[s] = job \/ jobs[s].next > loop.t)
  <2>1. /\ loop.todo[1][2].next > slot[loop.todo[1][1]] \/ (1 = 1 /\ loop.wait \in Skills)
        /\ jobs[loop.todo[1][1]] = loop.todo[1][2] \/ jobs[loop.todo[1][1]].next > loop.t
    BY <1>3 DEF SlotInv, Visits
  <2>2. QED
    BY <1>1, <2>1, WaitNames
<1>5. twice' = [twice EXCEPT ![s] = twice[s] \/ job.next <= slot[s]]
  BY DEF T!Trigger
<1>6. loop' = [pc |-> "cron", t |-> loop.t, todo |-> loop.todo, wait |-> s]
  BY <1>1 DEF SlotInv, TimedType, LoopType
<1>7. \A o \in Skills : slot'[o] = IF o = s THEN job.next ELSE slot[o]
  BY <1>1 DEF SlotInv, TimedType
<1>8. loop.todo[1][1] = s /\ loop.todo[1][2] = job
  OBVIOUS
<1> HIDE DEF s, job
<1>9. LoopType'
  <2>1. now' = now
    BY <1>1
  <2>2. s # "none" /\ s # "event"
    BY <1>3, WaitNames
  <2>3. QED
    BY <1>2, <1>3, <1>6, <2>1, <2>2 DEF LoopType
<1>10. slot' \in [Skills -> Int] /\ DOMAIN twice' = Skills
  BY <1>1, <1>3, <1>5 DEF SlotInv, TimedType
<1>11. TimedType'
  BY <1>1, <1>9, <1>10 DEF SlotInv, TimedType
<1>12. T!NoJob' = T!NoJob
  BY DEF T!NoJob
<1>13. Ahead'
  <2>1. SUFFICES ASSUME NEW o \in Skills, jobs[o] # T!NoJob
                 PROVE  jobs[o].next > slot'[o] \/ (s = o /\ jobs[o] = job)
    BY <1>1, <1>6, <1>8, <1>12 DEF Ahead
  <2>2. CASE o = s
    <3>1. jobs[s] \in JobRecords
      BY <1>3 DEF SlotInv, TimedType
    <3>2. jobs[s].next \in Int
      BY <3>1 DEF JobRecords
    <3>3. QED
      BY <1>1, <1>2, <1>3, <1>4, <1>7, <2>2, <3>2
  <2>3. CASE o # s
    BY <1>1, <1>7, <2>1, <2>3, WaitNames DEF SlotInv, Ahead
  <2>4. QED
    BY <2>2, <2>3
<1>14. Waiting'
  BY <1>1, <1>2, <1>3, <1>6, <1>7, <1>8 DEF Waiting
<1>15. Visits'
  <2>1. SUFFICES ASSUME NEW i \in 1..Len(loop.todo)
                 PROVE  loop.todo[i][2].next > slot'[loop.todo[i][1]] \/ i = 1
    BY <1>1, <1>3, <1>6 DEF SlotInv, Visits
  <2>2. CASE i # 1
    <3>1. loop.todo[i][1] \in Skills /\ loop.todo[i][1] # s
      BY <1>2, <1>3, <1>8, <2>2 DEF SlotInv, Visits
    <3>2. loop.todo[i][2].next > slot[loop.todo[i][1]]
      BY <2>2 DEF SlotInv, Visits
    <3>3. QED
      BY <1>7, <3>1, <3>2
  <2>3. QED
    BY <2>2
<1>16. Once'
  <2>1. \A o \in Skills : slot'[o] <= now'
    BY <1>1, <1>2, <1>3, <1>7 DEF SlotInv, TimedType, Once
  <2>2. slot[s] \in Int
    BY <1>3 DEF SlotInv, TimedType
  <2>3. ~(job.next <= slot[s]) /\ ~twice[s]
    BY <1>3, <1>4, <2>2 DEF SlotInv, Once
  <2>4. \A o \in Skills : ~twice'[o]
    <3>1. \A o \in Skills : ~twice[o]
      BY DEF SlotInv, Once
    <3>2. DOMAIN twice = Skills
      BY DEF SlotInv, TimedType
    <3>3. QED
      BY <1>5, <2>3, <3>1, <3>2, Zenon
  <2>5. QED
    BY <2>1, <2>4 DEF Once
<1>17. QED
  BY <1>11, <1>13, <1>14, <1>15, <1>16 DEF SlotInv

\* The handlers are done: the job that fired, if it is still there, is due next
\* after the time of the round.
LEMMA KeptByHeard == ASSUME SlotInv, T!TriggerHeard PROVE SlotInv'
<1> DEFINE s == loop.wait
           job == loop.todo[1][2]
           rest == Tail(loop.todo)
           again == [jobs[s] EXCEPT !.next = T!get_next(s, loop.t)]
<1>1. /\ s \in Skills /\ jobs' = [jobs EXCEPT ![s] = IF jobs[s] = job THEN again ELSE jobs[s]]
      /\ loop' = [loop EXCEPT !.todo = rest, !.wait = "none"] /\ UNCHANGED <<now, slot, twice>>
  BY DEF T!TriggerHeard, T!seen
<1>2. /\ loop.todo # <<>> /\ s = loop.todo[1][1] /\ slot[s] = job.next /\ slot[s] <= loop.t
  BY <1>1 DEF SlotInv, Waiting
<1>3. loop.pc = "cron" /\ loop.todo \in Seq(Skills \X JobRecords) /\ loop.t \in Nat /\ loop.t <= now /\ now \in Nat
  BY <1>1 DEF SlotInv, TimedType, LoopType
<1>4. /\ rest \in Seq(Skills \X JobRecords) /\ 1 \in 1..Len(loop.todo)
      /\ \A i \in 1..Len(rest) : rest[i] = loop.todo[i + 1] /\ i + 1 \in 1..Len(loop.todo) /\ i + 1 # 1 /\ i \in Nat
  BY <1>2, <1>3, TailFacts
<1>5. jobs[s] \in JobRecords /\ slot[s] \in Int
  BY <1>1 DEF SlotInv, TimedType
<1>6. again \in JobRecords /\ again.next > loop.t /\ again.next \in Int
  BY <1>1, <1>3, <1>5, NextIsLater DEF JobRecords
<1>7. loop' = [pc |-> "cron", t |-> loop.t, todo |-> rest, wait |-> "none"]
  BY <1>1, <1>3 DEF SlotInv, TimedType, LoopType
<1>8. \A o \in Skills : jobs'[o] = IF o = s /\ jobs[s] = job THEN again ELSE jobs[o]
  BY <1>1 DEF SlotInv, TimedType
<1> HIDE DEF s, job, rest, again
<1>9. LoopType'
  BY <1>1, <1>3, <1>4, <1>7, WaitNames DEF LoopType
<1>10. TimedType' /\ Once'
  <2>1. jobs' \in [Skills -> JobRecords]
    BY <1>1, <1>5, <1>6 DEF SlotInv, TimedType
  <2>2. QED
    BY <1>1, <1>9, <2>1 DEF SlotInv, TimedType, Once
<1>11. T!NoJob' = T!NoJob
  BY DEF T!NoJob
<1>12. Ahead'
  <2>1. SUFFICES ASSUME NEW o \in Skills, jobs'[o] # T!NoJob PROVE jobs'[o].next > slot[o]
    BY <1>1, <1>11 DEF Ahead
  <2>2. CASE o = s /\ jobs[s] = job
    BY <1>2, <1>3, <1>5, <1>6, <1>8, <2>2
  <2>3. CASE ~(o = s /\ jobs[s] = job)
    BY <1>8, <2>1, <2>3 DEF SlotInv, Ahead, s, job
  <2>4. QED
    BY <2>2, <2>3
<1>13. Waiting'
  BY <1>7, WaitNames DEF Waiting
<1>14. Visits'
  <2>1. SUFFICES ASSUME NEW i \in 1..Len(rest)
                 PROVE  /\ rest[i][2].next > slot[rest[i][1]]
                        /\ jobs'[rest[i][1]] = rest[i][2] \/ jobs'[rest[i][1]].next > loop.t
                        /\ \A j \in 1..Len(rest) : rest[i][1] = rest[j][1] => i = j
    BY <1>1, <1>7 DEF Visits
  <2>2. rest[i] = loop.todo[i + 1] /\ i + 1 \in 1..Len(loop.todo) /\ i + 1 # 1 /\ i \in Nat
    BY <1>4
  <2>3. rest[i][1] \in Skills /\ rest[i][1] # s
    BY <1>2, <1>3, <1>4, <2>2 DEF SlotInv, Visits
  <2>4. /\ rest[i][2].next > slot[rest[i][1]]
        /\ jobs[rest[i][1]] = rest[i][2] \/ jobs[rest[i][1]].next > loop.t
    BY <2>2 DEF SlotInv, Visits
  <2>5. \A j \in 1..Len(rest) : rest[i][1] = rest[j][1] => i = j
    BY <1>4, <2>2 DEF SlotInv, Visits
  <2>6. QED
    BY <1>8, <2>3, <2>4, <2>5
<1>15. QED
  BY <1>10, <1>12, <1>13, <1>14 DEF SlotInv

\* The stages of a round, by a clock that is not ahead.
LEMMA KeptByRound == ASSUME SlotInv, ClockInv, ~early, T!Round PROVE SlotInv'
<1>1. CASE T!Wake
  <2>1. /\ loop.pc = "sleep" /\ loop' = [loop EXCEPT !.pc = "morning", !.t = now + ahead]
        /\ UNCHANGED <<now, jobs, slot, twice>>
    BY <1>1 DEF T!Wake, T!memory, T!seen
  <2>2. loop.todo = <<>> /\ loop.wait \notin Skills /\ loop.wait # "event"
    BY <2>1 DEF SlotInv, TimedType, LoopType
  <2>3. loop' = [pc |-> "morning", t |-> now + ahead, todo |-> <<>>, wait |-> loop.wait]
    BY <2>1, <2>2 DEF SlotInv, TimedType, LoopType
  <2>4. LoopType'
    <3>1. now + ahead \in Nat /\ now + ahead <= now
      BY DEF ClockInv
    <3>2. QED
      BY <2>1, <2>2, <2>3, <3>1, Empty DEF SlotInv, TimedType, LoopType
  <2>5. QED
    BY <2>1, <2>2, <2>3, <2>4, KeptByIdle
<1>2. CASE T!RoundOver
  <2>1. /\ loop.pc = "cron" /\ loop.todo = <<>> /\ loop.wait = "none"
        /\ loop' = [loop EXCEPT !.pc = "sleep", !.t = now] /\ UNCHANGED <<now, jobs, slot, twice>>
    BY <1>2 DEF T!RoundOver, T!memory, T!seen
  <2>2. loop' = [pc |-> "sleep", t |-> now, todo |-> <<>>, wait |-> "none"]
    BY <2>1 DEF SlotInv, TimedType, LoopType
  <2>3. LoopType'
    BY <2>1, <2>2, Empty, WaitNames DEF SlotInv, TimedType, LoopType
  <2>4. QED
    BY <2>1, <2>2, <2>3, WaitNames, KeptByIdle
<1>3. ASSUME NEW l, l = loop \/ l = [loop EXCEPT !.wait = "none"], T!Onward(l),
             UNCHANGED <<now, jobs, slot, twice>>, loop.pc \in {"morning", "evening", "hourly"},
             l.wait = "none"
      PROVE  SlotInv'
  <2>1. CASE T!After(l.pc) = "cron"
    <3>1. T!ToCron(l)
      BY <1>3, <2>1 DEF T!Onward
    <3>2. QED
      BY <1>3, <3>1, KeptByListing
  <2>2. CASE T!After(l.pc) # "cron"
    <3>1. l.pc = loop.pc /\ l.t = loop.t /\ l.todo = loop.todo /\ loop.todo = <<>> /\ loop.wait \notin Skills
      BY <1>3 DEF SlotInv, TimedType, LoopType
    <3>2. loop' = [l EXCEPT !.pc = T!After(l.pc)] /\ T!After(l.pc) \in {"evening", "hourly"}
      BY <1>3, <2>2, <3>1 DEF T!Onward, T!After
    <3>3. loop' = [pc |-> T!After(l.pc), t |-> loop.t, todo |-> <<>>, wait |-> "none"]
      BY <1>3, <3>1, <3>2 DEF SlotInv, TimedType, LoopType
    <3>4. loop.t \in Nat /\ loop.t <= now /\ now' = now
      BY <1>3 DEF SlotInv, TimedType, LoopType
    <3>5. LoopType'
      <4> DEFINE stage == T!After(l.pc)
      <4>1. loop' = [pc |-> stage, t |-> loop.t, todo |-> <<>>, wait |-> "none"] /\ stage \in {"evening", "hourly"}
        BY <3>2, <3>3
      <4> HIDE DEF stage
      <4>2. QED
        BY <3>4, <4>1, Empty, WaitNames DEF LoopType
    <3>6. QED
      BY <1>3, <3>1, <3>3, <3>5, WaitNames, KeptByIdle
  <2>3. QED
    BY <2>1, <2>2
<1>4. CASE T!Stage
  <2>1. loop.pc \in {"morning", "evening", "hourly"} /\ loop.wait = "none" /\ UNCHANGED <<now, jobs, slot, twice>>
    BY <1>4 DEF T!Stage, T!seen
  <2>2. CASE loop' = [loop EXCEPT !.wait = "event"]
    <3>1. loop.todo = <<>> /\ loop.t \in Nat /\ loop.t <= now /\ now' = now
      BY <2>1 DEF SlotInv, TimedType, LoopType
    <3>2. loop' = [pc |-> loop.pc, t |-> loop.t, todo |-> <<>>, wait |-> "event"]
      BY <2>1, <2>2, <3>1 DEF SlotInv, TimedType, LoopType
    <3>3. LoopType'
      BY <2>1, <3>1, <3>2, Empty, WaitNames DEF LoopType
    <3>4. QED
      BY <2>1, <3>2, <3>3, WaitNames, KeptByIdle
  <2>3. CASE T!Onward(loop)
    BY <1>3, <2>1, <2>3
  <2>4. QED
    BY <1>4, <2>2, <2>3 DEF T!Stage
<1>5. CASE T!StageHeard
  <2>1. /\ loop.wait = "event" /\ T!Onward([loop EXCEPT !.wait = "none"]) /\ UNCHANGED <<now, jobs, slot, twice>>
    BY <1>5 DEF T!StageHeard, T!memory, T!seen
  <2>2. loop.pc \in {"morning", "evening", "hourly"}
    BY <2>1 DEF SlotInv, TimedType, LoopType
  <2>3. [loop EXCEPT !.wait = "none"].wait = "none"
    BY DEF SlotInv, TimedType, LoopType
  <2>4. QED
    BY <1>3, <2>1, <2>2, <2>3
<1>6. QED
  BY <1>1, <1>2, <1>4, <1>5, KeptBySkip, KeptByTrigger, KeptByHeard DEF T!Round

\* The clocks go forward; a start reads the timezone.
LEMMA StepClock == ClockInv /\ [T!Next]_T!vars => ClockInv' /\ (early => early')
<1> SUFFICES ASSUME ClockInv, [T!Next]_T!vars PROVE ClockInv' /\ (early => early')
  OBVIOUS
<1>1. CASE T!Boot
  <2>1. now' = now /\ ahead' \in Int /\ now + ahead' >= 0
    BY <1>1, TimedHolds DEF T!Boot, T!resolve_tz, T!TimedAssumption
  <2>2. early' = (early \/ ahead' > 0)
    BY <1>1 DEF T!Boot, T!resolve_tz
  <2>3. (early => early') /\ (~early' => ~(ahead' > 0))
    BY <2>2, Zenon
  <2>4. ~(ahead' > 0) => ahead' <= 0
    BY <2>1
  <2>5. now' \in Nat /\ ahead' \in Int /\ now' + ahead' >= 0
    BY <2>1 DEF ClockInv
  <2>6. QED
    BY <2>3, <2>4, <2>5 DEF ClockInv
<1>2. CASE T!Tick
  BY <1>2 DEF T!Tick, T!zone, ClockInv
<1>3. ASSUME UNCHANGED <<now, ahead, early>>
      PROVE  ClockInv' /\ (early => early')
  BY <1>3 DEF ClockInv
<1>4. CASE T!Die \/ T!Subscribe \/ T!Round \/ UNCHANGED T!vars
  <2>1. UNCHANGED <<now, ahead, early>>
    BY <1>4 DEF T!Die, T!Subscribe, T!Round, T!Wake, T!Stage, T!StageHeard, T!RoundOver, T!Skip, T!Trigger,
                T!TriggerHeard, T!vars, T!zone
  <2>2. QED
    BY <1>3, <2>1
<1>5. CASE \E s \in Changing : T!Deploy(s) \/ T!Remove(s) \/ T!Install(s) \/ T!Uninstall(s) \/ T!Ask(s)
  <2>1. UNCHANGED <<now, ahead, early>>
    BY <1>5 DEF T!Deploy, T!Remove, T!Install, T!Uninstall, T!Ask, T!zone
  <2>2. QED
    BY <1>3, <2>1
<1>6. QED
  BY <1>1, <1>2, <1>4, <1>5 DEF T!Next

\* Every step keeps the invariant.
LEMMA StepSlot == SlotInv /\ ClockInv /\ ~early /\ [T!Next]_T!vars => SlotInv'
<1> SUFFICES ASSUME SlotInv, ClockInv, ~early, [T!Next]_T!vars PROVE SlotInv'
  OBVIOUS
<1>1. now \in Nat
  BY DEF SlotInv, TimedType
<1>2. CASE T!Tick \/ T!Subscribe \/ UNCHANGED T!vars
  BY <1>1, <1>2, KeptByOthers DEF T!Tick, T!Subscribe, T!vars, T!files, T!memory, T!seen
<1>3. ASSUME NEW s \in Changing, T!Remove(s) \/ T!Install(s) \/ T!Uninstall(s) \/ T!Ask(s)
      PROVE  SlotInv'
  <2>1. CASE T!Remove(s) \/ T!Install(s) \/ T!Uninstall(s)
    <3>1. UNCHANGED <<now, jobs, slot, twice, loop>>
      BY <2>1 DEF T!Remove, T!Install, T!Uninstall, T!memory, T!seen
    <3>2. QED
      BY <1>1, <3>1, KeptByOthers
  <2>2. CASE T!Ask(s)
    <3>1. UNCHANGED <<now, jobs, slot, twice, loop>>
      BY <2>2 DEF T!Ask, T!memory
    <3>2. QED
      BY <1>1, <3>1, KeptByOthers
  <2>3. QED
    BY <1>3, <2>1, <2>2
<1>4. Changing \subseteq Skills
  BY TimedHolds DEF T!TimedAssumption
<1>5. QED
  BY <1>2, <1>3, <1>4, KeptByStart, KeptByDeploy, KeptByRound DEF T!Next

\* The run's steps are steps of the part that is checked.
LEMMA RunsTimed ==
  ASSUME [MCNext]_<<part, vars, account, share, index, timed>>, part' = "skills"
  PROVE  part = "skills" /\ [T!Next]_T!vars
BY DEF MCNext, timed, T!vars, T!zone, T!files, T!memory, T!seen

\* For any skills, periods, ticks, timezones and starts of the kernel: no skill
\* is triggered twice for one due time of its cron expression, however late the
\* loop is and however often the skill is deployed again meanwhile, as long as no
\* start found the timezone's clock ahead of the system's (Scheduler._loop,
\* register_cron).
THEOREM SlotsAreOnce == (T!Spec => []T!SlotOnce) /\ (MCSpec => []SlotOnce)
<1>1. T!Init => TimedInv
  BY InitSlot DEF TimedInv, ClockInv, T!Init
<1>2. TimedInv /\ [T!Next]_T!vars => TimedInv'
  BY StepClock, StepSlot DEF TimedInv
<1>3. TimedInv => T!SlotOnce
  BY DEF TimedInv, SlotInv, Once, T!SlotOnce
<1>4. MCInit => (part = "skills" => TimedInv)
  BY <1>1 DEF MCInit
<1>5. (part = "skills" => TimedInv) /\ [MCNext]_<<part, vars, account, share, index, timed>>
        => (part = "skills" => TimedInv)'
  BY <1>2, RunsTimed
<1>6. (part = "skills" => TimedInv) => SlotOnce
  BY <1>3 DEF SlotOnce
<1>7. QED
  BY <1>1, <1>2, <1>3, <1>4, <1>5, <1>6, PTL DEF T!Spec, MCSpec

-----------------------------------------------------------------------------
\* What a reminder's file says is what its user saw last, unless the file was
\* damaged or removed since.
FiredInv ==
  /\ now \in Nat /\ told \in [Skills -> Int] /\ fired \in [Skills -> Int] /\ lost \in [Skills -> BOOLEAN]
  /\ \A s \in Skills : lost[s] \/ told[s] = T!Never \/ fired[s] = told[s]

\* No reminder has fired at the start.
LEMMA InitFired == T!Init => FiredInv
BY DEF T!Init, FiredInv, T!Never

\* A look at a reminder: it fires only when its file says that it may.
LEMMA Checked ==
  ASSUME FiredInv, NEW s \in Skills, NEW window \in BOOLEAN, T!Check(s, window), now' = now
  PROVE  FiredInv' /\ T!KeepsInterval
<1>1. T!Never' = T!Never /\ T!Never = -1
  BY DEF T!Never
<1>2. CASE UNCHANGED <<fired, told, lost>>
  BY <1>1, <1>2 DEF FiredInv, T!KeepsInterval
<1>3. CASE /\ ~T!TooSoon(s)
           /\ fired' = [fired EXCEPT ![s] = now] /\ told' = [told EXCEPT ![s] = now]
           /\ lost' = [lost EXCEPT ![s] = FALSE]
  <2>1. FiredInv'
    BY <1>1, <1>3 DEF FiredInv
  <2>2. told[s] # T!Never => lost[s] \/ now - told[s] >= Interval
    <3>1. SUFFICES ASSUME told[s] # T!Never, ~lost[s] PROVE now - told[s] >= Interval
      OBVIOUS
    <3>2. fired[s] = told[s] /\ told[s] \in Int /\ now \in Nat
      BY <3>1 DEF FiredInv
    <3>3. Interval \in Nat
      BY TimedHolds DEF T!TimedAssumption
    <3>4. QED
      BY <1>3, <3>1, <3>2, <3>3 DEF T!TooSoon
  <2>3. \A o \in Skills : told'[o] = IF o = s THEN now ELSE told[o]
    BY <1>3 DEF FiredInv
  <2>4. QED
    BY <2>1, <2>2, <2>3 DEF T!KeepsInterval
<1>4. QED
  BY <1>2, <1>3 DEF T!Check

\* Every step keeps the invariant and the interval.
LEMMA StepFired == FiredInv /\ [T!Next]_T!vars => FiredInv' /\ [T!KeepsInterval]_T!vars
<1> SUFFICES ASSUME FiredInv, [T!Next]_T!vars PROVE FiredInv' /\ T!KeepsInterval
  OBVIOUS
<1>1. T!Never' = T!Never /\ T!Never = -1 /\ Changing \subseteq Skills
  BY TimedHolds DEF T!Never, T!TimedAssumption
<1>2. ASSUME UNCHANGED <<told, fired, lost>>, now' \in Nat PROVE FiredInv' /\ T!KeepsInterval
  BY <1>1, <1>2 DEF FiredInv, T!KeepsInterval
<1>3. ASSUME NEW s \in Skills, UNCHANGED <<told, now>>, fired' = [fired EXCEPT ![s] = T!Never],
             lost' = [lost EXCEPT ![s] = TRUE]
      PROVE  FiredInv' /\ T!KeepsInterval
  BY <1>1, <1>3 DEF FiredInv, T!KeepsInterval
<1>4. CASE T!Die
  <2>1. UNCHANGED <<now, told>>
    BY <1>4 DEF T!Die
  <2>2. CASE UNCHANGED <<fired, lost>>
    BY <1>2, <2>1, <2>2 DEF FiredInv
  <2>3. CASE \E s \in loaded \cap Skills : fired' = [fired EXCEPT ![s] = T!Never] /\ lost' = [lost EXCEPT ![s] = TRUE]
    BY <1>3, <2>1, <2>3
  <2>4. ASSUME NEW s, s \notin Skills, fired' = [fired EXCEPT ![s] = T!Never], lost' = [lost EXCEPT ![s] = TRUE]
        PROVE  UNCHANGED <<fired, lost>>
    BY <2>4 DEF FiredInv
  <2>5. QED
    BY <1>4, <2>2, <2>3, <2>4 DEF T!Die
<1>5. CASE T!Tick \/ T!Boot \/ T!Subscribe \/ UNCHANGED T!vars
  BY <1>2, <1>5 DEF T!Tick, T!Boot, T!Subscribe, T!vars, T!files, T!seen, FiredInv
<1>6. CASE T!Round
  <2>1. CASE T!Trigger
    <3>1. now' = now
      BY <2>1 DEF T!Trigger
    <3>2. CASE UNCHANGED <<fired, told, lost>>
      BY <1>2, <3>1, <3>2 DEF FiredInv
    <3>3. CASE \E window \in BOOLEAN : T!Check(loop.todo[1][1], window)
      <4>1. PICK window \in BOOLEAN : T!Check(loop.todo[1][1], window)
        BY <3>3
      <4>2. CASE loop.todo[1][1] \in Skills
        BY <3>1, <4>1, <4>2, Checked
      <4>3. CASE loop.todo[1][1] \notin Skills
        <5>1. UNCHANGED <<fired, told, lost>>
          BY <4>1, <4>3 DEF T!Check, FiredInv
        <5>2. QED
          BY <1>2, <3>1, <5>1 DEF FiredInv
      <4>4. QED
        BY <4>2, <4>3
    <3>4. QED
      BY <2>1, <3>2, <3>3 DEF T!Trigger
  <2>2. CASE T!Wake \/ T!Stage \/ T!StageHeard \/ T!RoundOver \/ T!Skip \/ T!TriggerHeard
    BY <1>2, <2>2 DEF T!Wake, T!Stage, T!StageHeard, T!RoundOver, T!Skip, T!TriggerHeard, T!files,
                      T!seen, FiredInv
  <2>3. QED
    BY <1>6, <2>1, <2>2 DEF T!Round
<1>7. ASSUME NEW s \in Changing, T!Deploy(s) \/ T!Remove(s) PROVE FiredInv' /\ T!KeepsInterval
  BY <1>2, <1>7 DEF T!Deploy, T!Remove, T!seen, FiredInv
<1>8. ASSUME NEW s \in Changing, T!Install(s) \/ T!Uninstall(s) PROVE FiredInv' /\ T!KeepsInterval
  <2>1. UNCHANGED <<now, told>> /\ (UNCHANGED <<fired, lost>> \/ T!Emptied(s))
    BY <1>8 DEF T!Install, T!Uninstall
  <2>2. QED
    BY <1>1, <1>2, <1>3, <1>8, <2>1 DEF T!Emptied, FiredInv
<1>9. ASSUME NEW s \in Changing, T!Ask(s) PROVE FiredInv' /\ T!KeepsInterval
  <2>1. now' = now /\ (UNCHANGED <<fired, told, lost>> \/ T!Check(s, TRUE))
    BY <1>9 DEF T!Ask
  <2>2. QED
    BY <1>1, <1>2, <1>9, <2>1, Checked DEF FiredInv
<1>10. QED
  BY <1>4, <1>5, <1>6, <1>7, <1>8, <1>9 DEF T!Next

\* For any interval, skills and starts of the kernel: two deliveries of a reminder
\* are an interval apart, whoever asked for them, unless its file was damaged by a
\* crash or removed with the skill (ReminderTemplate._check).
THEOREM RemindersKeepInterval == (T!Spec => [][T!KeepsInterval]_T!vars) /\ (MCSpec => IntervalKept)
<1>1. MCInit => (part = "skills" => FiredInv)
  BY InitFired DEF MCInit
<1>2. (part = "skills" => FiredInv) /\ [MCNext]_<<part, vars, account, share, index, timed>>
        => (part = "skills" => FiredInv)'
  BY RunsTimed, StepFired
<1>3. (part = "skills" => FiredInv) /\ [MCNext]_<<part, vars, account, share, index, timed>>
        => [part = "skills" => T!KeepsInterval]_timed
  <2> SUFFICES ASSUME part = "skills", FiredInv, [MCNext]_<<part, vars, account, share, index, timed>>,
                      ~UNCHANGED timed
               PROVE  T!KeepsInterval
    OBVIOUS
  <2>1. T!Next /\ ~UNCHANGED T!vars
    BY DEF MCNext, timed, T!vars, T!zone, T!files, T!memory, T!seen
  <2>2. QED
    BY <2>1, StepFired
<1>4. QED
  BY <1>1, <1>2, <1>3, InitFired, StepFired, PTL DEF T!Spec, MCSpec, IntervalKept

-----------------------------------------------------------------------------
\* A bundle of a skill that was built by voice has its configuration with it,
\* whatever has become of the skill's directory since.
ShareInv ==
  /\ DOMAIN executor = Kernels
  /\ bundle = None \/ ~bundle.voice \/ bundle.dir.yaml

\* Nothing has been exported at the start.
LEMMA InitShare == S!Init => ShareInv
BY DEF S!Init, ShareInv

\* What is exported of a directory as the builder makes it.
LEMMA ExportHasYaml ==
  ASSUME None # S!VoiceBuilt
  PROVE  S!_add_bundle_members(S!VoiceBuilt).yaml
BY DEF S!_add_bundle_members, S!VoiceBuilt

\* Every step keeps the invariant.
LEMMA StepShare == ASSUME None # S!VoiceBuilt PROVE ShareInv /\ [S!Next]_S!vars => ShareInv'
<1> SUFFICES ASSUME ShareInv, [S!Next]_S!vars PROVE ShareInv'
  OBVIOUS
<1>1. ASSUME UNCHANGED bundle,
             \/ UNCHANGED executor \/ \E d, x : executor' = [executor EXCEPT ![d] = x]
      PROVE  ShareInv'
  BY <1>1 DEF ShareInv
<1>2. ASSUME NEW d \in Kernels, NEW n, NEW dir, S!Deploy(d, n, dir)
      PROVE  \/ UNCHANGED executor \/ \E x : executor' = [executor EXCEPT ![d] = x]
  BY <1>2 DEF S!Deploy
<1>3. ASSUME NEW d \in Kernels, NEW overwrite, S!skills_install_bundle(d, overwrite) PROVE ShareInv'
  <2>1. UNCHANGED bundle /\ (UNCHANGED executor \/ S!Deploy(d, bundle.name, bundle.dir))
    BY <1>3 DEF S!skills_install_bundle
  <2>2. QED
    BY <1>1, <1>2, <2>1
<1>4. ASSUME NEW d \in Kernels, S!Restart(d) PROVE ShareInv'
  BY <1>1, <1>4 DEF S!Restart
<1>5. ASSUME NEW d \in Kernels, NEW n, S!deploy_skill(d, n) PROVE ShareInv'
  BY <1>1, <1>5 DEF S!deploy_skill
<1>6. ASSUME NEW d \in Kernels, NEW n, S!skills_install(d, n) PROVE ShareInv'
  <2>1. UNCHANGED bundle /\ \E dir : S!Deploy(d, n, dir)
    BY <1>6 DEF S!skills_install
  <2>2. QED
    BY <1>1, <1>2, <2>1
<1>7. ASSUME NEW d \in Kernels, NEW n, S!skills_uninstall(d, n) \/ S!publish_skill(d, n) PROVE ShareInv'
  BY <1>1, <1>7 DEF S!skills_uninstall, S!publish_skill
<1>8. ASSUME NEW d \in Kernels, NEW n, S!skills_export(d, n) PROVE ShareInv'
  <2> DEFINE dir == S!skill_dir(d, n)
  <2>1. /\ executor' = executor
        /\ bundle' = [name |-> n, dir |-> S!_add_bundle_members(dir), voice |-> dir = S!VoiceBuilt]
    BY <1>8 DEF S!skills_export
  <2>2. bundle'.dir = S!_add_bundle_members(dir) /\ bundle'.voice = (dir = S!VoiceBuilt)
    BY <2>1
  <2> HIDE DEF dir
  <2>3. CASE dir = S!VoiceBuilt
    BY <2>1, <2>2, <2>3, ExportHasYaml DEF ShareInv
  <2>4. CASE dir # S!VoiceBuilt
    BY <2>1, <2>2, <2>4 DEF ShareInv
  <2>5. QED
    BY <2>3, <2>4
<1>9. CASE UNCHANGED S!vars
  BY <1>1, <1>9 DEF S!vars
<1>10. QED
  BY <1>3, <1>4, <1>5, <1>6, <1>7, <1>8, <1>9 DEF S!Next

\* What an import does with a bundle that has its configuration.
LEMMA ImportRuns == ASSUME ShareInv, NEW d \in Kernels PROVE S!Runs(d)
<1>1. SUFFICES ASSUME NEW overwrite \in BOOLEAN, S!skills_install_bundle(d, overwrite),
                      S!install_from_bundle(d, overwrite) = "ok", bundle.voice
               PROVE  bundle.name \in executor'[d]
  BY DEF S!Runs
<1>2. bundle # None /\ bundle.dir.yaml
  BY <1>1 DEF S!skills_install_bundle, ShareInv
<1>3. S!Deploy(d, bundle.name, bundle.dir)
  BY <1>1 DEF S!skills_install_bundle
<1>4. executor' = [executor EXCEPT ![d] = executor[d] \cup {bundle.name}]
  BY <1>2, <1>3 DEF S!Deploy
<1>5. QED
  BY <1>4 DEF ShareInv

\* The run's steps are steps of the part that is checked.
LEMMA RunsShare ==
  ASSUME [MCNext]_<<part, vars, account, share, index, timed>>, part' = "share"
  PROVE  part = "share" /\ [S!Next]_S!vars
BY DEF MCNext, share, S!vars

\* For any devices: a skill that was built by voice runs at once on the device that
\* imports its bundle, however the two devices' skills were installed, removed or
\* restarted in between (publisher._add_bundle_members, skills_install_bundle).
THEOREM VoiceBuiltRuns ==
  ASSUME None # S!VoiceBuilt
  PROVE  (S!Spec => S!VoiceBuiltTravels) /\ (MCSpec => VoiceBuiltTravels)
<1>1. MCInit => (part = "share" => ShareInv)
  BY InitShare DEF MCInit
<1>2. (part = "share" => ShareInv) /\ [MCNext]_<<part, vars, account, share, index, timed>>
        => (part = "share" => ShareInv)'
  BY RunsShare, StepShare
<1>3. ShareInv => \A d \in Kernels : S!Runs(d)
  BY ImportRuns
<1>4. QED
  BY <1>1, <1>2, <1>3, InitShare, StepShare, PTL DEF S!Spec, MCSpec, VoiceBuiltTravels, S!VoiceBuiltTravels

-----------------------------------------------------------------------------
(* The feed.                                                               *)

\* A set of numbers has a least one: the intervals up to them are well-founded.
LEMMA Least == ASSUME NEW X, X \subseteq Nat, X # {} PROVE \E n \in X : \A m \in X : n <= m
<1> DEFINE Intervals == {1..n : n \in X}
<1>1. Intervals \subseteq FiniteSubsetsOf(Nat) /\ Intervals # {}
  <2>1. \A n \in X : 1..n \subseteq Nat /\ IsFiniteSet(1..n)
    BY FS_Interval
  <2>2. QED
    BY <2>1 DEF FiniteSubsetsOf
<1>2. IsWellFoundedOn(StrictSubsetOrdering(Nat), FiniteSubsetsOf(Nat))
  BY FS_StrictSubsetOrderingWellFounded
<1>3. PICK s \in Intervals : \A r \in Intervals : ~(<<r, s>> \in StrictSubsetOrdering(Nat))
  <2> HIDE DEF Intervals
  <2>1. QED
    BY <1>1, <1>2, WFMin
<1>4. PICK n \in X : s = 1..n
  OBVIOUS
<1>5. ASSUME NEW m \in X PROVE n <= m
  <2>1. SUFFICES ASSUME m < n PROVE FALSE
    BY <1>5
  <2>2. m \in Nat /\ n \in Nat /\ 1..m \subseteq 1..n /\ n \in 1..n /\ n \notin 1..m
    BY <2>1
  <2>3. 1..m \subseteq Nat /\ 1..n \subseteq Nat /\ 1..m # 1..n
    BY <2>2
  <2>4. <<1..m, 1..n>> \in StrictSubsetOrdering(Nat)
    BY <2>2, <2>3 DEF StrictSubsetOrdering
  <2>5. QED
    BY <1>3, <1>4, <2>4
<1>6. QED
  BY <1>5

\* What holds of 0 and is handed on from each number to the next holds up to N.
LEMMA Steps ==
  ASSUME NEW N \in Nat, NEW Q, 0 \in Q, \A m \in 1..N : m - 1 \in Q => m \in Q
  PROVE  0..N \subseteq Q
<1> DEFINE X == {n \in 0..N : n \notin Q}
<1>1. SUFFICES ASSUME X # {} PROVE FALSE
  OBVIOUS
<1>2. PICK m \in X : \A n \in X : m <= n
  <2>1. X \subseteq Nat
    OBVIOUS
  <2> HIDE DEF X
  <2>2. QED
    BY <1>1, <2>1, Least
<1>3. m \in 1..N /\ m \notin Q /\ m - 1 \in 0..N
  OBVIOUS
<1>4. m - 1 \notin X
  BY <1>2, <1>3
<1>5. m - 1 \in Q
  BY <1>3, <1>4
<1>6. QED
  BY <1>3, <1>5

\* The loop of merge_community over the cards a.
Merged(a) ==
  CHOOSE out : out = [n \in 0..Len(a) |-> IF n = 0 THEN <<>> ELSE I!claim(out[n - 1], a[n])]

\* A round keeps a sequence of cards.
LEMMA ClaimKeeps == ASSUME NEW B, NEW q \in Seq(B), NEW c \in B PROVE I!claim(q, c) \in Seq(B)
BY DEF I!claim

\* The loop computes what its rounds say.
LEMMA MergedRounds ==
  ASSUME NEW B, NEW a \in Seq(B)
  PROVE  /\ Merged(a) \in [0..Len(a) -> Seq(B)] /\ Merged(a)[0] = <<>>
         /\ \A n \in 1..Len(a) : Merged(a)[n] = I!claim(Merged(a)[n - 1], a[n])
<1>1. PICK N \in Nat : N = Len(a)
  OBVIOUS
<1>2. \A n \in 1..N : a[n] \in B
  BY <1>1
<1> DEFINE Runs(m) == {g \in [0..m -> Seq(B)] : /\ g[0] = <<>>
                                                /\ \A n \in 1..m : g[n] = I!claim(g[n - 1], a[n])}
           Q == {m \in 0..N : Runs(m) # {}}
<1>3. 0 \in Q
  <2>1. [n \in 0..0 |-> <<>>] \in Runs(0)
    <3>1. <<>> \in Seq(B) /\ 1..0 = {} /\ 0 \in 0..0
      OBVIOUS
    <3>2. QED
      BY <3>1
  <2>2. QED
    BY <1>1, <2>1
<1>4. ASSUME NEW m \in 1..N, m - 1 \in Q PROVE m \in Q
  <2>1. PICK g : g \in Runs(m - 1)
    BY <1>4
  <2>2. /\ g \in [0..(m - 1) -> Seq(B)] /\ g[0] = <<>>
        /\ \A n \in 1..(m - 1) : g[n] = I!claim(g[n - 1], a[n])
    BY <2>1
  <2>3. PICK q \in Seq(B) : q = I!claim(g[m - 1], a[m])
    BY <1>1, <1>2, <2>2, ClaimKeeps
  <2>4. PICK h : h = [n \in 0..m |-> IF n = m THEN q ELSE g[n]]
    OBVIOUS
  <2>5. \A n \in 0..m : n # m => n \in 0..(m - 1) /\ h[n] = g[n]
    BY <1>4, <2>4
  <2>6. h[m] = q /\ m \in 0..m
    BY <1>4, <2>4
  <2>7. h \in [0..m -> Seq(B)]
    BY <2>2, <2>4, <2>5
  <2>8. h[0] = <<>>
    <3>1. 0 \in 0..m /\ 0 # m
      BY <1>4
    <3>2. QED
      BY <2>2, <2>5, <3>1
  <2>9. \A n \in 1..m : h[n] = I!claim(h[n - 1], a[n])
    <3>1. ASSUME NEW n \in 1..m PROVE h[n] = I!claim(h[n - 1], a[n])
      <4>1. n - 1 \in 0..m /\ n - 1 # m /\ n \in 0..m
        BY <1>4, <3>1
      <4>2. h[n - 1] = g[n - 1]
        BY <2>5, <4>1
      <4>3. CASE n = m
        BY <2>3, <2>6, <4>2, <4>3
      <4>4. CASE n # m
        BY <2>2, <2>5, <4>1, <4>2, <4>4
      <4>5. QED
        BY <4>3, <4>4
    <3>2. QED
      BY <3>1
  <2>10. h \in Runs(m)
    BY <2>7, <2>8, <2>9
  <2>11. m \in 0..N
    BY <1>4
  <2> HIDE DEF Runs
  <2>12. Runs(m) # {}
    BY <2>10
  <2>13. QED
    BY <2>11, <2>12
<1>5. PICK g : g \in Runs(N)
  <2>1. 0..N \subseteq Q
    <3> HIDE DEF Q
    <3>1. QED
      BY <1>1, <1>3, <1>4, Steps
  <2>2. N \in 0..N
    OBVIOUS
  <2>3. QED
    BY <2>1, <2>2
<1>6. g = [n \in 0..N |-> IF n = 0 THEN <<>> ELSE I!claim(g[n - 1], a[n])]
  <2>1. \A n \in 0..N : g[n] = IF n = 0 THEN <<>> ELSE I!claim(g[n - 1], a[n])
    BY <1>5
  <2>2. g \in [0..N -> Seq(B)]
    BY <1>5
  <2>3. QED
    BY <2>1, <2>2
<1>7. PICK f : f = Merged(a)
  OBVIOUS
<1>8. f = [n \in 0..N |-> IF n = 0 THEN <<>> ELSE I!claim(f[n - 1], a[n])]
  BY <1>1, <1>6, <1>7 DEF Merged
<1>9. /\ f[0] = <<>> /\ DOMAIN f = 0..N
      /\ \A n \in 1..N : f[n] = I!claim(f[n - 1], a[n])
  BY <1>8
<1>10. \A n \in 0..N : f[n] \in Seq(B)
  <2> DEFINE Z == {n \in 0..N : f[n] \in Seq(B)}
  <2>1. 0 \in Z
    <3>1. <<>> \in Seq(B) /\ 0 \in 0..N
      OBVIOUS
    <3>2. QED
      BY <1>9, <3>1
  <2>2. ASSUME NEW m \in 1..N, m - 1 \in Z PROVE m \in Z
    <3>1. f[m] = I!claim(f[m - 1], a[m]) /\ f[m - 1] \in Seq(B) /\ a[m] \in B
      BY <1>2, <1>9, <2>2
    <3>2. f[m] \in Seq(B)
      BY <3>1, ClaimKeeps
    <3>3. QED
      BY <3>2
  <2>3. 0..N \subseteq Z
    <3> HIDE DEF Z
    <3>1. QED
      BY <2>1, <2>2, Steps
  <2>4. QED
    BY <2>3
<1>11. f \in [0..N -> Seq(B)]
  BY <1>8, <1>10
<1>12. QED
  BY <1>1, <1>7, <1>9, <1>11

Card == [source : {"ugc", "curated", "local"}, key : {slugify[n] : n \in DOMAIN slugify}]

\* The place of a source in the order of precedence.
Place(c) == I!Rank[c.source]

\* The i-th card has a key, and is the first with it.
First(a, i) == a[i].key # Blank /\ \A j \in 1..(i - 1) : a[j].key # a[i].key

\* What the feed q is after the first n cards.
Feed(a, q, n) ==
  /\ q \in Seq(Card)
  /\ \A x \in 1..Len(q) : \E i \in 1..n : First(a, i) /\ q[x] = a[i]
  /\ \A i \in 1..n : a[i].key # Blank => \E x \in 1..Len(q) : q[x].key = a[i].key
  /\ \A x, y \in 1..Len(q) : x < y => q[x].key # q[y].key /\ Place(q[x]) <= Place(q[y])

\* A round makes the feed of one card more.
LEMMA RoundKeeps ==
  ASSUME NEW a \in Seq(Card), \A i, j \in 1..Len(a) : i < j => Place(a[i]) <= Place(a[j]),
         NEW m \in 1..Len(a), NEW q, Feed(a, q, m - 1)
  PROVE  Feed(a, I!claim(q, a[m]), m)
<1>1. /\ q \in Seq(Card) /\ Len(q) \in Nat /\ m \in Nat /\ a[m] \in Card
      /\ \A i \in 1..m : i \in 1..Len(a) /\ (i \in 1..(m - 1) \/ i = m)
      /\ \A i \in 1..(m - 1) : i \in 1..m
  BY DEF Feed
<1>2. \A k : (\E d \in I!ToSet(q) : d.key = k) <=> \E x \in 1..Len(q) : q[x].key = k
  <2>1. DOMAIN q = 1..Len(q)
    BY <1>1
  <2>2. QED
    BY <2>1 DEF I!ToSet
<1>3. PICK c : c = a[m]
  OBVIOUS
<1>4. CASE c.key = Blank \/ \E x \in 1..Len(q) : q[x].key = c.key
  <2>1. I!claim(q, c) = q
    BY <1>2, <1>4 DEF I!claim
  <2>2. \A x \in 1..Len(q) : \E i \in 1..m : First(a, i) /\ q[x] = a[i]
    BY <1>1 DEF Feed
  <2>3. \A i \in 1..m : a[i].key # Blank => \E x \in 1..Len(q) : q[x].key = a[i].key
    BY <1>1, <1>3, <1>4 DEF Feed
  <2>4. QED
    BY <1>3, <2>1, <2>2, <2>3 DEF Feed
<1>5. CASE ~(c.key = Blank \/ \E x \in 1..Len(q) : q[x].key = c.key)
  <2>1. PICK p : p = Append(q, c)
    OBVIOUS
  <2>2. I!claim(q, c) = p
    BY <1>2, <1>5, <2>1 DEF I!claim
  <2>3. /\ p \in Seq(Card) /\ Len(p) = Len(q) + 1 /\ p[Len(q) + 1] = c
        /\ \A x \in 1..Len(q) : p[x] = q[x]
    BY <1>1, <1>3, <2>1
  <2>4. \A x \in 1..Len(p) : x \in 1..Len(q) \/ x = Len(q) + 1
    BY <1>1, <2>3
  <2>5. (\A x \in 1..Len(q) : x \in 1..Len(p)) /\ Len(q) + 1 \in 1..Len(p)
    BY <1>1, <2>3
  <2>6. First(a, m)
    BY <1>1, <1>3, <1>5 DEF First, Feed
  <2>7. \A x \in 1..Len(p) : \E i \in 1..m : First(a, i) /\ p[x] = a[i]
    <3>1. \A x \in 1..Len(q) : \E i \in 1..m : First(a, i) /\ p[x] = a[i]
      BY <1>1, <2>3 DEF Feed
    <3>2. m \in 1..m
      BY <1>1
    <3>3. QED
      BY <1>3, <2>3, <2>4, <2>6, <3>1, <3>2
  <2>8. \A i \in 1..m : a[i].key # Blank => \E x \in 1..Len(p) : p[x].key = a[i].key
    <3>1. \A i \in 1..(m - 1) : a[i].key # Blank => \E x \in 1..Len(p) : p[x].key = a[i].key
      BY <2>3, <2>5 DEF Feed
    <3>2. QED
      BY <1>1, <1>3, <2>3, <2>5, <3>1
  <2>9. ASSUME NEW x \in 1..Len(p), NEW y \in 1..Len(p), x < y
        PROVE  p[x].key # p[y].key /\ Place(p[x]) <= Place(p[y])
    <3>1. x \in 1..Len(q)
      BY <1>1, <2>3, <2>9
    <3>2. CASE y \in 1..Len(q)
      <4>1. q[x].key # q[y].key /\ Place(q[x]) <= Place(q[y])
        BY <2>9, <3>1, <3>2 DEF Feed
      <4>2. p[x] = q[x] /\ p[y] = q[y]
        BY <2>3, <3>1, <3>2
      <4>3. QED
        BY <4>1, <4>2
    <3>3. CASE y = Len(q) + 1
      <4>1. p[x] = q[x] /\ p[y] = a[m] /\ q[x].key # c.key
        BY <1>3, <1>5, <2>3, <3>1, <3>3
      <4>2. PICK i \in 1..(m - 1) : q[x] = a[i]
        BY <3>1 DEF Feed
      <4>3. i \in 1..Len(a) /\ i < m
        BY <1>1
      <4>4. Place(a[i]) <= Place(a[m])
        BY <4>3
      <4>5. QED
        BY <1>3, <4>1, <4>2, <4>4
    <3>4. QED
      BY <2>4, <3>2, <3>3
  <2>10. QED
    BY <1>3, <2>2, <2>3, <2>7, <2>8, <2>9 DEF Feed
<1>6. QED
  BY <1>4, <1>5

\* The loop makes the feed of all cards.
LEMMA MergedFeed ==
  ASSUME NEW a \in Seq(Card), \A i, j \in 1..Len(a) : i < j => Place(a[i]) <= Place(a[j])
  PROVE  Feed(a, Merged(a)[Len(a)], Len(a))
<1>1. PICK out : out = Merged(a)
  OBVIOUS
<1>2. /\ out[0] = <<>> /\ \A n \in 1..Len(a) : out[n] = I!claim(out[n - 1], a[n])
  BY <1>1, MergedRounds
<1>3. Len(a) \in Nat
  OBVIOUS
<1> DEFINE Q == {n \in 0..Len(a) : Feed(a, out[n], n)}
<1>4. 0 \in Q
  <2>1. Feed(a, <<>>, 0)
    BY DEF Feed
  <2>2. 0 \in 0..Len(a)
    BY <1>3
  <2>3. QED
    BY <1>2, <2>1, <2>2
<1>5. ASSUME NEW m \in 1..Len(a), m - 1 \in Q PROVE m \in Q
  <2>1. Feed(a, out[m - 1], m - 1)
    BY <1>5
  <2>2. Feed(a, I!claim(out[m - 1], a[m]), m)
    BY <2>1, RoundKeeps
  <2>3. Feed(a, out[m], m)
    BY <1>2, <2>2
  <2>4. m \in 0..Len(a)
    BY <1>3
  <2>5. QED
    BY <2>3, <2>4
<1>6. 0..Len(a) \subseteq Q
  <2> HIDE DEF Q
  <2>1. QED
    BY <1>3, <1>4, <1>5, Steps
<1>7. Len(a) \in 0..Len(a)
  BY <1>3
<1>8. Feed(a, out[Len(a)], Len(a))
  BY <1>6, <1>7
<1>9. QED
  BY <1>1, <1>8

\* The cards of a list.
LEMMA CardsOf ==
  ASSUME NEW l \in Seq(DOMAIN slugify), NEW from \in {"ugc", "curated", "local"}
  PROVE  /\ I!Cards(l, from) \in Seq(Card) /\ Len(I!Cards(l, from)) = Len(l) /\ Len(l) \in Nat
         /\ \A i \in 1..Len(l) : I!Cards(l, from)[i].source = from /\ I!Cards(l, from)[i].key = slugify[l[i]]
<1>1. DOMAIN l = 1..Len(l) /\ Len(l) \in Nat /\ \A i \in 1..Len(l) : l[i] \in DOMAIN slugify
  OBVIOUS
<1>2. PICK s : s = [i \in 1..Len(l) |-> [source |-> from, key |-> slugify[l[i]]]]
  OBVIOUS
<1>3. I!Cards(l, from) = s
  BY <1>1, <1>2 DEF I!Cards
<1>4. \A i \in 1..Len(l) : [source |-> from, key |-> slugify[l[i]]] \in Card
  BY <1>1 DEF Card
<1>5. s \in [1..Len(l) -> Card]
  BY <1>2, <1>4
<1>6. s \in Seq(Card) /\ Len(s) = Len(l)
  BY <1>1, <1>5
<1>7. \A i \in 1..Len(l) : s[i].source = from /\ s[i].key = slugify[l[i]]
  BY <1>2
<1>8. QED
  BY <1>1, <1>3, <1>6, <1>7

\* The elements of a concatenation.
LEMMA Joined ==
  ASSUME NEW B, NEW x \in Seq(B), NEW y \in Seq(B)
  PROVE  /\ x \o y \in Seq(B) /\ Len(x \o y) = Len(x) + Len(y) /\ Len(x) \in Nat /\ Len(y) \in Nat
         /\ \A i \in 1..Len(x) : (x \o y)[i] = x[i]
         /\ \A i \in 1..Len(y) : (x \o y)[Len(x) + i] = y[i]
<1>1. /\ x \o y \in Seq(B) /\ Len(x \o y) = Len(x) + Len(y) /\ Len(x) \in Nat /\ Len(y) \in Nat
      /\ \A i \in 1..(Len(x) + Len(y)) : (x \o y)[i] = IF i <= Len(x) THEN x[i] ELSE y[i - Len(x)]
  BY ConcatProperties
<1>2. \A i \in 1..Len(x) : i \in 1..(Len(x) + Len(y)) /\ i <= Len(x)
  BY <1>1
<1>3. \A i \in 1..Len(y) : /\ Len(x) + i \in 1..(Len(x) + Len(y)) /\ ~(Len(x) + i <= Len(x))
                           /\ (Len(x) + i) - Len(x) = i
  BY <1>1
<1>4. QED
  BY <1>1, <1>2, <1>3

\* The cards of three lists, one after the other.
CardsAre(u, e, l, a) ==
  /\ a \in Seq(Card) /\ Len(a) = Len(u) + Len(e) + Len(l)
  /\ \A i \in 1..Len(u) : i \in 1..Len(a) /\ a[i].source = "ugc" /\ a[i].key = slugify[u[i]]
  /\ \A i \in 1..Len(e) : /\ Len(u) + i \in 1..Len(a) /\ a[Len(u) + i].source = "curated"
                          /\ a[Len(u) + i].key = slugify[e[i]]
  /\ \A i \in 1..Len(l) : /\ Len(u) + Len(e) + i \in 1..Len(a) /\ a[Len(u) + Len(e) + i].source = "local"
                          /\ a[Len(u) + Len(e) + i].key = slugify[l[i]]
  /\ \A i \in 1..Len(a) : i \in 1..Len(u) \/ i - Len(u) \in 1..Len(e) \/ i - Len(u) - Len(e) \in 1..Len(l)

\* merge_community goes through the cards of the three lists in turn.
LEMMA AllCards ==
  ASSUME NEW u \in Seq(DOMAIN slugify), NEW e \in Seq(DOMAIN slugify), NEW l \in Seq(DOMAIN slugify),
         NEW a, a = I!Cards(u, "ugc") \o I!Cards(e, "curated") \o I!Cards(l, "local")
  PROVE  CardsAre(u, e, l, a)
<1>1. PICK x : x = I!Cards(u, "ugc")
  OBVIOUS
<1>2. PICK y : y = I!Cards(e, "curated")
  OBVIOUS
<1>3. PICK z : z = I!Cards(l, "local")
  OBVIOUS
<1>4. /\ x \in Seq(Card) /\ Len(x) = Len(u) /\ Len(u) \in Nat
      /\ \A i \in 1..Len(u) : x[i].source = "ugc" /\ x[i].key = slugify[u[i]]
  BY <1>1, CardsOf
<1>5. /\ y \in Seq(Card) /\ Len(y) = Len(e) /\ Len(e) \in Nat
      /\ \A i \in 1..Len(e) : y[i].source = "curated" /\ y[i].key = slugify[e[i]]
  BY <1>2, CardsOf
<1>6. /\ z \in Seq(Card) /\ Len(z) = Len(l) /\ Len(l) \in Nat
      /\ \A i \in 1..Len(l) : z[i].source = "local" /\ z[i].key = slugify[l[i]]
  BY <1>3, CardsOf
<1>7. a = (x \o y) \o z
  BY <1>1, <1>2, <1>3
<1>8. PICK b : b = x \o y
  OBVIOUS
<1>9. /\ b \in Seq(Card) /\ Len(b) = Len(u) + Len(e)
      /\ \A i \in 1..Len(u) : b[i] = x[i]
      /\ \A i \in 1..Len(e) : b[Len(u) + i] = y[i]
  <2>1. /\ b \in Seq(Card) /\ Len(b) = Len(x) + Len(y)
        /\ \A i \in 1..Len(x) : b[i] = x[i]
        /\ \A i \in 1..Len(y) : b[Len(x) + i] = y[i]
    <3>1. x \in Seq(Card) /\ y \in Seq(Card)
      BY <1>4, <1>5
    <3>2. QED
      BY <1>8, <3>1, Joined
  <2>2. QED
    BY <1>4, <1>5, <2>1
<1>10. /\ a \in Seq(Card) /\ Len(a) = Len(b) + Len(l)
       /\ \A i \in 1..Len(b) : a[i] = b[i]
       /\ \A i \in 1..Len(l) : a[Len(b) + i] = z[i]
  <2>1. /\ a \in Seq(Card) /\ Len(a) = Len(b) + Len(z)
        /\ \A i \in 1..Len(b) : a[i] = b[i]
        /\ \A i \in 1..Len(z) : a[Len(b) + i] = z[i]
    <3>1. b \in Seq(Card) /\ z \in Seq(Card)
      BY <1>6, <1>9
    <3>2. PICK d : d = b \o z
      OBVIOUS
    <3>3. /\ d \in Seq(Card) /\ Len(d) = Len(b) + Len(z)
          /\ \A i \in 1..Len(b) : d[i] = b[i]
          /\ \A i \in 1..Len(z) : d[Len(b) + i] = z[i]
      BY <3>1, <3>2, Joined
    <3>4. a = d
      BY <1>7, <1>8, <3>2
    <3>5. QED
      BY <3>3, <3>4
  <2>2. QED
    BY <1>6, <2>1
<1>11. \A i \in 1..Len(u) : i \in 1..Len(b) /\ i \in 1..Len(a)
  BY <1>4, <1>5, <1>6, <1>9, <1>10
<1>12. \A i \in 1..Len(e) : Len(u) + i \in 1..Len(b) /\ Len(u) + i \in 1..Len(a)
  BY <1>4, <1>5, <1>6, <1>9, <1>10
<1>13. \A i \in 1..Len(l) : Len(u) + Len(e) + i \in 1..Len(a)
  BY <1>4, <1>5, <1>6, <1>9, <1>10
<1>14. \A i \in 1..Len(u) : a[i].source = "ugc" /\ a[i].key = slugify[u[i]]
  <2>1. \A i \in 1..Len(u) : a[i] = x[i]
    BY <1>9, <1>10, <1>11
  <2>2. QED
    BY <1>4, <2>1
<1>15. \A i \in 1..Len(e) : a[Len(u) + i].source = "curated" /\ a[Len(u) + i].key = slugify[e[i]]
  <2>1. \A i \in 1..Len(e) : a[Len(u) + i] = y[i]
    BY <1>9, <1>10, <1>12
  <2>2. QED
    BY <1>5, <2>1
<1>16. \A i \in 1..Len(l) : a[Len(u) + Len(e) + i].source = "local" /\ a[Len(u) + Len(e) + i].key = slugify[l[i]]
  <2>1. \A i \in 1..Len(l) : a[Len(u) + Len(e) + i] = z[i]
    BY <1>9, <1>10
  <2>2. QED
    BY <1>6, <2>1
<1>17. \A i \in 1..Len(a) : i \in 1..Len(u) \/ i - Len(u) \in 1..Len(e) \/ i - Len(u) - Len(e) \in 1..Len(l)
  BY <1>4, <1>5, <1>6, <1>9, <1>10
<1>18. QED
  BY <1>9, <1>10, <1>11, <1>12, <1>13, <1>14, <1>15, <1>16, <1>17 DEF CardsAre

\* The feed of any three lists: every skill that one of them knows has one card,
\* from the first that knows it, and the cards follow the order of the sources.
LEMMA FeedIsPrecedence ==
  ASSUME ugc \in Seq(DOMAIN slugify), entries \in Seq(DOMAIN slugify), local \in Seq(DOMAIN slugify)
  PROVE  I!MergeIsPrecedence
<1>1. PICK a : a = I!Cards(ugc, "ugc") \o I!Cards(entries, "curated") \o I!Cards(local, "local")
  OBVIOUS
<1>2. CardsAre(ugc, entries, local, a)
  BY <1>1, AllCards
<1>3. Len(ugc) \in Nat /\ Len(entries) \in Nat /\ Len(local) \in Nat /\ Len(a) \in Nat
  BY <1>2 DEF CardsAre
<1>4. /\ \A i \in 1..Len(a) : i \in 1..Len(ugc) <=> a[i].source = "ugc"
      /\ \A i \in 1..Len(a) : i - Len(ugc) \in 1..Len(entries) <=> a[i].source = "curated"
      /\ \A i \in 1..Len(a) : i - Len(ugc) - Len(entries) \in 1..Len(local) <=> a[i].source = "local"
  <2>1. SUFFICES ASSUME NEW i \in 1..Len(a)
                 PROVE  /\ i \in 1..Len(ugc) <=> a[i].source = "ugc"
                        /\ i - Len(ugc) \in 1..Len(entries) <=> a[i].source = "curated"
                        /\ i - Len(ugc) - Len(entries) \in 1..Len(local) <=> a[i].source = "local"
    OBVIOUS
  <2>2. i \in Int /\ Len(ugc) + (i - Len(ugc)) = i /\ Len(ugc) + Len(entries) + (i - Len(ugc) - Len(entries)) = i
    BY <1>3
  <2>3. i \in 1..Len(ugc) => a[i].source = "ugc"
    BY <1>2 DEF CardsAre
  <2>4. i - Len(ugc) \in 1..Len(entries) => a[i].source = "curated"
    BY <1>2, <2>2 DEF CardsAre
  <2>5. i - Len(ugc) - Len(entries) \in 1..Len(local) => a[i].source = "local"
    <3>1. PICK x : x = i - Len(ugc) - Len(entries)
      OBVIOUS
    <3>2. Len(ugc) + Len(entries) + x = i
      BY <2>2, <3>1
    <3>3. x \in 1..Len(local) => a[Len(ugc) + Len(entries) + x].source = "local"
      BY <1>2 DEF CardsAre
    <3>4. QED
      BY <3>1, <3>2, <3>3
  <2>6. i \in 1..Len(ugc) \/ i - Len(ugc) \in 1..Len(entries) \/ i - Len(ugc) - Len(entries) \in 1..Len(local)
    BY <1>2 DEF CardsAre
  <2>7. QED
    BY <2>3, <2>4, <2>5, <2>6
<1>5. I!Rank["ugc"] = 1 /\ I!Rank["curated"] = 2 /\ I!Rank["local"] = 3 /\ DOMAIN I!Rank = {"ugc", "curated", "local"}
  BY DEF I!Rank
<1>6. \A i \in 1..Len(a) : a[i] \in Card /\ a[i].source \in {"ugc", "curated", "local"}
  <2>1. \A i \in 1..Len(a) : a[i] \in Card
    BY <1>2 DEF CardsAre
  <2>2. QED
    BY <2>1 DEF Card
<1>7. \A i, j \in 1..Len(a) : Place(a[j]) < Place(a[i]) => j < i
  <2>1. SUFFICES ASSUME NEW i \in 1..Len(a), NEW j \in 1..Len(a), Place(a[j]) < Place(a[i]) PROVE j < i
    OBVIOUS
  <2>2. \/ a[j].source = "ugc" /\ a[i].source = "curated"
        \/ a[j].source = "ugc" /\ a[i].source = "local"
        \/ a[j].source = "curated" /\ a[i].source = "local"
    BY <1>5, <1>6, <2>1 DEF Place
  <2>3. \/ j \in 1..Len(ugc) /\ i - Len(ugc) \in 1..Len(entries)
        \/ j \in 1..Len(ugc) /\ i - Len(ugc) - Len(entries) \in 1..Len(local)
        \/ j - Len(ugc) \in 1..Len(entries) /\ i - Len(ugc) - Len(entries) \in 1..Len(local)
    BY <1>4, <2>2
  <2>4. QED
    BY <1>3, <2>3
<1>8. \A i \in 1..Len(a) : Place(a[i]) \in {1, 2, 3}
  BY <1>5, <1>6 DEF Place
<1>9. \A i, j \in 1..Len(a) : i < j => Place(a[i]) <= Place(a[j])
  <2>1. SUFFICES ASSUME NEW i \in 1..Len(a), NEW j \in 1..Len(a), i < j PROVE Place(a[i]) <= Place(a[j])
    OBVIOUS
  <2>2. ~(j < i) /\ Place(a[i]) \in Int /\ Place(a[j]) \in Int
    BY <1>3, <1>8, <2>1
  <2>3. ~(Place(a[j]) < Place(a[i]))
    BY <1>7, <2>2
  <2>4. QED
    BY <2>2, <2>3
<1>10. \A from \in {"ugc", "curated", "local"} :
         \A k : k \in I!Known(from) <=> k # Blank /\ \E i \in 1..Len(a) : a[i].source = from /\ a[i].key = k
  <2>1. DOMAIN ugc = 1..Len(ugc) /\ DOMAIN entries = 1..Len(entries) /\ DOMAIN local = 1..Len(local)
    OBVIOUS
  <2>2. \A k : k \in I!Known("ugc") <=> k # Blank /\ \E i \in 1..Len(ugc) : slugify[ugc[i]] = k
    BY <2>1 DEF I!Known, I!ToSet
  <2>3. \A k : k \in I!Known("curated") <=> k # Blank /\ \E i \in 1..Len(entries) : slugify[entries[i]] = k
    BY <2>1 DEF I!Known, I!ToSet
  <2>4. \A k : k \in I!Known("local") <=> k # Blank /\ \E i \in 1..Len(local) : slugify[local[i]] = k
    BY <2>1 DEF I!Known, I!ToSet
  <2>5. \A k : (\E i \in 1..Len(ugc) : slugify[ugc[i]] = k) <=> \E i \in 1..Len(a) : a[i].source = "ugc" /\ a[i].key = k
    <3>1. \A i \in 1..Len(ugc) : i \in 1..Len(a) /\ a[i].source = "ugc" /\ a[i].key = slugify[ugc[i]]
      BY <1>2 DEF CardsAre
    <3>2. \A i \in 1..Len(a) : a[i].source = "ugc" => i \in 1..Len(ugc)
      BY <1>4
    <3>3. QED
      BY <3>1, <3>2
  <2>6. \A k : (\E i \in 1..Len(entries) : slugify[entries[i]] = k)
               <=> \E i \in 1..Len(a) : a[i].source = "curated" /\ a[i].key = k
    <3>1. \A i \in 1..Len(a) : a[i].source = "curated" =>
            \E x \in 1..Len(entries) : a[i].key = slugify[entries[x]]
      <4>1. ASSUME NEW i \in 1..Len(a), a[i].source = "curated"
            PROVE  \E x \in 1..Len(entries) : a[i].key = slugify[entries[x]]
        <5>1. PICK x : x = i - Len(ugc)
          OBVIOUS
        <5>2. x \in 1..Len(entries) /\ Len(ugc) + x = i
          BY <1>3, <1>4, <4>1, <5>1
        <5>3. a[Len(ugc) + x].key = slugify[entries[x]]
          BY <1>2, <5>2 DEF CardsAre
        <5>4. QED
          BY <5>2, <5>3
      <4>2. QED
        BY <4>1
    <3>2. \A x \in 1..Len(entries) : \E i \in 1..Len(a) : a[i].source = "curated" /\ a[i].key = slugify[entries[x]]
      BY <1>2 DEF CardsAre
    <3>3. QED
      BY <3>1, <3>2
  <2>7. \A k : (\E i \in 1..Len(local) : slugify[local[i]] = k)
               <=> \E i \in 1..Len(a) : a[i].source = "local" /\ a[i].key = k
    <3>1. \A i \in 1..Len(a) : a[i].source = "local" =>
            \E x \in 1..Len(local) : a[i].key = slugify[local[x]]
      <4>1. ASSUME NEW i \in 1..Len(a), a[i].source = "local"
            PROVE  \E x \in 1..Len(local) : a[i].key = slugify[local[x]]
        <5>1. PICK x : x = i - Len(ugc) - Len(entries)
          OBVIOUS
        <5>2. x \in 1..Len(local) /\ Len(ugc) + Len(entries) + x = i
          BY <1>3, <1>4, <4>1, <5>1
        <5>3. a[Len(ugc) + Len(entries) + x].key = slugify[local[x]]
          BY <1>2, <5>2 DEF CardsAre
        <5>4. QED
          BY <5>2, <5>3
      <4>2. QED
        BY <4>1
    <3>2. \A x \in 1..Len(local) : \E i \in 1..Len(a) : a[i].source = "local" /\ a[i].key = slugify[local[x]]
      BY <1>2 DEF CardsAre
    <3>3. QED
      BY <3>1, <3>2
  <2>8. \A k : k \in I!Known("ugc") <=> k # Blank /\ \E i \in 1..Len(a) : a[i].source = "ugc" /\ a[i].key = k
    BY <2>2, <2>5
  <2>9. \A k : k \in I!Known("curated") <=> k # Blank /\ \E i \in 1..Len(a) : a[i].source = "curated" /\ a[i].key = k
    BY <2>3, <2>6
  <2>10. \A k : k \in I!Known("local") <=> k # Blank /\ \E i \in 1..Len(a) : a[i].source = "local" /\ a[i].key = k
    BY <2>4, <2>7
  <2>11. QED
    BY <2>8, <2>9, <2>10
<1>11. PICK q : q = Merged(a)[Len(a)]
  OBVIOUS
<1>12. Feed(a, q, Len(a))
  <2>1. a \in Seq(Card)
    BY <1>2 DEF CardsAre
  <2>2. QED
    BY <1>9, <1>11, <2>1, MergedFeed
<1>13. I!merge_community = q
  BY <1>1, <1>11 DEF I!merge_community, Merged
<1>14. DOMAIN q = 1..Len(q) /\ Len(q) \in Nat
  BY <1>12 DEF Feed
<1>15. \A c : c \in I!ToSet(q) <=> \E x \in 1..Len(q) : q[x] = c
  BY <1>14 DEF I!ToSet
<1>16. {c.key : c \in I!ToSet(q)} = UNION {I!Known(s) : s \in DOMAIN I!Rank}
  <2>1. \A k : (\E c \in I!ToSet(q) : c.key = k) => \E s \in DOMAIN I!Rank : k \in I!Known(s)
    <3>1. SUFFICES ASSUME NEW x \in 1..Len(q) PROVE \E s \in DOMAIN I!Rank : q[x].key \in I!Known(s)
      BY <1>15
    <3>2. PICK i \in 1..Len(a) : First(a, i) /\ q[x] = a[i]
      BY <1>12 DEF Feed
    <3>3. q[x].key \in I!Known(a[i].source) /\ a[i].source \in DOMAIN I!Rank
      BY <1>5, <1>6, <1>10, <3>2 DEF First
    <3>4. QED
      BY <3>3
  <2>2. \A k : (\E s \in DOMAIN I!Rank : k \in I!Known(s)) => \E c \in I!ToSet(q) : c.key = k
    <3>1. SUFFICES ASSUME NEW k, NEW s \in DOMAIN I!Rank, k \in I!Known(s) PROVE \E c \in I!ToSet(q) : c.key = k
      OBVIOUS
    <3>2. PICK i \in 1..Len(a) : a[i].key = k /\ k # Blank
      BY <1>5, <1>10, <3>1
    <3>3. PICK x \in 1..Len(q) : q[x].key = k
      BY <1>12, <3>2 DEF Feed
    <3>4. QED
      BY <1>15, <3>3
  <2>3. QED
    BY <2>1, <2>2
<1>17. ASSUME NEW c \in I!ToSet(q) PROVE I!FirstKnows(c)
  <2>1. PICK x \in 1..Len(q) : q[x] = c
    BY <1>15, <1>17
  <2>2. PICK i \in 1..Len(a) : First(a, i) /\ c = a[i]
    BY <1>12, <2>1 DEF Feed
  <2>3. c.key \in I!Known(c.source)
    BY <1>6, <1>10, <2>2 DEF First
  <2>4. ASSUME NEW s \in DOMAIN I!Rank, I!Rank[s] < I!Rank[c.source], c.key \in I!Known(s) PROVE FALSE
    <3>1. PICK j \in 1..Len(a) : a[j].source = s /\ a[j].key = c.key
      <4>1. PICK k : k = c.key
        OBVIOUS
      <4>2. s \in {"ugc", "curated", "local"} /\ k \in I!Known(s)
        BY <1>5, <2>4, <4>1
      <4>3. \E j \in 1..Len(a) : a[j].source = s /\ a[j].key = k
        BY <1>10, <4>2
      <4>4. QED
        BY <4>1, <4>3
    <3>2. Place(a[j]) < Place(a[i])
      BY <2>2, <2>4, <3>1 DEF Place
    <3>3. j < i
      BY <1>7, <3>2
    <3>4. j \in 1..(i - 1)
      BY <1>3, <3>3
    <3>5. QED
      BY <2>2, <3>1, <3>4 DEF First
  <2>5. QED
    BY <2>3, <2>4 DEF I!FirstKnows
<1>18. \A x, y \in DOMAIN q : x < y => q[x].key # q[y].key /\ I!Rank[q[x].source] <= I!Rank[q[y].source]
  BY <1>12, <1>14 DEF Feed, Place
<1>19. QED
  BY <1>13, <1>16, <1>17, <1>18 DEF I!MergeIsPrecedence

\* The feed starts from its values: an index is one that the repository can have,
\* or a part of it.
LEMMA InitIndex == I!IndexAssumption /\ I!Init => I!TypeOK
BY DEF I!IndexAssumption, I!Init, I!TypeOK

\* Every step of the feed keeps it to its values.
LEMMA StepIndex == I!IndexAssumption /\ I!TypeOK /\ [I!Next]_I!vars => I!TypeOK'
<1> SUFFICES ASSUME I!IndexAssumption, I!TypeOK, [I!Next]_I!vars PROVE I!TypeOK'
  OBVIOUS
<1>1. CASE I!Push
  BY <1>1 DEF I!TypeOK, I!Push
<1>2. CASE I!Tick
  <2>1. cache \in [names : Lists, age : 0..CACHE_TTL + 1] /\ cache.age <= CACHE_TTL
    BY <1>2 DEF I!TypeOK, I!Tick
  <2>2. cache' \in [names : Lists, age : 0..CACHE_TTL + 1]
    BY <1>2, <2>1 DEF I!Tick, I!IndexAssumption
  <2>3. QED
    BY <1>2, <2>2 DEF I!TypeOK, I!Tick
<1>3. CASE I!Local
  BY <1>3 DEF I!TypeOK, I!Local
<1>4. CASE I!catalog_community
  <2>1. \A names \in I!_fetch_source : names \in Lists
    <3>1. \A n \in SUBSET I!ToSet(remote) : I!Kept(remote, n) \in Lists
      BY DEF I!IndexAssumption, I!TypeOK
    <3>2. QED
      BY <3>1 DEF I!_fetch_source
  <2>2. 0 \in 0..CACHE_TTL + 1
    BY DEF I!IndexAssumption
  <2>3. entries' \in Lists /\ cache' \in [names : Lists, age : 0..CACHE_TTL + 1] \cup {None}
    <3>1. CASE I!Fresh
      BY <1>4, <3>1 DEF I!TypeOK, I!catalog_community, I!refresh_source, I!Fresh
    <3>2. CASE ~I!Fresh /\ UNCHANGED <<entries, cache>>
      BY <3>2 DEF I!TypeOK
    <3>3. ASSUME ~I!Fresh, NEW l \in Lists, entries' = l, I!_save_cached(l)
          PROVE  entries' \in Lists /\ cache' \in [names : Lists, age : 0..CACHE_TTL + 1] \cup {None}
      <4>1. [names |-> l, age |-> 0] \in [names : Lists, age : 0..CACHE_TTL + 1]
        BY <2>2
      <4>2. QED
        BY <3>3, <4>1 DEF I!TypeOK, I!_save_cached
    <3>4. QED
      BY <1>4, <2>1, <3>1, <3>2, <3>3 DEF I!catalog_community, I!refresh_source
  <2>4. QED
    BY <1>4, <2>3 DEF I!TypeOK, I!catalog_community
<1>5. CASE I!Restart
  BY <1>5 DEF I!TypeOK, I!Restart, I!IndexAssumption
<1>6. CASE UNCHANGED I!vars
  BY <1>6 DEF I!TypeOK, I!vars
<1>7. QED
  BY <1>1, <1>2, <1>3, <1>4, <1>5, <1>6 DEF I!Next

\* Every skill that the marketplace, the curated index or the installation knows has
\* one card in the feed, from the first of them that knows it, and the cards follow
\* each other in that order, for any lists and whatever the cache has gone through
\* (merge.py, merge_community).
THEOREM FeedHasPrecedence ==
  /\ I!Spec => []I!MergeIsPrecedence
  /\ MCSpec => []MergeIsPrecedence
<1>1. I!TypeOK => I!MergeIsPrecedence
  <2>1. I!TypeOK => /\ ugc \in Seq(DOMAIN slugify) /\ entries \in Seq(DOMAIN slugify)
                    /\ local \in Seq(DOMAIN slugify)
    BY IndexHolds DEF I!IndexAssumption, I!TypeOK
  <2>2. QED
    BY <2>1, FeedIsPrecedence
<1>2. I!Spec => []I!MergeIsPrecedence
  <2>1. I!Init => I!TypeOK
    BY InitIndex, IndexHolds
  <2>2. I!TypeOK /\ [I!Next]_I!vars => I!TypeOK'
    BY StepIndex, IndexHolds
  <2>3. QED
    BY <1>1, <2>1, <2>2, PTL DEF I!Spec
<1>3. MCSpec => []MergeIsPrecedence
  <2>1. MCInit => (part = "index" => I!TypeOK)
    BY InitIndex, IndexHolds DEF MCInit
  <2>2. /\ part = "index" => I!TypeOK
        /\ [MCNext]_<<part, vars, account, share, index, timed>>
        => (part = "index" => I!TypeOK)'
    <3>1. /\ [MCNext]_<<part, vars, account, share, index, timed>>
          /\ part' = "index"
          => part = "index" /\ [I!Next]_I!vars
      BY DEF MCNext, index, I!vars
    <3>2. QED
      BY <3>1, StepIndex, IndexHolds
  <2>3. (part = "index" => I!TypeOK) => MergeIsPrecedence
    BY <1>1 DEF MergeIsPrecedence
  <2>4. QED
    BY <2>1, <2>2, <2>3, PTL DEF MCSpec
<1>4. QED
  BY <1>2, <1>3

=============================================================================
