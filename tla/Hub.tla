--------------------------------- MODULE Hub ---------------------------------
(***************************************************************************)
(* The community marketplace: the catalog client with its social and       *)
(* moderation parts (kernel/catalog/) and its routes (routers/catalog.py), *)
(* for one skill and the kernels of several users.                         *)
(*                                                                         *)
(* A route runs its calls to Supabase in line, so a kernel is in one       *)
(* operation at a time, but the calls of several kernels interleave at the *)
(* server, and each may fail.  What the server lets through are the row    *)
(* policies of supabase/migrations/; a service key is above them.  The     *)
(* catalog's connection is not the account's: it never has a session.  The *)
(* policy of the bucket is not in the repository: uploads may be accepted. *)
(***************************************************************************)
EXTENDS Naturals, FiniteSets

CONSTANTS
  Kernels,     \* one per device: the device-id is its name
  Accounts,    \* KALI accounts
  None,        \* nobody, nothing
  Who,         \* the account that is signed in at each kernel, if any
  MaxInstalls  \* bound: install events

VARIABLES
  service,   \* kernels of the moderators, which have the service key
  skill,     \* the row of skills, or None
  stored,    \* there is an object of this slug in the storage bucket
  likes, ratings, comments,  \* the tables of these names
  installs,  \* rows of the table installs
  op,        \* what each kernel is doing
  has         \* kernels that installed the skill

server == <<skill, stored, likes, ratings, comments, installs>>
vars == <<service, server, op, has>>

Idle == [do |-> "idle", by |-> None, n |-> 0]
Bundles == {"zip", "clean", "bad code", "bad prose"}
Statuses == {"pending", "approved", "flagged", "removed"}

TypeOK ==
  /\ service \subseteq Kernels
  /\ skill \in {None} \cup [status: Statuses, creator: Accounts, count: 0..MaxInstalls]
  /\ stored \in BOOLEAN /\ likes \subseteq Kernels
  /\ ratings \subseteq Accounts /\ comments \in [Accounts -> Statuses \cup {None}]
  /\ installs \in 0..MaxInstalls /\ has \subseteq Kernels
  /\ op \in [Kernels -> [do: {"idle", "publish", "fetch", "install", "record", "add", "count", "like", "rate", "comment"},
                         by: Accounts \cup Bundles \cup {None}, n: 0..MaxInstalls]]

Init ==
  /\ service \in SUBSET Kernels
  /\ skill = None /\ stored = FALSE /\ likes = {} /\ installs = 0
  /\ ratings = {} /\ comments = [a \in Accounts |-> None]
  /\ op = [k \in Kernels |-> Idle] /\ has = {}

-----------------------------------------------------------------------------
(* The server's policies, as the catalog's connection meets them.          *)

\* Rows of an account, and changes of a skill: for the service key only, since
\* the connection has no auth.uid().
Privileged(k) == k \in service

\* The row of the skill, as a lookup by its slug finds it.
Seen(k) == skill # None /\ (skill.status = "approved" \/ Privileged(k))

\* A call fails: the operation ends with an honest error.
Fail(k) ==
  /\ op[k] # Idle /\ op' = [op EXCEPT ![k] = Idle]
  /\ UNCHANGED <<server, has>>

Begin(k, what, by) == op[k] = Idle /\ op' = [op EXCEPT ![k] = [Idle EXCEPT !.do = what, !.by = by]]
At(k, what) == op[k].do = what
Goto(k, what) == op' = [op EXCEPT ![k].do = what]
End(k) == op' = [op EXCEPT ![k] = Idle]

-----------------------------------------------------------------------------
(* Publishing (client.py, moderation.py).                                  *)

\* auto_approve_gate: what it can read, and finds clean in code and in prose.
\* It reads tar, of which the other three are.
Readable(b) == b # "zip"
check_code(b) == b # "bad code"
scan_prose(b) == b # "bad prose"
auto_approve_gate(b) == Readable(b) /\ check_code(b) /\ scan_prose(b)

\* publish_skill: account-gated; the upload replaces the object of this slug.
Upload(k) ==
  /\ Who[k] # None
  /\ \E b \in Bundles : Begin(k, "publish", b) /\ stored' = TRUE
  /\ UNCHANGED <<skill, likes, ratings, comments, installs, has>>

\* ... then its row: the slug is unique.
publish_skill(k) ==
  /\ At(k, "publish") /\ Privileged(k) /\ skill = None /\ End(k)
  /\ skill' = [status |-> IF auto_approve_gate(op[k].by) THEN "approved" ELSE "pending",
               creator |-> Who[k], count |-> 0]
  /\ UNCHANGED <<stored, likes, ratings, comments, installs, has>>

\* The moderator's token is given with the service key; the routes that ask for
\* it change nothing without the key.
require_moderator(k) == Privileged(k)

set_skill_status(k) ==
  /\ op[k] = Idle /\ require_moderator(k) /\ skill # None
  /\ \E s \in Statuses : skill' = [skill EXCEPT !.status = s]
  /\ UNCHANGED <<stored, likes, ratings, comments, installs, op, has>>

-----------------------------------------------------------------------------
(* Installing (client.py, routers/catalog.py).                             *)

\* get_skill: an approved skill, also for those who would see the others.
get_skill(k) == skill # None /\ skill.status = "approved"

\* install_skill: looked up, downloaded, ...
Lookup(k) == get_skill(k) /\ Begin(k, "fetch", None) /\ UNCHANGED <<server, has>>
Download(k) == At(k, "fetch") /\ stored /\ Goto(k, "install") /\ UNCHANGED <<server, has>>

\* The route records whatever did not end in an error.
community_install(k, status) == IF status = "error" THEN End(k) ELSE Goto(k, "record")

\* ... and unpacked: it may fail, be installed, or be refused as unsafe, which
\* removes what was there.
install_skill(k) ==
  /\ At(k, "install")
  /\ \/ has' = has \cup {k} /\ community_install(k, "installed")
     \/ has' = has \ {k} /\ community_install(k, "unsafe")
     \/ has' = has /\ community_install(k, "error")
  /\ UNCHANGED server

\* Mutant: the counter is written first.
ReadAndCount(k) ==
  /\ At(k, "record") /\ Seen(k) /\ skill.count < MaxInstalls
  /\ op' = [op EXCEPT ![k].do = "add", ![k].n = skill.count]
  /\ skill' = IF Privileged(k) THEN [skill EXCEPT !.count = @ + 1] ELSE skill
  /\ UNCHANGED <<stored, likes, ratings, comments, installs, has>>

\* record_install: the counter is read, the event added, the counter written.
ReadCount(k) ==
  /\ At(k, "record") /\ Seen(k)
  /\ op' = [op EXCEPT ![k].do = "add", ![k].n = skill.count]
  /\ UNCHANGED <<server, has>>

AddInstall(k) ==
  /\ At(k, "add") /\ installs < MaxInstalls
  /\ installs' = installs + 1 /\ Goto(k, "count")
  /\ UNCHANGED <<skill, stored, likes, ratings, comments, has>>

\* Without the service key the update meets no row, and that is no error.
record_install(k) ==
  /\ At(k, "count") /\ End(k)
  /\ skill' = IF Privileged(k) THEN [skill EXCEPT !.count = op[k].n + 1] ELSE skill
  /\ UNCHANGED <<stored, likes, ratings, comments, installs, has>>

-----------------------------------------------------------------------------
(* Likes, ratings, comments (social.py).                                   *)

\* like: a device that has no like yet adds one; unlike removes it.
CheckLike(k) ==
  /\ Seen(k) /\ k \notin likes /\ Begin(k, "like", None)
  /\ UNCHANGED <<server, has>>

like(k) ==
  /\ At(k, "like") /\ End(k) /\ likes' = likes \cup {k}
  /\ UNCHANGED <<skill, stored, ratings, comments, installs, has>>

unlike(k) ==
  /\ op[k] = Idle /\ likes' = likes \ {k}
  /\ UNCHANGED <<skill, stored, ratings, comments, installs, op, has>>

\* set_rating and post_comment: for an account, which is asked for before the
\* skill is looked up.
AsAccount(k) ==
  /\ Who[k] # None
  /\ \E what \in {"rate", "comment"} : Begin(k, what, Who[k])
  /\ UNCHANGED <<server, has>>

set_rating(k) ==
  /\ At(k, "rate") /\ Seen(k) /\ Privileged(k) /\ End(k)
  /\ ratings' = ratings \cup {op[k].by}
  /\ UNCHANGED <<skill, stored, likes, comments, installs, has>>

post_comment(k) ==
  /\ At(k, "comment") /\ Seen(k) /\ Privileged(k) /\ End(k)
  /\ comments' = [comments EXCEPT ![op[k].by] = "pending"]
  /\ UNCHANGED <<skill, stored, likes, ratings, installs, has>>

set_comment_status(k) ==
  /\ op[k] = Idle /\ require_moderator(k)
  /\ \E a \in Accounts, s \in Statuses : comments[a] # None /\ comments' = [comments EXCEPT ![a] = s]
  /\ UNCHANGED <<skill, stored, likes, ratings, installs, op, has>>

Step(k) ==
  \/ Fail(k) \/ Upload(k) \/ publish_skill(k) \/ set_skill_status(k)
  \/ Lookup(k) \/ Download(k) \/ install_skill(k) \/ ReadCount(k) \/ AddInstall(k) \/ record_install(k)
  \/ CheckLike(k) \/ like(k) \/ unlike(k) \/ AsAccount(k) \/ set_rating(k) \/ post_comment(k) \/ set_comment_status(k)

Next == \E k \in Kernels : Step(k) /\ UNCHANGED service

Spec == Init /\ [][Next]_vars

-----------------------------------------------------------------------------
\* The install counter may fall behind the events when recordings interleave,
\* but it never runs ahead of them, whichever call fails (record_install:
\* "Record an install event + increment the skill's install counter").
CountWithinInstalls == skill # None => skill.count <= installs

=============================================================================
