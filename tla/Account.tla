------------------------------- MODULE Account -------------------------------
(***************************************************************************)
(* The KALI account and the device-id of one installation                  *)
(* (kernel/catalog/identity.py) over restarts: what is in memory, the two  *)
(* files it is restored from, and the tokens the server still accepts.     *)
(* The library renews tokens, which uses up the old ones; a sign-out that  *)
(* reaches the server ends all sessions of the account.  Every call to the *)
(* server and every access to a file may fail.                             *)
(***************************************************************************)
EXTENDS Naturals

CONSTANTS
  Accounts,
  None,
  MaxSessions,  \* bound: sign-ins
  MaxRenewals   \* bound: renewals of one session

VARIABLES
  auth,      \* the tokens in the client's memory
  file,      \* community_session.json
  live,      \* the tokens the server accepts
  sessions,  \* sign-ins so far
  last,      \* history: who signed in last and has not signed out
  device,    \* the device-id in memory, 0 for none; ids are numbered
  store,     \* community_device_id
  ids,       \* device-ids so far
  trouble    \* history: a file could not be read, written or removed

session == <<auth, file, live, sessions, last>>
deviceId == <<device, store, ids>>
vars == <<session, deviceId, trouble>>

Tokens == [by: Accounts, no: 1..MaxSessions, gen: 0..MaxRenewals]
Renewed(t) == [t EXCEPT !.gen = @ + 1]

TypeOK ==
  /\ auth \in Tokens \cup {None} /\ file \in Tokens \cup {None} /\ live \subseteq Tokens
  /\ sessions \in 0..MaxSessions /\ last \in Accounts \cup {None} /\ trouble \in BOOLEAN
  /\ device \in Nat /\ store \in Nat /\ ids \in Nat

Init ==
  /\ auth = None /\ file = None /\ live = {} /\ sessions = 0 /\ last = None
  /\ device = 0 /\ store = 0 /\ ids = 0 /\ trouble = FALSE

-----------------------------------------------------------------------------
(* The session.                                                            *)

\* verify_magic_link: new tokens in place of those in memory, which
\* _persist_session writes to the file if it can.
verify_magic_link(a) ==
  LET t == [by |-> a, no |-> sessions + 1, gen |-> 0] IN
  /\ sessions < MaxSessions /\ sessions' = sessions + 1
  /\ auth' = t /\ live' = live \cup {t} /\ last' = a
  /\ \/ file' = t /\ UNCHANGED trouble
     \/ file' = file /\ trouble' = TRUE
  /\ UNCHANGED deviceId

\* The tokens in memory are renewed; nobody writes the new ones to the file.
Renew ==
  /\ auth \in live /\ auth.gen < MaxRenewals
  /\ auth' = Renewed(auth) /\ live' = (live \ {auth}) \cup {Renewed(auth)}
  /\ UNCHANGED <<file, sessions, last, deviceId, trouble>>

\* restore_session in a process that starts: the tokens of the file, renewed if
\* they have expired; or nobody, also when the server cannot be asked.
restore_session ==
  \/ auth' = None /\ UNCHANGED live
  \/ file \in live /\ auth' = file /\ UNCHANGED live
  \/ /\ file \in live /\ file.gen < MaxRenewals
     /\ auth' = Renewed(file) /\ live' = (live \ {file}) \cup {Renewed(file)}

Restart ==
  /\ restore_session /\ device' = 0
  /\ UNCHANGED <<file, sessions, last, store, ids, trouble>>

\* Mutant: the file goes only when the server could be told.
sign_out_late ==
  /\ last' = None
  /\ \/ /\ auth' = None /\ live' = {t \in live : auth = None \/ t.by # auth.by}
        /\ file' = None
     \/ UNCHANGED <<auth, live, file>>
  /\ UNCHANGED <<sessions, deviceId, trouble>>

\* sign_out: the file first, then the server; that either fails is ignored.
sign_out ==
  /\ last' = None
  /\ \/ file' = None /\ UNCHANGED trouble
     \/ file # None /\ file' = file /\ trouble' = TRUE
  /\ \/ auth' = None /\ live' = {t \in live : auth = None \/ t.by # auth.by}
     \/ UNCHANGED <<auth, live>>
  /\ UNCHANGED <<sessions, deviceId>>

-----------------------------------------------------------------------------
(* The device-id.                                                          *)

\* get_device_id, with nothing in memory: the stored one; or, when there is none
\* or it cannot be read, a new one, which is stored if it can be.
get_device_id ==
  /\ device = 0
  /\ \/ store # 0 /\ device' = store /\ UNCHANGED <<store, ids, trouble>>
     \/ \E unread, unwritten \in BOOLEAN :
        /\ store = 0 \/ unread
        /\ ids < MaxSessions /\ ids' = ids + 1 /\ device' = ids'
        /\ store' = IF unwritten THEN store ELSE ids'
        /\ trouble' = (trouble \/ unread \/ unwritten)
  /\ UNCHANGED session

Next == Renew \/ Restart \/ sign_out \/ get_device_id \/ \E a \in Accounts : verify_magic_link(a)

Spec == Init /\ [][Next]_vars

-----------------------------------------------------------------------------
\* As long as the files can be used, a start restores the account that signed in
\* last or nobody: never one that signed out, also when the server was not told,
\* and never one that another sign-in replaced (verify_magic_link, sign_out).
RestoredIsLast == Restart /\ ~trouble => auth' = None \/ auth'.by = last
RestoresLast == [][RestoredIsLast]_vars

\* As long as its file can be used, an installation has one device-id: a like is
\* found and taken back by the device that gave it (get_device_id: "stable across
\* calls AND across re-instantiation").
OneDevice == ids > 1 => trouble
=============================================================================
