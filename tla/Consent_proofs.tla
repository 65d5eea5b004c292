--------------------------- MODULE Consent_proofs ---------------------------
(***************************************************************************)
(* Theorems about Consent, for every set of requests, every choice of      *)
(* operations and every number of rediscoveries and restarts.  The module  *)
(* extends the one that the kernel run checks, where Consent is C, its pc  *)
(* is at and its op is does; the theorems speak of C's own specification   *)
(* and of the run's.                                                       *)
(***************************************************************************)
EXTENDS MCKernel, Sequences, TLAPS

CallsOfDb == [task : Tasks, kind : {"get", "set"}, value : C!Consents]
Waiting == {"reading", "writing"}
PlacesOfTask == {"idle", "starting", "initializing", "loaded", "reading", "deciding", "writing"}

\* The part of TypeOK that the argument needs.
Shape ==
  /\ current \in C!Manifests /\ approved \in [C!Manifests -> BOOLEAN]
  /\ enforcer \in C!Manifests \cup {C!Unknown}
  /\ db \in C!Consents /\ dbq \in Seq(CallsOfDb)
  /\ at \in [Tasks -> PlacesOfTask] /\ does \in [Tasks -> C!AllOps]
  /\ captured \in [Tasks -> C!Manifests \cup {C!Unknown}] /\ seen \in [Tasks -> C!Consents]
  /\ word \in C!Consents /\ acked \in C!Consents

\* Whoever has a call in the queue waits for it, and has no other there.
WaitInv ==
  /\ \A j \in 1..Len(dbq) : /\ dbq[j].task \in Tasks
                            /\ \/ dbq[j].kind = "get" /\ at[dbq[j].task] = "reading"
                               \/ dbq[j].kind = "set" /\ at[dbq[j].task] = "writing"
  /\ \A i, j \in 1..Len(dbq) : dbq[i].task = dbq[j].task => i = j

Explicit(j) == dbq[j].kind = "set" /\ does[dbq[j].task] # "execute"
Implicit(j) == dbq[j].kind = "set" /\ does[dbq[j].task] = "execute"

\* The user's last word is the last decision of his in the queue, or, with none
\* there, the one that was answered last.
WordInv ==
  \/ /\ \A j \in 1..Len(dbq) : ~Explicit(j)
     /\ acked = word
  \/ \E k \in 1..Len(dbq) : /\ Explicit(k) /\ dbq[k].value = word
                            /\ \A j \in 1..Len(dbq) : Explicit(j) => j <= k

\* No implicit approval follows a revoke without a decision of the user between
\* them, neither in the queue nor after the last answered decision.
OrderInv ==
  /\ \A i, j \in 1..Len(dbq) :
       Explicit(i) /\ dbq[i].value = "revoked" /\ Implicit(j) /\ i < j
         => \E k \in 1..Len(dbq) : i < k /\ k < j /\ Explicit(k)
  /\ \A j \in 1..Len(dbq) :
       acked = "revoked" /\ Implicit(j) => \E k \in 1..Len(dbq) : k < j /\ Explicit(k)
  /\ acked = "revoked" => db = "revoked"

\* After a revoke, who asks for the consent will see it, or has.
SeenInv ==
  word = "revoked" =>
    /\ \A j, k \in 1..Len(dbq) : dbq[j].kind = "get" /\ Explicit(k) => k < j
    /\ \A t \in Tasks : at[t] = "deciding" => seen[t] = "revoked"

\* After a revoke the registry's manifest is not approved; later ones are not.
FlagInv ==
  /\ \A m \in C!Manifests : m > current => ~approved[m]
  /\ word = "revoked" /\ ~crossed => ~approved[current]

\* Unless a revoke or a load met a replaced manifest, the enforcer's is denied.
DeniedInv == word = "revoked" /\ ~crossed /\ ~detached /\ enforcer # C!Unknown => ~approved[enforcer]

\* Who decides holds a manifest that discover() has made.
HeldInv ==
  \A t \in Tasks : at[t] \in {"reading", "deciding"} => captured[t] # C!Unknown /\ captured[t] <= current

\* A direct call is an execution.
CallInv == \A t \in Tasks : at[t] \in {"reading", "deciding"} => does[t] = "execute"

ConsentInv == /\ Shape /\ WaitInv /\ WordInv /\ FlagInv /\ DeniedInv /\ HeldInv /\ CallInv
              /\ ~crossed => OrderInv /\ SeenInv

\* Only the bound on the manifests is needed, and that there is one.
Bound == MaxManifests \in Nat \ {0}

\* ConsentInv holds initially: nobody has decided anything.
LEMMA InitConsentInv == ASSUME Bound PROVE C!Init => ConsentInv
<1> SUFFICES ASSUME C!Init PROVE ConsentInv
  OBVIOUS
<1>1. dbq = <<>> /\ Len(dbq) = 0 /\ acked = word /\ word = "none" /\ \A t \in Tasks : at[t] = "idle"
  BY DEF C!Init
<1>2. Shape
  BY DEF C!Init, Bound, Shape, C!Manifests, C!Unknown, C!Consents, PlacesOfTask, C!AllOps
<1>3. WaitInv /\ WordInv /\ OrderInv /\ SeenInv /\ DeniedInv /\ HeldInv /\ CallInv
  BY <1>1 DEF WaitInv, WordInv, OrderInv, SeenInv, DeniedInv, HeldInv, CallInv
<1>4. FlagInv
  <2>1. current = 1 /\ \A m \in C!Manifests : approved[m] => m = 1
    BY DEF C!Init
  <2>2. \A m \in C!Manifests : m > 1 => ~approved[m]
    BY <2>1
  <2>3. QED
    BY <1>1, <2>1, <2>2 DEF FlagInv
<1>5. QED
  BY <1>2, <1>3, <1>4 DEF ConsentInv

-----------------------------------------------------------------------------
(* What a step does to the queue and the rest.                             *)

\* A task outside the database goes on, having made no decision.
Moves(t) ==
  /\ at[t] \notin Waiting
  /\ \E x \in PlacesOfTask \ {"reading", "writing", "deciding"} : at' = [at EXCEPT ![t] = x]
  /\ \E o \in C!AllOps : does' = [does EXCEPT ![t] = o]
  /\ \/ UNCHANGED <<enforcer, captured, detached>>
     \/ UNCHANGED <<enforcer, detached>> /\ captured' = [captured EXCEPT ![t] = current]
     \/ /\ enforcer' = captured[t] /\ detached' = (detached \/ captured[t] # current)
        /\ UNCHANGED captured
  /\ UNCHANGED <<current, approved, db, dbq, seen, word, acked, crossed>>

\* A direct call asks for the consent.
Asks(t) ==
  /\ at[t] \notin Waiting
  /\ does' = [does EXCEPT ![t] = "execute"] /\ C!AskDb(t, "get", "none") /\ C!At(t, "reading")
  /\ captured' = [captured EXCEPT ![t] = current]
  /\ UNCHANGED <<current, approved, enforcer, db, seen, word, acked, crossed, detached>>

\* The user enables the agent, or a direct call does.
Grants(t) ==
  /\ at[t] \notin Waiting
  /\ \/ C!Grant(t, current) /\ does' = [does EXCEPT ![t] = "enable"] /\ word' = "approved"
     \/ /\ at[t] = "deciding" /\ seen[t] # "revoked"
        /\ C!Grant(t, captured[t]) /\ UNCHANGED <<does, word>>
  /\ UNCHANGED <<db, captured, seen, acked, crossed, detached>>

\* The steps of the tasks, by kind; setting op to what it is changes nothing.
LEMMA AfterLoadKinds ==
  ASSUME Shape, NEW t \in Tasks, at[t] \in {"idle", "loaded"}, NEW o \in C!AllOps,
         C!AfterLoad(t, o), does' = [does EXCEPT ![t] = o],
         UNCHANGED <<db, seen, acked, crossed, detached>>
  PROVE  Moves(t) \/ Asks(t) \/ Grants(t)
<1> USE DEF Waiting
<1>1. CASE o = "enable"
  BY <1>1 DEF C!AfterLoad, Grants
<1>2. CASE o = "execute"
  BY <1>2 DEF C!AfterLoad, Asks, C!mem
<1>3. CASE o \notin {"enable", "execute"}
  <2>1. UNCHANGED <<C!mem, dbq, captured, word>> /\ at' = [at EXCEPT ![t] = "idle"]
    BY <1>3 DEF C!AfterLoad, C!At
  <2>2. QED
    BY <1>3, <2>1 DEF Moves, C!mem, PlacesOfTask, C!AllOps, Shape
<1>4. QED
  BY <1>1, <1>2, <1>3

-----------------------------------------------------------------------------
\* No step of a task outside the database breaks ConsentInv.
LEMMA MovesKeep == ASSUME Bound, ConsentInv, NEW t \in Tasks, Moves(t) PROVE ConsentInv'
<1> USE DEF ConsentInv
<1>1. PICK x \in PlacesOfTask \ {"reading", "writing", "deciding"} : at' = [at EXCEPT ![t] = x]
  BY DEF Moves
<1>2. PICK o \in C!AllOps : does' = [does EXCEPT ![t] = o]
  BY DEF Moves
<1>3. /\ at[t] \notin Waiting /\ UNCHANGED <<current, approved, db, dbq, seen, word, acked, crossed>>
      /\ enforcer' \in C!Manifests \cup {C!Unknown} /\ captured' \in [Tasks -> C!Manifests \cup {C!Unknown}]
      /\ \A u \in Tasks \ {t} : captured'[u] = captured[u]
      /\ \/ enforcer' = enforcer /\ detached' = detached
         \/ enforcer' = current \/ detached'
  BY DEF Moves, Shape
<1>4. Shape'
  BY <1>1, <1>2, <1>3 DEF Shape
<1>5. \A j \in 1..Len(dbq) : dbq[j].task # t
  BY <1>3 DEF WaitInv, Waiting
<1>6. \A j \in 1..Len(dbq) : dbq'[j] = dbq[j] /\ does'[dbq[j].task] = does[dbq[j].task] /\ at'[dbq[j].task] = at[dbq[j].task]
  BY <1>1, <1>2, <1>3, <1>5 DEF WaitInv, Shape
<1>7. \A j \in 1..Len(dbq) : (Explicit(j)' <=> Explicit(j)) /\ (Implicit(j)' <=> Implicit(j))
  BY <1>6 DEF Explicit, Implicit
<1>8. WaitInv'
  BY <1>3, <1>6 DEF WaitInv
<1>9. WordInv'
  BY <1>3, <1>7 DEF WordInv
<1>10. OrderInv => OrderInv'
  BY <1>3, <1>7 DEF OrderInv
<1>11. SeenInv => SeenInv'
  BY <1>1, <1>3, <1>7 DEF SeenInv, Shape
<1>12. FlagInv' /\ CallInv' /\ DeniedInv' /\ HeldInv'
  BY <1>1, <1>2, <1>3 DEF FlagInv, CallInv, DeniedInv, HeldInv, Shape
<1>13. QED
  BY <1>3, <1>4, <1>8, <1>9, <1>10, <1>11, <1>12

\* What an append does, in terms that need no sequences.
LEMMA AppendFacts ==
  ASSUME Shape, NEW e \in CallsOfDb, dbq' = Append(dbq, e)
  PROVE  /\ Len(dbq) \in Nat /\ Len(dbq') = Len(dbq) + 1 /\ dbq' \in Seq(CallsOfDb)
         /\ \A j \in 1..Len(dbq) : dbq'[j] = dbq[j]
         /\ dbq'[Len(dbq) + 1] = e
BY DEF Shape

\* A question of a direct call comes after every decision.
LEMMA AsksKeep == ASSUME Bound, ConsentInv, NEW t \in Tasks, Asks(t) PROVE ConsentInv'
<1> USE DEF ConsentInv
<1> DEFINE e == [task |-> t, kind |-> "get", value |-> "none"]
<1>1. /\ at[t] \notin Waiting /\ at' = [at EXCEPT ![t] = "reading"] /\ does' = [does EXCEPT ![t] = "execute"]
      /\ captured' = [captured EXCEPT ![t] = current]
      /\ UNCHANGED <<current, approved, enforcer, db, seen, word, acked, crossed, detached>>
  BY DEF Asks, C!At
<1>0. PICK n \in Nat : n = Len(dbq)
  BY DEF Shape
<1>2. /\ Len(dbq') = n + 1 /\ dbq' \in Seq(CallsOfDb)
      /\ \A j \in 1..n : dbq'[j] = dbq[j]
      /\ dbq'[n + 1] = e
  <2>1. e \in CallsOfDb
    BY DEF CallsOfDb, C!Consents
  <2>2. QED
    BY <1>0, <2>1, AppendFacts DEF Asks, C!AskDb
<1>3. dbq'[n + 1].task = t /\ dbq'[n + 1].kind = "get"
  BY <1>2
<1> HIDE DEF e
<1>4. \A j \in 1..n : dbq[j].task \in Tasks /\ dbq[j].task # t
  BY <1>0, <1>1 DEF WaitInv, Waiting
<1>5. \A j \in 1..n : dbq'[j] = dbq[j] /\ does'[dbq[j].task] = does[dbq[j].task] /\ at'[dbq[j].task] = at[dbq[j].task]
  BY <1>1, <1>2, <1>4 DEF Shape
<1>6. /\ \A j \in 1..n : (Explicit(j)' <=> Explicit(j)) /\ (Implicit(j)' <=> Implicit(j))
      /\ ~Explicit(n + 1)' /\ ~Implicit(n + 1)'
  BY <1>3, <1>5 DEF Explicit, Implicit
<1>7. \A j \in 1..Len(dbq') : j \in 1..n \/ j = n + 1
  BY <1>2
<1>8. 1..n \subseteq 1..Len(dbq')
  BY <1>2
<1>9. Shape'
  BY <1>1, <1>2 DEF Shape, PlacesOfTask, C!AllOps
<1>10. WaitInv'
  BY <1>0, <1>1, <1>3, <1>4, <1>5, <1>7 DEF WaitInv, Shape
<1>11. WordInv'
  BY <1>0, <1>1, <1>5, <1>6, <1>7, <1>8 DEF WordInv
<1>12. OrderInv => OrderInv'
  BY <1>0, <1>1, <1>5, <1>6, <1>7, <1>8 DEF OrderInv
<1>13. SeenInv => SeenInv'
  BY <1>0, <1>1, <1>2, <1>5, <1>6, <1>7 DEF SeenInv, Shape
<1>14. FlagInv' /\ CallInv' /\ DeniedInv'
  BY <1>1 DEF FlagInv, CallInv, DeniedInv, Shape
<1>16. HeldInv'
  BY <1>1 DEF HeldInv, Shape, C!Manifests, C!Unknown
<1>15. QED
  BY <1>1, <1>9, <1>10, <1>11, <1>12, <1>13, <1>14, <1>16

\* A grant follows the user's word, or no revoke.
LEMMA GrantsKeep == ASSUME Bound, ConsentInv, NEW t \in Tasks, Grants(t) PROVE ConsentInv'
<1> USE DEF ConsentInv
<1> DEFINE e == [task |-> t, kind |-> "set", value |-> "approved"]
<1>20. PICK m \in C!Manifests : m <= current /\ C!Grant(t, m)
  BY DEF Grants, HeldInv, Shape, C!Manifests
<1>1. /\ at[t] \notin Waiting /\ at' = [at EXCEPT ![t] = "writing"]
      /\ approved' = [approved EXCEPT ![m] = TRUE] /\ enforcer' = m
      /\ UNCHANGED <<current, db, captured, seen, acked, crossed, detached>>
  BY <1>20 DEF Grants, C!Grant, C!At
<1>0. PICK n \in Nat : n = Len(dbq)
  BY DEF Shape
<1>2. /\ Len(dbq') = n + 1 /\ dbq' \in Seq(CallsOfDb)
      /\ \A j \in 1..n : dbq'[j] = dbq[j]
      /\ dbq'[n + 1] = e
  <2>1. e \in CallsOfDb
    BY DEF CallsOfDb, C!Consents
  <2>2. QED
    BY <1>0, <1>20, <2>1, AppendFacts DEF C!Grant, C!AskDb
<1>3. dbq'[n + 1].task = t /\ dbq'[n + 1].kind = "set" /\ dbq'[n + 1].value = "approved"
  BY <1>2
<1> HIDE DEF e
<1>4. \A j \in 1..n : dbq[j].task \in Tasks /\ dbq[j].task # t
  BY <1>0, <1>1 DEF WaitInv, Waiting
<1>5. does' \in [Tasks -> C!AllOps] /\ \A u \in Tasks \ {t} : does'[u] = does[u]
  BY DEF Grants, Shape, C!AllOps
<1>6. \A j \in 1..n : dbq'[j] = dbq[j] /\ does'[dbq[j].task] = does[dbq[j].task] /\ at'[dbq[j].task] = at[dbq[j].task]
  BY <1>1, <1>2, <1>4, <1>5 DEF Shape
<1>7. \A j \in 1..n : (Explicit(j)' <=> Explicit(j)) /\ (Implicit(j)' <=> Implicit(j))
  BY <1>6 DEF Explicit, Implicit
<1>8. \A j \in 1..Len(dbq') : j \in 1..n \/ j = n + 1
  BY <1>2
<1>9. 1..n \subseteq 1..Len(dbq') /\ n + 1 \in 1..Len(dbq')
  BY <1>2
<1>10. WaitInv'
  <2>1. \A j \in 1..n : dbq'[j].task = dbq[j].task /\ dbq'[j].kind = dbq[j].kind /\ at'[dbq[j].task] = at[dbq[j].task]
    BY <1>2, <1>6
  <2>2. at'[t] = "writing"
    BY <1>1 DEF Shape
  <2>3. \A j \in 1..Len(dbq') :
          /\ dbq'[j].task \in Tasks
          /\ \/ dbq'[j].kind = "get" /\ at'[dbq'[j].task] = "reading"
             \/ dbq'[j].kind = "set" /\ at'[dbq'[j].task] = "writing"
    BY <1>0, <1>3, <1>8, <2>1, <2>2 DEF WaitInv
  <2>4. \A i, j \in 1..Len(dbq') : dbq'[i].task = dbq'[j].task => i = j
    BY <1>0, <1>3, <1>4, <1>8, <2>1 DEF WaitInv
  <2>5. QED
    BY <2>3, <2>4 DEF WaitInv
<1>11. CallInv' /\ HeldInv'
  BY <1>1, <1>5 DEF CallInv, HeldInv, Shape
<1>12. CASE does' = [does EXCEPT ![t] = "enable"] /\ word' = "approved"
  <2>1. Explicit(n + 1)' /\ ~Implicit(n + 1)'
    BY <1>3, <1>12 DEF Explicit, Implicit, Shape
  <2>2. Shape'
    BY <1>1, <1>2, <1>5, <1>12 DEF Shape, PlacesOfTask, C!Consents
  <2>3. WordInv'
    BY <1>0, <1>2, <1>3, <1>8, <1>9, <1>12, <2>1 DEF WordInv
  <2>4. OrderInv => OrderInv'
    <3>1. acked' = acked /\ db' = db
      BY <1>1
    <3>2. QED
      BY <1>0, <1>6, <1>7, <1>8, <1>9, <2>1, <3>1 DEF OrderInv
  <2>5. SeenInv' /\ FlagInv' /\ DeniedInv'
    BY <1>0, <1>1, <1>12, <1>20 DEF SeenInv, FlagInv, DeniedInv, Shape, C!Manifests
  <2>6. QED
    BY <1>1, <1>10, <1>11, <2>2, <2>3, <2>4, <2>5
<1>13. CASE at[t] = "deciding" /\ seen[t] # "revoked" /\ UNCHANGED <<does, word>>
  <2>1. ~Explicit(n + 1)'
    BY <1>3, <1>13 DEF Explicit, CallInv
  <2>2. Shape'
    BY <1>1, <1>2, <1>13 DEF Shape, PlacesOfTask
  <2>3. WordInv'
    BY <1>0, <1>1, <1>6, <1>7, <1>8, <1>9, <1>13, <2>1 DEF WordInv
  <2>4. ~crossed => word # "revoked"
    BY <1>0, <1>13 DEF SeenInv
  <2>5. ~crossed => OrderInv'
    BY <1>0, <1>1, <1>2, <1>6, <1>7, <1>8, <1>9, <2>1, <2>4 DEF OrderInv, WordInv
  <2>6. ~crossed => SeenInv'
    BY <1>13, <2>4 DEF SeenInv
  <2>8. FlagInv' /\ DeniedInv'
    BY <1>1, <1>13, <1>20, <2>4 DEF FlagInv, DeniedInv, Shape, C!Manifests
  <2>7. QED
    BY <1>1, <1>10, <1>11, <2>2, <2>3, <2>5, <2>6, <2>8
<1>14. QED
  BY <1>12, <1>13 DEF Grants

\* A revoke finds no direct call deciding, or is crossed.
LEMMA RevokeKeeps == ASSUME Bound, ConsentInv, NEW t \in Tasks, C!Revoke(t) PROVE ConsentInv'
<1> USE DEF ConsentInv
<1> DEFINE e == [task |-> t, kind |-> "set", value |-> "revoked"]
<1>0. PICK n \in Nat : n = Len(dbq)
  BY DEF Shape
<1>1. /\ at[t] = "idle" /\ at' = [at EXCEPT ![t] = "writing"] /\ does' = [does EXCEPT ![t] = "revoke"]
      /\ approved' = [approved EXCEPT ![current] = FALSE] /\ word' = "revoked"
      /\ crossed' = (crossed \/ C!Deciding)
      /\ detached' = (detached \/ enforcer \notin {C!Unknown, current})
      /\ UNCHANGED <<current, enforcer, db, captured, seen, acked>>
  BY DEF C!Revoke, C!At
<1>2. /\ Len(dbq') = n + 1 /\ dbq' \in Seq(CallsOfDb)
      /\ \A j \in 1..n : dbq'[j] = dbq[j]
      /\ dbq'[n + 1] = e
  <2>1. e \in CallsOfDb
    BY DEF CallsOfDb, C!Consents
  <2>2. QED
    BY <1>0, <2>1, AppendFacts DEF C!Revoke, C!AskDb
<1>3. dbq'[n + 1].task = t /\ dbq'[n + 1].kind = "set" /\ dbq'[n + 1].value = "revoked"
  BY <1>2
<1> HIDE DEF e
<1>4. \A j \in 1..n : dbq[j].task \in Tasks /\ dbq[j].task # t
  BY <1>0, <1>1 DEF WaitInv
<1>5. \A j \in 1..n : dbq'[j] = dbq[j] /\ does'[dbq[j].task] = does[dbq[j].task] /\ at'[dbq[j].task] = at[dbq[j].task]
  BY <1>1, <1>2, <1>4 DEF Shape
<1>6. \A j \in 1..n : (Explicit(j)' <=> Explicit(j)) /\ (Implicit(j)' <=> Implicit(j))
  BY <1>5 DEF Explicit, Implicit
<1>7. Explicit(n + 1)' /\ ~Implicit(n + 1)'
  BY <1>1, <1>3 DEF Explicit, Implicit, Shape
<1>8. \A j \in 1..Len(dbq') : j \in 1..n \/ j = n + 1
  BY <1>2
<1>9. 1..n \subseteq 1..Len(dbq') /\ n + 1 \in 1..Len(dbq')
  BY <1>2
<1>10. Shape'
  BY <1>1, <1>2 DEF Shape, PlacesOfTask, C!AllOps, C!Consents
<1>11. WaitInv'
  <2>1. \A j \in 1..n : /\ dbq'[j].task \in Tasks
                        /\ \/ dbq'[j].kind = "get" /\ at'[dbq'[j].task] = "reading"
                           \/ dbq'[j].kind = "set" /\ at'[dbq'[j].task] = "writing"
    BY <1>0, <1>5 DEF WaitInv
  <2>2. at'[t] = "writing"
    BY <1>1 DEF Shape
  <2>3. \A i, j \in 1..n : dbq'[i].task = dbq'[j].task => i = j
    BY <1>0, <1>5 DEF WaitInv
  <2>4. \A j \in 1..n : dbq'[j].task # t
    BY <1>4, <1>5
  <2>5. QED
    BY <1>3, <1>8, <2>1, <2>2, <2>3, <2>4 DEF WaitInv
<1>12. WordInv'
  BY <1>1, <1>2, <1>3, <1>8, <1>9, <1>7 DEF WordInv
<1>13. OrderInv => OrderInv'
  BY <1>0, <1>1, <1>5, <1>6, <1>7, <1>8, <1>9 DEF OrderInv
<1>14. ~C!Deciding => SeenInv'
  <2> SUFFICES ASSUME ~C!Deciding PROVE SeenInv'
    OBVIOUS
  <2>1. \A u \in Tasks : at[u] \notin {"reading", "deciding"}
    BY DEF C!Deciding
  <2>2. \A j \in 1..Len(dbq') : dbq'[j].kind = "set"
    BY <1>0, <1>3, <1>5, <1>8, <2>1 DEF WaitInv
  <2>3. \A u \in Tasks : at'[u] # "deciding"
    BY <1>1, <2>1 DEF Shape
  <2>4. QED
    BY <2>2, <2>3 DEF SeenInv
<1>15. CallInv'
  BY <1>1 DEF CallInv, Shape
<1>16. FlagInv' /\ DeniedInv' /\ HeldInv'
  BY <1>1 DEF FlagInv, DeniedInv, HeldInv, Shape
<1>17. QED
  BY <1>1, <1>10, <1>11, <1>12, <1>13, <1>14, <1>15, <1>16

\* The database takes the oldest call.
LEMMA DbServesKeeps == ASSUME Bound, ConsentInv, C!DbServes PROVE ConsentInv'
<1> USE DEF ConsentInv
<1>0. PICK n \in Nat : n + 1 = Len(dbq)
  <2>1. Len(dbq) \in Nat /\ Len(dbq) # 0
    BY DEF C!DbServes, Shape
  <2>2. Len(dbq) - 1 \in Nat
    BY <2>1
  <2>3. QED
    BY <2>2, <2>1
<1>1. PICK u \in Tasks : u = dbq[1].task
  BY <1>0 DEF WaitInv
<1>2. /\ Len(dbq') = n /\ dbq' \in Seq(CallsOfDb)
      /\ \A j \in 1..n : j + 1 \in 1..Len(dbq) /\ dbq'[j] = dbq[j + 1]
  BY <1>0 DEF C!DbServes, Shape
<1>3. /\ UNCHANGED <<current, approved, enforcer, loaded, does, captured, word, crossed, detached>>
      /\ \/ /\ dbq[1].kind = "get" /\ seen' = [seen EXCEPT ![u] = db]
            /\ at' = [at EXCEPT ![u] = "deciding"] /\ UNCHANGED <<db, acked>>
         \/ /\ dbq[1].kind = "set" /\ db' = dbq[1].value
            /\ acked' = IF does[u] = "execute" THEN acked ELSE dbq[1].value
            /\ at' = [at EXCEPT ![u] = "idle"] /\ UNCHANGED seen
  BY <1>1 DEF C!DbServes, C!At, C!mem
<1>4. \A j \in 1..n : dbq'[j].task \in Tasks /\ dbq'[j].task # u
  <2>1. \A j \in 1..n : j + 1 # 1 /\ 1 \in 1..Len(dbq)
    BY <1>0
  <2>2. QED
    BY <1>0, <1>1, <1>2, <2>1 DEF WaitInv
<1>5. \A j \in 1..n : at'[dbq'[j].task] = at[dbq'[j].task]
  BY <1>3, <1>4 DEF Shape
<1>6. \A j \in 1..n : (Explicit(j)' <=> Explicit(j + 1)) /\ (Implicit(j)' <=> Implicit(j + 1))
  BY <1>2, <1>3 DEF Explicit, Implicit
<1>7. 1 \in 1..Len(dbq) /\ \A k \in 1..Len(dbq) : k = 1 \/ (k - 1 \in 1..n /\ (k - 1) + 1 = k)
  BY <1>0
<1>8. dbq[1] \in CallsOfDb
  BY <1>7 DEF Shape
<1>9. Shape'
  <2>1. at' \in [Tasks -> PlacesOfTask] /\ seen' \in [Tasks -> C!Consents]
    BY <1>3 DEF Shape, PlacesOfTask
  <2>2. dbq[1].value \in C!Consents
    BY <1>8 DEF CallsOfDb
  <2>3. db' \in C!Consents /\ acked' \in C!Consents
    BY <1>3, <2>2 DEF Shape
  <2>4. QED
    BY <1>2, <1>3, <2>1, <2>3 DEF Shape
<1>10. WaitInv'
  <2>1. \A j \in 1..n : \/ dbq'[j].kind = "get" /\ at'[dbq'[j].task] = "reading"
                        \/ dbq'[j].kind = "set" /\ at'[dbq'[j].task] = "writing"
    BY <1>2, <1>5 DEF WaitInv
  <2>2. \A i, j \in 1..n : dbq'[i].task = dbq'[j].task => i = j
    <3>1. \A i, j \in 1..n : i + 1 = j + 1 => i = j
      OBVIOUS
    <3>2. QED
      BY <1>2, <3>1 DEF WaitInv
  <2>3. QED
    BY <1>2, <1>4, <2>1, <2>2 DEF WaitInv
<1>11. WordInv'
  <2>1. CASE Explicit(1)
    <3>1. acked' = dbq[1].value
      BY <1>1, <1>3, <2>1 DEF Explicit
    <3>2. PICK k \in 1..Len(dbq) : /\ Explicit(k) /\ dbq[k].value = word
                                  /\ \A j \in 1..Len(dbq) : Explicit(j) => j <= k
      BY <1>7, <2>1 DEF WordInv
    <3>3. CASE k = 1
      <4>1. \A j \in 1..n : ~Explicit(j + 1)
        BY <1>2, <3>2, <3>3
      <4>2. QED
        BY <1>2, <1>3, <1>6, <3>1, <3>2, <3>3, <4>1 DEF WordInv
    <3>4. CASE k # 1
      <4>1. k - 1 \in 1..n /\ Explicit(k - 1)' /\ dbq'[k - 1].value = word
        BY <1>2, <1>6, <1>7, <3>2, <3>4
      <4>2. \A j \in 1..n : Explicit(j)' => j <= k - 1
        BY <1>2, <1>6, <3>2
      <4>3. QED
        BY <1>2, <1>3, <4>1, <4>2 DEF WordInv
    <3>5. QED
      BY <3>3, <3>4
  <2>2. CASE ~Explicit(1)
    <3>1. acked' = acked
      BY <1>1, <1>3, <2>2 DEF Explicit
    <3>2. CASE \A j \in 1..Len(dbq) : ~Explicit(j)
      BY <1>2, <1>3, <1>6, <3>1, <3>2 DEF WordInv
    <3>3. ASSUME NEW k \in 1..Len(dbq), Explicit(k), dbq[k].value = word,
                 \A j \in 1..Len(dbq) : Explicit(j) => j <= k
          PROVE  WordInv'
      <4>1. k - 1 \in 1..n /\ Explicit(k - 1)' /\ dbq'[k - 1].value = word
        BY <1>2, <1>6, <1>7, <2>2, <3>3
      <4>2. \A j \in 1..n : Explicit(j)' => j <= k - 1
        BY <1>2, <1>6, <3>3
      <4>3. QED
        BY <1>2, <1>3, <4>1, <4>2 DEF WordInv
    <3>4. QED
      BY <3>2, <3>3 DEF WordInv
  <2>3. QED
    BY <2>1, <2>2
<1>12. OrderInv => OrderInv'
  <2> SUFFICES ASSUME OrderInv PROVE OrderInv'
    OBVIOUS
  <2>1. ASSUME NEW j \in 1..n, Implicit(j)', NEW i \in 0..n, i < j,
               \E k \in 1..Len(dbq) : i + 1 < k /\ k < j + 1 /\ Explicit(k)
        PROVE  \E k \in 1..n : i < k /\ k < j /\ Explicit(k)'
    <3>1. PICK k \in 1..Len(dbq) : i + 1 < k /\ k < j + 1 /\ Explicit(k)
      BY <2>1
    <3>2. k - 1 \in 1..n /\ i < k - 1 /\ k - 1 < j /\ Explicit(k - 1)'
      BY <1>6, <1>7, <3>1
    <3>3. QED
      BY <3>2
  <2>2. \A i, j \in 1..n : Explicit(i)' /\ dbq'[i].value = "revoked" /\ Implicit(j)' /\ i < j
                          => \E k \in 1..n : i < k /\ k < j /\ Explicit(k)'
    <3> SUFFICES ASSUME NEW i \in 1..n, NEW j \in 1..n,
                        Explicit(i)', dbq'[i].value = "revoked", Implicit(j)', i < j
                 PROVE  \E k \in 1..n : i < k /\ k < j /\ Explicit(k)'
      OBVIOUS
    <3>1. /\ i + 1 \in 1..Len(dbq) /\ j + 1 \in 1..Len(dbq) /\ i + 1 < j + 1
          /\ Explicit(i + 1) /\ Implicit(j + 1) /\ dbq[i + 1].value = "revoked"
      BY <1>2, <1>6
    <3>2. \E k \in 1..Len(dbq) : i + 1 < k /\ k < j + 1 /\ Explicit(k)
      BY <3>1 DEF OrderInv
    <3>3. QED
      BY <2>1, <3>2
  <2>3. CASE Explicit(1)
    <3>1. acked' = dbq[1].value /\ db' = dbq[1].value
      BY <1>1, <1>3, <2>3 DEF Explicit
    <3>2. ASSUME NEW j \in 1..n, acked' = "revoked", Implicit(j)'
          PROVE  \E k \in 1..n : k < j /\ Explicit(k)'
      <4>1. j + 1 \in 1..Len(dbq) /\ 1 < j + 1 /\ Implicit(j + 1) /\ dbq[1].value = "revoked"
        BY <1>2, <1>6, <3>1, <3>2
      <4>2. \E k \in 1..Len(dbq) : 1 < k /\ k < j + 1 /\ Explicit(k)
        BY <1>7, <2>3, <4>1 DEF OrderInv
      <4>3. 0 \in 0..n /\ 0 < j /\ 0 + 1 = 1
        OBVIOUS
      <4>4. QED
        BY <2>1, <3>2, <4>2, <4>3
    <3>3. QED
      BY <1>2, <2>2, <3>1, <3>2 DEF OrderInv
  <2>4. CASE ~Explicit(1)
    <3>1. acked' = acked
      BY <1>1, <1>3, <2>4 DEF Explicit
    <3>2. ASSUME NEW j \in 1..n, acked' = "revoked", Implicit(j)'
          PROVE  \E k \in 1..n : k < j /\ Explicit(k)'
      <4>1. PICK k \in 1..Len(dbq) : k < j + 1 /\ Explicit(k)
        BY <1>2, <1>6, <3>1, <3>2 DEF OrderInv
      <4>2. 0 + 1 < k
        BY <1>7, <2>4, <4>1
      <4>3. QED
        BY <2>1, <3>2, <4>1, <4>2
    <3>3. acked' = "revoked" => db' = "revoked"
      <4>1. acked = "revoked" => ~Implicit(1)
        BY <1>7 DEF OrderInv
      <4>2. dbq[1].kind = "get" \/ Implicit(1)
        BY <1>8, <2>4 DEF Explicit, Implicit, CallsOfDb
      <4>3. QED
        BY <1>3, <3>1, <4>1, <4>2 DEF OrderInv, Implicit
    <3>4. QED
      BY <1>2, <2>2, <3>2, <3>3 DEF OrderInv
  <2>5. QED
    BY <2>3, <2>4
<1>13. OrderInv /\ SeenInv => SeenInv'
  <2> SUFFICES ASSUME OrderInv, SeenInv, word = "revoked" PROVE SeenInv'
    BY <1>3 DEF SeenInv
  <2>1. \A j, k \in 1..n : dbq'[j].kind = "get" /\ Explicit(k)' => k < j
    BY <1>2, <1>6 DEF SeenInv
  <2>2. CASE dbq[1].kind = "get"
    <3>1. \A k \in 1..Len(dbq) : ~Explicit(k)
      BY <1>7, <2>2 DEF SeenInv
    <3>2. db = "revoked"
      BY <3>1 DEF WordInv, OrderInv
    <3>3. \A t \in Tasks : at'[t] = "deciding" => seen'[t] = "revoked"
      BY <1>3, <2>2, <3>2 DEF SeenInv, Shape
    <3>4. QED
      BY <1>2, <2>1, <3>3 DEF SeenInv
  <2>3. CASE dbq[1].kind = "set"
    <3>1. \A t \in Tasks : at'[t] = "deciding" => seen'[t] = "revoked"
      BY <1>3, <2>3 DEF SeenInv, Shape
    <3>2. QED
      BY <1>2, <2>1, <3>1 DEF SeenInv
  <2>4. QED
    BY <1>3, <2>2, <2>3
<1>14. CallInv'
  <2>1. dbq[1].kind = "get" => does[u] = "execute"
    BY <1>1, <1>7 DEF WaitInv, CallInv
  <2>2. QED
    BY <1>3, <2>1 DEF CallInv, Shape
<1>15. FlagInv' /\ DeniedInv'
  BY <1>3 DEF FlagInv, DeniedInv
<1>17. HeldInv'
  <2>1. dbq[1].kind = "get" => at[u] = "reading"
    BY <1>1, <1>7 DEF WaitInv
  <2>2. QED
    BY <1>3, <2>1 DEF HeldInv, Shape
<1>16. QED
  BY <1>3, <1>9, <1>10, <1>11, <1>12, <1>13, <1>14, <1>15, <1>17

\* A restart forgets the queue, and what was not answered.
LEMMA RestartKeeps == ASSUME Bound, ConsentInv, C!Restart PROVE ConsentInv'
<1> USE DEF ConsentInv
<1>1. /\ dbq' = <<>> /\ Len(dbq') = 0 /\ word' = acked /\ acked' = acked /\ db' = db /\ crossed' = crossed
      /\ at' = [t \in Tasks |-> "idle"] /\ UNCHANGED <<does, captured, seen>>
  BY DEF C!Restart
<1>2. /\ current' = 1 /\ 1 \in C!Manifests
      /\ approved' = [m \in C!Manifests |-> m = 1 /\ (db = "approved" \/ (builtin /\ db # "revoked"))]
      /\ enforcer' \in {1, C!Unknown}
  BY DEF C!Restart, C!Restored, Bound, C!Manifests
<1>3. Shape'
  BY <1>1, <1>2 DEF Shape, PlacesOfTask
<1>4. WaitInv' /\ WordInv' /\ CallInv' /\ HeldInv'
  BY <1>1 DEF WaitInv, WordInv, CallInv, HeldInv
<1>5. (OrderInv => OrderInv') /\ SeenInv'
  BY <1>1 DEF OrderInv, SeenInv
<1>6. FlagInv' /\ DeniedInv'
  <2>1. \A m \in C!Manifests : approved'[m] => m = 1 /\ db # "revoked"
    BY <1>2
  <2>2. \A m \in C!Manifests : m > 1 => m # 1
    BY DEF C!Manifests
  <2>3. acked = "revoked" /\ ~crossed => db = "revoked"
    BY DEF OrderInv
  <2>4. QED
    BY <1>1, <1>2, <2>1, <2>2, <2>3 DEF FlagInv, DeniedInv
<1>7. QED
  BY <1>1, <1>3, <1>4, <1>5, <1>6

\* Neither the runtime's entry nor a rediscovery touches a decision.
LEMMA RestKeeps ==
  ASSUME Bound, ConsentInv, FlagInv', current' \in C!Manifests, current <= current',
         UNCHANGED <<approved, enforcer, db, dbq, at, does, captured, seen, word, acked, crossed, detached>>
  PROVE  ConsentInv'
<1>1. \A j : (Explicit(j)' <=> Explicit(j)) /\ (Implicit(j)' <=> Implicit(j))
  BY DEF Explicit, Implicit
<1>2. Shape'
  BY DEF ConsentInv, Shape
<1>3. WaitInv' /\ CallInv' /\ DeniedInv' /\ HeldInv'
  BY DEF ConsentInv, WaitInv, CallInv, DeniedInv, HeldInv, Shape, C!Manifests, C!Unknown
<1>4. WordInv'
  BY <1>1 DEF ConsentInv, WordInv
<1>5. OrderInv => OrderInv'
  BY <1>1 DEF OrderInv
<1>6. SeenInv => SeenInv'
  BY <1>1 DEF SeenInv
<1>7. QED
  BY <1>2, <1>3, <1>4, <1>5, <1>6 DEF ConsentInv

\* A step that only takes a task to another place is a move.
LEMMA MoveForm ==
  ASSUME Shape, NEW t \in Tasks, at[t] \notin Waiting,
         NEW x \in PlacesOfTask \ {"reading", "writing", "deciding"}, C!At(t, x),
         \/ UNCHANGED <<enforcer, detached>>
         \/ enforcer' = captured[t] /\ detached' = (detached \/ captured[t] # current),
         UNCHANGED <<current, approved, db, dbq, does, captured, seen, word, acked, crossed>>
  PROVE  Moves(t)
<1>1. does[t] \in C!AllOps /\ does' = [does EXCEPT ![t] = does[t]]
  BY DEF Shape
<1>2. QED
  BY <1>1 DEF Moves, C!At, Shape

-----------------------------------------------------------------------------
\* No step breaks ConsentInv.
LEMMA StepConsentInv == ASSUME Bound PROVE ConsentInv /\ [C!Next]_C!vars => ConsentInv'
<1> SUFFICES ASSUME ConsentInv, [C!Next]_C!vars PROVE ConsentInv'
  OBVIOUS
<1>1. ASSUME NEW t \in Tasks, NEW o \in {"enable", "execute", "tool_call"}, C!Request(t, o) PROVE ConsentInv'
  <2>1. CASE loaded
    BY <1>1, <2>1, AfterLoadKinds, MovesKeep, AsksKeep, GrantsKeep DEF C!Request, ConsentInv, C!AllOps
  <2>2. CASE ~loaded
    BY <1>1, <2>2, MovesKeep DEF C!Request, ConsentInv, Moves, Waiting, PlacesOfTask, C!AllOps, C!At, C!mem, Shape
  <2>3. QED
    BY <2>1, <2>2
<1>2. ASSUME NEW t \in Tasks, C!Registered(t) PROVE ConsentInv'
  <2>1. Shape /\ at[t] \notin Waiting /\ C!At(t, "initializing") /\ "initializing" \in PlacesOfTask \ {"reading", "writing", "deciding"}
    BY <1>2 DEF C!Registered, ConsentInv, Waiting, PlacesOfTask
  <2>2. /\ enforcer' = captured[t] /\ detached' = (detached \/ captured[t] # current)
        /\ UNCHANGED <<current, approved, db, dbq, does, captured, seen, word, acked, crossed>>
    BY <1>2 DEF C!Registered, ConsentInv, Shape, C!mem, C!disk, C!hist
  <2>3. QED
    BY <2>1, <2>2, MoveForm, MovesKeep
<1>3. ASSUME NEW t \in Tasks, C!LoadFails(t) PROVE ConsentInv'
  <2>1. Shape /\ at[t] \notin Waiting /\ C!At(t, "idle") /\ "idle" \in PlacesOfTask \ {"reading", "writing", "deciding"}
    BY <1>3 DEF C!LoadFails, ConsentInv, Waiting, PlacesOfTask
  <2>2. /\ UNCHANGED <<enforcer, detached>>
        /\ UNCHANGED <<current, approved, db, dbq, does, captured, seen, word, acked, crossed>>
    BY <1>3 DEF C!LoadFails, ConsentInv, Shape, C!mem, C!disk, C!hist
  <2>3. QED
    BY <2>1, <2>2, MoveForm, MovesKeep
<1>4. ASSUME NEW t \in Tasks, C!Entered(t) PROVE ConsentInv'
  <2>1. Shape /\ at[t] \notin Waiting /\ C!At(t, "loaded") /\ "loaded" \in PlacesOfTask \ {"reading", "writing", "deciding"}
    BY <1>4 DEF C!Entered, ConsentInv, Waiting, PlacesOfTask
  <2>2. /\ UNCHANGED <<enforcer, detached>>
        /\ UNCHANGED <<current, approved, db, dbq, does, captured, seen, word, acked, crossed>>
    BY <1>4 DEF C!Entered, ConsentInv, Shape, C!mem, C!disk, C!hist
  <2>3. QED
    BY <2>1, <2>2, MoveForm, MovesKeep
<1>5. ASSUME NEW t \in Tasks, C!GoOn(t) PROVE ConsentInv'
  <2>1. does[t] \in C!AllOps /\ does' = [does EXCEPT ![t] = does[t]]
    BY <1>5 DEF C!GoOn, ConsentInv, Shape
  <2>2. QED
    BY <1>5, <2>1, AfterLoadKinds, MovesKeep, AsksKeep, GrantsKeep DEF C!GoOn, ConsentInv
<1>6. ASSUME NEW t \in Tasks, C!Decide(t) PROVE ConsentInv'
  <2>1. CASE seen[t] = "revoked"
    <3>1. Shape /\ at[t] \notin Waiting /\ C!At(t, "idle") /\ "idle" \in PlacesOfTask \ {"reading", "writing", "deciding"}
      BY <1>6, <2>1 DEF C!Decide, ConsentInv, Waiting, PlacesOfTask
    <3>2. /\ UNCHANGED <<enforcer, detached>>
          /\ UNCHANGED <<current, approved, db, dbq, does, captured, seen, word, acked, crossed>>
      BY <1>6, <2>1 DEF C!Decide, C!mem, C!hist
    <3>3. QED
      BY <3>1, <3>2, MoveForm, MovesKeep
  <2>2. CASE seen[t] # "revoked"
    BY <1>6, <2>2, GrantsKeep DEF C!Decide, Grants, Waiting, C!hist
  <2>3. QED
    BY <2>1, <2>2
<1>7. ASSUME NEW t \in Tasks, C!Revoke(t) PROVE ConsentInv'
  BY <1>7, RevokeKeeps
<1>8. CASE C!DbServes
  BY <1>8, DbServesKeeps
<1>9. CASE C!Unload
  <2>1. UNCHANGED <<current, approved, enforcer, db, dbq, at, does, captured, seen, word, acked, crossed, detached>>
    BY <1>9 DEF C!Unload, C!disk, C!ctl, C!hist
  <2>2. FlagInv' /\ current' \in C!Manifests /\ current <= current'
    BY <2>1 DEF ConsentInv, FlagInv, Shape, C!Manifests
  <2>3. QED
    BY <2>1, <2>2, RestKeeps
<1>10. CASE C!Discover
  <2>1. /\ current' = current + 1 /\ current' \in C!Manifests /\ current <= current'
        /\ UNCHANGED <<approved, enforcer, loaded, db, dbq, at, does, captured, seen, word, acked, crossed, detached>>
    BY <1>10 DEF C!Discover, C!disk, C!ctl, C!hist, ConsentInv, Shape, Bound, C!Manifests
  <2>2. FlagInv'
    BY <2>1 DEF ConsentInv, FlagInv, Shape, C!Manifests
  <2>3. QED
    BY <2>1, <2>2, RestKeeps
<1>11. CASE C!Restart
  BY <1>11, RestartKeeps
<1>12. CASE UNCHANGED C!vars
  <2>1. UNCHANGED <<current, approved, enforcer, db, dbq, at, does, captured, seen, word, acked, crossed, detached>>
    BY <1>12 DEF C!vars
  <2>2. FlagInv' /\ current' \in C!Manifests /\ current <= current'
    BY <2>1 DEF ConsentInv, FlagInv, Shape, C!Manifests
  <2>3. QED
    BY <2>1, <2>2, RestKeeps
<1>13. QED
  BY <1>1, <1>2, <1>3, <1>4, <1>5, <1>6, <1>7, <1>8, <1>9, <1>10, <1>11, <1>12 DEF C!Next

-----------------------------------------------------------------------------
\* A step of the run while it checks the consent is a step of Consent.
LEMMA RunsConsent ==
  ASSUME [MCNext]_<<part, vars, consent, sandbox, relay, database, settings, focus, records>>,
         part' = "consent"
  PROVE  part = "consent" /\ [C!Next]_C!vars
BY DEF MCNext, consent, C!vars

\* ConsentInv holds in the run, while that checks the consent.
LEMMA RunKeepsConsentInv == ASSUME Bound PROVE MCSpec => [](part = "consent" => ConsentInv)
<1>1. MCInit => (part = "consent" => ConsentInv)
  BY InitConsentInv DEF MCInit
<1>2. /\ part = "consent" => ConsentInv
      /\ [MCNext]_<<part, vars, consent, sandbox, relay, database, settings, focus, records>>
      => (part = "consent" => ConsentInv)'
  BY RunsConsent, StepConsentInv
<1>3. QED
  BY <1>1, <1>2, PTL DEF MCSpec


\* From a revoke on the agent is denied until it is enabled again, over any
\* number of rediscoveries, re-spawns and restarts (agents.py:109), unless a
\* direct call was deciding, or the revoke or a load met a replaced manifest.
THEOREM RevokedIsDenied ==
  ASSUME Bound
  PROVE  /\ C!Spec => []C!RevokedMeansDenied
         /\ MCSpec => []RevokedMeansDenied
<1>1. ConsentInv => C!RevokedMeansDenied
  BY DEF ConsentInv, DeniedInv, C!RevokedMeansDenied, C!Allowed
<1>2. C!Spec => []C!RevokedMeansDenied
  BY InitConsentInv, StepConsentInv, <1>1, PTL DEF C!Spec
<1>3. MCSpec => [](part = "consent" => ConsentInv)
  BY RunKeepsConsentInv
<1>4. (part = "consent" => ConsentInv) => RevokedMeansDenied
  BY <1>1 DEF RevokedMeansDenied
<1>5. QED
  BY <1>2, <1>3, <1>4, PTL

\* A revoke that was answered stays in the database until the user enables the
\* agent, whatever direct calls come after it (agents.py:67).
THEOREM RevokeStays ==
  ASSUME Bound
  PROVE  /\ C!Spec => []C!RevokeIsSticky
         /\ MCSpec => []RevokeIsSticky
<1>1. ConsentInv => C!RevokeIsSticky
  BY DEF ConsentInv, OrderInv, C!RevokeIsSticky
<1>2. C!Spec => []C!RevokeIsSticky
  BY InitConsentInv, StepConsentInv, <1>1, PTL DEF C!Spec
<1>3. MCSpec => [](part = "consent" => ConsentInv)
  BY RunKeepsConsentInv
<1>4. (part = "consent" => ConsentInv) => RevokeIsSticky
  BY <1>1 DEF RevokeIsSticky
<1>5. QED
  BY <1>2, <1>3, <1>4, PTL

=============================================================================
