-------------------------- MODULE AgentRpc_proofs --------------------------
(***************************************************************************)
(* Theorems about AgentRpc, for every set of callers and every bound.      *)
(***************************************************************************)
EXTENDS AgentRpc, SequenceTheorems, TLAPS

\* What taking one element out of a sequence leaves.
LEMMA WithoutProperties ==
  ASSUME NEW S, NEW s \in Seq(S), NEW i \in 1..Len(s)
  PROVE  /\ Without(s, i) \in Seq(S)
         /\ Len(Without(s, i)) = Len(s) - 1
         /\ \A j \in 1..(Len(s) - 1) :
              Without(s, i)[j] = IF j < i THEN s[j] ELSE s[j + 1]
<1> DEFINE a == SubSeq(s, 1, i - 1)
           b == SubSeq(s, i + 1, Len(s))
<1>1. Len(s) \in Nat /\ \A k \in 1..Len(s) : s[k] \in S
  BY LenProperties, ElementOfSeq
<1>2. /\ a \in Seq(S) /\ Len(a) = i - 1
      /\ \A j \in 1..(i - 1) : a[j] = s[j]
  <2>1. 1 \in Int /\ i - 1 \in Int /\ \A k \in 1..(i - 1) : s[k] \in S
    BY <1>1
  <2>2. QED BY <1>1, <2>1, SubSeqProperties
<1>3. /\ b \in Seq(S) /\ Len(b) = Len(s) - i
      /\ \A j \in 1..(Len(s) - i) : b[j] = s[i + j]
  <2>1. i + 1 \in Int /\ Len(s) \in Int /\ \A k \in (i + 1)..Len(s) : s[k] \in S
    BY <1>1
  <2>2. QED BY <1>1, <2>1, SubSeqProperties
<1>5. Without(s, i) = a \o b
  BY DEF Without
<1> HIDE DEF a, b
<1>4. /\ a \o b \in Seq(S)
      /\ Len(a \o b) = Len(s) - 1
      /\ \A j \in 1..(Len(s) - 1) : (a \o b)[j] = IF j <= i - 1 THEN a[j] ELSE b[j - (i - 1)]
  <2>1. a \in Seq(S) /\ b \in Seq(S)
    BY <1>2, <1>3
  <2>2. /\ a \o b \in Seq(S)
        /\ Len(a \o b) = Len(a) + Len(b)
        /\ \A j \in 1..(Len(a) + Len(b)) :
             (a \o b)[j] = IF j <= Len(a) THEN a[j] ELSE b[j - Len(a)]
    BY <2>1, ConcatProperties, Zenon
  <2>3. Len(a) = i - 1 /\ Len(a) + Len(b) = Len(s) - 1
    BY <1>1, <1>2, <1>3
  <2>4. QED BY <2>2, <2>3
<1>6. ASSUME NEW j \in 1..(Len(s) - 1)
      PROVE  (a \o b)[j] = IF j < i THEN s[j] ELSE s[j + 1]
  <2>1. CASE j < i
    <3>1. j <= i - 1 /\ j \in 1..(i - 1)
      BY <1>1, <2>1
    <3>2. QED BY <1>2, <1>4, <2>1, <3>1
  <2>2. CASE ~(j < i)
    <3>1. /\ ~(j <= i - 1)
          /\ j - (i - 1) \in 1..(Len(s) - i)
          /\ i + (j - (i - 1)) = j + 1
      BY <1>1, <2>2
    <3>2. (a \o b)[j] = b[j - (i - 1)]
      BY <1>4, <3>1
    <3>3. b[j - (i - 1)] = s[j + 1]
      BY <1>3, <3>1
    <3>4. QED BY <3>2, <3>3, <2>2
  <2>3. QED BY <2>1, <2>2
<1>7. QED BY <1>4, <1>5, <1>6

-----------------------------------------------------------------------------
(* Types.  The bound on requests is kept because those that wait to be      *)
(* numbered are counted with those that are.                                *)

Sane == TypeOK /\ requestId + Len(waiters) <= MaxRequests

\* The records the actions build are of the types TypeOK names.
LEMMA RecordTypes ==
  /\ Resting \in Agents
  /\ \A id \in 0..MaxRequests :
       /\ \A kind \in Requests \cup {"proxy_reply"} : Line(kind, id) \in InLines
       /\ \A kind \in Answers \cup {"network", "garbage"} : Line(kind, id) \in OutLines
       /\ \A kind \in Answers \cup Failures : [kind |-> kind, got |-> id] \in Outcomes
  /\ [kind |-> "none", got |-> StrayId] \in Outcomes
  /\ StrayId \in 0..MaxRequests
BY BoundsAssumption
   DEF Resting, Agents, StrayId, Line, LineOf, InLines, OutLines, Outcomes, Answers, Requests

\* Writing to the agent, whether it lives or not.
LEMMA WriteTypes ==
  ASSUME stdin \in Seq(InLines), NEW line \in InLines, Write(line)
  PROVE  stdin' \in Seq(InLines)
BY AppendProperties DEF Write

\* What the lock's next holder does keeps the types.
LEMMA LockedTypes ==
  ASSUME Sane, NEW c \in Callers, NEW m \in Requests,
         requestId < MaxRequests, Locked(c, m)
  PROVE  /\ requestId' = requestId + 1 /\ requestId' \in 0..MaxRequests
         /\ holder' \in Callers \cup {NoOne}
         /\ pc' \in [Callers -> Pcs]
         /\ stdin' \in Seq(InLines)
         /\ outcome' \in [1..MaxRequests -> Outcomes]
<1>1. requestId + 1 \in 0..MaxRequests /\ requestId' = requestId + 1
  BY BoundsAssumption DEF Sane, TypeOK, Locked
<1>2. Line(m, requestId + 1) \in InLines
  BY <1>1, RecordTypes
<1>3. pc' \in [Callers -> Pcs] /\ holder' \in Callers \cup {NoOne}
  BY DEF Sane, TypeOK, Locked, Drain, Pcs
<1>4. stdin' \in Seq(InLines)
  BY <1>2, WriteTypes DEF Sane, TypeOK, Locked
<1>5. [kind |-> "no_process", got |-> StrayId] \in Outcomes
  BY RecordTypes DEF Failures
<1>6. outcome' \in [1..MaxRequests -> Outcomes]
  BY <1>5 DEF Sane, TypeOK, Locked
<1>7. QED BY <1>1, <1>3, <1>4, <1>6

\* What a call of _send leaves in the queue, the numbers and the pipes.
LEMMA SendTypes ==
  ASSUME Sane, NEW c \in Callers, NEW m \in Requests, Send(c, m)
  PROVE  /\ requestId' \in 0..MaxRequests
         /\ waiters' \in Seq(Callers)
         /\ requestId' + Len(waiters') <= MaxRequests
         /\ holder' \in Callers \cup {NoOne}
         /\ pc' \in [Callers -> Pcs]
         /\ method' \in [Callers -> Requests]
         /\ stdin' \in Seq(InLines)
         /\ outcome' \in [1..MaxRequests -> Outcomes]
<1> USE DEF Sane, TypeOK
<1>1. CASE ~IsRunning
  BY <1>1 DEF Send, lock
<1>2. CASE IsRunning /\ holder = NoOne /\ waiters = <<>>
  <2>1. Locked(c, m) /\ UNCHANGED waiters /\ method' = [method EXCEPT ![c] = m]
    BY <1>2 DEF Send
  <2>2. Len(waiters) = 0
    BY <1>2, EmptySeq
  <2>3. requestId < MaxRequests
    BY <1>2, <2>2, BoundsAssumption DEF Send, WithinBound
  <2>4. /\ requestId' = requestId + 1 /\ requestId' \in 0..MaxRequests
        /\ holder' \in Callers \cup {NoOne}
        /\ pc' \in [Callers -> Pcs]
        /\ stdin' \in Seq(InLines)
        /\ outcome' \in [1..MaxRequests -> Outcomes]
    BY <2>1, <2>3, LockedTypes
  <2>5. requestId' + Len(waiters') <= MaxRequests
    BY <2>1, <2>2, <2>3, <2>4, BoundsAssumption
  <2>6. QED BY <2>1, <2>4, <2>5
<1>3. CASE IsRunning /\ ~(holder = NoOne /\ waiters = <<>>)
  <2>1. /\ waiters' = Append(waiters, c)
        /\ requestId + Len(waiters) < MaxRequests
        /\ pc' = [pc EXCEPT ![c] = "queued"]
        /\ method' = [method EXCEPT ![c] = m]
        /\ UNCHANGED <<holder, requestId, stdin, outcome>>
    BY <1>3 DEF Send, WithinBound
  <2>2. waiters' \in Seq(Callers) /\ Len(waiters') = Len(waiters) + 1
    BY <2>1, AppendProperties
  <2>3. Len(waiters) \in Nat
    BY LenProperties
  <2>4. QED BY <2>1, <2>2, <2>3, BoundsAssumption DEF Pcs
<1>4. QED BY <1>1, <1>2, <1>3

\* What the end of an exchange leaves.
LEMMA FinishTypes ==
  ASSUME Sane, holder # NoOne,
         NEW kind \in Answers \cup Failures, NEW got \in 0..MaxRequests, Finish(kind, got)
  PROVE  /\ holder' \in Callers \cup {NoOne}
         /\ pc' \in [Callers -> Pcs]
         /\ outcome' \in [1..MaxRequests -> Outcomes]
<1>1. [kind |-> kind, got |-> got] \in Outcomes
  BY RecordTypes
<1>2. QED BY <1>1 DEF Sane, TypeOK, Finish, Pcs

\* Every variable of the protocol starts with a value of its type.
THEOREM TypeInit == Init => Sane
<1> SUFFICES ASSUME Init PROVE Sane
  OBVIOUS
<1>1. Len(waiters) = 0 /\ waiters \in Seq(Callers)
  BY EmptySeq DEF Init
<1>2. stdin \in Seq(InLines) /\ stdout \in Seq(OutLines)
  BY EmptySeq DEF Init
<1>3. agent \in Agents /\ outcome \in [1..MaxRequests -> Outcomes]
  BY RecordTypes DEF Init
<1>4. pc \in [Callers -> Pcs] /\ method \in [Callers -> Requests]
  BY DEF Init, Pcs, Requests
<1>5. requestId \in 0..MaxRequests /\ prints \in 0..MaxPrints
      /\ requestId + Len(waiters) <= MaxRequests
  BY <1>1, BoundsAssumption DEF Init
<1>6. QED
  BY <1>1, <1>2, <1>3, <1>4, <1>5 DEF Init, Sane, TypeOK

\* The answer read off stdout, whoever reads it.
LEMMA ReadTypes ==
  ASSUME Sane, stdout # <<>>
  PROVE  /\ Head(stdout).id \in 0..MaxRequests
         /\ Tail(stdout) \in Seq(OutLines)
<1>1. Head(stdout) \in OutLines /\ Tail(stdout) \in Seq(OutLines)
  BY HeadTailProperties DEF Sane, TypeOK
<1>2. QED BY <1>1 DEF OutLines, LineOf

\* No step of kernel, callers, stop() or agent leaves the types or the bound.
THEOREM TypeNext == Sane /\ [Next]_vars => Sane'
<1> SUFFICES ASSUME Sane, [Next]_vars PROVE Sane'
  OBVIOUS
<1> USE DEF Sane, TypeOK, lock, pipes, ghosts
<1>1. CASE Wake
  <2> DEFINE w == Head(waiters)
  <2>1. w \in Callers /\ Tail(waiters) \in Seq(Callers)
        /\ Len(Tail(waiters)) = Len(waiters) - 1 /\ Len(waiters) \in Nat
    BY <1>1, HeadTailProperties, LenProperties DEF Wake
  <2>2. Len(waiters) > 0
    BY <1>1, EmptySeq DEF Wake
  <2>3. requestId < MaxRequests
    BY <2>1, <2>2, BoundsAssumption
  <2>4. Locked(w, method[w]) /\ method[w] \in Requests
    BY <1>1, <2>1 DEF Wake
  <2>5. /\ requestId' = requestId + 1 /\ requestId' \in 0..MaxRequests
        /\ holder' \in Callers \cup {NoOne}
        /\ pc' \in [Callers -> Pcs]
        /\ stdin' \in Seq(InLines)
        /\ outcome' \in [1..MaxRequests -> Outcomes]
    BY <2>1, <2>3, <2>4, LockedTypes
  <2>6. requestId' + Len(waiters') <= MaxRequests /\ waiters' \in Seq(Callers)
    BY <1>1, <2>1, <2>5, BoundsAssumption DEF Wake
  <2>7. QED BY <1>1, <2>5, <2>6 DEF Wake
<1>2. CASE ReadAnswer
  <2>1. Head(stdout).id \in 0..MaxRequests /\ Tail(stdout) \in Seq(OutLines)
    BY <1>2, ReadTypes DEF ReadAnswer
  <2>2. /\ holder' \in Callers \cup {NoOne} /\ pc' \in [Callers -> Pcs]
        /\ outcome' \in [1..MaxRequests -> Outcomes]
    BY <1>2, <2>1, FinishTypes DEF ReadAnswer, AtRead
  <2>3. QED BY <1>2, <2>1, <2>2 DEF ReadAnswer
<1>3. CASE ReadProxyCall
  <2>1. Tail(stdout) \in Seq(OutLines)
    BY <1>3, ReadTypes DEF ReadProxyCall
  <2>2. QED BY <1>3, <2>1 DEF ReadProxyCall, Pcs
<1>4. CASE ReadGarbage
  <2>1. Tail(stdout) \in Seq(OutLines) /\ StrayId \in 0..MaxRequests
    BY <1>4, ReadTypes, RecordTypes DEF ReadGarbage
  <2>2. /\ holder' \in Callers \cup {NoOne} /\ pc' \in [Callers -> Pcs]
        /\ outcome' \in [1..MaxRequests -> Outcomes]
    BY <1>4, <2>1, FinishTypes DEF ReadGarbage, AtRead, Failures
  <2>3. QED BY <1>4, <2>1, <2>2 DEF ReadGarbage
<1>5. CASE ReadEof \/ Timeout \/ ProxyRaises \/ DrainRaises
  <2>1. \E kind \in Failures : Finish(kind, StrayId)
    BY <1>5 DEF ReadEof, Timeout, ProxyRaises, DrainRaises, Failures
  <2>2. holder # NoOne
    BY <1>5 DEF ReadEof, Timeout, ProxyRaises, DrainRaises, AtRead, AtDrain
  <2>3. /\ holder' \in Callers \cup {NoOne} /\ pc' \in [Callers -> Pcs]
        /\ outcome' \in [1..MaxRequests -> Outcomes]
    BY <2>1, <2>2, FinishTypes, RecordTypes
  <2>4. UNCHANGED <<alive, attached, waiters, method, requestId, stdin, stdout, agent,
                    stopPc, prints>> /\ disturbed' \in BOOLEAN
    BY <1>5 DEF ReadEof, Timeout, ProxyRaises, DrainRaises
  <2>5. QED BY <2>3, <2>4
<1>50. CASE DrainEnds
  BY <1>50 DEF DrainEnds, Pcs
<1>6. CASE ProxyReturns
  <2>1. CASE attached
    <3>1. Line("proxy_reply", StrayId) \in InLines
      BY RecordTypes
    <3>2. stdin' \in Seq(InLines)
      BY <1>6, <2>1, <3>1, WriteTypes DEF ProxyReturns
    <3>3. QED BY <1>6, <2>1, <3>2 DEF ProxyReturns, Drain, Pcs
  <2>2. CASE ~attached
    <3>1. /\ holder' \in Callers \cup {NoOne} /\ pc' \in [Callers -> Pcs]
          /\ outcome' \in [1..MaxRequests -> Outcomes]
      BY <1>6, <2>2, FinishTypes, RecordTypes DEF ProxyReturns, Failures
    <3>2. QED BY <1>6, <2>2, <3>1 DEF ProxyReturns
  <2>3. QED BY <2>1, <2>2
<1>7. ASSUME NEW c \in Clients, NEW m \in {"execute", "health"}, Call(c, m)
      PROVE  Sane'
  <2>1. c \in Callers /\ m \in Requests /\ Send(c, m)
    BY <1>7 DEF Callers, Requests, Call
  <2>2. QED BY <1>7, <2>1, SendTypes DEF Call
<1>8. ASSUME NEW c \in Clients, CancelExchange(c)
      PROVE  Sane'
  <2>1. holder # NoOne /\ Finish("cancelled", StrayId)
    BY <1>8, CallersAssumption DEF CancelExchange, Callers
  <2>2. /\ holder' \in Callers \cup {NoOne} /\ pc' \in [Callers -> Pcs]
        /\ outcome' \in [1..MaxRequests -> Outcomes]
    BY <2>1, FinishTypes, RecordTypes DEF Failures
  <2>3. QED BY <1>8, <2>2 DEF CancelExchange
<1>9. ASSUME NEW c \in Clients, CancelWait(c)
      PROVE  Sane'
  <2>1. PICK i \in 1..Len(waiters) : waiters' = Without(waiters, i)
    BY <1>9, LenProperties DEF CancelWait
  <2>2. waiters' \in Seq(Callers) /\ Len(waiters') = Len(waiters) - 1
    BY <2>1, WithoutProperties
  <2>3. requestId' + Len(waiters') <= MaxRequests
    BY <1>9, <2>2, LenProperties, BoundsAssumption DEF CancelWait
  <2>4. QED BY <1>9, <2>2, <2>3 DEF CancelWait, Pcs
<1>10. CASE StopCall
  <2>1. Stopper \in Callers /\ "shutdown" \in Requests /\ Send(Stopper, "shutdown")
    BY <1>10 DEF Callers, Requests, StopCall
  <2>2. QED BY <1>10, <2>1, SendTypes DEF StopCall
<1>11. CASE StopTerminate
  BY <1>11, EmptySeq, RecordTypes DEF StopTerminate
<1>12. CASE StopDetach
  BY <1>12 DEF StopDetach
<1>13. CASE AgentReads
  <2>1. Head(stdin) \in InLines /\ Tail(stdin) \in Seq(InLines)
    BY <1>13, HeadTailProperties DEF AgentReads
  <2>2. Head(stdin).id \in 0..MaxRequests
    BY <2>1 DEF InLines, LineOf
  <2>3. \A kind \in Answers : Line(kind, Head(stdin).id) \in OutLines
    BY <2>2, RecordTypes
  <2>4. \A kind \in Answers : Append(stdout, Line(kind, Head(stdin).id)) \in Seq(OutLines)
    BY <2>3, AppendProperties
  <2>5. [st |-> Head(stdin).kind, id |-> Head(stdin).id] \in Agents
        \/ Head(stdin).kind \notin {"execute", "health"}
    BY <2>2 DEF Agents
  <2>6. QED
    BY <1>13, <2>1, <2>4, <2>5, EmptySeq, RecordTypes
    DEF AgentReads, Answers, AgentOnly, Dies
<1>14. ASSUME NEW kind \in Answers, AgentAnswers(kind)
       PROVE  Sane'
  <2>1. agent.id \in 0..MaxRequests
    BY DEF Agents
  <2>2. Append(stdout, Line(kind, agent.id)) \in Seq(OutLines)
    BY <2>1, RecordTypes, AppendProperties
  <2>3. QED BY <1>14, <2>2, RecordTypes DEF AgentAnswers, AgentOnly
<1>15. CASE AgentCallsProxy
  <2>1. Append(stdout, Line("network", StrayId)) \in Seq(OutLines)
    BY RecordTypes, AppendProperties
  <2>2. [agent EXCEPT !.st = "awaiting"] \in Agents
    BY DEF Agents
  <2>3. QED BY <1>15, <2>1, <2>2 DEF AgentCallsProxy, AgentOnly
<1>16. CASE AgentTakesProxyReply
  <2>1. Tail(stdin) \in Seq(InLines)
    BY <1>16, HeadTailProperties DEF AgentTakesProxyReply
  <2>2. [agent EXCEPT !.st = "execute"] \in Agents
    BY DEF Agents
  <2>3. QED BY <1>16, <2>1, <2>2 DEF AgentTakesProxyReply, AgentOnly
<1>17. CASE AgentPrints
  <2>1. Append(stdout, Line("garbage", StrayId)) \in Seq(OutLines)
    BY RecordTypes, AppendProperties
  <2>2. QED BY <1>17, <2>1, BoundsAssumption DEF AgentPrints, AgentOnly
<1>18. CASE AgentCrashes
  BY <1>18, EmptySeq, RecordTypes DEF AgentCrashes, Dies, AgentOnly
<1>19. CASE UNCHANGED vars
  BY <1>19 DEF vars
<1>20. QED
  BY <1>1, <1>2, <1>3, <1>4, <1>5, <1>6, <1>7, <1>8, <1>9, <1>10, <1>11, <1>12, <1>13,
     <1>14, <1>15, <1>16, <1>17, <1>18, <1>19, <1>50
  DEF Next, KernelStep, BufferStep, Exchange, CallerStep, StopStep, AgentStep

\* Every variable keeps to its values, for any number of callers, requests and
\* stray lines.
THEOREM TypeCorrect == Spec => []TypeOK
<1>1. Spec => []Sane
  BY TypeInit, TypeNext, PTL DEF Spec
<1>2. Sane => TypeOK
  BY DEF Sane
<1>3. QED BY <1>1, <1>2, PTL

-----------------------------------------------------------------------------
(* The lock.  Who waits is in the queue once, which is why the exchange of  *)
(* one caller never goes on under the lock of another.                      *)

Members(s) == {s[i] : i \in DOMAIN s}
Distinct(s) == \A i, j \in DOMAIN s : s[i] = s[j] => i = j

\* Who joins the queue is in it, and nobody twice who was not in it before.
LEMMA AppendMembers ==
  ASSUME NEW S, NEW s \in Seq(S), NEW e \in S, Distinct(s), e \notin Members(s)
  PROVE  Distinct(Append(s, e)) /\ Members(Append(s, e)) = Members(s) \cup {e}
<1> DEFINE t == Append(s, e)
<1>1. Len(s) \in Nat /\ DOMAIN s = 1..Len(s)
  BY LenProperties
<1>2. /\ t \in Seq(S) /\ Len(t) = Len(s) + 1
      /\ \A i \in 1..Len(s) : t[i] = s[i]
      /\ t[Len(s) + 1] = e
  BY AppendProperties
<1>3. DOMAIN t = 1..(Len(s) + 1)
  BY <1>2, LenProperties
<1> HIDE DEF t
<1>4. Distinct(t)
  BY <1>1, <1>2, <1>3 DEF Distinct, Members
<1>5. Members(t) = Members(s) \cup {e}
  <2>1. \A i \in DOMAIN t : t[i] \in Members(s) \cup {e}
    BY <1>1, <1>2, <1>3 DEF Members
  <2>2. \A i \in DOMAIN s : i \in DOMAIN t /\ t[i] = s[i]
    BY <1>1, <1>2, <1>3
  <2>3. Len(s) + 1 \in DOMAIN t
    BY <1>1, <1>3
  <2>4. QED BY <1>2, <2>1, <2>2, <2>3 DEF Members
<1>6. QED BY <1>4, <1>5 DEF t

\* Who is given the lock leaves the queue, and the others stay.
LEMMA TailMembers ==
  ASSUME NEW S, NEW s \in Seq(S), s # <<>>, Distinct(s)
  PROVE  Distinct(Tail(s)) /\ Members(Tail(s)) = Members(s) \ {Head(s)}
<1> DEFINE t == Tail(s)
<1>1. Len(s) \in Nat \ {0} /\ DOMAIN s = 1..Len(s)
  BY LenProperties, EmptySeq
<1>2. /\ t \in Seq(S) /\ Len(t) = Len(s) - 1
      /\ \A i \in 1..Len(t) : t[i] = s[i + 1]
  BY HeadTailProperties
<1>3. DOMAIN t = 1..(Len(s) - 1)
  BY <1>2, LenProperties
<1>4. Head(s) = s[1]
  OBVIOUS
<1> HIDE DEF t
<1>5. \A i \in DOMAIN t : i + 1 \in DOMAIN s /\ t[i] = s[i + 1] /\ i + 1 # 1
  BY <1>1, <1>2, <1>3
<1>6. \A i \in DOMAIN s : i # 1 => i - 1 \in DOMAIN t /\ t[i - 1] = s[i]
  BY <1>1, <1>2, <1>3
<1>7. Distinct(t)
  <2>1. \A i, j \in DOMAIN t : i + 1 = j + 1 => i = j
    BY <1>3
  <2>2. QED BY <1>5, <2>1 DEF Distinct
<1>8. 1 \in DOMAIN s
  BY <1>1
<1>9. Members(t) = Members(s) \ {s[1]}
  <2>1. \A i \in DOMAIN t : t[i] \in Members(s) /\ t[i] # s[1]
    BY <1>5, <1>8 DEF Members, Distinct
  <2>2. \A i \in DOMAIN s : s[i] # s[1] => s[i] \in Members(t)
    BY <1>6 DEF Members
  <2>3. QED BY <2>1, <2>2 DEF Members
<1>10. QED BY <1>4, <1>7, <1>9 DEF t

\* Who is cancelled in the queue leaves it, and the others stay.
LEMMA WithoutMembers ==
  ASSUME NEW S, NEW s \in Seq(S), NEW i \in 1..Len(s), Distinct(s)
  PROVE  Distinct(Without(s, i)) /\ Members(Without(s, i)) = Members(s) \ {s[i]}
<1> DEFINE t == Without(s, i)
           old(j) == IF j < i THEN j ELSE j + 1
           new(j) == IF j < i THEN j ELSE j - 1
<1>1. Len(s) \in Nat /\ DOMAIN s = 1..Len(s)
  BY LenProperties
<1>2. /\ t \in Seq(S) /\ Len(t) = Len(s) - 1
      /\ \A j \in 1..(Len(s) - 1) : t[j] = IF j < i THEN s[j] ELSE s[j + 1]
  BY WithoutProperties
<1>3. DOMAIN t = 1..(Len(s) - 1)
  BY <1>2, LenProperties
<1> HIDE DEF t
<1>4. \A j \in DOMAIN t : old(j) \in DOMAIN s /\ t[j] = s[old(j)] /\ old(j) # i
  BY <1>1, <1>2, <1>3
<1>5. \A j \in DOMAIN s : j # i => new(j) \in DOMAIN t /\ t[new(j)] = s[j]
  BY <1>1, <1>2, <1>3
<1>6. \A j, k \in DOMAIN t : old(j) = old(k) => j = k
  BY <1>1, <1>3
<1>7. i \in DOMAIN s
  BY <1>1
<1> HIDE DEF old, new
<1>8. Distinct(t)
  BY <1>4, <1>6 DEF Distinct
<1>9. Members(t) = Members(s) \ {s[i]}
  <2>1. \A j \in DOMAIN t : t[j] \in Members(s) /\ t[j] # s[i]
    BY <1>4, <1>7 DEF Members, Distinct
  <2>2. \A j \in DOMAIN s : s[j] # s[i] => s[j] \in Members(t)
    BY <1>5 DEF Members
  <2>3. QED BY <2>1, <2>2 DEF Members
<1>10. QED BY <1>8, <1>9 DEF t

LockInv ==
  /\ \A c \in Callers : pc[c] \in {"draining", "reading", "proxy"} <=> holder = c
  /\ \A c \in Callers : pc[c] = "queued" <=> c \in Members(waiters)
  /\ Distinct(waiters)
  /\ stopPc = "idle" => pc[Stopper] = "idle"

\* The lock goes to w, who is nowhere in the queue any more.
LEMMA LockedKeepsLock ==
  ASSUME Sane, LockInv, holder = NoOne,
         NEW w \in Callers, NEW m \in Requests, Locked(w, m),
         Members(waiters') = Members(waiters) \ {w}, Distinct(waiters'),
         w = Stopper => stopPc' # "idle", stopPc' = "idle" => stopPc = "idle"
  PROVE  LockInv'
<1>1. \/ holder' = w /\ \E at \in {"reading", "draining"} : pc' = [pc EXCEPT ![w] = at]
      \/ holder' = NoOne /\ pc' = [pc EXCEPT ![w] = "idle"]
  BY DEF Locked, Drain
<1>2. \A c \in Callers : pc[c] \notin {"draining", "reading", "proxy"}
  BY CallersAssumption DEF LockInv
<1>3. Stopper \in Callers /\ pc \in [Callers -> Pcs]
  BY DEF Callers, Sane, TypeOK
<1>4. QED BY <1>1, <1>2, <1>3, CallersAssumption DEF LockInv

\* A caller that held no lock and was not queued runs _send.
LEMMA SendKeepsLock ==
  ASSUME Sane, LockInv, NEW c \in Callers, NEW m \in Requests, Send(c, m),
         pc[c] = "idle",
         c = Stopper /\ IsRunning => stopPc' # "idle", stopPc' = "idle" => stopPc = "idle"
  PROVE  LockInv'
<1> USE DEF Sane, TypeOK
<1>1. CASE ~IsRunning
  BY <1>1 DEF Send, lock, LockInv
<1>2. CASE IsRunning /\ holder = NoOne /\ waiters = <<>>
  <2>1. Locked(c, m) /\ waiters' = waiters
    BY <1>2 DEF Send
  <2>2. Members(waiters) = {} /\ Distinct(waiters)
    BY <1>2, EmptySeq, LenProperties DEF Members, LockInv
  <2>3. QED BY <1>2, <2>1, <2>2, LockedKeepsLock
<1>3. CASE IsRunning /\ ~(holder = NoOne /\ waiters = <<>>)
  <2>1. /\ waiters' = Append(waiters, c)
        /\ pc' = [pc EXCEPT ![c] = "queued"]
        /\ holder' = holder
    BY <1>3 DEF Send
  <2>2. c \notin Members(waiters) /\ Distinct(waiters)
    BY DEF LockInv
  <2>3. Distinct(waiters') /\ Members(waiters') = Members(waiters) \cup {c}
    BY <2>1, <2>2, AppendMembers
  <2>4. Stopper \in Callers
    BY DEF Callers
  <2>5. QED BY <1>3, <2>1, <2>3, <2>4 DEF LockInv
<1>4. QED BY <1>1, <1>2, <1>3

\* The end of an exchange gives the lock back and wakes nobody.
LEMMA FinishKeepsLock ==
  ASSUME Sane, LockInv, holder # NoOne, NEW kind, NEW got, Finish(kind, got),
         UNCHANGED <<waiters, stopPc>>
  PROVE  LockInv'
BY CallersAssumption DEF Sane, TypeOK, LockInv, Finish, Callers

\* LockInv holds initially: nobody holds the lock or waits for it.
LEMMA LockInit == Init => LockInv
<1> SUFFICES ASSUME Init PROVE LockInv
  OBVIOUS
<1>1. Members(waiters) = {} /\ Distinct(waiters)
  BY DEF Init, Members, Distinct
<1>2. QED BY <1>1, CallersAssumption DEF Init, LockInv, Callers

\* No step breaks LockInv.
LEMMA LockNext == Sane /\ LockInv /\ [Next]_vars => LockInv'
<1> SUFFICES ASSUME Sane, LockInv, [Next]_vars PROVE LockInv'
  OBVIOUS
<1> USE DEF lock, pipes, ghosts
<1>1. CASE Wake
  <2> DEFINE w == Head(waiters)
  <2>1. w \in Callers /\ method[w] \in Requests
    BY <1>1, HeadTailProperties DEF Wake, Sane, TypeOK
  <2>2. Distinct(waiters') /\ Members(waiters') = Members(waiters) \ {w}
    BY <1>1, TailMembers DEF Wake, LockInv, Sane, TypeOK
  <2>3. w \in Members(waiters)
    BY <1>1, EmptySeq, LenProperties DEF Wake, Members, Sane, TypeOK
  <2>4. pc[w] = "queued" /\ (w = Stopper => stopPc # "idle")
    BY <2>1, <2>3 DEF LockInv
  <2>5. QED BY <1>1, <2>1, <2>2, <2>4, LockedKeepsLock DEF Wake
<1>2. CASE ReadAnswer \/ ReadGarbage \/ ReadEof \/ Timeout \/ ProxyRaises \/ DrainRaises
  <2>1. holder # NoOne /\ UNCHANGED <<waiters, stopPc>>
        /\ \E kind, got : Finish(kind, got)
    BY <1>2 DEF ReadAnswer, ReadGarbage, ReadEof, Timeout, ProxyRaises, DrainRaises, AtRead, AtDrain
  <2>2. QED BY <2>1, FinishKeepsLock
<1>3. CASE ReadProxyCall \/ DrainEnds
  BY <1>3, CallersAssumption
  DEF ReadProxyCall, DrainEnds, AtRead, AtDrain, LockInv, Sane, TypeOK, Callers
<1>4. CASE ProxyReturns
  <2>1. CASE attached
    BY <1>4, <2>1, CallersAssumption DEF ProxyReturns, Drain, LockInv, Sane, TypeOK, Callers
  <2>2. CASE ~attached
    BY <1>4, <2>2, FinishKeepsLock DEF ProxyReturns
  <2>3. QED BY <2>1, <2>2
<1>5. ASSUME NEW c \in Clients, NEW m \in {"execute", "health"}, Call(c, m)
      PROVE  LockInv'
  <2>1. c \in Callers /\ m \in Requests /\ Send(c, m) /\ pc[c] = "idle" /\ c # Stopper
    BY <1>5, CallersAssumption DEF Callers, Requests, Call
  <2>2. QED BY <1>5, <2>1, SendKeepsLock DEF Call
<1>6. ASSUME NEW c \in Clients, CancelExchange(c)
      PROVE  LockInv'
  <2>1. holder # NoOne
    BY <1>6, CallersAssumption DEF CancelExchange, Callers
  <2>2. QED BY <1>6, <2>1, FinishKeepsLock DEF CancelExchange
<1>7. ASSUME NEW c \in Clients, CancelWait(c)
      PROVE  LockInv'
  <2>1. PICK i \in 1..Len(waiters) : waiters[i] = c /\ waiters' = Without(waiters, i)
    BY <1>7, LenProperties DEF CancelWait, Sane, TypeOK
  <2>2. Distinct(waiters') /\ Members(waiters') = Members(waiters) \ {c}
    BY <2>1, WithoutMembers DEF LockInv, Sane, TypeOK
  <2>3. QED BY <1>7, <2>2, CallersAssumption DEF CancelWait, LockInv, Sane, TypeOK, Callers
<1>8. CASE StopCall
  <2>1. Stopper \in Callers /\ "shutdown" \in Requests /\ Send(Stopper, "shutdown")
        /\ pc[Stopper] = "idle" /\ stopPc' # "idle"
    BY <1>8 DEF Callers, Requests, StopCall, LockInv
  <2>2. QED BY <2>1, SendKeepsLock
<1>9. CASE StopStep
  BY <1>9 DEF StopStep, StopTerminate, StopDetach, LockInv
<1>10. CASE AgentStep
  <2>1. UNCHANGED <<holder, waiters, pc, stopPc>>
    BY <1>10 DEF AgentStep, AgentReads, AgentAnswers, AgentCallsProxy, AgentTakesProxyReply,
                 AgentPrints, AgentCrashes, AgentOnly
  <2>2. QED BY <2>1 DEF LockInv
<1>11. CASE UNCHANGED vars
  BY <1>11 DEF vars, LockInv
<1>12. QED
  BY <1>1, <1>2, <1>3, <1>4, <1>5, <1>6, <1>7, <1>8, <1>9, <1>10, <1>11
  DEF Next, KernelStep, BufferStep, Exchange, CallerStep

\* Whatever callers come, queue, are cancelled or time out, one exchange is
\* under way at a time and its caller holds the lock.
THEOREM LockIsExclusive == Spec => []OneExchangeAtATime
<1>1. Init => Sane /\ LockInv
  BY TypeInit, LockInit
<1>2. (Sane /\ LockInv) /\ [Next]_vars => (Sane /\ LockInv)'
  BY TypeNext, LockNext
<1>3. LockInv => OneExchangeAtATime
  <2>1. ASSUME NEW c PROVE c \in Members(waiters) <=> \E i \in DOMAIN waiters : waiters[i] = c
    BY DEF Members
  <2>2. QED BY <2>1 DEF LockInv, OneExchangeAtATime
<1>4. QED BY <1>1, <1>2, <1>3, PTL DEF Spec

-----------------------------------------------------------------------------
(* stop() *)

StopInv == /\ attached \/ ~alive
           /\ stopPc \in {"reaping", "stopped"} => ~alive

\* StopInv holds initially: stop() has not been called.
LEMMA StopInit == Init => StopInv
BY DEF Init, StopInv

\* No step breaks StopInv: no process comes back to life.
LEMMA StopNext == StopInv /\ [Next]_vars => StopInv'
<1> SUFFICES ASSUME StopInv, [Next]_vars PROVE StopInv'
  OBVIOUS
<1>1. CASE StopCall
  BY <1>1 DEF StopCall, StopInv, IsRunning
<1>2. CASE StopStep
  BY <1>2 DEF StopStep, StopTerminate, StopDetach, StopInv
<1>3. CASE AgentStep
  BY <1>3 DEF StopInv, AgentStep, AgentReads, AgentAnswers, AgentCallsProxy,
              AgentTakesProxyReply, AgentPrints, AgentCrashes, AgentOnly, Dies
<1>4. CASE KernelStep \/ BufferStep \/ CallerStep \/ UNCHANGED vars
  <2>1. UNCHANGED <<alive, attached, stopPc>>
    BY <1>4 DEF KernelStep, BufferStep, Wake, Exchange, ReadAnswer, ReadProxyCall, ReadGarbage, ReadEof,
                Timeout, ProxyReturns, ProxyRaises, DrainEnds, DrainRaises, CallerStep, Call, CancelExchange,
                CancelWait, vars
  <2>2. QED BY <2>1 DEF StopInv
<1>5. QED BY <1>1, <1>2, <1>3, <1>4 DEF Next

\* The process is dead when stop() has returned: it was when stop() began, or
\* stop() killed it, and nothing brings a process back under this object.
THEOREM StopKills == Spec => []StoppedMeansDead
<1>1. StopInv => StoppedMeansDead
  BY DEF StopInv, StoppedMeansDead
<1>2. QED BY <1>1, StopInit, StopNext, PTL DEF Spec

-----------------------------------------------------------------------------
(* Answers.  Until a disturbance the pipes hold at most one line, and it    *)
(* belongs to the exchange of the lock's holder: that is why a reader who   *)
(* compares no id still gets his own answer.                                *)

Quiet == stdin = <<>> /\ stdout = <<>>

Asked      == /\ \E m \in Requests : stdin = <<Line(m, requestId)>>
              /\ stdout = <<>> /\ agent.st = "idle"
Working    == Quiet /\ agent.st \in {"execute", "health"} /\ agent.id = requestId
CallsNet   == /\ stdin = <<>> /\ stdout = <<Line("network", StrayId)>>
              /\ agent.st = "awaiting" /\ agent.id = requestId
InProxy    == Quiet /\ agent.st = "awaiting" /\ agent.id = requestId
NetReplied == /\ stdin = <<Line("proxy_reply", StrayId)>> /\ stdout = <<>>
              /\ agent.st = "awaiting" /\ agent.id = requestId
Answered   == /\ stdin = <<>> /\ agent.st = "idle"
              /\ \E kind \in Answers : stdout = <<Line(kind, requestId)>>

AtProxy == holder # NoOne /\ pc[holder] = "proxy"
AtPipe  == AtRead \/ AtDrain

Shape ==
  /\ ~alive => stdin = <<>> /\ agent.st = "idle"
  /\ holder = NoOne => Quiet /\ agent.st = "idle"
  /\ AtPipe /\ alive => Asked \/ Working \/ CallsNet \/ NetReplied \/ Answered
  /\ AtPipe /\ ~alive => stdout = <<>> \/ stdout = <<Line("network", StrayId)>> \/ Answered
  /\ AtProxy => Quiet /\ (alive => InProxy)

OrderInv == ~disturbed => Shape /\ AnswersOwnRequest

\* A pipe with one line, or none.
LEMMA OneLine ==
  \A line : /\ <<line>> # <<>>
            /\ Head(<<line>>) = line
            /\ Tail(<<line>>) = <<>>
            /\ Append(<<>>, line) = <<line>>
OBVIOUS

\* The fields of a line, and what tells the kinds apart.
LEMMA LineFields ==
  /\ \A kind, id : Line(kind, id).kind = kind /\ Line(kind, id).id = id
  /\ "network" \notin Answers /\ "proxy_reply" \notin Requests
  /\ Answers \cap Failures = {}
  /\ Resting.st = "idle"
BY DEF Line, Answers, Requests, Failures, Resting

\* Recording the end of a request that got no answer, or its own.
LEMMA RecordKeepsOwn ==
  ASSUME AnswersOwnRequest, outcome \in [1..MaxRequests -> Outcomes],
         NEW i, NEW kind, NEW got,
         outcome' = [outcome EXCEPT ![i] = [kind |-> kind, got |-> got]],
         kind \in Failures \/ got = i
  PROVE  AnswersOwnRequest'
<1>1. ASSUME NEW j \in 1..MaxRequests, outcome'[j].kind \in Answers
      PROVE  outcome'[j].got = j
  <2>1. CASE j = i
    BY <1>1, <2>1, LineFields
  <2>2. CASE j # i
    BY <1>1, <2>2 DEF AnswersOwnRequest, AnsweredIds
  <2>3. QED BY <2>1, <2>2
<1>2. QED BY <1>1 DEF AnswersOwnRequest, AnsweredIds

\* The next holder of the lock writes into an empty pipe.
LEMMA LockedKeepsOrder ==
  ASSUME Sane, OrderInv, holder = NoOne, NEW w \in Callers, NEW m \in Requests,
         Locked(w, m), UNCHANGED <<alive, stdout, agent, disturbed>>
  PROVE  OrderInv'
<1> SUFFICES ASSUME ~disturbed PROVE (Shape /\ AnswersOwnRequest)'
  BY DEF OrderInv
<1>1. Quiet /\ agent.st = "idle" /\ AnswersOwnRequest /\ w # NoOne
  BY CallersAssumption DEF OrderInv, Shape
<1>2. CASE attached
  <2>1. /\ holder' = w /\ pc'[w] \in {"reading", "draining"} /\ requestId' = requestId + 1
        /\ outcome' = outcome
        /\ stdin' = IF alive THEN Append(stdin, Line(m, requestId + 1)) ELSE stdin
    BY <1>2 DEF Locked, Drain, Write, Sane, TypeOK
  <2>2. alive => stdin' = <<Line(m, requestId')>>
    BY <1>1, <2>1, OneLine DEF Quiet
  <2>3. AtPipe' /\ ~AtProxy' /\ stdout' = <<>> /\ agent'.st = "idle"
    BY <1>1, <2>1 DEF AtPipe, AtRead, AtDrain, AtProxy, Quiet
  <2>4. alive' => Asked'
    BY <2>2, <2>3 DEF Asked
  <2>5. ~alive' => stdin' = <<>>
    BY <1>1, <2>1 DEF Quiet
  <2>6. AnswersOwnRequest'
    BY <1>1, <2>1 DEF AnswersOwnRequest, AnsweredIds
  <2>7. QED BY <1>1, <2>1, <2>3, <2>4, <2>5, <2>6 DEF Shape
<1>3. CASE ~attached
  <2>1. /\ holder' = NoOne /\ stdin' = stdin
        /\ outcome' = [outcome EXCEPT ![requestId + 1] = [kind |-> "no_process", got |-> StrayId]]
    BY <1>3 DEF Locked
  <2>2. AnswersOwnRequest'
    BY <1>1, <2>1, RecordKeepsOwn DEF Sane, TypeOK, Failures
  <2>3. QED BY <1>1, <2>1, <2>2 DEF Shape, Quiet, AtPipe, AtRead, AtDrain, AtProxy
<1>4. QED BY <1>2, <1>3

\* An exchange that ends leaves empty pipes and an agent at rest behind.
LEMMA FinishKeepsOrder ==
  ASSUME Sane, OrderInv, holder # NoOne, NEW kind, NEW got, Finish(kind, got),
         kind \in Failures \/ got = requestId,
         ~disturbed => Quiet' /\ agent'.st = "idle",
         disturbed' = disturbed
  PROVE  OrderInv'
<1> SUFFICES ASSUME ~disturbed PROVE (Shape /\ AnswersOwnRequest)'
  BY DEF OrderInv
<1>1. AnswersOwnRequest'
  BY RecordKeepsOwn DEF OrderInv, Sane, TypeOK, Finish
<1>2. holder' = NoOne
  BY DEF Finish
<1>3. QED BY <1>1, <1>2 DEF Shape, Quiet, AtPipe, AtRead, AtDrain, AtProxy

\* What the holder and the pipes do not notice.
LEMMA FrameKeepsOrder ==
  ASSUME OrderInv,
         UNCHANGED <<alive, holder, requestId, stdin, stdout, agent, outcome, disturbed>>,
         holder # NoOne => pc'[holder] = pc[holder]
  PROVE  OrderInv'
<1>1. (AtPipe' <=> AtPipe) /\ (AtProxy' <=> AtProxy)
  BY DEF AtPipe, AtRead, AtDrain, AtProxy
<1>2. QED
  BY <1>1 DEF OrderInv, Shape, AnswersOwnRequest, AnsweredIds, Quiet, Asked, Working, CallsNet,
              InProxy, NetReplied, Answered

\* The agent dies, and what it had not read with it.
LEMMA DeathKeepsOrder ==
  ASSUME OrderInv, alive' = FALSE, stdin' = <<>>, agent' = Resting,
         UNCHANGED <<holder, pc, requestId, stdout, outcome, disturbed>>
  PROVE  OrderInv'
<1>1. agent'.st = "idle"
  BY LineFields
<1>2. (AtPipe' <=> AtPipe) /\ (AtProxy' <=> AtProxy)
  BY DEF AtPipe, AtRead, AtDrain, AtProxy
<1>3. QED
  BY <1>1, <1>2 DEF OrderInv, Shape, AnswersOwnRequest, AnsweredIds, Quiet, Asked, Working,
                    CallsNet, NetReplied, Answered

\* OrderInv holds initially: both pipes are empty.
LEMMA OrderInit == Init => OrderInv
<1> SUFFICES ASSUME Init PROVE Shape /\ AnswersOwnRequest
  BY DEF OrderInv
<1>1. AnswersOwnRequest
  BY DEF Init, AnswersOwnRequest, AnsweredIds, Answers
<1>2. QED BY <1>1, LineFields DEF Init, Shape, Quiet, AtPipe, AtRead, AtDrain, AtProxy

\* What the reader finds on stdout is his answer, or the agent's network call.
LEMMA ReaderFinds ==
  ASSUME OrderInv, ~disturbed, AtRead, stdout # <<>>
  PROVE  /\ Tail(stdout) = <<>> /\ stdin = <<>>
         /\ Head(stdout).kind \in Answers =>
              agent.st = "idle" /\ Head(stdout).id = requestId
         /\ Head(stdout).kind = "network" =>
              (alive => agent.st = "awaiting" /\ agent.id = requestId)
         /\ Head(stdout).kind \in Answers \cup {"network"}
<1>1. CallsNet \/ Answered \/ (~alive /\ stdin = <<>> /\ agent.st = "idle"
                                 /\ stdout = <<Line("network", StrayId)>>)
  BY DEF OrderInv, Shape, AtPipe, Asked, Working, NetReplied, Quiet
<1>2. CASE Answered
  BY <1>2, OneLine, LineFields DEF Answered
<1>3. CASE ~Answered
  <2>1. stdout = <<Line("network", StrayId)>> /\ stdin = <<>>
        /\ (alive => agent.st = "awaiting" /\ agent.id = requestId)
    BY <1>1, <1>3 DEF CallsNet
  <2>2. QED BY <2>1, OneLine, LineFields
<1>4. QED BY <1>2, <1>3

\* No step breaks OrderInv: one undisturbed exchange ends before the next begins.
THEOREM OrderNext ==
  Sane /\ LockInv /\ StopInv /\ OrderInv /\ [Next]_vars => OrderInv'
<1> SUFFICES ASSUME Sane, LockInv, StopInv, OrderInv, [Next]_vars, ~disturbed'
             PROVE  OrderInv'
  BY DEF OrderInv
<1> USE DEF lock, pipes, ghosts
<1>1. CASE Wake
  <2>1. Head(waiters) \in Callers /\ method[Head(waiters)] \in Requests
    BY <1>1, HeadTailProperties DEF Wake, Sane, TypeOK
  <2>2. QED BY <1>1, <2>1, LockedKeepsOrder DEF Wake
<1>2. CASE ReadAnswer
  <2>1. ~disturbed /\ AtRead /\ stdout # <<>> /\ holder # NoOne
    BY <1>2 DEF ReadAnswer, AtRead
  <2>2. Quiet' /\ agent'.st = "idle" /\ Head(stdout).id = requestId
    BY <1>2, <2>1, ReaderFinds DEF ReadAnswer, Quiet
  <2>3. QED BY <1>2, <2>1, <2>2, FinishKeepsOrder DEF ReadAnswer
<1>3. CASE ReadProxyCall
  <2>1. ~disturbed /\ AtRead /\ stdout # <<>>
    BY <1>3 DEF ReadProxyCall
  <2>2. Quiet' /\ (alive' => InProxy')
    BY <1>3, <2>1, ReaderFinds DEF ReadProxyCall, Quiet, InProxy
  <2>3. holder' = holder /\ holder \in Callers /\ pc'[holder] = "proxy"
    BY <1>3, <2>1 DEF ReadProxyCall, AtRead, Sane, TypeOK
  <2>4. ~AtPipe' /\ holder' # NoOne /\ (~alive' => agent'.st = "idle")
    BY <1>3, <2>1, <2>3 DEF ReadProxyCall, AtPipe, AtRead, AtDrain, OrderInv, Shape
  <2>5. AnswersOwnRequest'
    BY <1>3, <2>1 DEF ReadProxyCall, OrderInv, AnswersOwnRequest, AnsweredIds
  <2>6. QED BY <2>2, <2>4, <2>5 DEF OrderInv, Shape, Quiet
<1>4. CASE ReadEof
  <2>1. Quiet' /\ agent'.st = "idle"
    BY <1>4 DEF ReadEof, AtPipe, OrderInv, Shape, Quiet
  <2>2. "closed" \in Failures /\ holder # NoOne
    BY <1>4 DEF ReadEof, AtRead, Failures
  <2>3. QED BY <1>4, <2>1, <2>2, FinishKeepsOrder DEF ReadEof
<1>5. CASE ProxyReturns
  <2>1. ~disturbed /\ AtProxy /\ Quiet /\ (alive => InProxy) /\ AnswersOwnRequest
    BY <1>5 DEF ProxyReturns, AtProxy, OrderInv, Shape
  <2>2. CASE attached
    <3>1. holder' = holder /\ holder \in Callers /\ pc'[holder] \in {"reading", "draining"}
      BY <1>5, <2>1, <2>2 DEF ProxyReturns, Drain, AtProxy, Sane, TypeOK
    <3>2. stdout' = <<>> /\ (alive => stdin' = <<Line("proxy_reply", StrayId)>>)
          /\ (~alive => stdin' = <<>>)
      BY <1>5, <2>1, <2>2, OneLine DEF ProxyReturns, Write, Quiet
    <3>3. alive' => NetReplied'
      BY <1>5, <2>1, <3>2 DEF ProxyReturns, NetReplied, InProxy
    <3>4. ~alive' => stdin' = <<>> /\ agent'.st = "idle"
      BY <1>5, <2>1, <3>2 DEF ProxyReturns, OrderInv, Shape
    <3>5. AnswersOwnRequest'
      BY <1>5, <2>1, <2>2 DEF ProxyReturns, AnswersOwnRequest, AnsweredIds
    <3>6. ~AtProxy' /\ holder' # NoOne
      BY <2>1, <3>1 DEF AtProxy
    <3>7. QED BY <3>2, <3>3, <3>4, <3>5, <3>6 DEF OrderInv, Shape
  <2>3. CASE ~attached
    <3>1. ~alive /\ agent.st = "idle" /\ holder # NoOne
      BY <2>1, <2>3 DEF StopInv, OrderInv, Shape, AtProxy
    <3>2. Quiet' /\ agent'.st = "idle" /\ "no_process" \in Failures
      BY <1>5, <2>1, <2>3, <3>1 DEF ProxyReturns, Quiet, Failures
    <3>3. QED BY <1>5, <2>3, <3>1, <3>2, FinishKeepsOrder DEF ProxyReturns
  <2>4. QED BY <2>2, <2>3
<1>6. ASSUME NEW c \in Callers, NEW m \in Requests, Send(c, m), pc[c] = "idle",
             UNCHANGED <<alive, stdout, agent, disturbed>>
      PROVE  OrderInv'
  <2>1. CASE ~IsRunning
    BY <1>6, <2>1, FrameKeepsOrder DEF Send
  <2>2. CASE IsRunning /\ holder = NoOne /\ waiters = <<>>
    BY <1>6, <2>2, LockedKeepsOrder DEF Send
  <2>3. CASE IsRunning /\ ~(holder = NoOne /\ waiters = <<>>)
    <3>1. holder # c
      BY <1>6 DEF LockInv
    <3>2. pc' = [pc EXCEPT ![c] = "queued"]
          /\ UNCHANGED <<holder, requestId, stdin, outcome>>
      BY <1>6, <2>3 DEF Send
    <3>3. holder # NoOne => pc'[holder] = pc[holder]
      BY <3>1, <3>2 DEF Sane, TypeOK
    <3>4. QED BY <1>6, <3>2, <3>3, FrameKeepsOrder
  <2>4. QED BY <2>1, <2>2, <2>3
<1>7. ASSUME NEW c \in Clients, NEW m \in {"execute", "health"}, Call(c, m)
      PROVE  OrderInv'
  BY <1>6, <1>7 DEF Call, Callers, Requests
<1>8. CASE StopCall
  <2>1. pc[Stopper] = "idle"
    BY <1>8 DEF StopCall, LockInv
  <2>2. QED BY <1>6, <1>8, <2>1 DEF StopCall, Callers, Requests
<1>9. ASSUME NEW c \in Clients, CancelWait(c)
      PROVE  OrderInv'
  <2>1. holder # c /\ c \in Callers
    BY <1>9 DEF CancelWait, LockInv, Callers
  <2>2. holder # NoOne => pc'[holder] = pc[holder]
    BY <1>9, <2>1 DEF CancelWait, Sane, TypeOK
  <2>3. QED BY <1>9, <2>2, FrameKeepsOrder DEF CancelWait
<1>10. CASE StopTerminate
  BY <1>10, DeathKeepsOrder DEF StopTerminate
<1>11. CASE StopDetach
  BY <1>11, FrameKeepsOrder DEF StopDetach
<1>12. ASSUME AgentReads \/ (\E kind \in Answers : AgentAnswers(kind)) \/ AgentCallsProxy
              \/ AgentTakesProxyReply
       PROVE  OrderInv'
  <2>1. ~disturbed /\ alive /\ AgentOnly
    BY <1>12 DEF AgentReads, AgentAnswers, AgentCallsProxy, AgentTakesProxyReply
  <2>2. (AtPipe' <=> AtPipe) /\ (AtProxy' <=> AtProxy) /\ AnswersOwnRequest'
        /\ (holder = NoOne <=> holder' = NoOne) /\ requestId' = requestId
    BY <2>1 DEF AgentOnly, AtPipe, AtRead, AtDrain, AtProxy, OrderInv, AnswersOwnRequest, AnsweredIds
  <2>3. AtPipe
    BY <1>12, <2>1 DEF AgentReads, AgentAnswers, AgentCallsProxy, AgentTakesProxyReply,
                       OrderInv, Shape, Quiet, InProxy, AtPipe, AtRead, AtDrain, AtProxy,
                       LockInv, Sane, TypeOK, Pcs
  <2>4. ~AtProxy /\ holder # NoOne
    BY <2>3 DEF AtPipe, AtRead, AtDrain, AtProxy
  <2>5. Asked \/ Working \/ CallsNet \/ NetReplied \/ Answered
    BY <2>1, <2>3 DEF OrderInv, Shape
  <2>6. SUFFICES \/ alive' /\ (Asked' \/ Working' \/ CallsNet' \/ NetReplied' \/ Answered')
                 \/ ~alive' /\ stdin' = <<>> /\ agent'.st = "idle" /\ Answered'
    BY <2>2, <2>3, <2>4 DEF OrderInv, Shape
  <2>7. CASE AgentReads
    <3>1. Asked /\ (\E m \in Requests : stdin = <<Line(m, requestId)>>) /\ stdout = <<>>
      BY <2>5, <2>7 DEF AgentReads, Asked, Working, CallsNet, NetReplied, Answered, Quiet
    <3>2. Head(stdin).id = requestId /\ Tail(stdin) = <<>> /\ Head(stdin).kind # "proxy_reply"
      BY <3>1, OneLine, LineFields
    <3>3. CASE Head(stdin).kind \in {"execute", "health"}
      <4>1. /\ stdin' = Tail(stdin) /\ stdout' = stdout /\ alive' = alive
            /\ agent' = [st |-> Head(stdin).kind, id |-> Head(stdin).id]
        BY <2>7, <3>3 DEF AgentReads
      <4>2. agent'.st \in {"execute", "health"} /\ agent'.id = requestId
        BY <3>2, <3>3, <4>1
      <4>3. Quiet' /\ alive'
        BY <2>1, <3>1, <3>2, <4>1 DEF Quiet
      <4>4. QED BY <2>2, <4>2, <4>3 DEF Working
    <3>4. CASE Head(stdin).kind = "shutdown"
      <4>1. ~alive' /\ stdin' = <<>> /\ agent' = Resting
            /\ stdout' = <<Line("reply", requestId)>>
        BY <2>7, <3>1, <3>2, <3>4, OneLine DEF AgentReads, Dies
      <4>2. QED BY <2>2, <4>1, LineFields DEF Answered, Answers
    <3>5. QED BY <2>7, <3>2, <3>3, <3>4 DEF AgentReads
  <2>8. ASSUME NEW kind \in Answers, AgentAnswers(kind)
        PROVE  alive' /\ Answered'
    <3>1. Working
      BY <2>5, <2>8 DEF AgentAnswers, Asked, Working, CallsNet, NetReplied, Answered, Quiet
    <3>2. stdout' = <<Line(kind, requestId)>> /\ stdin' = <<>> /\ agent' = Resting /\ alive'
      BY <2>8, <3>1, OneLine DEF AgentAnswers, Working, Quiet
    <3>3. QED BY <2>2, <3>2, LineFields DEF Answered
  <2>9. CASE AgentCallsProxy
    <3>1. Working
      BY <2>5, <2>9 DEF AgentCallsProxy, Asked, Working, CallsNet, NetReplied, Answered, Quiet
    <3>2. /\ stdout' = <<Line("network", StrayId)>> /\ stdin' = <<>> /\ alive'
          /\ agent' = [agent EXCEPT !.st = "awaiting"]
      BY <2>9, <3>1, OneLine DEF AgentCallsProxy, Working, Quiet
    <3>3. agent'.st = "awaiting" /\ agent'.id = requestId
      BY <3>1, <3>2 DEF Working, Sane, TypeOK, Agents
    <3>4. QED BY <2>2, <3>2, <3>3 DEF CallsNet
  <2>10. CASE AgentTakesProxyReply
    <3>1. NetReplied
      BY <2>5, <2>10 DEF AgentTakesProxyReply, Asked, Working, CallsNet, NetReplied, Answered,
                         Quiet
    <3>2. stdout' = <<>> /\ stdin' = <<>> /\ alive' /\ agent' = [agent EXCEPT !.st = "execute"]
      BY <2>10, <3>1, OneLine DEF AgentTakesProxyReply, NetReplied
    <3>3. agent'.st = "execute" /\ agent'.id = requestId
      BY <3>1, <3>2 DEF NetReplied, Sane, TypeOK, Agents
    <3>4. QED BY <2>2, <3>2, <3>3 DEF Working, Quiet
  <2>11. QED BY <1>12, <2>7, <2>8, <2>9, <2>10
<1>13. CASE AgentCrashes
  BY <1>13, DeathKeepsOrder DEF AgentCrashes, Dies, AgentOnly
<1>14. CASE ReadGarbage \/ Timeout \/ ProxyRaises \/ AgentPrints \/ DrainRaises
            \/ \E c \in Clients : CancelExchange(c)
  BY <1>14 DEF ReadGarbage, Timeout, ProxyRaises, AgentPrints, DrainRaises, CancelExchange
<1>17. CASE DrainEnds
  <2>1. holder \in Callers /\ holder' = holder
    BY <1>17 DEF DrainEnds, AtDrain, Sane, TypeOK
  <2>2. AtPipe /\ AtPipe' /\ ~AtProxy /\ ~AtProxy'
    BY <1>17, <2>1 DEF DrainEnds, AtPipe, AtRead, AtDrain, AtProxy, Sane, TypeOK
  <2>3. QED
    BY <1>17, <2>2 DEF DrainEnds, OrderInv, Shape, AnswersOwnRequest, AnsweredIds, Quiet, Asked,
                       Working, CallsNet, NetReplied, Answered
<1>15. CASE UNCHANGED vars
  BY <1>15, FrameKeepsOrder DEF vars
<1>16. QED
  BY <1>1, <1>2, <1>3, <1>4, <1>5, <1>7, <1>8, <1>9, <1>10, <1>11, <1>12, <1>13, <1>14, <1>15, <1>17
  DEF Next, KernelStep, BufferStep, Exchange, CallerStep, StopStep, AgentStep

\* The four invariants, inductive together.
RpcInv == Sane /\ LockInv /\ StopInv /\ OrderInv

\* They hold in every behaviour of the protocol.
LEMMA RpcInvariant == Spec => []RpcInv
<1>1. Init => RpcInv
  BY TypeInit, LockInit, StopInit, OrderInit DEF RpcInv
<1>2. RpcInv /\ [Next]_vars => RpcInv'
  BY TypeNext, LockNext, StopNext, OrderNext DEF RpcInv
<1>3. QED BY <1>1, <1>2, PTL DEF Spec

\* _send compares no id, and yet no caller gets another's answer before an
\* exchange is given up, or a stray line printed.
THEOREM AnswersAreOwn == Spec => []OwnAnswerUnlessDisturbed
<1>1. RpcInv => OwnAnswerUnlessDisturbed
  BY DEF RpcInv, OrderInv, OwnAnswerUnlessDisturbed
<1>2. QED BY <1>1, RpcInvariant, PTL

\* The agent that waits inside http_request takes the network's reply and not
\* the next request of the kernel.
THEOREM ProxyRepliesArrive == Spec => ProxyReplyReachesItsCall
<1> DEFINE A == (agent.st = "awaiting" /\ agent'.st = "execute" /\ ~disturbed)
                  => Head(stdin).kind = "proxy_reply"
<1>1. RpcInv /\ [Next]_vars => [A]_vars
  <2> SUFFICES ASSUME RpcInv, Next, agent.st = "awaiting", agent'.st = "execute", ~disturbed
               PROVE  Head(stdin).kind = "proxy_reply"
    OBVIOUS
  <2>1. alive /\ stdin # <<>>
    BY DEF Next, KernelStep, BufferStep, Wake, Exchange, ReadAnswer, ReadProxyCall, ReadGarbage, ReadEof,
           Timeout, ProxyReturns, ProxyRaises, DrainEnds, DrainRaises, CallerStep, Call, CancelExchange, CancelWait,
           StopCall, StopStep, StopTerminate, StopDetach, AgentStep, AgentReads, AgentAnswers,
           AgentCallsProxy, AgentTakesProxyReply, AgentPrints, AgentCrashes, Dies, Resting,
           AgentOnly, pipes
  <2>2. NetReplied
    BY <2>1 DEF RpcInv, OrderInv, Shape, Asked, Working, CallsNet, NetReplied, Answered, Quiet,
                InProxy, AtPipe, AtRead, AtDrain, AtProxy, LockInv, Sane, TypeOK, Pcs
  <2>3. QED BY <2>2, OneLine, LineFields DEF NetReplied
<1>2. QED BY <1>1, RpcInvariant, PTL DEF Spec, ProxyReplyReachesItsCall

-----------------------------------------------------------------------------
(* The protocol implements RpcService.  What it needs beyond RpcInv is that *)
(* the numbers in flight only grow from the answers handed out over stdout  *)
(* and the agent to stdin, whatever was disturbed.                          *)

Ids(s) == {s[j].id : j \in 1..Len(s)} \ {StrayId}
Increasing(s) == \A j, k \in 1..Len(s) :
                   j < k /\ s[j].id # StrayId /\ s[k].id # StrayId => s[j].id < s[k].id
Below(A, B) == \A a \in A, b \in B : a < b

Heard == {outcome[i].got : i \in AnsweredIds} \ {StrayId}
Held  == IF agent.st = "idle" THEN {} ELSE {agent.id} \ {StrayId}

FlowInv ==
  /\ Heard \subseteq 1..requestId /\ Ids(stdout) \subseteq 1..requestId
  /\ Held \subseteq 1..requestId /\ Ids(stdin) \subseteq 1..requestId
  /\ Below(Heard, Ids(stdout)) /\ Below(Heard, Held) /\ Below(Heard, Ids(stdin))
  /\ Below(Ids(stdout), Held) /\ Below(Ids(stdout), Ids(stdin)) /\ Below(Held, Ids(stdin))
  /\ Increasing(stdout) /\ Increasing(stdin)

\* What an append makes of the numbers in a pipe.
LEMMA AppendIds ==
  ASSUME NEW S, NEW s \in Seq(S), NEW x \in S
  PROVE  /\ Ids(Append(s, x)) \subseteq Ids(s) \cup ({x.id} \ {StrayId})
         /\ Increasing(s) /\ (x.id # StrayId => Below(Ids(s), {x.id})) => Increasing(Append(s, x))
<1>1. /\ Len(Append(s, x)) = Len(s) + 1 /\ Len(s) \in Nat
      /\ \A j \in 1..Len(s) : Append(s, x)[j] = s[j]
      /\ Append(s, x)[Len(s) + 1] = x
  OBVIOUS
<1> DEFINE t == Append(s, x)
<1> HIDE DEF t
<1>2. \A j \in 1..Len(s) + 1 : j \in 1..Len(s) \/ j = Len(s) + 1
  BY <1>1
<1>3. Ids(t) \subseteq Ids(s) \cup ({x.id} \ {StrayId})
  BY <1>1, <1>2 DEF Ids, t
<1>4. ASSUME Increasing(s), x.id # StrayId => Below(Ids(s), {x.id})
      PROVE  Increasing(t)
  <2> SUFFICES ASSUME NEW j \in 1..Len(s) + 1, NEW k \in 1..Len(s) + 1, j < k,
                      t[j].id # StrayId, t[k].id # StrayId
               PROVE  t[j].id < t[k].id
    BY <1>1 DEF Increasing, t
  <2>1. j \in 1..Len(s) /\ t[j] = s[j]
    BY <1>1 DEF t
  <2>2. CASE k \in 1..Len(s)
    BY <1>1, <1>4, <2>1, <2>2 DEF Increasing, t
  <2>3. CASE k = Len(s) + 1
    <3>1. t[k] = x /\ s[j].id \in Ids(s)
      BY <1>1, <2>1, <2>3 DEF t, Ids
    <3>2. QED
      BY <1>4, <2>1, <3>1 DEF Below
  <2>4. QED
    BY <1>2, <2>2, <2>3
<1>5. QED
  BY <1>3, <1>4 DEF t

\* What reading the head makes of them.
LEMMA TailIds ==
  ASSUME NEW S, NEW s \in Seq(S), s # <<>>
  PROVE  /\ Ids(Tail(s)) \subseteq Ids(s)
         /\ {Head(s).id} \ {StrayId} \subseteq Ids(s)
         /\ Increasing(s) => Increasing(Tail(s)) /\ Below({Head(s).id} \ {StrayId}, Ids(Tail(s)))
<1>1. /\ Head(s) = s[1] /\ Len(s) \in Nat \ {0} /\ Len(Tail(s)) = Len(s) - 1
      /\ \A j \in 1..Len(s) - 1 : Tail(s)[j] = s[j + 1]
  BY EmptySeq, LenProperties, HeadTailProperties
<1>2. /\ 1 \in 1..Len(s)
      /\ \A j \in 1..Len(s) - 1 : j + 1 \in 1..Len(s) /\ 1 < j + 1
      /\ \A j, k \in 1..Len(s) - 1 : j < k => j + 1 < k + 1
  BY <1>1
<1> DEFINE t == Tail(s)
<1>3. Len(t) = Len(s) - 1 /\ \A j \in 1..Len(s) - 1 : t[j] = s[j + 1]
  BY <1>1
<1> HIDE DEF t
<1>4. Ids(t) \subseteq Ids(s) /\ {Head(s).id} \ {StrayId} \subseteq Ids(s)
  BY <1>1, <1>2, <1>3 DEF Ids
<1>5. ASSUME Increasing(s) PROVE Increasing(t)
  BY <1>2, <1>3, <1>5 DEF Increasing
<1>6. ASSUME Increasing(s), Head(s).id # StrayId, NEW b \in Ids(t) PROVE Head(s).id < b
  <2>1. PICK j \in 1..Len(s) - 1 : b = s[j + 1].id /\ b # StrayId
    BY <1>3, <1>6 DEF Ids
  <2>2. QED
    BY <1>1, <1>2, <1>6, <2>1 DEF Increasing
<1>7. QED
  BY <1>4, <1>5, <1>6 DEF Below, t

\* Numbers that are passed on or dropped keep the order.
LEMMA FlowShrinks ==
  ASSUME Sane, FlowInv, Heard' \subseteq Heard, Ids(stdout)' \subseteq Ids(stdout), Held' \subseteq Held,
         Ids(stdin)' \subseteq Ids(stdin), Increasing(stdout)', Increasing(stdin)',
         requestId' \in Nat, requestId <= requestId'
  PROVE  FlowInv'
<1>1. 1..requestId \subseteq 1..requestId'
  BY BoundsAssumption DEF Sane, TypeOK
<1>2. QED
  BY <1>1 DEF FlowInv, Below

\* The pipes hold records, and an empty one no number.
LEMMA PipeFacts ==
  ASSUME Sane
  PROVE  /\ stdin \in Seq(InLines) /\ stdout \in Seq(OutLines) /\ requestId \in Nat
         /\ Ids(<<>>) = {} /\ Increasing(<<>>)
         /\ outcome \in [1..MaxRequests -> Outcomes]
BY BoundsAssumption DEF Sane, TypeOK, Ids, Increasing

\* A request that ends without an answer adds nothing that was heard.
LEMMA FailureHeard ==
  ASSUME Sane, NEW i, NEW kind \in Failures, NEW got, outcome' = [outcome EXCEPT ![i] = [kind |-> kind, got |-> got]]
  PROVE  Heard' \subseteq Heard
<1>1. \A j \in 1..MaxRequests : outcome'[j].kind \in Answers => j \in AnsweredIds /\ outcome'[j] = outcome[j]
  BY PipeFacts, LineFields DEF AnsweredIds
<1>2. QED
  BY <1>1 DEF Heard, AnsweredIds

\* The next holder of the lock writes the highest number, or ends at once.
LEMMA LockedKeepsFlow ==
  ASSUME Sane, FlowInv, NEW w \in Callers, NEW m \in Requests, requestId < MaxRequests, Locked(w, m),
         UNCHANGED <<alive, stdout, agent>>
  PROVE  FlowInv'
<1>1. requestId' = requestId + 1 /\ requestId' \in Nat /\ requestId <= requestId'
  BY PipeFacts DEF Locked
<1>2. CASE attached
  <2>1. /\ outcome' = outcome
        /\ stdin' = stdin \/ stdin' = Append(stdin, Line(m, requestId + 1))
    BY <1>2 DEF Locked, Write
  <2>2. Line(m, requestId + 1) \in InLines /\ Line(m, requestId + 1).id = requestId + 1
    <3>1. requestId + 1 \in 0..MaxRequests
      BY BoundsAssumption, PipeFacts
    <3>2. QED
      BY <3>1, RecordTypes, LineFields
  <2>3. \A n \in 1..requestId : n < requestId + 1 /\ n \in 1..requestId + 1
    BY PipeFacts
  <2>4. requestId + 1 \in 1..requestId + 1
    BY PipeFacts
  <2>5. Ids(stdin') \subseteq Ids(stdin) \cup {requestId + 1} /\ Increasing(stdin')
    <3>1. CASE stdin' = stdin
      BY <3>1 DEF FlowInv
    <3>2. CASE stdin' = Append(stdin, Line(m, requestId + 1))
      <4>1. Below(Ids(stdin), {Line(m, requestId + 1).id})
        BY <2>2, <2>3 DEF FlowInv, Below
      <4>2. /\ Ids(stdin') \subseteq Ids(stdin) \cup ({Line(m, requestId + 1).id} \ {StrayId})
            /\ Increasing(stdin')
        BY <2>2, <3>2, <4>1, AppendIds, PipeFacts DEF FlowInv
      <4>3. QED
        BY <2>2, <4>2
    <3>3. QED
      BY <2>1, <3>1, <3>2
  <2>6. Heard' = Heard /\ Ids(stdout)' = Ids(stdout) /\ Held' = Held /\ Increasing(stdout)'
    BY <2>1 DEF Heard, Held, AnsweredIds, FlowInv
  <2>7. QED
    BY <1>1, <2>3, <2>4, <2>5, <2>6 DEF FlowInv, Below
<1>3. CASE ~attached
  <2>1. /\ stdin' = stdin
        /\ outcome' = [outcome EXCEPT ![requestId + 1] = [kind |-> "no_process", got |-> StrayId]]
    BY <1>3 DEF Locked
  <2>2. Heard' \subseteq Heard
    BY <2>1, FailureHeard DEF Failures
  <2>3. Ids(stdout)' = Ids(stdout) /\ Held' = Held /\ Ids(stdin)' = Ids(stdin)
        /\ Increasing(stdout)' /\ Increasing(stdin)'
    BY <2>1 DEF Held, FlowInv
  <2>4. QED
    BY <1>1, <2>2, <2>3, FlowShrinks
<1>4. QED
  BY <1>2, <1>3

\* An exchange that ends without an answer keeps the order of what is in flight.
LEMMA FailureKeepsFlow ==
  ASSUME Sane, FlowInv, NEW kind \in Failures, Finish(kind, StrayId),
         stdout' = stdout \/ (stdout # <<>> /\ stdout' = Tail(stdout)),
         UNCHANGED <<requestId, stdin, agent>>
  PROVE  FlowInv'
<1>1. Heard' \subseteq Heard
  BY FailureHeard DEF Finish
<1>2. Ids(stdout)' \subseteq Ids(stdout) /\ Increasing(stdout)'
  BY TailIds, PipeFacts DEF FlowInv
<1>3. Held' = Held /\ Ids(stdin)' = Ids(stdin) /\ Increasing(stdin)' /\ requestId' = requestId
  BY DEF Held, FlowInv
<1>4. QED
  BY <1>1, <1>2, <1>3, FlowShrinks, PipeFacts

\* FlowInv holds initially: nothing is in flight.
LEMMA FlowInit == Init => FlowInv
<1> SUFFICES ASSUME Init PROVE FlowInv
  OBVIOUS
<1>1. Heard = {} /\ Held = {}
  BY DEF Init, Heard, AnsweredIds, Answers, Held, Resting
<1>2. Ids(stdin) = {} /\ Ids(stdout) = {} /\ Increasing(stdin) /\ Increasing(stdout)
  BY PipeFacts, TypeInit DEF Init
<1>3. QED
  BY <1>1, <1>2 DEF FlowInv, Below

\* No step breaks FlowInv.
LEMMA FlowNext == RpcInv /\ FlowInv /\ [Next]_vars => FlowInv'
<1> SUFFICES ASSUME RpcInv, FlowInv, [Next]_vars PROVE FlowInv'
  OBVIOUS
<1> USE DEF lock, pipes, ghosts
<1>0. Sane /\ LockInv
  BY DEF RpcInv
<1>20. UNCHANGED outcome => Heard' = Heard
  BY DEF Heard, AnsweredIds
<1>21. UNCHANGED agent => Held' = Held
  BY DEF Held
\* A line without a number is written.
<1>22. ASSUME NEW line \in OutLines, line.id = StrayId, stdout' = Append(stdout, line)
       PROVE  Ids(stdout)' \subseteq Ids(stdout) /\ Increasing(stdout)'
  BY <1>0, <1>22, AppendIds, PipeFacts DEF FlowInv
\* The agent answers with a number it has taken.
<1>23. ASSUME NEW line \in OutLines, stdout' = Append(stdout, line),
              line.id = StrayId \/ Below(Ids(stdout), {line.id})
       PROVE  Ids(stdout)' \subseteq Ids(stdout) \cup ({line.id} \ {StrayId}) /\ Increasing(stdout)'
  BY <1>0, <1>23, AppendIds, PipeFacts DEF FlowInv
<1>1. CASE Wake
  <2>1. Head(waiters) \in Callers /\ method[Head(waiters)] \in Requests /\ Len(waiters) > 0
    BY <1>0, <1>1, HeadTailProperties, EmptySeq, LenProperties DEF Wake, Sane, TypeOK
  <2>2. requestId < MaxRequests
    BY <1>0, <2>1, LenProperties, BoundsAssumption DEF Sane, TypeOK
  <2>3. QED
    BY <1>0, <1>1, <2>1, <2>2, LockedKeepsFlow DEF Wake
<1>2. ASSUME NEW c \in Callers, NEW m \in Requests, Send(c, m), UNCHANGED <<alive, stdout, agent>>
      PROVE  FlowInv'
  <2>1. CASE UNCHANGED <<requestId, stdin, outcome>>
    BY <1>2, <1>20, <1>21, <2>1 DEF FlowInv
  <2>2. CASE WithinBound /\ waiters = <<>> /\ Locked(c, m)
    <3>1. requestId < MaxRequests
      BY <1>0, <2>2, EmptySeq, BoundsAssumption DEF WithinBound, Sane, TypeOK
    <3>2. QED
      BY <1>0, <1>2, <2>2, <3>1, LockedKeepsFlow
  <2>3. QED
    BY <1>2, <2>1, <2>2 DEF Send
<1>3. CASE ReadAnswer
  <2> DEFINE n == Head(stdout).id
  <2>1. /\ stdout # <<>> /\ stdout' = Tail(stdout) /\ UNCHANGED <<requestId, stdin, agent>>
        /\ \E kind : outcome' = [outcome EXCEPT ![requestId] = [kind |-> kind, got |-> n]]
    BY <1>3 DEF ReadAnswer, Finish
  <2>2. /\ Ids(stdout)' \subseteq Ids(stdout) /\ {n} \ {StrayId} \subseteq Ids(stdout)
        /\ Increasing(stdout)' /\ Below({n} \ {StrayId}, Ids(stdout)')
    BY <1>0, <2>1, TailIds, PipeFacts DEF FlowInv
  <2>3. Heard' \subseteq Heard \cup ({n} \ {StrayId})
    <3>1. ASSUME NEW j \in AnsweredIds' PROVE outcome'[j].got = n \/ (j \in AnsweredIds /\ outcome'[j] = outcome[j])
      BY <1>0, <2>1, PipeFacts DEF AnsweredIds
    <3>2. QED
      BY <3>1 DEF Heard
  <2> HIDE DEF n
  <2>4. QED
    BY <1>21, <2>1, <2>2, <2>3 DEF FlowInv, Below
<1>4. CASE ReadProxyCall
  <2>1. stdout # <<>> /\ stdout' = Tail(stdout) /\ UNCHANGED <<requestId, stdin, agent, outcome>>
    BY <1>4 DEF ReadProxyCall
  <2>2. Ids(stdout)' \subseteq Ids(stdout) /\ Increasing(stdout)'
    BY <1>0, <2>1, TailIds, PipeFacts DEF FlowInv
  <2>3. QED
    BY <1>20, <1>21, <2>1, <2>2 DEF FlowInv, Below
<1>5. CASE ReadGarbage \/ ReadEof \/ Timeout \/ ProxyRaises \/ DrainRaises \/ \E c \in Clients : CancelExchange(c)
  <2>1. /\ \E kind \in Failures : Finish(kind, StrayId)
        /\ stdout' = stdout \/ (stdout # <<>> /\ stdout' = Tail(stdout))
        /\ UNCHANGED <<requestId, stdin, agent>>
    BY <1>5 DEF ReadGarbage, ReadEof, Timeout, ProxyRaises, DrainRaises, CancelExchange, Failures
  <2>2. QED
    BY <1>0, <2>1, FailureKeepsFlow
<1>6. CASE ProxyReturns
  <2>1. CASE ~attached
    <3>1. Finish("no_process", StrayId) /\ "no_process" \in Failures /\ UNCHANGED <<stdout, requestId, stdin, agent>>
      BY <1>6, <2>1 DEF ProxyReturns, Failures
    <3>2. QED
      BY <1>0, <3>1, FailureKeepsFlow
  <2>2. CASE attached
    <3>1. /\ UNCHANGED <<stdout, requestId, agent, outcome>>
          /\ stdin' = stdin \/ stdin' = Append(stdin, Line("proxy_reply", StrayId))
      BY <1>6, <2>2 DEF ProxyReturns, Write
    <3>2. Line("proxy_reply", StrayId) \in InLines /\ Line("proxy_reply", StrayId).id = StrayId
      BY RecordTypes, LineFields
    <3>3. Ids(stdin') \subseteq Ids(stdin) /\ Increasing(stdin')
      <4>1. CASE stdin' = stdin
        BY <4>1 DEF FlowInv
      <4>2. CASE stdin' = Append(stdin, Line("proxy_reply", StrayId))
        BY <1>0, <3>2, <4>2, AppendIds, PipeFacts DEF FlowInv
      <4>3. QED
        BY <3>1, <4>1, <4>2
    <3>4. QED
      BY <1>20, <1>21, <3>1, <3>3 DEF FlowInv, Below
  <2>3. QED
    BY <2>1, <2>2
<1>7. CASE AgentReads
  <2> DEFINE n == Head(stdin).id
  <2>1. stdin # <<>> /\ agent.st = "idle" /\ UNCHANGED <<requestId, outcome>> /\ Held = {}
    BY <1>7 DEF AgentReads, AgentOnly, Held
  <2>2. /\ Ids(Tail(stdin)) \subseteq Ids(stdin) /\ {n} \ {StrayId} \subseteq Ids(stdin)
        /\ Increasing(Tail(stdin)) /\ Below({n} \ {StrayId}, Ids(Tail(stdin)))
    BY <1>0, <2>1, TailIds, PipeFacts DEF FlowInv
  <2>3. n \in 0..MaxRequests
    <3>1. Head(stdin) \in InLines
      BY <1>0, <2>1, HeadTailProperties, PipeFacts
    <3>2. QED
      BY <3>1 DEF InLines, LineOf
  <2>4. CASE /\ stdin' = Tail(stdin) /\ UNCHANGED stdout
             /\ agent' = [st |-> Head(stdin).kind, id |-> n]
    <3>1. Held' \subseteq {n} \ {StrayId} /\ stdout' = stdout /\ Ids(stdin)' = Ids(Tail(stdin)) /\ Increasing(stdin)'
      BY <2>2, <2>4 DEF Held
    <3> HIDE DEF n
    <3>2. QED
      BY <1>20, <2>1, <2>2, <3>1 DEF FlowInv, Below
  <2>5. CASE /\ \E kind \in Answers : stdout' = Append(stdout, Line(kind, n))
             /\ stdin' = <<>> \/ stdin' = Tail(stdin)
             /\ agent'.st = "idle"
    <3>1. PICK kind \in Answers : stdout' = Append(stdout, Line(kind, n))
      BY <2>5
    <3>2. Line(kind, n) \in OutLines /\ Line(kind, n).id = n
      BY <2>3, RecordTypes, LineFields
    <3> HIDE DEF n
    <3>3. n = StrayId \/ Below(Ids(stdout), {n})
      BY <2>2 DEF FlowInv, Below
    <3>4. Ids(stdout)' \subseteq Ids(stdout) \cup ({n} \ {StrayId}) /\ Increasing(stdout)'
      BY <1>23, <3>1, <3>2, <3>3
    <3>5. Ids(stdin)' \subseteq Ids(Tail(stdin)) /\ Increasing(stdin)'
      BY <1>0, <2>2, <2>5, PipeFacts
    <3>6. Held' = {}
      BY <2>5 DEF Held
    <3>7. QED
      BY <1>20, <2>1, <2>2, <3>4, <3>5, <3>6 DEF FlowInv, Below
  <2>6. QED
    BY <1>7, <2>1, <2>4, <2>5, LineFields DEF AgentReads, Dies, Answers
<1>8. ASSUME NEW kind \in Answers, AgentAnswers(kind) PROVE FlowInv'
  <2>1. /\ agent.st # "idle" /\ stdout' = Append(stdout, Line(kind, agent.id)) /\ agent'.st = "idle"
        /\ UNCHANGED <<requestId, outcome, stdin>>
    BY <1>8, LineFields DEF AgentAnswers, AgentOnly
  <2>2. Line(kind, agent.id) \in OutLines /\ Line(kind, agent.id).id = agent.id
    <3>1. agent.id \in 0..MaxRequests
      BY <1>0 DEF Sane, TypeOK, Agents
    <3>2. QED
      BY <3>1, RecordTypes, LineFields
  <2>3. Held = {agent.id} \ {StrayId} /\ Held' = {}
    BY <2>1 DEF Held
  <2>4. agent.id = StrayId \/ Below(Ids(stdout), {agent.id})
    BY <2>3 DEF FlowInv, Below
  <2>5. Ids(stdout)' \subseteq Ids(stdout) \cup Held /\ Increasing(stdout)'
    BY <1>23, <2>1, <2>2, <2>3, <2>4
  <2>6. QED
    BY <1>20, <2>1, <2>3, <2>5 DEF FlowInv, Below
<1>9. CASE AgentCallsProxy \/ AgentPrints
  <2>1. /\ UNCHANGED <<requestId, outcome, stdin>>
        /\ \E kind \in {"network", "garbage"} : stdout' = Append(stdout, Line(kind, StrayId))
    BY <1>9 DEF AgentCallsProxy, AgentPrints, AgentOnly
  <2>2. \A kind \in {"network", "garbage"} : Line(kind, StrayId) \in OutLines /\ Line(kind, StrayId).id = StrayId
    BY RecordTypes, LineFields
  <2>3. Ids(stdout)' \subseteq Ids(stdout) /\ Increasing(stdout)'
    BY <1>22, <2>1, <2>2
  <2>4. Held' \subseteq Held
    BY <1>0, <1>9 DEF AgentCallsProxy, AgentPrints, Held, Sane, TypeOK, Agents
  <2>5. QED
    BY <1>20, <2>1, <2>3, <2>4 DEF FlowInv, Below
<1>10. CASE AgentTakesProxyReply
  <2>1. /\ UNCHANGED <<requestId, outcome, stdout>> /\ stdin # <<>> /\ stdin' = Tail(stdin)
        /\ agent.st = "awaiting" /\ agent' = [agent EXCEPT !.st = "execute"]
    BY <1>10 DEF AgentTakesProxyReply, AgentOnly
  <2>2. Held' = Held
    BY <1>0, <2>1 DEF Held, Sane, TypeOK, Agents
  <2>3. Ids(stdin)' \subseteq Ids(stdin) /\ Increasing(stdin)'
    BY <1>0, <2>1, TailIds, PipeFacts DEF FlowInv
  <2>4. QED
    BY <1>20, <2>1, <2>2, <2>3 DEF FlowInv, Below
<1>11. CASE StopTerminate \/ AgentCrashes
  <2>1. stdin' = <<>> /\ agent' = Resting /\ UNCHANGED <<requestId, outcome, stdout>>
    BY <1>11 DEF StopTerminate, AgentCrashes, Dies, AgentOnly
  <2>2. Held' = {} /\ Ids(stdin)' = {} /\ Increasing(stdin)'
    BY <1>0, <2>1, LineFields, PipeFacts DEF Held
  <2>3. QED
    BY <1>20, <2>1, <2>2 DEF FlowInv, Below
<1>12. CASE (\E c \in Clients : CancelWait(c)) \/ StopDetach \/ DrainEnds \/ UNCHANGED vars
  <2>1. UNCHANGED <<requestId, outcome, stdout, stdin, agent>>
    BY <1>12 DEF CancelWait, StopDetach, DrainEnds, vars
  <2>2. QED
    BY <1>20, <1>21, <2>1 DEF FlowInv
<1>13. QED
  BY <1>1, <1>2, <1>3, <1>4, <1>5, <1>6, <1>7, <1>8, <1>9, <1>10, <1>11, <1>12
  DEF Next, KernelStep, BufferStep, Exchange, CallerStep, StopStep, AgentStep, Call, StopCall, Callers, Requests

\* The numbers of the two ends: the service answers within the bound, and what
\* it has answered is what was heard.
LEMMA ServiceAnswers ==
  ASSUME Sane
  PROVE  \A i \in Service!Answered : outcome[i].got \in Heard
<1>1. 1..requestId \subseteq 1..MaxRequests
  BY BoundsAssumption DEF Sane, TypeOK
<1>2. QED
  BY <1>1 DEF Service!Answered, Service!Answers, Answers, Heard, AnsweredIds

\* The next holder of the lock begins a request, or begins and fails at once.
LEMMA LockedIsBegin ==
  ASSUME Sane, NEW w \in Callers, NEW m \in Requests, holder = NoOne,
         requestId < MaxRequests, Locked(w, m), disturbed' = disturbed
  PROVE  Service!Next
<1>1. CASE attached
  <2>1. ~(holder # NoOne) /\ (holder' # NoOne)
    BY <1>1, CallersAssumption DEF Locked
  <2>2. requestId' = requestId + 1 /\ outcome' = outcome
    BY <1>1 DEF Locked
  <2>3. Service!Begin
    BY <2>1, <2>2 DEF Service!Begin
  <2>4. QED
    BY <2>3 DEF Service!Next
<1>2. CASE ~attached
  <2>1. ~(holder # NoOne) /\ ~(holder' # NoOne)
    BY <1>2 DEF Locked
  <2>2. /\ requestId' = requestId + 1
        /\ outcome' = [outcome EXCEPT ![requestId + 1] = [kind |-> "no_process", got |-> StrayId]]
    BY <1>2 DEF Locked
  <2>3. Service!BeginAndFail("no_process")
    BY <2>1, <2>2 DEF Service!BeginAndFail
  <2>4. QED
    BY <2>3 DEF Service!Next, Service!Failures
<1>3. QED
  BY <1>1, <1>2

\* A step that leaves the lock, the numbers and the outcomes alone is no step of
\* the service, or a disturbance.
LEMMA OutsideIsStutter ==
  ASSUME UNCHANGED <<holder, requestId, outcome>>, disturbed' = disturbed \/ disturbed' = TRUE
  PROVE  [Service!Next]_Service!vars
BY DEF Service!Next, Service!Disturb, Service!vars

\* The answer that readline returns is one the service may give.
LEMMA ReadIsAnswer ==
  ASSUME RpcInv, FlowInv, ReadAnswer
  PROVE  Service!Next
<1> DEFINE n == Head(stdout).id
           k == Head(stdout).kind
<1>1. /\ holder # NoOne /\ ~(holder' # NoOne) /\ stdout # <<>> /\ k \in Answers
      /\ requestId' = requestId /\ disturbed' = disturbed
      /\ outcome' = [outcome EXCEPT ![requestId] = [kind |-> k, got |-> n]]
  BY DEF ReadAnswer, AtRead, Finish, ghosts
<1>2. Sane /\ OrderInv
  BY DEF RpcInv
<1>3. n \in {StrayId} \cup 1..requestId /\ (n # StrayId => Service!Unheard(n))
  <2>1. {n} \ {StrayId} \subseteq Ids(stdout)
    BY <1>1, <1>2, TailIds, PipeFacts
  <2> HIDE DEF n
  <2>2. QED
    BY <1>2, <2>1, ServiceAnswers DEF FlowInv, Below, Service!Unheard
<1>4. n = requestId \/ disturbed
  BY <1>1, <1>2, ReaderFinds DEF ReadAnswer
<1> HIDE DEF n, k
<1>5. n = requestId \/ (disturbed /\ n = StrayId) \/ (disturbed /\ n \in 1..requestId /\ Service!Unheard(n))
  BY <1>3, <1>4
<1>6. Service!Answer(k, n)
  BY <1>1, <1>5 DEF Service!Answer
<1>7. n \in {StrayId} \cup 1..MaxRequests
  BY <1>2, <1>3, BoundsAssumption DEF Sane, TypeOK
<1>8. QED
  BY <1>1, <1>6, <1>7 DEF Service!Next, Service!Answers, Answers

\* An exchange that ends without an answer is a request that failed.
LEMMA FinishIsFail ==
  ASSUME NEW kind \in Failures, holder # NoOne, Finish(kind, StrayId), requestId' = requestId,
         disturbed' = disturbed \/ disturbed' = TRUE
  PROVE  Service!Next
<1>1. ~(holder' # NoOne) /\ outcome' = [outcome EXCEPT ![requestId] = [kind |-> kind, got |-> StrayId]]
  BY DEF Finish
<1>2. Service!Fail(kind)
  BY <1>1 DEF Service!Fail
<1>3. QED
  BY <1>2 DEF Service!Next, Service!Failures, Failures

\* Every step of the protocol is a step of the service or leaves it as it is.
LEMMA ServiceStep == RpcInv /\ FlowInv /\ [Next]_vars => [Service!Next]_Service!vars
<1> SUFFICES ASSUME RpcInv, FlowInv, [Next]_vars PROVE [Service!Next]_Service!vars
  OBVIOUS
<1> USE DEF lock, ghosts
<1>0. Sane
  BY DEF RpcInv
<1>1. CASE Wake
  <2>1. Head(waiters) \in Callers /\ method[Head(waiters)] \in Requests /\ Len(waiters) > 0
    BY <1>0, <1>1, HeadTailProperties, EmptySeq, LenProperties DEF Wake, Sane, TypeOK
  <2>2. requestId < MaxRequests
    BY <1>0, <2>1, LenProperties, BoundsAssumption DEF Sane, TypeOK
  <2>3. QED
    BY <1>0, <1>1, <2>1, <2>2, LockedIsBegin DEF Wake
<1>2. ASSUME NEW c \in Callers, NEW m \in Requests, Send(c, m), disturbed' = disturbed
      PROVE  [Service!Next]_Service!vars
  <2>1. CASE UNCHANGED <<holder, requestId, outcome>>
    BY <1>2, <2>1, OutsideIsStutter
  <2>2. CASE WithinBound /\ holder = NoOne /\ waiters = <<>> /\ Locked(c, m)
    <3>1. requestId < MaxRequests
      BY <1>0, <2>2, EmptySeq, BoundsAssumption DEF WithinBound, Sane, TypeOK
    <3>2. QED
      BY <1>0, <1>2, <2>2, <3>1, LockedIsBegin
  <2>3. QED
    BY <1>2, <2>1, <2>2 DEF Send
<1>3. CASE ReadAnswer
  BY <1>3, ReadIsAnswer
<1>4. CASE \/ ReadGarbage \/ ReadEof \/ Timeout \/ ProxyRaises \/ DrainRaises \/ (ProxyReturns /\ ~attached)
           \/ \E c \in Clients : CancelExchange(c)
  <2>1. /\ \E kind \in Failures : Finish(kind, StrayId)
        /\ holder # NoOne /\ requestId' = requestId
        /\ disturbed' = disturbed \/ disturbed' = TRUE
    BY <1>4, CallersAssumption
    DEF ReadGarbage, ReadEof, Timeout, ProxyRaises, DrainRaises, ProxyReturns, CancelExchange, AtRead,
        AtDrain, Failures, Callers
  <2>2. QED
    BY <2>1, FinishIsFail
<1>5. CASE \/ ReadProxyCall \/ DrainEnds \/ (ProxyReturns /\ attached) \/ StopStep \/ AgentStep \/ UNCHANGED vars
           \/ \E c \in Clients : CancelWait(c)
  <2>1. UNCHANGED <<holder, requestId, outcome>>
    BY <1>5 DEF ReadProxyCall, DrainEnds, ProxyReturns, StopStep, StopTerminate, StopDetach, AgentStep, AgentReads,
                AgentAnswers, AgentCallsProxy, AgentTakesProxyReply, AgentPrints, AgentCrashes,
                AgentOnly, CancelWait, vars
  <2>2. disturbed' = disturbed \/ disturbed' = TRUE
    BY <1>5 DEF ReadProxyCall, DrainEnds, ProxyReturns, StopStep, StopTerminate, StopDetach, AgentStep, AgentReads,
                AgentAnswers, AgentCallsProxy, AgentTakesProxyReply, AgentPrints, AgentCrashes,
                CancelWait, vars
  <2>3. QED
    BY <2>1, <2>2, OutsideIsStutter
<1>6. QED
  BY <1>1, <1>2, <1>3, <1>4, <1>5
  DEF Next, KernelStep, BufferStep, Exchange, CallerStep, Call, StopCall, Callers, Requests

\* NativeProtocol keeps what RpcService promises its callers, for any number of
\* callers, requests and stray lines and whatever is disturbed:
\* requests one at a time; an undisturbed answer is the caller's own; a disturbed
\* one is in order, not ahead of its request and not handed out twice.
THEOREM ServiceIsImplemented == Spec => ImplementsService
<1>1. Init => Service!Init
  BY DEF Init, Service!Init
<1>2. Init => FlowInv
  BY FlowInit
<1>3. RpcInv /\ FlowInv /\ [Next]_vars => FlowInv'
  BY FlowNext
<1>4. RpcInv /\ FlowInv /\ [Next]_vars => [Service!Next]_Service!vars
  BY ServiceStep
<1>5. Spec => []RpcInv
  BY RpcInvariant
<1>6. QED
  BY <1>1, <1>2, <1>3, <1>4, <1>5, PTL DEF Spec, ImplementsService, Service!Spec

=============================================================================
