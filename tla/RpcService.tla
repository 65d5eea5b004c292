----------------------------- MODULE RpcService -----------------------------
(***************************************************************************)
(* What NativeProtocol (src/kernel/agent_runtime/protocols/native.py)      *)
(* promises to its callers, without its pipes, its lock and its agent:     *)
(* requests are served one at a time; an answer handed to a caller answers *)
(* his own request as long as no exchange was disturbed (given up before   *)
(* its answer was read, or polluted by a stray line); after a disturbance  *)
(* an answer may be one for an older request, but answers still come in    *)
(* the order of the requests, none twice and none ahead of its request.    *)
(***************************************************************************)
EXTENDS Naturals

CONSTANTS MaxRequests,  (* bound on the requests of one behaviour           *)
          StrayId       (* the id on the answer to a line that was none of  *)
                        (* the numbered requests                            *)

VARIABLES sent,         (* number of requests begun                         *)
          open,         (* one request has been begun and not yet ended     *)
          disturbed,    (* an exchange was given up or polluted             *)
          outcome       (* outcome[i]: how request i ended                  *)

vars == <<sent, open, disturbed, outcome>>

Answers  == {"reply", "error"}

Answered == {i \in 1..sent : outcome[i].kind \in Answers /\ outcome[i].got # StrayId}

Unheard(got) == \A i \in Answered : outcome[i].got < got

Init == /\ sent = 0
        /\ open = FALSE
        /\ disturbed = FALSE
        /\ outcome = [i \in 1..MaxRequests |-> [kind |-> "none", got |-> StrayId]]

Begin == /\ ~open
         /\ sent < MaxRequests
         /\ sent' = sent + 1
         /\ open' = TRUE
         /\ UNCHANGED <<disturbed, outcome>>

\* A request that fails before anything is written is begun and ended at once.
BeginAndFail(kind) ==
         /\ ~open
         /\ sent < MaxRequests
         /\ sent' = sent + 1
         /\ outcome' = [outcome EXCEPT ![sent + 1] = [kind |-> kind, got |-> StrayId]]
         /\ UNCHANGED <<open, disturbed>>

Answer(kind, got) ==
         /\ open
         /\ \/ got = sent
            \/ disturbed /\ got = StrayId
            \/ disturbed /\ got \in 1..sent /\ Unheard(got)
         /\ open' = FALSE
         /\ outcome' = [outcome EXCEPT ![sent] = [kind |-> kind, got |-> got]]
         /\ UNCHANGED <<sent, disturbed>>

Fail(kind) ==
         /\ open
         /\ open' = FALSE
         /\ outcome' = [outcome EXCEPT ![sent] = [kind |-> kind, got |-> StrayId]]
         /\ disturbed' \in {disturbed, TRUE}
         /\ UNCHANGED sent

Disturb == /\ disturbed' = TRUE
           /\ UNCHANGED <<sent, open, outcome>>

Failures == {"timeout", "closed", "cancelled", "garbage", "proxy_raised", "no_process"}

Next == \/ Begin
        \/ \E kind \in Failures : BeginAndFail(kind) \/ Fail(kind)
        \/ \E kind \in Answers, got \in {StrayId} \cup 1..MaxRequests : Answer(kind, got)
        \/ Disturb

Spec == Init /\ [][Next]_vars
=============================================================================
