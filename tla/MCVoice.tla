------------------------------- MODULE MCVoice -------------------------------
(* Two parts, checked apart: the desktop's voice machine (VoiceMachine) and   *)
(* its bridge to the Python worker (BridgeWorker).  Fairness is the machine's:*)
(* of the bridge the run checks what is never wrong.                          *)
EXTENDS VoiceMachine
CONSTANTS Ids, NoId, ChanCap, PipeCap
VARIABLES part, alive, call, chan, writer, inHand, pending, stdin, stdout, busy, reader

B == INSTANCE BridgeWorker

bridge == <<alive, call, chan, writer, inHand, pending, stdin, stdout, busy, reader>>

MCInit == part \in {"machine", "bridge"} /\ Init /\ B!Init
MCNext ==
  \/ part = "machine" /\ Next /\ UNCHANGED <<part, bridge>>
  \/ part = "bridge" /\ B!Next /\ UNCHANGED <<part, vars>>
MCSpec == MCInit /\ [][MCNext]_<<part, vars, bridge>> /\ Fairness

\* Nobody waits for a reply of the worker that cannot come any more.
NoCallerLost == B!NoCallerLost
=============================================================================
