---------------------------- MODULE BridgeWorker ----------------------------
(***************************************************************************)
(* The desktop's bridge to its Python worker: callers hand requests to the *)
(* writer task over a bounded channel; the writer files each one's reply   *)
(* channel (resp_tx) under its id and writes it to the worker; the reader  *)
(* resolves what the worker answers by id.  A caller waits on its resp_rx, *)
(* which also ends when the resp_tx is dropped.  Each call has an id of    *)
(* its own (a uuid), so a call is its id.                                  *)
(***************************************************************************)
EXTENDS Naturals, Sequences, FiniteSets

CONSTANTS Ids,      \* the calls of one behaviour
          NoId,
          ChanCap,  \* bound of the request channel (64 in the code)
          PipeCap   \* requests the pipe to the worker holds unread

VARIABLES alive,    \* the worker's process lives
          call,     \* call[i]: where the caller is
          chan,     \* requests sent and not yet taken by the writer
          writer,   \* "idle", "filed" or "exited"
          inHand,   \* the request the writer is writing
          pending,  \* ids whose resp_tx is in the map
          stdin, stdout,
          busy,     \* the request the worker is serving
          reader    \* "reading" or "exited"

vars == <<alive, call, chan, writer, inHand, pending, stdin, stdout, busy, reader>>
worker == <<alive, stdin, stdout, busy>>

Places == {"none", "sending", "waiting", "replied", "not_running", "timeout"}

Init == /\ alive = TRUE
        /\ call = [i \in Ids |-> "none"]
        /\ chan = <<>>
        /\ writer = "idle" /\ inHand = NoId
        /\ pending = {}
        /\ stdin = <<>> /\ stdout = <<>> /\ busy = NoId
        /\ reader = "reading"

Ranged(s) == {s[k] : k \in DOMAIN s}

\* The calls of S learn that the worker is gone; those that timed out do not care.
Released(S) == [i \in Ids |-> IF i \in S /\ call[i] \in {"sending", "waiting"}
                              THEN "not_running" ELSE call[i]]

-----------------------------------------------------------------------------
CallBegins(i) ==
  /\ call[i] = "none"
  /\ call' = [call EXCEPT ![i] = "sending"]
  /\ UNCHANGED <<chan, writer, inHand, pending, worker, reader>>

\* tx.send: refused when the writer is gone, waits while the channel is full.
Send(i) ==
  /\ call[i] = "sending"
  /\ IF writer = "exited"
     THEN call' = [call EXCEPT ![i] = "not_running"] /\ UNCHANGED chan
     ELSE /\ Len(chan) < ChanCap
          /\ chan' = Append(chan, i)
          /\ call' = [call EXCEPT ![i] = "waiting"]
  /\ UNCHANGED <<writer, inHand, pending, worker, reader>>

\* No reply within timeout_dur; the request stays wherever it is.
Timeout(i) ==
  /\ call[i] = "waiting"
  /\ call' = [call EXCEPT ![i] = "timeout"]
  /\ UNCHANGED <<chan, writer, inHand, pending, worker, reader>>

\* writer_task takes a request and files its resp_tx before it writes.
WriterFiles ==
  /\ writer = "idle"
  /\ chan # <<>>
  /\ inHand' = Head(chan)
  /\ chan' = Tail(chan)
  /\ pending' = pending \cup {Head(chan)}
  /\ writer' = "filed"
  /\ UNCHANGED <<call, worker, reader>>

\* write_all waits while the pipe is full and the worker does not read.
WriterWrites ==
  /\ writer = "filed"
  /\ alive
  /\ Len(stdin) < PipeCap
  /\ stdin' = Append(stdin, inHand)
  /\ writer' = "idle"
  /\ inHand' = NoId
  /\ UNCHANGED <<alive, call, chan, pending, stdout, busy, reader>>

\* The write fails: this call is told, and with the task ends its receiver,
\* which drops what is in the channel.
WriterFails ==
  /\ writer = "filed"
  /\ ~alive
  /\ call' = Released(Ranged(chan) \cup (pending \cap {inHand}))
  /\ pending' = pending \ {inHand}
  /\ chan' = <<>>
  /\ writer' = "exited"
  /\ inHand' = NoId
  /\ UNCHANGED <<worker, reader>>

\* Mutant of WriterStep: the request is written before it is filed.
WriterTakes ==
  /\ writer = "idle"
  /\ chan # <<>>
  /\ inHand' = Head(chan)
  /\ chan' = Tail(chan)
  /\ writer' = "filed"
  /\ UNCHANGED <<call, pending, worker, reader>>
WriterWritesFirst ==
  /\ writer = "filed"
  /\ alive
  /\ Len(stdin) < PipeCap
  /\ stdin' = Append(stdin, inHand)
  /\ writer' = "written"
  /\ UNCHANGED <<alive, call, chan, inHand, pending, stdout, busy, reader>>
WriterFilesLast ==
  /\ writer = "written"
  /\ pending' = pending \cup {inHand}
  /\ writer' = "idle"
  /\ inHand' = NoId
  /\ UNCHANGED <<call, chan, worker, reader>>
WriterStepLate == WriterTakes \/ WriterWritesFirst \/ WriterFilesLast \/ WriterFails

WriterStep == WriterFiles \/ WriterWrites \/ WriterFails

\* A reply or error resolves the call its id names, if that one still waits.
ReaderReads ==
  /\ reader = "reading"
  /\ stdout # <<>>
  /\ stdout' = Tail(stdout)
  /\ LET i == Head(stdout)
         heard == i \in pending /\ call[i] = "waiting" IN
       /\ pending' = pending \ {i}
       /\ call' = [call EXCEPT ![i] = IF heard THEN "replied" ELSE @]
  /\ UNCHANGED <<alive, chan, writer, inHand, stdin, busy, reader>>

\* stdout is closed: every call in the map is told.
ReaderEof ==
  /\ reader = "reading"
  /\ stdout = <<>>
  /\ ~alive
  /\ call' = Released(pending)
  /\ pending' = {}
  /\ reader' = "exited"
  /\ UNCHANGED <<chan, writer, inHand, worker>>

-----------------------------------------------------------------------------
(* The worker: one request at a time; it may hang in one, or die *)

WorkerReads ==
  /\ alive /\ busy = NoId /\ stdin # <<>>
  /\ busy' = Head(stdin)
  /\ stdin' = Tail(stdin)
  /\ UNCHANGED <<alive, call, chan, writer, inHand, pending, stdout, reader>>

WorkerAnswers ==
  /\ alive /\ busy # NoId
  /\ stdout' = Append(stdout, busy)
  /\ busy' = NoId
  /\ UNCHANGED <<alive, call, chan, writer, inHand, pending, stdin, reader>>

WorkerDies ==
  /\ alive
  /\ alive' = FALSE
  /\ stdin' = <<>>
  /\ busy' = NoId
  /\ UNCHANGED <<call, chan, writer, inHand, pending, stdout, reader>>

BridgeStep == \/ \E i \in Ids : Send(i)
              \/ WriterStep
              \/ ReaderReads \/ ReaderEof

WorkerStep == WorkerReads \/ WorkerAnswers \/ WorkerDies

Next == \/ \E i \in Ids : CallBegins(i) \/ Timeout(i)
        \/ BridgeStep
        \/ WorkerStep

Spec == Init /\ [][Next]_vars

-----------------------------------------------------------------------------
(* Properties *)

\* The values every variable keeps.
TypeOK ==
  /\ alive \in BOOLEAN
  /\ call \in [Ids -> Places]
  /\ chan \in Seq(Ids) /\ Len(chan) <= ChanCap
  /\ writer \in {"idle", "filed", "exited"}
  /\ inHand \in Ids \cup {NoId}
  /\ pending \subseteq Ids
  /\ stdin \in Seq(Ids) /\ Len(stdin) <= PipeCap
  /\ stdout \in Seq(Ids)
  /\ busy \in Ids \cup {NoId}
  /\ reader \in {"reading", "exited"}

\* The worker has the request, or its answer is on the way.
UnderWay(i) == i \in Ranged(stdin) \cup Ranged(stdout) \cup {busy}

\* Nobody waits for what cannot come (bridge.rs:172, "so a fast reply can't race
\* us"): as long as a caller waits its resp_tx is with a living writer or with a
\* reader that will find it there, with an answer still to come or the worker's
\* end, whatever hangs, dies or is answered late.
NoCallerLost ==
  \A i \in Ids : call[i] = "waiting" =>
    \/ writer # "exited" /\ i \in Ranged(chan)
    \/ inHand = i
    \/ i \in pending /\ reader = "reading" /\ (alive => UnderWay(i))

=============================================================================
