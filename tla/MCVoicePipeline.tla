--------------------------- MODULE MCVoicePipeline ---------------------------
(* Two parts, checked apart: the kernel's voice pipeline (VoicePipeline), with  *)
(* a chat answer only in wake-word mode before the first stop(), in which the   *)
(* recorder raises only for the chat, while in continuous mode it does for      *)
(* everybody; and the desktop's updater (Updater) with two versions of two      *)
(* files, one call of install, two failures and one more start.                 *)
EXTENDS VoicePipeline
CONSTANTS Last, Number, Size, Calls, MaxFaults, MaxRestarts
VARIABLES part,
  current, published, answer, phase, available, disk, load, install, faults, starts

U == INSTANCE Updater WITH MaxStarts <- MaxRestarts

updater == <<current, published, answer, phase, available, disk, load, install, faults, starts>>

MCInit ==
  /\ part \in {"pipeline", "updater"} /\ Init /\ U!Init
  /\ part = "updater" => mode = "wake_word"
MCNext ==
  \/ /\ part = "pipeline" /\ Next /\ UNCHANGED <<part, updater>>
     /\ chats' # chats => mode = "wake_word" /\ ~micFailed /\ stops = 0
     /\ micFailed' /\ ~micFailed => mode = "continuous" \/ chat' # chat
  \/ part = "updater" /\ U!Next /\ UNCHANGED <<part, vars>>
\* Fairness is that of both parts: in the initial states, in which each of them
\* finds the other, nothing of it is enabled.
MCSpec ==
  /\ MCInit /\ [][MCNext]_<<part, vars, updater>>
  /\ Fairness
  /\ WF_updater(U!Download) /\ WF_updater(phase = "error" /\ U!start_download)

\* Only whole files of its own version are handed to an installer (updater.rs).
InstalledIsVerified == U!InstalledIsVerified
\* Who tries again gets the update, whatever earlier attempts left, if no request
\* waits for its header for ever (updater.rs).
RetrySucceeds == U!RetrySucceeds
=============================================================================
