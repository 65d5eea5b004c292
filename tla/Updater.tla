------------------------------- MODULE Updater -------------------------------
(* The desktop's updater (src-tauri/src/backend/updater.rs) behind its four   *)
(* routes (http.rs): the manifest is checked, the files of a newer version    *)
(* are downloaded, resumed, hashed, hashed again and handed to an installer.  *)
(* A download runs in a task of its own, beside checks and clicks; between    *)
(* two awaits everybody else may go on.  A file is the blocks it has and      *)
(* whether they are the manifest's; the hash tells whether it is whole.       *)
EXTENDS Naturals, Sequences

CONSTANTS
  Last,       \* versions are 1..Last: what was, is or will be published
  Number,     \* assets of a version; the first is the setup
  Size,       \* blocks of an asset
  Calls,      \* calls of /updater/install
  MaxFaults,  \* bound: failures of the network, the disk and its owner
  MaxStarts   \* bound: starts of the desktop after the first

VARIABLES
  current,    \* the installed version
  published,  \* the version of the manifest in the repository
  answer,     \* the manifest that a check has been given: <<>> or <<version>>
  phase, available,  \* Inner; 0 for None
  disk,       \* the files of updates_root/<version>/<asset>
  load,       \* the task of run_download: where, of which version, which asset
  install,    \* install[c]: where a call is, its setup's and its manifest's version
  faults, starts

vars == <<current, published, answer, phase, available, disk, load, install, faults, starts>>

Versions == 1..Last
Assets == 1..Number
Empty == [len |-> 0, good |-> TRUE]
Idle == [at |-> "idle", v |-> 0, a |-> 1]
NoCall == [at |-> "none", setup |-> 0, v |-> 0, a |-> 1, ready |-> FALSE]
Whole(f) == f = [len |-> Size, good |-> TRUE]
WholeVersion(v) == v # 0 /\ \A a \in Assets : Whole(disk[v][a])

TypeOK ==
  /\ current \in 0..Last /\ published \in 0..Last /\ available \in 0..Last
  /\ answer \in {<<>>} \cup {<<v>> : v \in 0..Last}
  /\ phase \in {"idle", "available", "downloading", "ready", "installing", "error"}
  /\ disk \in [Versions -> [Assets -> [len: 0..Size + 1, good: BOOLEAN]]]
  /\ load \in [at: {"idle", "asset", "asked", "reading", "hashing"}, v: 0..Last, a: 1..Number + 1]
  /\ install \in [Calls -> [at: {"none", "looked", "verifying", "spawned"}, setup: 0..Last,
                            v: 0..Last, a: 1..Number + 1, ready: BOOLEAN]]
  /\ faults \in 0..MaxFaults /\ starts \in 0..MaxStarts

Init ==
  /\ current = 0 /\ published = 0 /\ answer = <<>>
  /\ phase = "idle" /\ available = 0
  /\ disk = [v \in Versions |-> [a \in Assets |-> Empty]]
  /\ load = Idle /\ install = [c \in Calls |-> NoCall]
  /\ faults = 0 /\ starts = 0

\* Something goes wrong.
Fault == faults < MaxFaults /\ faults' = faults + 1

-----------------------------------------------------------------------------
(* check: the manifest is fetched without the lock, then taken under it.     *)

\* A failed fetch changes nothing.
check_fetches ==
  /\ answer = <<>> /\ answer' = <<published>>
  /\ UNCHANGED <<current, published, phase, available, disk, load, install, faults, starts>>

check_takes ==
  /\ answer # <<>> /\ answer' = <<>>
  /\ IF answer[1] > current /\ phase \in {"idle", "available"}
     THEN phase' = "available" /\ available' = answer[1]
     ELSE IF answer[1] <= current /\ phase = "available" THEN phase' = "idle" /\ available' = 0
     ELSE UNCHANGED <<phase, available>>
  /\ UNCHANGED <<current, published, disk, load, install, faults, starts>>

-----------------------------------------------------------------------------
(* start_download, run_download and download_asset.                          *)

\* disk_ok may refuse; a second click does nothing.
start_download ==
  /\ available # 0 /\ phase \in {"idle", "available", "error"}
  /\ \/ Fault /\ phase' = "error" /\ UNCHANGED load
     \/ phase' = "downloading" /\ load' = [at |-> "asset", v |-> available, a |-> 1]
        /\ UNCHANGED faults
  /\ UNCHANGED <<current, published, answer, available, disk, install, starts>>

\* The file of the download, and the download at its next asset.
File == disk[load.v][load.a]
Write(f) == disk' = [disk EXCEPT ![load.v][load.a] = f]
Next_asset == load' = IF load.a = Number THEN [load EXCEPT !.at = "hashing", !.a = 1]
                        ELSE [load EXCEPT !.at = "asset", !.a = @ + 1]
Fails == load' = Idle /\ phase' = "error"

\* What is there is kept, unless it is too long; the rest is asked for, if the
\* server can be connected.
download_asset ==
  LET have == IF File.len > Size THEN Empty ELSE File IN
  /\ load.at = "asset"
  /\ \/ /\ have.len = Size /\ Next_asset
        /\ UNCHANGED <<phase, disk, faults>>
     \/ /\ have.len < Size /\ Write(have)
        /\ load' = [load EXCEPT !.at = "asked"]
        /\ UNCHANGED <<phase, faults>>
     \/ have.len < Size /\ Fault /\ Write(have) /\ Fails
  /\ UNCHANGED <<current, published, answer, available, install, starts>>

\* req.send().await: nothing limits how long the header takes.  It announces the
\* rest or, if the server knows no ranges, the whole, for which the file is
\* emptied.
header_arrives ==
  /\ load.at = "asked"
  /\ \/ /\ \E f \in {File, Empty} : Write(f)
        /\ load' = [load EXCEPT !.at = "reading"]
        /\ UNCHANGED <<phase, faults>>
     \/ Fault /\ Fails /\ UNCHANGED disk
  /\ UNCHANGED <<current, published, answer, available, install, starts>>

\* A block is written, a wrong one, or none for DEFAULT_DOWNLOAD_IDLE_TIMEOUT; a
\* body that ends is believed to be the whole file.
read_chunk ==
  /\ load.at = "reading"
  /\ \/ File.len < Size /\ Write([File EXCEPT !.len = @ + 1]) /\ UNCHANGED <<phase, load, faults>>
     \/ File.len = Size /\ Next_asset /\ UNCHANGED <<phase, disk, faults>>
     \/ File.len > Size /\ Next_asset /\ UNCHANGED <<phase, disk, faults>>
     \/ File.len <= Size /\ Fault /\ Write([len |-> File.len + 1, good |-> FALSE]) /\ UNCHANGED <<phase, load>>
     \/ Fault /\ Fails /\ UNCHANGED disk
     \/ Fault /\ Next_asset /\ UNCHANGED <<phase, disk>>
  /\ UNCHANGED <<current, published, answer, available, install, starts>>

\* Mutant: the file that has not the manifest's hash stays.
hash_asset_keeping ==
  /\ load.at = "hashing"
  /\ IF Whole(File)
     THEN IF load.a = Number THEN load' = Idle /\ phase' = "ready"
          ELSE load' = [load EXCEPT !.a = @ + 1] /\ UNCHANGED phase
     ELSE Fails
  /\ UNCHANGED <<current, published, answer, available, disk, install, faults, starts>>

\* sha256_file of one asset after the other: the first that differs is removed.
hash_asset ==
  /\ load.at = "hashing"
  /\ IF Whole(File)
     THEN /\ IF load.a = Number THEN load' = Idle /\ phase' = "ready"
             ELSE load' = [load EXCEPT !.a = @ + 1] /\ UNCHANGED phase
          /\ UNCHANGED disk
     ELSE Write(Empty) /\ Fails
  /\ UNCHANGED <<current, published, answer, available, install, faults, starts>>

-----------------------------------------------------------------------------
(* install and install_with.                                                 *)

Goto(c, call) == install' = [install EXCEPT ![c] = call]

\* The path of the setup comes from a first look at `available` ...
install_looks(c) ==
  /\ install[c] = NoCall /\ available # 0
  /\ Goto(c, [NoCall EXCEPT !.at = "looked", !.setup = available, !.ready = phase = "ready"])
  /\ UNCHANGED <<current, published, answer, phase, available, disk, load, faults, starts>>

\* ... and the manifest from a second, which must find the phase ready.
install_begins(c) ==
  /\ install[c].at = "looked"
  /\ IF phase = "ready"
     THEN phase' = "installing" /\ Goto(c, [install[c] EXCEPT !.at = "verifying", !.v = available])
     ELSE Goto(c, NoCall) /\ UNCHANGED phase
  /\ UNCHANGED <<current, published, answer, available, disk, load, faults, starts>>

\* Mutant: only the setup is hashed again.
verify_setup(c) ==
  LET v == install[c].v  a == install[c].a IN
  /\ install[c].at = "verifying" /\ a <= Number
  /\ IF a > 1 \/ Whole(disk[v][a]) THEN Goto(c, [install[c] EXCEPT !.a = @ + 1]) /\ UNCHANGED <<phase, disk>>
     ELSE /\ disk' = [disk EXCEPT ![v][a] = Empty]
          /\ phase' = "error" /\ Goto(c, NoCall)
  /\ UNCHANGED <<current, published, answer, available, load, faults, starts>>

\* The hashes once more: hours may have passed since the download.
verify(c) ==
  LET v == install[c].v  a == install[c].a IN
  /\ install[c].at = "verifying" /\ a <= Number
  /\ IF Whole(disk[v][a]) THEN Goto(c, [install[c] EXCEPT !.a = @ + 1]) /\ UNCHANGED <<phase, disk>>
     ELSE /\ disk' = [disk EXCEPT ![v][a] = Empty]
          /\ phase' = "error" /\ Goto(c, NoCall)
  /\ UNCHANGED <<current, published, answer, available, load, faults, starts>>

\* A setup that is locked or denied must not leave the phase installing.
spawn(c) ==
  /\ install[c].at = "verifying" /\ install[c].a > Number
  /\ \/ Goto(c, [install[c] EXCEPT !.at = "spawned"]) /\ UNCHANGED <<phase, faults>>
     \/ Fault /\ phase' = "error" /\ Goto(c, NoCall)
  /\ UNCHANGED <<current, published, answer, available, disk, load, starts>>

-----------------------------------------------------------------------------
(* The desktop and its surroundings.                                         *)

\* A start: nothing is in memory, and directories of versions that are not
\* newer than the installed one are removed (cleanup_updates_dir).
Start(v) ==
  /\ starts < MaxStarts /\ starts' = starts + 1
  /\ current' = v
  /\ answer' = <<>> /\ phase' = "idle" /\ available' = 0
  /\ load' = Idle /\ install' = [c \in Calls |-> NoCall]
  /\ disk' = [w \in Versions |-> IF w > v THEN disk[w] ELSE [a \in Assets |-> Empty]]
  /\ UNCHANGED <<published, faults>>

\* The desktop dies, or is closed, and is started again.
Restart == Start(current)

\* After exit(0) the installer replaces the version, or gives up, and starts it.
Installed == \E c \in Calls : /\ install[c].at = "spawned"
                              /\ \/ WholeVersion(install[c].setup) /\ Start(install[c].setup)
                                 \/ Start(current)

\* A manifest is pushed or taken back.
Publish ==
  /\ published' \in 0..Last \ {published}
  /\ UNCHANGED <<current, answer, phase, available, disk, load, install, faults, starts>>

\* A virus scanner or a clean-up takes or spoils a file, but not in the moment
\* between the second hash and the installer's start.
Damage ==
  /\ Fault /\ phase # "installing"
  /\ \E v \in Versions, a \in Assets :
       /\ disk[v][a].len > 0
       /\ \E f \in {Empty, [disk[v][a] EXCEPT !.good = FALSE]} : disk' = [disk EXCEPT ![v][a] = f]
  /\ UNCHANGED <<current, published, answer, phase, available, load, install, starts>>

Download == download_asset \/ read_chunk \/ hash_asset

Next ==
  \/ check_fetches \/ check_takes \/ start_download \/ Download \/ header_arrives
  \/ \E c \in Calls : install_looks(c) \/ install_begins(c) \/ verify(c) \/ spawn(c)
  \/ Restart \/ Installed \/ Publish \/ Damage

Spec == Init /\ [][Next]_vars

\* Tokio runs the task of the download, whose other awaits all have a limit; the
\* user whose download has failed tries again.  Nobody has to check, to publish or
\* to install, and no server has to answer.
Fairness == WF_vars(Download) /\ WF_vars(phase = "error" /\ start_download)
FairSpec == Spec /\ Fairness

-----------------------------------------------------------------------------
\* An installer is started only on the whole, hashed files of its own version,
\* whatever was published, resumed, damaged or clicked before, if the update
\* was ready when its path was looked up (install_with: re-verification).
InstalledIsVerified ==
  \A c \in Calls : install[c].at = "spawned" /\ install[c].ready => WholeVersion(install[c].setup)

\* Once the failures end, whoever tries again gets the update: what earlier
\* attempts have left on the disk never makes a later one fail for ever
\* (updater.rs: "resumable"; a file that does not match is fetched anew).  This
\* presumes that every header arrives: while one is awaited the phase remains
\* downloading, and start_download refuses every further try.
HeadersArrive == []<>(load.at # "asked")
RetrySucceeds == HeadersArrive => (phase = "error" ~> phase \in {"ready", "idle"})
=============================================================================
