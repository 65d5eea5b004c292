------------------------------ MODULE MCBuilder ------------------------------
(* Three parts, checked apart: the builder with two sessions and one name, of *)
(* which there may be two directories, the first of them also written by an   *)
(* agent and by packages, over two starts (Builder); the same with one        *)
(* session, whose answers all came with the request, and skills of the user's *)
(* imported under the first name, of protocol skill, with a skill.yaml that   *)
(* can be loaded or none; and four installs of one skill, across file         *)
(* systems, with every fault (SkillInstall).                                  *)
EXTENDS Builder, TLC
CONSTANTS n1, CrossDevice, Faults, MaxInstalls
VARIABLES part,
  final, backup, staged, pc, installs, previous, result, unremoved

I == INSTANCE SkillInstall

install == <<final, backup, staged, pc, installs, previous, result, unremoved>>

MCGiven == {<<n1, 1>>}
Symmetry == Permutations(Sessions)

\* A part that is not checked rests; Builder with no agent there.
I_rests ==
  /\ final = 0 /\ backup = 0 /\ staged = 0 /\ pc = 0 /\ installs = 0 /\ previous = 0
  /\ result = 0 /\ unremoved = 0
MCInit ==
  /\ part \in {"builder", "imports", "install"}
  /\ Init /\ (part # "builder" => \A p \in Places : reg[p] = "none")
  /\ IF part = "install" THEN I!Init ELSE I_rests
MCNext ==
  \/ part = "builder" /\ Next /\ user' = user /\ UNCHANGED <<part, install>>
  \/ /\ part = "imports" /\ Next /\ UNCHANGED <<part, install>>
     /\ \A p \in Places : user'[p] = Absent \/ (user'[p].manifest = "skill" /\ user'[p].yaml # "bad")
     /\ \A s \in Sessions : sess'[s].open => sess'[s].spec # NoName
     /\ \E s \in Sessions : \A other \in Sessions \ {s} : sess'[other] = NoSession
  \/ part = "install" /\ I!Next /\ UNCHANGED <<part, vars>>
MCSpec == MCInit /\ [][MCNext]_<<part, vars, install>>

\* The version that was there, or the new one, is always whole (_deploy_atomic).
PreviousOrNewIsWhole == part = "install" => I!PreviousOrNewIsWhole
=============================================================================
