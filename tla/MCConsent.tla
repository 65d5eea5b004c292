----------------------------- MODULE MCConsent -----------------------------
(* The small instances of Consent that TLC checks. *)
EXTENDS Consent, TLC

Symmetry == Permutations(Tasks)
=============================================================================
