------------------------------ MODULE MCStaging ------------------------------
(* Model-checking instances of AdapterStaging: u uploads a blob, p is a     *)
(* Proxmox delete whose caller supplies the key, a and b are plain changes  *)
(* of one organisation and q is one of another.                             *)
EXTENDS AdapterStaging, TLC

CONSTANTS q, o1, o2

MCOrgOf == [c \in Changes |-> IF c = q THEN o2 ELSE o1]

RequestSymmetry == Permutations(Workers) \cup Permutations(Stagers)
=============================================================================
