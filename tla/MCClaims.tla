------------------------------ MODULE MCClaims ------------------------------
(* Instances of ProxmoxClaims for TLC. *)
EXTENDS ProxmoxClaims, TLC

CONSTANTS a, b, s, k1, g1

MCCtlOf == [c \in Changes |-> k1]

(* A reviewed change and a creation of one guest, and a stop of the first. *)
MixKinds == [c \in Changes |-> CASE c = a -> "guest" [] c = b -> "create" [] OTHER -> "stop"]
MixVm == [c \in Changes |-> IF c = s THEN NoVm ELSE g1]
MixStop == [c \in Changes |-> IF c = s THEN a ELSE NoChange]

(* A certificate, whose task may be pending for days, and a configuration  *)
(* of the cluster.                                                         *)
LiveKinds == [c \in Changes |-> IF c = a THEN "cert" ELSE "config"]
LiveVm == [c \in Changes |-> NoVm]
LiveStop == [c \in Changes |-> NoChange]

WorkerSymmetry == Permutations(Workers)
=============================================================================
