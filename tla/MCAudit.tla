------------------------------ MODULE MCAudit -------------------------------
(* An instance of AuditChain for TLC. *)
EXTENDS AuditChain, TLC

(* No history; one unsigned row; an unsigned and two signed ones. *)
MCLegacies == {<<0, 0>>, <<1, 0>>, <<1, 2>>}

=============================================================================
