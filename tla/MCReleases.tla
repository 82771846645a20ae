----------------------------- MODULE MCReleases -----------------------------
(* An instance of AgentReleases for TLC. *)
EXTENDS AgentReleases, TLC

CONSTANTS p, q, d, r1, r2

(* An upload of r1, a deletion of it, and a reservation of r2.  Uploads and *)
(* deletions begin with their own reservation, and may end right after it. *)
MCKind == [o \in Ops |-> IF o = d THEN "delete" ELSE "publish"]
MCStorage == [o \in Ops |-> "owned"]
MCAsked == [o \in Ops |-> IF o = q THEN {"reserve"}
                         ELSE {"upload", "resume", "publish", "delete", "cancel", "cleanup"}]
MCRelease == [o \in Ops |-> IF o = q THEN r2 ELSE r1]

=============================================================================
