------------------------------- MODULE MCFlags -------------------------------
(* RuntimeFlags for TLC: two processes with a cache of one tick; the        *)
(* deploy-time default is read-only, or (MCFlagsGateNeverFailsOpen) not.    *)
EXTENDS RuntimeFlags, TLC
=============================================================================
