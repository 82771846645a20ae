---------------------------- MODULE StagedIntent ----------------------------
(***************************************************************************)
(* What the staged-change pipeline promises its operator about one change, *)
(* without requests, locks, clocks or failures: an intent is queued once;  *)
(* it is either dropped or released for dispatch, never both and never     *)
(* twice; and only a released intent is transmitted to the device, once.   *)
(* AdapterStaging and ProxmoxClaims implement it for staged changes        *)
(* (Intent!Spec there), RemoteBackup for the file of a remote save         *)
(* (Write!Spec).                                                           *)
(***************************************************************************)
EXTENDS Naturals

CONSTANT Changes

VARIABLES phase, sent

Phases == {"none", "queued", "released", "dropped"}

Init ==
    /\ phase = [c \in Changes |-> "none"]
    /\ sent = [c \in Changes |-> 0]

Move(c, from, to) ==
    /\ phase[c] = from
    /\ phase' = [phase EXCEPT ![c] = to]
    /\ UNCHANGED sent

Queue(c) == Move(c, "none", "queued")
Drop(c) == Move(c, "queued", "dropped")
Release(c) == Move(c, "queued", "released")

Transmit(c) ==
    /\ phase[c] = "released"
    /\ sent[c] = 0
    /\ sent' = [sent EXCEPT ![c] = 1]
    /\ UNCHANGED phase

Next == \E c \in Changes : Queue(c) \/ Drop(c) \/ Release(c) \/ Transmit(c)

Spec == Init /\ [][Next]_<<phase, sent>>
=============================================================================
