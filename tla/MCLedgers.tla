------------------------------ MODULE MCLedgers ------------------------------
(* Three parts that share nothing, each on its own: a behaviour is one of   *)
(* the notification outbox, of the remote backup journal or of the bus.     *)
EXTENDS NotificationOutbox, RemoteBackup, EventBus

VARIABLE ledger

CONSTANT x1

(* One process publishes every event; the other receives. *)
Sources == [e \in Events |-> x1]

MCInit == ledger \in {"outbox", "remote", "bus"} /\ OutboxInit /\ RemoteInit /\ BusInit

MCNext ==
    \/ ledger = "outbox" /\ OutboxNext /\ UNCHANGED <<ledger, remoteVars, busVars>>
    \/ ledger = "remote" /\ RemoteNext /\ UNCHANGED <<ledger, outboxVars, busVars>>
    \/ ledger = "bus" /\ BusNext /\ UNCHANGED <<ledger, outboxVars, remoteVars>>

(* Nothing fair is enabled in the initial state of a part that rests. *)
MCSpec ==
    /\ MCInit /\ [][MCNext]_<<ledger, outboxVars, remoteVars, busVars>>
    /\ OutboxFairness /\ BusFairness
=============================================================================
