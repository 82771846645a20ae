---------------------------- MODULE ProxmoxClaims ----------------------------
(***************************************************************************)
(* How staged Proxmox changes are kept apart on one controller, and how    *)
(* the provider task behind an accepted change is observed.                *)
(*                                                                         *)
(* Modelled code: guard_cluster_conflicts and guard_guest_conflicts, which *)
(* apply_change calls between its row lock and its claim commit;           *)
(* proxmox_task_tracking (accepted_task, observe_task, poll_due_tasks);    *)
(* the part of apply_change that dispatches and records; discard.          *)
(*                                                                         *)
(* The claim is a database transaction: where a request is tells which     *)
(* locks it holds (RowLocked, CtlLocked, GuestLocked).  AdapterStaging has *)
(* the parts of the pipeline that all vendors share: staging, the TTL, the *)
(* artifacts, the events; here the janitor may reap at any time.           *)
(***************************************************************************)
EXTENDS Naturals, FiniteSets

CONSTANTS
    Changes,      \* staged proxmox.* changes
    Workers,      \* concurrent apply requests
    Controllers,  \* (organisation, controller) pairs
    CtlOf,        \* Changes -> Controllers
    KindOf,       \* Changes -> Kinds
    VmOf,         \* Changes -> the guest in the payload, or NoVm
    StopTarget,   \* a task stop -> the change whose worker (UPID) it names
    NoVm, NoChange

(* The feature families the code tells apart:                               *)
(*   power    unreviewed guest operations with a provider task              *)
(*   guest    reviewed guest changes (resize, config, template)             *)
(*   create   reviewed guest creation and deletion                          *)
(*   storage, cert, config (HA, firewall, backup job), node (power), stop   *)
Kinds == {"power", "guest", "create", "storage", "cert", "config", "node", "stop"}

ASSUME ClaimsAssumption ==
    /\ CtlOf \in [Changes -> Controllers]
    /\ KindOf \in [Changes -> Kinds]
    /\ DOMAIN VmOf = Changes
    /\ \A c \in Changes : KindOf[c] \in {"guest", "create"} => VmOf[c] # NoVm
    /\ StopTarget \in [Changes -> Changes \cup {NoChange}]
    /\ \A c \in Changes : KindOf[c] = "stop" =>
           /\ StopTarget[c] \in Changes \ {c}
           /\ KindOf[StopTarget[c]] # "stop"
    /\ NoChange \notin Changes

VARIABLES
    row,      \* the status column
    task,     \* provider_task.status ("none": no provider task)
    tid,      \* provider_task.id holds a usable UPID
    poll,     \* provider_task_next_poll_at is set
    expired,  \* applied_at is more than 7 days ago
    ack,      \* what accepted_task made of the provider's answer
    wpc, wch, \* an apply request: where it is, the change it applies
    dev,      \* the operation at the provider
    sends,    \* ghost: how often it was sent there
    waived    \* ghost: an operator force-discarded the change

claimVars == <<wpc, wch>>
taskVars == <<task, tid, poll, expired>>
deviceVars == <<dev, sends>>
vars == <<row, task, tid, poll, expired, ack, wpc, wch, dev, sends, waived>>

Status == {"absent", "pending", "applying", "applied", "discarded", "failed",
           "reconciliation_required"}
Terminal == {"succeeded", "warnings", "failed"}
OpenTask == {"pending", "running", "unknown"}
Task == {"none"} \cup OpenTask \cup Terminal
Ack == [status : Task, id : BOOLEAN]
NoAck == [status |-> "none", id |-> FALSE]
Dev == {"idle", "sent", "running", "ended", "refused"}
Txn == {"locked", "cluster", "guest"}
PC == {"idle"} \cup Txn \cup {"claimed", "sent", "acked", "refused", "lost", "uncommitted"}

TypeOK ==
    /\ row \in [Changes -> Status]
    /\ task \in [Changes -> Task]
    /\ tid \in [Changes -> BOOLEAN]
    /\ poll \in [Changes -> BOOLEAN]
    /\ expired \in [Changes -> BOOLEAN]
    /\ ack \in [Changes -> Ack]
    /\ wpc \in [Workers -> PC]
    /\ wch \in [Workers -> Changes \cup {NoChange}]
    /\ dev \in [Changes -> Dev]
    /\ sends \in [Changes -> Nat]
    /\ waived \in [Changes -> BOOLEAN]

Init ==
    /\ row = [c \in Changes |-> "absent"]
    /\ task = [c \in Changes |-> "none"]
    /\ tid = [c \in Changes |-> FALSE]
    /\ poll = [c \in Changes |-> FALSE]
    /\ expired = [c \in Changes |-> FALSE]
    /\ ack = [c \in Changes |-> NoAck]
    /\ wpc = [w \in Workers |-> "idle"]
    /\ wch = [w \in Workers |-> NoChange]
    /\ dev = [c \in Changes |-> "idle"]
    /\ sends = [c \in Changes |-> 0]
    /\ waived = [c \in Changes |-> FALSE]

-----------------------------------------------------------------------------
(* Families *)

(* The features that stop everything else on the controller. *)
Disruptive(c) == KindOf[c] \in {"storage", "cert", "config", "node", "stop"}

(* The features that serialise on their guest. *)
GuestGuarded(c) == KindOf[c] \in {"guest", "create"}

(* The is_reviewed_* families, whose lost observation an operator may close.*)
Reviewed(c) == KindOf[c] # "power"

(* The families observe_task can read back without a task ID. *)
ReadBack(c) == KindOf[c] \in {"guest", "cert", "config", "node", "stop"}

Stops(c, d) == KindOf[c] = "stop" /\ StopTarget[c] = d

SameCtl(c, d) == c # d /\ CtlOf[c] = CtlOf[d]

-----------------------------------------------------------------------------
(* The two conflict queries *)

(* Active or unresolved: both queries share this WHERE clause. *)
Unresolved(c) ==
    \/ row[c] \in {"applying", "reconciliation_required"}
    \/ row[c] = "applied" /\ task[c] \in OpenTask

(* A stop request passes the accepted worker it is about, and only that. *)
OriginalWorker(c, d) ==
    Stops(c, d) /\ row[d] = "applied" /\ KindOf[d] # "stop" /\ tid[d]

ClusterConflict(c) ==
    \E d \in Changes :
        /\ SameCtl(c, d)
        /\ Unresolved(d)
        /\ Disruptive(c) \/ Disruptive(d)
        /\ ~OriginalWorker(c, d)

(* Mutant: only rows still being applied are looked for. *)
GuestConflictApplying(c) ==
    /\ GuestGuarded(c)
    /\ \E d \in Changes : SameCtl(c, d) /\ VmOf[d] = VmOf[c] /\ row[d] = "applying"

GuestConflict(c) ==
    /\ GuestGuarded(c)
    /\ \E d \in Changes : SameCtl(c, d) /\ VmOf[d] = VmOf[c] /\ Unresolved(d)

(* The locks a claim transaction holds until it commits or rolls back. *)
RowLocked(c) == \E w \in Workers : wpc[w] \in Txn /\ wch[w] = c
CtlLocked(k) ==
    \E w \in Workers : wpc[w] \in {"cluster", "guest"} /\ CtlOf[wch[w]] = k
GuestLocked(c) ==
    \E w \in Workers : /\ wpc[w] = "guest" /\ GuestGuarded(wch[w])
                       /\ CtlOf[wch[w]] = CtlOf[c] /\ VmOf[wch[w]] = VmOf[c]

-----------------------------------------------------------------------------
(* The apply request *)

Goto(w, pc) == wpc' = [wpc EXCEPT ![w] = pc] /\ UNCHANGED wch

Done(w) ==
    /\ wpc' = [wpc EXCEPT ![w] = "idle"]
    /\ wch' = [wch EXCEPT ![w] = NoChange]

(* A change is recorded.  The review behind a task stop has just read its   *)
(* target as a running task of the provider.                                *)
Stage(c) ==
    /\ row[c] = "absent"
    /\ KindOf[c] = "stop" => dev[StopTarget[c]] = "running"
    /\ row' = [row EXCEPT ![c] = "pending"]
    /\ UNCHANGED <<taskVars, ack, claimVars, deviceVars, waived>>

(* Mutant: an unresolved change may be applied once more. *)
LockRowRetries(w, c) ==
    /\ wpc[w] = "idle"
    /\ ~RowLocked(c)
    /\ row[c] \in {"pending", "reconciliation_required"}
    /\ wpc' = [wpc EXCEPT ![w] = "locked"]
    /\ wch' = [wch EXCEPT ![w] = c]
    /\ UNCHANGED <<row, taskVars, ack, deviceVars, waived>>

(* SELECT ... FOR UPDATE; a row that is not pending is refused (no effect). *)
LockRow(w, c) ==
    /\ wpc[w] = "idle"
    /\ ~RowLocked(c)
    /\ row[c] = "pending"
    /\ wpc' = [wpc EXCEPT ![w] = "locked"]
    /\ wch' = [wch EXCEPT ![w] = c]
    /\ UNCHANGED <<row, taskVars, ack, deviceVars, waived>>

(* Mutant: the conflict query without the advisory lock. *)
ClusterGuardUnlocked(w) ==
    /\ wpc[w] = "locked"
    /\ ~ClusterConflict(wch[w])
    /\ Goto(w, "cluster")
    /\ UNCHANGED <<row, taskVars, ack, deviceVars, waived>>

(* guard_cluster_conflicts: the controller's advisory lock, then the query. *)
ClusterGuard(w) ==
    /\ wpc[w] = "locked"
    /\ ~CtlLocked(CtlOf[wch[w]])
    /\ ~ClusterConflict(wch[w])
    /\ Goto(w, "cluster")
    /\ UNCHANGED <<row, taskVars, ack, deviceVars, waived>>

(* Mutant: a request in conflict waits for the other one to be resolved.    *)
ClusterRefuseWaits(w) ==
    /\ wpc[w] = "locked"
    /\ ~CtlLocked(CtlOf[wch[w]])
    /\ ClusterConflict(wch[w])
    /\ UNCHANGED vars

ClusterRefuse(w) ==
    /\ wpc[w] = "locked"
    /\ ~CtlLocked(CtlOf[wch[w]])
    /\ ClusterConflict(wch[w])
    /\ Done(w)
    /\ UNCHANGED <<row, taskVars, ack, deviceVars, waived>>

(* guard_guest_conflicts: a no-op for the other families. *)
GuestGuard(w) ==
    /\ wpc[w] = "cluster"
    /\ GuestGuarded(wch[w]) => ~GuestLocked(wch[w])
    /\ ~GuestConflict(wch[w])
    /\ Goto(w, "guest")
    /\ UNCHANGED <<row, taskVars, ack, deviceVars, waived>>

GuestRefuse(w) ==
    /\ wpc[w] = "cluster"
    /\ ~GuestLocked(wch[w])
    /\ GuestConflict(wch[w])
    /\ Done(w)
    /\ UNCHANGED <<row, taskVars, ack, deviceVars, waived>>

(* "applying" is committed, which releases the three locks. *)
CommitClaim(w) ==
    /\ wpc[w] = "guest"
    /\ row' = [row EXCEPT ![wch[w]] = "applying"]
    /\ Goto(w, "claimed")
    /\ UNCHANGED <<taskVars, ack, deviceVars, waived>>

(* The applier sends the operation, or refuses before it does. *)
Dispatch(w) ==
    /\ wpc[w] = "claimed"
    /\ dev' = [dev EXCEPT ![wch[w]] = "sent"]
    /\ sends' = [sends EXCEPT ![wch[w]] = @ + 1]
    /\ Goto(w, "sent")
    /\ UNCHANGED <<row, taskVars, ack, waived>>

(* A refusal: the applier's own, or the provider's answer. *)
Refused(w) ==
    /\ wpc[w] = "claimed" \/ (wpc[w] = "sent" /\ dev[wch[w]] = "refused")
    /\ Goto(w, "refused")
    /\ UNCHANGED <<row, taskVars, ack, deviceVars, waived>>

NoReply(w) ==
    /\ wpc[w] = "sent"
    /\ Goto(w, "lost")
    /\ UNCHANGED <<row, taskVars, ack, deviceVars, waived>>

(* accepted_task: a usable UPID gives a pending task; a family without one  *)
(* is pending its readback; node power, or an answer that makes no sense,   *)
(* is unknown.  An answer without a UPID comes when the operation is over.  *)
Accepted(c) ==
    LET over == dev[c] = "ended" IN
    {a \in Ack :
        CASE KindOf[c] \in {"power", "create", "storage"} ->
               a.status = (IF a.id THEN "pending" ELSE "unknown")
          [] KindOf[c] = "node" -> a.status = "unknown" /\ ~a.id
          [] KindOf[c] = "guest" ->
               IF a.id THEN a.status = "pending" ELSE over /\ a.status \in {"pending", "succeeded"}
          [] KindOf[c] = "cert" ->
               IF a.id THEN a.status = "pending" ELSE over /\ a.status \in {"pending", "unknown"}
          [] KindOf[c] = "config" -> over /\ ~a.id /\ a.status \in {"pending", "unknown"}
          [] KindOf[c] = "stop" -> over /\ a.status = (IF a.id THEN "pending" ELSE "unknown")}

(* The provider's answer is there: the operation runs, or is over. *)
Reply(w) ==
    LET c == wch[w] IN
    /\ wpc[w] = "sent"
    /\ dev[c] \in {"running", "ended"}
    /\ \E a \in Accepted(c) : ack' = [ack EXCEPT ![c] = a]
    /\ Goto(w, "acked")
    /\ UNCHANGED <<row, taskVars, deviceVars, waived>>

(* The columns of the terminal commit; the first poll is due at once. *)
SetApplied(c) ==
    /\ row' = [row EXCEPT ![c] = "applied"]
    /\ task' = [task EXCEPT ![c] = ack[c].status]
    /\ tid' = [tid EXCEPT ![c] = ack[c].id]
    /\ poll' = [poll EXCEPT ![c] = TRUE]
    /\ expired' = [expired EXCEPT ![c] = FALSE]

RecordApplied(w) ==
    /\ wpc[w] = "acked"
    /\ SetApplied(wch[w])
    /\ Done(w)
    /\ UNCHANGED <<ack, deviceVars, waived>>

(* The commit raises, having happened or not ... *)
RecordAppliedRaises(w) ==
    /\ wpc[w] = "acked"
    /\ SetApplied(wch[w]) \/ UNCHANGED <<row, taskVars>>
    /\ Goto(w, "uncommitted")
    /\ UNCHANGED <<ack, deviceVars, waived>>

(* ... and is tried once more, with the values captured before.  *)
SecondCommit(w) ==
    /\ wpc[w] = "uncommitted"
    /\ SetApplied(wch[w]) \/ UNCHANGED <<row, taskVars>>
    /\ Done(w)
    /\ UNCHANGED <<ack, deviceVars, waived>>

RecordFailure(w) ==
    /\ wpc[w] \in {"refused", "lost"}
    /\ row' = [row EXCEPT ![wch[w]] = IF wpc[w] = "lost" THEN "reconciliation_required"
                                                        ELSE "failed"]
    /\ Done(w)
    /\ UNCHANGED <<taskVars, ack, deviceVars, waived>>

(* The process dies: an open transaction is rolled back by the database.    *)
Crash(w) ==
    /\ wpc[w] # "idle"
    /\ Done(w)
    /\ UNCHANGED <<row, taskVars, ack, deviceVars, waived>>

-----------------------------------------------------------------------------
(* The provider *)

DeviceStarts(c) ==
    /\ dev[c] = "sent"
    /\ dev' \in {[dev EXCEPT ![c] = "running"], [dev EXCEPT ![c] = "refused"]}
    /\ UNCHANGED <<row, taskVars, ack, claimVars, sends, waived>>

DeviceEnds(c) ==
    /\ dev[c] = "running"
    /\ dev' = [dev EXCEPT ![c] = "ended"]
    /\ UNCHANGED <<row, taskVars, ack, claimVars, sends, waived>>

-----------------------------------------------------------------------------
(* The janitor, the operator and the observer *)

Reap(c) ==
    /\ row[c] = "applying"
    /\ row' = [row EXCEPT ![c] = "reconciliation_required"]
    /\ UNCHANGED <<taskVars, ack, claimVars, deviceVars, waived>>

Discard(c, force) ==
    /\ ~RowLocked(c)
    /\ \/ row[c] = "pending"
       \/ force /\ row[c] \in {"applying", "reconciliation_required"}
       \/ force /\ row[c] = "applied" /\ Reviewed(c) /\ task[c] = "unknown"
    /\ row' = [row EXCEPT ![c] = "discarded"]
    /\ poll' = [poll EXCEPT ![c] = FALSE]
    /\ waived' = [waived EXCEPT ![c] = @ \/ row[c] # "pending"]
    /\ UNCHANGED <<task, tid, expired, ack, claimVars, deviceVars>>

(* The readbacks.  A stop has succeeded when the worker it names is over,   *)
(* whatever that worker's exit status; a configuration when it is found; a  *)
(* saved guest or certificate change may be pending its activation.         *)
StopReadback(c) == IF dev[StopTarget[c]] = "ended" THEN {"succeeded"} ELSE {"running"}
ConfigReadback == {"succeeded"}
SavedReadback == {"succeeded", "pending"}

(* A task that runs is "running"; one that is over has its exit status,     *)
(* which the reviewed families believe only after reading the target back.  *)
TaskResult(c) ==
    IF dev[c] # "ended" THEN {"running"}
    ELSE CASE KindOf[c] \in {"power", "create"} -> Terminal
           [] KindOf[c] = "guest" -> Terminal \cup {"pending"}
           [] OTHER -> {"succeeded", "warnings"}

(* Mutant: a worker missing from the list of running tasks has stopped.     *)
ObservationInferred(c) ==
    {"unknown"} \cup
    CASE KindOf[c] = "node" -> {}
      [] KindOf[c] = "stop" -> StopReadback(c)
      [] KindOf[c] = "config" -> ConfigReadback
      [] KindOf[c] \in {"guest", "cert"} /\ ~tid[c] -> SavedReadback
      [] OTHER -> {"running", "failed"}

(* What one observation may report, beside that nothing can be observed.    *)
Observation(c) ==
    {"unknown"} \cup
    CASE KindOf[c] = "node" -> {}
      [] KindOf[c] = "stop" -> StopReadback(c)
      [] KindOf[c] = "config" -> ConfigReadback
      [] KindOf[c] \in {"guest", "cert"} /\ ~tid[c] -> SavedReadback
      [] OTHER -> TaskResult(c)

(* Mutant: an expired observation keeps the status it has. *)
SettledAsIs(c, s) == s

(* After seven days a saved but inactive configuration becomes unknown.     *)
Settled(c, s) ==
    IF expired[c] /\ s = "pending" /\ KindOf[c] \in {"guest", "cert"} THEN "unknown" ELSE s

(* poll_due_tasks and observe_task, one step under the row lock: a claim    *)
(* locks only pending rows.  A terminal task, a missing task ID and an      *)
(* expired observation are not polled again.                                *)
Observe(c) ==
    /\ row[c] = "applied"
    /\ poll[c]
    /\ \/ /\ task[c] \in Terminal
          /\ poll' = [poll EXCEPT ![c] = FALSE]
          /\ UNCHANGED <<task, tid>>
       \/ /\ task[c] \notin Terminal
          /\ ~tid[c] /\ ~ReadBack(c)
          /\ task' = [task EXCEPT ![c] = "unknown"]
          /\ poll' = [poll EXCEPT ![c] = FALSE]
          /\ UNCHANGED tid
       \/ /\ task[c] \notin Terminal
          /\ tid[c] \/ ReadBack(c)
          /\ \E s \in Observation(c) :
               /\ task' = [task EXCEPT ![c] = Settled(c, s)]
               /\ poll' = [poll EXCEPT ![c] = s = "running" \/ (s \notin Terminal /\ ~expired[c])]
          /\ UNCHANGED tid
    /\ UNCHANGED <<row, expired, ack, claimVars, deviceVars, waived>>

Expire(c) ==
    /\ row[c] = "applied"
    /\ ~expired[c]
    /\ expired' = [expired EXCEPT ![c] = TRUE]
    /\ UNCHANGED <<row, task, tid, poll, ack, claimVars, deviceVars, waived>>

-----------------------------------------------------------------------------
ClaimNext(w) ==
    \/ \E c \in Changes : LockRow(w, c)
    \/ ClusterGuard(w) \/ ClusterRefuse(w) \/ GuestGuard(w) \/ GuestRefuse(w)
    \/ CommitClaim(w)

WriteNext(w) ==
    \/ Dispatch(w) \/ Refused(w) \/ NoReply(w) \/ Reply(w)
    \/ RecordApplied(w) \/ RecordAppliedRaises(w) \/ SecondCommit(w) \/ RecordFailure(w)
    \/ Crash(w)

EnvNext ==
    \E c \in Changes :
        \/ Stage(c) \/ DeviceStarts(c) \/ DeviceEnds(c) \/ Reap(c)
        \/ \E force \in BOOLEAN : Discard(c, force)
        \/ Observe(c) \/ Expire(c)

Next ==
    \/ \E w \in Workers : ClaimNext(w) \/ WriteNext(w)
    \/ EnvNext

Spec == Init /\ [][Next]_vars

(* A claim transaction runs no external call, so it goes on unless its      *)
(* process dies; PostgreSQL queues the waiters of an advisory lock, so one  *)
(* of them is not passed over for ever (strong fairness).  Celery beat runs *)
(* the poller every 30 seconds, oldest due row first; the clock advances.   *)
Fairness ==
    /\ \A w \in Workers : /\ SF_vars(ClusterGuard(w) \/ ClusterRefuse(w))
                          /\ WF_vars(GuestGuard(w) \/ GuestRefuse(w) \/ CommitClaim(w))
    /\ \A c \in Changes : WF_vars(Observe(c)) /\ WF_vars(Expire(c))

FairSpec == Spec /\ Fairness

-----------------------------------------------------------------------------
(* Properties *)

InFlight(c) == dev[c] \in {"sent", "running"}

(* A disruptive operation and another operation never run on the same       *)
(* controller at once, whatever crashes, lost answers, the janitor and late *)
(* commits do; only an operator's forced discard gives that up, and a task  *)
(* stop runs beside the worker it stops.                                    *)
NoOverlap ==
    \A c, d \in Changes :
        /\ SameCtl(c, d) /\ Disruptive(c)
        /\ InFlight(c) /\ InFlight(d)
        => waived[c] \/ waived[d] \/ Stops(c, d) \/ Stops(d, c)

(* Two reviewed changes of one guest never run at once either: their        *)
(* payloads carry the vmid the conflict query compares.                     *)
GuestSerial ==
    \A c, d \in Changes :
        /\ SameCtl(c, d) /\ VmOf[c] = VmOf[d] /\ GuestGuarded(c) /\ GuestGuarded(d)
        /\ InFlight(c) /\ InFlight(d)
        => waived[c] \/ waived[d]

(* "a saved-but-inactive configuration must not become an unresolvable      *)
(* pending row when automatic observation expires": an accepted change that *)
(* is not polled any more and still blocks others is "unknown", the status  *)
(* in which Discard accepts a forced discard of the reviewed families.  The *)
(* unreviewed one (power) it refuses nevertheless.                          *)
BlockedIsClosable ==
    \A c \in Changes :
        row[c] = "applied" /\ task[c] \in OpenTask /\ ~poll[c] => task[c] = "unknown"

(* The observer never reports a result of something that still runs: not    *)
(* for missing history, an expired poll or a late second commit.            *)
ResultIsObserved ==
    \A c \in Changes :
        row[c] = "applied" /\ task[c] \in Terminal =>
            /\ dev[c] = "ended"
            /\ KindOf[c] = "stop" => dev[StopTarget[c]] = "ended"

(* Row locks and advisory locks never leave the claim transactions waiting  *)
(* for each other: each one ends.  The guest's lock is only taken under the *)
(* controller's, so nobody ever waits for it alone.                         *)
ClaimEnds == \A w \in Workers : wpc[w] \in Txn ~> wpc[w] \notin Txn

(* An accepted change does not stay "pending": it is observed, or its       *)
(* observation expires, or it is no longer applied.                         *)
PendingSettles ==
    \A c \in Changes :
        row[c] = "applied" /\ task[c] = "pending" ~> row[c] # "applied" \/ task[c] # "pending"

-----------------------------------------------------------------------------
(* The inductive invariant behind the safety properties. *)

(* The requests past their commit, and the ones that have passed a guard    *)
(* but not yet sent.                                                        *)
Live == {"claimed", "sent", "acked", "refused", "lost", "uncommitted"}
PastCluster == {"cluster", "guest", "claimed"}
PastGuest == {"guest", "claimed"}

HoldsChange == \A w \in Workers : wpc[w] # "idle" => wch[w] \in Changes

(* One request per change, from the row lock on. *)
OneRequest ==
    \A v, w \in Workers : wpc[v] # "idle" /\ wpc[w] # "idle" /\ wch[v] = wch[w] => v = w

(* The row lock keeps the row pending; after the claim only the request     *)
(* itself, the janitor and a forced discard move the row.                   *)
RequestRow ==
    \A w \in Workers :
        /\ wpc[w] \in Txn => row[wch[w]] = "pending"
        /\ wpc[w] \in Live =>
             \/ row[wch[w]] \in {"applying", "reconciliation_required"}
             \/ row[wch[w]] = "discarded" /\ waived[wch[w]]
             \/ row[wch[w]] = "applied" /\ wpc[w] = "uncommitted"

(* What the provider's answer says about the operation. *)
Answered(c, id, status) ==
    /\ status \in OpenTask \cup Terminal
    /\ dev[c] \in {"running", "ended"}
    /\ KindOf[c] \in {"stop", "config"} => dev[c] = "ended"
    /\ KindOf[c] \in {"guest", "cert"} /\ ~id => dev[c] = "ended"
    /\ status \in Terminal => /\ dev[c] = "ended"
                              /\ KindOf[c] = "stop" => dev[StopTarget[c]] = "ended"

RequestDev ==
    \A w \in Workers :
        /\ wpc[w] = "claimed" => dev[wch[w]] = "idle" /\ sends[wch[w]] = 0
        /\ wpc[w] = "refused" => dev[wch[w]] \in {"idle", "refused"}
        /\ wpc[w] \in {"acked", "uncommitted"} =>
             Answered(wch[w], ack[wch[w]].id, ack[wch[w]].status)

RowDev ==
    \A c \in Changes :
        /\ row[c] \in {"absent", "pending"} => dev[c] = "idle" /\ sends[c] = 0
        /\ row[c] = "applied" => Answered(c, tid[c], task[c])

(* Whatever runs at the provider is on record as unresolved. *)
Recorded == \A c \in Changes : InFlight(c) /\ ~waived[c] => Unresolved(c)

Busy(c, pcs) == InFlight(c) \/ \E w \in Workers : wpc[w] \in pcs /\ wch[w] = c

Apart ==
    \A c, d \in Changes :
        /\ SameCtl(c, d) /\ Disruptive(c)
        /\ Busy(c, PastCluster) /\ Busy(d, PastCluster)
        => waived[c] \/ waived[d] \/ Stops(c, d) \/ Stops(d, c)

GuestApart ==
    \A c, d \in Changes :
        /\ SameCtl(c, d) /\ VmOf[c] = VmOf[d] /\ GuestGuarded(c) /\ GuestGuarded(d)
        /\ Busy(c, PastGuest) /\ Busy(d, PastGuest)
        => waived[c] \/ waived[d]

(* All of it: what is busy on a controller is on record, and what is on     *)
(* record keeps conflicting claims out.                                     *)
ClaimsInv ==
    /\ TypeOK /\ HoldsChange /\ OneRequest /\ RequestRow /\ RequestDev /\ RowDev
    /\ Recorded /\ Apart /\ GuestApart /\ BlockedIsClosable

-----------------------------------------------------------------------------
(* The abstract specification *)

(* A change discarded from the queue is dropped; one discarded by force was *)
(* released before.                                                         *)
intentPhase ==
    [c \in Changes |->
        CASE row[c] = "absent" -> "none"
          [] row[c] = "pending" -> "queued"
          [] OTHER -> IF row[c] = "discarded" /\ ~waived[c] THEN "dropped" ELSE "released"]

Intent == INSTANCE StagedIntent WITH phase <- intentPhase, sent <- sends

(* The claim taken apart into its locks and guards keeps the promise of the *)
(* pipeline: an operation is queued once, dropped or released once, and     *)
(* dispatched once, after its release, whoever loses a lock, an answer or   *)
(* its process on the way.                                                  *)
ClaimsImplementIntent == Intent!Spec
=============================================================================
