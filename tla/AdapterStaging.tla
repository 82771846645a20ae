--------------------------- MODULE AdapterStaging ---------------------------
(***************************************************************************)
(* The staged-change pipeline: every write to a managed controller is      *)
(* first recorded as a row of adapter_pending_changes, waits for an        *)
(* operator, and is then applied by AdapterStagingService.apply_change.    *)
(*                                                                         *)
(* Modelled code: services/adapter_staging.py (stage_change, discard,      *)
(* apply_change, _recover_stale_applying, outcome_is_unknown), the Celery  *)
(* janitor of tasks/maintenance.py, the Fabric executor's blob hand-off    *)
(* around stage_change and the TrueNAS upload applier.                     *)
(*                                                                         *)
(* The processes are the API requests: Stagers run stage_change, Workers   *)
(* run apply_change.  A process that dies leaves its database rows behind. *)
(* The clock is abstract: Age(c) may happen whenever a row is applying and *)
(* stands for updated_at falling behind now - APPLYING_TTL_SECONDS.        *)
(***************************************************************************)
EXTENDS Naturals, FiniteSets

CONSTANTS
    Changes,      \* the primary keys a change can have
    Workers,      \* concurrent apply requests
    Stagers,      \* concurrent stage requests
    Orgs,         \* organisations (tenants)
    OrgOf,        \* Changes -> Orgs
    MaxPending,   \* _MAX_PENDING_PER_ORG
    HasBlob,      \* storage.store_blob writes that carry a durable artifact
    StableId,     \* writes whose caller supplies the primary key (change_id)
    Destructive,  \* deletes and catastrophic features: need confirmed=true
    Proxmox,      \* proxmox.* features: claims are arbitrated, tasks observed
    NoChange      \* an idle request holds no change

ASSUME StagingAssumption ==
    /\ OrgOf \in [Changes -> Orgs]
    /\ MaxPending \in Nat \ {0}
    /\ IsFiniteSet(Changes)
    /\ IsFiniteSet(Stagers) /\ Stagers # {}
    /\ HasBlob \subseteq Changes
    /\ StableId \subseteq Changes \ HasBlob
    /\ Destructive \subseteq Changes
    /\ Proxmox \subseteq Changes \ HasBlob
    /\ NoChange \notin Changes

VARIABLES
    row,       \* the status column; "absent" before the INSERT
    stale,     \* updated_at is older than the TTL
    blob,      \* the durable artifact of the change is on disk
    readOnly,  \* what is_adapter_read_only() answers
    spc, sch,  \* a stage request: where it is, the change it stages
    wpc, wch,  \* an apply request: where it is, the change it applies
    wcopy,     \* the status its ORM session holds for that row
    wire,      \* what became of the write request at the device
    writes,    \* ghost: how often the write was sent to the device
    told,      \* ghost: outcome events (controller.change.*) published
    dropped    \* ghost: the change was discarded while it was pending

stageVars == <<spc, sch>>
applyVars == <<wpc, wch, wcopy>>
deviceVars == <<wire, writes>>
vars == <<row, stale, blob, readOnly, spc, sch, wpc, wch, wcopy, wire, writes,
          told, dropped>>

Status == {"absent", "pending", "applying", "applied", "discarded", "failed",
           "reconciliation_required"}
Events == {"applied", "failed"}
Wire == {"idle", "sent", "taken", "refused"}
StagePC == {"idle", "open", "counted", "inserted"}
ApplyPC == {"idle", "gated", "claimed", "sent", "acked", "refused", "lost",
            "uncommitted", "announce_applied", "announce_failed"}

TypeOK ==
    /\ row \in [Changes -> Status]
    /\ stale \in [Changes -> BOOLEAN]
    /\ blob \in [Changes -> BOOLEAN]
    /\ readOnly \in BOOLEAN
    /\ spc \in [Stagers -> StagePC]
    /\ sch \in [Stagers -> Changes \cup {NoChange}]
    /\ wpc \in [Workers -> ApplyPC]
    /\ wch \in [Workers -> Changes \cup {NoChange}]
    /\ wcopy \in [Workers -> Status]
    /\ wire \in [Changes -> Wire]
    /\ writes \in [Changes -> Nat]
    /\ told \in [Changes -> SUBSET Events]
    /\ dropped \in [Changes -> BOOLEAN]

Init ==
    /\ row = [c \in Changes |-> "absent"]
    /\ stale = [c \in Changes |-> FALSE]
    /\ blob = [c \in Changes |-> FALSE]
    /\ readOnly \in BOOLEAN
    /\ spc = [s \in Stagers |-> "idle"]
    /\ sch = [s \in Stagers |-> NoChange]
    /\ wpc = [w \in Workers |-> "idle"]
    /\ wch = [w \in Workers |-> NoChange]
    /\ wcopy = [w \in Workers |-> "absent"]
    /\ wire = [c \in Changes |-> "idle"]
    /\ writes = [c \in Changes |-> 0]
    /\ told = [c \in Changes |-> {}]
    /\ dropped = [c \in Changes |-> FALSE]

-----------------------------------------------------------------------------
(* Shared pieces.  The events staged and discarded change nothing here and  *)
(* are left out; the outcome events applied and failed are kept in told.    *)

(* durable_store.delete: failures of the unlink are suppressed by every     *)
(* caller, so the file may survive.                                         *)
Prune(c) == blob' \in {[blob EXCEPT ![c] = FALSE], blob}

(* A request ends, normally or with an exception. *)
StageDone(s) ==
    /\ spc' = [spc EXCEPT ![s] = "idle"]
    /\ sch' = [sch EXCEPT ![s] = NoChange]

ApplyDone(w) ==
    /\ wpc' = [wpc EXCEPT ![w] = "idle"]
    /\ wch' = [wch EXCEPT ![w] = NoChange]
    /\ wcopy' = [wcopy EXCEPT ![w] = "absent"]

ApplyGoto(w, pc) ==
    /\ wpc' = [wpc EXCEPT ![w] = pc]
    /\ UNCHANGED <<wch, wcopy>>

(* Every UPDATE of a row refreshes updated_at (onupdate=func.now()). *)
Touch == stale' = [c \in Changes |-> stale[c] /\ row'[c] = row[c]]

PendingOf(org) == {c \in Changes : row[c] = "pending" /\ OrgOf[c] = org}

(* Mutant: the cutoff comparison is the wrong way round. *)
StaleRowsYoung(orgs) == {c \in Changes : row[c] = "applying" /\ ~stale[c] /\ OrgOf[c] \in orgs}

(* The WHERE clause of the stale-row UPDATE and its effect. *)
StaleRows(orgs) == {c \in Changes : row[c] = "applying" /\ stale[c] /\ OrgOf[c] \in orgs}

(* Mutants: the recovery asserts a rejection; it requeues the change. *)
RecoveredAsFailed(orgs) ==
    [c \in Changes |-> IF c \in StaleRows(orgs) THEN "failed" ELSE row[c]]

RecoveredAsPending(orgs) ==
    [c \in Changes |-> IF c \in StaleRows(orgs) THEN "pending" ELSE row[c]]

Recovered(orgs) ==
    [c \in Changes |-> IF c \in StaleRows(orgs) THEN "reconciliation_required" ELSE row[c]]

-----------------------------------------------------------------------------
(* stage_change, with the Fabric executor's blob around it *)

(* A server-minted key is unused.  A request with a key of its own looks    *)
(* for its row first (_existing), but another one may be staging it by now. *)
Unrecorded(c) ==
    /\ row[c] = "absent"
    /\ c \in StableId \/ (~blob[c] /\ \A t \in Stagers : sch[t] # c)

(* A stage request arrives.  A blob-carrying write has its artifact copied  *)
(* to the durable store before stage_change is called.                      *)
StageOpen(s, c) ==
    /\ spc[s] = "idle"
    /\ Unrecorded(c)
    /\ blob' = [blob EXCEPT ![c] = c \in HasBlob]
    /\ spc' = [spc EXCEPT ![s] = "open"]
    /\ sch' = [sch EXCEPT ![s] = c]
    /\ UNCHANGED <<row, stale, readOnly, applyVars, deviceVars, told, dropped>>

(* Mutant: the cap is compared with > instead of >=. *)
StageCountOffByOne(s) ==
    /\ spc[s] = "open"
    /\ row' \in {row, Recovered({OrgOf[sch[s]]})}
    /\ Touch
    /\ Cardinality(PendingOf(OrgOf[sch[s]])) <= MaxPending
    /\ spc' = [spc EXCEPT ![s] = "counted"]
    /\ UNCHANGED <<blob, readOnly, sch, applyVars, deviceVars, told, dropped>>

(* The opportunistic recovery commits on its own (a database error in it is *)
(* swallowed); then the pending backlog of the organisation is counted.     *)
StageCount(s) ==
    /\ spc[s] = "open"
    /\ row' \in {row, Recovered({OrgOf[sch[s]]})}
    /\ Cardinality(PendingOf(OrgOf[sch[s]])) < MaxPending
    /\ spc' = [spc EXCEPT ![s] = "counted"]
    /\ Touch
    /\ UNCHANGED <<blob, readOnly, sch, applyVars, deviceVars, told, dropped>>

(* The backlog is full: 429.  The executor deletes the artifact it stored.  *)
StageRefuse(s) ==
    /\ spc[s] = "open"
    /\ row' \in {row, Recovered({OrgOf[sch[s]]})}
    /\ Cardinality(PendingOf(OrgOf[sch[s]])) >= MaxPending
    /\ Prune(sch[s])
    /\ StageDone(s)
    /\ Touch
    /\ UNCHANGED <<readOnly, applyVars, deviceVars, told, dropped>>

(* Mutant: an upsert resets the row of a repeated key. *)
StageInsertUpsert(s) ==
    /\ spc[s] = "counted"
    /\ row' = [row EXCEPT ![sch[s]] = "pending"]
    /\ Touch
    /\ spc' = [spc EXCEPT ![s] = "inserted"]
    /\ UNCHANGED <<blob, readOnly, sch, applyVars, deviceVars, told, dropped>>

(* INSERT and commit.  The primary key refuses a second row. *)
StageInsert(s) ==
    /\ spc[s] = "counted"
    /\ row[sch[s]] = "absent"
    /\ row' = [row EXCEPT ![sch[s]] = "pending"]
    /\ Touch
    /\ spc' = [spc EXCEPT ![s] = "inserted"]
    /\ UNCHANGED <<blob, readOnly, sch, applyVars, deviceVars, told, dropped>>

(* refresh, publish controller.change.staged and return. *)
StageReturn(s) ==
    /\ spc[s] = "inserted"
    /\ StageDone(s)
    /\ UNCHANGED <<row, stale, blob, readOnly, applyVars, deviceVars, told, dropped>>

(* An exception leaves stage_change: a validation or site-grant refusal, an *)
(* IntegrityError, a failed commit or, after the commit, a failed refresh.  *)
(* The executor's handler deletes the artifact in every case.               *)
StageRaises(s) ==
    /\ spc[s] \in {"open", "counted", "inserted"}
    /\ Prune(sch[s])
    /\ StageDone(s)
    /\ UNCHANGED <<row, stale, readOnly, applyVars, deviceVars, told, dropped>>

(* The process running the request dies. *)
StageCrash(s) ==
    /\ spc[s] # "idle"
    /\ StageDone(s)
    /\ UNCHANGED <<row, stale, blob, readOnly, applyVars, deviceVars, told, dropped>>

-----------------------------------------------------------------------------
(* apply_change *)

(* The endpoint loads the row (404 when absent) and apply_change passes its *)
(* two gates: the read-only lock is open and force=true was given.          *)
BeginApply(w, c) ==
    /\ wpc[w] = "idle"
    /\ row[c] # "absent"
    /\ ~readOnly
    /\ wpc' = [wpc EXCEPT ![w] = "gated"]
    /\ wch' = [wch EXCEPT ![w] = c]
    /\ wcopy' = [wcopy EXCEPT ![w] = row[c]]
    /\ UNCHANGED <<row, stale, blob, readOnly, stageVars, deviceVars, told, dropped>>

(* Mutant: without populate_existing the check reads the copy loaded before *)
(* the lock was taken.                                                      *)
ClaimStaleCopy(w, confirmed) ==
    LET c == wch[w] IN
    /\ wpc[w] = "gated"
    /\ wcopy[w] = "pending"
    /\ c \in Destructive => confirmed
    /\ row' = [row EXCEPT ![c] = "applying"]
    /\ Touch
    /\ wpc' = [wpc EXCEPT ![w] = "claimed"]
    /\ UNCHANGED <<blob, readOnly, wch, wcopy, stageVars, deviceVars, told, dropped>>

(* SELECT ... FOR UPDATE with populate_existing reloads the session's copy  *)
(* under the lock; the preflights take the request's confirmed flag; then   *)
(* "applying" is committed and the lock is gone before the device is called.*)
Claim(w, confirmed) ==
    LET c == wch[w] IN
    /\ wpc[w] = "gated"
    /\ wcopy' = [wcopy EXCEPT ![w] = row[c]]
    /\ wcopy'[w] = "pending"
    /\ c \in Destructive => confirmed
    /\ row' = [row EXCEPT ![c] = "applying"]
    /\ Touch
    /\ wpc' = [wpc EXCEPT ![w] = "claimed"]
    /\ UNCHANGED <<blob, readOnly, wch, stageVars, deviceVars, told, dropped>>

(* 409: not pending any more, unconfirmed, or in conflict with another      *)
(* Proxmox change (see ProxmoxClaims).  The row is left as it is.           *)
RefuseClaim(w, confirmed) ==
    LET c == wch[w] IN
    /\ wpc[w] = "gated"
    /\ \/ row[c] # "pending"
       \/ c \in Destructive /\ ~confirmed
       \/ c \in Proxmox
    /\ ApplyDone(w)
    /\ UNCHANGED <<row, stale, blob, readOnly, stageVars, deviceVars, told, dropped>>

(* The applier raises or reports failure before anything is sent: a payload *)
(* or target check, a missing artifact (409), a connect-phase error.        *)
ApplierRefuses(w) ==
    /\ wpc[w] = "claimed"
    /\ ApplyGoto(w, "refused")
    /\ UNCHANGED <<row, stale, blob, readOnly, stageVars, deviceVars, told, dropped>>

(* The applier sends the write: all the requests it makes for one change,   *)
(* with the client's own repetitions of an idempotent one.  An upload needs *)
(* its artifact to be there.                                                *)
Send(w) ==
    LET c == wch[w] IN
    /\ wpc[w] = "claimed"
    /\ c \in HasBlob => blob[c]
    /\ wire' = [wire EXCEPT ![c] = "sent"]
    /\ writes' = [writes EXCEPT ![c] = @ + 1]
    /\ ApplyGoto(w, "sent")
    /\ UNCHANGED <<row, stale, blob, readOnly, stageVars, told, dropped>>

(* The device acts on the request in its own time, or never. *)
DeviceAnswers(c) ==
    /\ wire[c] = "sent"
    /\ wire' \in {[wire EXCEPT ![c] = "taken"], [wire EXCEPT ![c] = "refused"]}
    /\ UNCHANGED <<row, stale, blob, readOnly, stageVars, applyVars, writes, told, dropped>>

(* The answer arrives.  The upload applier prunes the artifact once         *)
(* upload_file has returned; a rejected upload raises and skips that.       *)
Reply(w) ==
    LET c == wch[w] IN
    /\ wpc[w] = "sent"
    /\ \/ /\ wire[c] = "taken"
          /\ ApplyGoto(w, "acked")
          /\ IF c \in HasBlob THEN Prune(c) ELSE UNCHANGED blob
       \/ /\ wire[c] = "refused"
          /\ ApplyGoto(w, "refused")
          /\ UNCHANGED blob
    /\ UNCHANGED <<row, stale, readOnly, stageVars, deviceVars, told, dropped>>

(* No answer.  outcome_is_unknown recognises a transport error that reaches *)
(* apply_change as such ("lost").  Only the Proxmox client reports every    *)
(* unanswered write that way.  Elsewhere the adapter may turn it into       *)
(* AdapterResult.fail, which the applier raises as an HTTPException         *)
(* (FreePBX, OpenWrt), and the TrueNAS job_wait gives up with an            *)
(* AdapterTimeoutError: both are classified like a rejection.               *)
NoReply(w) ==
    LET c == wch[w] IN
    /\ wpc[w] = "sent"
    /\ \/ ApplyGoto(w, "lost")
       \/ c \notin Proxmox /\ ApplyGoto(w, "refused")
    /\ UNCHANGED <<row, stale, blob, readOnly, stageVars, deviceVars, told, dropped>>

(* success: the terminal commit.  It overwrites whatever status the row has *)
(* by now (the UPDATE is keyed by id only).                                 *)
RecordApplied(w) ==
    LET c == wch[w] IN
    /\ wpc[w] = "acked"
    /\ row' = [row EXCEPT ![c] = "applied"]
    /\ Touch
    /\ ApplyGoto(w, "announce_applied")
    /\ UNCHANGED <<blob, readOnly, stageVars, deviceVars, told, dropped>>

(* Mutant: the applied event is published before the commit that may fail.  *)
RecordAppliedRaisesAnnounced(w) ==
    LET c == wch[w] IN
    /\ wpc[w] = "acked"
    /\ row' \in {row, [row EXCEPT ![c] = "applied"]}
    /\ Touch
    /\ told' = [told EXCEPT ![c] = @ \cup {"applied"}]
    /\ ApplyGoto(w, "uncommitted")
    /\ UNCHANGED <<blob, readOnly, stageVars, deviceVars, dropped>>

(* The terminal commit (or the refresh after it) raises; a commit whose     *)
(* acknowledgement was lost has happened all the same.                      *)
RecordAppliedRaises(w) ==
    LET c == wch[w] IN
    /\ wpc[w] = "acked"
    /\ row' \in {row, [row EXCEPT ![c] = "applied"]}
    /\ ApplyGoto(w, "uncommitted")
    /\ Touch
    /\ UNCHANGED <<blob, readOnly, stageVars, deviceVars, told, dropped>>

(* Best-effort second commit of "applied", keyed by id; then the request    *)
(* raises without publishing an event.                                      *)
SecondCommit(w) ==
    LET c == wch[w] IN
    /\ wpc[w] = "uncommitted"
    /\ row' \in {row, [row EXCEPT ![c] = "applied"]}
    /\ ApplyDone(w)
    /\ Touch
    /\ UNCHANGED <<blob, readOnly, stageVars, deviceVars, told, dropped>>

(* HTTPException, or an exception outcome_is_unknown does not recognise:    *)
(* "failed"; a recognised one: "reconciliation_required".  The artifact is  *)
(* pruned first; a failed commit ends the request with the row unchanged.   *)
RecordFailure(w) ==
    LET c == wch[w] IN
    /\ wpc[w] \in {"refused", "lost"}
    /\ Prune(c)
    /\ row' = [row EXCEPT ![c] = IF wpc[w] = "lost" THEN "reconciliation_required"
                                                   ELSE "failed"]
    /\ Touch
    /\ ApplyGoto(w, "announce_failed")
    /\ UNCHANGED <<readOnly, stageVars, deviceVars, told, dropped>>

RecordFailureRaises(w) ==
    /\ wpc[w] \in {"refused", "lost"}
    /\ Prune(wch[w])
    /\ ApplyDone(w)
    /\ UNCHANGED <<row, stale, readOnly, stageVars, deviceVars, told, dropped>>

(* The outcome event follows the terminal commit. *)
Announce(w) ==
    LET c == wch[w] IN
    /\ \/ /\ wpc[w] = "announce_applied"
          /\ told' = [told EXCEPT ![c] = @ \cup {"applied"}]
       \/ /\ wpc[w] = "announce_failed"
          /\ told' = [told EXCEPT ![c] = @ \cup {"failed"}]
    /\ ApplyDone(w)
    /\ UNCHANGED <<row, stale, blob, readOnly, stageVars, deviceVars, dropped>>

(* The process running the request is killed, or the request is cancelled   *)
(* (CancelledError is not an Exception: no handler runs).                   *)
ApplyCrash(w) ==
    /\ wpc[w] # "idle"
    /\ ApplyDone(w)
    /\ UNCHANGED <<row, stale, blob, readOnly, stageVars, deviceVars, told, dropped>>

-----------------------------------------------------------------------------
(* discard, recovery, the clock and the operator's switch *)

(* The row is locked and re-read, so the whole request is one transaction.  *)
(* A forced discard also closes rows in flight or unresolved, and an        *)
(* applied Proxmox change whose provider task is "unknown".                 *)
Discardable(c, force) ==
    \/ row[c] = "pending"
    \/ force /\ row[c] \in {"applying", "reconciliation_required"}
    \/ force /\ c \in Proxmox /\ row[c] = "applied"

Discard(c, force) ==
    /\ Discardable(c, force)
    /\ row' = [row EXCEPT ![c] = "discarded"]
    /\ Touch
    /\ Prune(c)
    /\ dropped' = [dropped EXCEPT ![c] = row[c] = "pending"]
    /\ UNCHANGED <<readOnly, stageVars, applyVars, deviceVars, told>>

(* The artifact is deleted before the commit; the commit fails. *)
DiscardRaises(c, force) ==
    /\ Discardable(c, force)
    /\ Prune(c)
    /\ UNCHANGED <<row, stale, readOnly, stageVars, applyVars, deviceVars, told, dropped>>

(* list_pending runs the recovery for its organisation ...                  *)
RecoverStaleApplying(org) ==
    /\ StaleRows({org}) # {}
    /\ row' = Recovered({org})
    /\ Touch
    /\ UNCHANGED <<blob, readOnly, stageVars, applyVars, deviceVars, told, dropped>>

(* ... and the Celery beat task runs it for all of them every minute.       *)
ReapStuck ==
    /\ StaleRows(Orgs) # {}
    /\ row' = Recovered(Orgs)
    /\ Touch
    /\ UNCHANGED <<blob, readOnly, stageVars, applyVars, deviceVars, told, dropped>>

Age(c) ==
    /\ row[c] = "applying"
    /\ ~stale[c]
    /\ stale' = [stale EXCEPT ![c] = TRUE]
    /\ UNCHANGED <<row, blob, readOnly, stageVars, applyVars, deviceVars, told, dropped>>

SetReadOnly ==
    /\ readOnly' = ~readOnly
    /\ UNCHANGED <<row, stale, blob, stageVars, applyVars, deviceVars, told, dropped>>

-----------------------------------------------------------------------------
StageNext(s) ==
    \/ \E c \in Changes : StageOpen(s, c)
    \/ StageCount(s) \/ StageRefuse(s) \/ StageInsert(s)
    \/ StageReturn(s) \/ StageRaises(s) \/ StageCrash(s)

ApplyNext(w) ==
    \/ \E c \in Changes : BeginApply(w, c)
    \/ \E confirmed \in BOOLEAN : Claim(w, confirmed) \/ RefuseClaim(w, confirmed)
    \/ ApplierRefuses(w) \/ Send(w) \/ Reply(w) \/ NoReply(w)
    \/ RecordApplied(w) \/ RecordAppliedRaises(w) \/ SecondCommit(w)
    \/ RecordFailure(w) \/ RecordFailureRaises(w) \/ Announce(w) \/ ApplyCrash(w)

EnvNext ==
    \/ \E c \in Changes, force \in BOOLEAN : Discard(c, force) \/ DiscardRaises(c, force)
    \/ \E org \in Orgs : RecoverStaleApplying(org)
    \/ \E c \in Changes : Age(c) \/ DeviceAnswers(c)
    \/ ReapStuck
    \/ SetReadOnly

Next ==
    \/ \E s \in Stagers : StageNext(s)
    \/ \E w \in Workers : ApplyNext(w)
    \/ EnvNext

(* Celery beat schedules the janitor and the clock advances; nothing else   *)
(* is guaranteed to happen.                                                 *)
Fairness == WF_vars(ReapStuck) /\ \A c \in Changes : WF_vars(Age(c))

Spec == Init /\ [][Next]_vars
FairSpec == Spec /\ Fairness

-----------------------------------------------------------------------------
(* Properties *)

(* The write of one staged change is sent to the device at most once,       *)
(* whatever the order of double clicks, crashes, the janitor, the worker    *)
(* that ends late and forced discards:                                      *)
(* "prevents a double-click from pushing a duplicate create twice".         *)
AtMostOnce == \A c \in Changes : writes[c] <= 1

(* "failed is a positive assertion that the device did not change", of the  *)
(* Proxmox changes, whose client never reports an unanswered write as a     *)
(* rejection; of the others it is not so: see FailedAssertsUnchanged.       *)
FailedMeansUnchanged ==
    \A c \in Proxmox : row[c] = "failed" => wire[c] \in {"idle", "refused"}

(* A row is only ever recorded "applied" against a device that took the     *)
(* write, including through the late and the second terminal commit.        *)
AppliedMeansTaken == \A c \in Changes : row[c] = "applied" => wire[c] = "taken"

(* The recorded outcome is true of the device, whoever recorded it and      *)
(* however late, the worker, its second commit, the janitor or a recovery:  *)
(* "applied" of every change, "failed" of every Proxmox change.             *)
OutcomeIsTrue == AppliedMeansTaken /\ FailedMeansUnchanged

(* Subscribers are told "applied" only of a write the database keeps as     *)
(* applied; an operator may since have closed an unobservable Proxmox task. *)
AppliedEventIsTrue ==
    \A c \in Changes : "applied" \in told[c] =>
        row[c] = "applied" \/ (c \in Proxmox /\ row[c] = "discarded")

(* STAGE-RACE-1: a change discarded from the queue never reaches the device *)
(* and stays discarded, however the discard races an apply.                 *)
DropIsFinal ==
    \A c \in Changes : dropped[c] => row[c] = "discarded" /\ writes[c] = 0

(* Once its write was sent a change is never queued for apply again, not    *)
(* even after the worker died before recording the outcome.                 *)
SentNeverQueued ==
    \A c \in Changes : row[c] \in {"absent", "pending"} => wire[c] = "idle"

(* The backlog cap is counted before the INSERT without a lock: concurrent  *)
(* stage requests overshoot it, by at most one row for each other request.  *)
QuotaOvershoot ==
    \A org \in Orgs :
        Cardinality(PendingOf(org)) <= MaxPending + Cardinality(Stagers) - 1

(* The statuses a request records when it ends. *)
LateOutcome == {"applied", "failed", "reconciliation_required"}

(* The moves of one row. *)
StatusMove(c) ==
    \/ row[c] = "absent" /\ row'[c] = "pending"
    \/ row[c] = "pending" /\ row'[c] \in {"applying", "discarded"}
    \/ /\ row[c] \in {"applying", "reconciliation_required", "discarded"} /\ ~dropped[c]
       /\ row'[c] \in LateOutcome
    \/ row[c] \in {"applying", "reconciliation_required"} /\ row'[c] = "discarded"
    \/ row[c] = "applied" /\ c \in Proxmox /\ row'[c] = "discarded"

(* The status column only moves forward: no status returns to the queue and *)
(* a recorded outcome is not replaced by another, except that a late worker *)
(* may record its outcome over the janitor's or a forced discard's mark and *)
(* an operator may close what is unresolved.                                *)
StatusMoves == [][\A c \in Changes : row'[c] # row[c] => StatusMove(c)]_row

(* A row never stays in "applying": a killed worker's row is recovered by   *)
(* the janitor once it is older than the TTL.                               *)
ApplyingResolves ==
    \A c \in Changes : row[c] = "applying" ~> row[c] # "applying"

-----------------------------------------------------------------------------
(* The inductive invariant behind the safety properties. *)

(* A request past its claim, until it ends. *)
Unsettled == {"claimed", "sent", "acked", "refused", "lost"}
Live(w) == wpc[w] \in Unsettled \cup {"uncommitted", "announce_applied", "announce_failed"}

(* A request that is under way holds a change. *)
HoldsChange ==
    /\ \A s \in Stagers : spc[s] # "idle" => sch[s] \in Changes
    /\ \A w \in Workers : wpc[w] # "idle" => wch[w] \in Changes

(* At most one request past its claim per change. *)
Exclusive ==
    \A v, w \in Workers : Live(v) /\ Live(w) /\ wch[v] = wch[w] => v = w

(* What the row of a claimed change may say while its request is under way. *)
(* Nobody but that request records an outcome, so nobody was told of one.   *)
ClaimedRow ==
    \A w \in Workers : Live(w) =>
        /\ told[wch[w]] = {}
        /\ ~dropped[wch[w]]
        /\ wpc[w] \in Unsettled =>
             row[wch[w]] \in {"applying", "reconciliation_required", "discarded"}
        /\ wpc[w] = "uncommitted" =>
             row[wch[w]] \in {"applying", "applied", "reconciliation_required", "discarded"}
        /\ wpc[w] = "announce_applied" =>
             row[wch[w]] = "applied" \/ (wch[w] \in Proxmox /\ row[wch[w]] = "discarded")
        /\ wpc[w] = "announce_failed" =>
             row[wch[w]] \in {"failed", "reconciliation_required", "discarded"}

(* Where a request is tells what it knows of the device. *)
KnownOutcome ==
    \A w \in Workers :
        /\ wpc[w] = "claimed" => writes[wch[w]] = 0 /\ wire[wch[w]] = "idle"
        /\ wpc[w] \in {"acked", "uncommitted", "announce_applied"} => wire[wch[w]] = "taken"
        /\ wpc[w] = "refused" /\ wch[w] \in Proxmox => wire[wch[w]] \in {"idle", "refused"}

(* A change still in the queue, or discarded from it, is untouched. *)
Untouched ==
    \A c \in Changes : row[c] \in {"absent", "pending"} \/ dropped[c] =>
        writes[c] = 0 /\ wire[c] = "idle" /\ told[c] = {}

DroppedRow ==
    \A c \in Changes : dropped[c] => row[c] = "discarded"

(* The requests of an organisation between their count and their INSERT     *)
(* have each been promised a place in the backlog.                          *)
Counted(org) == {s \in Stagers : spc[s] = "counted" /\ OrgOf[sch[s]] = org}

QuotaInv ==
    \A org \in Orgs : Cardinality(PendingOf(org)) + Cardinality(Counted(org))
                        <= MaxPending + Cardinality(Stagers) - 1

(* All of it: one live request per change, a row that agrees with where     *)
(* that request is, and a device no other request has written to.           *)
StagingInv ==
    /\ TypeOK /\ HoldsChange /\ Exclusive /\ ClaimedRow /\ KnownOutcome
    /\ Untouched /\ DroppedRow
    /\ AtMostOnce /\ AppliedMeansTaken /\ FailedMeansUnchanged /\ AppliedEventIsTrue

(* The pipeline implements StagedIntent: queued once, dropped or released   *)
(* once, and transmitted once, only after the release.                      *)
phaseBar ==
    [c \in Changes |->
        CASE row[c] = "absent" -> "none"
          [] row[c] = "pending" -> "queued"
          [] OTHER -> IF dropped[c] THEN "dropped" ELSE "released"]

Intent == INSTANCE StagedIntent WITH phase <- phaseBar, sent <- writes

ImplementsIntent == Intent!Spec

(* What the repository says and the code does not do; each is refuted by a  *)
(* run of its own.                                                          *)

(* "failed is a positive assertion that the device did not change", of      *)
(* every change: an unanswered plain write that its adapter reports with    *)
(* AdapterResult.fail, and an upload's job_wait timeout, are recorded as    *)
(* failed although the device may have taken the write.                     *)
FailedAssertsUnchanged ==
    \A c \in Changes : row[c] = "failed" => wire[c] # "taken"

(* "The executor persists it at stage time so it survives sign-off latency; *)
(* this prunes it the moment the change is terminal": a change that has     *)
(* never left the queue still has its artifact.                             *)
PendingKeepsBlob == \A c \in HasBlob : row[c] = "pending" => blob[c]

=============================================================================
