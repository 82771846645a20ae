---------------------------- MODULE AgentReleases ----------------------------
(***************************************************************************)
(* Publication, deletion and cleanup of agent releases: a journal and a    *)
(* catalogue in PostgreSQL, binaries in a private directory tree.          *)
(*                                                                         *)
(* Modelled code: services/agent_release_reservation.py, _preparation.py,  *)
(* _publication.py, _deletion.py, _cleanup.py, _cleanup_coordinator.py,    *)
(* _capacity.py, _artifact_store.py and the managed path of _delivery.py.  *)
(*                                                                         *)
(* A worker is one API request.  It holds a session-level advisory lock    *)
(* (lease) on the release while it runs, and an exclusive flock on the     *)
(* artifact's directory while it touches files.  Every owner.phase is one  *)
(* transaction that is refused once the lease is gone; a commit whose      *)
(* answer is lost poisons the owner, so the worker stops.  A file step may *)
(* stop half way, and a connection or a process may be lost anywhere.      *)
(***************************************************************************)
EXTENDS Naturals, FiniteSets

CONSTANTS
    Ops,        \* journalled operations, by operation_id
    Releases,
    KindOf,     \* Ops -> "publish" or "delete"
    StorageOf,  \* a publication's storage: "owned" or "external"
    ReleaseOf,  \* Ops -> Releases
    Asked,      \* Ops -> the kinds of request that clients make of it
    Workers,    \* concurrent requests
    Readers,    \* concurrent downloads
    Budget,     \* owned binaries the server's policy allows (of one size)
    NoOne, Lost, NoOp, NoRel

ASSUME ReleasesAssumption ==
    /\ KindOf \in [Ops -> {"publish", "delete"}]
    /\ StorageOf \in [Ops -> {"owned", "external"}]
    /\ ReleaseOf \in [Ops -> Releases]
    /\ Budget \in Nat
    /\ NoOne \notin Workers /\ Lost \notin Workers /\ NoOne # Lost
    /\ NoOp \notin Ops /\ NoRel \notin Releases
    (* A release identity is born once: its publications share one request. *)
    /\ \A o, q \in Ops : (/\ KindOf[o] = "publish" /\ KindOf[q] = "publish"
                          /\ ReleaseOf[o] = ReleaseOf[q]) => o = q
    /\ \A o \in Ops : \E q \in Ops : KindOf[q] = "publish" /\ ReleaseOf[q] = ReleaseOf[o]

VARIABLES
    phase,    \* agent_release_operations.phase ("none": no row)
    decision, \* agent_release_operations.decision
    live,     \* releases with a row in agent_releases
    dir,      \* an artifact's directory with its intent.json
    payload,  \* its payload: none, part, full
    alloc, prepared, retired, cleaned,  \* its other markers: none, torn, ok
    flock,    \* who holds its directory exclusively
    lease,    \* who holds a release's advisory lock; Lost: a session nobody uses
    pc, op, act,   \* a worker: where it is, its operation, its request
    rpc, rrel      \* a reader: where it is, the release it delivers

journal == <<phase, decision>>
store == <<dir, payload, alloc, prepared, retired, cleaned>>
readers == <<rpc, rrel>>
vars == <<phase, decision, live, dir, payload, alloc, prepared, retired, cleaned,
          flock, lease, pc, op, act, rpc, rrel>>

-----------------------------------------------------------------------------
Arts == {o \in Ops : KindOf[o] = "publish" /\ StorageOf[o] = "owned"}

(* The publication a release was born from, and an operation's artifact.   *)
BornFrom(r, o) == KindOf[o] = "publish" /\ ReleaseOf[o] = r
ArtOf(o) == CHOOSE p \in Ops : BornFrom(ReleaseOf[o], p)
Owned(o) == ArtOf(o) \in Arts

Pending(o) == phase[o] \in {"reserved", "prepared"}

(* Mutant: a cancelled or deleted publication is charged no longer. *)
ChargedUndecided(o) == Pending(o) \/ (decision[o] = "published" /\ ReleaseOf[o] \in live)

(* charged_owned_publications: until the exact cleanup is recorded. *)
Charged(o) ==
    /\ phase[o] \notin {"none", "cleaned"}
    /\ ~ \E d \in Ops : /\ KindOf[d] = "delete" /\ ReleaseOf[d] = ReleaseOf[o]
                        /\ phase[d] = "cleaned" /\ decision[d] = "deleted"
                        /\ phase[o] = "decided" /\ decision[o] = "published"
                        /\ ReleaseOf[o] \notin live

ChargedArts == {o \in Arts : Charged(o)}

-----------------------------------------------------------------------------
(* What a request does, as the places it passes.                           *)
Requests(o) == Asked[o] \cap
    IF KindOf[o] = "delete" THEN {"reserve", "delete", "cancel", "cleanup"}
    ELSE IF StorageOf[o] = "owned"
         THEN {"reserve", "upload", "resume", "publish", "cancel", "cleanup"}
         ELSE {"reserve", "publish", "cancel", "cleanup"}

FirstPlace(o, a) ==
    CASE a \in {"reserve", "upload", "delete"} -> "reserve"
      [] a = "publish" /\ ~Owned(o) -> "reserve"
      [] a \in {"resume", "publish"} -> "inspect"
      [] a = "cancel" -> "cancel"
      [] a = "cleanup" -> "inspect"

(* The place after a phase that only looks. *)
AfterLook(o, a, place) ==
    CASE place = "inspect" -> IF a = "publish" /\ ~Owned(o) THEN "publish" ELSE "flock"
      [] place = "recheck" -> CASE a = "upload" -> "begin" [] a = "cleanup" -> "retire"
                                [] OTHER -> "verify"
      [] place = "check" -> "append"
      [] place = "last" -> IF a = "cleanup" THEN "unlink" ELSE "finish"

Looks == {"inspect", "recheck", "check", "last"}
Places == Looks \cup {"idle", "reserve", "flock", "begin", "append", "finish", "verify",
                      "record", "publish", "cancel", "decide", "retire", "unlink",
                      "cleaned", "close", "unlock"}

Owns(w) == lease[ReleaseOf[op[w]]] = w
Goto(w, place) == pc' = [pc EXCEPT ![w] = place]
(* A phase commits: it goes on, or its answer is lost and the owner stops. *)
Commit(w, place) == pc' \in {[pc EXCEPT ![w] = place], [pc EXCEPT ![w] = "close"]}

Init ==
    /\ phase = [o \in Ops |-> "none"] /\ decision = [o \in Ops |-> "none"]
    /\ live = {}
    /\ dir = [o \in Arts |-> "none"] /\ payload = [o \in Arts |-> "none"]
    /\ alloc = [o \in Arts |-> "none"] /\ prepared = [o \in Arts |-> "none"]
    /\ retired = [o \in Arts |-> "none"] /\ cleaned = [o \in Arts |-> "none"]
    /\ flock = [o \in Arts |-> NoOne]
    /\ lease = [r \in Releases |-> NoOne]
    /\ pc = [w \in Workers |-> "idle"] /\ op = [w \in Workers |-> NoOp]
    /\ act = [w \in Workers |-> "none"]
    /\ rpc = [d \in Readers |-> "idle"] /\ rrel = [d \in Readers |-> NoRel]

-----------------------------------------------------------------------------
(* The owner: _execute_owned. *)

(* pg_try_advisory_lock succeeds and is acknowledged; the keys of the      *)
(* operation and of its release are one here, for the operation has one    *)
(* release.  A request that is refused the lock changes nothing.           *)
Acquire(w, o, a) ==
    /\ pc[w] = "idle" /\ a \in Requests(o)
    /\ lease[ReleaseOf[o]] = NoOne
    /\ lease' = [lease EXCEPT ![ReleaseOf[o]] = w]
    /\ op' = [op EXCEPT ![w] = o] /\ act' = [act EXCEPT ![w] = a]
    /\ Goto(w, FirstPlace(o, a))
    /\ UNCHANGED <<journal, live, store, flock, readers>>

(* Mutant: a session whose grant was not acknowledged returns to the pool, *)
(* and nothing ends it there; one such session is enough.                  *)
AcquireUnconfirmedPooled(r) ==
    /\ lease[r] = NoOne /\ \A s \in Releases : lease[s] # NoRel
    /\ lease' = [lease EXCEPT ![r] = NoRel]
    /\ UNCHANGED <<journal, live, store, flock, pc, op, act, readers>>

(* The lock is granted and the acknowledgement is lost: the connection is  *)
(* invalidated, and the request fails.  The server ends the session later. *)
AcquireUnconfirmed(r) ==
    /\ lease[r] = NoOne
    /\ lease' = [lease EXCEPT ![r] = Lost]
    /\ UNCHANGED <<journal, live, store, flock, pc, op, act, readers>>

(* The server notices that a session has no client any more. *)
SessionEnds(r) ==
    /\ lease[r] = Lost
    /\ lease' = [lease EXCEPT ![r] = NoOne]
    /\ UNCHANGED <<journal, live, store, flock, pc, op, act, readers>>

(* A refusal, an error, a deadline, or a phase that did not commit. *)
Fail(w) ==
    /\ pc[w] \notin {"idle", "close", "unlock"}
    /\ Goto(w, "close")
    /\ UNCHANGED <<journal, live, store, flock, lease, op, act, readers>>

(* The files are closed before the lease is given back. *)
Close(w) ==
    /\ pc[w] = "close"
    /\ flock' = [o \in Arts |-> IF flock[o] = w THEN NoOne ELSE flock[o]]
    /\ Goto(w, "unlock")
    /\ UNCHANGED <<journal, live, store, lease, op, act, readers>>

Release(w, l) == lease' = [r \in Releases |-> IF lease[r] = w THEN l ELSE lease[r]]

(* pg_advisory_unlock, or invalidate when it cannot be confirmed. *)
Unlock(w) ==
    /\ pc[w] = "unlock"
    /\ \E l \in {NoOne, Lost} : Release(w, l)
    /\ Goto(w, "idle")
    /\ op' = [op EXCEPT ![w] = NoOp] /\ act' = [act EXCEPT ![w] = "none"]
    /\ UNCHANGED <<journal, live, store, flock, readers>>

(* The database session ends while the request, and its files, live on. *)
ConnectionLost(w) ==
    /\ pc[w] # "idle" /\ Owns(w)
    /\ \E l \in {NoOne, Lost} : Release(w, l)
    /\ UNCHANGED <<journal, live, store, flock, pc, op, act, readers>>

(* The process dies: the kernel drops its flock, the server its session.  *)
Crash(w) ==
    /\ pc[w] # "idle"
    /\ flock' = [o \in Arts |-> IF flock[o] = w THEN NoOne ELSE flock[o]]
    /\ \E l \in {NoOne, Lost} : Release(w, l)
    /\ Goto(w, "idle")
    /\ op' = [op EXCEPT ![w] = NoOp] /\ act' = [act EXCEPT ![w] = "none"]
    /\ UNCHANGED <<journal, live, store, readers>>

-----------------------------------------------------------------------------
(* Phases: transactions of the owner. *)

(* reserve of a publication: a fresh identity, within the budget. *)
MayPublish(o) ==
    /\ ReleaseOf[o] \notin live
    /\ ~ \E q \in Ops : ReleaseOf[q] = ReleaseOf[o] /\ phase[q] # "none"
    /\ o \in Arts => Cardinality(ChargedArts) + 1 <= Budget

(* _reserve of a deletion: a live target, published, nothing unresolved. *)
MayDelete(o) ==
    /\ ReleaseOf[o] \in live
    /\ ~ \E q \in Ops : ReleaseOf[q] = ReleaseOf[o] /\ Pending(q)
    /\ decision[ArtOf(o)] = "published" /\ phase[ArtOf(o)] = "decided"

Reserve(w) ==
    LET o == op[w]
    IN /\ pc[w] = "reserve" /\ Owns(w)
       /\ phase[o] = "none" => IF KindOf[o] = "publish" THEN MayPublish(o) ELSE MayDelete(o)
       /\ phase' = [phase EXCEPT ![o] = IF @ = "none" THEN "reserved" ELSE @]
       /\ Commit(w, CASE act[w] = "reserve" -> "close" [] act[w] = "delete" -> "decide"
                      [] OTHER -> "inspect")
       /\ UNCHANGED <<decision, live, store, flock, lease, op, act, readers>>

(* _pending and _publication_state for an undecided operation; _inspect_db *)
(* with plan_release_cleanup for a cleanup.                                *)
Undecided(o) == Pending(o) /\ ReleaseOf[o] \notin live

(* Mutant: the catalogue is not asked whether the release is still there.  *)
CleanableBlind(o) ==
    /\ phase[o] \in {"decided", "cleaned"}
    /\ decision[o] \in {"published", "cancelled", "deleted"}

Cleanable(o) ==
    /\ phase[o] \in {"decided", "cleaned"} /\ decision[o] \in {"cancelled", "deleted"}
    /\ Owned(o) => ~ \E q \in Ops : q # o /\ ReleaseOf[q] = ReleaseOf[o] /\ Pending(q)
    /\ ~(KindOf[o] = "delete" /\ decision[o] = "cancelled") => ReleaseOf[o] \notin live

(* "retire-owned"; the other plans touch no file. *)
RetiresBytes(o) == Owned(o) /\ ~(KindOf[o] = "delete" /\ decision[o] = "cancelled")

Look(w) ==
    LET o == op[w]
        place == IF act[w] = "cleanup" /\ ~RetiresBytes(o) THEN "cleaned"
                 ELSE IF act[w] = "publish" /\ decision[o] = "published" THEN "close"
                 ELSE AfterLook(o, act[w], pc[w])
    IN /\ pc[w] \in Looks /\ Owns(w)
       /\ CASE act[w] = "cleanup" -> Cleanable(o)
            [] act[w] = "publish" -> \/ Undecided(o)
                                     \/ phase[o] = "decided" /\ decision[o] = "published"
            [] OTHER -> Undecided(o)
       /\ act[w] = "upload" /\ pc[w] = "inspect" => phase[o] = "reserved"
       /\ Goto(w, place)
       /\ UNCHANGED <<journal, live, store, flock, lease, op, act, readers>>

(* _record_prepared, with the receipt of the files that are still held. *)
RecordPrepared(w) ==
    LET o == op[w]
    IN /\ pc[w] = "record" /\ Owns(w) /\ Undecided(o)
       /\ phase' = [phase EXCEPT ![o] = "prepared"]
       /\ Commit(w, IF act[w] = "publish" THEN "publish" ELSE "close")
       /\ UNCHANGED <<decision, live, store, flock, lease, op, act, readers>>

(* _publish: after signing, the decision and the catalogue row commit      *)
(* together; an external release is prepared in the same transaction.      *)
Publish(w) ==
    LET o == op[w]
    IN /\ pc[w] = "publish" /\ Owns(w)
       /\ \/ Undecided(o) /\ (Owned(o) => phase[o] = "prepared")
          \/ phase[o] = "decided" /\ decision[o] = "published"
       /\ phase' = [phase EXCEPT ![o] = "decided"]
       /\ decision' = [decision EXCEPT ![o] = "published"]
       /\ live' = IF decision[o] = "published" THEN live ELSE live \cup {ReleaseOf[o]}
       /\ Commit(w, "close")
       /\ UNCHANGED <<store, flock, lease, op, act, readers>>

(* Mutant: a publication that is confirmed can still be cancelled. *)
CancelLate(w) ==
    LET o == op[w]
    IN /\ pc[w] = "cancel" /\ Owns(w) /\ phase[o] # "none"
       /\ phase' = [phase EXCEPT ![o] = "decided"]
       /\ decision' = [decision EXCEPT ![o] = "cancelled"]
       /\ Commit(w, "close")
       /\ UNCHANGED <<live, store, flock, lease, op, act, readers>>

(* cancel of a publication, _cancel of a deletion; no file is touched. *)
Cancel(w) ==
    LET o == op[w]
    IN /\ pc[w] = "cancel" /\ Owns(w)
       /\ Pending(o)
       /\ KindOf[o] = "publish" => ReleaseOf[o] \notin live
       /\ phase' = [phase EXCEPT ![o] = "decided"]
       /\ decision' = [decision EXCEPT ![o] = "cancelled"]
       /\ Commit(w, "close")
       /\ UNCHANGED <<live, store, flock, lease, op, act, readers>>

(* Mutant: the deletion is decided, its row removed later. *)
DecideFirst(w) ==
    LET o == op[w]
    IN /\ pc[w] = "decide" /\ Owns(w)
       /\ Pending(o) /\ ReleaseOf[o] \in live
       /\ phase' = [phase EXCEPT ![o] = "decided"]
       /\ decision' = [decision EXCEPT ![o] = "deleted"]
       /\ Commit(w, "close")
       /\ UNCHANGED <<live, store, flock, lease, op, act, readers>>

(* _delete: the catalogue row goes with the decision. *)
Decide(w) ==
    LET o == op[w]
    IN /\ pc[w] = "decide" /\ Owns(w)
       /\ Pending(o) /\ ReleaseOf[o] \in live
       /\ phase' = [phase EXCEPT ![o] = "decided"]
       /\ decision' = [decision EXCEPT ![o] = "deleted"]
       /\ live' = live \ {ReleaseOf[o]}
       /\ Commit(w, "close")
       /\ UNCHANGED <<store, flock, lease, op, act, readers>>

(* _record_cleaned *)
RecordCleaned(w) ==
    LET o == op[w]
    IN /\ pc[w] = "cleaned" /\ Owns(w) /\ Cleanable(o)
       /\ phase' = [phase EXCEPT ![o] = "cleaned"]
       /\ Commit(w, "close")
       /\ UNCHANGED <<decision, live, store, flock, lease, op, act, readers>>

-----------------------------------------------------------------------------
(* Files: ArtifactLease.  They need no database session.                   *)

Reading(a) == \E d \in Readers : rpc[d] \in {"verified", "sending"} /\ rrel[d] = ReleaseOf[a]

(* Mutant: downloads take no lock. *)
UnlockedByReaders(a) == flock[a] = NoOne

(* Mutant: the advisory lock alone keeps requests apart. *)
UnlockedAnyone(a) == ~Reading(a)

Unlocked(a) == flock[a] = NoOne /\ ~Reading(a)

(* acquire(exclusive): only an upload may create the directory. *)
FileLock(w) ==
    LET a == ArtOf(op[w])
    IN /\ pc[w] = "flock" /\ Unlocked(a)
       /\ \/ /\ dir[a] = "ok"
             /\ flock' = [flock EXCEPT ![a] = w] /\ Goto(w, "recheck")
             /\ UNCHANGED dir
          \/ /\ dir[a] = "none" /\ act[w] = "upload"
             /\ \/ /\ dir' = [dir EXCEPT ![a] = "ok"]
                   /\ flock' = [flock EXCEPT ![a] = w] /\ Goto(w, "recheck")
                \/ /\ dir' = [dir EXCEPT ![a] = "torn"]
                   /\ Goto(w, "close") /\ UNCHANGED flock
       /\ UNCHANGED <<journal, live, payload, alloc, prepared, retired, cleaned, lease,
                      op, act, readers>>

NotRetired(a) == retired[a] = "none" /\ cleaned[a] = "none"

(* Mutant: an upload begins anew over what an earlier one left. *)
BeginAnew(w) ==
    LET a == ArtOf(op[w])
    IN /\ pc[w] = "begin" /\ NotRetired(a)
       /\ payload' = [payload EXCEPT ![a] = "part"]
       /\ alloc' = [alloc EXCEPT ![a] = "ok"]
       /\ Goto(w, "check")
       /\ UNCHANGED <<journal, live, dir, prepared, retired, cleaned, flock, lease,
                      op, act, readers>>

(* begin: allocate once; stopped half way, the allocation stays torn. *)
Begin(w) ==
    LET a == ArtOf(op[w])
    IN /\ pc[w] = "begin"
       /\ NotRetired(a) /\ alloc[a] = "none" /\ prepared[a] = "none" /\ payload[a] = "none"
       /\ payload' = [payload EXCEPT ![a] = "part"]
       /\ \E m \in {"none", "torn", "ok"} :
             /\ alloc' = [alloc EXCEPT ![a] = m]
             /\ Goto(w, IF m = "ok" THEN "check" ELSE "close")
       /\ UNCHANGED <<journal, live, dir, prepared, retired, cleaned, flock, lease,
                      op, act, readers>>

(* append: the last chunk arrives. *)
AppendChunk(w) ==
    LET a == ArtOf(op[w])
    IN /\ pc[w] = "append"
       /\ payload' = [payload EXCEPT ![a] = "full"]
       /\ Goto(w, "last")
       /\ UNCHANGED <<journal, live, dir, alloc, prepared, retired, cleaned, flock, lease,
                      op, act, readers>>

(* finish, with its readback. *)
Finish(w) ==
    LET a == ArtOf(op[w])
    IN /\ pc[w] = "finish"
       /\ \E m \in {"torn", "ok"} :
             /\ prepared' = [prepared EXCEPT ![a] = m]
             /\ Goto(w, IF m = "ok" THEN "record" ELSE "close")
       /\ UNCHANGED <<journal, live, dir, payload, alloc, retired, cleaned, flock, lease,
                      op, act, readers>>

(* verify_prepared *)
Verified(a) ==
    /\ dir[a] = "ok" /\ NotRetired(a)
    /\ alloc[a] = "ok" /\ prepared[a] = "ok" /\ payload[a] = "full"

Verify(w) ==
    /\ pc[w] = "verify" /\ Verified(ArtOf(op[w]))
    /\ Goto(w, "record")
    /\ UNCHANGED <<journal, live, store, flock, lease, op, act, readers>>

(* retire: a durable mark before the bytes go.  A deletion verifies them, a *)
(* cancellation accepts a partial file with its allocation, or no file.    *)
(* The mark of another decision, or a torn one, is refused.                *)
Retirable(o, a) ==
    /\ cleaned[a] = "none"
    /\ IF KindOf[o] = "delete" THEN Verified(a)
       ELSE IF payload[a] = "none" THEN alloc[a] = "none" /\ prepared[a] = "none"
       ELSE alloc[a] = "ok"

Retire(w) ==
    LET o == op[w]
        a == ArtOf(o)
    IN /\ pc[w] = "retire"
       /\ \/ /\ retired[a] = "ok" /\ Goto(w, "last") /\ UNCHANGED retired
          \/ /\ retired[a] = "none" /\ Retirable(o, a)
             /\ \E m \in {"torn", "ok"} :
                   /\ retired' = [retired EXCEPT ![a] = m]
                   /\ Goto(w, IF m = "ok" THEN "last" ELSE "close")
       /\ UNCHANGED <<journal, live, dir, payload, alloc, prepared, cleaned, flock, lease,
                      op, act, readers>>

(* cleanup_retired: the payload goes, then the mark that it is gone. *)
Unlink(w) ==
    LET a == ArtOf(op[w])
    IN /\ pc[w] = "unlink" /\ retired[a] = "ok" /\ cleaned[a] # "torn"
       /\ payload[a] # "none" => cleaned[a] = "none"
       /\ payload' = [payload EXCEPT ![a] = "none"]
       /\ \E m \in {cleaned[a], "ok"} \cup (IF cleaned[a] = "none" THEN {"torn"} ELSE {}) :
             /\ cleaned' = [cleaned EXCEPT ![a] = m]
             /\ Goto(w, IF m = "ok" THEN "cleaned" ELSE "close")
       /\ UNCHANGED <<journal, live, dir, alloc, prepared, retired, flock, lease,
                      op, act, readers>>

-----------------------------------------------------------------------------
(* Delivery: ManagedReleaseResponse. *)

Deliverable(r) ==
    /\ r \in live
    /\ \E o \in Arts : ReleaseOf[o] = r /\ phase[o] = "decided" /\ decision[o] = "published"

ReadStart(d, r) ==
    /\ rpc[d] = "idle" /\ Deliverable(r)
    /\ rpc' = [rpc EXCEPT ![d] = "observed"] /\ rrel' = [rrel EXCEPT ![d] = r]
    /\ UNCHANGED <<journal, live, store, flock, lease, pc, op, act>>

(* The shared lock, and verify_prepared under it. *)
ReadLock(d) ==
    /\ rpc[d] = "observed"
    /\ \E a \in Arts : ReleaseOf[a] = rrel[d] /\ flock[a] = NoOne /\ Verified(a)
    /\ rpc' = [rpc EXCEPT ![d] = "verified"]
    /\ UNCHANGED <<journal, live, store, flock, lease, pc, op, act, rrel>>

(* The catalogue is asked again before every chunk is sent. *)
ReadSend(d) ==
    /\ rpc[d] \in {"verified", "sending"} /\ Deliverable(rrel[d])
    /\ rpc' = [rpc EXCEPT ![d] = "sending"]
    /\ UNCHANGED <<journal, live, store, flock, lease, pc, op, act, rrel>>

ReadEnd(d) ==
    /\ rpc[d] # "idle"
    /\ rpc' = [rpc EXCEPT ![d] = "idle"] /\ rrel' = [rrel EXCEPT ![d] = NoRel]
    /\ UNCHANGED <<journal, live, store, flock, lease, pc, op, act>>

-----------------------------------------------------------------------------
Phase(w) ==
    \/ Reserve(w) \/ Look(w) \/ RecordPrepared(w) \/ Publish(w)
    \/ Cancel(w) \/ Decide(w) \/ RecordCleaned(w)
FileStep(w) ==
    \/ FileLock(w) \/ Begin(w) \/ AppendChunk(w) \/ Finish(w) \/ Verify(w)
    \/ Retire(w) \/ Unlink(w)

Next ==
    \/ \E w \in Workers, o \in Ops : \E a \in Requests(o) : Acquire(w, o, a)
    \/ \E w \in Workers : \/ Phase(w) \/ FileStep(w)
                          \/ Fail(w) \/ Close(w) \/ Unlock(w)
                          \/ ConnectionLost(w) \/ Crash(w)
    \/ \E r \in Releases : AcquireUnconfirmed(r) \/ SessionEnds(r)
    \/ \E d \in Readers : \/ \E r \in Releases : ReadStart(d, r)
                          \/ ReadLock(d) \/ ReadSend(d) \/ ReadEnd(d)

Spec == Init /\ [][Next]_vars

(* A request that does not get to its end meets its deadline; it drains its *)
(* files and gives up its session.  The server ends sessions whose         *)
(* connection was closed.                                                  *)
FairSpec ==
    /\ Spec
    /\ \A w \in Workers : WF_vars(Fail(w) \/ Close(w) \/ Unlock(w))
    /\ \A r \in Releases : WF_vars(SessionEnds(r))

-----------------------------------------------------------------------------
Marker == {"none", "torn", "ok"}

(* Types; and a file lock is held only by a request that is on its way. *)
TypeOK ==
    /\ phase \in [Ops -> {"none", "reserved", "prepared", "decided", "cleaned"}]
    /\ decision \in [Ops -> {"none", "published", "cancelled", "deleted"}]
    /\ live \subseteq Releases
    /\ dir \in [Arts -> Marker] /\ payload \in [Arts -> {"none", "part", "full"}]
    /\ alloc \in [Arts -> Marker] /\ prepared \in [Arts -> Marker]
    /\ retired \in [Arts -> Marker] /\ cleaned \in [Arts -> Marker]
    /\ flock \in [Arts -> Workers \cup {NoOne}]
    /\ lease \in [Releases -> Workers \cup {NoOne, Lost}]
    /\ pc \in [Workers -> Places] /\ op \in [Workers -> Ops \cup {NoOp}]
    /\ \A w \in Workers : (pc[w] = "idle") <=> (op[w] = NoOp)
    /\ \A w \in Workers : act[w] \in (IF pc[w] = "idle" THEN {"none"} ELSE Requests(op[w]))
    /\ rpc \in [Readers -> {"idle", "observed", "verified", "sending"}]
    /\ rrel \in [Readers -> Releases \cup {NoRel}]
    /\ \A a \in Arts : flock[a] # NoOne => pc[flock[a]] # "idle"

(* A release in the catalogue has its binary: whole, with its receipt, not *)
(* retired.  Crashes, lost commits, connections lost under a running       *)
(* request and cleanups of other operations do not separate the two.       *)
LiveHasBytes ==
    \A a \in Arts : ReleaseOf[a] \in live => dir[a] = "ok" /\ Verified(a)

(* What lies on disk is accounted for: every binary, partial ones too, is  *)
(* charged to the budget until its cleanup is recorded, and the charges    *)
(* keep to the budget.                                                     *)
BytesAccounted ==
    /\ \A a \in Arts : payload[a] # "none" => Charged(a)
    /\ Cardinality(ChargedArts) <= Budget

(* The catalogue is what the journal says: the releases whose publication  *)
(* is decided and whose deletion is not.  In particular a deleted release  *)
(* never returns and a cancelled one never appears.                        *)
CatalogueMatchesJournal ==
    live = {ReleaseOf[o] : o \in {p \in Ops : KindOf[p] = "publish" /\ decision[p] = "published"}}
           \ {ReleaseOf[o] : o \in {p \in Ops : decision[p] = "deleted"}}

(* Cleanup is recorded only of bytes that are gone, and they stay gone,    *)
(* though a request that lost its session may still hold the files.        *)
CleanedMeansGone ==
    \A o \in Ops : phase[o] = "cleaned" /\ RetiresBytes(o) =>
        payload[ArtOf(o)] = "none" /\ cleaned[ArtOf(o)] = "ok"

(* A download that was verified never reads other or missing bytes:        *)
(* whatever is decided meanwhile, they are neither retired nor removed     *)
(* under it.  (It may still be broken off: the code looks at the catalogue *)
(* again before each chunk.)                                               *)
DeliveryIsWhole ==
    \A d \in Readers, a \in Arts :
        rpc[d] \in {"verified", "sending"} /\ rrel[d] = ReleaseOf[a] => Verified(a)

(* A decision is final, and an operation only moves forward. *)
Rank == [none |-> 0, reserved |-> 1, prepared |-> 2, decided |-> 3, cleaned |-> 4]
DecisionsFinal ==
    [][\A o \in Ops : /\ decision[o] # "none" => decision'[o] = decision[o]
                      /\ Rank[phase[o]] <= Rank[phase'[o]]]_vars

(* Nobody is locked out: the advisory lock of a release is given back, also *)
(* when its grant was never acknowledged or its request died.              *)
LeaseReturns == \A r \in Releases : []<>(lease[r] = NoOne)

-----------------------------------------------------------------------------
(* The abstract specification.  Bytes count as gone from the moment their  *)
(* directory is retired without any, for no upload can begin there.        *)
shelfBar ==
    [a \in Arts |-> IF ReleaseOf[a] \in live THEN "offered"
                    ELSE IF decision[a] = "none" THEN "absent" ELSE "withdrawn"]
bytesBar ==
    [a \in Arts |-> IF payload[a] = "none" /\ retired[a] # "none" THEN "gone" ELSE payload[a]]
takenBar ==
    {t \in Readers \X Arts : rpc[t[1]] \in {"verified", "sending"} /\ rrel[t[1]] = ReleaseOf[t[2]]}

Shelf == INSTANCE ReleaseShelf WITH shelf <- shelfBar, bytes <- bytesBar, taken <- takenBar

(* The lifecycle implements ReleaseShelf: the requests, each with its own  *)
(* transactions and files, write a binary once, offer it whole, withdraw   *)
(* it for good and erase it only then and under no download, whatever      *)
(* sessions, answers and processes are lost between their steps.           *)
ImplementsShelf == Shelf!Spec
=============================================================================
