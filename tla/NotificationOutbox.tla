------------------------- MODULE NotificationOutbox -------------------------
(***************************************************************************)
(* The outbox of in-app notifications: a bell row and its pending event    *)
(* are committed together, and a beat task publishes due events to Redis.  *)
(*                                                                         *)
(* Modelled code: services/notification_outbox.py,                         *)
(* tasks/notification_outbox.py, models/notification_outbox.py, and        *)
(* create_in_app, mark_read and dismiss of services/notification.py.       *)
(*                                                                         *)
(* A publisher holds the event's row lock from the query to the commit; it *)
(* publishes in between.  Redis may accept an event and fail to say so, a  *)
(* commit may be lost, a publisher or its database session may die.        *)
(***************************************************************************)
EXTENDS Naturals, FiniteSets

CONSTANTS
    Notes,      \* notifications of one recipient
    Publishers, \* beat tasks that overlap
    MaxFaults,  \* lost answers, commits, sessions and processes of a behaviour
    NoNote

ASSUME OutboxAssumption ==
    /\ IsFiniteSet(Publishers)
    /\ NoNote \notin Notes \cup Publishers
    /\ MaxFaults \in Nat

VARIABLES
    event,   \* in_app_notification_events.status; none: not created, gone: deleted
    due,     \* next_attempt_at has come
    seen,    \* the bell row was read or dismissed
    active,  \* the recipient and its organisation are active
    lockedBy,\* the publisher whose session holds the event's row
    step,    \* a publisher: idle, picked, suppress, publish, accepted, deferred
    note,    \* the event it is about
    accepted,\* how often Redis took the event with a subscriber listening
    faults   \* faults that happened while an event was being published

outboxVars == <<event, due, seen, active, lockedBy, step, note, accepted, faults>>

OutboxInit ==
    /\ event = [n \in Notes |-> "none"] /\ due = [n \in Notes |-> FALSE]
    /\ seen = [n \in Notes |-> FALSE] /\ active = TRUE
    /\ lockedBy = [n \in Notes |-> NoNote]
    /\ step = [p \in Publishers |-> "idle"] /\ note = [p \in Publishers |-> NoNote]
    /\ accepted = [n \in Notes |-> 0] /\ faults = [n \in Notes |-> 0]

Free(n) == lockedBy[n] = NoNote
MayFault(n) == faults[n] < MaxFaults
Fault(n) == faults' = [faults EXCEPT ![n] = @ + 1]
Holds(p) == lockedBy[note[p]] = p

(* Mutant: the session goes back to its pool with the transaction open. *)
UnpickOpen(p) ==
    /\ step' = [step EXCEPT ![p] = "idle"] /\ note' = [note EXCEPT ![p] = NoNote]
    /\ UNCHANGED lockedBy

(* The transaction ends, and the row lock with it. *)
Unpick(p) ==
    /\ step' = [step EXCEPT ![p] = "idle"] /\ note' = [note EXCEPT ![p] = NoNote]
    /\ lockedBy' = [n \in Notes |-> IF lockedBy[n] = p THEN NoNote ELSE lockedBy[n]]

-----------------------------------------------------------------------------
(* Requests. *)

(* create_in_app: only for an active recipient; its event is due at once. *)
CreateInApp(n) ==
    /\ event[n] = "none" /\ active
    /\ event' = [event EXCEPT ![n] = "pending"] /\ due' = [due EXCEPT ![n] = TRUE]
    /\ UNCHANGED <<seen, active, lockedBy, step, note, accepted, faults>>

(* mark_read, mark_all_read, dismiss: the bell row, not the event's. *)
SeeNote(n) ==
    /\ event[n] \notin {"none", "gone"} /\ ~seen[n]
    /\ seen' = [seen EXCEPT ![n] = TRUE]
    /\ UNCHANGED <<event, due, active, lockedBy, step, note, accepted, faults>>

(* An administrator deactivates the recipient or its organisation, or      *)
(* activates it again.                                                     *)
Activation ==
    /\ active' = ~active
    /\ UNCHANGED <<event, due, seen, lockedBy, step, note, accepted, faults>>

(* The bell row, the user or the organisation is deleted: the cascade      *)
(* waits for the event's row lock.                                         *)
CascadeDelete(n) ==
    /\ event[n] \notin {"none", "gone"} /\ Free(n)
    /\ event' = [event EXCEPT ![n] = "gone"]
    /\ UNCHANGED <<due, seen, active, lockedBy, step, note, accepted, faults>>

(* The backoff of a deferred event is over. *)
ComesDue(n) ==
    /\ event[n] = "pending" /\ ~due[n]
    /\ due' = [due EXCEPT ![n] = TRUE]
    /\ UNCHANGED <<event, seen, active, lockedBy, step, note, accepted, faults>>

-----------------------------------------------------------------------------
(* publish_pending_notifications, one row of its batch. *)

(* Mutant: rows are selected without SKIP LOCKED's lock. *)
SelectableUnlocked(n) == event[n] = "pending" /\ due[n]

(* SELECT ... FOR UPDATE SKIP LOCKED of a due row. *)
Selectable(n) == event[n] = "pending" /\ due[n] /\ Free(n)

Pick(p, n) ==
    /\ step[p] = "idle" /\ Selectable(n)
    /\ lockedBy' = [lockedBy EXCEPT ![n] = p]
    /\ step' = [step EXCEPT ![p] = "picked"] /\ note' = [note EXCEPT ![p] = n]
    /\ UNCHANGED <<event, due, seen, active, accepted, faults>>

(* The recipient and the bell row are looked at again. *)
Eligible(n) == active /\ ~seen[n]

LookAgain(p) ==
    /\ step[p] = "picked" /\ Holds(p)
    /\ step' = [step EXCEPT ![p] = IF Eligible(note[p]) THEN "publish" ELSE "suppress"]
    /\ UNCHANGED <<event, due, seen, active, lockedBy, note, accepted, faults>>

(* client.publish answers: somebody subscribes, or nobody does. *)
PublishAccepted(p) ==
    /\ step[p] = "publish"
    /\ accepted' = [accepted EXCEPT ![note[p]] = @ + 1]
    /\ step' = [step EXCEPT ![p] = "accepted"]
    /\ UNCHANGED <<event, due, seen, active, lockedBy, note, faults>>

PublishUnheard(p) ==
    /\ step[p] = "publish"
    /\ step' = [step EXCEPT ![p] = "deferred"]
    /\ UNCHANGED <<event, due, seen, active, lockedBy, note, accepted, faults>>

(* It raises, or the three seconds pass: Redis may have taken the event. *)
PublishUncertain(p) ==
    /\ step[p] = "publish" /\ MayFault(note[p])
    /\ Fault(note[p])
    /\ accepted' \in {accepted, [accepted EXCEPT ![note[p]] = @ + 1]}
    /\ step' = [step EXCEPT ![p] = "deferred"]
    /\ UNCHANGED <<event, due, seen, active, lockedBy, note>>

(* What the transaction makes of the row. *)
StatusAfter(s) ==
    CASE s = "suppress" -> "suppressed" [] s = "accepted" -> "published"
      [] s = "deferred" -> "pending"

Recorded(p) ==
    /\ event' = [event EXCEPT ![note[p]] = StatusAfter(step[p])]
    /\ due' = [due EXCEPT ![note[p]] = FALSE]

CommitEvent(p) ==
    /\ step[p] \in {"suppress", "accepted", "deferred"} /\ Holds(p)
    /\ Recorded(p)
    /\ Unpick(p)
    /\ UNCHANGED <<seen, active, accepted, faults>>

(* Mutant: the update is sent again on a fresh session, without the lock.  *)
CommitLostRepeated(p) ==
    /\ step[p] \in {"suppress", "accepted", "deferred"}
    /\ Recorded(p)
    /\ Unpick(p)
    /\ UNCHANGED <<seen, active, accepted, faults>>

(* The commit raises: it took effect, or it did not and the row is as it   *)
(* was.  The exception ends the batch.                                     *)
CommitLost(p) ==
    /\ step[p] \in {"suppress", "accepted", "deferred"} /\ Holds(p) /\ MayFault(note[p])
    /\ Fault(note[p])
    /\ Recorded(p) \/ UNCHANGED <<event, due>>
    /\ Unpick(p)
    /\ UNCHANGED <<seen, active, accepted>>

(* The session dies under the publisher: the row is free, and nothing the  *)
(* publisher still does can be committed.                                  *)
SessionLost(p) ==
    /\ step[p] # "idle" /\ Holds(p) /\ MayFault(note[p])
    /\ Fault(note[p])
    /\ lockedBy' = [lockedBy EXCEPT ![note[p]] = NoNote]
    /\ UNCHANGED <<event, due, seen, active, step, note, accepted>>

SessionError(p) ==
    /\ step[p] # "idle" /\ step[p] # "publish" /\ ~Holds(p)
    /\ Unpick(p)
    /\ UNCHANGED <<event, due, seen, active, accepted, faults>>

(* The task's process dies (soft_time_limit included). *)
CrashPublisher(p) ==
    /\ step[p] # "idle" /\ MayFault(note[p])
    /\ Fault(note[p])
    /\ Unpick(p)
    /\ UNCHANGED <<event, due, seen, active, accepted>>

-----------------------------------------------------------------------------
Publisher(p) ==
    \/ LookAgain(p) \/ PublishAccepted(p) \/ CommitEvent(p) \/ SessionError(p)

OutboxNext ==
    \/ Activation
    \/ \E n \in Notes : \/ CreateInApp(n) \/ SeeNote(n) \/ CascadeDelete(n) \/ ComesDue(n)
                        \/ \E p \in Publishers : Pick(p, n)
    \/ \E p \in Publishers : \/ Publisher(p)
                             \/ PublishUnheard(p) \/ PublishUncertain(p)
                             \/ CommitLost(p) \/ SessionLost(p) \/ CrashPublisher(p)

OutboxSpec == OutboxInit /\ [][OutboxNext]_outboxVars

(* The beat runs the task every five seconds, oldest next_attempt_at first, *)
(* so no due row is passed over for ever; a publisher that has a row ends, *)
(* for every step of it is bounded by a timeout; and backoffs run out.  A  *)
(* subscriber listens, and Redis answers, again and again.                 *)
OutboxFairness ==
    /\ \A n \in Notes : /\ WF_outboxVars(ComesDue(n))
                        /\ SF_outboxVars(\E p \in Publishers : Pick(p, n))
                        /\ SF_outboxVars(\E p \in Publishers :
                                            note[p] = n /\ PublishAccepted(p))
    /\ \A p \in Publishers : WF_outboxVars(Publisher(p))

-----------------------------------------------------------------------------
(* Types; and an idle publisher holds no row. *)
OutboxTypeOK ==
    /\ event \in [Notes -> {"none", "pending", "published", "suppressed", "gone"}]
    /\ due \in [Notes -> BOOLEAN] /\ seen \in [Notes -> BOOLEAN] /\ active \in BOOLEAN
    /\ lockedBy \in [Notes -> Publishers \cup {NoNote}]
    /\ step \in [Publishers -> {"idle", "picked", "suppress", "publish", "accepted", "deferred"}]
    /\ note \in [Publishers -> Notes \cup {NoNote}]
    /\ accepted \in [Notes -> Nat] /\ faults \in [Notes -> 0..MaxFaults]
    /\ \A p \in Publishers : (step[p] = "idle") <=> (note[p] = NoNote)
    /\ \A n \in Notes : ~Free(n) => note[lockedBy[n]] = n

(* Once, but for faults: a published event was taken by Redis while        *)
(* somebody subscribed, and overlapping beat tasks never double it; it     *)
(* reaches subscribers again only for a fault (an unanswered publish, a    *)
(* lost commit, session or process).                                       *)
OnceButForFaults ==
    \A n \in Notes : /\ event[n] = "published" => accepted[n] >= 1
                     /\ accepted[n] <= 1 + faults[n]

(* What a transaction decided of an event is final: no publisher that lost *)
(* its session, and no later run, takes it back.                           *)
DecidedOnce ==
    [][\A n \in Notes : event[n] \in {"published", "suppressed", "gone"} =>
           event'[n] \in {event[n], "gone"}]_outboxVars

(* No event is left in the outbox: through failed publications, lost       *)
(* sessions and dead publishers it is at last published or suppressed, or  *)
(* deleted.                                                                *)
EventsDrain == \A n \in Notes : (event[n] = "pending") ~> (event[n] # "pending")
=============================================================================
