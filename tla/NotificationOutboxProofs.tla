---------------------- MODULE NotificationOutboxProofs ----------------------
(***************************************************************************)
(* Proofs about NotificationOutbox for any number of notifications, any    *)
(* finite number of overlapping publishers and any number of faults.       *)
(***************************************************************************)
EXTENDS NotificationOutbox, FiniteSetTheorems, TLAPS

(* A locked event is undecided: only its holder can decide it. *)
LockedIsPending == \A n \in Notes : ~Free(n) => event[n] = "pending"

(* A publisher that was told so has been taken note of. *)
ToldIsAccepted == \A p \in Publishers : step[p] = "accepted" => accepted[note[p]] >= 1
PublishedIsAccepted == \A n \in Notes : event[n] = "published" => accepted[n] >= 1

(* The publishers that have an event and may publish it, or have just      *)
(* failed to; and the place of an undecided event that anybody may pick.   *)
AtRisk(n) == {p \in Publishers : note[p] = n /\ step[p] \in {"picked", "publish", "deferred"}}
Open(n) == IF event[n] \in {"none", "pending"} /\ Free(n) THEN 1 ELSE 0

(* Past and possible acceptances of an event are paid for by its faults,   *)
(* all but one.                                                            *)
PaidFor(n) == accepted[n] + Cardinality(AtRisk(n)) + Open(n) <= 1 + faults[n]

OutboxSafe == LockedIsPending /\ ToldIsAccepted /\ PublishedIsAccepted
OutboxInv == OutboxTypeOK /\ OutboxSafe /\ \A n \in Notes : PaidFor(n)

-----------------------------------------------------------------------------
(* Types and locks *)

(* Nothing is locked, accepted or published at the start. *)
LEMMA SafeInit == OutboxInit => OutboxTypeOK /\ OutboxSafe
  BY OutboxAssumption
     DEF OutboxInit, OutboxTypeOK, OutboxSafe, LockedIsPending, ToldIsAccepted,
         PublishedIsAccepted, Free

(* Requests do not touch an event that a publisher holds. *)
LEMMA SafeRequest ==
  ASSUME OutboxTypeOK, OutboxSafe,
         \/ Activation
         \/ \E n \in Notes : CreateInApp(n) \/ SeeNote(n) \/ CascadeDelete(n) \/ ComesDue(n)
  PROVE  OutboxTypeOK' /\ OutboxSafe'
  <1> USE OutboxAssumption
          DEF OutboxTypeOK, OutboxSafe, LockedIsPending, ToldIsAccepted, PublishedIsAccepted, Free
  <1>1. CASE Activation
    BY <1>1 DEF Activation
  <1>2. ASSUME NEW n \in Notes, CreateInApp(n) PROVE OutboxTypeOK' /\ OutboxSafe'
    BY <1>2 DEF CreateInApp
  <1>3. ASSUME NEW n \in Notes, SeeNote(n) PROVE OutboxTypeOK' /\ OutboxSafe'
    BY <1>3 DEF SeeNote
  <1>4. ASSUME NEW n \in Notes, CascadeDelete(n) PROVE OutboxTypeOK' /\ OutboxSafe'
    BY <1>4 DEF CascadeDelete
  <1>5. ASSUME NEW n \in Notes, ComesDue(n) PROVE OutboxTypeOK' /\ OutboxSafe'
    BY <1>5 DEF ComesDue
  <1> QED BY <1>1, <1>2, <1>3, <1>4, <1>5

(* A publisher on its way to Redis. *)
LEMMA SafePublish ==
  ASSUME OutboxTypeOK, OutboxSafe, NEW p \in Publishers,
         \/ \E n \in Notes : Pick(p, n)
         \/ LookAgain(p) \/ PublishAccepted(p) \/ PublishUnheard(p) \/ PublishUncertain(p)
  PROVE  OutboxTypeOK' /\ OutboxSafe'
  <1> USE OutboxAssumption
          DEF OutboxTypeOK, OutboxSafe, LockedIsPending, ToldIsAccepted, PublishedIsAccepted, Free
  <1>1. ASSUME NEW n \in Notes, Pick(p, n) PROVE OutboxTypeOK' /\ OutboxSafe'
    BY <1>1 DEF Pick, Selectable
  <1>2. CASE LookAgain(p)
    BY <1>2 DEF LookAgain, Holds
  <1>3. CASE PublishAccepted(p)
    BY <1>3 DEF PublishAccepted
  <1>4. CASE PublishUnheard(p)
    BY <1>4 DEF PublishUnheard
  <1>5. CASE PublishUncertain(p)
    BY <1>5 DEF PublishUncertain, MayFault, Fault
  <1> QED BY <1>1, <1>2, <1>3, <1>4, <1>5

(* The end of a transaction, with or without its effect. *)
LEMMA SafeEnd ==
  ASSUME OutboxTypeOK, OutboxSafe, NEW p \in Publishers,
         CommitEvent(p) \/ CommitLost(p) \/ SessionLost(p) \/ SessionError(p) \/ CrashPublisher(p)
  PROVE  OutboxTypeOK' /\ OutboxSafe'
  <1> USE OutboxAssumption
          DEF OutboxTypeOK, OutboxSafe, LockedIsPending, ToldIsAccepted, PublishedIsAccepted,
              Free, Holds, Unpick, Recorded, StatusAfter, MayFault, Fault
  <1>1. CASE CommitEvent(p)
    BY <1>1 DEF CommitEvent
  <1>2. CASE CommitLost(p)
    <2>1. CASE Recorded(p)
      BY <1>2, <2>1 DEF CommitLost
    <2>2. CASE UNCHANGED <<event, due>>
      BY <1>2, <2>2 DEF CommitLost
    <2> QED BY <1>2, <2>1, <2>2 DEF CommitLost
  <1>3. CASE SessionLost(p)
    BY <1>3 DEF SessionLost
  <1>4. CASE SessionError(p)
    BY <1>4 DEF SessionError
  <1>5. CASE CrashPublisher(p)
    BY <1>5 DEF CrashPublisher
  <1> QED BY <1>1, <1>2, <1>3, <1>4, <1>5

-----------------------------------------------------------------------------
(* Counting *)

(* The publishers at risk can be counted, before and after a step. *)
LEMMA RiskFinite ==
  ASSUME NEW n \in Notes
  PROVE  /\ IsFiniteSet(AtRisk(n)) /\ IsFiniteSet(AtRisk(n)')
         /\ Cardinality(AtRisk(n)) \in Nat /\ Cardinality(AtRisk(n)') \in Nat
  <1>1. AtRisk(n) \subseteq Publishers /\ AtRisk(n)' \subseteq Publishers
    BY DEF AtRisk
  <1>2. IsFiniteSet(AtRisk(n)) /\ IsFiniteSet(AtRisk(n)')
    BY <1>1, OutboxAssumption, FS_Subset
  <1> QED BY <1>2, FS_CardinalityType

(* What the other terms add, faults pay for. *)
LEMMA PaidKept ==
  ASSUME OutboxTypeOK, OutboxTypeOK', NEW n \in Notes, PaidFor(n), AtRisk(n)' \subseteq AtRisk(n),
         accepted'[n] + Open(n)' + faults[n] <= accepted[n] + Open(n) + faults'[n]
  PROVE  PaidFor(n)'
  <1>1. Cardinality(AtRisk(n)') <= Cardinality(AtRisk(n))
    BY RiskFinite, FS_Subset
  <1>2. /\ accepted[n] \in Nat /\ accepted'[n] \in Nat
        /\ faults[n] \in Nat /\ faults'[n] \in Nat
        /\ Open(n) \in Nat /\ Open(n)' \in Nat
    BY OutboxAssumption DEF OutboxTypeOK, Open
  <1> QED BY <1>1, <1>2, RiskFinite DEF PaidFor

(* A publisher that leaves the count makes room for one. *)
LEMMA PaidMoved ==
  ASSUME OutboxTypeOK, OutboxTypeOK', NEW n \in Notes, PaidFor(n), NEW p \in AtRisk(n),
         AtRisk(n)' = AtRisk(n) \ {p}, faults'[n] = faults[n],
         accepted'[n] + Open(n)' <= accepted[n] + Open(n) + 1
  PROVE  PaidFor(n)'
  <1>1. Cardinality(AtRisk(n) \ {p}) = Cardinality(AtRisk(n)) - 1
    <2>1. IsFiniteSet(AtRisk(n))
      BY RiskFinite
    <2> QED BY <2>1, FS_RemoveElement
  <1>2. /\ accepted[n] \in Nat /\ accepted'[n] \in Nat /\ faults[n] \in Nat
        /\ Open(n) \in Nat /\ Open(n)' \in Nat
    BY OutboxAssumption DEF OutboxTypeOK, Open
  <1> QED BY <1>1, <1>2, RiskFinite DEF PaidFor

(* Requests neither publish nor free a row. *)
LEMMA PaidRequest ==
  ASSUME OutboxInv, OutboxTypeOK', NEW m \in Notes,
         \/ Activation
         \/ \E n \in Notes : CreateInApp(n) \/ SeeNote(n) \/ CascadeDelete(n) \/ ComesDue(n)
  PROVE  PaidFor(m)'
  <1>1. UNCHANGED <<step, note, accepted, faults, lockedBy>>
    BY DEF Activation, CreateInApp, SeeNote, CascadeDelete, ComesDue
  <1>2. event'[m] \in {"none", "pending"} => event[m] \in {"none", "pending"}
    BY DEF OutboxInv, OutboxTypeOK, Activation, CreateInApp, SeeNote, CascadeDelete, ComesDue
  <1>3. AtRisk(m)' = AtRisk(m) /\ Open(m)' <= Open(m) /\ Open(m) \in Nat /\ Open(m)' \in Nat
    BY <1>1, <1>2 DEF AtRisk, Open, Free
  <1>4. accepted[m] \in Nat /\ faults[m] \in Nat /\ accepted'[m] = accepted[m] /\ faults'[m] = faults[m]
    BY <1>1, OutboxAssumption DEF OutboxInv, OutboxTypeOK
  <1>5. accepted'[m] + Open(m)' + faults[m] <= accepted[m] + Open(m) + faults'[m]
    BY <1>3, <1>4
  <1> QED BY <1>3, <1>5, PaidKept DEF OutboxInv

(* Picking a free event takes its place. *)
LEMMA PaidPick ==
  ASSUME OutboxInv, OutboxTypeOK', NEW m \in Notes, NEW p \in Publishers, NEW n \in Notes, Pick(p, n)
  PROVE  PaidFor(m)'
  <1> USE OutboxAssumption DEF OutboxInv, OutboxTypeOK
  <1>1. UNCHANGED <<event, accepted, faults>>
    BY DEF Pick
  <1>2. CASE m = n
    <2>1. Open(m) = 1 /\ Open(m)' = 0
      BY <1>2 DEF Pick, Selectable, Open, Free
    <2>2. AtRisk(m)' = AtRisk(m) \cup {p} /\ p \notin AtRisk(m)
      BY <1>2 DEF Pick, AtRisk
    <2>3. IsFiniteSet(AtRisk(m))
      BY RiskFinite
    <2>4. Cardinality(AtRisk(m) \cup {p}) = Cardinality(AtRisk(m)) + 1
      BY <2>2, <2>3, FS_AddElement
    <2>5. accepted[m] \in Nat /\ faults[m] \in Nat
      OBVIOUS
    <2> QED BY <1>1, <2>1, <2>2, <2>4, <2>5, RiskFinite DEF PaidFor
  <1>3. CASE m # n
    <2>1. Open(m)' = Open(m) /\ AtRisk(m)' = AtRisk(m)
      BY <1>3 DEF Pick, Open, Free, AtRisk
    <2> QED BY <1>1, <2>1 DEF PaidFor
  <1> QED BY <1>2, <1>3

(* A publisher's step concerns the event it has. *)
Step(p) ==
    \/ LookAgain(p) \/ PublishAccepted(p) \/ PublishUnheard(p) \/ PublishUncertain(p)
    \/ CommitEvent(p) \/ CommitLost(p) \/ SessionLost(p) \/ SessionError(p) \/ CrashPublisher(p)

(* A publisher that takes one of these steps has an event. *)
LEMMA OwnEvent ==
  ASSUME OutboxTypeOK, NEW p \in Publishers, Step(p)
  PROVE  note[p] \in Notes
  BY OutboxAssumption
     DEF OutboxTypeOK, Step, LookAgain, PublishAccepted, PublishUnheard, PublishUncertain,
         CommitEvent, CommitLost, SessionLost, SessionError, CrashPublisher

(* Its step leaves the accounts of every other event alone. *)
LEMMA PaidOther ==
  ASSUME OutboxInv, OutboxTypeOK', NEW p \in Publishers, Step(p), NEW m \in Notes, m # note[p]
  PROVE  PaidFor(m)'
  <1> USE OutboxAssumption DEF OutboxInv, OutboxTypeOK
  <1>1. note[p] \in Notes
    BY OwnEvent
  <1>2. /\ accepted'[m] = accepted[m] /\ faults'[m] = faults[m] /\ event'[m] = event[m]
        /\ lockedBy'[m] = lockedBy[m]
    <2>1. CASE LookAgain(p) \/ PublishAccepted(p) \/ PublishUnheard(p) \/ PublishUncertain(p)
      BY <1>1, <2>1 DEF LookAgain, PublishAccepted, PublishUnheard, PublishUncertain, Fault
    <2>2. CASE CommitEvent(p) \/ CommitLost(p)
      BY <1>1, <2>2 DEF CommitEvent, CommitLost, Fault, Recorded, Unpick, Free
    <2>3. CASE SessionLost(p) \/ SessionError(p) \/ CrashPublisher(p)
      BY <1>1, <2>3 DEF SessionLost, SessionError, CrashPublisher, Fault, Unpick, Free
    <2> QED BY <2>1, <2>2, <2>3 DEF Step
  <1>3. AtRisk(m)' = AtRisk(m)
    <2>1. \A q \in Publishers \ {p} : note'[q] = note[q] /\ step'[q] = step[q]
      BY DEF Step, LookAgain, PublishAccepted, PublishUnheard, PublishUncertain, CommitEvent,
             CommitLost, SessionLost, SessionError, CrashPublisher, Unpick
    <2>2. note'[p] \in {note[p], NoNote}
      BY DEF Step, LookAgain, PublishAccepted, PublishUnheard, PublishUncertain, CommitEvent,
             CommitLost, SessionLost, SessionError, CrashPublisher, Unpick
    <2> QED BY <2>1, <2>2 DEF AtRisk
  <1>4. Open(m)' = Open(m)
    BY <1>2 DEF Open, Free
  <1> QED BY <1>2, <1>3, <1>4 DEF PaidFor

(* The steps of a publisher up to Redis's answer. *)
LEMMA PaidPublish ==
  ASSUME OutboxInv, OutboxTypeOK', NEW p \in Publishers, NEW n \in Notes, n = note[p],
         LookAgain(p) \/ PublishAccepted(p) \/ PublishUnheard(p) \/ PublishUncertain(p)
  PROVE  PaidFor(n)'
  <1> USE OutboxAssumption DEF OutboxInv, OutboxTypeOK
  <1>1. UNCHANGED <<event, lockedBy, note>>
    BY DEF LookAgain, PublishAccepted, PublishUnheard, PublishUncertain
  <1>2. Open(n)' = Open(n) /\ Open(n) \in Nat
    BY <1>1 DEF Open, Free
  <1>3. accepted[n] \in Nat /\ faults[n] \in Nat
    OBVIOUS
  <1>4. CASE LookAgain(p) \/ PublishUnheard(p)
    <2>1. AtRisk(n)' \subseteq AtRisk(n) /\ UNCHANGED <<accepted, faults>>
      BY <1>4 DEF LookAgain, PublishUnheard, AtRisk
    <2> QED BY <2>1, <1>2, <1>3, PaidKept
  <1>5. CASE PublishAccepted(p)
    <2>1. p \in AtRisk(n) /\ AtRisk(n)' = AtRisk(n) \ {p}
      BY <1>5 DEF PublishAccepted, AtRisk
    <2>2. accepted'[n] = accepted[n] + 1 /\ faults'[n] = faults[n]
      BY <1>5 DEF PublishAccepted
    <2> QED BY <2>1, <2>2, <1>2, <1>3, PaidMoved
  <1>6. CASE PublishUncertain(p)
    <2>1. AtRisk(n)' \subseteq AtRisk(n)
      BY <1>6 DEF PublishUncertain, AtRisk
    <2>2. accepted'[n] \in {accepted[n], accepted[n] + 1} /\ faults'[n] = faults[n] + 1
      BY <1>6 DEF PublishUncertain, Fault
    <2> QED BY <2>1, <2>2, <1>2, <1>3, PaidKept
  <1> QED BY <1>4, <1>5, <1>6

(* The end of a transaction: a deferred event is free again in the place of *)
(* its publisher, and a fault pays for every other row that is free again. *)
LEMMA PaidEnd ==
  ASSUME OutboxInv, OutboxTypeOK', NEW p \in Publishers, NEW n \in Notes, n = note[p],
         CommitEvent(p) \/ CommitLost(p) \/ SessionLost(p) \/ SessionError(p) \/ CrashPublisher(p)
  PROVE  PaidFor(n)'
  <1> USE OutboxAssumption DEF OutboxInv, OutboxTypeOK
  <1>1. /\ accepted'[n] = accepted[n] /\ accepted[n] \in Nat /\ faults[n] \in Nat
        /\ Open(n) \in {0, 1} /\ Open(n)' \in {0, 1}
    BY DEF CommitEvent, CommitLost, SessionLost, SessionError, CrashPublisher, Open
  <1>2. AtRisk(n)' \subseteq AtRisk(n)
    BY DEF CommitEvent, CommitLost, SessionLost, SessionError, CrashPublisher, Unpick, AtRisk
  <1>3. CASE CommitLost(p) \/ SessionLost(p) \/ CrashPublisher(p)
    <2>1. faults'[n] = faults[n] + 1
      BY <1>3 DEF CommitLost, SessionLost, CrashPublisher, Fault
    <2> QED BY <1>1, <1>2, <2>1, PaidKept
  <1>4. CASE SessionError(p)
    <2>1. faults' = faults /\ event' = event /\ lockedBy'[n] = lockedBy[n]
      BY <1>4 DEF SessionError, Unpick, Holds
    <2>2. Open(n)' = Open(n)
      BY <2>1 DEF Open, Free
    <2> QED BY <1>1, <1>2, <2>1, <2>2, PaidKept
  <1>5. CASE CommitEvent(p) /\ step[p] = "deferred"
    <2>1. p \in AtRisk(n) /\ AtRisk(n)' = AtRisk(n) \ {p} /\ faults'[n] = faults[n]
      BY <1>5 DEF CommitEvent, Unpick, AtRisk
    <2> QED BY <1>1, <2>1, PaidMoved
  <1>6. CASE CommitEvent(p) /\ step[p] # "deferred"
    <2>1. event'[n] \in {"suppressed", "published"} /\ faults'[n] = faults[n]
      BY <1>6 DEF CommitEvent, Recorded, StatusAfter
    <2>2. Open(n)' = 0
      BY <2>1 DEF Open
    <2> QED BY <1>1, <1>2, <2>1, <2>2, PaidKept
  <1> QED BY <1>3, <1>4, <1>5, <1>6

(* At the start an event has its place and nothing else. *)
LEMMA PaidInit == OutboxInit => \A n \in Notes : PaidFor(n)
  <1> SUFFICES ASSUME OutboxInit, NEW n \in Notes PROVE PaidFor(n)
    OBVIOUS
  <1>1. AtRisk(n) = {}
    BY DEF OutboxInit, AtRisk
  <1>2. Cardinality(AtRisk(n)) = 0
    BY <1>1, FS_EmptySet
  <1>3. accepted[n] = 0 /\ faults[n] = 0 /\ Open(n) \in {0, 1}
    BY DEF OutboxInit, Open
  <1> QED BY <1>2, <1>3 DEF PaidFor

-----------------------------------------------------------------------------
(* The inductive invariant of publish_pending_notifications: a locked event *)
(* is undecided, and every acceptance beyond the first is paid for.        *)
THEOREM OutboxInvariant == OutboxSpec => []OutboxInv
  <1>1. OutboxInit => OutboxInv
    BY SafeInit, PaidInit DEF OutboxInv
  <1>2. OutboxInv /\ [OutboxNext]_outboxVars => OutboxInv'
    <2> SUFFICES ASSUME OutboxInv, [OutboxNext]_outboxVars PROVE OutboxInv'
      OBVIOUS
    <2>1. CASE \/ Activation
               \/ \E n \in Notes : CreateInApp(n) \/ SeeNote(n) \/ CascadeDelete(n) \/ ComesDue(n)
      <3>1. OutboxTypeOK' /\ OutboxSafe'
        BY <2>1, SafeRequest DEF OutboxInv
      <3>2. \A m \in Notes : PaidFor(m)'
        BY <2>1, <3>1, PaidRequest
      <3> QED BY <3>1, <3>2 DEF OutboxInv
    <2>2. ASSUME NEW p \in Publishers, NEW n \in Notes, Pick(p, n) PROVE OutboxInv'
      <3>1. OutboxTypeOK' /\ OutboxSafe'
        BY <2>2, SafePublish DEF OutboxInv
      <3>2. \A m \in Notes : PaidFor(m)'
        BY <2>2, <3>1, PaidPick
      <3> QED BY <3>1, <3>2 DEF OutboxInv
    <2>3. ASSUME NEW p \in Publishers, Step(p) PROVE OutboxInv'
      <3>1. OutboxTypeOK' /\ OutboxSafe'
        BY <2>3, SafePublish, SafeEnd DEF OutboxInv, Step
      <3>2. ASSUME NEW m \in Notes PROVE PaidFor(m)'
        <4>1. CASE m = note[p]
          BY <2>3, <3>1, <4>1, PaidPublish, PaidEnd DEF Step
        <4>2. CASE m # note[p]
          BY <2>3, <3>1, <4>2, PaidOther
        <4> QED BY <4>1, <4>2
      <3> QED BY <3>1, <3>2 DEF OutboxInv
    <2>4. CASE UNCHANGED outboxVars
      BY <2>4 DEF outboxVars, OutboxInv, OutboxTypeOK, OutboxSafe, LockedIsPending, ToldIsAccepted,
                  PublishedIsAccepted, PaidFor, AtRisk, Open, Free
    <2> QED BY <2>1, <2>2, <2>3, <2>4 DEF OutboxNext, Publisher, Step
  <1> QED BY <1>1, <1>2, PTL DEF OutboxSpec

(* Types, and a row lock is held by a publisher that is at that event. *)
THEOREM OutboxTypeCorrect == OutboxSpec => []OutboxTypeOK
  BY OutboxInvariant, PTL DEF OutboxInv

(* A published event was taken by Redis, and any number of overlapping beat *)
(* tasks double an event only for a fault.                                 *)
THEOREM PublishedOnceButForFaults == OutboxSpec => []OnceButForFaults
  <1>1. OutboxInv => OnceButForFaults
    <2> SUFFICES ASSUME OutboxInv, NEW n \in Notes PROVE accepted[n] <= 1 + faults[n]
      BY DEF OutboxInv, OutboxSafe, PublishedIsAccepted, OnceButForFaults
    <2>1. accepted[n] \in Nat /\ faults[n] \in Nat /\ Open(n) \in Nat
      BY OutboxAssumption DEF OutboxInv, OutboxTypeOK, Open
    <2> QED BY <2>1, RiskFinite DEF OutboxInv, PaidFor
  <1> QED BY <1>1, OutboxInvariant, PTL

(* No publisher, not even one that lost its session, takes back what a     *)
(* transaction decided of an event.                                        *)
THEOREM DecisionsStand == OutboxSpec => DecidedOnce
  <1>1. OutboxInv /\ [OutboxNext]_outboxVars =>
          [\A n \in Notes : event[n] \in {"published", "suppressed", "gone"} =>
              event'[n] \in {event[n], "gone"}]_outboxVars
    <2> SUFFICES ASSUME OutboxInv, OutboxNext, NEW n \in Notes,
                        event[n] \in {"published", "suppressed", "gone"}
                 PROVE  event'[n] \in {event[n], "gone"}
      BY DEF outboxVars
    <2> USE OutboxAssumption DEF OutboxInv, OutboxTypeOK, OutboxSafe, LockedIsPending, Free
    <2>1. CASE \/ Activation
               \/ \E m \in Notes : CreateInApp(m) \/ SeeNote(m) \/ CascadeDelete(m) \/ ComesDue(m)
      BY <2>1 DEF Activation, CreateInApp, SeeNote, CascadeDelete, ComesDue
    <2>2. CASE \E p \in Publishers, m \in Notes : Pick(p, m)
      BY <2>2 DEF Pick
    <2>3. ASSUME NEW p \in Publishers,
                 \/ LookAgain(p) \/ PublishAccepted(p) \/ PublishUnheard(p) \/ PublishUncertain(p)
                 \/ SessionLost(p) \/ SessionError(p) \/ CrashPublisher(p)
          PROVE  event' = event
      BY <2>3 DEF LookAgain, PublishAccepted, PublishUnheard, PublishUncertain, SessionLost,
                  SessionError, CrashPublisher
    <2>4. ASSUME NEW p \in Publishers, CommitEvent(p) \/ CommitLost(p) PROVE event'[n] = event[n]
      <3>1. note[p] \in Notes /\ event[note[p]] = "pending"
        BY <2>4 DEF CommitEvent, CommitLost, Holds
      <3> QED BY <2>4, <3>1 DEF CommitEvent, CommitLost, Recorded
    <2> QED BY <2>1, <2>2, <2>3, <2>4 DEF OutboxNext, Publisher
  <1> QED BY <1>1, OutboxInvariant, PTL DEF OutboxSpec, DecidedOnce
=============================================================================
