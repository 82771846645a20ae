------------------------ MODULE AdapterStagingProofs ------------------------
(***************************************************************************)
(* Proofs about AdapterStaging for any number of changes, requests and     *)
(* organisations.                                                          *)
(***************************************************************************)
EXTENDS AdapterStaging, FiniteSetTheorems, TLAPS

(* Type correctness needs to know that a request under way holds a change.  *)
TypeInv == TypeOK /\ HoldsChange

(* The initial state of the pipeline is well typed. *)
LEMMA TypeInvInit == Init => TypeInv
  BY StagingAssumption
  DEF Init, TypeInv, TypeOK, HoldsChange, Status, Wire, StagePC, ApplyPC, Events

(* The steps of stage_change keep the types. *)
LEMMA TypeInvStage ==
  ASSUME TypeInv, NEW s \in Stagers, StageNext(s)
  PROVE  TypeInv'
  <1> USE StagingAssumption
          DEF TypeInv, TypeOK, HoldsChange, Status, Wire, StagePC, ApplyPC, Events,
              applyVars, deviceVars
  <1>1. ASSUME NEW c \in Changes, StageOpen(s, c) PROVE TypeInv'
    BY <1>1 DEF StageOpen, Unrecorded
  <1>2. CASE StageCount(s)
    BY <1>2 DEF StageCount, Recovered, Touch
  <1>3. CASE StageRefuse(s)
    BY <1>3 DEF StageRefuse, Recovered, Touch, Prune, StageDone
  <1>4. CASE StageInsert(s)
    BY <1>4 DEF StageInsert, Touch
  <1>5. CASE StageReturn(s)
    BY <1>5 DEF StageReturn, StageDone
  <1>6. CASE StageRaises(s)
    BY <1>6 DEF StageRaises, Prune, StageDone
  <1>7. CASE StageCrash(s)
    BY <1>7 DEF StageCrash, StageDone
  <1> QED BY <1>1, <1>2, <1>3, <1>4, <1>5, <1>6, <1>7 DEF StageNext

(* The steps of apply_change keep the types. *)
LEMMA TypeInvApply ==
  ASSUME TypeInv, NEW w \in Workers, ApplyNext(w)
  PROVE  TypeInv'
  <1> USE StagingAssumption
          DEF TypeInv, TypeOK, HoldsChange, Status, Wire, StagePC, ApplyPC, Events,
              stageVars, deviceVars
  <1>1. ASSUME NEW c \in Changes, BeginApply(w, c) PROVE TypeInv'
    BY <1>1 DEF BeginApply
  <1>2. ASSUME NEW confirmed \in BOOLEAN, Claim(w, confirmed) PROVE TypeInv'
    BY <1>2 DEF Claim, Touch
  <1>3. ASSUME NEW confirmed \in BOOLEAN, RefuseClaim(w, confirmed) PROVE TypeInv'
    BY <1>3 DEF RefuseClaim, ApplyDone
  <1>4. CASE ApplierRefuses(w)
    BY <1>4 DEF ApplierRefuses, ApplyGoto
  <1>5. CASE Send(w)
    BY <1>5 DEF Send, ApplyGoto
  <1>6. CASE Reply(w)
    BY <1>6 DEF Reply, ApplyGoto, Prune
  <1>7. CASE NoReply(w)
    BY <1>7 DEF NoReply, ApplyGoto
  <1>8. CASE RecordApplied(w)
    BY <1>8 DEF RecordApplied, ApplyGoto, Touch
  <1>9. CASE RecordAppliedRaises(w)
    BY <1>9 DEF RecordAppliedRaises, ApplyGoto, Touch
  <1>10. CASE SecondCommit(w)
    BY <1>10 DEF SecondCommit, ApplyDone, Touch
  <1>11. CASE RecordFailure(w)
    BY <1>11 DEF RecordFailure, ApplyGoto, Prune, Touch
  <1>12. CASE RecordFailureRaises(w)
    BY <1>12 DEF RecordFailureRaises, ApplyDone, Prune
  <1>13. CASE Announce(w)
    BY <1>13 DEF Announce, ApplyDone
  <1>14. CASE ApplyCrash(w)
    BY <1>14 DEF ApplyCrash, ApplyDone
  <1> QED
    BY <1>1, <1>2, <1>3, <1>4, <1>5, <1>6, <1>7, <1>8, <1>9, <1>10, <1>11, <1>12, <1>13,
       <1>14 DEF ApplyNext

(* Discards, the recovery, the clock, the device and the read-only switch   *)
(* keep the types.                                                          *)
LEMMA TypeInvEnv ==
  ASSUME TypeInv, EnvNext
  PROVE  TypeInv'
  <1> USE StagingAssumption
          DEF TypeInv, TypeOK, HoldsChange, Status, Wire, StagePC, ApplyPC, Events,
              stageVars, applyVars, deviceVars
  <1>1. ASSUME NEW c \in Changes, NEW force \in BOOLEAN, Discard(c, force) PROVE TypeInv'
    BY <1>1 DEF Discard, Prune, Touch
  <1>2. ASSUME NEW c \in Changes, NEW force \in BOOLEAN, DiscardRaises(c, force)
        PROVE TypeInv'
    BY <1>2 DEF DiscardRaises, Prune
  <1>3. ASSUME NEW org \in Orgs, RecoverStaleApplying(org) PROVE TypeInv'
    BY <1>3 DEF RecoverStaleApplying, Recovered, Touch
  <1>4. ASSUME NEW c \in Changes, Age(c) PROVE TypeInv'
    BY <1>4 DEF Age
  <1>5. ASSUME NEW c \in Changes, DeviceAnswers(c) PROVE TypeInv'
    BY <1>5 DEF DeviceAnswers
  <1>6. CASE ReapStuck
    BY <1>6 DEF ReapStuck, Recovered, Touch
  <1>7. CASE SetReadOnly
    BY <1>7 DEF SetReadOnly
  <1> QED BY <1>1, <1>2, <1>3, <1>4, <1>5, <1>6, <1>7 DEF EnvNext

(* Every step of the pipeline keeps the types. *)
LEMMA TypeInvStep == TypeInv /\ [Next]_vars => TypeInv'
  <1> SUFFICES ASSUME TypeInv, [Next]_vars PROVE TypeInv'
    OBVIOUS
  <1>1. CASE Next
    BY <1>1, TypeInvStage, TypeInvApply, TypeInvEnv DEF Next
  <1>2. CASE UNCHANGED vars
    BY <1>2 DEF vars, TypeInv, TypeOK, HoldsChange
  <1> QED BY <1>1, <1>2

(* Every status, request state and artifact flag of the pipeline stays in   *)
(* its domain, for any number of changes and concurrent requests.           *)
THEOREM TypeCorrect == Spec => []TypeOK
  <1>1. TypeInv => TypeOK
    BY DEF TypeInv
  <1> QED BY <1>1, TypeInvInit, TypeInvStep, PTL DEF Spec
-----------------------------------------------------------------------------
(* The safety invariant *)

SafeInv ==
    /\ Exclusive /\ ClaimedRow /\ KnownOutcome /\ Untouched /\ DroppedRow
    /\ AtMostOnce /\ AppliedMeansTaken /\ FailedMeansUnchanged /\ AppliedEventIsTrue

(* Nothing was claimed, written, dropped or told initially. *)
LEMMA SafeInvInit == Init => SafeInv
  BY StagingAssumption
     DEF Init, SafeInv, Exclusive, ClaimedRow, KnownOutcome, Untouched, DroppedRow,
         AtMostOnce, AppliedMeansTaken, FailedMeansUnchanged, AppliedEventIsTrue, Live,
         Unsettled

(* The steps of stage_change keep it. *)
LEMMA SafeInvStage ==
  ASSUME TypeInv, SafeInv, NEW s \in Stagers, StageNext(s)
  PROVE  SafeInv'
  <1> USE StagingAssumption
          DEF TypeInv, TypeOK, HoldsChange, Status, Wire, Events, StagePC, ApplyPC, SafeInv,
              Exclusive, ClaimedRow, KnownOutcome, Untouched, DroppedRow, AtMostOnce,
              AppliedMeansTaken, FailedMeansUnchanged, AppliedEventIsTrue, Live, Unsettled,
              applyVars, deviceVars
  <1>1. ASSUME NEW c \in Changes, StageOpen(s, c) PROVE SafeInv'
    BY <1>1 DEF StageOpen, Unrecorded
  <1>2. CASE StageCount(s)
    BY <1>2 DEF StageCount, Recovered, StaleRows
  <1>3. CASE StageRefuse(s)
    BY <1>3 DEF StageRefuse, Recovered, StaleRows, StageDone
  <1>4. CASE StageInsert(s)
    BY <1>4 DEF StageInsert
  <1>5. CASE StageReturn(s)
    BY <1>5 DEF StageReturn, StageDone
  <1>6. CASE StageRaises(s)
    BY <1>6 DEF StageRaises, StageDone
  <1>7. CASE StageCrash(s)
    BY <1>7 DEF StageCrash, StageDone
  <1> HIDE DEF SafeInv
  <1> QED
    BY <1>1, <1>2, <1>3, <1>4, <1>5, <1>6, <1>7 DEF StageNext

(* The steps of apply_change keep it. *)
LEMMA SafeInvApply ==
  ASSUME TypeInv, SafeInv, NEW w \in Workers, ApplyNext(w)
  PROVE  SafeInv'
  <1> USE StagingAssumption
          DEF TypeInv, TypeOK, HoldsChange, Status, Wire, Events, StagePC, ApplyPC, SafeInv,
              Exclusive, ClaimedRow, KnownOutcome, Untouched, DroppedRow, AtMostOnce,
              AppliedMeansTaken, FailedMeansUnchanged, AppliedEventIsTrue, Live, Unsettled,
              stageVars, deviceVars
  <1>1. ASSUME NEW c \in Changes, BeginApply(w, c) PROVE SafeInv'
    BY <1>1 DEF BeginApply
  <1>2. ASSUME NEW confirmed \in BOOLEAN, Claim(w, confirmed) PROVE SafeInv'
    BY <1>2 DEF Claim
  <1>3. ASSUME NEW confirmed \in BOOLEAN, RefuseClaim(w, confirmed) PROVE SafeInv'
    BY <1>3 DEF RefuseClaim, ApplyDone
  <1>4. CASE ApplierRefuses(w)
    BY <1>4 DEF ApplierRefuses, ApplyGoto
  <1>5. CASE Send(w)
    BY <1>5 DEF Send, ApplyGoto
  <1>6. CASE Reply(w)
    BY <1>6 DEF Reply, ApplyGoto
  <1>7. CASE NoReply(w)
    BY <1>7 DEF NoReply, ApplyGoto
  <1>8. CASE RecordApplied(w)
    BY <1>8 DEF RecordApplied, ApplyGoto
  <1>9. CASE RecordAppliedRaises(w)
    BY <1>9 DEF RecordAppliedRaises, ApplyGoto
  <1>10. CASE SecondCommit(w)
    BY <1>10 DEF SecondCommit, ApplyDone
  <1>11. CASE RecordFailure(w)
    BY <1>11 DEF RecordFailure, ApplyGoto
  <1>12. CASE RecordFailureRaises(w)
    BY <1>12 DEF RecordFailureRaises, ApplyDone
  <1>13. CASE Announce(w)
    BY <1>13 DEF Announce, ApplyDone
  <1>14. CASE ApplyCrash(w)
    BY <1>14 DEF ApplyCrash, ApplyDone
  <1> HIDE DEF SafeInv
  <1> QED
    BY <1>1, <1>2, <1>3, <1>4, <1>5, <1>6, <1>7, <1>8, <1>9, <1>10, <1>11, <1>12, <1>13,
       <1>14 DEF ApplyNext

(* So do discards, recovery, the clock, the device and the switch. *)
LEMMA SafeInvEnv ==
  ASSUME TypeInv, SafeInv, EnvNext
  PROVE  SafeInv'
  <1> USE StagingAssumption
          DEF TypeInv, TypeOK, HoldsChange, Status, Wire, Events, StagePC, ApplyPC, SafeInv,
              Exclusive, ClaimedRow, KnownOutcome, Untouched, DroppedRow, AtMostOnce,
              AppliedMeansTaken, FailedMeansUnchanged, AppliedEventIsTrue, Live, Unsettled,
              stageVars, applyVars, deviceVars
  <1>1. ASSUME NEW c \in Changes, NEW force \in BOOLEAN, Discard(c, force) PROVE SafeInv'
    BY <1>1 DEF Discard, Discardable
  <1>2. ASSUME NEW c \in Changes, NEW force \in BOOLEAN, DiscardRaises(c, force) PROVE SafeInv'
    BY <1>2 DEF DiscardRaises
  <1>3. ASSUME NEW org \in Orgs, RecoverStaleApplying(org) PROVE SafeInv'
    BY <1>3 DEF RecoverStaleApplying, Recovered, StaleRows
  <1>4. ASSUME NEW c \in Changes, Age(c) PROVE SafeInv'
    BY <1>4 DEF Age
  <1>5. ASSUME NEW c \in Changes, DeviceAnswers(c) PROVE SafeInv'
    BY <1>5 DEF DeviceAnswers
  <1>6. CASE ReapStuck
    BY <1>6 DEF ReapStuck, Recovered, StaleRows
  <1>7. CASE SetReadOnly
    BY <1>7 DEF SetReadOnly
  <1> HIDE DEF SafeInv
  <1> QED
    BY <1>1, <1>2, <1>3, <1>4, <1>5, <1>6, <1>7 DEF EnvNext

(* Every step keeps the safety invariant. *)
LEMMA SafeInvStep == TypeInv /\ SafeInv /\ [Next]_vars => SafeInv'
  <1> SUFFICES ASSUME TypeInv, SafeInv, [Next]_vars PROVE SafeInv'
    OBVIOUS
  <1>1. CASE Next
    BY <1>1, SafeInvStage, SafeInvApply, SafeInvEnv DEF Next
  <1>2. CASE UNCHANGED vars
    BY <1>2 DEF vars, SafeInv, Exclusive, ClaimedRow, KnownOutcome, Untouched, DroppedRow,
                AtMostOnce, AppliedMeansTaken, FailedMeansUnchanged, AppliedEventIsTrue, Live
  <1> QED BY <1>1, <1>2

(* The whole invariant: one live request per change, a row that agrees with *)
(* where that request is, a device nobody else has written to; and with it  *)
(* that applied is true of every change and failed of every Proxmox change. *)
THEOREM StagingInvariant == Spec => []StagingInv
  <1>1. Init => TypeInv /\ SafeInv
    BY TypeInvInit, SafeInvInit
  <1>2. TypeInv /\ SafeInv /\ [Next]_vars => TypeInv' /\ SafeInv'
    BY TypeInvStep, SafeInvStep
  <1>3. TypeInv /\ SafeInv => StagingInv
    BY DEF TypeInv, SafeInv, StagingInv
  <1> QED BY <1>1, <1>2, <1>3, PTL DEF Spec

(* The write of a staged change reaches the device at most once, in every   *)
(* interleaving of apply requests, crashes, the janitor and discards.       *)
THEOREM WrittenAtMostOnce == Spec => []AtMostOnce
  <1>1. StagingInv => AtMostOnce
    BY DEF StagingInv
  <1> QED BY <1>1, StagingInvariant, PTL

(* A change discarded from the queue is never written to the device, and a  *)
(* change whose write was sent is never in the queue.                       *)
THEOREM DroppedStaysDropped == Spec => [](DropIsFinal /\ SentNeverQueued)
  <1>1. StagingInv => DropIsFinal /\ SentNeverQueued
    BY DEF StagingInv, DroppedRow, Untouched, DropIsFinal, SentNeverQueued
  <1> QED BY <1>1, StagingInvariant, PTL

(* The recorded outcome is true of the device: applied only of a write it   *)
(* took and, for the Proxmox changes, whose client reports every unanswered *)
(* write as unknown, failed only of one it did not take.                    *)
THEOREM RecordedOutcomeIsTrue == Spec => []OutcomeIsTrue
  <1>1. StagingInv => OutcomeIsTrue
    BY DEF StagingInv, OutcomeIsTrue
  <1> QED BY <1>1, StagingInvariant, PTL

(* Subscribers are told applied only of a row that says applied, through    *)
(* lost commits and late workers.                                           *)
THEOREM AppliedEventsAreTrue == Spec => []AppliedEventIsTrue
  <1>1. StagingInv => AppliedEventIsTrue
    BY DEF StagingInv
  <1> QED BY <1>1, StagingInvariant, PTL

-----------------------------------------------------------------------------
(* Action properties *)

(* No step of stage_change moves a row backwards. *)
LEMMA MoveStage ==
  ASSUME TypeInv, SafeInv, NEW s \in Stagers, StageNext(s), NEW c \in Changes,
         row'[c] # row[c]
  PROVE  StatusMove(c)
  BY DEF TypeInv, TypeOK, HoldsChange, DroppedRow, SafeInv, StatusMove, LateOutcome, StageNext,
         StageOpen, Unrecorded, StageCount, StageRefuse, StageInsert, StageReturn, StageRaises, StageCrash,
         Recovered, StaleRows

(* A request records its outcome over nothing but an open row or a mark set *)
(* while it was under way.                                                  *)
LEMMA MoveApply ==
  ASSUME TypeInv, SafeInv, NEW w \in Workers, ApplyNext(w), NEW c \in Changes,
         row'[c] # row[c]
  PROVE  StatusMove(c)
  BY DEF TypeInv, TypeOK, HoldsChange, SafeInv, ClaimedRow, Live, Unsettled, StatusMove,
         LateOutcome, ApplyNext, BeginApply, Claim, RefuseClaim, ApplierRefuses, Send, Reply,
         NoReply, RecordApplied, RecordAppliedRaises, SecondCommit, RecordFailure,
         RecordFailureRaises, Announce, ApplyCrash

(* Discards and the recovery only close or mark what is open. *)
LEMMA MoveEnv ==
  ASSUME TypeInv, SafeInv, EnvNext, NEW c \in Changes, row'[c] # row[c]
  PROVE  StatusMove(c)
  BY DEF TypeInv, TypeOK, SafeInv, DroppedRow, StatusMove, LateOutcome, EnvNext, Discard,
         Discardable, DiscardRaises, RecoverStaleApplying, ReapStuck, Recovered, StaleRows,
         Age, DeviceAnswers, SetReadOnly

(* The status column only moves forward: nothing returns to the queue and a *)
(* recorded outcome is never replaced by a different one.                   *)
THEOREM StatusMovesForward == Spec => StatusMoves
  <1>1. Init => TypeInv /\ SafeInv
    BY TypeInvInit, SafeInvInit
  <1>2. TypeInv /\ SafeInv /\ [Next]_vars => TypeInv' /\ SafeInv'
    BY TypeInvStep, SafeInvStep
  <1>3. TypeInv /\ SafeInv /\ [Next]_vars
          => [\A c \in Changes : row'[c] # row[c] => StatusMove(c)]_row
    BY MoveStage, MoveApply, MoveEnv DEF Next, vars
  <1> QED BY <1>1, <1>2, <1>3, PTL DEF Spec, StatusMoves

-----------------------------------------------------------------------------
(* The pipeline implements StagedIntent *)

AbstractStep == [Intent!Next]_<<phaseBar, writes>>

(* Staging a change queues an intent; nothing else about it shows. *)
LEMMA RefineStage ==
  ASSUME TypeInv, SafeInv, NEW s \in Stagers, StageNext(s)
  PROVE  AbstractStep
  <1> USE DEF TypeInv, TypeOK, HoldsChange, SafeInv, DroppedRow, AbstractStep, phaseBar,
              deviceVars
  <1>1. CASE StageInsert(s)
    <2>1. PICK c \in Changes : c = sch[s]
      BY <1>1 DEF StageInsert
    <2>2. Intent!Queue(c)
      BY <1>1, <2>1 DEF StageInsert, Intent!Queue, Intent!Move
    <2> QED BY <2>2 DEF Intent!Next
  <1>2. CASE ~StageInsert(s)
    BY <1>2 DEF StageNext, StageOpen, Unrecorded, StageCount, StageRefuse, StageReturn, StageRaises,
                StageCrash, Recovered, StaleRows
  <1> QED BY <1>1, <1>2

(* A claim releases the intent, Send transmits it; no other step shows. *)
LEMMA RefineApply ==
  ASSUME TypeInv, SafeInv, NEW w \in Workers, ApplyNext(w)
  PROVE  AbstractStep
  <1> USE DEF TypeInv, TypeOK, HoldsChange, SafeInv, ClaimedRow, Live, Unsettled, DroppedRow,
              KnownOutcome, AbstractStep, phaseBar, deviceVars
  <1>1. ASSUME NEW confirmed \in BOOLEAN, Claim(w, confirmed) PROVE AbstractStep
    <2>1. PICK c \in Changes : c = wch[w]
      BY <1>1 DEF Claim
    <2>2. Intent!Release(c)
      BY <1>1, <2>1 DEF Claim, Intent!Release, Intent!Move
    <2> QED BY <2>2 DEF Intent!Next
  <1>2. CASE Send(w)
    <2>1. PICK c \in Changes : c = wch[w]
      BY <1>2 DEF Send
    <2>2. Intent!Transmit(c)
      <3>1. writes[c] = 0 /\ phaseBar[c] = "released"
        BY <1>2, <2>1 DEF Send
      <3>2. writes' = [writes EXCEPT ![c] = 1]
        BY <1>2, <2>1, <3>1 DEF Send
      <3>3. UNCHANGED phaseBar
        BY <1>2 DEF Send
      <3> QED BY <3>1, <3>2, <3>3 DEF Intent!Transmit
    <2> QED BY <2>2 DEF Intent!Next
  <1>3. CASE ~Send(w) /\ \A confirmed \in BOOLEAN : ~Claim(w, confirmed)
    BY <1>3 DEF ApplyNext, BeginApply, RefuseClaim, ApplierRefuses, Reply, NoReply,
                RecordApplied, RecordAppliedRaises, SecondCommit, RecordFailure,
                RecordFailureRaises, Announce, ApplyCrash
  <1> QED BY <1>1, <1>2, <1>3

(* A discard drops a queued intent; a forced one does not show. *)
LEMMA RefineEnv ==
  ASSUME TypeInv, SafeInv, EnvNext
  PROVE  AbstractStep
  <1> USE DEF TypeInv, TypeOK, SafeInv, DroppedRow, AbstractStep, phaseBar, deviceVars
  <1>1. ASSUME NEW c \in Changes, NEW force \in BOOLEAN, Discard(c, force)
        PROVE  AbstractStep
    <2>1. CASE row[c] = "pending"
      <3>1. Intent!Drop(c)
        BY <1>1, <2>1 DEF Discard, Intent!Drop, Intent!Move
      <3> QED BY <3>1 DEF Intent!Next
    <2>2. CASE row[c] # "pending"
      BY <1>1, <2>2 DEF Discard, Discardable
    <2> QED BY <2>1, <2>2
  <1>2. CASE \A c \in Changes, force \in BOOLEAN : ~Discard(c, force)
    BY <1>2 DEF EnvNext, DiscardRaises, RecoverStaleApplying, ReapStuck, Recovered, StaleRows,
                Age, DeviceAnswers, SetReadOnly
  <1> QED BY <1>1, <1>2

(* stage_change, discard and apply_change together keep the promise of      *)
(* StagedIntent: an intent is queued once, dropped or released once, and    *)
(* transmitted once, after its release.                                     *)
THEOREM Refinement == Spec => ImplementsIntent
  <1>1. Init => Intent!Init
    BY DEF Init, Intent!Init, phaseBar
  <1>2. Init => TypeInv /\ SafeInv
    BY TypeInvInit, SafeInvInit
  <1>3. TypeInv /\ SafeInv /\ [Next]_vars => TypeInv' /\ SafeInv'
    BY TypeInvStep, SafeInvStep
  <1>4. TypeInv /\ SafeInv /\ [Next]_vars => AbstractStep
    <2> SUFFICES ASSUME TypeInv, SafeInv, [Next]_vars PROVE AbstractStep
      OBVIOUS
    <2>1. CASE Next
      BY <2>1, RefineStage, RefineApply, RefineEnv DEF Next
    <2>2. CASE UNCHANGED vars
      BY <2>2 DEF vars, AbstractStep, phaseBar
    <2> QED BY <2>1, <2>2
  <1> QED BY <1>1, <1>2, <1>3, <1>4, PTL DEF Spec, ImplementsIntent, Intent!Spec, AbstractStep

-----------------------------------------------------------------------------
(* The backlog cap *)

(* The sets counted are finite, before and after a step. *)
LEMMA BacklogFinite ==
  ASSUME NEW org \in Orgs
  PROVE  /\ IsFiniteSet(PendingOf(org)) /\ IsFiniteSet(PendingOf(org)')
         /\ IsFiniteSet(Counted(org)) /\ IsFiniteSet(Counted(org)')
         /\ Cardinality(PendingOf(org)) \in Nat /\ Cardinality(PendingOf(org)') \in Nat
         /\ Cardinality(Counted(org)) \in Nat /\ Cardinality(Counted(org)') \in Nat
         /\ Cardinality(Counted(org)') <= Cardinality(Stagers)
         /\ Cardinality(Stagers) \in Nat \ {0}
  <1> USE StagingAssumption
  <1>1. /\ PendingOf(org) \in SUBSET Changes /\ PendingOf(org)' \in SUBSET Changes
        /\ Counted(org) \in SUBSET Stagers /\ Counted(org)' \in SUBSET Stagers
    BY DEF PendingOf, Counted
  <1>2. /\ IsFiniteSet(PendingOf(org)) /\ IsFiniteSet(PendingOf(org)')
        /\ IsFiniteSet(Counted(org)) /\ IsFiniteSet(Counted(org)')
        /\ Cardinality(Counted(org)') <= Cardinality(Stagers)
    BY <1>1, FS_Subset
  <1>3. Cardinality(Stagers) \in Nat \ {0}
    BY FS_CardinalityType, FS_EmptySet
  <1> QED BY <1>2, <1>3, FS_CardinalityType

QuotaOf(org) == Cardinality(PendingOf(org)) + Cardinality(Counted(org))
                  <= MaxPending + Cardinality(Stagers) - 1

(* A step that adds neither a pending row nor a counted request is safe. *)
LEMMA QuotaShrinks ==
  ASSUME NEW org \in Orgs, QuotaOf(org), PendingOf(org)' \subseteq PendingOf(org),
         Counted(org)' \subseteq Counted(org)
  PROVE  QuotaOf(org)'
  <1>1. /\ Cardinality(PendingOf(org)') <= Cardinality(PendingOf(org))
        /\ Cardinality(Counted(org)') <= Cardinality(Counted(org))
    BY BacklogFinite, FS_Subset
  <1> QED BY <1>1, BacklogFinite, StagingAssumption DEF QuotaOf

(* The count leaves room for every other request still to insert; an INSERT *)
(* only turns a promise into a row.                                         *)
LEMMA QuotaStage ==
  ASSUME TypeInv, NEW org \in Orgs, QuotaOf(org), NEW s \in Stagers, StageNext(s)
  PROVE  QuotaOf(org)'
  <1> USE DEF TypeInv, TypeOK, HoldsChange
  <1>1. CASE StageCount(s) /\ OrgOf[sch[s]] = org
    <2>1. PendingOf(org)' = PendingOf(org)
      BY <1>1 DEF StageCount, PendingOf, Recovered, StaleRows
    <2>2. Cardinality(PendingOf(org)) < MaxPending
      BY <1>1 DEF StageCount
    <2> QED BY <2>1, <2>2, BacklogFinite, StagingAssumption DEF QuotaOf
  <1>2. CASE StageInsert(s) /\ OrgOf[sch[s]] = org
    <2>1. PICK c \in Changes : c = sch[s]
      BY <1>2 DEF StageInsert
    <2>2. PendingOf(org)' = PendingOf(org) \cup {c} /\ c \notin PendingOf(org)
      BY <1>2, <2>1 DEF StageInsert, PendingOf
    <2>3. Counted(org)' = Counted(org) \ {s} /\ s \in Counted(org)
      BY <1>2, <2>1 DEF StageInsert, Counted
    <2>4. Cardinality(PendingOf(org)') = Cardinality(PendingOf(org)) + 1
      <3>1. IsFiniteSet(PendingOf(org))
        BY BacklogFinite
      <3>2. Cardinality(PendingOf(org) \cup {c}) = Cardinality(PendingOf(org)) + 1
        BY <3>1, <2>2, FS_AddElement
      <3> QED BY <3>2, <2>2
    <2>5. Cardinality(Counted(org)') = Cardinality(Counted(org)) - 1
      <3>1. IsFiniteSet(Counted(org))
        BY BacklogFinite
      <3>2. Cardinality(Counted(org) \ {s}) = Cardinality(Counted(org)) - 1
        BY <3>1, <2>3, FS_RemoveElement
      <3> QED BY <3>2, <2>3
    <2> QED BY <2>4, <2>5, BacklogFinite, StagingAssumption DEF QuotaOf
  <1>3. CASE ~(StageCount(s) /\ OrgOf[sch[s]] = org) /\ ~(StageInsert(s) /\ OrgOf[sch[s]] = org)
    <2>1. PendingOf(org)' \subseteq PendingOf(org) /\ Counted(org)' \subseteq Counted(org)
      BY <1>3 DEF StageNext, StageOpen, Unrecorded, StageCount, StageRefuse, StageInsert, StageReturn,
                  StageRaises, StageCrash, StageDone, PendingOf, Counted, Recovered, StaleRows
    <2> QED BY <2>1, QuotaShrinks
  <1> QED BY <1>1, <1>2, <1>3

(* Applies, discards and the recovery only empty the backlog. *)
LEMMA QuotaOther ==
  ASSUME TypeInv, NEW org \in Orgs, QuotaOf(org),
         (\E w \in Workers : ApplyNext(w)) \/ EnvNext
  PROVE  QuotaOf(org)'
  <1>1. UNCHANGED <<spc, sch>>
    BY DEF ApplyNext, BeginApply, Claim, RefuseClaim, ApplierRefuses, Send, Reply, NoReply,
           RecordApplied, RecordAppliedRaises, SecondCommit, RecordFailure, RecordFailureRaises,
           Announce, ApplyCrash, EnvNext, Discard, DiscardRaises, RecoverStaleApplying,
           ReapStuck, Age, DeviceAnswers, SetReadOnly, stageVars
  <1>2. \A c \in Changes : row'[c] = "pending" => row[c] = "pending"
    <2>1. ASSUME NEW w \in Workers, ApplyNext(w)
          PROVE  \A c \in Changes : row'[c] = "pending" => row[c] = "pending"
      BY <2>1 DEF TypeInv, TypeOK, HoldsChange, ApplyNext, BeginApply, Claim, RefuseClaim,
                  ApplierRefuses, Send, Reply, NoReply, RecordApplied, RecordAppliedRaises,
                  SecondCommit, RecordFailure, RecordFailureRaises, Announce, ApplyCrash
    <2>2. ASSUME EnvNext
          PROVE  \A c \in Changes : row'[c] = "pending" => row[c] = "pending"
      BY <2>2 DEF TypeInv, TypeOK, EnvNext, Discard, DiscardRaises, RecoverStaleApplying,
                  ReapStuck, Age, DeviceAnswers, SetReadOnly, Recovered, StaleRows
    <2> QED BY <2>1, <2>2
  <1>3. PendingOf(org)' \subseteq PendingOf(org) /\ Counted(org)' \subseteq Counted(org)
    BY <1>1, <1>2 DEF PendingOf, Counted
  <1> QED BY <1>3, QuotaShrinks

(* The pending backlog of an organisation exceeds the cap by at most one    *)
(* row for each other concurrent stage request.                             *)
THEOREM BacklogBounded == Spec => []QuotaOvershoot
  <1>1. Init => QuotaInv
    <2> SUFFICES ASSUME Init, NEW org \in Orgs PROVE QuotaOf(org)
      BY DEF QuotaInv, QuotaOf
    <2>1. PendingOf(org) = {} /\ Counted(org) = {}
      BY DEF Init, PendingOf, Counted
    <2> QED BY <2>1, FS_EmptySet, BacklogFinite, StagingAssumption DEF QuotaOf
  <1>2. TypeInv /\ QuotaInv /\ [Next]_vars => QuotaInv'
    <2> SUFFICES ASSUME TypeInv, QuotaInv, [Next]_vars, NEW org \in Orgs PROVE QuotaOf(org)'
      BY DEF QuotaInv, QuotaOf
    <2>1. QuotaOf(org)
      BY DEF QuotaInv, QuotaOf
    <2>2. CASE Next
      BY <2>1, <2>2, QuotaStage, QuotaOther DEF Next
    <2>3. CASE UNCHANGED vars
      BY <2>1, <2>3 DEF vars, QuotaOf, PendingOf, Counted
    <2> QED BY <2>2, <2>3
  <1>3. QuotaInv => QuotaOvershoot
    <2> SUFFICES ASSUME QuotaInv, NEW org \in Orgs
                 PROVE  Cardinality(PendingOf(org)) <= MaxPending + Cardinality(Stagers) - 1
      BY DEF QuotaOvershoot
    <2> QED BY BacklogFinite, StagingAssumption DEF QuotaInv
  <1> QED BY <1>1, <1>2, <1>3, TypeInvInit, TypeInvStep, PTL DEF Spec
=============================================================================
