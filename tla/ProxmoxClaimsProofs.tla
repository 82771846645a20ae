------------------------- MODULE ProxmoxClaimsProofs -------------------------
(***************************************************************************)
(* Proofs about ProxmoxClaims for any number of changes, requests,         *)
(* controllers and guests.                                                 *)
(***************************************************************************)
EXTENDS ProxmoxClaims, TLAPS

TypeInv == TypeOK /\ HoldsChange

RequestInv == OneRequest /\ RequestRow /\ RequestDev /\ RowDev

OverlapInv == Recorded /\ Apart /\ GuestApart /\ BlockedIsClosable

(* The initial state is well typed. *)
LEMMA TypeInvInit == Init => TypeInv
  BY ClaimsAssumption
  DEF Init, TypeInv, TypeOK, HoldsChange, Status, Task, OpenTask, Terminal, Ack, NoAck, Dev, PC, Txn

(* The claim transaction keeps the types. *)
LEMMA TypeInvClaim ==
  ASSUME TypeInv, NEW w \in Workers, ClaimNext(w)
  PROVE  TypeInv'
  <1> USE ClaimsAssumption DEF TypeInv, TypeOK, HoldsChange, Status, Task, OpenTask, Terminal,
      Ack, Dev, PC, Txn, taskVars, claimVars, deviceVars
  <1>1. ASSUME NEW c \in Changes, LockRow(w, c) PROVE TypeInv'
    BY <1>1 DEF LockRow
  <1>2. CASE ClusterGuard(w)
    BY <1>2 DEF ClusterGuard, Goto
  <1>3. CASE ClusterRefuse(w)
    BY <1>3 DEF ClusterRefuse, Done
  <1>4. CASE GuestGuard(w)
    BY <1>4 DEF GuestGuard, Goto
  <1>5. CASE GuestRefuse(w)
    BY <1>5 DEF GuestRefuse, Done
  <1>6. CASE CommitClaim(w)
    BY <1>6 DEF CommitClaim, Goto
  <1> QED BY <1>1, <1>2, <1>3, <1>4, <1>5, <1>6 DEF ClaimNext

(* The write and its bookkeeping keep the types. *)
LEMMA TypeInvWrite ==
  ASSUME TypeInv, NEW w \in Workers, WriteNext(w)
  PROVE  TypeInv'
  <1> USE ClaimsAssumption DEF TypeInv, TypeOK, HoldsChange, Status, Task, OpenTask, Terminal,
      Ack, Dev, PC, Txn, taskVars, claimVars, deviceVars
  <1>1. CASE Dispatch(w)
    BY <1>1 DEF Dispatch, Goto
  <1>2. CASE Refused(w)
    BY <1>2 DEF Refused, Goto
  <1>3. CASE NoReply(w)
    BY <1>3 DEF NoReply, Goto
  <1>4. CASE Reply(w)
    BY <1>4 DEF Reply, Goto, Accepted
  <1>5. CASE RecordApplied(w)
    BY <1>5 DEF RecordApplied, SetApplied, Done
  <1>6. CASE RecordAppliedRaises(w)
    <2>1. CASE SetApplied(wch[w])
      BY <1>6, <2>1 DEF RecordAppliedRaises, SetApplied, Goto
    <2>2. CASE UNCHANGED <<row, taskVars>>
      BY <1>6, <2>2 DEF RecordAppliedRaises, Goto
    <2> QED BY <1>6, <2>1, <2>2 DEF RecordAppliedRaises
  <1>7. CASE SecondCommit(w)
    <2>1. CASE SetApplied(wch[w])
      BY <1>7, <2>1 DEF SecondCommit, SetApplied, Done
    <2>2. CASE UNCHANGED <<row, taskVars>>
      BY <1>7, <2>2 DEF SecondCommit, Done
    <2> QED BY <1>7, <2>1, <2>2 DEF SecondCommit
  <1>8. CASE RecordFailure(w)
    BY <1>8 DEF RecordFailure, Done
  <1>9. CASE Crash(w)
    BY <1>9 DEF Crash, Done
  <1> QED BY <1>1, <1>2, <1>3, <1>4, <1>5, <1>6, <1>7, <1>8, <1>9 DEF WriteNext

(* The provider, the janitor, the operator and the observer keep them too. *)
LEMMA TypeInvEnv ==
  ASSUME TypeInv, EnvNext
  PROVE  TypeInv'
  <1> USE ClaimsAssumption DEF TypeInv, TypeOK, HoldsChange, Status, Task, OpenTask, Terminal,
      Ack, Dev, PC, Txn, taskVars, claimVars, deviceVars
  <1>1. ASSUME NEW c \in Changes, Stage(c) PROVE TypeInv'
    BY <1>1 DEF Stage
  <1>2. ASSUME NEW c \in Changes, DeviceStarts(c) PROVE TypeInv'
    BY <1>2 DEF DeviceStarts
  <1>3. ASSUME NEW c \in Changes, DeviceEnds(c) PROVE TypeInv'
    BY <1>3 DEF DeviceEnds
  <1>4. ASSUME NEW c \in Changes, Reap(c) PROVE TypeInv'
    BY <1>4 DEF Reap
  <1>5. ASSUME NEW c \in Changes, NEW force \in BOOLEAN, Discard(c, force) PROVE TypeInv'
    BY <1>5 DEF Discard
  <1>6. ASSUME NEW c \in Changes, Observe(c) PROVE TypeInv'
    <2>1. \A s \in Observation(c) : s \in Task /\ Settled(c, s) \in Task
      BY DEF Observation, StopReadback, ConfigReadback, SavedReadback,
           TaskResult, Settled
    <2>2. PICK s \in Task : task' \in {task, [task EXCEPT ![c] = s]}
      BY <1>6, <2>1 DEF Observe
    <2>3. PICK b \in BOOLEAN : poll' = [poll EXCEPT ![c] = b]
      BY <1>6 DEF Observe
    <2>4. UNCHANGED <<row, tid, expired, ack, claimVars, deviceVars, waived>>
      BY <1>6 DEF Observe
    <2>5. task' \in [Changes -> Task] /\ poll' \in [Changes -> BOOLEAN]
      BY <2>2, <2>3
    <2> QED BY <2>4, <2>5
  <1>7. ASSUME NEW c \in Changes, Expire(c) PROVE TypeInv'
    BY <1>7 DEF Expire
  <1> QED BY <1>1, <1>2, <1>3, <1>4, <1>5, <1>6, <1>7 DEF EnvNext

(* Every step keeps the types. *)
LEMMA TypeInvStep == TypeInv /\ [Next]_vars => TypeInv'
  <1> SUFFICES ASSUME TypeInv, [Next]_vars PROVE TypeInv'
    OBVIOUS
  <1>1. CASE Next
    BY <1>1, TypeInvClaim, TypeInvWrite, TypeInvEnv DEF Next
  <1>2. CASE UNCHANGED vars
    BY <1>2 DEF vars, TypeInv, TypeOK, HoldsChange
  <1> QED BY <1>1, <1>2

(* Every status of a row, a task and a request stays in its domain. *)
THEOREM ClaimsTypeCorrect == Spec => []TypeOK
  <1>1. TypeInv => TypeOK
    BY DEF TypeInv
  <1> QED BY <1>1, TypeInvInit, TypeInvStep, PTL DEF Spec

-----------------------------------------------------------------------------
(* The requests, the rows and the provider *)

(* Nothing is under way in the initial state. *)
LEMMA RequestInvInit == Init => RequestInv
  BY DEF Init, RequestInv, OneRequest, RequestRow, RequestDev, RowDev, Answered, Live, Txn

(* accepted_task reads a UPID from the answer, or the operation is over. *)
LEMMA AcceptedAnswers ==
  ASSUME NEW c \in Changes, dev[c] \in {"running", "ended"}, NEW a \in Accepted(c)
  PROVE  Answered(c, a.id, a.status)
  <1>1. KindOf[c] \in Kinds
    BY ClaimsAssumption
  <1>2. a.id \in BOOLEAN /\ a.status \in Task
    BY DEF Accepted, Ack
  <1> QED BY <1>1, <1>2 DEF Accepted, Answered, Kinds, OpenTask, Terminal

(* The row lock admits one request per change. *)
LEMMA RequestInvClaim ==
  ASSUME TypeInv, RequestInv, NEW w \in Workers, ClaimNext(w)
  PROVE  RequestInv'
  <1> USE ClaimsAssumption DEF TypeInv, TypeOK, HoldsChange, RequestInv, OneRequest, RequestRow,
      RequestDev, RowDev, Answered, Status, OpenTask, Terminal, Dev, PC, Txn, Live, taskVars,
      claimVars, deviceVars
  <1>1. ASSUME NEW c \in Changes, LockRow(w, c) PROVE RequestInv'
    BY <1>1 DEF LockRow, RowLocked
  <1>2. CASE ClusterGuard(w)
    BY <1>2 DEF ClusterGuard, Goto
  <1>3. CASE ClusterRefuse(w)
    BY <1>3 DEF ClusterRefuse, Done
  <1>4. CASE GuestGuard(w)
    BY <1>4 DEF GuestGuard, Goto
  <1>5. CASE GuestRefuse(w)
    BY <1>5 DEF GuestRefuse, Done
  <1>6. CASE CommitClaim(w)
    BY <1>6 DEF CommitClaim, Goto
  <1> QED BY <1>1, <1>2, <1>3, <1>4, <1>5, <1>6 DEF ClaimNext

(* A request records what the provider answered. *)
LEMMA RequestInvWrite ==
  ASSUME TypeInv, RequestInv, NEW w \in Workers, WriteNext(w)
  PROVE  RequestInv'
  <1> USE ClaimsAssumption DEF TypeInv, TypeOK, HoldsChange, RequestInv, OneRequest, RequestRow,
      RequestDev, RowDev, Answered, Status, OpenTask, Terminal, Dev, PC, Txn, Live, taskVars,
      claimVars, deviceVars
  <1>1. CASE Dispatch(w)
    BY <1>1 DEF Dispatch, Goto
  <1>2. CASE Refused(w)
    BY <1>2 DEF Refused, Goto
  <1>3. CASE NoReply(w)
    BY <1>3 DEF NoReply, Goto
  <1>4. CASE Reply(w)
    <2>1. PICK a \in Accepted(wch[w]) : ack' = [ack EXCEPT ![wch[w]] = a]
      BY <1>4 DEF Reply
    <2>2. /\ Answered(wch[w], a.id, a.status)
          /\ wch[w] \in Changes /\ a \in Ack
      BY <1>4, <2>1, AcceptedAnswers DEF Reply, Accepted
    <2>3. \A v \in Workers : v # w /\ wpc[v] # "idle" => wch[v] # wch[w]
      BY <1>4 DEF Reply
    <2>4. \A v \in Workers : v # w => ack'[wch[v]] = ack[wch[v]] \/ wpc[v] = "idle"
      BY <2>1, <2>3
    <2>5. ack'[wch[w]] = a
      BY <2>1, <2>2
    <2>6. RequestDev'
      BY <1>4, <2>2, <2>4, <2>5 DEF Reply, Goto
    <2> QED BY <1>4, <2>6 DEF Reply, Goto
  <1>5. CASE RecordApplied(w)
    BY <1>5 DEF RecordApplied, SetApplied, Done
  <1>6. CASE RecordAppliedRaises(w)
    BY <1>6 DEF RecordAppliedRaises, SetApplied, Goto
  <1>7. CASE SecondCommit(w)
    BY <1>7 DEF SecondCommit, SetApplied, Done
  <1>8. CASE RecordFailure(w)
    BY <1>8 DEF RecordFailure, Done
  <1>9. CASE Crash(w)
    BY <1>9 DEF Crash, Done
  <1> QED BY <1>1, <1>2, <1>3, <1>4, <1>5, <1>6, <1>7, <1>8, <1>9 DEF WriteNext

(* Neither the provider nor anybody else unsettles that. *)
LEMMA RequestInvEnv ==
  ASSUME TypeInv, RequestInv, EnvNext
  PROVE  RequestInv'
  <1> USE ClaimsAssumption DEF TypeInv, TypeOK, HoldsChange, RequestInv, OneRequest, RequestRow,
      RequestDev, RowDev, Answered, Status, OpenTask, Terminal, Dev, PC, Txn, Live, taskVars,
      claimVars, deviceVars
  <1>1. ASSUME NEW c \in Changes, Stage(c) PROVE RequestInv'
    BY <1>1 DEF Stage
  <1>2. ASSUME NEW c \in Changes, DeviceStarts(c) PROVE RequestInv'
    BY <1>2 DEF DeviceStarts
  <1>3. ASSUME NEW c \in Changes, DeviceEnds(c) PROVE RequestInv'
    BY <1>3 DEF DeviceEnds
  <1>4. ASSUME NEW c \in Changes, Reap(c) PROVE RequestInv'
    BY <1>4 DEF Reap
  <1>5. ASSUME NEW c \in Changes, NEW force \in BOOLEAN, Discard(c, force) PROVE RequestInv'
    BY <1>5 DEF Discard, RowLocked
  <1>6. ASSUME NEW c \in Changes, Observe(c) PROVE RequestInv'
    BY <1>6 DEF Observe, Observation, StopReadback, ConfigReadback, SavedReadback,
           TaskResult, Settled
  <1>7. ASSUME NEW c \in Changes, Expire(c) PROVE RequestInv'
    BY <1>7 DEF Expire
  <1> QED BY <1>1, <1>2, <1>3, <1>4, <1>5, <1>6, <1>7 DEF EnvNext

(* Every step keeps requests, rows and provider in agreement. *)
LEMMA RequestInvStep == TypeInv /\ RequestInv /\ [Next]_vars => RequestInv'
  <1> SUFFICES ASSUME TypeInv, RequestInv, [Next]_vars PROVE RequestInv'
    OBVIOUS
  <1>1. CASE Next
    BY <1>1, RequestInvClaim, RequestInvWrite, RequestInvEnv DEF Next
  <1>2. CASE UNCHANGED vars
    BY <1>2 DEF vars, RequestInv, OneRequest, RequestRow, RequestDev, RowDev, Answered
  <1> QED BY <1>1, <1>2

-----------------------------------------------------------------------------
(* Operations on one controller *)

(* A claim puts the change on record before anything is sent. *)
LEMMA RecordedClaim ==
  ASSUME TypeInv, RequestInv, Recorded, BlockedIsClosable, NEW w \in Workers, ClaimNext(w)
  PROVE  Recorded' /\ BlockedIsClosable'
  <1> USE ClaimsAssumption DEF TypeInv, TypeOK, HoldsChange, RequestInv, OneRequest, RequestRow,
      RequestDev, RowDev, Answered, Recorded, InFlight, Unresolved, BlockedIsClosable, Terminal,
      OpenTask, Txn, Live, taskVars, claimVars, deviceVars
  <1>1. ASSUME NEW c \in Changes, LockRow(w, c) PROVE Recorded' /\ BlockedIsClosable'
    BY <1>1 DEF LockRow
  <1>2. CASE ClusterGuard(w)
    BY <1>2 DEF ClusterGuard, Goto
  <1>3. CASE ClusterRefuse(w)
    BY <1>3 DEF ClusterRefuse, Done
  <1>4. CASE GuestGuard(w)
    BY <1>4 DEF GuestGuard, Goto
  <1>5. CASE GuestRefuse(w)
    BY <1>5 DEF GuestRefuse, Done
  <1>6. CASE CommitClaim(w)
    BY <1>6 DEF CommitClaim, Goto
  <1> QED BY <1>1, <1>2, <1>3, <1>4, <1>5, <1>6 DEF ClaimNext

(* What the request records keeps a running operation on record. *)
LEMMA RecordedWrite ==
  ASSUME TypeInv, RequestInv, Recorded, BlockedIsClosable, NEW w \in Workers, WriteNext(w)
  PROVE  Recorded' /\ BlockedIsClosable'
  <1> USE ClaimsAssumption DEF TypeInv, TypeOK, HoldsChange, RequestInv, OneRequest, RequestRow,
      RequestDev, RowDev, Answered, Recorded, InFlight, Unresolved, BlockedIsClosable, Terminal,
      OpenTask, Txn, Live, taskVars, claimVars, deviceVars
  <1>1. CASE Dispatch(w)
    BY <1>1 DEF Dispatch, Goto
  <1>2. CASE Refused(w)
    BY <1>2 DEF Refused, Goto
  <1>3. CASE NoReply(w)
    BY <1>3 DEF NoReply, Goto
  <1>4. CASE Reply(w)
    BY <1>4 DEF Reply, Goto, Accepted
  <1>5. CASE RecordApplied(w)
    BY <1>5 DEF RecordApplied, SetApplied, Done
  <1>6. CASE RecordAppliedRaises(w)
    <2>1. CASE SetApplied(wch[w])
      BY <1>6, <2>1 DEF RecordAppliedRaises, SetApplied, Goto
    <2>2. CASE UNCHANGED <<row, taskVars>>
      BY <1>6, <2>2 DEF RecordAppliedRaises, Goto
    <2> QED BY <1>6, <2>1, <2>2 DEF RecordAppliedRaises
  <1>7. CASE SecondCommit(w)
    <2>1. CASE SetApplied(wch[w])
      BY <1>7, <2>1 DEF SecondCommit, SetApplied, Done
    <2>2. CASE UNCHANGED <<row, taskVars>>
      BY <1>7, <2>2 DEF SecondCommit, Done
    <2> QED BY <1>7, <2>1, <2>2 DEF SecondCommit
  <1>8. CASE RecordFailure(w)
    BY <1>8 DEF RecordFailure, Done
  <1>9. CASE Crash(w)
    BY <1>9 DEF Crash, Done
  <1> QED BY <1>1, <1>2, <1>3, <1>4, <1>5, <1>6, <1>7, <1>8, <1>9 DEF WriteNext

(* Only a forced discard takes a running operation off the record. *)
LEMMA RecordedEnv ==
  ASSUME TypeInv, RequestInv, Recorded, BlockedIsClosable, EnvNext
  PROVE  Recorded' /\ BlockedIsClosable'
  <1> USE ClaimsAssumption DEF TypeInv, TypeOK, HoldsChange, RequestInv, OneRequest, RequestRow,
      RequestDev, RowDev, Answered, Recorded, InFlight, Unresolved, BlockedIsClosable, Terminal,
      OpenTask, Txn, Live, taskVars, claimVars, deviceVars
  <1>1. ASSUME NEW c \in Changes, Stage(c) PROVE Recorded' /\ BlockedIsClosable'
    BY <1>1 DEF Stage
  <1>2. ASSUME NEW c \in Changes, DeviceStarts(c) PROVE Recorded' /\ BlockedIsClosable'
    BY <1>2 DEF DeviceStarts
  <1>3. ASSUME NEW c \in Changes, DeviceEnds(c) PROVE Recorded' /\ BlockedIsClosable'
    BY <1>3 DEF DeviceEnds
  <1>4. ASSUME NEW c \in Changes, Reap(c) PROVE Recorded' /\ BlockedIsClosable'
    BY <1>4 DEF Reap
  <1>5. ASSUME NEW c \in Changes, NEW force \in BOOLEAN, Discard(c, force) PROVE Recorded' /\ BlockedIsClosable'
    BY <1>5 DEF Discard
  <1>6. ASSUME NEW c \in Changes, Observe(c) PROVE Recorded' /\ BlockedIsClosable'
    BY <1>6 DEF Observe, Observation, StopReadback, ConfigReadback, SavedReadback,
           TaskResult, Settled
  <1>7. ASSUME NEW c \in Changes, Expire(c) PROVE Recorded' /\ BlockedIsClosable'
    BY <1>7 DEF Expire
  <1> QED BY <1>1, <1>2, <1>3, <1>4, <1>5, <1>6, <1>7 DEF EnvNext

(* Nothing becomes busy and no waiver is withdrawn. *)
BusyShrinks(pcs) ==
  \A c \in Changes : /\ Busy(c, pcs)' => Busy(c, pcs)
                     /\ waived[c] => waived'[c]

(* The write makes no change busy that was not. *)
LEMMA BusyWrite ==
  ASSUME TypeInv, RequestInv, NEW w \in Workers, WriteNext(w)
  PROVE  BusyShrinks(PastCluster) /\ BusyShrinks(PastGuest)
  <1> USE DEF TypeInv, TypeOK, HoldsChange, RequestInv, RequestRow, RequestDev, Busy, InFlight,
      PastCluster, PastGuest, taskVars, claimVars, deviceVars, BusyShrinks
  <1>1. CASE Dispatch(w)
    BY <1>1 DEF Dispatch, Goto
  <1>2. CASE Refused(w)
    BY <1>2 DEF Refused, Goto
  <1>3. CASE NoReply(w)
    BY <1>3 DEF NoReply, Goto
  <1>4. CASE Reply(w)
    BY <1>4 DEF Reply, Goto, Accepted
  <1>5. CASE RecordApplied(w)
    BY <1>5 DEF RecordApplied, SetApplied, Done
  <1>6. CASE RecordAppliedRaises(w)
    BY <1>6 DEF RecordAppliedRaises, SetApplied, Goto
  <1>7. CASE SecondCommit(w)
    BY <1>7 DEF SecondCommit, SetApplied, Done
  <1>8. CASE RecordFailure(w)
    BY <1>8 DEF RecordFailure, Done
  <1>9. CASE Crash(w)
    BY <1>9 DEF Crash, Done
  <1> QED BY <1>1, <1>2, <1>3, <1>4, <1>5, <1>6, <1>7, <1>8, <1>9 DEF WriteNext

(* Neither does anybody else. *)
LEMMA BusyEnv ==
  ASSUME TypeInv, RequestInv, EnvNext
  PROVE  BusyShrinks(PastCluster) /\ BusyShrinks(PastGuest)
  <1> USE DEF TypeInv, TypeOK, HoldsChange, RequestInv, RequestRow, RequestDev, Busy, InFlight,
      PastCluster, PastGuest, taskVars, claimVars, deviceVars, BusyShrinks
  <1>1. ASSUME NEW c \in Changes, Stage(c) PROVE BusyShrinks(PastCluster) /\ BusyShrinks(PastGuest)
    BY <1>1 DEF Stage
  <1>2. ASSUME NEW c \in Changes, DeviceStarts(c) PROVE BusyShrinks(PastCluster) /\ BusyShrinks(PastGuest)
    BY <1>2 DEF DeviceStarts
  <1>3. ASSUME NEW c \in Changes, DeviceEnds(c) PROVE BusyShrinks(PastCluster) /\ BusyShrinks(PastGuest)
    BY <1>3 DEF DeviceEnds
  <1>4. ASSUME NEW c \in Changes, Reap(c) PROVE BusyShrinks(PastCluster) /\ BusyShrinks(PastGuest)
    BY <1>4 DEF Reap
  <1>5. ASSUME NEW c \in Changes, NEW force \in BOOLEAN, Discard(c, force) PROVE BusyShrinks(PastCluster) /\ BusyShrinks(PastGuest)
    BY <1>5 DEF Discard
  <1>6. ASSUME NEW c \in Changes, Observe(c) PROVE BusyShrinks(PastCluster) /\ BusyShrinks(PastGuest)
    BY <1>6 DEF Observe, Observation, StopReadback, ConfigReadback, SavedReadback,
           TaskResult, Settled
  <1>7. ASSUME NEW c \in Changes, Expire(c) PROVE BusyShrinks(PastCluster) /\ BusyShrinks(PastGuest)
    BY <1>7 DEF Expire
  <1> QED BY <1>1, <1>2, <1>3, <1>4, <1>5, <1>6, <1>7 DEF EnvNext

(* Busy sets that only shrink stay apart. *)
LEMMA ApartShrinks ==
  ASSUME Apart, BusyShrinks(PastCluster)
  PROVE  Apart'
  BY DEF Apart, BusyShrinks, SameCtl, Disruptive, Stops

(* The same of the guests. *)
LEMMA GuestApartShrinks ==
  ASSUME GuestApart, BusyShrinks(PastGuest)
  PROVE  GuestApart'
  BY DEF GuestApart, BusyShrinks, SameCtl, GuestGuarded

(* What is busy without a waiver is on record, or its claim transaction     *)
(* still holds the controller's lock.                                       *)
LEMMA BusyIsSeen ==
  ASSUME TypeInv, RequestInv, Recorded, NEW d \in Changes, Busy(d, PastCluster), ~waived[d]
  PROVE  Unresolved(d) \/ CtlLocked(CtlOf[d])
  <1>1. CASE InFlight(d)
    BY <1>1 DEF Recorded
  <1>2. ASSUME NEW v \in Workers, wpc[v] \in {"cluster", "guest"}, wch[v] = d
        PROVE  CtlLocked(CtlOf[d])
    BY <1>2 DEF CtlLocked
  <1>3. ASSUME NEW v \in Workers, wpc[v] = "claimed", wch[v] = d
        PROVE  Unresolved(d)
    BY <1>3 DEF RequestInv, RequestRow, Live, Unresolved
  <1> QED BY <1>1, <1>2, <1>3 DEF Busy, PastCluster

(* The claim transactions keep what is busy apart. *)
LEMMA ApartClaim ==
  ASSUME TypeInv, RequestInv, Recorded, Apart, NEW w \in Workers, ClaimNext(w)
  PROVE  Apart'
  <1> USE DEF TypeInv, TypeOK, HoldsChange, deviceVars
  <1>1. CASE ClusterGuard(w)
    <2>1. PICK x \in Changes : x = wch[w]
      BY <1>1 DEF ClusterGuard
    <2>2. \A c \in Changes : c # x => (Busy(c, PastCluster)' => Busy(c, PastCluster))
      BY <1>1, <2>1 DEF ClusterGuard, Goto, Busy, InFlight, PastCluster
    <2>3. \A d \in Changes :
            SameCtl(x, d) /\ (Disruptive(x) \/ Disruptive(d)) /\ Busy(d, PastCluster)
            => waived[d] \/ Stops(x, d)
      <3> SUFFICES ASSUME NEW d \in Changes, SameCtl(x, d), Disruptive(x) \/ Disruptive(d),
                          Busy(d, PastCluster), ~waived[d]
                   PROVE  Stops(x, d)
        OBVIOUS
      <3>1. ~CtlLocked(CtlOf[d])
        BY <1>1, <2>1 DEF ClusterGuard, SameCtl
      <3>2. Unresolved(d)
        BY <3>1, BusyIsSeen
      <3> QED BY <1>1, <2>1, <3>2 DEF ClusterGuard, ClusterConflict, OriginalWorker
    <2>4. UNCHANGED waived
      BY <1>1 DEF ClusterGuard
    <2> SUFFICES ASSUME NEW c \in Changes, NEW d \in Changes, SameCtl(c, d), Disruptive(c),
                        Busy(c, PastCluster)', Busy(d, PastCluster)'
                 PROVE  waived[c] \/ waived[d] \/ Stops(c, d) \/ Stops(d, c)
      BY <2>4 DEF Apart, SameCtl, Disruptive, Stops
    <2>5. CASE c = x
      BY <2>5, <2>2, <2>3 DEF SameCtl
    <2>6. CASE d = x
      BY <2>6, <2>2, <2>3 DEF SameCtl
    <2>7. CASE c # x /\ d # x
      BY <2>7, <2>2 DEF Apart
    <2> QED BY <2>5, <2>6, <2>7
  <1>2. CASE ~ClusterGuard(w)
    <2>1. BusyShrinks(PastCluster)
      BY <1>2 DEF ClaimNext, LockRow, ClusterRefuse, GuestGuard, GuestRefuse, CommitClaim, Goto,
                  Done, BusyShrinks, Busy, InFlight, PastCluster
    <2> QED BY <2>1, ApartShrinks
  <1> QED BY <1>1, <1>2

(* The same for the guest: the second guard runs under the first one's lock.*)
LEMMA GuestApartClaim ==
  ASSUME TypeInv, RequestInv, Recorded, GuestApart, NEW w \in Workers, ClaimNext(w)
  PROVE  GuestApart'
  <1> USE DEF TypeInv, TypeOK, HoldsChange, deviceVars
  <1>1. CASE GuestGuard(w)
    <2>1. PICK x \in Changes : x = wch[w]
      BY <1>1 DEF GuestGuard
    <2>2. \A c \in Changes : c # x => (Busy(c, PastGuest)' => Busy(c, PastGuest))
      BY <1>1, <2>1 DEF GuestGuard, Goto, Busy, InFlight, PastGuest
    <2>3. \A d \in Changes :
            SameCtl(x, d) /\ VmOf[x] = VmOf[d] /\ GuestGuarded(x) /\ GuestGuarded(d)
            /\ Busy(d, PastGuest) => waived[d]
      <3> SUFFICES ASSUME NEW d \in Changes, SameCtl(x, d), VmOf[x] = VmOf[d],
                          GuestGuarded(x), GuestGuarded(d), Busy(d, PastGuest), ~waived[d]
                   PROVE  FALSE
        OBVIOUS
      <3>1. ~Unresolved(d)
        BY <1>1, <2>1 DEF GuestGuard, GuestConflict
      <3>2. \A v \in Workers : ~(wpc[v] = "guest" /\ wch[v] = d)
        BY <1>1, <2>1 DEF GuestGuard, GuestLocked, SameCtl
      <3>3. \A v \in Workers : ~(wpc[v] = "claimed" /\ wch[v] = d)
        BY <3>1 DEF RequestInv, RequestRow, Live, Unresolved
      <3>4. ~InFlight(d)
        BY <3>1 DEF Recorded
      <3> QED BY <3>2, <3>3, <3>4 DEF Busy, PastGuest
    <2>4. UNCHANGED waived
      BY <1>1 DEF GuestGuard
    <2> SUFFICES ASSUME NEW c \in Changes, NEW d \in Changes, SameCtl(c, d), VmOf[c] = VmOf[d],
                        GuestGuarded(c), GuestGuarded(d),
                        Busy(c, PastGuest)', Busy(d, PastGuest)'
                 PROVE  waived[c] \/ waived[d]
      BY <2>4 DEF GuestApart, SameCtl, GuestGuarded
    <2>5. CASE c = x
      BY <2>5, <2>2, <2>3 DEF SameCtl
    <2>6. CASE d = x
      BY <2>6, <2>2, <2>3 DEF SameCtl
    <2>7. CASE c # x /\ d # x
      BY <2>7, <2>2 DEF GuestApart
    <2> QED BY <2>5, <2>6, <2>7
  <1>2. CASE ~GuestGuard(w)
    <2>1. BusyShrinks(PastGuest)
      BY <1>2 DEF ClaimNext, LockRow, ClusterGuard, ClusterRefuse, GuestRefuse, CommitClaim, Goto,
                  Done, BusyShrinks, Busy, InFlight, PastGuest
    <2> QED BY <2>1, GuestApartShrinks
  <1> QED BY <1>1, <1>2

(* The initial state: nothing runs. *)
LEMMA OverlapInvInit == Init => OverlapInv
  BY DEF Init, OverlapInv, Recorded, Apart, GuestApart, BlockedIsClosable, InFlight, Busy,
         PastCluster, PastGuest

(* One step per group of actions: only a claim can add to the busy sets.    *)
LEMMA OverlapInvStep == TypeInv /\ RequestInv /\ OverlapInv /\ [Next]_vars => OverlapInv'
  <1> SUFFICES ASSUME TypeInv, RequestInv, OverlapInv, [Next]_vars PROVE OverlapInv'
    OBVIOUS
  <1> USE DEF OverlapInv
  <1>1. ASSUME NEW w \in Workers, ClaimNext(w) PROVE OverlapInv'
    BY <1>1, RecordedClaim, ApartClaim, GuestApartClaim
  <1>2. ASSUME NEW w \in Workers, WriteNext(w) PROVE OverlapInv'
    BY <1>2, RecordedWrite, BusyWrite, ApartShrinks, GuestApartShrinks
  <1>3. CASE EnvNext
    BY <1>3, RecordedEnv, BusyEnv, ApartShrinks, GuestApartShrinks
  <1>4. CASE UNCHANGED vars
    BY <1>4 DEF vars, Recorded, Apart, GuestApart, BlockedIsClosable, InFlight, Busy, Unresolved,
                SameCtl, Disruptive, GuestGuarded, Stops
  <1> QED BY <1>1, <1>2, <1>3, <1>4 DEF Next

(* The inductive invariant: requests, rows and provider agree, whatever     *)
(* runs is on record, and what is on record keeps conflicting claims out.   *)
THEOREM ClaimsInvariant == Spec => []ClaimsInv
  <1>1. TypeInv /\ RequestInv /\ OverlapInv => ClaimsInv
    BY DEF TypeInv, RequestInv, OverlapInv, ClaimsInv
  <1> QED BY <1>1, TypeInvInit, TypeInvStep, RequestInvInit, RequestInvStep, OverlapInvInit,
             OverlapInvStep, PTL DEF Spec

(* No two operations, one of them disruptive, run on a controller at once,  *)
(* unless an operator force-discarded one or one is the stop of the other.  *)
THEOREM DisruptiveRunsAlone == Spec => []NoOverlap
  <1>1. ClaimsInv => NoOverlap
    BY DEF ClaimsInv, Apart, NoOverlap, Busy
  <1> QED BY <1>1, ClaimsInvariant, PTL

(* Reviewed changes of one guest run one after the other. *)
THEOREM GuestChangesSerialise == Spec => []GuestSerial
  <1>1. ClaimsInv => GuestSerial
    BY DEF ClaimsInv, GuestApart, GuestSerial, Busy
  <1> QED BY <1>1, ClaimsInvariant, PTL

(* A row the poller has given up on is one a forced discard can close. *)
THEOREM ExpiredIsClosable == Spec => []BlockedIsClosable
  <1>1. ClaimsInv => BlockedIsClosable
    BY DEF ClaimsInv
  <1> QED BY <1>1, ClaimsInvariant, PTL

(* No result is recorded for an operation that still runs. *)
THEOREM ResultsAreObserved == Spec => []ResultIsObserved
  <1>1. ClaimsInv => ResultIsObserved
    BY DEF ClaimsInv, RowDev, Answered, ResultIsObserved
  <1> QED BY <1>1, ClaimsInvariant, PTL

-----------------------------------------------------------------------------
(* The locks of the claim transaction *)

(* One claim transaction waits for another: for the controller's advisory   *)
(* lock, or for the guest's.                                                *)
WaitsForCtl(w, v) ==
    /\ wpc[w] = "locked" /\ wpc[v] \in {"cluster", "guest"}
    /\ CtlOf[wch[w]] = CtlOf[wch[v]]
WaitsForGuest(w, v) ==
    /\ wpc[w] = "cluster" /\ wpc[v] = "guest"
    /\ GuestGuarded(wch[w]) /\ GuestGuarded(wch[v])
    /\ CtlOf[wch[w]] = CtlOf[wch[v]] /\ VmOf[wch[w]] = VmOf[wch[v]]
Waits(w, v) == WaitsForCtl(w, v) \/ WaitsForGuest(w, v)

(* The controller's lock has one holder. *)
CtlExclusive ==
    \A v, w \in Workers :
        /\ wpc[v] \in {"cluster", "guest"} /\ wpc[w] \in {"cluster", "guest"}
        /\ CtlOf[wch[v]] = CtlOf[wch[w]]
        => v = w

(* Only ClusterGuard takes that lock, and only when it is free. *)
LEMMA CtlExclusiveStep ==
  ASSUME TypeInv, CtlExclusive, [Next]_vars
  PROVE  CtlExclusive'
  <1> USE DEF TypeInv, TypeOK, HoldsChange, CtlExclusive, PC, Txn, claimVars, deviceVars
  <1>1. ASSUME NEW w \in Workers, ClaimNext(w) PROVE CtlExclusive'
    <2>1. ASSUME NEW c \in Changes, LockRow(w, c) PROVE CtlExclusive'
      BY <2>1 DEF LockRow
    <2>2. CASE ClusterGuard(w)
      BY <2>2 DEF ClusterGuard, CtlLocked, Goto
    <2>3. CASE ClusterRefuse(w) \/ GuestRefuse(w)
      BY <2>3 DEF ClusterRefuse, GuestRefuse, Done
    <2>4. CASE GuestGuard(w) \/ CommitClaim(w)
      BY <2>4 DEF GuestGuard, CommitClaim, Goto
    <2> QED BY <1>1, <2>1, <2>2, <2>3, <2>4 DEF ClaimNext
  <1>2. ASSUME NEW w \in Workers, WriteNext(w) PROVE CtlExclusive'
    BY <1>2 DEF WriteNext, Dispatch, Refused, NoReply, Reply, RecordApplied, RecordAppliedRaises,
                SecondCommit, RecordFailure, Crash, Goto, Done
  <1>3. CASE EnvNext
    BY <1>3 DEF EnvNext, Stage, DeviceStarts, DeviceEnds, Reap, Discard, Observe, Expire
  <1>4. CASE UNCHANGED vars
    BY <1>4 DEF vars
  <1> QED BY <1>1, <1>2, <1>3, <1>4 DEF Next

(* The two advisory locks and the row lock never make a circle, not even a  *)
(* chain: a claim transaction that another one waits for waits for nobody.  *)
(* guard_guest_conflicts therefore finds its lock free whenever it asks.    *)
(* This is what ClaimEnds rests on, beside the fairness of the scheduling.  *)
THEOREM ClaimsWaitInNoChain ==
  Spec => [](\A u, v, w \in Workers : Waits(u, v) => ~Waits(v, w))
  <1>1. Init => CtlExclusive
    BY DEF Init, CtlExclusive
  <1>2. CtlExclusive => \A u, v, w \in Workers : Waits(u, v) => ~Waits(v, w)
    BY DEF CtlExclusive, Waits, WaitsForCtl, WaitsForGuest
  <1> QED BY <1>1, <1>2, CtlExclusiveStep, TypeInvInit, TypeInvStep, PTL DEF Spec

-----------------------------------------------------------------------------
(* The refinement of StagedIntent *)

IntentStep == [Intent!Next]_<<intentPhase, sends>>

(* Only this is needed beside the invariant of the safety properties: what  *)
(* is still queued was never discarded by force.                            *)
QueueUnwaived == \A c \in Changes : row[c] \in {"absent", "pending"} => ~waived[c]

(* No row returns to the queue. *)
LEMMA QueueUnwaivedStep ==
  ASSUME TypeInv, RequestInv, QueueUnwaived, [Next]_vars
  PROVE  QueueUnwaived'
  <1> USE DEF TypeInv, TypeOK, HoldsChange, QueueUnwaived
  <1>1. ASSUME NEW w \in Workers, ClaimNext(w) PROVE QueueUnwaived'
    BY <1>1 DEF ClaimNext, LockRow, ClusterGuard, ClusterRefuse, GuestGuard, GuestRefuse, CommitClaim
  <1>2. ASSUME NEW w \in Workers, WriteNext(w) PROVE QueueUnwaived'
    BY <1>2 DEF WriteNext, Dispatch, Refused, NoReply, Reply, RecordApplied, RecordAppliedRaises,
                SecondCommit, SetApplied, RecordFailure, Crash
  <1>3. ASSUME NEW c \in Changes, NEW force \in BOOLEAN, Discard(c, force) PROVE QueueUnwaived'
    <2>1. \A d \in Changes : d # c => waived'[d] = waived[d] /\ row'[d] = row[d]
      BY <1>3 DEF Discard
    <2>2. row'[c] = "discarded"
      BY <1>3 DEF Discard
    <2> QED BY <2>1, <2>2
  <1>4. CASE EnvNext /\ \A c \in Changes, force \in BOOLEAN : ~Discard(c, force)
    BY <1>4 DEF EnvNext, Stage, DeviceStarts, DeviceEnds, Reap, Observe, Expire
  <1>5. CASE UNCHANGED vars
    BY <1>5 DEF vars
  <1> QED BY <1>1, <1>2, <1>3, <1>4, <1>5 DEF Next

(* The commit of "applying" releases the intent; the guards do not show. *)
LEMMA IntentClaim ==
  ASSUME TypeInv, RequestInv, NEW w \in Workers, ClaimNext(w)
  PROVE  IntentStep
  <1> USE DEF TypeInv, TypeOK, HoldsChange, RequestInv, RequestRow, IntentStep, intentPhase, Txn, deviceVars
  <1>1. CASE CommitClaim(w)
    <2>1. PICK c \in Changes : c = wch[w]
      BY <1>1 DEF CommitClaim
    <2>2. Intent!Release(c)
      BY <1>1, <2>1 DEF CommitClaim, Intent!Release, Intent!Move
    <2> QED BY <2>2 DEF Intent!Next
  <1>2. CASE ~CommitClaim(w)
    BY <1>2 DEF ClaimNext, LockRow, ClusterGuard, ClusterRefuse, GuestGuard, GuestRefuse
  <1> QED BY <1>1, <1>2

(* Dispatch transmits it.  What a request records after that, however late, *)
(* leaves a released intent released.                                       *)
LEMMA IntentWrite ==
  ASSUME TypeInv, RequestInv, NEW w \in Workers, WriteNext(w)
  PROVE  IntentStep
  <1> USE DEF TypeInv, TypeOK, HoldsChange, RequestInv, RequestRow, RequestDev, IntentStep,
              intentPhase, Live, deviceVars
  <1>1. CASE Dispatch(w)
    <2>1. PICK c \in Changes : c = wch[w]
      BY <1>1 DEF Dispatch
    <2>2. Intent!Transmit(c)
      <3>1. sends[c] = 0 /\ intentPhase[c] = "released"
        BY <1>1, <2>1 DEF Dispatch
      <3>2. sends' = [sends EXCEPT ![c] = 1]
        BY <1>1, <2>1, <3>1 DEF Dispatch
      <3>3. UNCHANGED intentPhase
        BY <1>1 DEF Dispatch
      <3> QED BY <3>1, <3>2, <3>3 DEF Intent!Transmit
    <2> QED BY <2>2 DEF Intent!Next
  <1>2. CASE Refused(w) \/ NoReply(w) \/ Reply(w) \/ Crash(w)
    BY <1>2 DEF Refused, NoReply, Reply, Crash
  <1>3. CASE RecordApplied(w) \/ RecordAppliedRaises(w) \/ SecondCommit(w)
    BY <1>3 DEF RecordApplied, RecordAppliedRaises, SecondCommit, SetApplied
  <1>4. CASE RecordFailure(w)
    BY <1>4 DEF RecordFailure
  <1> QED BY <1>1, <1>2, <1>3, <1>4 DEF WriteNext

(* Staging queues an intent, a discard from the queue drops it; a forced    *)
(* discard, the janitor, the provider and the observer do not show.         *)
LEMMA IntentEnv ==
  ASSUME TypeInv, RequestInv, QueueUnwaived, EnvNext
  PROVE  IntentStep
  <1> USE DEF TypeInv, TypeOK, RequestInv, RowDev, IntentStep, intentPhase, deviceVars
  <1>1. ASSUME NEW c \in Changes, Stage(c) PROVE IntentStep
    <2>1. Intent!Queue(c)
      BY <1>1 DEF Stage, Intent!Queue, Intent!Move
    <2> QED BY <2>1 DEF Intent!Next
  <1>2. ASSUME NEW c \in Changes, DeviceStarts(c) \/ DeviceEnds(c) PROVE IntentStep
    BY <1>2 DEF DeviceStarts, DeviceEnds
  <1>3. ASSUME NEW c \in Changes, Reap(c) PROVE IntentStep
    BY <1>3 DEF Reap
  <1>4. ASSUME NEW c \in Changes, NEW force \in BOOLEAN, Discard(c, force) PROVE IntentStep
    <2>1. CASE row[c] = "pending"
      <3>1. ~waived'[c] /\ \A d \in Changes : d # c => waived'[d] = waived[d]
        BY <1>4, <2>1 DEF Discard, QueueUnwaived
      <3>2. intentPhase[c] = "queued" /\ intentPhase' = [intentPhase EXCEPT ![c] = "dropped"]
        BY <1>4, <2>1, <3>1 DEF Discard
      <3>3. UNCHANGED sends
        BY <1>4 DEF Discard
      <3> QED BY <3>2, <3>3 DEF Intent!Drop, Intent!Move, Intent!Next
    <2>2. CASE row[c] # "pending"
      <3>1. waived'[c] /\ \A d \in Changes : d # c => waived'[d] = waived[d]
        BY <1>4, <2>2 DEF Discard
      <3>2. intentPhase[c] = "released"
        BY <1>4, <2>2 DEF Discard
      <3>3. UNCHANGED intentPhase
        BY <1>4, <3>1, <3>2 DEF Discard
      <3>4. UNCHANGED sends
        BY <1>4 DEF Discard
      <3> QED BY <3>3, <3>4
    <2> QED BY <2>1, <2>2
  <1>5. ASSUME NEW c \in Changes, Observe(c) \/ Expire(c) PROVE IntentStep
    BY <1>5 DEF Observe, Expire
  <1> QED BY <1>1, <1>2, <1>3, <1>4, <1>5 DEF EnvNext

(* The arbitration of claims, the dispatch and the observation together     *)
(* keep the promise of StagedIntent.                                        *)
THEOREM ClaimsRefinement == Spec => ClaimsImplementIntent
  <1>1. Init => Intent!Init
    BY DEF Init, Intent!Init, intentPhase, deviceVars
  <1>2. TypeInv /\ RequestInv /\ QueueUnwaived /\ [Next]_vars => IntentStep
    <2> SUFFICES ASSUME TypeInv, RequestInv, QueueUnwaived, [Next]_vars PROVE IntentStep
      OBVIOUS
    <2>1. CASE Next
      BY <2>1, IntentClaim, IntentWrite, IntentEnv DEF Next
    <2>2. CASE UNCHANGED vars
      BY <2>2 DEF vars, IntentStep, intentPhase, deviceVars
    <2> QED BY <2>1, <2>2
  <1>3. Init => QueueUnwaived
    BY DEF Init, QueueUnwaived
  <1> QED BY <1>1, <1>2, <1>3, TypeInvInit, TypeInvStep, RequestInvInit, RequestInvStep,
             QueueUnwaivedStep, PTL
          DEF Spec, ClaimsImplementIntent, Intent!Spec, IntentStep
=============================================================================
