------------------------- MODULE RemoteBackupProofs -------------------------
(***************************************************************************)
(* Proofs about RemoteBackup for any number of attempts, probes and        *)
(* configurations of the storage location.                                 *)
(***************************************************************************)
EXTENDS RemoteBackup, TLAPS

(* The places before the catalogue row is committed. *)
BeforeRow == {"start", "reserve", "dispatch", "recheck", "send", "rename", "acknowledge",
              "verify", "confirm", "complete", "unprobe", "probed"}

(* Where an attempt is says what the journal has of it. *)
JournalAt(w) ==
    /\ at[w] \in {"start", "reserve"} => journal[w] = "none" /\ ~held[w]
    /\ at[w] = "dispatch" => journal[w] = "reserved" /\ held[w]
    /\ at[w] \in {"recheck", "send", "rename", "acknowledge"} => journal[w] = "dispatched"
    /\ at[w] \in {"recheck", "send"} => sends[w] = 0
    /\ at[w] \in {"verify", "confirm", "complete", "late", "unprobe", "probed"} =>
          journal[w] = "acknowledged"

(* Bytes are journalled, and past the dispatch the attempt has its owner.  *)
JournalFirst(w) ==
    /\ remote[w] # "none" => journal[w] \in {"dispatched", "acknowledged"}
    /\ journal[w] \in {"dispatched", "acknowledged"} => held[w]
    /\ journal[w] \in {"none", "reserved"} => sends[w] = 0
    /\ verified[w] => journal[w] = "acknowledged"

(* What an attempt has verified when it may say that it succeeded. *)
VerifiedAt(w) ==
    /\ at[w] \in {"confirm", "complete", "late", "unprobe", "probed"} => verified[w]
    /\ at[w] \in {"confirm", "complete", "late"} => w \notin Probes
    /\ at[w] \in {"unprobe", "probed"} => w \in Probes
    /\ at[w] \in {"confirm", "complete"} => remote[w] = "whole"
    /\ at[w] = "probed" => remote[w] = "none"

(* The catalogue row, its flag and its deletion. *)
RowTells(w) ==
    /\ at[w] \in BeforeRow => row[w] = "none" /\ erase[w] = "none"
    /\ row[w] = "completed" => /\ verified[w]
                               /\ w \in Probes => remote[w] = "none"
                               /\ w \notin Probes => remote[w] = "whole" \/ erase[w] # "none"
    /\ row[w] = "failed" => at[w] = "over" /\ (~flagged[w] => ~held[w])
    /\ erase[w] # "none" => w \notin Probes /\ (held[w] => verified[w])

AttemptInv(w) == JournalAt(w) /\ JournalFirst(w) /\ VerifiedAt(w) /\ RowTells(w)

RemoteInv == RemoteTypeOK /\ \A w \in Writes : AttemptInv(w)

(* The initial state: nothing anywhere. *)
LEMMA RemoteInvInit == RemoteInit => RemoteInv
  BY DEF RemoteInit, RemoteInv, RemoteTypeOK, AttemptInv, JournalAt, JournalFirst, VerifiedAt,
         RowTells, BeforeRow

(* The journal's transactions, of which only an answered one lets the      *)
(* attempt go on.                                                          *)
LEMMA RemoteInvJournal ==
  ASSUME RemoteInv, NEW w \in Writes,
         Prepare(w) \/ ReserveWrite(w) \/ Dispatch(w) \/ Recheck(w) \/ Acknowledge(w)
  PROVE  RemoteInv'
  <1> USE DEF RemoteInv, RemoteTypeOK, AttemptInv, JournalAt, JournalFirst, VerifiedAt, RowTells,
              BeforeRow, fileVars, GoTo, CommitOutcomes, Took, Known, Advance
  <1>1. CASE Prepare(w)
    BY <1>1 DEF Prepare
  <1>2. CASE ReserveWrite(w)
    <2> PICK c \in CommitOutcomes :
               /\ Advance(w, "none", "reserved", c)
               /\ held' = [held EXCEPT ![w] = Known(c)]
               /\ GoTo(w, IF Known(c) THEN "dispatch" ELSE "failing")
      BY <1>2 DEF ReserveWrite
    <2>1. at[w] = "reserve" /\ UNCHANGED <<fileVars, row, flagged, verified, bound, dest, erase>>
      BY <1>2 DEF ReserveWrite
    <2>2. CASE c = "answered"
      <3>1. held' = [held EXCEPT ![w] = TRUE]
        BY <2>2 DEF Known
      <3> QED BY <2>1, <2>2, <3>1
    <2>3. CASE c # "answered"
      <3>1. held' = [held EXCEPT ![w] = FALSE]
        BY <2>3 DEF Known
      <3> QED BY <2>1, <2>3, <3>1
    <2> QED BY <2>2, <2>3
  <1>3. CASE Dispatch(w)
    BY <1>3 DEF Dispatch
  <1>4. CASE Recheck(w)
    BY <1>4 DEF Recheck
  <1>5. CASE Acknowledge(w)
    BY <1>5 DEF Acknowledge
  <1> QED BY <1>1, <1>2, <1>3, <1>4, <1>5

(* The server, whose answers may be lost. *)
LEMMA RemoteInvServer ==
  ASSUME RemoteInv, NEW w \in Writes,
         SendTemporary(w) \/ SendRename(w) \/ VerifyFile(w) \/ Unprobe(w)
  PROVE  RemoteInv'
  <1> USE DEF RemoteInv, RemoteTypeOK, AttemptInv, JournalAt, JournalFirst, VerifiedAt, RowTells,
              BeforeRow, fileVars, GoTo
  <1>1. CASE SendTemporary(w)
    BY <1>1 DEF SendTemporary
  <1>2. CASE SendRename(w)
    BY <1>2 DEF SendRename
  <1>3. CASE VerifyFile(w)
    BY <1>3 DEF VerifyFile, Readback
  <1>4. CASE Unprobe(w)
    BY <1>4 DEF Unprobe
  <1> QED BY <1>1, <1>2, <1>3, <1>4

(* The catalogue row, refusals and crashes. *)
LEMMA RemoteInvRow ==
  ASSUME RemoteInv, NEW w \in Writes,
         \/ Confirm(w) \/ Complete(w) \/ Return(w) \/ Probed(w)
         \/ RefuseWrite(w) \/ RecordFailure(w) \/ CrashWriter(w)
  PROVE  RemoteInv'
  <1> USE DEF RemoteInv, RemoteTypeOK, AttemptInv, JournalAt, JournalFirst, VerifiedAt, RowTells,
              BeforeRow, fileVars, GoTo, CommitOutcomes, Took
  <1>1. CASE Complete(w)
    BY <1>1 DEF Complete
  <1>2. CASE Return(w)
    BY <1>2 DEF Return
  <1>3. CASE Probed(w)
    BY <1>3 DEF Probed
  <1>4. CASE RefuseWrite(w)
    BY <1>4 DEF RefuseWrite
  <1>5. CASE RecordFailure(w)
    BY <1>5 DEF RecordFailure, Flag
  <1>6. CASE CrashWriter(w)
    BY <1>6 DEF CrashWriter
  <1>7. CASE Confirm(w)
    BY <1>7 DEF Confirm
  <1> QED BY <1>1, <1>2, <1>3, <1>4, <1>5, <1>6, <1>7

(* The operator's side: only a verified file, or none, can be asked to go. *)
LEMMA RemoteInvOperator ==
  ASSUME RemoteInv,
         EditDestination \/ \E w \in Writes : DeleteRead(w) \/ DeleteFile(w) \/ DeleteRow(w)
  PROVE  RemoteInv'
  <1> USE DEF RemoteInv, RemoteTypeOK, AttemptInv, JournalAt, JournalFirst, VerifiedAt, RowTells,
              BeforeRow, fileVars, CommitOutcomes, Took
  <1>1. CASE EditDestination
    BY <1>1 DEF EditDestination
  <1>2. ASSUME NEW w \in Writes, DeleteRead(w) PROVE RemoteInv'
    BY <1>2 DEF DeleteRead, Deletable
  <1>3. ASSUME NEW w \in Writes, DeleteFile(w) PROVE RemoteInv'
    BY <1>3 DEF DeleteFile
  <1>4. ASSUME NEW w \in Writes, DeleteRow(w) PROVE RemoteInv'
    BY <1>4 DEF DeleteRow
  <1> QED BY <1>1, <1>2, <1>3, <1>4

(* The inductive invariant: the place of an attempt, its journal phase, its *)
(* file, its row and a deletion of it agree, through lost answers, crashes *)
(* and edits of the storage location.                                      *)
THEOREM RemoteInvariant == RemoteSpec => []RemoteInv
  <1>1. RemoteInv /\ [RemoteNext]_remoteVars => RemoteInv'
    <2> SUFFICES ASSUME RemoteInv, [RemoteNext]_remoteVars PROVE RemoteInv'
      OBVIOUS
    <2>1. CASE RemoteNext
      BY <2>1, RemoteInvJournal, RemoteInvServer, RemoteInvRow, RemoteInvOperator
         DEF RemoteNext, Attempt
    <2>2. CASE UNCHANGED remoteVars
      BY <2>2 DEF remoteVars, RemoteInv, RemoteTypeOK, AttemptInv, JournalAt, JournalFirst,
                  VerifiedAt, RowTells, BeforeRow
    <2> QED BY <2>1, <2>2
  <1> QED BY <1>1, RemoteInvInit, PTL DEF RemoteSpec

(* Types, and a reservation an attempt holds is in the journal. *)
THEOREM RemoteTypeCorrect == RemoteSpec => []RemoteTypeOK
  BY RemoteInvariant, PTL DEF RemoteInv

(* Whatever RemoteWriteCoordination left on the server, its journal can    *)
(* name: there are no bytes without a dispatched operation.                *)
THEOREM JournalKnowsBytes == RemoteSpec => []BytesAreJournalled
  <1>1. RemoteInv => BytesAreJournalled
    BY DEF RemoteInv, AttemptInv, JournalFirst, BytesAreJournalled
  <1> QED BY <1>1, RemoteInvariant, PTL

(* create_backup says COMPLETED only of a file that was acknowledged and   *)
(* read back, and a successful probe has taken its file away.              *)
THEOREM CompletedBackupsAreTrue == RemoteSpec => []CompletedIsTrue
  <1>1. RemoteInv => CompletedIsTrue
    BY DEF RemoteInv, AttemptInv, JournalFirst, RowTells, CompletedIsTrue
  <1> QED BY <1>1, RemoteInvariant, PTL

(* The handler of create_backup leaves the recovery flag off only when     *)
(* nothing was sent, so that to retry is safe.                             *)
THEOREM RetryIsSafe == RemoteSpec => []RetryAdviceIsSafe
  <1>1. RemoteInv => RetryAdviceIsSafe
    BY DEF RemoteInv, RemoteTypeOK, AttemptInv, JournalFirst, RowTells, RetryAdviceIsSafe
  <1> QED BY <1>1, RemoteInvariant, PTL

(* What one step may do to the file and the journal entry of an attempt. *)
KeepsFile(v) ==
    /\ remote[v] # "none" /\ remote'[v] = "none" => verified[v]
    /\ journal[v] = "acknowledged" => journal'[v] = "acknowledged"

(* Only a probe's own cleanup and delete_backup erase files. *)
LEMMA StepKeepsFile ==
  ASSUME RemoteInv, [RemoteNext]_remoteVars, NEW v \in Writes
  PROVE  KeepsFile(v)
  <1> USE DEF RemoteInv, RemoteTypeOK, AttemptInv, JournalFirst, VerifiedAt, RowTells, KeepsFile, fileVars
  <1>1. CASE UNCHANGED remoteVars
    BY <1>1 DEF remoteVars
  <1>2. CASE EditDestination
    BY <1>2 DEF EditDestination
  <1>3. ASSUME NEW w \in Writes,
               ReserveWrite(w) \/ Dispatch(w) \/ Acknowledge(w)
        PROVE  KeepsFile(v)
    BY <1>3 DEF ReserveWrite, Dispatch, Acknowledge, Advance
  <1>4. ASSUME NEW w \in Writes,
               \/ Prepare(w) \/ Recheck(w) \/ VerifyFile(w) \/ Complete(w) \/ Return(w)
               \/ Probed(w) \/ RefuseWrite(w) \/ RecordFailure(w) \/ CrashWriter(w)
               \/ DeleteRead(w) \/ DeleteRow(w) \/ Confirm(w)
        PROVE  KeepsFile(v)
    BY <1>4 DEF Prepare, Recheck, VerifyFile, Complete, Return, Probed, RefuseWrite,
                RecordFailure, CrashWriter, DeleteRead, DeleteRow, Confirm
  <1>5. ASSUME NEW w \in Writes, SendTemporary(w) \/ SendRename(w) PROVE KeepsFile(v)
    BY <1>5 DEF SendTemporary, SendRename
  <1>6. ASSUME NEW w \in Writes, Unprobe(w) PROVE KeepsFile(v)
    BY <1>6 DEF Unprobe
  <1>7. ASSUME NEW w \in Writes, DeleteFile(w) PROVE KeepsFile(v)
    BY <1>7 DEF DeleteFile
  <1> QED BY <1>1, <1>2, <1>3, <1>4, <1>5, <1>6, <1>7 DEF RemoteNext, Attempt

(* delete_backup and the probe's cleanup erase only what was read back, and *)
(* an acknowledgement in the journal is never taken back.                  *)
THEOREM UnverifiedFilesStay == RemoteSpec => OnlyVerifiedErased
  <1>1. RemoteInv /\ [RemoteNext]_remoteVars =>
          [\A w \in Writes :
             /\ remote[w] # "none" /\ remote'[w] = "none" => verified[w]
             /\ journal[w] = "acknowledged" => journal'[w] = "acknowledged"]_remoteVars
    BY StepKeepsFile DEF KeepsFile
  <1> QED BY <1>1, RemoteInvariant, PTL DEF RemoteSpec, OnlyVerifiedErased

-----------------------------------------------------------------------------
(* The abstract specification: a remote write is an intent. *)

WriteStep == Write!Next \/ UNCHANGED <<writePhase, sends>>

(* The journal's transactions: what took effect queues or releases, what   *)
(* was undone after the reservation drops, and an unanswered reservation   *)
(* is queued and left.                                                     *)
LEMMA IntentJournal ==
  ASSUME RemoteInv, NEW w \in Writes, ReserveWrite(w) \/ Dispatch(w) \/ Acknowledge(w)
  PROVE  WriteStep
  <1> USE DEF RemoteInv, RemoteTypeOK, AttemptInv, JournalAt, JournalFirst, WriteStep, writePhase,
              fileVars, GoTo, CommitOutcomes, Took, Known, Advance
  <1>1. CASE ReserveWrite(w)
    <2>1. PICK c \in CommitOutcomes :
               /\ Advance(w, "none", "reserved", c)
               /\ held' = [held EXCEPT ![w] = Known(c)]
               /\ GoTo(w, IF Known(c) THEN "dispatch" ELSE "failing")
      BY <1>1 DEF ReserveWrite
    <2>2. held' = [held EXCEPT ![w] = IF c = "answered" THEN TRUE ELSE FALSE]
      <3>1. CASE c = "answered"
        BY <2>1, <3>1
      <3>2. CASE c # "answered"
        BY <2>1, <3>2
      <3> QED BY <3>1, <3>2
    <2>3. /\ at' = [at EXCEPT ![w] = IF c = "answered" THEN "dispatch" ELSE "failing"]
          /\ journal[w] = "none"
          /\ journal' = IF c # "undone" THEN [journal EXCEPT ![w] = "reserved"] ELSE journal
          /\ UNCHANGED sends
      BY <1>1, <2>1 DEF ReserveWrite
    <2>4. CASE c = "undone"
      <3>1. UNCHANGED writePhase
        BY <2>2, <2>3, <2>4
      <3> QED BY <2>3, <3>1
    <2>5. CASE c # "undone"
      <3>1. writePhase[w] = "none" /\ writePhase' = [writePhase EXCEPT ![w] = "queued"]
        <4>1. writePhase[w] = "none" /\ writePhase'[w] = "queued"
          BY <2>2, <2>3, <2>5
        <4>2. \A v \in Writes : v # w => writePhase'[v] = writePhase[v]
          BY <2>2, <2>3
        <4>3. /\ writePhase = [v \in Writes |-> writePhase[v]]
              /\ writePhase' = [v \in Writes |-> writePhase'[v]]
          OBVIOUS
        <4> HIDE DEF writePhase
        <4> QED BY <4>1, <4>2, <4>3
      <3> QED BY <2>3, <3>1 DEF Write!Next, Write!Queue, Write!Move
    <2> QED BY <2>4, <2>5
  <1>2. CASE Dispatch(w)
    <2> PICK c \in CommitOutcomes :
               /\ Advance(w, "reserved", "dispatched", c)
               /\ GoTo(w, IF Known(c) THEN "recheck" ELSE "failing")
      BY <1>2 DEF Dispatch
    <2>1. UNCHANGED <<sends, held>> /\ at[w] = "dispatch"
      BY <1>2 DEF Dispatch
    <2>2. writePhase[w] = "queued"
      BY <2>1
    <2>3. CASE c = "undone"
      <3>1. writePhase' = [writePhase EXCEPT ![w] = "dropped"]
        BY <2>1, <2>3
      <3> QED BY <2>1, <2>2, <3>1 DEF Write!Next, Write!Drop, Write!Move
    <2>4. CASE c # "undone"
      <3>1. writePhase' = [writePhase EXCEPT ![w] = "released"]
        BY <2>1, <2>4
      <3> QED BY <2>1, <2>2, <3>1 DEF Write!Next, Write!Release, Write!Move
    <2> QED BY <2>3, <2>4
  <1>3. CASE Acknowledge(w)
    <2>1. UNCHANGED <<sends, held>>
      BY <1>3 DEF Acknowledge
    <2>2. UNCHANGED writePhase
      BY <1>3 DEF Acknowledge
    <2> QED BY <2>1, <2>2
  <1> QED BY <1>1, <1>2, <1>3

(* The bytes leave once, after the release. *)
LEMMA IntentSend ==
  ASSUME RemoteInv, NEW w \in Writes, SendTemporary(w)
  PROVE  WriteStep
  <1> USE DEF RemoteInv, RemoteTypeOK, AttemptInv, JournalAt, SendTemporary, GoTo
  <1>1. writePhase[w] = "released" /\ sends[w] = 0
    BY DEF writePhase
  <1>2. sends' = [sends EXCEPT ![w] = 1]
    BY <1>1
  <1>3. UNCHANGED writePhase
    BY DEF writePhase
  <1> QED BY <1>1, <1>2, <1>3 DEF WriteStep, Write!Next, Write!Transmit

(* An attempt that stops with its reservation drops the intent; stopped    *)
(* anywhere else, or stopped already, it leaves the intent as it is.       *)
LEMMA IntentStop ==
  ASSUME RemoteInv, NEW w \in Writes, NEW to \in {"failing", "over"}, at[w] # "start",
         GoTo(w, to), UNCHANGED <<journal, held, sends>>
  PROVE  WriteStep
  <1> USE DEF RemoteInv, RemoteTypeOK, AttemptInv, JournalAt, JournalFirst, GoTo
  <1>1. CASE at[w] = "dispatch"
    <2>1. writePhase[w] = "queued" /\ writePhase' = [writePhase EXCEPT ![w] = "dropped"]
      BY <1>1 DEF writePhase
    <2> QED BY <2>1 DEF WriteStep, Write!Next, Write!Drop, Write!Move
  <1>2. CASE at[w] # "dispatch"
    <2>1. journal[w] = "reserved" => at[w] \in {"failing", "over"}
      BY <1>2
    <2>2. UNCHANGED writePhase
      BY <2>1 DEF writePhase
    <2> QED BY <2>2 DEF WriteStep
  <1> QED BY <1>1, <1>2

(* Past the release, places and files do not show. *)
LEMMA IntentAttempt ==
  ASSUME RemoteInv, NEW w \in Writes,
         \/ Prepare(w) \/ Recheck(w) \/ SendRename(w) \/ VerifyFile(w) \/ Confirm(w)
         \/ Complete(w) \/ Return(w) \/ Unprobe(w) \/ Probed(w) \/ RefuseWrite(w) \/ RecordFailure(w)
         \/ CrashWriter(w)
  PROVE  WriteStep
  <1> USE DEF RemoteInv, RemoteTypeOK, AttemptInv, JournalAt, fileVars, GoTo
  <1>1. CASE RefuseWrite(w) \/ RecordFailure(w) \/ CrashWriter(w)
    BY <1>1, IntentStop DEF RefuseWrite, RecordFailure, CrashWriter
  <1>2. CASE \/ Prepare(w) \/ Recheck(w) \/ SendRename(w) \/ VerifyFile(w) \/ Confirm(w)
             \/ Complete(w) \/ Return(w) \/ Unprobe(w) \/ Probed(w)
    <2>1. UNCHANGED <<journal, held, sends>> /\ \A v \in Writes : v # w => at'[v] = at[v]
      BY <1>2 DEF Prepare, Recheck, SendRename, VerifyFile, Confirm, Complete, Return, Unprobe,
             Probed
    <2>2. journal[w] # "reserved"
      BY <1>2 DEF Prepare, Recheck, SendRename, VerifyFile, Confirm, Complete, Return, Unprobe,
             Probed
    <2>3. UNCHANGED writePhase
      BY <2>1, <2>2 DEF writePhase
    <2> QED BY <2>1, <2>3 DEF WriteStep
  <1> QED BY <1>1, <1>2

(* Nor does what the operator does. *)
LEMMA IntentOperator ==
  ASSUME RemoteInv,
         EditDestination \/ \E w \in Writes : DeleteRead(w) \/ DeleteFile(w) \/ DeleteRow(w)
  PROVE  WriteStep
  <1>1. UNCHANGED <<journal, held, at, sends>>
    BY DEF EditDestination, DeleteRead, DeleteFile, DeleteRow, fileVars
  <1> QED BY <1>1 DEF WriteStep, writePhase

(* The journal, the transfer and the catalogue of create_backup and of the *)
(* probe together keep the promise of StagedIntent.                        *)
THEOREM WritesRefinement == RemoteSpec => WritesImplementIntent
  <1>1. RemoteInit => Write!Init
    BY DEF RemoteInit, Write!Init, writePhase
  <1>2. RemoteInv /\ [RemoteNext]_remoteVars => WriteStep
    <2> SUFFICES ASSUME RemoteInv, [RemoteNext]_remoteVars PROVE WriteStep
      OBVIOUS
    <2>1. CASE RemoteNext
      BY <2>1, IntentJournal, IntentSend, IntentAttempt, IntentOperator DEF RemoteNext, Attempt
    <2>2. CASE UNCHANGED remoteVars
      BY <2>2 DEF remoteVars, WriteStep, writePhase
    <2> QED BY <2>1, <2>2
  <1> QED BY <1>1, <1>2, RemoteInvariant, PTL
          DEF RemoteSpec, WritesImplementIntent, Write!Spec, WriteStep
=============================================================================
