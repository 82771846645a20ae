---------------------------- MODULE RemoteBackup ----------------------------
(***************************************************************************)
(* Writing a backup, or a connectivity probe, to an SFTP or FTPS server:   *)
(* a journal with its own transactions, a remote file, and a catalogue row *)
(* that is committed last.                                                 *)
(*                                                                         *)
(* Modelled code: services/remote_write_journal.py,                        *)
(* services/remote_write_coordination.py, the remote paths of              *)
(* create_backup, test_storage_location and delete_backup in               *)
(* services/backup.py, and the recovery flag of modules/backup/models.py.  *)
(*                                                                         *)
(* Every attempt has an operation and a file name of its own; the attempts *)
(* share the storage location, which an operator edits at any time.  The   *)
(* answer of a commit, or of the server, may be lost, and a process may    *)
(* die between any two steps.                                              *)
(***************************************************************************)
EXTENDS Naturals

CONSTANTS
    Writes,        \* attempts, by operation_id
    Probes,        \* those that are connectivity probes
    Destinations   \* configurations of the storage location

VARIABLES
    journal,  \* remote_write_operations.phase ("none": no row)
    remote,   \* the file: none, partial (temporary name), whole, damaged
    sends,    \* ghost: how often its bytes were sent
    row,      \* the committed outcome: none, completed, failed
    flagged,  \* its remote_write.recovery_required
    held,     \* the attempt's RemoteBackupWrite: reserve returned it
    verified, \* the file was read back and matched
    bound,    \* the destination the attempt was planned for
    dest,     \* the storage location's configuration
    at,       \* where an attempt is
    erase     \* a deletion of the backup: none, read, sent, tried, over

fileVars == <<remote, sends>>
remoteVars ==
    <<journal, remote, sends, row, flagged, held, verified, bound, dest, at, erase>>

RemoteInit ==
    /\ Probes \subseteq Writes
    /\ journal = [w \in Writes |-> "none"] /\ remote = [w \in Writes |-> "none"]
    /\ sends = [w \in Writes |-> 0]
    /\ row = [w \in Writes |-> "none"] /\ flagged = [w \in Writes |-> FALSE]
    /\ held = [w \in Writes |-> FALSE] /\ verified = [w \in Writes |-> FALSE]
    /\ dest \in Destinations /\ bound = [w \in Writes |-> dest]
    /\ at = [w \in Writes |-> "start"] /\ erase = [w \in Writes |-> "none"]

GoTo(w, place) == at' = [at EXCEPT ![w] = place]

-----------------------------------------------------------------------------
(* RemoteWriteJournal: one compare-and-set per transaction.                *)

(* What a commit leaves: done and known, done and unanswered, or not done. *)
CommitOutcomes == {"answered", "unanswered", "undone"}
Took(outcome) == outcome # "undone"

(* Mutant: an unanswered transaction counts as done. *)
KnownOptimistic(outcome) == TRUE

(* A caller goes on only from an answer; any exception ends the attempt. *)
Known(outcome) == outcome = "answered"

(* advance: the update matches the phase before, or changes nothing and raises. *)
Advance(w, before, after, outcome) ==
    /\ journal[w] = before
    /\ journal' = IF Took(outcome) THEN [journal EXCEPT ![w] = after] ELSE journal

(* check_destination: the location still is what the plan was made for. *)
DestinationHolds(w) == dest = bound[w]

-----------------------------------------------------------------------------
(* create_backup and the probe, from the resolved backend on. *)

(* prepare_save, with the backend made from the location as it is now. *)
Prepare(w) ==
    /\ at[w] = "start"
    /\ bound' = [bound EXCEPT ![w] = dest]
    /\ GoTo(w, "reserve")
    /\ UNCHANGED <<journal, fileVars, row, flagged, held, verified, dest, erase>>

(* RemoteBackupWrite.reserve *)
ReserveWrite(w) ==
    /\ at[w] = "reserve" /\ DestinationHolds(w)
    /\ \E c \in CommitOutcomes :
          /\ Advance(w, "none", "reserved", c)
          /\ held' = [held EXCEPT ![w] = Known(c)]
          /\ GoTo(w, IF Known(c) THEN "dispatch" ELSE "failing")
    /\ UNCHANGED <<fileVars, row, flagged, verified, bound, dest, erase>>

(* dispatch, up to its second look at the destination. *)
Dispatch(w) ==
    /\ at[w] = "dispatch" /\ DestinationHolds(w)
    /\ \E c \in CommitOutcomes :
          /\ Advance(w, "reserved", "dispatched", c)
          /\ GoTo(w, IF Known(c) THEN "recheck" ELSE "failing")
    /\ UNCHANGED <<fileVars, row, flagged, held, verified, bound, dest, erase>>

Recheck(w) ==
    /\ at[w] = "recheck" /\ DestinationHolds(w)
    /\ GoTo(w, "send")
    /\ UNCHANGED <<journal, fileVars, row, flagged, held, verified, bound, dest, erase>>

(* Mutant: an upload that heard an error is repeated. *)
SendTemporaryRepeats(w) ==
    /\ at[w] = "send"
    /\ remote' = [remote EXCEPT ![w] = "partial"]
    /\ sends' = [sends EXCEPT ![w] = @ + 1]
    /\ \E next \in {"rename", "send", "failing"} : GoTo(w, next)
    /\ UNCHANGED <<journal, row, flagged, held, verified, bound, dest, erase>>

(* save_prepared: the bytes under the temporary name.  The server may keep *)
(* some of them though the attempt hears an error.                         *)
SendTemporary(w) ==
    /\ at[w] = "send"
    /\ remote' = [remote EXCEPT ![w] = "partial"]
    /\ sends' = [sends EXCEPT ![w] = @ + 1]
    /\ \E next \in {"rename", "failing"} : GoTo(w, next)
    /\ UNCHANGED <<journal, row, flagged, held, verified, bound, dest, erase>>

(* The rename; a server may acknowledge what it did not keep whole. *)
SendRename(w) ==
    /\ at[w] = "rename"
    /\ \E f \in {"whole", "damaged"} : remote' = [remote EXCEPT ![w] = f]
    /\ \E next \in {"acknowledge", "failing"} : GoTo(w, next)
    /\ UNCHANGED <<journal, sends, row, flagged, held, verified, bound, dest, erase>>

(* acknowledge; it looks at the destination afterwards. *)
Acknowledge(w) ==
    /\ at[w] = "acknowledge"
    /\ \E c \in CommitOutcomes :
          /\ Advance(w, "dispatched", "acknowledged", c)
          /\ GoTo(w, IF c = "answered" /\ DestinationHolds(w) THEN "verify" ELSE "failing")
    /\ UNCHANGED <<fileVars, row, flagged, held, verified, bound, dest, erase>>

(* Mutant: a file of that name is enough. *)
ReadbackPresent(w) == remote[w] \in {"whole", "damaged"}

(* verify_identity of the loaded bytes. *)
Readback(w) == remote[w] = "whole"

(* The readback, through the backend the attempt was made with, after one  *)
(* look at the destination                                                 *)
VerifyFile(w) ==
    /\ at[w] = "verify" /\ DestinationHolds(w) /\ Readback(w)
    /\ verified' = [verified EXCEPT ![w] = TRUE]
    /\ GoTo(w, IF w \in Probes THEN "unprobe" ELSE "confirm")
    /\ UNCHANGED <<journal, fileVars, row, flagged, held, bound, dest, erase>>

(* and before the last one. *)
Confirm(w) ==
    /\ at[w] = "confirm" /\ DestinationHolds(w)
    /\ GoTo(w, "complete")
    /\ UNCHANGED <<journal, fileVars, row, flagged, held, verified, bound, dest, erase>>

(* The COMPLETED row, with the location as it may be by then.  When the    *)
(* commit raises the session has rolled back, so the handler has no row    *)
(* left to write.                                                          *)
Complete(w) ==
    /\ at[w] = "complete"
    /\ \E c \in CommitOutcomes :
          /\ row' = IF Took(c) THEN [row EXCEPT ![w] = "completed"] ELSE row
          /\ GoTo(w, IF c = "answered" THEN "late" ELSE "over")
    /\ UNCHANGED <<journal, fileVars, flagged, held, verified, bound, dest, erase>>

(* The refresh and the last checkpoint pass. *)
Return(w) ==
    /\ at[w] = "late"
    /\ GoTo(w, "over")
    /\ UNCHANGED <<journal, fileVars, row, flagged, held, verified, bound, dest, erase>>

(* A probe's file is erased once its content was verified; its outcome is  *)
(* a success only if that was acknowledged.                                *)
Unprobe(w) ==
    /\ at[w] = "unprobe" /\ DestinationHolds(w)
    /\ \E gone \in BOOLEAN, known \in BOOLEAN :
          /\ known => gone
          /\ remote' = IF gone THEN [remote EXCEPT ![w] = "none"] ELSE remote
          /\ GoTo(w, IF known THEN "probed" ELSE "failing")
    /\ UNCHANGED <<journal, sends, row, flagged, held, verified, bound, dest, erase>>

Probed(w) ==
    /\ at[w] = "probed"
    /\ \E c \in CommitOutcomes : row' = IF Took(c) THEN [row EXCEPT ![w] = "completed"] ELSE row
    /\ GoTo(w, "over")
    /\ UNCHANGED <<journal, fileVars, flagged, held, verified, bound, dest, erase>>

(* A checkpoint, a destination that changed, a transport error or a refused *)
(* compare-and-set raises.                                                 *)
RefuseWrite(w) ==
    /\ at[w] \notin {"start", "probed", "failing", "over"}
    /\ GoTo(w, "failing")
    /\ UNCHANGED <<journal, fileVars, row, flagged, held, verified, bound, dest, erase>>

(* Mutant: a failed attempt is always free to be repeated. *)
FlagForgotten(w) == w \in Probes

(* A backup needs recovery from the moment reserve returned, a probe from  *)
(* the moment it was planned.                                              *)
Flag(w) == w \in Probes \/ held[w]

(* The handler: FAILED, with the recovery flag.  A late failure overwrites *)
(* the COMPLETED row, unless that was deleted meanwhile.                   *)
RecordFailure(w) ==
    /\ at[w] = "failing"
    /\ \E c \in CommitOutcomes :
          LET writes == Took(c) /\ erase[w] # "over"
          IN /\ row' = IF writes THEN [row EXCEPT ![w] = "failed"] ELSE row
             /\ flagged' = IF writes THEN [flagged EXCEPT ![w] = Flag(w)] ELSE flagged
    /\ GoTo(w, "over")
    /\ UNCHANGED <<journal, fileVars, held, verified, bound, dest, erase>>

(* The process dies, with the row it had not committed. *)
CrashWriter(w) ==
    /\ at[w] \notin {"start", "over"}
    /\ GoTo(w, "over")
    /\ UNCHANGED <<journal, fileVars, row, flagged, held, verified, bound, dest, erase>>

-----------------------------------------------------------------------------
(* The operator's side. *)

(* Edits, disabling and deletion of the location; it may also be restored. *)
EditDestination ==
    /\ \E v \in Destinations \ {dest} : dest' = v
    /\ UNCHANGED <<journal, fileVars, row, flagged, held, verified, bound, at, erase>>

(* Mutant: the recovery flag is only shown. *)
DeletableShown(w) == row[w] # "none"

(* delete_backup refuses while remote_write_recovery_required. *)
Deletable(w) == row[w] # "none" /\ ~flagged[w]

DeleteRead(w) ==
    /\ w \notin Probes /\ erase[w] \in {"none", "tried"} /\ Deletable(w)
    /\ erase' = [erase EXCEPT ![w] = "read"]
    /\ UNCHANGED <<journal, fileVars, row, flagged, held, verified, bound, dest, at>>

(* The file, when the row has a storage_path; unless the server confirms,  *)
(* the row is kept.  The backend is made from the location as it is now: a *)
(* server that never had the file also confirms that it is not there.      *)
DeleteFile(w) ==
    /\ erase[w] = "read"
    /\ \E gone \in BOOLEAN, known \in BOOLEAN :
          /\ known => gone \/ ~DestinationHolds(w)
          /\ remote' = IF gone /\ held[w] THEN [remote EXCEPT ![w] = "none"] ELSE remote
          /\ erase' = [erase EXCEPT ![w] = IF known THEN "sent" ELSE "tried"]
    /\ UNCHANGED <<journal, sends, row, flagged, held, verified, bound, dest, at>>

DeleteRow(w) ==
    /\ erase[w] = "sent"
    /\ \E c \in CommitOutcomes :
          /\ row' = IF Took(c) THEN [row EXCEPT ![w] = "none"] ELSE row
          /\ flagged' = IF Took(c) THEN [flagged EXCEPT ![w] = FALSE] ELSE flagged
          /\ erase' = [erase EXCEPT ![w] = IF Took(c) THEN "over" ELSE "tried"]
    /\ UNCHANGED <<journal, fileVars, held, verified, bound, dest, at>>

-----------------------------------------------------------------------------
Attempt(w) ==
    \/ Prepare(w) \/ ReserveWrite(w) \/ Dispatch(w) \/ Recheck(w)
    \/ SendTemporary(w) \/ SendRename(w) \/ Acknowledge(w) \/ VerifyFile(w)
    \/ Confirm(w) \/ Complete(w) \/ Return(w) \/ Unprobe(w) \/ Probed(w)
    \/ RefuseWrite(w) \/ RecordFailure(w) \/ CrashWriter(w)

RemoteNext ==
    \/ \E w \in Writes : Attempt(w) \/ DeleteRead(w) \/ DeleteFile(w) \/ DeleteRow(w)
    \/ EditDestination

RemoteSpec == RemoteInit /\ [][RemoteNext]_remoteVars

-----------------------------------------------------------------------------
(* Types; and an attempt holds its reservation only if the journal has it. *)
RemoteTypeOK ==
    /\ journal \in [Writes -> {"none", "reserved", "dispatched", "acknowledged"}]
    /\ remote \in [Writes -> {"none", "partial", "whole", "damaged"}]
    /\ sends \in [Writes -> Nat]
    /\ row \in [Writes -> {"none", "completed", "failed"}]
    /\ flagged \in [Writes -> BOOLEAN] /\ held \in [Writes -> BOOLEAN]
    /\ verified \in [Writes -> BOOLEAN]
    /\ dest \in Destinations /\ bound \in [Writes -> Destinations]
    /\ at \in [Writes -> {"start", "reserve", "dispatch", "recheck", "send", "rename",
                          "acknowledge", "verify", "confirm", "complete", "late",
                          "unprobe", "probed", "failing", "over"}]
    /\ erase \in [Writes -> {"none", "read", "sent", "tried", "over"}]
    /\ \A w \in Writes : held[w] => journal[w] # "none"

(* Whatever lies on the server is in the journal as dispatched: after any  *)
(* crash or lost answer its name can be found there, though the catalogue  *)
(* row was never committed, or was deleted against another location.       *)
BytesAreJournalled ==
    \A w \in Writes : remote[w] # "none" => journal[w] \in {"dispatched", "acknowledged"}

(* A completed backup is on the server, whole and acknowledged, until an   *)
(* operator asks for its deletion; a successful probe left nothing.        *)
CompletedIsTrue ==
    \A w \in Writes : row[w] = "completed" =>
        /\ journal[w] = "acknowledged"
        /\ IF w \in Probes THEN remote[w] = "none"
           ELSE remote[w] = "whole" \/ erase[w] # "none"

(* A row that failed without the recovery flag, whose message advises to   *)
(* retry, stands for an attempt that sent nothing and never will.          *)
RetryAdviceIsSafe ==
    \A w \in Writes : row[w] = "failed" /\ ~flagged[w] =>
        journal[w] \in {"none", "reserved"} /\ remote[w] = "none"

(* Only files that were read back are erased: what an unconfirmed attempt  *)
(* left on the server stays for inspection, and the journal never steps    *)
(* back over it.                                                           *)
OnlyVerifiedErased ==
    [][\A w \in Writes :
         /\ remote[w] # "none" /\ remote'[w] = "none" => verified[w]
         /\ journal[w] = "acknowledged" => journal'[w] = "acknowledged"]_remoteVars

-----------------------------------------------------------------------------
(* An attempt as an intent: the journal queues and releases it.  It is      *)
(* dropped when the reservation it held is all there is at its end; a       *)
(* reservation whose answer was lost stays queued, with no owner.           *)
writePhase ==
    [w \in Writes |->
        CASE journal[w] = "none" -> "none"
          [] journal[w] = "reserved" ->
                IF held[w] /\ at[w] \in {"failing", "over"} THEN "dropped" ELSE "queued"
          [] OTHER -> "released"]

Write == INSTANCE StagedIntent WITH Changes <- Writes, phase <- writePhase, sent <- sends

(* A remote write is an intent like a staged change: reserved once, then   *)
(* dropped or released by the journal, and sent only after its release and *)
(* at most once, whatever transactions were undone or left unanswered and  *)
(* whenever the process died or the location was edited.                   *)
WritesImplementIntent == Write!Spec
=============================================================================
