---------------------------- MODULE EvidenceLog ----------------------------
(***************************************************************************)
(* What the audit log promises, without hashes, anchors, locks or          *)
(* transactions: records are added behind all the others and are never     *)
(* changed; they leave from the front, after their period; and a verdict   *)
(* on the whole log is "valid" until somebody changes the table behind the *)
(* program's back, and "broken" for ever after.                            *)
(* AuditChain implements this specification (Evidence!Spec there).         *)
(***************************************************************************)
EXTENDS Integers

CONSTANTS
    Before(_, _),  \* the order of the records
    Retention      \* the period a record is kept

VARIABLES records, clock, verdict

Init == clock = 1 /\ verdict = "valid"

Record ==
    /\ records \subseteq records'
    /\ \A r \in records, s \in records' \ records : Before(r, s)
    /\ UNCHANGED <<clock, verdict>>

Retire ==
    /\ records' \subseteq records
    /\ \A r \in records \ records' :
          /\ r.ts < clock - Retention
          /\ \A s \in records' : ~Before(s, r)
    /\ UNCHANGED <<clock, verdict>>

Pass == clock' = clock + 1 /\ UNCHANGED <<records, verdict>>

Breach == verdict = "valid" /\ verdict' = "broken" /\ UNCHANGED clock

Next == Record \/ Retire \/ Pass \/ Breach

Spec == Init /\ [][Next]_<<records, clock, verdict>>
=============================================================================
