----------------------------- MODULE AuditChain -----------------------------
(***************************************************************************)
(* The audit log as a hash chain with a signed anchor.                     *)
(*                                                                         *)
(* Modelled code: AuditService.persist_record, _store_entry and            *)
(* validate_audit_chain (services/audit.py), prune_prefix and the anchor   *)
(* (services/audit_chain.py, core/audit_state.py), the beat task           *)
(* security.cleanup_audit_data.                                            *)
(*                                                                         *)
(* Every transaction that appends or prunes holds the chain's advisory     *)
(* lock from its first audit statement to its end, so there is one         *)
(* uncommitted version of the log at a time: the lock holder's view.       *)
(* A hash is modelled by the identity of the row it signs; intact says     *)
(* that the row's body still is the one that was signed.                   *)
(***************************************************************************)
EXTENDS Integers, FiniteSets

CONSTANTS
    Writers,      \* transactions that log actions
    Cleaners,     \* transactions of the retention task
    NoTx,         \* nobody holds the chain's lock
    NoHash,       \* NULL in prev_hash and row_hmac
    NoPos,        \* no position in the anchor
    Unsealed,     \* the anchor the migration created
    Legacies,     \* how many unsigned rows and then signed rows preceded
                  \* the append sequence: a set of pairs
    Retention,    \* the retention period
    BatchSize,    \* rows one batch may delete
    MaxSeq,       \* bound: values of the append sequence
    MaxTime       \* bound: the clock

Txns == Writers \cup Cleaners

(* Rows, what the anchor keeps of a row, and the sealed anchor. *)
Row == [id : Int, seq : Nat, ts : Nat, prev : Int \cup {NoHash},
        hash : Int \cup {NoHash}, intact : BOOLEAN]
Pos == [id : Int, seq : Nat, ts : Nat, hash : Int \cup {NoHash}]
Anchor == [tail : Pos \cup {NoPos}, boundary : Pos \cup {NoPos},
           live : Nat, legacy : Nat, unsigned : Nat]

ASSUME ChainAssumption ==
    /\ Writers \cap Cleaners = {}
    /\ NoTx \notin Txns
    /\ Legacies \subseteq Nat \X Nat
    /\ Retention \in Nat /\ BatchSize \in Nat \ {0}
    /\ MaxSeq \in Nat /\ MaxTime \in Nat
    /\ NoHash \notin Int /\ NoPos \notin Pos /\ Unsealed \notin Anchor

VARIABLES
    log,        \* committed rows of audit.audit_logs
    anchor,     \* committed row of audit.audit_chain_state
    holder,     \* the transaction holding the chain's advisory lock
    vlog,       \* the log as the holder sees it
    vanchor,    \* the anchor as the holder sees it
    seq,        \* the next value of the append sequence: not transactional
    now,        \* the clock
    tpc,        \* a transaction: idle, made (its record or cutoff is fixed), open
    stamp,      \* made: the record's occurrence time, or a cleaner's cutoff
    tampered    \* somebody changed the table behind the program's back

vars == <<log, anchor, holder, vlog, vanchor, seq, now, tpc, stamp, tampered>>
committed == <<log, anchor>>
view == <<holder, vlog, vanchor>>

-----------------------------------------------------------------------------
(* Rows.  seq 0 is NULL in append_sequence: a row older than the sequence. *)

Signed(r) == r.hash # NoHash

(* position: what the anchor keeps of a row. *)
Position(r) == [id |-> r.id, seq |-> r.seq, ts |-> r.ts, hash |-> r.hash]

(* verify_body *)
BodyOK(r) == IF Signed(r) THEN r.intact ELSE r.seq = 0

(* Mutant: the rows are ordered by their time of occurrence. *)
BeforeByTime(r, s) == r.ts < s.ts \/ (r.ts = s.ts /\ r.id < s.id)

(* The order of every query: COALESCE(append_sequence, 0), timestamp, id.  *)
Before(r, s) ==
    \/ r.seq < s.seq
    \/ r.seq = s.seq /\ r.ts < s.ts
    \/ r.seq = s.seq /\ r.ts = s.ts /\ r.id < s.id

Earlier(r, S) == {s \in S : Before(s, r)}
Last(S) == CHOOSE r \in S : \A s \in S \ {r} : Before(s, r)
First(S) == CHOOSE r \in S : \A s \in S \ {r} : Before(r, s)
FirstRows(S, n) == {r \in S : Cardinality(Earlier(r, S)) < n}

-----------------------------------------------------------------------------
(* The anchor. *)

(* captured_state: what the first transaction seals of an unsealed log. *)
Captured(S) ==
    [tail |-> IF S = {} THEN NoPos ELSE Position(Last(S)),
     boundary |-> NoPos,
     live |-> Cardinality(S),
     legacy |-> Cardinality({r \in S : r.seq = 0}),
     unsigned |-> Cardinality({r \in S : ~Signed(r)})]

(* load_locked_state *)
Loaded(a, S) == IF a = Unsealed THEN Captured(S) ELSE a

(* check_locked_tail, and verified_snapshot_state on the same question. *)
TailOK(a, S) ==
    IF a.live # 0 THEN /\ S # {}
                       /\ Position(Last(S)) = a.tail
                       /\ BodyOK(Last(S))
                  ELSE S = {} /\ a.tail = a.boundary

(* validate_state, which every store of the anchor goes through. *)
ValidState(a) ==
    /\ a.legacy <= a.live
    /\ a.live >= 0 /\ a.legacy >= 0
    /\ a.tail = NoPos => a.live = 0 /\ a.boundary = NoPos
    /\ a.boundary # NoPos => ~Before(a.tail, a.boundary)
    /\ a.live = 0 => a.tail = a.boundary
    /\ (a.live # 0 /\ a.boundary # NoPos) => Before(a.boundary, a.tail)

HashOf(p) == IF p = NoPos THEN NoHash ELSE p.hash
SeqOf(p) == IF p = NoPos THEN 0 ELSE p.seq

-----------------------------------------------------------------------------
(* Appending: the savepoint of persist_record. *)

AppendRefused(a, S) == ~TailOK(a, S) \/ seq <= SeqOf(a.tail)

(* Mutant: the record is stored without its append_sequence. *)
NewRowUnsequenced(a, ts) ==
    [id |-> seq, seq |-> 0, ts |-> ts, prev |-> HashOf(a.tail), hash |-> seq, intact |-> TRUE]

NewRow(a, ts) ==
    [id |-> seq, seq |-> seq, ts |-> ts, prev |-> HashOf(a.tail), hash |-> seq, intact |-> TRUE]

(* Mutant: the row is linked to the newest row by time of occurrence. *)
AfterAppendByTime(a, S, ts) ==
    LET newest == CHOOSE r \in S : \A s \in S \ {r} : BeforeByTime(s, r)
        r == [NewRow(a, ts) EXCEPT !.prev = IF S = {} THEN HashOf(a.boundary) ELSE newest.hash]
    IN [log |-> S \cup {r}, anchor |-> [a EXCEPT !.tail = Position(r), !.live = @ + 1]]

AfterAppend(a, S, ts) ==
    LET r == NewRow(a, ts)
    IN [log |-> S \cup {r}, anchor |-> [a EXCEPT !.tail = Position(r), !.live = @ + 1]]

-----------------------------------------------------------------------------
(* Retention: the savepoint of prune_prefix. *)

(* Mutant: nothing is deleted before a whole batch has expired. *)
ChosenFull(S, cutoff) ==
    LET batch == FirstRows(S, BatchSize)
    IN IF Cardinality(batch) = BatchSize /\ \A r \in batch : r.ts < cutoff THEN batch ELSE {}

(* The loop ends at the first row of the batch that is not expired. *)
Chosen(S, cutoff) ==
    LET batch == FirstRows(S, BatchSize)
    IN {r \in batch : \A s \in batch : ~Before(r, s) => s.ts < cutoff}

(* expected and saw_signature when the loop reaches r. *)
Expected(r, a, S) ==
    IF Earlier(r, S) = {} THEN HashOf(a.boundary) ELSE Last(Earlier(r, S)).hash
SawSignature(r, a, S) ==
    HashOf(a.boundary) # NoHash \/ \E s \in Earlier(r, S) : Signed(s)

(* Mutant: the bodies of the rows are not verified before they go. *)
PruneRefusedUnread(a, S, chosen) ==
    \/ ~TailOK(a, S)
    \/ a.live # Cardinality(S)
    \/ \E r \in chosen : r.prev # Expected(r, a, S)

(* The conditions under which the batch is given up with an error. *)
PruneRefused(a, S, chosen) ==
    \/ ~TailOK(a, S)
    \/ a.live # Cardinality(S)
    \/ \E r \in chosen : \/ ~BodyOK(r)
                         \/ r.prev # Expected(r, a, S)
                         \/ ~Signed(r) /\ SawSignature(r, a, S)
    \/ /\ chosen # {} /\ chosen # S
       /\ LET f == First(S \ chosen)
          IN \/ ~BodyOK(f)
             \/ SawSignature(f, a, S) /\ (~Signed(f) \/ f.prev # Expected(f, a, S))
    \/ chosen = S /\ S # {} /\ Position(Last(S)) # a.tail

AfterPrune(a, S, chosen) ==
    [log |-> S \ chosen,
     anchor |-> [a EXCEPT !.boundary = Position(Last(chosen)),
                          !.live = @ - Cardinality(chosen),
                          !.legacy = @ - Cardinality({r \in chosen : r.seq = 0})]]

-----------------------------------------------------------------------------
(* Verification: validate_audit_chain on one snapshot.  A window is given  *)
(* by a first row, a last row (NoPos: no bound) and a size.                *)

SealOK(S, a) ==
    \/ a = Unsealed
    \/ /\ a.live = Cardinality(S)
       /\ a.legacy = Cardinality({r \in S : r.seq = 0})
       /\ Cardinality({r \in S : ~Signed(r)}) <= a.unsigned
       /\ TailOK(a, S)

Picked(S, from, to, size) ==
    FirstRows({r \in S : /\ from # NoPos => ~Before(r, from)
                         /\ to # NoPos => ~Before(to, r)}, size)

(* start_exists, end_exists and bounds_ordered: a bound that is given is a *)
(* row of the log, and the window does not end before it starts.           *)
BoundsOK(S, from, to) ==
    /\ {from, to} \subseteq S \cup {NoPos}
    /\ (from # NoPos /\ to # NoPos) => ~Before(to, from)

Valid(S, a, from, to, size) ==
    LET picked == Picked(S, from, to, size)
        older == IF picked = {} THEN {} ELSE Earlier(First(picked), S)
        start == IF older # {} THEN Last(older).hash
                 ELSE IF a = Unsealed THEN NoHash ELSE HashOf(a.boundary)
        signedBefore(r) == {s \in Earlier(r, picked) : Signed(s)}
        lastSeen(r) == IF signedBefore(r) = {} THEN start ELSE Last(signedBefore(r)).hash
    IN /\ SealOK(S, a)
       /\ BoundsOK(S, from, to)
       /\ older # {} => BodyOK(Last(older))
       /\ \A r \in picked :
             IF Signed(r) THEN r.prev = lastSeen(r) /\ BodyOK(r)
                          ELSE lastSeen(r) = NoHash /\ r.seq = 0

WholeLogValid(S, a) == Valid(S, a, NoPos, NoPos, Cardinality(S) + 1)

-----------------------------------------------------------------------------
(* The rows from before the append sequence: u unsigned ones, then s       *)
(* signed ones, linked in the order of the queries.  A history the code    *)
(* refuses from the start is left out: one whose signed head an older      *)
(* retention had deleted, or with an unsigned row behind a signed one.     *)
LegacyRows(u, s) ==
    {[id |-> k - (u + s), seq |-> 0, ts |-> 0, intact |-> TRUE,
      prev |-> IF k > u + 1 THEN k - 1 - (u + s) ELSE NoHash,
      hash |-> IF k > u THEN k - (u + s) ELSE NoHash] : k \in 1..(u + s)}

Init ==
    /\ \E p \in Legacies : log = LegacyRows(p[1], p[2])
    /\ vlog = log
    /\ anchor = Unsealed /\ vanchor = Unsealed
    /\ holder = NoTx
    /\ seq = 1 /\ now = 1
    /\ tpc = [t \in Txns |-> "idle"]
    /\ stamp = [t \in Txns |-> 0]
    /\ tampered = FALSE

(* A record is made, with its time of occurrence, before the lock is asked *)
(* for; a transaction may log several records.                             *)
MakeRecord(t) ==
    /\ tpc[t] \in {"idle", "open"}
    /\ tpc' = [tpc EXCEPT ![t] = "made"]
    /\ stamp' = [stamp EXCEPT ![t] = now]
    /\ UNCHANGED <<committed, view, seq, now, tampered>>

LockFree(t) == holder \in {NoTx, t}

(* persist_record succeeds: the lock is kept until the transaction ends. *)
Append(t) ==
    LET a == Loaded(vanchor, vlog)
        result == AfterAppend(a, vlog, stamp[t])
    IN /\ tpc[t] = "made" /\ LockFree(t)
       /\ seq <= MaxSeq
       /\ ~AppendRefused(a, vlog) /\ ValidState(result.anchor)
       /\ holder' = t
       /\ vlog' = result.log /\ vanchor' = result.anchor
       /\ seq' = seq + 1
       /\ tpc' = [tpc EXCEPT ![t] = "open"]
       /\ stamp' = [stamp EXCEPT ![t] = 0]
       /\ UNCHANGED <<committed, now, tampered>>

(* persist_record raises: the savepoint is rolled back, and with it a lock *)
(* it was the first to take; a sequence value may be used up.  _store_entry *)
(* swallows the error and the transaction goes on without the record.      *)
AppendFails(t) ==
    /\ tpc[t] = "made" /\ LockFree(t)
    /\ seq' \in {seq, IF seq < MaxSeq THEN seq + 1 ELSE seq}
    /\ tpc' = [tpc EXCEPT ![t] = "open"]
    /\ stamp' = [stamp EXCEPT ![t] = 0]
    /\ UNCHANGED <<committed, view, now, tampered>>

(* cleanup_audit_data fixes its cutoff, then deletes other tables' rows.   *)
BeginCleanup(t) ==
    /\ tpc[t] = "idle"
    /\ tpc' = [tpc EXCEPT ![t] = "made"]
    /\ stamp' = [stamp EXCEPT ![t] = now - Retention]
    /\ UNCHANGED <<committed, view, seq, now, tampered>>

Prune(t) ==
    /\ tpc[t] = "made" /\ LockFree(t)
    /\ \E a \in {Loaded(vanchor, vlog)}, chosen \in {Chosen(vlog, stamp[t])} :
          /\ ~PruneRefused(a, vlog, chosen)
          /\ IF chosen = {} THEN UNCHANGED <<vlog, vanchor>>
             ELSE \E result \in {AfterPrune(a, vlog, chosen)} :
                     /\ ValidState(result.anchor)
                     /\ vlog' = result.log /\ vanchor' = result.anchor
    /\ holder' = t
    /\ tpc' = [tpc EXCEPT ![t] = "open"]
    /\ stamp' = [stamp EXCEPT ![t] = 0]
    /\ UNCHANGED <<committed, seq, now, tampered>>

Commit(t) ==
    /\ tpc[t] = "open"
    /\ IF holder = t THEN log' = vlog /\ anchor' = vanchor /\ holder' = NoTx
                     ELSE UNCHANGED <<committed, holder>>
    /\ tpc' = [tpc EXCEPT ![t] = "idle"]
    /\ UNCHANGED <<vlog, vanchor, seq, now, stamp, tampered>>

(* Rollback, a lost connection, a timeout or a crash before the commit. *)
Abort(t) ==
    /\ tpc[t] # "idle"
    /\ IF holder = t THEN vlog' = log /\ vanchor' = anchor /\ holder' = NoTx
                     ELSE UNCHANGED view
    /\ tpc' = [tpc EXCEPT ![t] = "idle"]
    /\ stamp' = [stamp EXCEPT ![t] = 0]
    /\ UNCHANGED <<committed, seq, now, tampered>>

Tick ==
    /\ now < MaxTime
    /\ now' = now + 1
    /\ UNCHANGED <<committed, view, seq, tpc, stamp, tampered>>

(* Somebody with access to the database changes a signed row or removes a  *)
(* row (once; the table is quiet, so nothing is locked).                   *)
OutOfBand(r) ==
    /\ ~tampered /\ holder = NoTx /\ anchor # Unsealed
    /\ \/ log' = log \ {r}
       \/ Signed(r) /\ log' = (log \ {r}) \cup {[r EXCEPT !.intact = FALSE]}
    /\ vlog' = log'
    /\ tampered' = TRUE
    /\ UNCHANGED <<anchor, holder, vanchor, seq, now, tpc, stamp>>

Next ==
    \/ \E t \in Writers : MakeRecord(t) \/ Append(t) \/ AppendFails(t)
    \/ \E t \in Cleaners : BeginCleanup(t) \/ Prune(t)
    \/ \E t \in Txns : Commit(t) \/ Abort(t)
    \/ Tick
    \/ \E r \in log : OutOfBand(r)

Spec == Init /\ [][Next]_vars

(* The retention task runs on schedule and does not fail for ever; every   *)
(* transaction ends.  Actions need not be logged and need not succeed.     *)
FairSpec ==
    /\ Spec
    /\ \A t \in Cleaners : /\ WF_vars(BeginCleanup(t))
                           /\ SF_vars(Prune(t)) /\ SF_vars(Commit(t))
    /\ \A t \in Writers : WF_vars(Commit(t) \/ Abort(t))

-----------------------------------------------------------------------------
(* Types; and outside a transaction the view is the committed state. *)
TypeOK ==
    /\ log \subseteq Row /\ vlog \subseteq Row
    /\ anchor \in Anchor \cup {Unsealed} /\ vanchor \in Anchor \cup {Unsealed}
    /\ holder \in Txns \cup {NoTx}
    /\ seq \in Nat /\ now \in Nat
    /\ tpc \in [Txns -> {"idle", "made", "open"}]
    /\ stamp \in [Txns -> Int]
    /\ tampered \in BOOLEAN
    /\ holder = NoTx => vlog = log /\ vanchor = anchor

(* Every committed log is also the log of a state with no transaction     *)
(* under way, for transactions may abort: windows are checked there.       *)
Quiet == \A t \in Txns : tpc[t] = "idle"

(* No false alarm: however appends, failed appends, rollbacks and          *)
(* retention batches interleave, and whatever the order of the records'    *)
(* own timestamps, validate_audit_chain accepts the whole log, also the    *)
(* one a transaction sees, and every window of the committed one whose     *)
(* bounds are in order; a window that ends before it starts it refuses.    *)
VerifyAccepts ==
    ~tampered =>
        /\ WholeLogValid(vlog, vanchor)
        /\ Quiet =>
              \A from, to \in log \cup {NoPos} : \A size \in 1..2 :
                  Valid(log, anchor, from, to, size) <=> BoundsOK(log, from, to)

(* Tamper evidence: once a signed row was changed or any row removed behind *)
(* the program's back, the whole log never verifies again: neither appends *)
(* nor retention bury the damage.                                          *)
TamperEvident == tampered => ~WholeLogValid(log, anchor)

(* The chain never wedges itself: in a log nobody tampered with, the tail, *)
(* count, link and sequence checks refuse neither an append nor a          *)
(* retention batch, and the anchor they would store is well formed.        *)
NeverWedged ==
    ~tampered =>
        LET a == Loaded(vanchor, vlog)
            chosen == Chosen(vlog, now - Retention)
        IN /\ ~AppendRefused(a, vlog)
           /\ ValidState(AfterAppend(a, vlog, now).anchor)
           /\ ~PruneRefused(a, vlog, chosen)
           /\ chosen # {} => ValidState(AfterPrune(a, vlog, chosen).anchor)

(* Retention removes an expired prefix and nothing else: a row leaves the  *)
(* committed log only after its period, together with every earlier row;   *)
(* rows behind a younger one wait.                                         *)
OnlyExpiredPrefixLeaves ==
    [][tampered' = tampered =>
         \A r \in log \ log' : /\ r.ts < now - Retention
                               /\ Earlier(r, log) \cap log' = {}]_vars

(* Retention progresses: an expired row at the head of an untampered log,  *)
(* and with it the backlog behind it, is worked off in the end, although   *)
(* appends keep competing for the lock.                                    *)
HeadExpired == log # {} /\ First(log).ts < now - Retention
RetentionProgresses == HeadExpired ~> (~HeadExpired \/ tampered)

-----------------------------------------------------------------------------
(* The abstract specification: the verdict it speaks of is the one that    *)
(* VerifyAccepts and TamperEvident promise of validate_audit_chain.        *)
verdictBar == IF tampered THEN "broken" ELSE "valid"

Evidence == INSTANCE EvidenceLog WITH records <- log, clock <- now, verdict <- verdictBar

(* The chain implements EvidenceLog: whatever order the records were made  *)
(* in, and however transactions fail, roll back and interleave, a commit   *)
(* either adds records behind all those committed or takes an expired      *)
(* prefix, and changes none.                                               *)
ImplementsEvidence == Evidence!Spec
=============================================================================
