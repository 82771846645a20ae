-------------------------- MODULE AuditChainProofs --------------------------
(***************************************************************************)
(* Proofs about AuditChain for any writers, cleaners, batch size,          *)
(* retention period and history of the log.                                *)
(***************************************************************************)
EXTENDS AuditChain, FiniteSetTheorems, TLAPS

(* Distinct rows are in the order of the queries, one way or the other. *)
Ordered(S) == \A r, s \in S : r # s => Before(r, s) \/ Before(s, r)

(* A log, tampered with or not: finitely many rows, in an order. *)
RowsInv(S) == S \subseteq Row /\ IsFiniteSet(S) /\ Ordered(S)

(* No row uses a value that the append sequence, at n, has yet to give out. *)
Fresh(S, a, n) == (\A r \in S : r.seq < n) /\ SeqOf(Loaded(a, S).boundary) < n

(* A row follows from its predecessor, and unsigned rows follow unsigned   *)
(* rows only.                                                              *)
RowLinked(r, a, S) ==
    /\ BodyOK(r) /\ r.prev = Expected(r, a, S)
    /\ ~Signed(r) => HashOf(a.boundary) = NoHash /\ \A s \in Earlier(r, S) : ~Signed(s)

(* An anchor describes a log: its end, what was cut off before it, and how *)
(* many rows of which kind it holds.                                       *)
AnchorFits(a, S) ==
    /\ a.tail = IF S = {} THEN a.boundary ELSE Position(Last(S))
    /\ a.live = Cardinality(S)
    /\ a.legacy = Cardinality({r \in S : r.seq = 0})
    /\ Cardinality({r \in S : ~Signed(r)}) <= a.unsigned
    /\ a.boundary # NoPos => \A r \in S : Before(a.boundary, r)

Linked(S, a) == AnchorFits(a, S) /\ \A r \in S : RowLinked(r, a, S)

(* A damaged log: the anchor counts other rows, or a signed row is not the *)
(* one that was signed.                                                    *)
Damaged(S, a) ==
    /\ a # Unsealed
    /\ a.live # Cardinality(S) \/ \E r \in S : Signed(r) /\ ~r.intact

(* Records carry the time they were made at; a cutoff only ages. *)
StampInv ==
    /\ \A t \in Writers : stamp[t] \in Nat
    /\ \A t \in Cleaners : tpc[t] = "made" => stamp[t] <= now - Retention

(* What the lock holder has removed so far is an expired prefix. *)
RemovedInv ==
    \A r \in log \ vlog : r.ts < now - Retention /\ Earlier(r, log) \cap vlog = {}

(* A log with its anchor, when the sequence is at n: a chain, or damaged. *)
PairInv(S, a, n, damaged) ==
    /\ RowsInv(S) /\ Fresh(S, a, n)
    /\ IF damaged THEN Damaged(S, a) ELSE Linked(S, Loaded(a, S))

AuditInv ==
    /\ TypeOK /\ seq > 0 /\ StampInv /\ RemovedInv
    /\ PairInv(log, anchor, seq, tampered)
    /\ PairInv(vlog, vanchor, seq, tampered)

-----------------------------------------------------------------------------
(* The order of the rows *)

(* Rows and positions are compared alike: the order is strict. *)
LEMMA BeforeStrict ==
  ASSUME NEW x \in Row \cup Pos, NEW y \in Row \cup Pos, NEW z \in Row \cup Pos
  PROVE  /\ ~Before(x, x)
         /\ Before(x, y) => ~Before(y, x)
         /\ Before(x, y) /\ Before(y, z) => Before(x, z)
  <1>1. /\ x.seq \in Int /\ x.ts \in Int /\ x.id \in Int
        /\ y.seq \in Int /\ y.ts \in Int /\ y.id \in Int
        /\ z.seq \in Int /\ z.ts \in Int /\ z.id \in Int
    BY DEF Row, Pos
  <1> QED BY <1>1 DEF Before

(* A position stands for its row. *)
LEMMA PositionFacts ==
  ASSUME NEW r \in Row
  PROVE  /\ Position(r) \in Pos /\ Position(r) # NoPos
         /\ HashOf(Position(r)) = r.hash /\ SeqOf(Position(r)) = r.seq
         /\ \A y : (Before(Position(r), y) <=> Before(r, y)) /\ (Before(y, Position(r)) <=> Before(y, r))
  <1>1. Position(r) \in Pos /\ Position(r) # NoPos
    BY ChainAssumption DEF Row, Pos, Position
  <1> QED BY <1>1 DEF HashOf, SeqOf, Before, Position

(* A part of an ordered log is ordered. *)
LEMMA OrderedSubset ==
  ASSUME NEW S, Ordered(S), NEW T \in SUBSET S
  PROVE  Ordered(T)
  BY DEF Ordered

(* A finite log has a last and a first row.  A smallest part of it without *)
(* one would get one from the part with one row less.                      *)
HasLast(S) == \E r \in S : \A s \in S \ {r} : Before(s, r)
HasFirst(S) == \E r \in S : \A s \in S \ {r} : Before(r, s)

(* A row more leaves a last row, *)
LEMMA LastOfMore ==
  ASSUME NEW A \in SUBSET Row, Ordered(A), NEW x \in A, A \ {x} = {} \/ HasLast(A \ {x})
  PROVE  HasLast(A)
  <1>1. CASE A \ {x} = {}
    BY <1>1 DEF HasLast
  <1>2. CASE HasLast(A \ {x})
    <2>1. PICK m \in A \ {x} : \A s \in (A \ {x}) \ {m} : Before(s, m)
      BY <1>2 DEF HasLast
    <2>2. CASE Before(x, m)
      BY <2>1, <2>2 DEF HasLast
    <2>3. CASE Before(m, x)
      <3>1. ASSUME NEW s \in A \ {x} PROVE Before(s, x)
        <4>1. s = m \/ Before(s, m)
          BY <2>1
        <4>2. s \in Row \cup Pos /\ m \in Row \cup Pos /\ x \in Row \cup Pos
          BY <2>1
        <4> QED BY <2>3, <4>1, <4>2, BeforeStrict
      <3> QED BY <3>1 DEF HasLast
    <2> QED BY <2>1, <2>2, <2>3 DEF Ordered
  <1> QED BY <1>1, <1>2

(* and a first one. *)
LEMMA FirstOfMore ==
  ASSUME NEW A \in SUBSET Row, Ordered(A), NEW x \in A, A \ {x} = {} \/ HasFirst(A \ {x})
  PROVE  HasFirst(A)
  <1>1. CASE A \ {x} = {}
    BY <1>1 DEF HasFirst
  <1>2. CASE HasFirst(A \ {x})
    <2>1. PICK m \in A \ {x} : \A s \in (A \ {x}) \ {m} : Before(m, s)
      BY <1>2 DEF HasFirst
    <2>2. CASE Before(m, x)
      BY <2>1, <2>2 DEF HasFirst
    <2>3. CASE Before(x, m)
      <3>1. ASSUME NEW s \in A \ {x} PROVE Before(x, s)
        <4>1. s = m \/ Before(m, s)
          BY <2>1
        <4>2. s \in Row \cup Pos /\ m \in Row \cup Pos /\ x \in Row \cup Pos
          BY <2>1
        <4> QED BY <2>3, <4>1, <4>2, BeforeStrict
      <3> QED BY <3>1 DEF HasFirst
    <2> QED BY <2>1, <2>2, <2>3 DEF Ordered
  <1> QED BY <1>1, <1>2

(* Hence every finite log that is not empty has both. *)
LEMMA FiniteHasEnds ==
  ASSUME NEW S \in SUBSET Row, IsFiniteSet(S), Ordered(S), S # {}
  PROVE  HasLast(S) /\ HasFirst(S)
  <1> DEFINE Bad == {A \in FiniteSubsetsOf(S) : A # {} /\ ~(HasLast(A) /\ HasFirst(A))}
  <1>1. SUFFICES ASSUME Bad # {} PROVE FALSE
    <2>1. S \in FiniteSubsetsOf(S)
      BY DEF FiniteSubsetsOf
    <2> QED BY <1>1, <2>1
  <1>2. PICK A \in Bad : \A B \in Bad : <<B, A>> \notin StrictSubsetOrdering(S)
    <2>1. Bad \subseteq FiniteSubsetsOf(S)
      OBVIOUS
    <2>2. IsWellFoundedOn(StrictSubsetOrdering(S), FiniteSubsetsOf(S))
      BY FS_StrictSubsetOrderingWellFounded
    <2> HIDE DEF Bad
    <2> QED BY <1>1, <2>1, <2>2, WFMin
  <1>3. /\ A \in SUBSET S /\ IsFiniteSet(A) /\ A # {} /\ A \in SUBSET Row /\ Ordered(A)
        /\ ~(HasLast(A) /\ HasFirst(A))
    BY <1>2, OrderedSubset DEF FiniteSubsetsOf
  <1>4. PICK x : x \in A
    BY <1>3
  <1>5. IsFiniteSet(A \ {x}) /\ A \ {x} \in SUBSET S /\ A \ {x} # A /\ A \ {x} \subseteq A
    BY <1>3, <1>4, FS_RemoveElement
  <1>6. <<A \ {x}, A>> \in StrictSubsetOrdering(S)
    BY <1>3, <1>5 DEF StrictSubsetOrdering
  <1>7. A \ {x} \notin Bad /\ A \ {x} \in FiniteSubsetsOf(S)
    BY <1>2, <1>5, <1>6 DEF FiniteSubsetsOf
  <1>8. A \ {x} = {} \/ (HasLast(A \ {x}) /\ HasFirst(A \ {x}))
    BY <1>7
  <1> QED BY <1>3, <1>4, <1>8, LastOfMore, FirstOfMore

(* The last and the first row of a log, and of any part of it. *)
LEMMA LastFacts ==
  ASSUME NEW S \in SUBSET Row, IsFiniteSet(S), Ordered(S), S # {}
  PROVE  /\ Last(S) \in S /\ \A s \in S \ {Last(S)} : Before(s, Last(S))
         /\ \A r \in S : (\A s \in S \ {r} : Before(s, r)) => r = Last(S)
  <1>1. Last(S) \in S /\ \A s \in S \ {Last(S)} : Before(s, Last(S))
    BY FiniteHasEnds DEF HasLast, Last
  <1>2. ASSUME NEW r \in S, \A s \in S \ {r} : Before(s, r), r # Last(S) PROVE FALSE
    <2>1. Before(r, Last(S)) /\ Before(Last(S), r) /\ r \in Row \cup Pos /\ Last(S) \in Row \cup Pos
      BY <1>1, <1>2
    <2> QED BY <2>1, BeforeStrict
  <1> QED BY <1>1, <1>2

(* Nothing comes before the first row. *)
LEMMA FirstFacts ==
  ASSUME NEW S \in SUBSET Row, IsFiniteSet(S), Ordered(S), S # {}
  PROVE  /\ First(S) \in S /\ \A s \in S \ {First(S)} : Before(First(S), s)
         /\ Earlier(First(S), S) = {}
  <1>1. First(S) \in S /\ \A s \in S \ {First(S)} : Before(First(S), s)
    BY FiniteHasEnds DEF HasFirst, First
  <1>2. ASSUME NEW s \in S, Before(s, First(S)) PROVE FALSE
    <2>1. s \in Row \cup Pos /\ First(S) \in Row \cup Pos
      BY <1>1
    <2>2. s = First(S) \/ Before(First(S), s)
      BY <1>1
    <2> QED BY <1>2, <2>1, <2>2, BeforeStrict
  <1> QED BY <1>1, <1>2 DEF Earlier

(* Every part of a log is a log, and can be counted. *)
LEMMA RowsSubset ==
  ASSUME NEW S, RowsInv(S), NEW T \in SUBSET S
  PROVE  RowsInv(T) /\ T \in SUBSET Row /\ IsFiniteSet(T) /\ Ordered(T) /\ Cardinality(T) \in Nat
  BY FS_Subset, FS_CardinalityType, OrderedSubset DEF RowsInv

(* The earlier rows of an earlier row. *)
LEMMA EarlierFacts ==
  ASSUME NEW S, RowsInv(S), NEW r \in Row \cup Pos, NEW s \in Row \cup Pos, Before(s, r)
  PROVE  Earlier(s, S) \subseteq Earlier(r, S)
  <1>1. ASSUME NEW q \in S, Before(q, s) PROVE Before(q, r)
    <2>1. q \in Row \cup Pos
      BY DEF RowsInv
    <2> QED BY <1>1, <2>1, BeforeStrict
  <1> QED BY <1>1 DEF Earlier

(* A batch is a prefix of the log, and so is what is deleted of it. *)
LEMMA FirstRowsPrefix ==
  ASSUME NEW S, RowsInv(S), NEW n \in Int, NEW r \in FirstRows(S, n), NEW s \in S, Before(s, r)
  PROVE  s \in FirstRows(S, n)
  <1>1. r \in S /\ Cardinality(Earlier(r, S)) < n
    BY DEF FirstRows
  <1>2. Earlier(s, S) \subseteq Earlier(r, S)
    BY <1>1, EarlierFacts DEF RowsInv
  <1>3. Earlier(r, S) \in SUBSET S /\ Earlier(s, S) \in SUBSET S
    BY DEF Earlier
  <1>4. /\ IsFiniteSet(Earlier(r, S)) /\ Cardinality(Earlier(r, S)) \in Nat
        /\ Cardinality(Earlier(s, S)) \in Nat
    BY <1>3, RowsSubset
  <1>5. Cardinality(Earlier(s, S)) <= Cardinality(Earlier(r, S))
    BY <1>2, <1>4, FS_Subset
  <1> QED BY <1>1, <1>4, <1>5 DEF FirstRows

(* As many rows as the log has are all of it. *)
LEMMA FirstRowsAll ==
  ASSUME NEW S, RowsInv(S)
  PROVE  FirstRows(S, Cardinality(S) + 1) = S
  <1>1. ASSUME NEW r \in S PROVE Cardinality(Earlier(r, S)) < Cardinality(S) + 1
    <2>1. Earlier(r, S) \in SUBSET S /\ IsFiniteSet(S)
      BY DEF Earlier, RowsInv
    <2>2. Cardinality(Earlier(r, S)) <= Cardinality(S) /\ Cardinality(S) \in Nat
      BY <2>1, FS_Subset, FS_CardinalityType
    <2>3. Cardinality(Earlier(r, S)) \in Nat
      BY <2>1, RowsSubset
    <2> QED BY <2>2, <2>3
  <1> QED BY <1>1 DEF FirstRows

(* The rows prune_prefix deletes are expired, and a prefix. *)
LEMMA ChosenPrefix ==
  ASSUME NEW S, RowsInv(S), NEW cutoff \in Int
  PROVE  /\ Chosen(S, cutoff) \in SUBSET S
         /\ \A r \in Chosen(S, cutoff) : r.ts < cutoff
         /\ \A r \in Chosen(S, cutoff), s \in S : Before(s, r) => s \in Chosen(S, cutoff)
  <1> DEFINE batch == FirstRows(S, BatchSize)
  <1>1. Chosen(S, cutoff) = {r \in batch : \A s \in batch : ~Before(r, s) => s.ts < cutoff}
    BY DEF Chosen
  <1>2. batch \subseteq S
    BY DEF FirstRows
  <1>3. ASSUME NEW r \in Chosen(S, cutoff) PROVE r.ts < cutoff
    <2>1. r \in batch /\ r \in Row \cup Pos
      BY <1>1, <1>2, <1>3 DEF RowsInv
    <2>2. ~Before(r, r)
      BY <2>1, BeforeStrict
    <2> QED BY <1>1, <1>3, <2>1, <2>2
  <1>4. ASSUME NEW r \in Chosen(S, cutoff), NEW s \in S, Before(s, r)
        PROVE  s \in Chosen(S, cutoff)
    <2>1. r \in batch /\ BatchSize \in Int
      BY <1>1, ChainAssumption
    <2>2. s \in batch
      BY <1>4, <2>1, FirstRowsPrefix
    <2>3. ASSUME NEW q \in batch, ~Before(s, q) PROVE ~Before(r, q)
      <3>1. q \in Row \cup Pos /\ r \in Row \cup Pos /\ s \in Row \cup Pos
        BY <1>2, <2>1 DEF RowsInv
      <3> QED BY <1>4, <2>3, <3>1, BeforeStrict
    <2> QED BY <1>1, <2>1, <2>2, <2>3
  <1> QED BY <1>1, <1>2, <1>3, <1>4

-----------------------------------------------------------------------------
(* The anchor, an append and a batch *)

(* The anchor a transaction works on, loaded or captured. *)
LEMMA LoadedFacts ==
  ASSUME NEW S, RowsInv(S), NEW a \in Anchor \cup {Unsealed}
  PROVE  /\ Loaded(a, S) \in Anchor /\ Loaded(a, S) # Unsealed
         /\ a # Unsealed => Loaded(a, S) = a
         /\ a = Unsealed => Loaded(a, S).boundary = NoPos
  <1>1. CASE a # Unsealed
    BY <1>1, ChainAssumption DEF Loaded
  <1>2. CASE a = Unsealed
    <2>1. Loaded(a, S) = Captured(S)
      BY <1>2 DEF Loaded
    <2>2. (IF S = {} THEN NoPos ELSE Position(Last(S))) \in Pos \cup {NoPos}
      BY LastFacts, PositionFacts DEF RowsInv
    <2>3. /\ Cardinality(S) \in Nat /\ Cardinality({r \in S : r.seq = 0}) \in Nat
          /\ Cardinality({r \in S : ~Signed(r)}) \in Nat
      BY RowsSubset
    <2>4. Captured(S) \in Anchor /\ Captured(S).boundary = NoPos
      BY <2>2, <2>3 DEF Captured, Anchor
    <2> QED BY <1>2, <2>1, <2>4, ChainAssumption
  <1> QED BY <1>1, <1>2

(* What a position gives. *)
LEMMA HashSeqTypes ==
  ASSUME NEW p \in Pos \cup {NoPos}
  PROVE  HashOf(p) \in Int \cup {NoHash} /\ SeqOf(p) \in Nat
  BY DEF HashOf, SeqOf, Pos

(* The row of a record: signed, whole, and linked to the anchor's tail. *)
LEMMA NewRowFacts ==
  ASSUME NEW a \in Anchor, NEW ts \in Nat, seq \in Nat
  PROVE  /\ NewRow(a, ts) \in Row /\ Signed(NewRow(a, ts)) /\ BodyOK(NewRow(a, ts))
         /\ NewRow(a, ts).intact = TRUE
         /\ NewRow(a, ts).seq = seq /\ NewRow(a, ts).prev = HashOf(a.tail)
  <1>1. HashOf(a.tail) \in Int \cup {NoHash}
    BY HashSeqTypes DEF Anchor
  <1> QED BY <1>1, ChainAssumption DEF NewRow, Row, Signed, BodyOK

(* What a record's anchor says. *)
LEMMA AppendAnchor ==
  ASSUME NEW S, NEW a \in Anchor, NEW ts \in Nat, seq \in Nat
  PROVE  /\ AfterAppend(a, S, ts).log = S \cup {NewRow(a, ts)}
         /\ AfterAppend(a, S, ts).anchor \in Anchor
         /\ AfterAppend(a, S, ts).anchor.tail = Position(NewRow(a, ts))
         /\ AfterAppend(a, S, ts).anchor.boundary = a.boundary
         /\ AfterAppend(a, S, ts).anchor.live = a.live + 1
         /\ AfterAppend(a, S, ts).anchor.legacy = a.legacy
         /\ AfterAppend(a, S, ts).anchor.unsigned = a.unsigned
  <1> DEFINE r == NewRow(a, ts)
             b == AfterAppend(a, S, ts).anchor
  <1>1. AfterAppend(a, S, ts).log = S \cup {r} /\ b = [a EXCEPT !.tail = Position(r), !.live = @ + 1]
    BY DEF AfterAppend
  <1>2. Position(r) \in Pos
    BY NewRowFacts, PositionFacts
  <1> HIDE DEF r, b
  <1>3. b \in Anchor
    <2>1. a.live + 1 \in Nat
      BY DEF Anchor
    <2>2. [a EXCEPT !.tail = Position(r), !.live = @ + 1] \in Anchor
      BY <1>2, <2>1 DEF Anchor
    <2> QED BY <1>1, <2>2
  <1>4. /\ b.tail = Position(r) /\ b.boundary = a.boundary /\ b.live = a.live + 1
        /\ b.legacy = a.legacy /\ b.unsigned = a.unsigned
    BY <1>1 DEF Anchor
  <1> QED BY <1>1, <1>3, <1>4 DEF r, b

(* A row with a value of the sequence no other has is the last one. *)
LEMMA AppendFacts ==
  ASSUME NEW S, RowsInv(S), NEW r \in Row, \A s \in S : s.seq < r.seq
  PROVE  /\ r \notin S /\ RowsInv(S \cup {r}) /\ Cardinality(S \cup {r}) = Cardinality(S) + 1
         /\ \A s \in S : Before(s, r) /\ ~Before(r, s)
         /\ Last(S \cup {r}) = r /\ Earlier(r, S \cup {r}) = S
         /\ \A s \in S : Earlier(s, S \cup {r}) = Earlier(s, S)
  <1>1. \A s \in S \cup {r} : s.seq \in Nat /\ s \in Row \cup Pos
    BY DEF RowsInv, Row
  <1>2. r \notin S
    BY <1>1
  <1>3. \A s \in S : Before(s, r) /\ ~Before(r, s)
    BY <1>1, BeforeStrict DEF Before
  <1>4. RowsInv(S \cup {r}) /\ Cardinality(S \cup {r}) = Cardinality(S) + 1
    <2>1. Ordered(S \cup {r})
      BY <1>3 DEF Ordered, RowsInv
    <2> QED BY <1>2, <2>1, FS_AddElement DEF RowsInv
  <1>5. Last(S \cup {r}) = r
    BY <1>3, <1>4, LastFacts DEF RowsInv
  <1>6. ~Before(r, r)
    BY BeforeStrict
  <1>7. Earlier(r, S \cup {r}) = S /\ \A s \in S : Earlier(s, S \cup {r}) = Earlier(s, S)
    BY <1>3, <1>6 DEF Earlier
  <1> QED BY <1>2, <1>3, <1>4, <1>5, <1>7

(* A prefix of a log that a batch may delete. *)
Prefix(C, S) == C \in SUBSET S /\ \A r \in C, s \in S : Before(s, r) => s \in C

(* What is left of a log without a prefix. *)
LEMMA PruneFacts ==
  ASSUME NEW S, RowsInv(S), NEW C, Prefix(C, S), C # {}
  PROVE  /\ Last(C) \in C /\ Last(C) \in Row
         /\ RowsInv(C) /\ RowsInv(S \ C) /\ Cardinality(C) \in Nat
         /\ Cardinality(S \ C) = Cardinality(S) - Cardinality(C)
         /\ \A r \in S \ C : /\ \A s \in C : Before(s, r)
                             /\ Earlier(r, S) = C \cup Earlier(r, S \ C)
  <1>1. C \in SUBSET S /\ S \ C \in SUBSET S /\ S \cap C = C
    BY DEF Prefix
  <1>2. RowsInv(C) /\ RowsInv(S \ C) /\ Cardinality(C) \in Nat
    BY <1>1, RowsSubset
  <1>3. Last(C) \in C /\ Last(C) \in Row
    BY <1>2, LastFacts DEF RowsInv
  <1>4. Cardinality(S \ C) = Cardinality(S) - Cardinality(C)
    BY <1>1, FS_Difference DEF RowsInv
  <1>5. ASSUME NEW r \in S \ C, NEW s \in C PROVE Before(s, r)
    BY <1>1, <1>5 DEF Prefix, RowsInv, Ordered
  <1>6. ASSUME NEW r \in S \ C PROVE Earlier(r, S) = C \cup Earlier(r, S \ C)
    BY <1>1, <1>5 DEF Earlier
  <1> QED BY <1>2, <1>3, <1>4, <1>5, <1>6

(* A stored batch leaves a well-typed anchor. *)
LEMMA PruneAnchor ==
  ASSUME NEW S, RowsInv(S), NEW a \in Anchor, NEW C, Prefix(C, S), C # {},
         NEW b, b = AfterPrune(a, S, C).anchor
  PROVE  /\ AfterPrune(a, S, C).log = S \ C
         /\ b.boundary = Position(Last(C)) /\ b.boundary \in Pos /\ b.tail = a.tail
         /\ b.live = a.live - Cardinality(C)
         /\ b.legacy = a.legacy - Cardinality({r \in C : r.seq = 0})
         /\ b.unsigned = a.unsigned /\ b.live \in Int /\ b.legacy \in Int
         /\ ValidState(b) => b \in Anchor
  <1> DEFINE k == Cardinality(C)
             j == Cardinality({r \in C : r.seq = 0})
  <1>1. RowsInv(C) /\ k \in Nat /\ Last(C) \in Row
    BY PruneFacts
  <1>2. j \in Nat
    <2>1. {r \in C : r.seq = 0} \in SUBSET C
      OBVIOUS
    <2> QED BY <1>1, <2>1, RowsSubset
  <1>3. Position(Last(C)) \in Pos
    BY <1>1, PositionFacts
  <1>4. /\ AfterPrune(a, S, C).log = S \ C
        /\ b = [a EXCEPT !.boundary = Position(Last(C)), !.live = @ - k, !.legacy = @ - j]
    BY DEF AfterPrune
  <1>5. a.live \in Nat /\ a.legacy \in Nat /\ a.tail \in Pos \cup {NoPos} /\ a.unsigned \in Nat
    BY DEF Anchor
  <1> HIDE DEF k, j
  <1>6. /\ b.boundary = Position(Last(C)) /\ b.tail = a.tail /\ b.unsigned = a.unsigned
        /\ b.live = a.live - k /\ b.legacy = a.legacy - j
    BY <1>4 DEF Anchor
  <1>7. b.live \in Int /\ b.legacy \in Int
    BY <1>1, <1>2, <1>5, <1>6
  <1>8. ASSUME ValidState(b) PROVE b \in Anchor
    <2>1. b.live \in Nat /\ b.legacy \in Nat
      BY <1>7, <1>8 DEF ValidState
    <2>2. a.live - k \in Nat /\ a.legacy - j \in Nat
      BY <1>6, <2>1
    <2> QED BY <1>3, <1>4, <1>5, <2>2 DEF Anchor
  <1> QED BY <1>3, <1>4, <1>6, <1>7, <1>8 DEF k, j

-----------------------------------------------------------------------------
(* The chain *)

(* A chain whose links and whose end the anchor knows takes an append. *)
LEMMA LinkedAccepts ==
  ASSUME NEW S, RowsInv(S), NEW a \in Anchor, Linked(S, a)
  PROVE  /\ TailOK(a, S) /\ (S = {} <=> a.live = 0)
         /\ S # {} => Last(S) \in S /\ a.tail = Position(Last(S)) /\ HashOf(a.tail) = Last(S).hash
         /\ S = {} => a.tail = a.boundary
  <1>1. S = {} <=> a.live = 0
    BY FS_EmptySet DEF Linked, AnchorFits, RowsInv
  <1>2. CASE S = {}
    BY <1>1, <1>2 DEF TailOK, Linked, AnchorFits
  <1>3. CASE S # {}
    <2>1. Last(S) \in S /\ Last(S) \in Row
      BY <1>3, LastFacts DEF RowsInv
    <2>2. a.tail = Position(Last(S)) /\ BodyOK(Last(S))
      BY <1>3, <2>1 DEF Linked, AnchorFits, RowLinked
    <2> QED BY <1>1, <1>3, <2>1, <2>2, PositionFacts DEF TailOK
  <1> QED BY <1>2, <1>3

(* Appending to it makes such a chain. *)
LEMMA LinkedAppend ==
  ASSUME NEW S, RowsInv(S), NEW a \in Anchor, Linked(S, a), NEW ts \in Nat, seq \in Nat,
         \A s \in S : s.seq < seq, SeqOf(a.boundary) < seq, seq > 0
  PROVE  Linked(AfterAppend(a, S, ts).log, AfterAppend(a, S, ts).anchor)
  <1> DEFINE r == NewRow(a, ts)
             b == AfterAppend(a, S, ts).anchor
             T == S \cup {r}
  <1>1. /\ r \in Row /\ Signed(r) /\ BodyOK(r) /\ r.seq = seq /\ r.prev = HashOf(a.tail)
    BY NewRowFacts
  <1>2. /\ AfterAppend(a, S, ts).log = T
        /\ b.tail = Position(r) /\ b.live = a.live + 1 /\ b.boundary = a.boundary
        /\ b.legacy = a.legacy /\ b.unsigned = a.unsigned
    BY AppendAnchor
  <1> HIDE DEF b, r
  <1>3. /\ r \notin S /\ RowsInv(T) /\ Cardinality(T) = Cardinality(S) + 1
        /\ \A s \in S : Before(s, r) /\ ~Before(r, s)
        /\ Last(T) = r /\ Earlier(r, T) = S
        /\ \A s \in S : Earlier(s, T) = Earlier(s, S)
    BY <1>1, AppendFacts
  <1>4. AnchorFits(b, T)
    <2>1. b.tail = (IF T = {} THEN b.boundary ELSE Position(Last(T))) /\ b.live = Cardinality(T)
      BY <1>3, <1>2 DEF Linked, AnchorFits
    <2>2. {q \in T : q.seq = 0} = {q \in S : q.seq = 0} /\ {q \in T : ~Signed(q)} = {q \in S : ~Signed(q)}
      BY <1>1
    <2>3. ASSUME b.boundary # NoPos, NEW q \in T PROVE Before(b.boundary, q)
      <3>1. CASE q \in S
        BY <1>2, <2>3, <3>1 DEF Linked, AnchorFits
      <3>2. CASE q = r
        <4>1. SeqOf(b.boundary) = b.boundary.seq
          BY <2>3 DEF SeqOf
        <4> QED BY <1>1, <1>2, <3>2, <4>1 DEF Before
      <3> QED BY <3>1, <3>2
    <2> QED BY <1>2, <2>1, <2>2, <2>3 DEF Linked, AnchorFits
  <1>5. ASSUME NEW q \in T PROVE RowLinked(q, b, T)
    <2>1. CASE q \in S
      <3>1. RowLinked(q, a, S) /\ Earlier(q, T) = Earlier(q, S) /\ b.boundary = a.boundary
        BY <1>3, <1>2, <2>1 DEF Linked
      <3> QED BY <3>1 DEF RowLinked, Expected
    <2>2. CASE q = r
      <3>1. r.prev = Expected(r, b, T)
        <4>1. Expected(r, b, T) = IF S = {} THEN HashOf(b.boundary) ELSE Last(S).hash
          BY <1>3 DEF Expected
        <4>2. HashOf(a.tail) = IF S = {} THEN HashOf(a.boundary) ELSE Last(S).hash
          BY LinkedAccepts
        <4> QED BY <1>1, <1>2, <4>1, <4>2
      <3> QED BY <1>1, <2>2, <3>1 DEF RowLinked
    <2> QED BY <2>1, <2>2
  <1> QED BY <1>2, <1>4, <1>5 DEF Linked, b

(* Deleting a prefix of it leaves such a chain: the boundary takes the     *)
(* place of the last row that went.                                        *)
LEMMA LinkedPrune ==
  ASSUME NEW S, RowsInv(S), NEW a \in Anchor, Linked(S, a), NEW C, Prefix(C, S), C # {}
  PROVE  Linked(S \ C, AfterPrune(a, S, C).anchor)
  <1> DEFINE T == S \ C
             b == AfterPrune(a, S, C).anchor
             m == Last(C)
  <1>0. C \in SUBSET S /\ T \in SUBSET S /\ S # {}
    BY DEF Prefix
  <1>1. /\ m \in C /\ m \in Row /\ RowsInv(C) /\ RowsInv(T)
        /\ Cardinality(T) = Cardinality(S) - Cardinality(C)
        /\ \A r \in T : (\A s \in C : Before(s, r)) /\ Earlier(r, S) = C \cup Earlier(r, T)
    BY PruneFacts
  <1>2. /\ b.boundary = Position(m) /\ b.tail = a.tail /\ b.unsigned = a.unsigned
        /\ b.live = a.live - Cardinality(C)
        /\ b.legacy = a.legacy - Cardinality({r \in C : r.seq = 0})
    BY PruneAnchor
  <1>3. HashOf(b.boundary) = m.hash /\ \A y : Before(b.boundary, y) <=> Before(m, y)
    BY <1>1, <1>2, PositionFacts
  <1> HIDE DEF b, T
  <1>4. b.tail = IF T = {} THEN b.boundary ELSE Position(Last(T))
    <2>1. a.tail = Position(Last(S)) /\ Last(S) \in S /\ \A s \in S \ {Last(S)} : Before(s, Last(S))
      BY <1>0, LastFacts DEF Linked, AnchorFits, RowsInv
    <2>2. CASE T = {}
      <3>1. C = S
        BY <1>0, <2>2 DEF T
      <3> QED BY <1>2, <2>1, <2>2, <3>1
    <2>3. CASE T # {}
      <3>1. Last(S) \notin C
        BY <2>1, <2>3 DEF Prefix, T
      <3>2. Last(S) \in T /\ \A s \in T \ {Last(S)} : Before(s, Last(S))
        BY <2>1, <3>1 DEF T
      <3>3. Last(S) = Last(T)
        BY <1>1, <2>3, <3>2, LastFacts DEF RowsInv
      <3> QED BY <1>2, <2>1, <2>3, <3>3
    <2> QED BY <2>2, <2>3
  <1>5. b.live = Cardinality(T) /\ b.legacy = Cardinality({r \in T : r.seq = 0})
    <2> DEFINE Z == {r \in S : r.seq = 0}
               ZC == {r \in C : r.seq = 0}
               ZT == {r \in T : r.seq = 0}
    <2>1. ZT = Z \ ZC /\ Z \cap ZC = ZC /\ Z \in SUBSET S
      BY <1>0 DEF T
    <2>2. IsFiniteSet(Z)
      BY <2>1, RowsSubset
    <2> HIDE DEF Z, ZC, ZT
    <2>3. Cardinality(ZT) = Cardinality(Z) - Cardinality(ZC)
      BY <2>1, <2>2, FS_Difference
    <2> QED BY <1>1, <1>2, <2>3 DEF Linked, AnchorFits, Z, ZC, ZT
  <1>6. Cardinality({r \in T : ~Signed(r)}) <= b.unsigned
    <2> DEFINE U == {r \in S : ~Signed(r)}
               UT == {r \in T : ~Signed(r)}
    <2>1. UT \in SUBSET U /\ U \in SUBSET S
      BY <1>0
    <2>2. IsFiniteSet(U) /\ Cardinality(U) \in Nat
      BY <2>1, RowsSubset
    <2> HIDE DEF U, UT
    <2>3. Cardinality(UT) <= Cardinality(U) /\ Cardinality(UT) \in Nat
      BY <2>1, <2>2, FS_Subset, FS_CardinalityType
    <2>4. Cardinality(U) <= a.unsigned /\ a.unsigned \in Nat
      BY DEF Linked, AnchorFits, U, Anchor
    <2> QED BY <1>2, <2>2, <2>3, <2>4 DEF UT
  <1>7. \A r \in T : Before(b.boundary, r)
    BY <1>1, <1>3
  <1>8. ASSUME NEW q \in T PROVE RowLinked(q, b, T)
    <2>1. RowLinked(q, a, S) /\ Earlier(q, S) = C \cup Earlier(q, T) /\ q \in Row
      BY <1>0, <1>1 DEF Linked, RowsInv
    <2>2. q.prev = Last(Earlier(q, S)).hash
      BY <1>1, <2>1 DEF RowLinked, Expected
    <2>3. Expected(q, b, T) = Last(Earlier(q, S)).hash
      <3>1. CASE Earlier(q, T) = {}
        BY <1>3, <2>1, <3>1 DEF Expected
      <3>2. CASE Earlier(q, T) # {}
        <4> DEFINE n == Last(Earlier(q, T))
        <4>0. Earlier(q, T) \in SUBSET T /\ Earlier(q, S) \in SUBSET S
          BY DEF Earlier
        <4>1. n \in Earlier(q, T) /\ \A s \in Earlier(q, T) \ {n} : Before(s, n)
          BY <1>1, <3>2, <4>0, RowsSubset, LastFacts
        <4> HIDE DEF n
        <4>2. n \in T /\ \A s \in C : Before(s, n)
          BY <1>1, <4>0, <4>1
        <4>3. n \in Earlier(q, S) /\ \A s \in Earlier(q, S) \ {n} : Before(s, n)
          BY <2>1, <4>1, <4>2
        <4>4. n = Last(Earlier(q, S))
          BY <4>0, <4>3, RowsSubset, LastFacts
        <4> QED BY <3>2, <4>4 DEF Expected, n
      <3> QED BY <3>1, <3>2
    <2>4. ASSUME ~Signed(q) PROVE HashOf(b.boundary) = NoHash /\ \A s \in Earlier(q, T) : ~Signed(s)
      <3>1. \A s \in C \cup Earlier(q, T) : ~Signed(s)
        BY <2>1, <2>4 DEF RowLinked
      <3>2. m.hash = NoHash
        BY <1>1, <3>1 DEF Signed
      <3> QED BY <1>3, <3>1, <3>2
    <2> QED BY <2>1, <2>2, <2>3, <2>4 DEF RowLinked
  <1> QED BY <1>4, <1>5, <1>6, <1>7, <1>8 DEF Linked, AnchorFits, b, T

-----------------------------------------------------------------------------
(* Damage *)

(* An append does not make up for it, *)
LEMMA DamagedAppend ==
  ASSUME NEW S, RowsInv(S), NEW a \in Anchor, Damaged(S, a), NEW ts \in Nat, seq \in Nat,
         \A s \in S : s.seq < seq
  PROVE  Damaged(AfterAppend(a, S, ts).log, AfterAppend(a, S, ts).anchor)
  <1> DEFINE r == NewRow(a, ts)
             b == AfterAppend(a, S, ts).anchor
  <1>1. AfterAppend(a, S, ts).log = S \cup {r} /\ b \in Anchor /\ b.live = a.live + 1
    BY AppendAnchor
  <1>2. r \in Row /\ r.seq = seq
    BY NewRowFacts
  <1>3. a.live \in Nat /\ Cardinality(S) \in Nat /\ b # Unsealed
    BY <1>1, RowsSubset, ChainAssumption DEF Anchor
  <1> HIDE DEF r, b
  <1>4. Cardinality(S \cup {r}) = Cardinality(S) + 1
    BY <1>2, AppendFacts
  <1> QED BY <1>1, <1>3, <1>4 DEF Damaged, b

(* and a batch that would take it along is refused. *)
LEMMA DamagedPrune ==
  ASSUME NEW S, RowsInv(S), NEW a \in Anchor, Damaged(S, a), NEW C, Prefix(C, S), C # {},
         ~PruneRefused(a, S, C), ValidState(AfterPrune(a, S, C).anchor)
  PROVE  Damaged(S \ C, AfterPrune(a, S, C).anchor)
  <1>0. PICK b : b = AfterPrune(a, S, C).anchor
    OBVIOUS
  <1>1. b \in Anchor /\ b # Unsealed
    <2>1. ValidState(b) => b \in Anchor
      BY <1>0, PruneAnchor
    <2>2. ValidState(b)
      BY <1>0
    <2> QED BY <2>1, <2>2, ChainAssumption
  <1>2. a.live = Cardinality(S) /\ \A r \in C : BodyOK(r)
    BY DEF PruneRefused
  <1>3. PICK r \in S : Signed(r) /\ ~r.intact
    BY <1>2 DEF Damaged
  <1>4. r \notin C
    BY <1>2, <1>3 DEF BodyOK
  <1> QED BY <1>0, <1>1, <1>3, <1>4 DEF Damaged

(* Somebody changes a signed row, or removes a row. *)
Changed(r, S, T) ==
    \/ T = S \ {r}
    \/ Signed(r) /\ T = (S \ {r}) \cup {[r EXCEPT !.intact = FALSE]}

(* That damages a chain. *)
LEMMA OutOfBandDamages ==
  ASSUME NEW S, RowsInv(S), NEW a \in Anchor, Linked(S, a), NEW r \in S, NEW T,
         Changed(r, S, T)
  PROVE  Damaged(T, a)
  <1>1. a # Unsealed /\ a.live = Cardinality(S) /\ Cardinality(S) \in Nat
    BY RowsSubset, ChainAssumption DEF Linked, AnchorFits
  <1>2. CASE T = S \ {r}
    <2>1. Cardinality(T) = Cardinality(S) - 1
      BY <1>2, FS_RemoveElement DEF RowsInv
    <2> QED BY <1>1, <2>1 DEF Damaged
  <1>3. CASE Signed(r) /\ T = (S \ {r}) \cup {[r EXCEPT !.intact = FALSE]}
    <2>1. PICK q : q = [r EXCEPT !.intact = FALSE]
      OBVIOUS
    <2>2. q.intact = FALSE /\ q.hash = r.hash /\ q \in T
      BY <1>3, <2>1 DEF RowsInv, Row
    <2> QED BY <1>1, <1>3, <2>2 DEF Damaged, Signed
  <1> QED BY <1>2, <1>3 DEF Changed

(* Either way what is left is a log still. *)
LEMMA OutOfBandRows ==
  ASSUME NEW S, RowsInv(S), NEW r \in S, NEW T,
         Changed(r, S, T)
  PROVE  RowsInv(T) /\ \A q \in T : \E s \in S : q.seq = s.seq
  <1>1. CASE T = S \ {r}
    BY <1>1, RowsSubset
  <1>2. CASE Signed(r) /\ T = (S \ {r}) \cup {[r EXCEPT !.intact = FALSE]}
    <2>1. PICK q : q = [r EXCEPT !.intact = FALSE]
      OBVIOUS
    <2>2. q \in Row /\ q.seq = r.seq /\ q.ts = r.ts /\ q.id = r.id
      BY <2>1 DEF RowsInv, Row
    <2>3. RowsInv(S \ {r}) /\ IsFiniteSet(T)
      <3>1. RowsInv(S \ {r}) /\ IsFiniteSet(S \ {r})
        BY RowsSubset
      <3> QED BY <1>2, <2>1, <3>1, FS_AddElement
    <2>4. ASSUME NEW s \in S \ {r} PROVE Before(s, q) \/ Before(q, s)
      <3>1. Before(s, r) \/ Before(r, s)
        BY DEF RowsInv, Ordered
      <3> QED BY <2>2, <3>1 DEF Before
    <2>5. Ordered(T)
      BY <1>2, <2>1, <2>3, <2>4 DEF Ordered, RowsInv
    <2>6. T \subseteq Row
      BY <1>2, <2>1, <2>2 DEF RowsInv
    <2> QED BY <1>2, <2>1, <2>2, <2>3, <2>5, <2>6 DEF RowsInv
  <1> QED BY <1>1, <1>2 DEF Changed

-----------------------------------------------------------------------------
(* The log the migration finds *)

(* What is captured of a log describes it. *)
LEMMA CapturedFits ==
  ASSUME NEW S, RowsInv(S)
  PROVE  AnchorFits(Captured(S), S)
  <1>1. Cardinality({r \in S : ~Signed(r)}) \in Nat
    BY RowsSubset
  <1> QED BY <1>1 DEF Captured, AnchorFits

(* The rows from before the append sequence are a chain. *)
LegacyRow(k, u, n) ==
    [id |-> k - n, seq |-> 0, ts |-> 0, intact |-> TRUE,
     prev |-> IF k > u + 1 THEN k - 1 - n ELSE NoHash,
     hash |-> IF k > u THEN k - n ELSE NoHash]

(* One such row, *)
LEMMA LegacyRowFacts ==
  ASSUME NEW u \in Nat, NEW n \in Nat, NEW k \in Nat, NEW j \in Nat
  PROVE  /\ LegacyRow(k, u, n) \in Row
         /\ LegacyRow(k, u, n).seq = 0 /\ BodyOK(LegacyRow(k, u, n))
         /\ Signed(LegacyRow(k, u, n)) <=> k > u
         /\ LegacyRow(k, u, n).prev = IF k > u + 1 THEN k - 1 - n ELSE NoHash
         /\ LegacyRow(k, u, n).hash = IF k > u THEN k - n ELSE NoHash
         /\ Before(LegacyRow(j, u, n), LegacyRow(k, u, n)) <=> j < k
  <1>1. LegacyRow(k, u, n) \in Row
    BY DEF LegacyRow, Row
  <1>2. Signed(LegacyRow(k, u, n)) <=> k > u
    BY ChainAssumption DEF LegacyRow, Signed
  <1>3. BodyOK(LegacyRow(k, u, n))
    BY DEF LegacyRow, BodyOK
  <1>4. Before(LegacyRow(j, u, n), LegacyRow(k, u, n)) <=> j < k
    BY DEF LegacyRow, Before
  <1> QED BY <1>1, <1>2, <1>3, <1>4 DEF LegacyRow

(* and all of them. *)
LEMMA LegacyChain ==
  ASSUME NEW u \in Nat, NEW s \in Nat, NEW L, L = LegacyRows(u, s)
  PROVE  RowsInv(L) /\ Linked(L, Captured(L)) /\ \A r \in L : r.seq = 0
  <1> DEFINE n == u + s
             row(k) == LegacyRow(k, u, n)
  <1>1. n \in Nat /\ L = {row(k) : k \in 1..n}
    BY DEF LegacyRows, LegacyRow
  <1> HIDE DEF n
  <1>2. \A k \in 1..n : row(k) \in L /\ row(k) \in Row /\ row(k).seq = 0 /\ BodyOK(row(k))
    BY <1>1, LegacyRowFacts
  <1>3. \A k, j \in 1..n : Before(row(j), row(k)) <=> j < k
    BY <1>1, LegacyRowFacts
  <1>4. L \subseteq Row /\ \A r \in L : r.seq = 0 /\ BodyOK(r) /\ \E k \in 1..n : r = row(k)
    BY <1>1, <1>2
  <1>5. IsFiniteSet(L)
    <2> DEFINE f == [k \in 1..n |-> row(k)]
    <2>1. f \in Surjection(1..n, L)
      BY <1>1 DEF Surjection
    <2>2. IsFiniteSet(1..n)
      BY <1>1, FS_Interval
    <2> HIDE DEF f
    <2> QED BY <2>1, <2>2, FS_Surjection
  <1>6. Ordered(L)
    <2>1. ASSUME NEW r \in L, NEW q \in L, r # q PROVE Before(r, q) \/ Before(q, r)
      <3>1. PICK j \in 1..n : r = row(j)
        BY <1>4
      <3>2. PICK k \in 1..n : q = row(k)
        BY <1>4
      <3>3. j # k
        BY <2>1, <3>1, <3>2
      <3>4. j < k \/ k < j
        BY <3>3
      <3> HIDE DEF row
      <3> QED BY <1>3, <3>1, <3>2, <3>4
    <2> QED BY <2>1 DEF Ordered
  <1>7. RowsInv(L)
    BY <1>4, <1>5, <1>6 DEF RowsInv
  <1>8. PICK a : a = Captured(L)
    OBVIOUS
  <1>9. HashOf(a.boundary) = NoHash
    BY <1>8 DEF Captured, HashOf
  <1>10. ASSUME NEW r \in L PROVE RowLinked(r, a, L)
    <2>1. PICK k \in 1..n : r = row(k)
      BY <1>4
    <2>2. /\ r.prev = IF k > u + 1 THEN k - 1 - n ELSE NoHash
          /\ Signed(r) <=> k > u
      BY <1>1, <2>1, LegacyRowFacts
    <2>3. Earlier(r, L) = {row(j) : j \in 1..(k - 1)}
      <3>1. \A j \in 1..n : Before(row(j), r) <=> j < k
        BY <1>3, <2>1
      <3>2. \A q \in Earlier(r, L) : \E j \in 1..(k - 1) : q = row(j)
        <4>1. SUFFICES ASSUME NEW q \in L, Before(q, r) PROVE \E j \in 1..(k - 1) : q = row(j)
          BY DEF Earlier
        <4>2. PICK j \in 1..n : q = row(j)
          BY <1>4
        <4>3. j < k
          BY <3>1, <4>1, <4>2
        <4> QED BY <1>1, <4>2, <4>3
      <3>3. \A j \in 1..(k - 1) : row(j) \in Earlier(r, L)
        <4>1. SUFFICES ASSUME NEW j \in 1..(k - 1) PROVE row(j) \in L /\ Before(row(j), r)
          BY DEF Earlier
        <4>2. j \in 1..n /\ j < k
          BY <1>1
        <4> QED BY <1>2, <3>1, <4>2
      <3> HIDE DEF row
      <3> QED BY <3>2, <3>3
    <2>4. r.prev = Expected(r, a, L)
      <3>1. CASE k = 1
        <4>1. Earlier(r, L) = {}
          BY <2>3, <3>1
        <4> QED BY <1>9, <2>2, <3>1, <4>1 DEF Expected
      <3>2. CASE k > 1
        <4> DEFINE E == Earlier(r, L)
        <4>1. E \in SUBSET Row /\ IsFiniteSet(E) /\ Ordered(E)
          BY <1>7, RowsSubset DEF Earlier
        <4>2. k - 1 \in 1..(k - 1) /\ k - 1 \in 1..n
          BY <1>1, <3>2
        <4>3. row(k - 1) \in E
          BY <2>3, <4>2
        <4>4. \A q \in E \ {row(k - 1)} : Before(q, row(k - 1))
          <5>1. SUFFICES ASSUME NEW q \in E, q # row(k - 1) PROVE Before(q, row(k - 1))
            OBVIOUS
          <5>2. PICK j \in 1..(k - 1) : q = row(j)
            BY <2>3
          <5>3. j # k - 1
            BY <5>1, <5>2
          <5>4. j < k - 1 /\ j \in 1..n
            BY <1>1, <5>3
          <5> HIDE DEF row
          <5> QED BY <1>3, <4>2, <5>2, <5>4
        <4> HIDE DEF E, row
        <4>5. Last(E) = row(k - 1)
          BY <4>1, <4>3, <4>4, LastFacts
        <4>6. row(k - 1).hash = IF k - 1 > u THEN k - 1 - n ELSE NoHash
          <5>1. k - 1 \in Nat
            BY <3>2
          <5> QED BY <1>1, <5>1, LegacyRowFacts DEF row
        <4>7. k - 1 > u <=> k > u + 1
          OBVIOUS
        <4>8. Expected(r, a, L) = Last(E).hash
          BY <4>3 DEF Expected, E
        <4> QED BY <2>2, <4>5, <4>6, <4>7, <4>8
      <3> QED BY <3>1, <3>2
    <2>5. ASSUME ~Signed(r), NEW q \in Earlier(r, L) PROVE ~Signed(q)
      <3>1. PICK j \in 1..(k - 1) : q = row(j)
        BY <2>3, <2>5
      <3>2. Signed(q) <=> j > u
        BY <1>1, <3>1, LegacyRowFacts
      <3> QED BY <2>2, <2>5, <3>1, <3>2
    <2> QED BY <1>4, <1>9, <2>4, <2>5 DEF RowLinked
  <1> QED BY <1>4, <1>7, <1>8, <1>10, CapturedFits DEF Linked

-----------------------------------------------------------------------------
(* The inductive invariant *)

(* It holds of the log the migration finds. *)
LEMMA AuditInit == Init => AuditInv
  <1> SUFFICES ASSUME Init PROVE AuditInv
    OBVIOUS
  <1>1. PICK p \in Legacies : log = LegacyRows(p[1], p[2])
    BY DEF Init
  <1>2. p[1] \in Nat /\ p[2] \in Nat
    BY ChainAssumption
  <1>3. RowsInv(log) /\ Linked(log, Captured(log)) /\ \A r \in log : r.seq = 0
    BY <1>1, <1>2, LegacyChain
  <1>4. /\ vlog = log /\ anchor = Unsealed /\ vanchor = Unsealed /\ holder = NoTx
        /\ seq = 1 /\ now = 1 /\ tpc = [t \in Txns |-> "idle"] /\ stamp = [t \in Txns |-> 0]
        /\ tampered = FALSE
    BY DEF Init
  <1>5. TypeOK
    <2>1. log \subseteq Row /\ seq \in Nat /\ now \in Nat
      BY <1>3, <1>4 DEF RowsInv
    <2>2. tpc \in [Txns -> {"idle", "made", "open"}] /\ stamp \in [Txns -> Int]
      BY <1>4
    <2> QED BY <1>4, <2>1, <2>2 DEF TypeOK
  <1>6. StampInv /\ RemovedInv
    BY <1>4 DEF StampInv, RemovedInv, Txns
  <1>7. Loaded(anchor, log) = Captured(log) /\ SeqOf(Captured(log).boundary) = 0
    BY <1>4 DEF Loaded, Captured, SeqOf
  <1>8. PairInv(log, anchor, seq, tampered)
    BY <1>3, <1>4, <1>7 DEF PairInv, Fresh
  <1> QED BY <1>4, <1>5, <1>6, <1>8 DEF AuditInv

(* The sequence may move on alone. *)
LEMMA PairLater ==
  ASSUME NEW S, NEW a \in Anchor \cup {Unsealed}, NEW n \in Nat, NEW m \in Nat, n <= m,
         NEW damaged, PairInv(S, a, n, damaged)
  PROVE  PairInv(S, a, m, damaged)
  <1>1. \A r \in S : r.seq \in Nat
    BY DEF PairInv, RowsInv, Row
  <1>2. SeqOf(Loaded(a, S).boundary) \in Nat
    BY LoadedFacts, HashSeqTypes DEF PairInv, Anchor
  <1> QED BY <1>1, <1>2 DEF PairInv, Fresh

(* An append, *)
LEMMA PairAppend ==
  ASSUME NEW S, NEW c \in Anchor \cup {Unsealed}, NEW damaged \in BOOLEAN, NEW ts \in Nat,
         seq \in Nat, seq > 0, PairInv(S, c, seq, damaged),
         NEW a, a = Loaded(c, S), NEW T, T = AfterAppend(a, S, ts).log, NEW b, b = AfterAppend(a, S, ts).anchor
  PROVE  /\ b \in Anchor /\ PairInv(T, b, seq + 1, damaged)
         /\ T \in SUBSET Row /\ S \subseteq T /\ \A r \in T \ S : r.seq = seq
  <1>1. RowsInv(S) /\ a \in Anchor /\ (\A s \in S : s.seq < seq) /\ SeqOf(a.boundary) < seq
    BY LoadedFacts DEF PairInv, Fresh
  <1>2. PICK r : r = NewRow(a, ts)
    OBVIOUS
  <1>3. r \in Row /\ r.seq = seq
    BY <1>1, <1>2, NewRowFacts
  <1>4. T = S \cup {r} /\ b \in Anchor /\ b.boundary = a.boundary
    BY <1>1, <1>2, AppendAnchor
  <1>5. RowsInv(T)
    <2>1. \A s \in S : s.seq < r.seq
      BY <1>1, <1>3
    <2>2. RowsInv(S \cup {r})
      BY <1>1, <1>3, <2>1, AppendFacts
    <2> QED BY <1>4, <2>2
  <1>6. b # Unsealed /\ Loaded(b, T) = b
    BY <1>4, <1>5, LoadedFacts, ChainAssumption
  <1>7. Fresh(T, b, seq + 1)
    <2>1. \A s \in S : s.seq \in Nat
      BY <1>1 DEF RowsInv, Row
    <2>2. SeqOf(a.boundary) \in Nat
      BY <1>1, HashSeqTypes DEF Anchor
    <2> QED BY <1>1, <1>3, <1>4, <1>6, <2>1, <2>2 DEF Fresh
  <1>8. CASE damaged = TRUE
    <2>1. Damaged(S, c)
      BY <1>8 DEF PairInv
    <2>2. Damaged(S, a)
      BY <1>1, <2>1, LoadedFacts DEF Damaged
    <2>3. Damaged(T, b)
      BY <1>1, <2>2, DamagedAppend
    <2> QED BY <1>3, <1>4, <1>5, <1>7, <1>8, <2>3 DEF PairInv, RowsInv
  <1>9. CASE damaged = FALSE
    <2>1. Linked(S, a)
      BY <1>9 DEF PairInv
    <2>2. Linked(T, b)
      BY <1>1, <2>1, LinkedAppend
    <2> QED BY <1>3, <1>4, <1>5, <1>6, <1>7, <1>9, <2>2 DEF PairInv, RowsInv
  <1> QED BY <1>8, <1>9

(* and a batch. *)
LEMMA PairPrune ==
  ASSUME NEW S, NEW c \in Anchor \cup {Unsealed}, NEW damaged \in BOOLEAN, NEW n \in Nat,
         PairInv(S, c, n, damaged), NEW a, a = Loaded(c, S), NEW C, Prefix(C, S), C # {},
         ~PruneRefused(a, S, C), NEW b, b = AfterPrune(a, S, C).anchor, ValidState(b)
  PROVE  b \in Anchor /\ PairInv(S \ C, b, n, damaged)
  <1>1. RowsInv(S) /\ a \in Anchor /\ (\A s \in S : s.seq < n)
    BY LoadedFacts DEF PairInv, Fresh
  <1>2. b \in Anchor /\ b.boundary = Position(Last(C))
    <2>1. RowsInv(S) /\ a \in Anchor
      BY <1>1
    <2>2. b.boundary = Position(Last(C))
      BY <2>1 DEF AfterPrune, Anchor
    <2>3. ValidState(b) => b \in Anchor
      BY <2>1, PruneAnchor
    <2> QED BY <2>2, <2>3
  <1>3. RowsInv(S \ C) /\ Last(C) \in S /\ Last(C) \in Row
    BY <1>1, PruneFacts DEF Prefix
  <1>4. Loaded(b, S \ C) = b
    BY <1>2, <1>3, LoadedFacts, ChainAssumption
  <1>5. Fresh(S \ C, b, n)
    <2>1. SeqOf(b.boundary) = Last(C).seq
      BY <1>2, <1>3, PositionFacts
    <2> QED BY <1>1, <1>3, <1>4, <2>1 DEF Fresh
  <1>6. CASE damaged = TRUE
    <2>1. Damaged(S, c)
      BY <1>6 DEF PairInv
    <2>2. Damaged(S, a)
      BY <1>1, <2>1, LoadedFacts DEF Damaged
    <2>3. Damaged(S \ C, b)
      BY <1>1, <2>2, DamagedPrune
    <2> QED BY <1>2, <1>3, <1>5, <1>6, <2>3 DEF PairInv
  <1>7. CASE damaged = FALSE
    <2>1. Linked(S, a)
      BY <1>7 DEF PairInv
    <2>2. Linked(S \ C, b)
      BY <1>1, <2>1, LinkedPrune
    <2> QED BY <1>2, <1>3, <1>4, <1>5, <1>7, <2>2 DEF PairInv
  <1> QED BY <1>6, <1>7

(* The types, part by part. *)
TxnTypes ==
    /\ tpc \in [Txns -> {"idle", "made", "open"}] /\ stamp \in [Txns -> Int]
    /\ now \in Nat /\ tampered \in BOOLEAN
ChainTypes ==
    /\ log \subseteq Row /\ vlog \subseteq Row
    /\ anchor \in Anchor \cup {Unsealed} /\ vanchor \in Anchor \cup {Unsealed}
    /\ holder \in Txns \cup {NoTx} /\ seq \in Nat
    /\ holder = NoTx => vlog = log /\ vanchor = anchor

(* The types are the types of the parts, now and after a step. *)
LEMMA AuditParts ==
  /\ TypeOK <=> TxnTypes /\ ChainTypes
  /\ TypeOK' <=> TxnTypes' /\ ChainTypes'
  BY DEF TypeOK, TxnTypes, ChainTypes

(* Steps of a transaction that leave the chain alone. *)
LEMMA ChainSame ==
  ASSUME AuditInv, UNCHANGED <<committed, view, tampered>>, seq' \in Nat, seq' >= seq
  PROVE  /\ ChainTypes' /\ seq' > 0
         /\ PairInv(log, anchor, seq, tampered)' /\ PairInv(vlog, vanchor, seq, tampered)'
  <1>1. ChainTypes /\ seq > 0
    BY AuditParts DEF AuditInv
  <1>2. /\ log' = log /\ anchor' = anchor /\ holder' = holder /\ vlog' = vlog /\ vanchor' = vanchor
        /\ tampered' = tampered
    BY DEF committed, view
  <1>3. ChainTypes' /\ seq' > 0
    BY <1>1, <1>2 DEF ChainTypes
  <1>4. /\ PairInv(log, anchor, seq', tampered) /\ PairInv(vlog, vanchor, seq', tampered)
    BY <1>1, PairLater DEF AuditInv, ChainTypes
  <1> QED BY <1>2, <1>3, <1>4

(* A record is made. *)
LEMMA StepMakeRecord ==
  ASSUME AuditInv, NEW t \in Writers, MakeRecord(t)
  PROVE  AuditInv'
  <1>0. TxnTypes /\ ChainTypes /\ t \in Txns
    BY AuditParts DEF AuditInv, Txns
  <1>1. /\ UNCHANGED <<committed, view, seq, now, tampered>>
        /\ tpc' = [tpc EXCEPT ![t] = "made"] /\ stamp' = [stamp EXCEPT ![t] = now]
    BY DEF MakeRecord
  <1>2. TxnTypes'
    BY <1>0, <1>1 DEF TxnTypes
  <1>3. /\ ChainTypes' /\ seq' > 0
        /\ PairInv(log, anchor, seq, tampered)' /\ PairInv(vlog, vanchor, seq, tampered)'
    BY <1>0, <1>1, ChainSame DEF ChainTypes
  <1>4. StampInv'
    BY <1>0, <1>1, ChainAssumption DEF StampInv, TxnTypes, AuditInv, Txns
  <1>5. RemovedInv'
    BY <1>1 DEF RemovedInv, AuditInv, committed, view, Earlier, Before
  <1> QED BY <1>2, <1>3, <1>4, <1>5, AuditParts DEF AuditInv

(* A record is lost. *)
LEMMA StepAppendFails ==
  ASSUME AuditInv, NEW t \in Writers, AppendFails(t)
  PROVE  AuditInv'
  <1>0. TxnTypes /\ ChainTypes /\ t \in Txns
    BY AuditParts DEF AuditInv, Txns
  <1>1. /\ UNCHANGED <<committed, view, now, tampered>> /\ seq' \in {seq, seq + 1}
        /\ tpc' = [tpc EXCEPT ![t] = "open"] /\ stamp' = [stamp EXCEPT ![t] = 0]
    BY DEF AppendFails
  <1>2. TxnTypes'
    BY <1>0, <1>1 DEF TxnTypes
  <1>3. /\ ChainTypes' /\ seq' > 0
        /\ PairInv(log, anchor, seq, tampered)' /\ PairInv(vlog, vanchor, seq, tampered)'
    <2>1. seq' \in Nat /\ seq' >= seq
      BY <1>0, <1>1 DEF ChainTypes
    <2> QED BY <1>1, <2>1, ChainSame
  <1>4. StampInv'
    BY <1>0, <1>1, ChainAssumption DEF StampInv, TxnTypes, AuditInv, Txns
  <1>5. RemovedInv'
    BY <1>1 DEF RemovedInv, AuditInv, committed, view, Earlier, Before
  <1> QED BY <1>2, <1>3, <1>4, <1>5, AuditParts DEF AuditInv

(* A cutoff is fixed. *)
LEMMA StepBeginCleanup ==
  ASSUME AuditInv, NEW t \in Cleaners, BeginCleanup(t)
  PROVE  AuditInv'
  <1>0. TxnTypes /\ ChainTypes /\ t \in Txns /\ Retention \in Nat
    BY AuditParts, ChainAssumption DEF AuditInv, Txns
  <1>1. /\ UNCHANGED <<committed, view, seq, now, tampered>>
        /\ tpc' = [tpc EXCEPT ![t] = "made"] /\ stamp' = [stamp EXCEPT ![t] = now - Retention]
    BY DEF BeginCleanup
  <1>2. TxnTypes'
    BY <1>0, <1>1 DEF TxnTypes
  <1>3. /\ ChainTypes' /\ seq' > 0
        /\ PairInv(log, anchor, seq, tampered)' /\ PairInv(vlog, vanchor, seq, tampered)'
    BY <1>0, <1>1, ChainSame DEF ChainTypes
  <1>4. StampInv'
    BY <1>0, <1>1, ChainAssumption DEF StampInv, TxnTypes, AuditInv, Txns
  <1>5. RemovedInv'
    BY <1>1 DEF RemovedInv, AuditInv, committed, view, Earlier, Before
  <1> QED BY <1>2, <1>3, <1>4, <1>5, AuditParts DEF AuditInv

(* Time passes: cutoffs and expired rows age. *)
LEMMA StepTick ==
  ASSUME AuditInv, Tick
  PROVE  AuditInv'
  <1>0. TxnTypes /\ ChainTypes /\ Retention \in Nat
    BY AuditParts, ChainAssumption DEF AuditInv
  <1>1. /\ UNCHANGED <<committed, view, seq, tpc, stamp, tampered>> /\ now' = now + 1
    BY DEF Tick
  <1>2. TxnTypes'
    BY <1>0, <1>1 DEF TxnTypes
  <1>3. /\ ChainTypes' /\ seq' > 0
        /\ PairInv(log, anchor, seq, tampered)' /\ PairInv(vlog, vanchor, seq, tampered)'
    BY <1>0, <1>1, ChainSame DEF ChainTypes
  <1>4. StampInv'
    BY <1>0, <1>1, ChainAssumption DEF StampInv, TxnTypes, AuditInv, Txns
  <1>5. RemovedInv'
    <2>1. \A r \in log : r.ts \in Nat
      BY <1>0 DEF ChainTypes, Row
    <2> QED BY <1>0, <1>1, <2>1 DEF RemovedInv, AuditInv, committed, view, Earlier, Before, TxnTypes
  <1> QED BY <1>2, <1>3, <1>4, <1>5, AuditParts DEF AuditInv

(* A record is appended: it is behind everything that was removed. *)
LEMMA StepAppend ==
  ASSUME AuditInv, NEW t \in Writers, Append(t)
  PROVE  AuditInv'
  <1>0. /\ TxnTypes /\ ChainTypes /\ t \in Txns /\ t # NoTx /\ stamp[t] \in Nat /\ seq > 0
        /\ PairInv(log, anchor, seq, tampered) /\ PairInv(vlog, vanchor, seq, tampered)
    BY AuditParts, ChainAssumption DEF AuditInv, Txns, StampInv
  <1>1. PICK a : a = Loaded(vanchor, vlog)
    OBVIOUS
  <1>2. /\ holder' = t /\ seq' = seq + 1 /\ UNCHANGED <<committed, now, tampered>>
        /\ vlog' = AfterAppend(a, vlog, stamp[t]).log /\ vanchor' = AfterAppend(a, vlog, stamp[t]).anchor
        /\ tpc' = [tpc EXCEPT ![t] = "open"] /\ stamp' = [stamp EXCEPT ![t] = 0]
    BY <1>1 DEF Append
  <1>3. /\ vanchor' \in Anchor /\ PairInv(vlog', vanchor', seq + 1, tampered)
        /\ vlog' \in SUBSET Row /\ vlog \subseteq vlog' /\ \A r \in vlog' \ vlog : r.seq = seq
    <2>1. vanchor \in Anchor \cup {Unsealed} /\ seq \in Nat /\ tampered \in BOOLEAN
      BY <1>0 DEF ChainTypes, TxnTypes
    <2> QED BY <1>0, <1>1, <1>2, <2>1, PairAppend
  <1>4. PairInv(log, anchor, seq + 1, tampered)
    <2>1. anchor \in Anchor \cup {Unsealed} /\ seq \in Nat /\ seq + 1 \in Nat /\ seq <= seq + 1
      BY <1>0 DEF ChainTypes
    <2> QED BY <1>0, <2>1, PairLater
  <1>5. TxnTypes'
    BY <1>0, <1>2 DEF TxnTypes
  <1>6. ChainTypes' /\ seq' > 0
    BY <1>0, <1>2, <1>3 DEF ChainTypes, committed
  <1>7. PairInv(log, anchor, seq, tampered)' /\ PairInv(vlog, vanchor, seq, tampered)'
    BY <1>2, <1>3, <1>4 DEF committed
  <1>8. StampInv'
    BY <1>0, <1>2, ChainAssumption DEF StampInv, TxnTypes, AuditInv, Txns
  <1>9. RemovedInv'
    <2>1. log' = log /\ now' = now
      BY <1>2 DEF committed
    <2>2. SUFFICES ASSUME NEW r \in log, r \notin vlog'
                   PROVE  r.ts < now - Retention /\ Earlier(r, log) \cap vlog' = {}
      BY <2>1 DEF RemovedInv, Earlier, Before
    <2>3. r.ts < now - Retention /\ Earlier(r, log) \cap vlog = {}
      BY <1>3, <2>2 DEF AuditInv, RemovedInv
    <2>4. \A s \in log : s.seq < seq /\ s.seq \in Nat
      BY <1>0 DEF PairInv, Fresh, RowsInv, Row
    <2>5. ASSUME NEW s \in Earlier(r, log), s \in vlog' PROVE FALSE
      <3>1. s \in log /\ s \notin vlog
        BY <2>3, <2>5 DEF Earlier
      <3> QED BY <1>3, <2>4, <2>5, <3>1
    <2> QED BY <2>3, <2>5
  <1> QED BY <1>5, <1>6, <1>7, <1>8, <1>9, AuditParts DEF AuditInv

(* A batch is deleted from the view of the lock holder. *)
LEMMA StepPrune ==
  ASSUME AuditInv, NEW t \in Cleaners, Prune(t)
  PROVE  AuditInv'
  <1>0. /\ TxnTypes /\ ChainTypes /\ t \in Txns /\ t # NoTx /\ seq > 0 /\ Retention \in Nat
        /\ PairInv(log, anchor, seq, tampered) /\ PairInv(vlog, vanchor, seq, tampered)
        /\ RowsInv(vlog)
    BY AuditParts, ChainAssumption DEF AuditInv, Txns, PairInv
  <1>1. PICK a, C : /\ a = Loaded(vanchor, vlog) /\ C = Chosen(vlog, stamp[t])
                    /\ ~PruneRefused(a, vlog, C)
                    /\ IF C = {} THEN UNCHANGED <<vlog, vanchor>>
                       ELSE \E result \in {AfterPrune(a, vlog, C)} :
                               /\ ValidState(result.anchor)
                               /\ vlog' = result.log /\ vanchor' = result.anchor
    BY DEF Prune
  <1>2. /\ tpc[t] = "made" /\ holder' = t /\ UNCHANGED <<committed, seq, now, tampered>>
        /\ tpc' = [tpc EXCEPT ![t] = "open"] /\ stamp' = [stamp EXCEPT ![t] = 0]
    BY DEF Prune
  <1>3. stamp[t] \in Int /\ stamp[t] <= now - Retention
    BY <1>0, <1>2 DEF TxnTypes, AuditInv, StampInv
  <1>4. Prefix(C, vlog) /\ \A r \in C : r.ts < stamp[t]
    BY <1>0, <1>1, <1>3, ChosenPrefix DEF Prefix
  <1>5. /\ vanchor' \in Anchor \cup {Unsealed} /\ vlog' = vlog \ C
        /\ PairInv(vlog', vanchor', seq, tampered)
    <2>1. CASE C = {}
      BY <1>0, <1>1, <2>1 DEF ChainTypes
    <2>2. CASE C # {}
      <3>1. /\ ValidState(AfterPrune(a, vlog, C).anchor)
            /\ vlog' = AfterPrune(a, vlog, C).log /\ vanchor' = AfterPrune(a, vlog, C).anchor
        BY <1>1, <2>2
      <3>2. vlog' = vlog \ C
        BY <3>1 DEF AfterPrune
      <3>3. vanchor \in Anchor \cup {Unsealed} /\ seq \in Nat /\ tampered \in BOOLEAN
        BY <1>0 DEF ChainTypes, TxnTypes
      <3>4. vanchor' \in Anchor /\ PairInv(vlog \ C, vanchor', seq, tampered)
        BY <1>0, <1>1, <1>4, <2>2, <3>1, <3>3, PairPrune
      <3> QED BY <3>2, <3>4
    <2> QED BY <2>1, <2>2
  <1>6. TxnTypes'
    BY <1>0, <1>2 DEF TxnTypes
  <1>7. ChainTypes' /\ seq' > 0
    BY <1>0, <1>2, <1>5 DEF ChainTypes, committed
  <1>8. PairInv(log, anchor, seq, tampered)' /\ PairInv(vlog, vanchor, seq, tampered)'
    BY <1>0, <1>2, <1>5 DEF committed
  <1>9. StampInv'
    BY <1>0, <1>2, ChainAssumption DEF StampInv, TxnTypes, AuditInv, Txns
  <1>10. RemovedInv'
    <2>1. log' = log /\ now' = now
      BY <1>2 DEF committed
    <2>2. SUFFICES ASSUME NEW r \in log, r \notin vlog'
                   PROVE  r.ts < now - Retention /\ Earlier(r, log) \cap vlog' = {}
      BY <2>1 DEF RemovedInv, Earlier, Before
    <2>3. CASE r \notin vlog
      BY <1>5, <2>3 DEF AuditInv, RemovedInv
    <2>4. CASE r \in C
      <3>1. r.ts < now - Retention
        <4>1. r.ts \in Nat /\ now \in Nat
          BY <1>0 DEF ChainTypes, Row, TxnTypes
        <4> QED BY <1>0, <1>3, <1>4, <2>4, <4>1
      <3>2. ASSUME NEW s \in Earlier(r, log), s \in vlog' PROVE FALSE
        <4>1. s \in vlog /\ s \notin C /\ Before(s, r)
          BY <1>5, <3>2 DEF Earlier
        <4> QED BY <1>4, <2>4, <4>1 DEF Prefix
      <3> QED BY <3>1, <3>2
    <2> QED BY <1>5, <2>2, <2>3, <2>4
  <1> QED BY <1>6, <1>7, <1>8, <1>9, <1>10, AuditParts DEF AuditInv

(* The view becomes the log, if the lock was taken. *)
LEMMA StepCommit ==
  ASSUME AuditInv, NEW t \in Txns, Commit(t)
  PROVE  AuditInv'
  <1>0. /\ TxnTypes /\ ChainTypes /\ seq > 0
        /\ PairInv(log, anchor, seq, tampered) /\ PairInv(vlog, vanchor, seq, tampered)
    BY AuditParts DEF AuditInv
  <1>1. /\ tpc' = [tpc EXCEPT ![t] = "idle"] /\ UNCHANGED <<vlog, vanchor, seq, now, stamp, tampered>>
        /\ \/ log' = vlog /\ anchor' = vanchor /\ holder' = NoTx
           \/ UNCHANGED <<log, anchor, holder>>
    BY DEF Commit, committed
  <1>2. TxnTypes'
    BY <1>0, <1>1 DEF TxnTypes
  <1>3. ChainTypes' /\ seq' > 0
    BY <1>0, <1>1 DEF ChainTypes
  <1>4. PairInv(log, anchor, seq, tampered)' /\ PairInv(vlog, vanchor, seq, tampered)'
    BY <1>0, <1>1
  <1>5. StampInv'
    BY <1>0, <1>1 DEF StampInv, TxnTypes, AuditInv, Txns
  <1>6. RemovedInv'
    <2>1. CASE log' = vlog
      BY <1>1, <2>1 DEF RemovedInv
    <2>2. CASE log' = log
      BY <1>1, <2>2 DEF RemovedInv, AuditInv, Earlier, Before
    <2> QED BY <1>1, <2>1, <2>2
  <1> QED BY <1>2, <1>3, <1>4, <1>5, <1>6, AuditParts DEF AuditInv

(* The view is thrown away. *)
LEMMA StepAbort ==
  ASSUME AuditInv, NEW t \in Txns, Abort(t)
  PROVE  AuditInv'
  <1>0. /\ TxnTypes /\ ChainTypes /\ seq > 0
        /\ PairInv(log, anchor, seq, tampered) /\ PairInv(vlog, vanchor, seq, tampered)
    BY AuditParts DEF AuditInv
  <1>1. /\ tpc' = [tpc EXCEPT ![t] = "idle"] /\ stamp' = [stamp EXCEPT ![t] = 0]
        /\ UNCHANGED <<log, anchor, seq, now, tampered>>
        /\ \/ vlog' = log /\ vanchor' = anchor /\ holder' = NoTx
           \/ UNCHANGED <<vlog, vanchor, holder>>
    BY DEF Abort, committed, view
  <1>2. TxnTypes'
    BY <1>0, <1>1 DEF TxnTypes
  <1>3. ChainTypes' /\ seq' > 0
    BY <1>0, <1>1 DEF ChainTypes
  <1>4. PairInv(log, anchor, seq, tampered)' /\ PairInv(vlog, vanchor, seq, tampered)'
    BY <1>0, <1>1
  <1>5. StampInv'
    BY <1>0, <1>1 DEF StampInv, TxnTypes, AuditInv, Txns
  <1>6. RemovedInv'
    <2>1. CASE vlog' = log
      BY <1>1, <2>1 DEF RemovedInv
    <2>2. CASE vlog' = vlog
      BY <1>1, <2>2 DEF RemovedInv, AuditInv, Earlier, Before
    <2> QED BY <1>1, <2>1, <2>2
  <1> QED BY <1>2, <1>3, <1>4, <1>5, <1>6, AuditParts DEF AuditInv

(* Somebody changes the table. *)
LEMMA StepOutOfBand ==
  ASSUME AuditInv, NEW r \in log, OutOfBand(r)
  PROVE  AuditInv'
  <1>0. /\ TxnTypes /\ ChainTypes /\ seq > 0 /\ seq \in Nat /\ PairInv(log, anchor, seq, tampered)
    BY AuditParts DEF AuditInv, ChainTypes
  <1>1. /\ tampered = FALSE /\ holder = NoTx /\ anchor # Unsealed /\ vlog' = log' /\ tampered' = TRUE
        /\ UNCHANGED <<anchor, holder, vanchor, seq, now, tpc, stamp>>
        /\ Changed(r, log, log')
    BY <1>0 DEF OutOfBand, TxnTypes, Changed
  <1>2. anchor \in Anchor /\ vanchor = anchor /\ Loaded(anchor, log) = anchor
    BY <1>0, <1>1, LoadedFacts DEF ChainTypes, PairInv
  <1>3. RowsInv(log) /\ Linked(log, anchor) /\ Fresh(log, anchor, seq)
    BY <1>0, <1>1, <1>2 DEF PairInv
  <1>4. RowsInv(log') /\ \A q \in log' : \E s \in log : q.seq = s.seq
    BY <1>1, <1>3, OutOfBandRows
  <1>5. Damaged(log', anchor)
    BY <1>1, <1>2, <1>3, OutOfBandDamages
  <1>6. Loaded(anchor, log') = anchor
    BY <1>1, <1>2, <1>4, LoadedFacts
  <1>7. Fresh(log', anchor, seq)
    BY <1>2, <1>3, <1>4, <1>6 DEF Fresh
  <1>8. PairInv(log', anchor, seq, TRUE)
    BY <1>4, <1>5, <1>7 DEF PairInv
  <1>9. PairInv(log, anchor, seq, tampered)' /\ PairInv(vlog, vanchor, seq, tampered)'
    BY <1>1, <1>2, <1>8
  <1>10. TxnTypes' /\ StampInv'
    BY <1>0, <1>1 DEF TxnTypes, StampInv, AuditInv
  <1>11. ChainTypes' /\ seq' > 0
    BY <1>0, <1>1, <1>2, <1>4 DEF ChainTypes, RowsInv
  <1>12. RemovedInv'
    BY <1>1 DEF RemovedInv
  <1> QED BY <1>9, <1>10, <1>11, <1>12, AuditParts DEF AuditInv

(* The inductive invariant: a log is a chain its anchor describes until      *)
(* somebody tampers with it, and damaged ever after; what a transaction    *)
(* has removed is an expired prefix. *)
THEOREM AuditInvariant == Spec => []AuditInv
  <1>1. AuditInv /\ [Next]_vars => AuditInv'
    <2> SUFFICES ASSUME AuditInv, [Next]_vars PROVE AuditInv'
      OBVIOUS
    <2>1. CASE Next
      BY <2>1, StepMakeRecord, StepAppend, StepAppendFails, StepBeginCleanup, StepPrune,
         StepCommit, StepAbort, StepTick, StepOutOfBand DEF Next
    <2>2. CASE UNCHANGED vars
      BY <2>2 DEF vars, AuditInv, TypeOK, StampInv, RemovedInv, Earlier, Before
    <2> QED BY <2>1, <2>2
  <1> QED BY <1>1, AuditInit, PTL DEF Spec

(* Types; and outside a transaction the view is the committed state. *)
THEOREM AuditTypeCorrect == Spec => []TypeOK
  BY AuditInvariant, PTL DEF AuditInv

-----------------------------------------------------------------------------
(* Tamper evidence *)

(* validate_audit_chain sees the damage: in the counts or at the row. *)
LEMMA DamagedIsInvalid ==
  ASSUME NEW S, RowsInv(S), NEW a \in Anchor \cup {Unsealed}, Damaged(S, a)
  PROVE  ~WholeLogValid(S, a)
  <1>0. a # Unsealed
    BY DEF Damaged
  <1>1. CASE a.live # Cardinality(S)
    <2>1. ~SealOK(S, a)
      BY <1>0, <1>1 DEF SealOK
    <2> QED BY <2>1 DEF WholeLogValid, Valid
  <1>2. CASE \E r \in S : Signed(r) /\ ~r.intact
    <2>1. PICK r \in S : Signed(r) /\ ~r.intact
      BY <1>2
    <2>2. ~BodyOK(r)
      BY <2>1 DEF BodyOK
    <2>3. {q \in S : TRUE} = S
      OBVIOUS
    <2>4. Picked(S, NoPos, NoPos, Cardinality(S) + 1) = S
      BY <2>3, FirstRowsAll DEF Picked
    <2> QED BY <2>1, <2>2, <2>4 DEF WholeLogValid, Valid
  <1> QED BY <1>1, <1>2 DEF Damaged

(* Once a signed row was changed or a row removed behind the program's     *)
(* back, validate_audit_chain never accepts the whole log again, whatever  *)
(* is appended and deleted afterwards.                                     *)
THEOREM TamperingStaysEvident == Spec => []TamperEvident
  <1>1. AuditInv => TamperEvident
    <2> SUFFICES ASSUME AuditInv, tampered PROVE ~WholeLogValid(log, anchor)
      BY DEF TamperEvident
    <2>1. RowsInv(log) /\ Damaged(log, anchor) /\ anchor \in Anchor \cup {Unsealed}
      BY DEF AuditInv, PairInv, TypeOK
    <2> QED BY <2>1, DamagedIsInvalid
  <1> QED BY <1>1, AuditInvariant, PTL

-----------------------------------------------------------------------------
(* Retention *)

(* prune_prefix removes an expired prefix and nothing else: a row leaves   *)
(* the committed log after its period, with every earlier row.             *)
THEOREM RetentionTakesExpiredPrefix == Spec => OnlyExpiredPrefixLeaves
  <1>1. ASSUME AuditInv, [Next]_vars, tampered' = tampered
        PROVE  \A r \in log \ log' : r.ts < now - Retention /\ Earlier(r, log) \cap log' = {}
    <2>1. log' = log \/ log' = vlog
      <3>1. CASE UNCHANGED vars
        BY <3>1 DEF vars
      <3>2. CASE \E t \in Writers : MakeRecord(t) \/ Append(t) \/ AppendFails(t)
        BY <3>2 DEF MakeRecord, Append, AppendFails, committed
      <3>3. CASE \E t \in Cleaners : BeginCleanup(t) \/ Prune(t)
        BY <3>3 DEF BeginCleanup, Prune, committed
      <3>4. CASE \E t \in Txns : Commit(t) \/ Abort(t)
        BY <3>4 DEF Commit, Abort, committed
      <3>5. CASE Tick
        BY <3>5 DEF Tick, committed
      <3>6. CASE \E r \in log : OutOfBand(r)
        BY <1>1, <3>6 DEF OutOfBand
      <3> QED BY <1>1, <3>1, <3>2, <3>3, <3>4, <3>5, <3>6 DEF Next
    <2> QED BY <1>1, <2>1 DEF AuditInv, RemovedInv
  <1>2. ASSUME AuditInv, [Next]_vars
        PROVE  [tampered' = tampered =>
                  \A r \in log \ log' : /\ r.ts < now - Retention
                                        /\ Earlier(r, log) \cap log' = {}]_vars
    BY <1>1, <1>2
  <1> QED BY <1>2, AuditInvariant, PTL DEF Spec, OnlyExpiredPrefixLeaves

-----------------------------------------------------------------------------
(* The chain does not wedge itself *)

(* The anchor an append would store is well formed, *)
LEMMA AppendIsValid ==
  ASSUME NEW S, RowsInv(S), NEW a \in Anchor, Linked(S, a), NEW ts \in Nat, seq \in Nat,
         SeqOf(a.boundary) < seq
  PROVE  ValidState(AfterAppend(a, S, ts).anchor)
  <1> DEFINE r == NewRow(a, ts)
             b == AfterAppend(a, S, ts).anchor
  <1>1. r \in Row /\ r.seq = seq
    BY NewRowFacts
  <1> HIDE DEF r
  <1>2. /\ b.tail = Position(r) /\ b.boundary = a.boundary
        /\ b.live = a.live + 1 /\ b.legacy = a.legacy
    BY DEF AfterAppend, Anchor, r
  <1> HIDE DEF b
  <1>3. a.live \in Nat /\ a.legacy \in Nat /\ a.boundary \in Pos \cup {NoPos}
    BY DEF Anchor
  <1>4. a.legacy <= a.live
    <2>1. {q \in S : q.seq = 0} \in SUBSET S /\ IsFiniteSet(S)
      BY DEF RowsInv
    <2> QED BY <2>1, FS_Subset DEF Linked, AnchorFits
  <1>5. b.tail # NoPos /\ b.tail \in Pos
    BY <1>1, <1>2, PositionFacts
  <1>6. ASSUME b.boundary # NoPos PROVE Before(b.boundary, b.tail) /\ ~Before(b.tail, b.boundary)
    <2>1. b.boundary \in Pos /\ b.boundary.seq < seq
      BY <1>2, <1>3, <1>6 DEF SeqOf
    <2>2. Before(b.boundary, r)
      BY <1>1, <2>1 DEF Before
    <2>3. Before(b.boundary, b.tail)
      BY <1>1, <1>2, <2>2, PositionFacts
    <2> QED BY <1>5, <2>1, <2>3, BeforeStrict
  <1>7. b.live # 0 /\ b.live >= 0 /\ b.legacy >= 0 /\ b.legacy <= b.live
    BY <1>2, <1>3, <1>4
  <1>8. ValidState(b)
    BY <1>5, <1>6, <1>7 DEF ValidState
  <1> QED BY <1>8 DEF b

(* no batch of expired rows is refused, *)
LEMMA PruneIsAccepted ==
  ASSUME NEW S, RowsInv(S), NEW a \in Anchor, Linked(S, a), NEW C, Prefix(C, S)
  PROVE  ~PruneRefused(a, S, C)
  <1>1. TailOK(a, S) /\ a.live = Cardinality(S)
    BY LinkedAccepts DEF Linked, AnchorFits
  <1>2. ASSUME NEW r \in S
        PROVE  BodyOK(r) /\ r.prev = Expected(r, a, S) /\ ~(~Signed(r) /\ SawSignature(r, a, S))
    BY DEF Linked, RowLinked, SawSignature
  <1>3. C \subseteq S
    BY DEF Prefix
  <1>4. ASSUME C # S PROVE First(S \ C) \in S
    <2>1. S \ C \in SUBSET S /\ S \ C # {}
      BY <1>3, <1>4
    <2>2. RowsInv(S \ C)
      BY <2>1, RowsSubset
    <2> QED BY <2>1, <2>2, FirstFacts DEF RowsInv
  <1>5. S # {} => Position(Last(S)) = a.tail
    BY LinkedAccepts
  <1> QED BY <1>1, <1>2, <1>3, <1>4, <1>5 DEF PruneRefused

(* and the anchor it would store is well formed. *)
LEMMA PruneIsValid ==
  ASSUME NEW S, RowsInv(S), NEW a \in Anchor, Linked(S, a), NEW C, Prefix(C, S), C # {}
  PROVE  ValidState(AfterPrune(a, S, C).anchor)
  <1>0. PICK b : b = AfterPrune(a, S, C).anchor
    OBVIOUS
  <1>1. Linked(S \ C, b) /\ RowsInv(S \ C)
    BY <1>0, LinkedPrune, PruneFacts
  <1>2. PICK T : T = S \ C
    OBVIOUS
  <1>3. AnchorFits(b, T) /\ RowsInv(T)
    BY <1>1, <1>2 DEF Linked
  <1>4. b.boundary = Position(Last(C)) /\ b.boundary \in Pos /\ b.boundary # NoPos
    <2>1. Last(C) \in Row
      BY PruneFacts
    <2>2. b.boundary = Position(Last(C))
      BY <1>0 DEF AfterPrune, Anchor
    <2> QED BY <2>1, <2>2, PositionFacts
  <1>5. /\ Cardinality(T) \in Nat /\ Cardinality({r \in T : r.seq = 0}) \in Nat
        /\ Cardinality({r \in T : r.seq = 0}) <= Cardinality(T)
    <2>1. {r \in T : r.seq = 0} \in SUBSET T /\ T \in SUBSET T /\ IsFiniteSet(T)
      BY <1>3 DEF RowsInv
    <2> QED BY <1>3, <2>1, RowsSubset, FS_Subset
  <1>6. b.live = Cardinality(T) /\ b.legacy = Cardinality({r \in T : r.seq = 0})
    BY <1>3 DEF AnchorFits
  <1>7. CASE T = {}
    <2>1. b.tail = b.boundary /\ b.live = 0
      BY <1>3, <1>6, <1>7, FS_EmptySet DEF AnchorFits
    <2>2. ~Before(b.tail, b.boundary)
      BY <1>4, <2>1, BeforeStrict
    <2>3. ValidState(b)
      BY <1>4, <1>5, <1>6, <2>1, <2>2 DEF ValidState
    <2> QED BY <1>0, <2>3
  <1>8. CASE T # {}
    <2>1. Last(T) \in T /\ Last(T) \in Row
      BY <1>3, <1>8, LastFacts DEF RowsInv
    <2>2. b.tail = Position(Last(T)) /\ Before(b.boundary, Last(T))
      BY <1>3, <1>4, <1>8, <2>1 DEF AnchorFits
    <2>3. b.tail \in Pos /\ b.tail # NoPos /\ Before(b.boundary, b.tail)
      BY <2>1, <2>2, PositionFacts
    <2>4. ~Before(b.tail, b.boundary)
      BY <1>4, <2>3, BeforeStrict
    <2>5. b.live # 0
      BY <1>3, <1>6, <1>8, FS_EmptySet DEF RowsInv
    <2>6. ValidState(b)
      BY <1>5, <1>6, <2>3, <2>4, <2>5 DEF ValidState
    <2> QED BY <1>0, <2>6
  <1> QED BY <1>7, <1>8

(* In a log nobody tampered with, the checks of persist_record and of      *)
(* prune_prefix refuse neither the next record nor the next batch, and     *)
(* validate_state accepts the anchor either would store.                   *)
THEOREM ChainNeverWedges == Spec => []NeverWedged
  <1>1. AuditInv => NeverWedged
    <2> SUFFICES ASSUME AuditInv, tampered = FALSE,
                        NEW a, a = Loaded(vanchor, vlog),
                        NEW C, C = Chosen(vlog, now - Retention)
                 PROVE  /\ ~AppendRefused(a, vlog)
                        /\ ValidState(AfterAppend(a, vlog, now).anchor)
                        /\ ~PruneRefused(a, vlog, C)
                        /\ C # {} => ValidState(AfterPrune(a, vlog, C).anchor)
      BY DEF NeverWedged, AuditInv, TypeOK
    <2>1. /\ RowsInv(vlog) /\ Linked(vlog, a) /\ seq \in Nat /\ seq > 0 /\ now \in Nat
          /\ SeqOf(a.boundary) < seq /\ \A r \in vlog : r.seq < seq
      BY DEF AuditInv, PairInv, Fresh, TypeOK
    <2>2. a \in Anchor
      BY <2>1, LoadedFacts DEF AuditInv, TypeOK
    <2>3. Prefix(C, vlog)
      BY <2>1, ChosenPrefix, ChainAssumption DEF Prefix
    <2>4. TailOK(a, vlog)
      BY <2>1, <2>2, LinkedAccepts
    <2>5. SeqOf(a.tail) < seq /\ SeqOf(a.tail) \in Nat
      <3>1. CASE vlog = {}
        BY <2>1, <2>2, <3>1, LinkedAccepts, HashSeqTypes DEF Anchor
      <3>2. CASE vlog # {}
        <4>1. Last(vlog) \in vlog /\ a.tail = Position(Last(vlog)) /\ Last(vlog) \in Row
          BY <2>1, <2>2, <3>2, LinkedAccepts DEF RowsInv
        <4>2. SeqOf(a.tail) = Last(vlog).seq
          BY <4>1, PositionFacts
        <4> QED BY <2>1, <4>1, <4>2 DEF Row
      <3> QED BY <3>1, <3>2
    <2>6. ~AppendRefused(a, vlog)
      BY <2>1, <2>4, <2>5 DEF AppendRefused
    <2>7. ValidState(AfterAppend(a, vlog, now).anchor)
      BY <2>1, <2>2, AppendIsValid
    <2> QED BY <2>1, <2>2, <2>3, <2>6, <2>7, PruneIsAccepted, PruneIsValid
  <1> QED BY <1>1, AuditInvariant, PTL

-----------------------------------------------------------------------------
(* No false alarm *)

(* A window of the log is contiguous: before a row of it come the rows     *)
(* before the window and the earlier rows of the window.                   *)
LEMMA WindowContiguous ==
  ASSUME NEW S, RowsInv(S), NEW from \in S \cup {NoPos}, NEW to \in S \cup {NoPos}, NEW size \in Int,
         NEW picked, picked = Picked(S, from, to, size), NEW r \in picked
  PROVE  /\ picked \in SUBSET S /\ RowsInv(picked) /\ First(picked) \in picked
         /\ Earlier(r, S) = Earlier(First(picked), S) \cup Earlier(r, picked)
         /\ \A s \in Earlier(First(picked), S), q \in picked : Before(s, q)
  <1> DEFINE W == {q \in S : /\ from # NoPos => ~Before(q, from)
                             /\ to # NoPos => ~Before(to, q)}
             F == First(picked)
  <1>1. W \in SUBSET S /\ picked = FirstRows(W, size)
    BY DEF Picked
  <1>2. picked \in SUBSET W /\ picked \in SUBSET S
    BY <1>1 DEF FirstRows
  <1>3. RowsInv(W) /\ RowsInv(picked)
    BY <1>1, <1>2, RowsSubset
  <1>4. F \in picked /\ \A q \in picked \ {F} : Before(F, q)
    BY <1>3, FirstFacts DEF RowsInv
  <1>5. \A q \in S : q \in Row \cup Pos
    BY DEF RowsInv
  <1> HIDE DEF F
  <1>6. ASSUME NEW s \in Earlier(F, S), NEW q \in picked PROVE Before(s, q)
    <2>1. s \in S /\ Before(s, F) /\ (q = F \/ Before(F, q))
      BY <1>4 DEF Earlier
    <2>2. s \in Row \cup Pos /\ F \in Row \cup Pos /\ q \in Row \cup Pos
      BY <1>2, <1>4, <1>5, <2>1
    <2> QED BY <2>1, <2>2, BeforeStrict
  <1>7. Earlier(F, S) \cup Earlier(r, picked) \subseteq Earlier(r, S)
    BY <1>2, <1>6 DEF Earlier
  <1>8. ASSUME NEW s \in S, Before(s, r), ~Before(s, F) PROVE s \in picked
    <2>1. CASE s = F
      BY <1>4, <2>1
    <2>2. CASE s # F
      <3>1. Before(F, s)
        BY <1>2, <1>4, <1>8, <2>2 DEF RowsInv, Ordered
      <3>2. s \in Row \cup Pos /\ F \in Row \cup Pos /\ r \in Row \cup Pos
        BY <1>2, <1>4, <1>5
      <3>3. F \in W /\ r \in W
        BY <1>2, <1>4
      <3>4. ASSUME from # NoPos PROVE ~Before(s, from)
        <4>1. from \in Row \cup Pos /\ ~Before(F, from)
          BY <1>5, <3>3, <3>4
        <4> QED BY <3>1, <3>2, <4>1, BeforeStrict
      <3>5. ASSUME to # NoPos PROVE ~Before(to, s)
        <4>1. to \in Row \cup Pos /\ ~Before(to, r)
          BY <1>5, <3>3, <3>5
        <4> QED BY <1>8, <3>2, <4>1, BeforeStrict
      <3>6. s \in W
        BY <3>4, <3>5
      <3> HIDE DEF W
      <3> QED BY <1>1, <1>3, <1>8, <3>6, FirstRowsPrefix
    <2> QED BY <2>1, <2>2
  <1>9. Earlier(r, S) \subseteq Earlier(F, S) \cup Earlier(r, picked)
    BY <1>8 DEF Earlier
  <1> QED BY <1>2, <1>3, <1>4, <1>6, <1>7, <1>9 DEF F

(* The hash a window expects at a row is the one its predecessor has. *)
SignedBefore(r, picked) == {s \in Earlier(r, picked) : Signed(s)}
LastSeen(r, picked, start) ==
    IF SignedBefore(r, picked) = {} THEN start ELSE Last(SignedBefore(r, picked)).hash

(* Either the predecessor is a signed row of the window, or the window     *)
(* begins behind it, or no row so far is signed.                           *)
LEMMA LastSeenIsExpected ==
  ASSUME NEW S, RowsInv(S), NEW a \in Anchor, Linked(S, a), NEW picked, picked \in SUBSET S, RowsInv(picked),
         NEW older, older \in SUBSET S, NEW r \in picked, Earlier(r, S) = older \cup Earlier(r, picked),
         \A s \in older, q \in picked : Before(s, q),
         NEW start, start = IF older = {} THEN HashOf(a.boundary) ELSE Last(older).hash
  PROVE  LastSeen(r, picked, start) = Expected(r, a, S)
  <1> DEFINE E == Earlier(r, S)
             P == Earlier(r, picked)
             SB == SignedBefore(r, picked)
  <1>0. P \in SUBSET picked /\ P \in SUBSET S /\ SB \in SUBSET P /\ E = older \cup P /\ E \in SUBSET S
    BY DEF Earlier, SignedBefore
  <1>1. CASE E = {}
    <2>1. SB = {} /\ older = {}
      BY <1>0, <1>1
    <2> QED BY <1>1, <2>1 DEF LastSeen, Expected
  <1>2. CASE E # {}
    <2> DEFINE L == Last(E)
    <2>1. L \in E /\ \A s \in E \ {L} : Before(s, L)
      BY <1>0, <1>2, RowsSubset, LastFacts
    <2>2. Expected(r, a, S) = L.hash
      BY <1>2 DEF Expected
    <2>a. L \in S
      BY <1>0, <2>1
    <2> HIDE DEF L, E, P, SB
    <2>3. CASE Signed(L) /\ L \in P
      <3>1. L \in SB /\ \A s \in SB \ {L} : Before(s, L)
        BY <1>0, <2>1, <2>3 DEF SB, SignedBefore, P
      <3>2. SB \in SUBSET S /\ SB # {}
        BY <1>0, <3>1
      <3>3. Last(SB) = L
        BY <3>1, <3>2, RowsSubset, LastFacts
      <3> QED BY <2>2, <3>2, <3>3 DEF LastSeen, SB
    <2>4. CASE Signed(L) /\ L \notin P
      <3>1. L \in older
        BY <1>0, <2>1, <2>4
      <3>2. ASSUME NEW p \in P PROVE FALSE
        <4>1. Before(L, p) /\ (p = L \/ Before(p, L))
          BY <1>0, <2>1, <3>1
        <4>2. L \in Row \cup Pos /\ p \in Row \cup Pos
          BY <1>0, <2>a DEF RowsInv
        <4> QED BY <4>1, <4>2, BeforeStrict
      <3>3. E = older /\ SB = {} /\ older # {}
        BY <1>0, <3>1, <3>2
      <3> QED BY <2>2, <3>3 DEF LastSeen, SB, L
    <2>5. CASE ~Signed(L)
      <3>1. HashOf(a.boundary) = NoHash /\ \A s \in Earlier(L, S) : ~Signed(s)
        BY <2>5, <2>a DEF Linked, RowLinked
      <3>2. \A s \in E : ~Signed(s)
        <4>1. ASSUME NEW s \in E, s # L PROVE ~Signed(s)
          <5>1. s \in Earlier(L, S)
            BY <1>0, <2>1, <4>1 DEF Earlier
          <5> QED BY <3>1, <5>1
        <4> QED BY <2>5, <4>1
      <3>3. SB = {}
        BY <1>0, <3>2 DEF SB, SignedBefore, P
      <3>4. start = NoHash
        <4>1. CASE older = {}
          BY <3>1, <4>1
        <4>2. CASE older # {}
          <5>1. Last(older) \in older
            BY <4>2, RowsSubset, LastFacts
          <5>2. ~Signed(Last(older))
            BY <1>0, <3>2, <5>1
          <5> QED BY <4>2, <5>2 DEF Signed
        <4> QED BY <4>1, <4>2
      <3> QED BY <2>2, <2>5, <3>3, <3>4 DEF LastSeen, SB, Signed
    <2> QED BY <2>3, <2>4, <2>5
  <1> QED BY <1>1, <1>2

(* The seal of an untampered log, *)
LEMMA SealHolds ==
  ASSUME NEW S, RowsInv(S), NEW c \in Anchor \cup {Unsealed}, Linked(S, Loaded(c, S))
  PROVE  SealOK(S, c)
  <1>1. CASE c = Unsealed
    BY <1>1 DEF SealOK
  <1>2. CASE c # Unsealed
    <2>1. Loaded(c, S) = c /\ c \in Anchor
      BY <1>2, LoadedFacts
    <2> QED BY <2>1, LinkedAccepts DEF SealOK, Linked, AnchorFits
  <1> QED BY <1>1, <1>2

(* and every window of it are accepted. *)
LEMMA WindowAccepted ==
  ASSUME NEW S, RowsInv(S), NEW c \in Anchor \cup {Unsealed}, Linked(S, Loaded(c, S)),
         NEW from, NEW to, BoundsOK(S, from, to), NEW size \in Int
  PROVE  Valid(S, c, from, to, size)
  <1>0. PICK a : a = Loaded(c, S)
    OBVIOUS
  <1>1. PICK picked : picked = Picked(S, from, to, size)
    OBVIOUS
  <1>2. a \in Anchor /\ Linked(S, a) /\ SealOK(S, c)
    BY <1>0, LoadedFacts, SealHolds
  <1>bounds. from \in S \cup {NoPos} /\ to \in S \cup {NoPos}
    BY DEF BoundsOK
  <1>3. (IF c = Unsealed THEN NoHash ELSE HashOf(c.boundary)) = HashOf(a.boundary)
    BY <1>0, LoadedFacts DEF HashOf
  <1>4. CASE picked = {}
    BY <1>1, <1>2, <1>4 DEF Valid
  <1>5. CASE picked # {}
    <2>1. PICK older : older = Earlier(First(picked), S)
      OBVIOUS
    <2>2. PICK start : start = IF older = {} THEN HashOf(a.boundary) ELSE Last(older).hash
      OBVIOUS
    <2>3. picked \in SUBSET S /\ older \in SUBSET S
      BY <1>1, <1>bounds, <1>5, <2>1, WindowContiguous DEF Earlier
    <2>4. ASSUME NEW r \in picked
          PROVE  IF Signed(r) THEN r.prev = LastSeen(r, picked, start) /\ BodyOK(r)
                              ELSE LastSeen(r, picked, start) = NoHash /\ r.seq = 0
      <3>1. /\ RowsInv(picked) /\ Earlier(r, S) = older \cup Earlier(r, picked)
            /\ \A s \in older, q \in picked : Before(s, q)
        BY <1>1, <1>bounds, <2>1, WindowContiguous
      <3>2. LastSeen(r, picked, start) = Expected(r, a, S)
        BY <1>2, <2>2, <2>3, <3>1, LastSeenIsExpected
      <3>3. RowLinked(r, a, S)
        BY <1>2, <2>3 DEF Linked
      <3>4. ASSUME ~Signed(r) PROVE Expected(r, a, S) = NoHash
        <4>1. HashOf(a.boundary) = NoHash /\ \A s \in Earlier(r, S) : ~Signed(s)
          BY <3>3, <3>4 DEF RowLinked
        <4>2. ASSUME Earlier(r, S) # {} PROVE Last(Earlier(r, S)).hash = NoHash
          <5>1. Earlier(r, S) \in SUBSET S
            BY DEF Earlier
          <5>2. Last(Earlier(r, S)) \in Earlier(r, S)
            BY <4>2, <5>1, RowsSubset, LastFacts
          <5> QED BY <4>1, <5>2 DEF Signed
        <4> QED BY <4>1, <4>2 DEF Expected
      <3> QED BY <3>2, <3>3, <3>4 DEF RowLinked, BodyOK
    <2>5. older # {} => BodyOK(Last(older))
      <3>1. older # {} => Last(older) \in S
        BY <2>3, RowsSubset, LastFacts
      <3> QED BY <1>2, <3>1 DEF Linked, RowLinked
    <2> QED BY <1>1, <1>2, <1>3, <1>5, <2>1, <2>2, <2>4, <2>5 DEF Valid, LastSeen, SignedBefore
  <1> QED BY <1>4, <1>5

(* The bounds are checked whatever the rows say, *)
LEMMA RefusedBounds ==
  ASSUME NEW S, NEW c, NEW from, NEW to, NEW size, Valid(S, c, from, to, size)
  PROVE  BoundsOK(S, from, to)
  BY DEF Valid

(* and a window without bounds passes. *)
LEMMA NoBoundsOK ==
  ASSUME NEW S
  PROVE  BoundsOK(S, NoPos, NoPos)
  BY DEF BoundsOK

(* validate_audit_chain raises no false alarm: however appends, failed     *)
(* appends, rollbacks and batches interleave, as long as nobody tampered   *)
(* with the table, what it says of a window, of any size, of the committed *)
(* log and of the one the lock holder sees, depends on the bounds alone:   *)
(* it accepts when they are rows of the log in order, and refuses a bound  *)
(* that is not there (any more) or a window that ends before it starts.    *)
THEOREM EveryWindowAccepted ==
  Spec => [](~tampered =>
               /\ \A from, to \in Row \cup {NoPos}, size \in Int :
                     Valid(log, anchor, from, to, size) <=> BoundsOK(log, from, to)
               /\ \A from, to \in Row \cup {NoPos}, size \in Int :
                     Valid(vlog, vanchor, from, to, size) <=> BoundsOK(vlog, from, to))
  <1>1. ASSUME AuditInv, ~tampered
        PROVE  /\ \A from, to \in Row \cup {NoPos}, size \in Int :
                     Valid(log, anchor, from, to, size) <=> BoundsOK(log, from, to)
               /\ \A from, to \in Row \cup {NoPos}, size \in Int :
                     Valid(vlog, vanchor, from, to, size) <=> BoundsOK(vlog, from, to)
    <2>1. /\ RowsInv(log) /\ anchor \in Anchor \cup {Unsealed} /\ Linked(log, Loaded(anchor, log))
          /\ RowsInv(vlog) /\ vanchor \in Anchor \cup {Unsealed} /\ Linked(vlog, Loaded(vanchor, vlog))
      BY <1>1 DEF AuditInv, PairInv, TypeOK
    <2> QED BY <2>1, WindowAccepted, RefusedBounds
  <1> QED BY <1>1, AuditInvariant, PTL

(* The same as the property the runs check. *)
THEOREM VerificationAccepts == Spec => []VerifyAccepts
  <1>1. ASSUME AuditInv,
               ~tampered =>
                 /\ \A from, to \in Row \cup {NoPos}, size \in Int :
                       Valid(log, anchor, from, to, size) <=> BoundsOK(log, from, to)
                 /\ \A from, to \in Row \cup {NoPos}, size \in Int :
                       Valid(vlog, vanchor, from, to, size) <=> BoundsOK(vlog, from, to)
        PROVE  VerifyAccepts
    <2>1. RowsInv(vlog)
      BY <1>1 DEF AuditInv, PairInv
    <2>2. Cardinality(vlog) + 1 \in Int
      BY <2>1, RowsSubset
    <2>3. ~tampered => WholeLogValid(vlog, vanchor)
      BY <1>1, <2>2, NoBoundsOK DEF WholeLogValid
    <2>4. log \cup {NoPos} \subseteq Row \cup {NoPos}
      BY <1>1 DEF AuditInv, TypeOK
    <2> QED BY <1>1, <2>3, <2>4 DEF VerifyAccepts
  <1> QED BY <1>1, AuditInvariant, EveryWindowAccepted, PTL

-----------------------------------------------------------------------------
(* The abstract specification *)

(* What the lock holder has done so far: a writer has only added rows, all *)
(* behind the committed ones, and a cleaner has only removed some.         *)
ViewInv ==
    /\ holder \in Writers => /\ log \subseteq vlog
                             /\ \A r \in log, s \in vlog \ log : Before(r, s)
    /\ holder \in Cleaners => vlog \subseteq log

(* The order does not change. *)
LEMMA ViewInvSame ==
  ASSUME ViewInv, UNCHANGED <<log, vlog, holder>>
  PROVE  ViewInv'
  BY DEF ViewInv, Before

(* Only the holder touches the view, and it is of one kind. *)
LEMMA ViewInvStep ==
  ASSUME AuditInv, ViewInv, [Next]_vars
  PROVE  ViewInv'
  <1>0. /\ TxnTypes /\ ChainTypes /\ PairInv(log, anchor, seq, tampered)
        /\ PairInv(vlog, vanchor, seq, tampered)
    BY AuditParts DEF AuditInv
  <1>k. Writers \cap Cleaners = {} /\ NoTx \notin Writers /\ NoTx \notin Cleaners
    BY ChainAssumption DEF Txns
  <1>1. ASSUME NEW t \in Writers, Append(t) PROVE ViewInv'
    <2>1. PICK a : a = Loaded(vanchor, vlog)
      OBVIOUS
    <2>2. holder' = t /\ log' = log /\ vlog' = AfterAppend(a, vlog, stamp[t]).log
      BY <1>1, <2>1 DEF Append, committed
    <2>3. vlog' = vlog \cup {NewRow(a, stamp[t])} /\ NewRow(a, stamp[t]).seq = seq
      BY <2>2 DEF AfterAppend, NewRow
    <2>4. log \subseteq vlog /\ \A r \in log, s \in vlog \ log : Before(r, s)
      BY <1>0, <1>1 DEF ViewInv, Append, LockFree, ChainTypes
    <2>5. \A r \in log : Before(r, NewRow(a, stamp[t]))
      BY <1>0, <2>3 DEF PairInv, Fresh, Before
    <2>6. \A r \in log', s \in vlog' \ log' : Before(r, s)
      BY <2>2, <2>3, <2>4, <2>5
    <2>7. log' \subseteq vlog' /\ holder' \notin Cleaners
      BY <1>k, <2>2, <2>3, <2>4
    <2> QED BY <2>6, <2>7 DEF ViewInv, Before
  <1>2. ASSUME NEW t \in Cleaners, Prune(t) PROVE ViewInv'
    <2>1. holder' = t /\ log' = log /\ vlog' \subseteq vlog
      BY <1>2 DEF Prune, AfterPrune, committed
    <2>2. vlog \subseteq log
      BY <1>0, <1>2 DEF ViewInv, Prune, LockFree, ChainTypes
    <2> QED BY <1>k, <2>1, <2>2 DEF ViewInv
  <1>3. ASSUME NEW t \in Txns, Commit(t) \/ Abort(t) PROVE ViewInv'
    <2>1. CASE holder = t
      BY <1>3, <1>k, <2>1 DEF ViewInv, Commit, Abort
    <2>2. CASE holder # t
      BY <1>3, <2>2, ViewInvSame DEF Commit, Abort, committed, view
    <2> QED BY <2>1, <2>2
  <1>4. ASSUME NEW r \in log, OutOfBand(r) PROVE ViewInv'
    BY <1>4, <1>k DEF ViewInv, OutOfBand
  <1>5. CASE \/ \E t \in Writers : MakeRecord(t) \/ AppendFails(t)
             \/ \E t \in Cleaners : BeginCleanup(t)
             \/ Tick \/ UNCHANGED vars
    BY <1>5, ViewInvSame DEF MakeRecord, AppendFails, BeginCleanup, Tick, vars, committed, view
  <1> QED BY <1>1, <1>2, <1>3, <1>4, <1>5 DEF Next

EvidenceStep == Evidence!Next \/ UNCHANGED <<log, now, verdictBar>>

(* A commit publishes what its transaction did to the log; apart from that *)
(* only the clock and tampering show.                                      *)
LEMMA EvidenceSteps ==
  ASSUME AuditInv, ViewInv, [Next]_vars
  PROVE  EvidenceStep
  <1>1. ASSUME NEW t \in Txns, Commit(t) PROVE EvidenceStep
    <2>0. UNCHANGED <<now, verdictBar>>
      BY <1>1 DEF Commit, verdictBar
    <2>1. CASE holder # t
      BY <1>1, <2>0, <2>1 DEF Commit, committed, EvidenceStep
    <2>2. CASE holder = t /\ t \in Writers
      <3>1. log' = vlog /\ log \subseteq vlog /\ \A r \in log, s \in vlog \ log : Before(r, s)
        BY <1>1, <2>2 DEF Commit, ViewInv
      <3>2. Evidence!Record
        BY <2>0, <3>1 DEF Evidence!Record
      <3> QED BY <3>2 DEF EvidenceStep, Evidence!Next
    <2>3. CASE holder = t /\ t \in Cleaners
      <3>1. log' = vlog /\ vlog \subseteq log
        BY <1>1, <2>3 DEF Commit, ViewInv
      <3>2. \A r \in log \ log' : r.ts < now - Retention /\ \A s \in log' : ~Before(s, r)
        BY <3>1 DEF AuditInv, RemovedInv, Earlier
      <3>3. Evidence!Retire
        BY <2>0, <3>1, <3>2 DEF Evidence!Retire
      <3> QED BY <3>3 DEF EvidenceStep, Evidence!Next
    <2> QED BY <2>1, <2>2, <2>3 DEF Txns
  <1>2. CASE Tick
    <2>1. Evidence!Pass
      BY <1>2 DEF Tick, committed, Evidence!Pass, verdictBar
    <2> QED BY <2>1 DEF EvidenceStep, Evidence!Next
  <1>3. ASSUME NEW r \in log, OutOfBand(r) PROVE EvidenceStep
    <2>1. Evidence!Breach
      BY <1>3 DEF OutOfBand, Evidence!Breach, verdictBar
    <2> QED BY <2>1 DEF EvidenceStep, Evidence!Next
  <1>4. CASE \/ \E t \in Writers : MakeRecord(t) \/ Append(t) \/ AppendFails(t)
             \/ \E t \in Cleaners : BeginCleanup(t) \/ Prune(t)
             \/ \E t \in Txns : Abort(t)
             \/ UNCHANGED vars
    BY <1>4 DEF MakeRecord, Append, AppendFails, BeginCleanup, Prune, Abort, vars, committed,
                EvidenceStep, verdictBar
  <1> QED BY <1>1, <1>2, <1>3, <1>4 DEF Next

(* persist_record, prune_prefix and the transactions around them implement *)
(* EvidenceLog: commits add behind the end or take an expired prefix.      *)
THEOREM EvidenceRefinement == Spec => ImplementsEvidence
  <1>1. Init => Evidence!Init
    BY DEF Init, Evidence!Init, verdictBar
  <1>2. Init => ViewInv
    BY ChainAssumption DEF Init, ViewInv, Txns
  <1>3. AuditInv /\ ViewInv /\ [Next]_vars => EvidenceStep /\ ViewInv'
    BY EvidenceSteps, ViewInvStep
  <1> QED BY <1>1, <1>2, <1>3, AuditInvariant, PTL
          DEF Spec, ImplementsEvidence, Evidence!Spec, EvidenceStep

(* The same with the verdict validate_audit_chain gives on the committed   *)
(* log in place of the promise.                                            *)
verdictSeen == IF WholeLogValid(log, anchor) THEN "valid" ELSE "broken"

Seen == INSTANCE EvidenceLog WITH records <- log, clock <- now, verdict <- verdictSeen

(* It is the same verdict. *)
LEMMA VerdictIsHonest ==
  ASSUME AuditInv
  PROVE  verdictSeen = verdictBar
  <1>1. /\ RowsInv(log) /\ anchor \in Anchor \cup {Unsealed} /\ tampered \in BOOLEAN
        /\ IF tampered THEN Damaged(log, anchor) ELSE Linked(log, Loaded(anchor, log))
    BY DEF AuditInv, PairInv, TypeOK
  <1>2. CASE tampered
    <2>1. ~WholeLogValid(log, anchor)
      BY <1>1, <1>2, DamagedIsInvalid
    <2> QED BY <1>2, <2>1 DEF verdictSeen, verdictBar
  <1>3. CASE ~tampered
    <2>1. Cardinality(log) + 1 \in Int
      BY <1>1, RowsSubset
    <2>2. WholeLogValid(log, anchor)
      BY <1>1, <1>3, <2>1, NoBoundsOK, WindowAccepted DEF WholeLogValid
    <2> QED BY <1>3, <2>2 DEF verdictSeen, verdictBar
  <1> QED BY <1>2, <1>3

(* No step of the program moves the verdict of validate_audit_chain: it    *)
(* says "valid" through every append, rollback and batch until somebody    *)
(* changes the table, and "broken" through all of them afterwards.         *)
THEOREM VerdictRefinement == Spec => Seen!Spec
  <1>1. Init => Seen!Init
    <2> SUFFICES ASSUME Init PROVE Seen!Init
      OBVIOUS
    <2>1. verdictSeen = verdictBar
      BY AuditInit, VerdictIsHonest
    <2> QED BY <2>1 DEF Init, Seen!Init, verdictBar
  <1>2. Init => ViewInv
    BY ChainAssumption DEF Init, ViewInv, Txns
  <1>3. AuditInv /\ ViewInv /\ [Next]_vars => ViewInv'
    BY ViewInvStep
  <1>4. AuditInv => verdictSeen = verdictBar
    BY VerdictIsHonest
  <1>5. AuditInv' => (verdictSeen = verdictBar)'
    BY <1>4, PTL
  <1>6. AuditInv /\ AuditInv' /\ ViewInv /\ [Next]_vars =>
          Seen!Next \/ UNCHANGED <<log, now, verdictSeen>>
    <2> SUFFICES ASSUME AuditInv, AuditInv', ViewInv, [Next]_vars
                 PROVE  Seen!Next \/ UNCHANGED <<log, now, verdictSeen>>
      OBVIOUS
    <2>1. EvidenceStep
      BY EvidenceSteps
    <2>2. verdictSeen = verdictBar /\ verdictSeen' = verdictBar'
      BY <1>4, <1>5
    <2> QED BY <2>1, <2>2
            DEF EvidenceStep, Evidence!Next, Evidence!Record, Evidence!Retire, Evidence!Pass, Evidence!Breach,
                Seen!Next, Seen!Record, Seen!Retire, Seen!Pass, Seen!Breach
  <1> QED BY <1>1, <1>2, <1>3, <1>6, AuditInvariant, PTL DEF Spec, Seen!Spec
=============================================================================
