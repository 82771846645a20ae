------------------------ MODULE AgentReleasesProofs ------------------------
(***************************************************************************)
(* Proofs about AgentReleases for any operations, releases, requests,      *)
(* downloads and budget.                                                   *)
(***************************************************************************)
EXTENDS AgentReleases, FiniteSetTheorems, TLAPS

RequestKinds == {"none", "reserve", "upload", "resume", "publish", "delete", "cancel", "cleanup"}
Types == TypeOK /\ act \in [Workers -> RequestKinds]

(* The journal and the catalogue.  A phase and a decision go together, each *)
(* kind of operation has its own decisions, a deletion is one of a         *)
(* published release, and a release is in the catalogue from its           *)
(* publication to its deletion.                                            *)
Deleted(r) == \E d \in Ops : ReleaseOf[d] = r /\ decision[d] = "deleted"

JournalAt(o) ==
    /\ phase[o] \in {"decided", "cleaned"} <=> decision[o] # "none"
    /\ KindOf[o] = "publish" => decision[o] # "deleted"
    /\ KindOf[o] = "delete" => decision[o] # "published"
    /\ phase[o] = "cleaned" => decision[o] # "published"
    /\ KindOf[o] = "delete" /\ phase[o] # "none" => decision[ArtOf(o)] = "published"
    /\ KindOf[o] = "publish" =>
          (ReleaseOf[o] \in live <=> decision[o] = "published" /\ ~Deleted(ReleaseOf[o]))

JournalInv ==
    /\ \A o \in Ops : JournalAt(o)
    /\ \A r \in live : \E o \in Ops : KindOf[o] = "publish" /\ ReleaseOf[o] = r

(* The bytes of an operation are to go, now and for ever. *)
Doomed(o) == decision[o] \in {"cancelled", "deleted"} /\ RetiresBytes(o)

(* A request: which one may be where; whose files it holds; and what it    *)
(* knows of the journal and of those files, though its session may be gone. *)
HeldPlaces == {"recheck", "begin", "check", "append", "last", "finish", "verify", "record",
               "retire", "unlink"}

ActFits(w) ==
    /\ pc[w] = "reserve" => act[w] \in {"reserve", "upload", "publish", "delete"}
    /\ pc[w] \in {"inspect", "flock", "recheck"} =>
          act[w] \in {"upload", "resume", "publish", "cleanup"}
    /\ pc[w] \in {"begin", "check", "append", "finish"} => act[w] = "upload"
    /\ pc[w] = "last" => act[w] \in {"upload", "cleanup"}
    /\ pc[w] = "verify" => act[w] \in {"resume", "publish"}
    /\ pc[w] = "record" => act[w] \in {"upload", "resume", "publish"}
    /\ pc[w] = "publish" => act[w] = "publish"
    /\ pc[w] = "decide" => act[w] = "delete"
    /\ pc[w] \in {"retire", "unlink", "cleaned"} => act[w] = "cleanup"

HoldsFiles(w) ==
    /\ pc[w] \in HeldPlaces \cup {"flock"} => ArtOf(op[w]) \in Arts
    /\ pc[w] \in HeldPlaces => flock[ArtOf(op[w])] = w
    /\ pc[w] = "unlock" => \A a \in Arts : flock[a] # w

KnowsJournal(w) ==
    /\ pc[w] \in HeldPlaces \cup {"flock"} /\ act[w] = "upload" => phase[op[w]] # "none"
    /\ pc[w] \in HeldPlaces \cup {"flock"} /\ act[w] = "cleanup" => Doomed(op[w])
    /\ pc[w] = "cleaned" => decision[op[w]] \in {"cancelled", "deleted"}

Allocated(a, p) ==
    alloc[a] = "ok" /\ prepared[a] = "none" /\ NotRetired(a) /\ payload[a] = p

KnowsFiles(w) ==
    /\ pc[w] \in {"check", "append"} => Allocated(ArtOf(op[w]), "part")
    /\ pc[w] \in {"last", "finish"} /\ act[w] = "upload" => Allocated(ArtOf(op[w]), "full")
    /\ pc[w] = "record" => Verified(ArtOf(op[w]))
    /\ pc[w] = "cleaned" /\ RetiresBytes(op[w]) => cleaned[ArtOf(op[w])] = "ok"

WorkerInv(w) == ActFits(w) /\ HoldsFiles(w) /\ KnowsJournal(w) /\ KnowsFiles(w)

(* An artifact: what is prepared, in the catalogue or being read is whole, *)
(* nothing is on disk without a reservation, and what is clean is empty.   *)
ArtifactInv(a) ==
    /\ phase[a] = "prepared" \/ ReleaseOf[a] \in live => Verified(a)
    /\ Reading(a) => Verified(a) /\ flock[a] = NoOne
    /\ dir[a] # "none" => phase[a] # "none"
    /\ payload[a] # "none" \/ flock[a] # NoOne => dir[a] = "ok"
    /\ cleaned[a] = "ok" => payload[a] = "none"
    /\ \A o \in Ops : ArtOf(o) = a /\ phase[o] = "cleaned" /\ RetiresBytes(o) =>
          cleaned[a] = "ok"

(* The budget: what is charged can be counted. *)
BudgetInv == IsFiniteSet(ChargedArts) /\ Cardinality(ChargedArts) <= Budget

ReleasesInv ==
    /\ Types /\ JournalInv
    /\ \A w \in Workers : WorkerInv(w)
    /\ \A a \in Arts : ArtifactInv(a)
    /\ BudgetInv

-----------------------------------------------------------------------------
(* Constants *)

(* The artifact of an operation is the one publication of its release. *)
LEMMA ArtFacts ==
  ASSUME NEW o \in Ops
  PROVE  /\ ArtOf(o) \in Ops /\ KindOf[ArtOf(o)] = "publish"
         /\ ReleaseOf[ArtOf(o)] = ReleaseOf[o] /\ ReleaseOf[o] \in Releases
         /\ KindOf[o] \in {"publish", "delete"}
         /\ \A p \in Ops : KindOf[p] = "publish" /\ ReleaseOf[p] = ReleaseOf[o] => p = ArtOf(o)
  <1>1. \E p \in Ops : BornFrom(ReleaseOf[o], p)
    BY ReleasesAssumption DEF BornFrom
  <1>2. ArtOf(o) \in Ops /\ BornFrom(ReleaseOf[o], ArtOf(o))
    BY <1>1 DEF ArtOf
  <1> QED BY <1>2, ReleasesAssumption DEF BornFrom

(* A publication is its own artifact. *)
LEMMA PublicationIsArt ==
  ASSUME NEW o \in Ops, KindOf[o] = "publish"
  PROVE  ArtOf(o) = o
  BY ArtFacts

(* An artifact is the one of every operation on its release. *)
LEMMA ArtOfRelease ==
  ASSUME NEW a \in Arts
  PROVE  /\ a \in Ops /\ KindOf[a] = "publish" /\ ArtOf(a) = a /\ ReleaseOf[a] \in Releases
         /\ \A o \in Ops : ReleaseOf[o] = ReleaseOf[a] <=> ArtOf(o) = a
  <1>1. a \in Ops /\ KindOf[a] = "publish"
    BY DEF Arts
  <1>2. ArtOf(a) = a /\ ReleaseOf[a] \in Releases
    BY <1>1, PublicationIsArt, ArtFacts
  <1>3. ASSUME NEW o \in Ops PROVE ReleaseOf[o] = ReleaseOf[a] <=> ArtOf(o) = a
    BY <1>1, ArtFacts
  <1> QED BY <1>1, <1>2, <1>3

(* Which requests are made of which operation. *)
LEMMA RequestFacts ==
  ASSUME NEW o \in Ops, NEW a \in Requests(o)
  PROVE  /\ a \in RequestKinds \ {"none"}
         /\ a \in {"upload", "resume"} => o \in Arts
         /\ a = "publish" => KindOf[o] = "publish"
         /\ a = "delete" => KindOf[o] = "delete"
  BY ReleasesAssumption DEF Requests, RequestKinds, Arts

-----------------------------------------------------------------------------
(* Types *)

LEMMA TypesInit == Init => Types
  BY DEF Init, Types, TypeOK, Marker, Places, RequestKinds, Looks

(* The types, part by part. *)
JournalTypes ==
    /\ phase \in [Ops -> {"none", "reserved", "prepared", "decided", "cleaned"}]
    /\ decision \in [Ops -> {"none", "published", "cancelled", "deleted"}]
    /\ live \subseteq Releases
StoreTypes ==
    /\ dir \in [Arts -> Marker] /\ payload \in [Arts -> {"none", "part", "full"}]
    /\ alloc \in [Arts -> Marker] /\ prepared \in [Arts -> Marker]
    /\ retired \in [Arts -> Marker] /\ cleaned \in [Arts -> Marker]
LockTypes ==
    /\ flock \in [Arts -> Workers \cup {NoOne}]
    /\ lease \in [Releases -> Workers \cup {NoOne, Lost}]
    /\ \A a \in Arts : flock[a] # NoOne => pc[flock[a]] # "idle"
WorkerTypes ==
    /\ pc \in [Workers -> Places] /\ op \in [Workers -> Ops \cup {NoOp}]
    /\ \A w \in Workers : (pc[w] = "idle") <=> (op[w] = NoOp)
    /\ \A w \in Workers : act[w] \in (IF pc[w] = "idle" THEN {"none"} ELSE Requests(op[w]))
    /\ act \in [Workers -> RequestKinds]
ReaderTypes ==
    /\ rpc \in [Readers -> {"idle", "observed", "verified", "sending"}]
    /\ rrel \in [Readers -> Releases \cup {NoRel}]

(* The types are the types of the parts, now and after a step. *)
LEMMA TypesParts ==
  /\ Types <=> JournalTypes /\ StoreTypes /\ LockTypes /\ WorkerTypes /\ ReaderTypes
  /\ Types' <=> JournalTypes' /\ StoreTypes' /\ LockTypes' /\ WorkerTypes' /\ ReaderTypes'
  BY DEF Types, TypeOK, JournalTypes, StoreTypes, LockTypes, WorkerTypes, ReaderTypes

(* A request on its way has an operation, and that one an artifact. *)
LEMMA WorkerFacts ==
  ASSUME WorkerTypes, NEW w \in Workers, pc[w] # "idle"
  PROVE  /\ op[w] \in Ops /\ act[w] \in Requests(op[w]) /\ act[w] \in RequestKinds \ {"none"}
         /\ ArtOf(op[w]) \in Ops
         /\ act[w] \in {"upload", "resume"} => op[w] \in Arts /\ ArtOf(op[w]) = op[w]
         /\ act[w] = "publish" => KindOf[op[w]] = "publish" /\ ArtOf(op[w]) = op[w]
         /\ act[w] = "delete" => KindOf[op[w]] = "delete"
  <1>1. op[w] \in Ops /\ act[w] \in Requests(op[w])
    BY DEF WorkerTypes
  <1> QED BY <1>1, RequestFacts, ArtFacts, PublicationIsArt DEF Arts

(* A request that goes from place to place, begins or ends. *)
LEMMA WorkerGoes ==
  ASSUME WorkerTypes, NEW w \in Workers, pc[w] # "idle", NEW place \in Places \ {"idle"},
         pc' = [pc EXCEPT ![w] = place], UNCHANGED <<op, act>>
  PROVE  WorkerTypes'
  BY DEF WorkerTypes

(* A request that ends leaves its worker well typed, *)
LEMMA WorkerEnds ==
  ASSUME WorkerTypes, NEW w \in Workers, pc' = [pc EXCEPT ![w] = "idle"],
         op' = [op EXCEPT ![w] = NoOp], act' = [act EXCEPT ![w] = "none"]
  PROVE  WorkerTypes'
  BY DEF WorkerTypes, Places, Looks, RequestKinds

(* and so does one that begins. *)
LEMMA WorkerBegins ==
  ASSUME WorkerTypes, NEW w \in Workers, NEW o \in Ops, NEW a \in Requests(o),
         NEW place \in Places \ {"idle"},
         pc' = [pc EXCEPT ![w] = place],
         op' = [op EXCEPT ![w] = o], act' = [act EXCEPT ![w] = a]
  PROVE  WorkerTypes'
  <1>1. o # NoOp /\ a \in RequestKinds
    BY ReleasesAssumption, RequestFacts
  <1> QED BY <1>1 DEF WorkerTypes

-----------------------------------------------------------------------------
(* What a step of a request does, action by action, with the places named. *)

(* A transaction, or a look at the journal. *)
LEMMA PhaseGoes ==
  ASSUME Types, NEW w \in Workers, Phase(w), ActFits(w)
  PROVE  /\ pc[w] # "idle" /\ UNCHANGED <<op, act, store, flock, lease, readers>>
         /\ \E place \in Places \ {"idle"} : pc' = [pc EXCEPT ![w] = place]
  <1> USE DEF Commit, Goto, Places, Looks
  <1>1. CASE Reserve(w)
    BY <1>1 DEF Reserve
  <1>2. CASE Look(w)
    <2>1. act[w] \in {"upload", "resume", "publish", "cleanup"}
      BY <1>2 DEF Look, ActFits
    <2> QED BY <1>2, <2>1 DEF Look, AfterLook
  <1>3. CASE RecordPrepared(w)
    BY <1>3 DEF RecordPrepared
  <1>4. CASE Publish(w)
    BY <1>4 DEF Publish
  <1>5. CASE Cancel(w)
    BY <1>5 DEF Cancel
  <1>6. CASE Decide(w)
    BY <1>6 DEF Decide
  <1>7. CASE RecordCleaned(w)
    BY <1>7 DEF RecordCleaned
  <1> QED BY <1>1, <1>2, <1>3, <1>4, <1>5, <1>6, <1>7 DEF Phase

(* A step on files touches those of its own artifact. *)
OtherFilesSame(a) ==
    \A b \in Arts \ {a} :
        /\ dir'[b] = dir[b] /\ payload'[b] = payload[b] /\ alloc'[b] = alloc[b]
        /\ prepared'[b] = prepared[b] /\ retired'[b] = retired[b] /\ cleaned'[b] = cleaned[b]
        /\ flock'[b] = flock[b]

(* A file step moves its own request and touches its own artifact only. *)
LEMMA FileStepGoes ==
  ASSUME Types, NEW w \in Workers, FileStep(w), HoldsFiles(w)
  PROVE  /\ pc[w] # "idle" /\ UNCHANGED <<op, act, journal, live, lease, readers>>
         /\ \E place \in Places \ {"idle"} : pc' = [pc EXCEPT ![w] = place]
         /\ StoreTypes' /\ OtherFilesSame(ArtOf(op[w])) /\ ArtOf(op[w]) \in Arts
         /\ flock' = flock \/ flock' = [flock EXCEPT ![ArtOf(op[w])] = w]
  <1>0. StoreTypes /\ LockTypes /\ pc[w] \in HeldPlaces \cup {"flock"}
    BY TypesParts DEF FileStep, FileLock, Begin, AppendChunk, Finish, Verify, Retire, Unlink, HeldPlaces
  <1>a. ArtOf(op[w]) \in Arts
    BY <1>0 DEF HoldsFiles
  <1> USE <1>0, <1>a DEF StoreTypes, LockTypes, Goto, Places, Looks, OtherFilesSame, Marker
  <1>1. CASE FileLock(w)
    <2>1. /\ pc[w] = "flock" /\ UNCHANGED <<op, act, journal, live, lease, readers>>
          /\ UNCHANGED <<payload, alloc, prepared, retired, cleaned>>
      BY <1>1 DEF FileLock
    <2>2. \/ dir' = dir \/ dir' = [dir EXCEPT ![ArtOf(op[w])] = "ok"]
          \/ dir' = [dir EXCEPT ![ArtOf(op[w])] = "torn"]
      BY <1>1 DEF FileLock
    <2>3. /\ flock' = flock \/ flock' = [flock EXCEPT ![ArtOf(op[w])] = w]
          /\ \E place \in {"recheck", "close"} : pc' = [pc EXCEPT ![w] = place]
      BY <1>1 DEF FileLock
    <2>4. dir' \in [Arts -> Marker] /\ OtherFilesSame(ArtOf(op[w]))
      BY <2>1, <2>2, <2>3
    <2> QED BY <2>1, <2>3, <2>4
  <1>2. CASE Begin(w)
    BY <1>2 DEF Begin, HeldPlaces
  <1>3. CASE AppendChunk(w)
    BY <1>3 DEF AppendChunk, HeldPlaces
  <1>4. CASE Finish(w)
    <2>1. /\ pc[w] = "finish" /\ UNCHANGED <<op, act, journal, live, lease, readers, flock>>
          /\ UNCHANGED <<dir, payload, alloc, retired, cleaned>>
      BY <1>4 DEF Finish
    <2>2. PICK m \in {"torn", "ok"} :
            /\ prepared' = [prepared EXCEPT ![ArtOf(op[w])] = m]
            /\ pc' = [pc EXCEPT ![w] = IF m = "ok" THEN "record" ELSE "close"]
      BY <1>4 DEF Finish
    <2>3. prepared' \in [Arts -> Marker] /\ OtherFilesSame(ArtOf(op[w]))
      BY <2>1, <2>2
    <2> QED BY <2>1, <2>2, <2>3
  <1>5. CASE Verify(w)
    BY <1>5 DEF Verify, HeldPlaces, store
  <1>6. CASE Retire(w)
    BY <1>6 DEF Retire, HeldPlaces
  <1>7. CASE Unlink(w)
    <2>1. /\ pc[w] = "unlink" /\ UNCHANGED <<op, act, journal, live, lease, readers, flock>>
          /\ UNCHANGED <<dir, alloc, prepared, retired>>
          /\ payload' = [payload EXCEPT ![ArtOf(op[w])] = "none"]
      BY <1>7 DEF Unlink
    <2>2. PICK m \in Marker :
            /\ cleaned' = [cleaned EXCEPT ![ArtOf(op[w])] = m]
            /\ pc' = [pc EXCEPT ![w] = IF m = "ok" THEN "cleaned" ELSE "close"]
      BY <1>7 DEF Unlink
    <2>3. StoreTypes' /\ OtherFilesSame(ArtOf(op[w]))
      BY <2>1, <2>2
    <2> QED BY <2>1, <2>2, <2>3
  <1> QED BY <1>1, <1>2, <1>3, <1>4, <1>5, <1>6, <1>7 DEF FileStep

(* The owner's own steps. *)
OwnerStep(w) == Fail(w) \/ Close(w) \/ Unlock(w) \/ ConnectionLost(w) \/ Crash(w)
Released(w, f) == f = [a \in Arts |-> IF flock[a] = w THEN NoOne ELSE flock[a]]

(* What ends a request, or its session, leaves journal and files alone. *)
LEMMA OwnerGoes ==
  ASSUME Types, NEW w \in Workers, OwnerStep(w)
  PROVE  /\ pc[w] # "idle" /\ UNCHANGED <<journal, live, store, readers>>
         /\ lease' \in [Releases -> Workers \cup {NoOne, Lost}]
         /\ \/ /\ pc' = [pc EXCEPT ![w] = "close"] \/ UNCHANGED pc
               /\ UNCHANGED <<op, act, flock>>
            \/ /\ pc[w] = "close" /\ pc' = [pc EXCEPT ![w] = "unlock"]
               /\ UNCHANGED <<op, act>> /\ Released(w, flock')
            \/ /\ pc' = [pc EXCEPT ![w] = "idle"] /\ op' = [op EXCEPT ![w] = NoOp]
               /\ act' = [act EXCEPT ![w] = "none"]
               /\ Released(w, flock') \/ (pc[w] = "unlock" /\ UNCHANGED flock)
  <1>0. lease \in [Releases -> Workers \cup {NoOne, Lost}]
    BY DEF Types, TypeOK
  <1> USE <1>0 DEF Goto, Release, Released
  <1>1. CASE Fail(w)
    BY <1>1 DEF Fail
  <1>2. CASE Close(w)
    BY <1>2 DEF Close
  <1>3. CASE Unlock(w)
    BY <1>3 DEF Unlock
  <1>4. CASE ConnectionLost(w)
    BY <1>4 DEF ConnectionLost
  <1>5. CASE Crash(w)
    BY <1>5 DEF Crash
  <1> QED BY <1>1, <1>2, <1>3, <1>4, <1>5 DEF OwnerStep

(* Sessions nobody uses, and downloads. *)
IdleSession == \E r \in Releases : AcquireUnconfirmed(r) \/ SessionEnds(r)
ReaderStep(d) == (\E r \in Releases : ReadStart(d, r)) \/ ReadLock(d) \/ ReadSend(d) \/ ReadEnd(d)
BeginRequest(w) == \E o \in Ops : \E a \in Requests(o) : Acquire(w, o, a)

(* The steps, by what they may change. *)
LEMMA NextCases ==
  Next <=> \/ \E w \in Workers : BeginRequest(w) \/ Phase(w) \/ FileStep(w) \/ OwnerStep(w)
           \/ IdleSession \/ \E d \in Readers : ReaderStep(d)
  BY DEF Next, BeginRequest, OwnerStep, IdleSession, ReaderStep

(* Every request begins at a place of its own. *)
LEMMA FirstPlaceType ==
  ASSUME NEW o \in Ops, NEW a \in Requests(o)
  PROVE  FirstPlace(o, a) \in Places \ {"idle"}
  <1>1. a \in RequestKinds \ {"none"}
    BY RequestFacts
  <1> QED BY <1>1 DEF FirstPlace, Places, Looks, RequestKinds

(* Every step keeps the types. *)
LEMMA TypesStep ==
  ASSUME ReleasesInv, Next
  PROVE  Types'
  <1>0. /\ Types /\ JournalTypes /\ StoreTypes /\ LockTypes /\ WorkerTypes /\ ReaderTypes
        /\ \A w \in Workers : WorkerInv(w)
    BY TypesParts DEF ReleasesInv
  <1>1. ASSUME NEW w \in Workers, BeginRequest(w) PROVE Types'
    <2>1. PICK o \in Ops : \E a \in Requests(o) : Acquire(w, o, a)
      BY <1>1 DEF BeginRequest
    <2>2. PICK a \in Requests(o) : Acquire(w, o, a)
      BY <2>1
    <2>3. /\ UNCHANGED <<journal, live, store, flock, readers>> /\ pc[w] = "idle"
          /\ lease' = [lease EXCEPT ![ReleaseOf[o]] = w]
          /\ pc' = [pc EXCEPT ![w] = FirstPlace(o, a)]
          /\ op' = [op EXCEPT ![w] = o] /\ act' = [act EXCEPT ![w] = a]
      BY <2>2 DEF Acquire, Goto
    <2>4. WorkerTypes'
      BY <1>0, <2>3, FirstPlaceType, WorkerBegins
    <2>5. LockTypes'
      BY <1>0, <2>3, FirstPlaceType DEF LockTypes, WorkerTypes
    <2> QED BY <1>0, <2>3, <2>4, <2>5, TypesParts
            DEF JournalTypes, StoreTypes, ReaderTypes, journal, store, readers
  <1>2. ASSUME NEW w \in Workers, Phase(w) PROVE Types'
    <2>1. /\ pc[w] # "idle" /\ UNCHANGED <<op, act, store, flock, lease, readers>>
          /\ \E place \in Places \ {"idle"} : pc' = [pc EXCEPT ![w] = place]
      BY <1>0, <1>2, PhaseGoes DEF WorkerInv
    <2>2. WorkerTypes' /\ LockTypes'
      BY <1>0, <2>1, WorkerGoes DEF LockTypes, WorkerTypes
    <2>3. JournalTypes'
      <3>1. op[w] \in Ops /\ ReleaseOf[op[w]] \in Releases
        BY <1>0, <2>1, WorkerFacts, ArtFacts
      <3>2. phase' \in [Ops -> {"none", "reserved", "prepared", "decided", "cleaned"}]
        BY <1>0, <1>2 DEF JournalTypes, Phase, Reserve, Look, RecordPrepared, Publish, Cancel,
             Decide, RecordCleaned, journal
      <3>3. decision' \in [Ops -> {"none", "published", "cancelled", "deleted"}]
        BY <1>0, <1>2 DEF JournalTypes, Phase, Reserve, Look, RecordPrepared, Publish, Cancel,
             Decide, RecordCleaned, journal
      <3>4. live' \in {live, live \cup {ReleaseOf[op[w]]}, live \ {ReleaseOf[op[w]]}}
        BY <1>2 DEF Phase, Reserve, Look, RecordPrepared, Publish, Cancel, Decide, RecordCleaned
      <3> QED BY <1>0, <3>1, <3>2, <3>3, <3>4 DEF JournalTypes
    <2> QED BY <1>0, <2>1, <2>2, <2>3, TypesParts DEF StoreTypes, ReaderTypes, store, readers
  <1>3. ASSUME NEW w \in Workers, FileStep(w) PROVE Types'
    <2>1. /\ pc[w] # "idle" /\ UNCHANGED <<op, act, journal, live, lease, readers>>
          /\ \E place \in Places \ {"idle"} : pc' = [pc EXCEPT ![w] = place]
          /\ StoreTypes' /\ ArtOf(op[w]) \in Arts
          /\ flock' = flock \/ flock' = [flock EXCEPT ![ArtOf(op[w])] = w]
      BY <1>0, <1>3, FileStepGoes DEF WorkerInv
    <2>2. WorkerTypes'
      BY <1>0, <2>1, WorkerGoes
    <2>3. LockTypes'
      BY <1>0, <2>1 DEF LockTypes, WorkerTypes
    <2> QED BY <1>0, <2>1, <2>2, <2>3, TypesParts DEF JournalTypes, ReaderTypes, journal, readers
  <1>4. ASSUME NEW w \in Workers, OwnerStep(w) PROVE Types'
    <2>1. /\ pc[w] # "idle" /\ UNCHANGED <<journal, live, store, readers>>
          /\ lease' \in [Releases -> Workers \cup {NoOne, Lost}]
      BY <1>0, <1>4, OwnerGoes
    <2>2. WorkerTypes' /\ LockTypes'
      <3>1. CASE /\ pc' = [pc EXCEPT ![w] = "close"] \/ UNCHANGED pc
                 /\ UNCHANGED <<op, act, flock>>
        <4>1. WorkerTypes'
          BY <1>0, <2>1, <3>1, WorkerGoes DEF WorkerTypes, Places
        <4> QED BY <1>0, <2>1, <3>1, <4>1 DEF LockTypes, WorkerTypes
      <3>2. CASE /\ pc[w] = "close" /\ pc' = [pc EXCEPT ![w] = "unlock"]
                 /\ UNCHANGED <<op, act>> /\ Released(w, flock')
        <4>1. WorkerTypes'
          BY <1>0, <2>1, <3>2, WorkerGoes DEF Places
        <4> QED BY <1>0, <2>1, <3>2, <4>1 DEF LockTypes, WorkerTypes, Released
      <3>3. CASE /\ pc' = [pc EXCEPT ![w] = "idle"] /\ op' = [op EXCEPT ![w] = NoOp]
                 /\ act' = [act EXCEPT ![w] = "none"]
                 /\ Released(w, flock') \/ (pc[w] = "unlock" /\ UNCHANGED flock)
        <4>1. WorkerTypes'
          BY <1>0, <3>3, WorkerEnds
        <4>2. flock' \in [Arts -> Workers \cup {NoOne}] /\ \A a \in Arts : flock'[a] # w
          <5>1. CASE Released(w, flock')
            BY <1>0, <5>1, ReleasesAssumption DEF LockTypes, Released
          <5>2. CASE pc[w] = "unlock" /\ UNCHANGED flock
            BY <1>0, <5>2 DEF LockTypes, WorkerInv, HoldsFiles
          <5> QED BY <3>3, <5>1, <5>2
        <4>3. \A a \in Arts : flock'[a] # NoOne => flock'[a] = flock[a]
          BY <1>0, <3>3 DEF LockTypes, Released
        <4> QED BY <1>0, <2>1, <3>3, <4>1, <4>2, <4>3 DEF LockTypes, WorkerTypes
      <3> QED BY <1>0, <1>4, <3>1, <3>2, <3>3, OwnerGoes
    <2> QED BY <1>0, <2>1, <2>2, TypesParts
            DEF JournalTypes, StoreTypes, ReaderTypes, journal, store, readers
  <1>5. CASE IdleSession
    <2>1. /\ UNCHANGED <<journal, live, store, flock, pc, op, act, readers>>
          /\ lease' \in [Releases -> Workers \cup {NoOne, Lost}]
      BY <1>0, <1>5 DEF IdleSession, AcquireUnconfirmed, SessionEnds, LockTypes
    <2> QED BY <1>0, <2>1, TypesParts
            DEF JournalTypes, StoreTypes, ReaderTypes, LockTypes, WorkerTypes, journal, store, readers
  <1>6. ASSUME NEW d \in Readers, ReaderStep(d) PROVE Types'
    <2>1. /\ UNCHANGED <<journal, live, store, flock, lease, pc, op, act>> /\ ReaderTypes'
      BY <1>0, <1>6 DEF ReaderStep, ReadStart, ReadLock, ReadSend, ReadEnd, ReaderTypes
    <2> QED BY <1>0, <2>1, TypesParts
            DEF JournalTypes, StoreTypes, LockTypes, WorkerTypes, journal, store
  <1> QED BY <1>1, <1>2, <1>3, <1>4, <1>5, <1>6, NextCases

-----------------------------------------------------------------------------
(* The journal and the catalogue *)

LEMMA JournalInit == Init => JournalInv
  BY DEF Init, JournalInv, JournalAt, Deleted

(* A step that writes neither journal nor catalogue. *)
LEMMA JournalSame ==
  ASSUME JournalInv, UNCHANGED <<phase, decision, live>>
  PROVE  JournalInv'
  BY DEF JournalInv, JournalAt, Deleted

(* What one transaction does to its operation o: it is reserved, prepared, *)
(* published (again), cancelled, deleted or cleaned.                       *)
PhaseSet(o, x) == phase' = [phase EXCEPT ![o] = x]
DecisionSet(o, x) == decision' = [decision EXCEPT ![o] = x]

JournalMove(o) ==
    \/ UNCHANGED <<phase, decision, live>>
    \/ /\ phase[o] = "none" /\ PhaseSet(o, "reserved") /\ UNCHANGED <<decision, live>>
       /\ IF KindOf[o] = "publish" THEN MayPublish(o) ELSE MayDelete(o)
    \/ /\ Undecided(o) /\ PhaseSet(o, "prepared") /\ UNCHANGED <<decision, live>>
    \/ /\ Undecided(o) /\ (Owned(o) => phase[o] = "prepared") /\ KindOf[o] = "publish"
       /\ PhaseSet(o, "decided") /\ DecisionSet(o, "published")
       /\ live' = live \cup {ReleaseOf[o]}
    \/ /\ Pending(o) /\ PhaseSet(o, "decided") /\ DecisionSet(o, "cancelled")
       /\ UNCHANGED live
    \/ /\ Pending(o) /\ PhaseSet(o, "decided") /\ DecisionSet(o, "deleted")
       /\ KindOf[o] = "delete" /\ ReleaseOf[o] \in live /\ live' = live \ {ReleaseOf[o]}
    \/ Cleanable(o) /\ PhaseSet(o, "cleaned") /\ UNCHANGED <<decision, live>>

(* Every transaction of a request is one of these moves. *)
LEMMA PhaseMoves ==
  ASSUME ReleasesInv, NEW w \in Workers, Phase(w)
  PROVE  op[w] \in Ops /\ JournalMove(op[w])
  <1>0. Types /\ JournalTypes /\ WorkerTypes /\ ActFits(w)
    BY TypesParts DEF ReleasesInv, WorkerInv
  <1>1. pc[w] # "idle"
    BY <1>0, PhaseGoes
  <1>2. op[w] \in Ops /\ JournalAt(op[w])
    BY <1>0, <1>1, WorkerFacts DEF ReleasesInv, JournalInv
  <1>3. /\ act[w] = "publish" => KindOf[op[w]] = "publish"
        /\ act[w] = "delete" => KindOf[op[w]] = "delete"
    BY <1>0, <1>1, WorkerFacts
  <1> USE <1>0, <1>2 DEF JournalMove, PhaseSet, DecisionSet, JournalTypes
  <1>4. CASE Reserve(w)
    BY <1>4 DEF Reserve
  <1>5. CASE Look(w)
    BY <1>5 DEF Look, journal
  <1>6. CASE RecordPrepared(w)
    BY <1>6 DEF RecordPrepared
  <1>7. CASE Publish(w)
    <2>1. KindOf[op[w]] = "publish"
      BY <1>3, <1>7 DEF Publish, ActFits
    <2>2. CASE Undecided(op[w]) /\ (Owned(op[w]) => phase[op[w]] = "prepared")
      <3>1. decision[op[w]] # "published"
        BY <2>2 DEF JournalAt, Undecided, Pending
      <3> QED BY <1>7, <2>1, <2>2, <3>1 DEF Publish
    <2>3. CASE phase[op[w]] = "decided" /\ decision[op[w]] = "published"
      <3>1. UNCHANGED <<phase, decision, live>>
        BY <1>7, <2>3 DEF Publish
      <3> QED BY <3>1
    <2> QED BY <1>7, <2>2, <2>3 DEF Publish
  <1>8. CASE Cancel(w)
    BY <1>8 DEF Cancel
  <1>9. CASE Decide(w)
    BY <1>3, <1>9 DEF Decide, ActFits
  <1>10. CASE RecordCleaned(w)
    BY <1>10 DEF RecordCleaned
  <1> QED BY <1>4, <1>5, <1>6, <1>7, <1>8, <1>9, <1>10 DEF Phase

(* Every move leaves a consistent journal and catalogue, *)
LEMMA JournalKept ==
  ASSUME JournalTypes, JournalInv, NEW o \in Ops, JournalMove(o)
  PROVE  JournalInv'
  <1>0. /\ ArtOf(o) \in Ops /\ KindOf[ArtOf(o)] = "publish" /\ ReleaseOf[ArtOf(o)] = ReleaseOf[o]
        /\ KindOf[o] \in {"publish", "delete"} /\ JournalAt(o) /\ JournalAt(ArtOf(o))
    BY ArtFacts DEF JournalInv
  <1>a. \A q \in Ops : /\ ArtOf(q) \in Ops /\ KindOf[ArtOf(q)] = "publish"
                       /\ ReleaseOf[ArtOf(q)] = ReleaseOf[q]
                       /\ KindOf[q] = "publish" => ArtOf(q) = q
                       /\ JournalAt(q)
    BY ArtFacts, PublicationIsArt DEF JournalInv
  <1>b. \A q, p \in Ops : KindOf[q] = "publish" /\ KindOf[p] = "publish"
                          /\ ReleaseOf[q] = ReleaseOf[p] => q = p
    BY ReleasesAssumption
  <1> USE <1>0, <1>a, <1>b DEF JournalTypes, PhaseSet, DecisionSet
  <1>1. CASE UNCHANGED <<phase, decision, live>>
    BY <1>1, JournalSame
  <1>2. CASE /\ phase[o] = "none" /\ PhaseSet(o, "reserved") /\ UNCHANGED <<decision, live>>
             /\ IF KindOf[o] = "publish" THEN MayPublish(o) ELSE MayDelete(o)
    BY <1>2 DEF JournalInv, JournalAt, Deleted, MayDelete
  <1>3. CASE Undecided(o) /\ PhaseSet(o, "prepared") /\ UNCHANGED <<decision, live>>
    BY <1>3 DEF JournalInv, JournalAt, Deleted, Undecided, Pending
  <1>4. CASE /\ Undecided(o) /\ (Owned(o) => phase[o] = "prepared") /\ KindOf[o] = "publish"
             /\ PhaseSet(o, "decided") /\ DecisionSet(o, "published")
             /\ live' = live \cup {ReleaseOf[o]}
    <2>1. phase[o] \in {"reserved", "prepared"} /\ decision[o] = "none"
      BY <1>4 DEF JournalAt, Undecided, Pending
    <2>2. ~Deleted(ReleaseOf[o])
      <3> SUFFICES ASSUME NEW d \in Ops, ReleaseOf[d] = ReleaseOf[o], decision[d] = "deleted"
                   PROVE  FALSE
        BY DEF Deleted
      <3>1. ArtOf(d) = o
        BY <1>4
      <3>2. JournalAt(d) /\ KindOf[d] \in {"publish", "delete"}
        BY ArtFacts
      <3> QED BY <2>1, <3>1, <3>2 DEF JournalAt
    <2>3. \A r : Deleted(r)' <=> Deleted(r)
      BY <1>4, <2>1 DEF Deleted
    <2>4. /\ phase'[o] = "decided" /\ decision'[o] = "published"
          /\ \A q \in Ops \ {o} : phase'[q] = phase[q] /\ decision'[q] = decision[q]
      BY <1>4
    <2>5. ASSUME NEW q \in Ops PROVE JournalAt(q)'
      <3>1. CASE q = o
        BY <1>4, <2>2, <2>3, <2>4, <3>1 DEF JournalAt
      <3>2. CASE q # o
        <4>1. KindOf[q] = "publish" => ReleaseOf[q] # ReleaseOf[o]
          BY <1>4, <3>2
        <4>2. decision[ArtOf(q)] = "published" => decision'[ArtOf(q)] = "published"
          BY <2>4
        <4> QED BY <1>4, <2>3, <2>4, <3>2, <4>1, <4>2 DEF JournalAt
      <3> QED BY <3>1, <3>2
    <2> QED BY <1>4, <2>5 DEF JournalInv
  <1>5. CASE /\ Pending(o) /\ PhaseSet(o, "decided") /\ DecisionSet(o, "cancelled")
             /\ UNCHANGED live
    BY <1>5 DEF JournalInv, JournalAt, Deleted, Pending
  <1>6. CASE /\ Pending(o) /\ PhaseSet(o, "decided") /\ DecisionSet(o, "deleted")
             /\ KindOf[o] = "delete" /\ ReleaseOf[o] \in live /\ live' = live \ {ReleaseOf[o]}
    BY <1>6 DEF JournalInv, JournalAt, Deleted, Pending
  <1>7. CASE Cleanable(o) /\ PhaseSet(o, "cleaned") /\ UNCHANGED <<decision, live>>
    BY <1>7 DEF JournalInv, JournalAt, Deleted, Cleanable
  <1> QED BY <1>1, <1>2, <1>3, <1>4, <1>5, <1>6, <1>7 DEF JournalMove

(* A decision is final, and an operation moves forward. *)
Forward ==
    \A o \in Ops : /\ decision[o] # "none" => decision'[o] = decision[o]
                   /\ Rank[phase[o]] <= Rank[phase'[o]]
                   /\ phase[o] # "none" => phase'[o] # "none"
                   /\ phase[o] = "cleaned" => phase'[o] = "cleaned"

(* and goes forward: no decision is taken back. *)
LEMMA ForwardMove ==
  ASSUME JournalTypes, JournalInv, NEW o \in Ops, JournalMove(o)
  PROVE  Forward
  <1>0. JournalAt(o)
    BY DEF JournalInv
  <1>1. \A q \in Ops \ {o} : phase'[q] = phase[q] /\ decision'[q] = decision[q]
    BY DEF JournalMove, PhaseSet, DecisionSet, JournalTypes
  <1>2. /\ decision[o] # "none" => decision'[o] = decision[o]
        /\ \/ phase'[o] = phase[o]
           \/ phase[o] = "none" /\ phase'[o] = "reserved"
           \/ phase[o] = "reserved" /\ phase'[o] = "prepared"
           \/ phase[o] \in {"reserved", "prepared"} /\ phase'[o] = "decided"
           \/ phase[o] = "decided" /\ phase'[o] = "cleaned"
    BY <1>0 DEF JournalMove, PhaseSet, DecisionSet, JournalTypes, JournalAt, Undecided, Pending,
         Cleanable
  <1>3. \A q \in Ops : phase[q] \in {"none", "reserved", "prepared", "decided", "cleaned"}
    BY DEF JournalTypes
  <1> QED BY <1>1, <1>2, <1>3 DEF Forward, Rank

(* Standing still is going forward. *)
LEMMA ForwardSame ==
  ASSUME JournalTypes, UNCHANGED <<phase, decision>>
  PROVE  Forward
  BY DEF JournalTypes, Forward, Rank

(* Only a transaction writes the journal. *)
LEMMA StepForward ==
  ASSUME ReleasesInv, Next
  PROVE  /\ Forward /\ JournalInv'
         /\ UNCHANGED <<phase, decision, live>> \/ \E w \in Workers : Phase(w)
  <1>0. Types /\ JournalTypes /\ JournalInv /\ \A w \in Workers : WorkerInv(w)
    BY TypesParts DEF ReleasesInv
  <1>1. ASSUME NEW w \in Workers, Phase(w) PROVE Forward /\ JournalInv'
    BY <1>0, <1>1, PhaseMoves, ForwardMove, JournalKept
  <1>2. UNCHANGED <<phase, decision, live>> \/ \E w \in Workers : Phase(w)
    <2>1. ASSUME NEW w \in Workers, BeginRequest(w) PROVE UNCHANGED <<phase, decision, live>>
      BY <2>1 DEF BeginRequest, Acquire, journal
    <2>2. ASSUME NEW w \in Workers, FileStep(w) PROVE UNCHANGED <<phase, decision, live>>
      BY <1>0, <2>2, FileStepGoes DEF journal, WorkerInv
    <2>3. ASSUME NEW w \in Workers, OwnerStep(w) PROVE UNCHANGED <<phase, decision, live>>
      BY <1>0, <2>3, OwnerGoes DEF journal
    <2>4. ASSUME IdleSession PROVE UNCHANGED <<phase, decision, live>>
      BY <2>4 DEF IdleSession, AcquireUnconfirmed, SessionEnds, journal
    <2>5. ASSUME NEW d \in Readers, ReaderStep(d) PROVE UNCHANGED <<phase, decision, live>>
      BY <2>5 DEF ReaderStep, ReadStart, ReadLock, ReadSend, ReadEnd, journal
    <2> QED BY <2>1, <2>2, <2>3, <2>4, <2>5, NextCases
  <1>3. CASE UNCHANGED <<phase, decision, live>>
    BY <1>0, <1>2, <1>3, JournalSame, ForwardSame
  <1> QED BY <1>1, <1>2, <1>3

(* A doomed release is in the catalogue no more. *)
LEMMA DoomedIsDead ==
  ASSUME JournalInv, NEW o \in Ops, Doomed(o)
  PROVE  ReleaseOf[o] \notin live /\ phase[ArtOf(o)] # "prepared"
  <1>1. /\ ArtOf(o) \in Ops /\ KindOf[ArtOf(o)] = "publish" /\ ReleaseOf[ArtOf(o)] = ReleaseOf[o]
        /\ KindOf[o] \in {"publish", "delete"} /\ JournalAt(o) /\ JournalAt(ArtOf(o))
        /\ KindOf[o] = "publish" => ArtOf(o) = o
    BY ArtFacts, PublicationIsArt DEF JournalInv
  <1> QED BY <1>1 DEF Doomed, RetiresBytes, JournalAt, Deleted

-----------------------------------------------------------------------------
(* Requests *)

FilesSame(a) ==
    /\ dir'[a] = dir[a] /\ payload'[a] = payload[a] /\ alloc'[a] = alloc[a]
    /\ prepared'[a] = prepared[a] /\ retired'[a] = retired[a] /\ cleaned'[a] = cleaned[a]
    /\ flock'[a] = flock[a]

(* Whoever stays where it is keeps what it knows, if nobody touches the    *)
(* files it holds: decisions are final, and clean stays clean.             *)
LEMMA Bystander ==
  ASSUME WorkerTypes, Forward, NEW q \in Workers, WorkerInv(q), pc[q] # "idle",
         pc'[q] = pc[q], op'[q] = op[q], act'[q] = act[q],
         pc[q] \in HeldPlaces => FilesSame(ArtOf(op[q])),
         pc[q] = "unlock" => \A b \in Arts : flock'[b] # q,
         \A b \in Arts : cleaned[b] = "ok" => cleaned'[b] = "ok"
  PROVE  WorkerInv(q)'
  <1>1. op[q] \in Ops
    BY WorkerFacts
  <1>2. ArtOf(op[q])' = ArtOf(op[q])
    BY DEF ArtOf, BornFrom
  <1>3. ActFits(q)' /\ HoldsFiles(q)'
    BY <1>2 DEF WorkerInv, ActFits, HoldsFiles, FilesSame
  <1>4. decision[op[q]] \in {"cancelled", "deleted"} =>
          /\ decision'[op[q]] = decision[op[q]]
          /\ RetiresBytes(op[q])' <=> RetiresBytes(op[q])
          /\ Doomed(op[q]) => Doomed(op[q])'
    <2>1. RetiresBytes(op[q])' <=> Owned(op[q]) /\ ~(KindOf[op[q]] = "delete" /\ decision'[op[q]] = "cancelled")
      BY <1>2 DEF RetiresBytes, Owned
    <2>2. Doomed(op[q])' <=> decision'[op[q]] \in {"cancelled", "deleted"} /\ RetiresBytes(op[q])'
      BY DEF Doomed
    <2> QED BY <1>1, <2>1, <2>2 DEF Forward, RetiresBytes, Doomed
  <1>5. KnowsJournal(q)'
    <2>1. /\ phase[op[q]] # "none" => phase'[op[q]] # "none"
          /\ op'[q] = op[q]
      BY <1>1 DEF Forward
    <2>2. Doomed(op[q]) => Doomed(op[q])'
      BY <1>4 DEF Doomed
    <2> QED BY <1>4, <2>1, <2>2 DEF WorkerInv, KnowsJournal
  <1>6. KnowsFiles(q)'
    <2>1. ASSUME pc[q] \in HeldPlaces
          PROVE  /\ Allocated(ArtOf(op[q]), "part") => Allocated(ArtOf(op[q]), "part")'
                 /\ Allocated(ArtOf(op[q]), "full") => Allocated(ArtOf(op[q]), "full")'
                 /\ Verified(ArtOf(op[q])) => Verified(ArtOf(op[q]))'
      BY <1>2, <2>1 DEF FilesSame, Allocated, Verified, NotRetired
    <2>2. ASSUME pc[q] = "cleaned", RetiresBytes(op[q])'
          PROVE  cleaned'[ArtOf(op[q])] = "ok"
      <3>1. RetiresBytes(op[q]) /\ ArtOf(op[q]) \in Arts
        BY <1>4, <2>2 DEF WorkerInv, KnowsJournal, RetiresBytes, Owned
      <3> QED BY <2>2, <3>1 DEF WorkerInv, KnowsFiles
    <2> QED BY <1>2, <2>1, <2>2 DEF WorkerInv, KnowsFiles, HeldPlaces
  <1> QED BY <1>3, <1>5, <1>6 DEF WorkerInv

(* Requests that are not under way know nothing. *)
LEMMA IdleWorker ==
  ASSUME NEW q, pc[q] \in {"idle", "close"}
  PROVE  WorkerInv(q)
  BY DEF WorkerInv, ActFits, HoldsFiles, KnowsJournal, KnowsFiles, HeldPlaces

(* Nor do those about to begin, or to end, after a step. *)
LEMMA IdleWorkerNext ==
  ASSUME NEW q, pc'[q] \in {"idle", "close", "reserve", "cancel", "decide", "inspect", "publish"},
         ActFits(q)'
  PROVE  WorkerInv(q)'
  BY DEF WorkerInv, HoldsFiles, KnowsJournal, KnowsFiles, HeldPlaces

(* The others, while one request takes a step. *)
LEMMA OthersKept ==
  ASSUME WorkerTypes, Forward, \A q \in Workers : WorkerInv(q), NEW w \in Workers,
         \A q \in Workers \ {w} :
            /\ pc'[q] = pc[q] /\ op'[q] = op[q] /\ act'[q] = act[q]
            /\ pc[q] \in HeldPlaces => FilesSame(ArtOf(op[q]))
            /\ \A b \in Arts : flock[b] # q => flock'[b] # q,
         \A b \in Arts : cleaned[b] = "ok" => cleaned'[b] = "ok"
  PROVE  \A q \in Workers \ {w} : WorkerInv(q)'
  <1> SUFFICES ASSUME NEW q \in Workers \ {w} PROVE WorkerInv(q)'
    OBVIOUS
  <1>1. CASE pc[q] = "idle"
    BY <1>1, IdleWorkerNext DEF ActFits
  <1>2. CASE pc[q] # "idle"
    <2>1. pc[q] = "unlock" => \A b \in Arts : flock'[b] # q
      BY DEF WorkerInv, HoldsFiles
    <2> QED BY <1>2, <2>1, Bystander
  <1> QED BY <1>1, <1>2

(* What every request knows survives a transaction, *)
LEMMA WorkersPhase ==
  ASSUME ReleasesInv, Forward, NEW w \in Workers, Phase(w)
  PROVE  \A q \in Workers : WorkerInv(q)'
  <1>0. Types /\ WorkerTypes /\ WorkerInv(w) /\ \A q \in Workers : WorkerInv(q)
    BY TypesParts DEF ReleasesInv
  <1>1. /\ pc[w] # "idle" /\ UNCHANGED <<op, act, store, flock>>
        /\ \A q \in Workers \ {w} : pc'[q] = pc[q]
    BY <1>0, PhaseGoes DEF WorkerInv, WorkerTypes
  <1>2. \A q \in Workers \ {w} : WorkerInv(q)'
    BY <1>0, <1>1, OthersKept DEF FilesSame, store
  <1>3. /\ op[w] \in Ops
        /\ act[w] \in {"upload", "resume"} => ArtOf(op[w]) \in Arts
        /\ ArtOf(op[w])' = ArtOf(op[w])
    <2>1. op'[w] = op[w]
      BY <1>1
    <2> QED BY <1>0, <1>1, <2>1, WorkerFacts DEF ArtOf, BornFrom
  <1>4. pc \in [Workers -> Places]
    BY <1>0 DEF WorkerTypes
  <1>5. CASE ~Look(w)
    <2>1. \/ pc'[w] = "close"
          \/ pc[w] = "reserve" /\ pc'[w] = "decide" /\ act[w] = "delete"
          \/ pc[w] = "reserve" /\ pc'[w] = "inspect" /\ act[w] \in {"upload", "publish"}
          \/ pc'[w] = "publish" /\ act[w] = "publish"
      <3> USE <1>0, <1>4 DEF WorkerInv, ActFits, Commit
      <3>1. CASE Reserve(w)
        BY <3>1 DEF Reserve
      <3>2. CASE RecordPrepared(w)
        BY <3>2 DEF RecordPrepared
      <3>3. CASE Publish(w) \/ Cancel(w) \/ Decide(w) \/ RecordCleaned(w)
        BY <3>3 DEF Publish, Cancel, Decide, RecordCleaned
      <3> QED BY <1>5, <3>1, <3>2, <3>3 DEF Phase
    <2>2. ActFits(w)'
      BY <1>1, <2>1 DEF ActFits
    <2> QED BY <1>2, <2>1, <2>2, IdleWorkerNext
  <1>6. CASE Look(w)
    <2>1. UNCHANGED <<phase, decision, live>> /\ pc[w] \in Looks /\ op'[w] = op[w] /\ act'[w] = act[w]
      BY <1>1, <1>6 DEF Look, journal
    <2>2. /\ Doomed(op[w])' <=> Doomed(op[w])
          /\ RetiresBytes(op[w])' <=> RetiresBytes(op[w])
      <3>1. RetiresBytes(op[w])' <=> RetiresBytes(op[w])
        BY <1>3, <2>1 DEF RetiresBytes, Owned
      <3> QED BY <2>1, <3>1 DEF Doomed
    <2>3. \A p : (Allocated(ArtOf(op[w]), p)' <=> Allocated(ArtOf(op[w]), p))
      BY <1>1, <1>3 DEF Allocated, NotRetired, store
    <2>4. \/ pc'[w] = "close"
          \/ /\ pc'[w] = "cleaned" /\ act[w] = "cleanup" /\ Cleanable(op[w]) /\ ~RetiresBytes(op[w])
          \/ pc[w] = "inspect" /\ pc'[w] = "publish" /\ act[w] = "publish"
          \/ /\ pc[w] = "inspect" /\ pc'[w] = "flock"
             /\ \/ act[w] \in {"upload", "resume"} /\ Undecided(op[w])
                \/ act[w] = "publish" /\ Owned(op[w])
                \/ act[w] = "cleanup" /\ Cleanable(op[w]) /\ RetiresBytes(op[w])
          \/ pc[w] = "recheck" /\ pc'[w] = "begin" /\ act[w] = "upload"
          \/ pc[w] = "recheck" /\ pc'[w] = "retire" /\ act[w] = "cleanup"
          \/ pc[w] = "recheck" /\ pc'[w] = "verify" /\ act[w] \in {"resume", "publish"}
          \/ pc[w] = "check" /\ pc'[w] = "append" /\ act[w] = "upload"
          \/ pc[w] = "last" /\ pc'[w] = "unlink" /\ act[w] = "cleanup"
          \/ pc[w] = "last" /\ pc'[w] = "finish" /\ act[w] = "upload"
      <3>1. act[w] \in {"upload", "resume", "publish", "cleanup"} /\ ActFits(w)
        BY <1>0, <2>1 DEF WorkerInv, ActFits, Looks
      <3>2. CASE act[w] = "cleanup"
        BY <1>4, <1>6, <3>1, <3>2 DEF Look, AfterLook, Goto, ActFits, Looks
      <3>3. CASE act[w] = "publish"
        BY <1>4, <1>6, <3>1, <3>3 DEF Look, AfterLook, Goto, ActFits, Looks
      <3>4. CASE act[w] \in {"upload", "resume"}
        BY <1>4, <1>6, <3>1, <3>4 DEF Look, AfterLook, Goto, ActFits, Looks
      <3> QED BY <3>1, <3>2, <3>3, <3>4
    <2>5. ActFits(w)'
      BY <2>1, <2>4 DEF ActFits
    <2>6. HoldsFiles(w)'
      <3>1. pc'[w] \in HeldPlaces => pc[w] \in HeldPlaces
        BY <2>4 DEF HeldPlaces
      <3>2. pc'[w] = "flock" => ArtOf(op[w]) \in Arts
        BY <1>3, <2>4 DEF Owned, RetiresBytes
      <3>3. flock' = flock /\ pc'[w] # "unlock"
        BY <1>1, <2>4
      <3> QED BY <1>0, <1>3, <3>1, <3>2, <3>3 DEF WorkerInv, HoldsFiles
    <2>7. KnowsJournal(w)'
      <3>1. Cleanable(op[w]) => decision[op[w]] \in {"cancelled", "deleted"}
        BY DEF Cleanable
      <3>2. Undecided(op[w]) => phase[op[w]] # "none"
        BY DEF Undecided, Pending
      <3>3. Cleanable(op[w]) /\ RetiresBytes(op[w]) => Doomed(op[w])
        BY <3>1 DEF Doomed
      <3> QED BY <1>0, <2>1, <2>2, <2>4, <3>1, <3>2, <3>3 DEF WorkerInv, KnowsJournal, HeldPlaces
    <2>8. KnowsFiles(w)'
      <3>1. /\ pc'[w] \notin {"check", "last", "record"}
            /\ pc'[w] = "append" => Allocated(ArtOf(op[w]), "part")
            /\ pc'[w] = "finish" => Allocated(ArtOf(op[w]), "full")
            /\ pc'[w] = "cleaned" => ~RetiresBytes(op[w])
        BY <1>0, <2>4 DEF WorkerInv, KnowsFiles
      <3> QED BY <2>1, <2>2, <2>3, <3>1 DEF KnowsFiles
    <2> QED BY <1>2, <2>5, <2>6, <2>7, <2>8 DEF WorkerInv
  <1> QED BY <1>5, <1>6

(* What was marked clean stays so. *)
LEMMA CleanStays ==
  ASSUME Types, NEW w \in Workers, FileStep(w), HoldsFiles(w), NEW b \in Arts, cleaned[b] = "ok"
  PROVE  cleaned'[b] = "ok"
  <1>0. cleaned \in [Arts -> Marker] /\ ArtOf(op[w]) \in Arts
    BY FileStepGoes DEF Types, TypeOK
  <1>1. CASE Unlink(w)
    <2>1. PICK m : /\ m \in {cleaned[ArtOf(op[w])], "ok"} \cup
                            (IF cleaned[ArtOf(op[w])] = "none" THEN {"torn"} ELSE {})
                   /\ cleaned' = [cleaned EXCEPT ![ArtOf(op[w])] = m]
      BY <1>1 DEF Unlink
    <2> QED BY <1>0, <2>1
  <1>2. CASE ~Unlink(w)
    BY <1>2 DEF FileStep, FileLock, Begin, AppendChunk, Finish, Verify, Retire, store
  <1> QED BY <1>1, <1>2

(* a file step, *)
LEMMA WorkersFiles ==
  ASSUME ReleasesInv, Forward, NEW w \in Workers, FileStep(w)
  PROVE  \A q \in Workers : WorkerInv(q)'
  <1>0. /\ Types /\ WorkerTypes /\ StoreTypes /\ LockTypes /\ WorkerInv(w) /\ HoldsFiles(w)
        /\ \A q \in Workers : WorkerInv(q)
    BY TypesParts DEF ReleasesInv, WorkerInv
  <1>1. /\ pc[w] # "idle" /\ UNCHANGED <<op, act, journal, live>>
        /\ \A q \in Workers \ {w} : pc'[q] = pc[q]
        /\ OtherFilesSame(ArtOf(op[w])) /\ ArtOf(op[w]) \in Arts
        /\ \A b \in Arts : flock'[b] = flock[b] \/ flock'[b] = w
    BY <1>0, FileStepGoes DEF WorkerTypes, LockTypes
  <1>2. flock[ArtOf(op[w])] \in {NoOne, w}
    BY <1>0, FileStepGoes DEF FileStep, FileLock, Begin, AppendChunk, Finish, Verify, Retire, Unlink,
         HoldsFiles, HeldPlaces, Unlocked
  <1>3. \A q \in Workers \ {w} : WorkerInv(q)'
    <2>1. ASSUME NEW q \in Workers \ {w}
          PROVE  /\ pc[q] \in HeldPlaces => FilesSame(ArtOf(op[q]))
                 /\ \A b \in Arts : flock[b] # q => flock'[b] # q
      <3>1. pc[q] \in HeldPlaces => ArtOf(op[q]) \in Arts /\ flock[ArtOf(op[q])] = q
        BY <1>0 DEF WorkerInv, HoldsFiles
      <3>2. q # NoOne
        BY ReleasesAssumption
      <3>3. pc[q] \in HeldPlaces => ArtOf(op[q]) # ArtOf(op[w])
        BY <1>2, <3>1, <3>2
      <3> QED BY <1>1, <3>1, <3>3 DEF OtherFilesSame, FilesSame
    <2>2. \A b \in Arts : cleaned[b] = "ok" => cleaned'[b] = "ok"
      BY <1>0, CleanStays
    <2> QED BY <1>0, <1>1, <2>1, <2>2, OthersKept
  <1>4. /\ op'[w] = op[w] /\ act'[w] = act[w] /\ UNCHANGED <<phase, decision>>
        /\ ArtOf(op[w])' = ArtOf(op[w])
        /\ Doomed(op[w])' <=> Doomed(op[w])
        /\ RetiresBytes(op[w])' <=> RetiresBytes(op[w])
    <2>1. op'[w] = op[w] /\ act'[w] = act[w] /\ UNCHANGED <<phase, decision>>
      BY <1>1 DEF journal
    <2>2. ArtOf(op[w])' = ArtOf(op[w])
      BY <2>1 DEF ArtOf, BornFrom
    <2>3. RetiresBytes(op[w])' <=> RetiresBytes(op[w])
      BY <2>1, <2>2 DEF RetiresBytes, Owned
    <2> QED BY <2>1, <2>2, <2>3 DEF Doomed
  <1>5. \/ pc'[w] = "close"
        \/ pc[w] = "flock" /\ pc'[w] = "recheck" /\ flock'[ArtOf(op[w])] = w
        \/ pc[w] = "begin" /\ pc'[w] = "check" /\ Allocated(ArtOf(op[w]), "part")'
        \/ /\ pc[w] = "append" /\ pc'[w] = "last" /\ act[w] = "upload"
           /\ Allocated(ArtOf(op[w]), "full")'
        \/ pc[w] = "finish" /\ pc'[w] = "record" /\ Verified(ArtOf(op[w]))' /\ act[w] = "upload"
        \/ pc[w] = "verify" /\ pc'[w] = "record" /\ Verified(ArtOf(op[w]))'
        \/ pc[w] = "retire" /\ pc'[w] = "last" /\ act[w] = "cleanup"
        \/ /\ pc[w] = "unlink" /\ pc'[w] = "cleaned" /\ act[w] = "cleanup"
           /\ cleaned'[ArtOf(op[w])] = "ok"
    <2>0. pc \in [Workers -> Places] /\ ArtOf(op[w]) \in Arts
      BY <1>0, <1>1 DEF WorkerTypes
    <2> USE <2>0, <1>0, <1>4 DEF StoreTypes, LockTypes, WorkerInv, ActFits, KnowsFiles, Goto, NotRetired
    <2>1. CASE FileLock(w)
      BY <2>1 DEF FileLock
    <2>2. CASE Begin(w)
      BY <2>2 DEF Begin, Allocated
    <2>3. CASE AppendChunk(w)
      BY <2>3 DEF AppendChunk, Allocated
    <2>4. CASE Finish(w)
      <3>1. dir[ArtOf(op[w])] = "ok"
        <4>1. flock[ArtOf(op[w])] = w /\ w # NoOne
          BY <2>4, ReleasesAssumption DEF Finish, HoldsFiles, HeldPlaces
        <4> QED BY <4>1 DEF ReleasesInv, ArtifactInv
      <3> QED BY <2>4, <3>1 DEF Finish, Allocated, Verified
    <2>5. CASE Verify(w)
      BY <2>5 DEF Verify, Verified, store
    <2>6. CASE Retire(w)
      BY <2>6 DEF Retire
    <2>7. CASE Unlink(w)
      BY <2>7 DEF Unlink
    <2> QED BY <2>1, <2>2, <2>3, <2>4, <2>5, <2>6, <2>7 DEF FileStep
  <1>6. ActFits(w)'
    BY <1>0, <1>4, <1>5 DEF WorkerInv, ActFits
  <1>7. HoldsFiles(w)'
    <2>1. pc'[w] \in HeldPlaces => flock'[ArtOf(op[w])] = w
      <3>1. flock[ArtOf(op[w])] = w => flock'[ArtOf(op[w])] = w
        BY <1>1
      <3>2. pc'[w] \in HeldPlaces => pc[w] \in HeldPlaces \/ flock'[ArtOf(op[w])] = w
        BY <1>5 DEF HeldPlaces
      <3> QED BY <1>0, <3>1, <3>2 DEF HoldsFiles
    <2>2. pc'[w] # "unlock"
      BY <1>5
    <2> QED BY <1>1, <1>4, <2>1, <2>2 DEF HoldsFiles
  <1>8. KnowsJournal(w)'
    <2>1. pc'[w] \in HeldPlaces \cup {"flock", "cleaned"} => pc[w] \in HeldPlaces \cup {"flock"}
      BY <1>5 DEF HeldPlaces
    <2>2. pc'[w] = "cleaned" => Doomed(op[w])
      BY <1>0, <1>5 DEF WorkerInv, KnowsJournal, HeldPlaces
    <2>3. "cleaned" \notin HeldPlaces
      BY DEF HeldPlaces
    <2> QED BY <1>0, <1>4, <2>1, <2>2, <2>3 DEF WorkerInv, KnowsJournal, Doomed
  <1>9. KnowsFiles(w)'
    BY <1>4, <1>5 DEF KnowsFiles
  <1> QED BY <1>3, <1>6, <1>7, <1>8, <1>9 DEF WorkerInv

(* and every other step. *)
LEMMA WorkersOther ==
  ASSUME ReleasesInv, Forward,
         \/ \E w \in Workers : BeginRequest(w) \/ OwnerStep(w)
         \/ IdleSession \/ \E d \in Readers : ReaderStep(d)
  PROVE  \A q \in Workers : WorkerInv(q)'
  <1>0. /\ Types /\ WorkerTypes /\ LockTypes /\ \A q \in Workers : WorkerInv(q)
    BY TypesParts DEF ReleasesInv
  <1>1. ASSUME NEW w \in Workers, BeginRequest(w) PROVE \A q \in Workers : WorkerInv(q)'
    <2>1. PICK o \in Ops : \E a \in Requests(o) : Acquire(w, o, a)
      BY <1>1 DEF BeginRequest
    <2>2. PICK a \in Requests(o) : Acquire(w, o, a)
      BY <2>1
    <2>3. /\ UNCHANGED <<store, flock>>
          /\ pc'[w] = FirstPlace(o, a) /\ act'[w] = a
          /\ \A q \in Workers \ {w} : pc'[q] = pc[q] /\ op'[q] = op[q] /\ act'[q] = act[q]
      BY <1>0, <2>2 DEF Acquire, Goto, WorkerTypes
    <2>4. \A q \in Workers \ {w} : WorkerInv(q)'
      BY <1>0, <2>3, OthersKept DEF FilesSame, store
    <2>5. /\ FirstPlace(o, a) \in {"reserve", "inspect", "cancel"}
          /\ FirstPlace(o, a) = "reserve" => a \in {"reserve", "upload", "publish", "delete"}
          /\ FirstPlace(o, a) = "inspect" => a \in {"resume", "publish", "cleanup"}
      <3>1. a \in RequestKinds \ {"none"}
        BY RequestFacts
      <3> QED BY <3>1 DEF FirstPlace, RequestKinds
    <2>6. ActFits(w)'
      BY <2>3, <2>5 DEF ActFits
    <2> QED BY <2>3, <2>4, <2>5, <2>6, IdleWorkerNext
  <1>2. ASSUME NEW w \in Workers, OwnerStep(w) PROVE \A q \in Workers : WorkerInv(q)'
    <2>1. pc[w] # "idle" /\ UNCHANGED store
      BY <1>0, <1>2, OwnerGoes
    <2>2. /\ \A q \in Workers \ {w} : pc'[q] = pc[q] /\ op'[q] = op[q] /\ act'[q] = act[q]
          /\ \A b \in Arts : flock'[b] = flock[b] \/ (flock[b] = w /\ flock'[b] = NoOne)
      BY <1>0, <1>2, OwnerGoes DEF WorkerTypes, LockTypes, Released
    <2>3. \A q \in Workers \ {w} : WorkerInv(q)'
      <3>1. ASSUME NEW q \in Workers \ {w}
            PROVE  /\ pc[q] \in HeldPlaces => FilesSame(ArtOf(op[q]))
                   /\ \A b \in Arts : flock[b] # q => flock'[b] # q
        <4>1. q # NoOne
          BY ReleasesAssumption
        <4>2. pc[q] \in HeldPlaces => ArtOf(op[q]) \in Arts /\ flock[ArtOf(op[q])] = q
          BY <1>0 DEF WorkerInv, HoldsFiles
        <4> QED BY <2>1, <2>2, <4>1, <4>2 DEF FilesSame, store
      <3> QED BY <1>0, <2>1, <2>2, <3>1, OthersKept DEF store
    <2>4. CASE /\ pc' = [pc EXCEPT ![w] = "close"] \/ UNCHANGED pc
               /\ UNCHANGED <<op, act, flock>>
      <3>1. CASE UNCHANGED pc
        <4>1. pc[w] \in HeldPlaces => FilesSame(ArtOf(op[w]))
          BY <2>1, <2>4 DEF FilesSame, store
        <4>2. pc[w] = "unlock" => \A b \in Arts : flock'[b] # w
          BY <1>0, <2>4 DEF WorkerInv, HoldsFiles
        <4>3. WorkerInv(w)'
          BY <1>0, <2>1, <2>4, <3>1, <4>1, <4>2, Bystander DEF store
        <4> QED BY <2>3, <4>3
      <3>2. CASE pc' = [pc EXCEPT ![w] = "close"]
        <4>1. pc'[w] = "close"
          BY <1>0, <3>2 DEF WorkerTypes
        <4> QED BY <2>3, <4>1, IdleWorkerNext DEF ActFits
      <3> QED BY <2>4, <3>1, <3>2
    <2>5. CASE /\ pc[w] = "close" /\ pc' = [pc EXCEPT ![w] = "unlock"]
               /\ UNCHANGED <<op, act>> /\ Released(w, flock')
      <3>1. pc'[w] = "unlock" /\ \A b \in Arts : flock'[b] # w
        BY <1>0, <2>5, ReleasesAssumption DEF WorkerTypes, LockTypes, Released
      <3>2. WorkerInv(w)'
        BY <3>1 DEF WorkerInv, ActFits, HoldsFiles, KnowsJournal, KnowsFiles, HeldPlaces
      <3> QED BY <2>3, <3>2
    <2>6. CASE pc' = [pc EXCEPT ![w] = "idle"]
      <3>1. pc'[w] = "idle"
        BY <1>0, <2>6 DEF WorkerTypes
      <3> QED BY <2>3, <3>1, IdleWorkerNext DEF ActFits
    <2> QED BY <1>0, <1>2, <2>4, <2>5, <2>6, OwnerGoes
  <1>3. ASSUME IdleSession \/ \E d \in Readers : ReaderStep(d) PROVE \A q \in Workers : WorkerInv(q)'
    <2>1. UNCHANGED <<journal, live, store, flock, pc, op, act>>
      BY <1>3 DEF IdleSession, AcquireUnconfirmed, SessionEnds, ReaderStep, ReadStart, ReadLock,
           ReadSend, ReadEnd
    <2> SUFFICES ASSUME NEW q \in Workers PROVE WorkerInv(q)'
      OBVIOUS
    <2>2. CASE pc[q] = "idle"
      BY <2>1, <2>2, IdleWorkerNext DEF ActFits
    <2>3. CASE pc[q] # "idle"
      <3>1. pc[q] \in HeldPlaces => FilesSame(ArtOf(op[q]))
        BY <2>1 DEF FilesSame, store
      <3>2. pc[q] = "unlock" => \A b \in Arts : flock'[b] # q
        BY <1>0, <2>1 DEF WorkerInv, HoldsFiles
      <3> QED BY <1>0, <2>1, <2>3, <3>1, <3>2, Bystander DEF store
    <2> QED BY <2>2, <2>3
  <1> QED BY <1>1, <1>2, <1>3

-----------------------------------------------------------------------------
(* Artifacts *)

(* Transactions: what is prepared or published was verified by its holder, *)
(* what is recorded clean was cleaned.                                     *)
LEMMA ArtifactPhase ==
  ASSUME ReleasesInv, Forward, NEW w \in Workers, Phase(w), NEW a \in Arts
  PROVE  ArtifactInv(a)'
  <1>0. /\ Types /\ WorkerTypes /\ JournalTypes /\ WorkerInv(w) /\ ArtifactInv(a) /\ JournalInv
    BY TypesParts DEF ReleasesInv
  <1>1. /\ pc[w] # "idle" /\ UNCHANGED <<store, flock, readers>>
    BY <1>0, PhaseGoes DEF WorkerInv
  <1>2. op[w] \in Ops /\ JournalMove(op[w])
    BY PhaseMoves
  <1>3. /\ a \in Ops /\ KindOf[a] = "publish" /\ ArtOf(a) = a
        /\ \A o \in Ops : ReleaseOf[o] = ReleaseOf[a] <=> ArtOf(o) = a
    BY ArtOfRelease
  <1>4. /\ Verified(a)' <=> Verified(a)
        /\ Reading(a)' <=> Reading(a)
    BY <1>1 DEF Verified, NotRetired, Reading, store, readers
  <1>5. phase'[a] = "prepared" => Verified(a)
    <2>1. CASE RecordPrepared(w)
      <3>1. /\ pc[w] = "record" /\ ArtOf(op[w]) = op[w]
            /\ phase' = [phase EXCEPT ![op[w]] = "prepared"]
        BY <1>0, <1>1, <2>1, WorkerFacts DEF RecordPrepared, WorkerInv, ActFits
      <3>2. Verified(op[w])
        BY <1>0, <3>1 DEF WorkerInv, KnowsFiles
      <3> QED BY <1>0, <1>3, <3>1, <3>2 DEF JournalTypes, ArtifactInv
    <2>2. CASE ~RecordPrepared(w)
      <3>1. phase'[a] = "prepared" => phase[a] = "prepared"
        BY <1>0, <1>3, <2>2 DEF JournalTypes, Phase, Reserve, Look, Publish, Cancel, Decide,
             RecordCleaned, journal
      <3> QED BY <1>0, <3>1 DEF ArtifactInv
    <2> QED BY <2>1, <2>2
  <1>6. ReleaseOf[a] \in live' => Verified(a)
    <2>1. CASE live' \subseteq live
      BY <1>0, <2>1 DEF ArtifactInv
    <2>2. CASE ~(live' \subseteq live)
      <3>1. /\ KindOf[op[w]] = "publish" /\ (Owned(op[w]) => phase[op[w]] = "prepared")
            /\ live' = live \cup {ReleaseOf[op[w]]}
        BY <1>2, <2>2 DEF JournalMove
      <3>2. ReleaseOf[a] = ReleaseOf[op[w]] => op[w] = a
        BY <1>2, <1>3, <3>1, PublicationIsArt
      <3>3. op[w] = a => Owned(op[w])
        BY <1>3 DEF Owned
      <3> QED BY <1>0, <3>1, <3>2, <3>3 DEF ArtifactInv
    <2> QED BY <2>1, <2>2
  <1>7. ASSUME NEW o \in Ops, ArtOf(o) = a, phase'[o] = "cleaned", RetiresBytes(o)'
        PROVE  cleaned[a] = "ok"
    <2>1. RetiresBytes(o)' <=> Owned(o) /\ ~(KindOf[o] = "delete" /\ decision'[o] = "cancelled")
      BY DEF RetiresBytes, Owned, ArtOf, BornFrom
    <2>2. CASE phase[o] = "cleaned"
      <3>1. decision[o] # "none"
        BY <1>0, <2>2 DEF JournalInv, JournalAt
      <3>2. decision'[o] = decision[o]
        BY <3>1 DEF Forward
      <3>3. RetiresBytes(o)
        BY <1>7, <2>1, <3>2 DEF RetiresBytes
      <3> QED BY <1>0, <1>7, <2>2, <3>3 DEF ArtifactInv
    <2>3. CASE phase[o] # "cleaned"
      <3>1. RecordCleaned(w)
        BY <1>0, <1>7, <2>3 DEF JournalTypes, Phase, Reserve, Look, RecordPrepared, Publish, Cancel,
             Decide, journal
      <3>2. o = op[w] /\ pc[w] = "cleaned" /\ UNCHANGED decision
        BY <1>0, <1>7, <2>3, <3>1 DEF RecordCleaned, JournalTypes
      <3>3. RetiresBytes(o)
        BY <1>7, <2>1, <3>2 DEF RetiresBytes
      <3> QED BY <1>0, <1>7, <3>2, <3>3 DEF WorkerInv, KnowsFiles
    <2> QED BY <2>2, <2>3
  <1>8. phase[a] # "none" => phase'[a] # "none"
    BY <1>3 DEF Forward
  <1>9. ASSUME NEW o \in Ops, ArtOf(o)' = a, phase'[o] = "cleaned", RetiresBytes(o)'
        PROVE  cleaned'[a] = "ok"
    <2>1. ArtOf(o) = a
      BY <1>9 DEF ArtOf, BornFrom
    <2> QED BY <1>1, <1>7, <1>9, <2>1 DEF store
  <1> QED BY <1>0, <1>1, <1>4, <1>5, <1>6, <1>8, <1>9 DEF ArtifactInv, store

(* Nobody reads what a request holds. *)
LEMMA HeldIsUnread ==
  ASSUME ReleasesInv, NEW w \in Workers, FileStep(w)
  PROVE  ArtOf(op[w]) \in Arts /\ ~Reading(ArtOf(op[w]))
  <1>1. /\ Types /\ HoldsFiles(w) /\ ArtOf(op[w]) \in Arts
    BY FileStepGoes DEF ReleasesInv, WorkerInv
  <1>2. CASE FileLock(w)
    BY <1>1, <1>2 DEF FileLock, Unlocked
  <1>3. CASE ~FileLock(w)
    <2>1. flock[ArtOf(op[w])] = w
      BY <1>1, <1>3 DEF FileStep, Begin, AppendChunk, Finish, Verify, Retire, Unlink, HoldsFiles,
           HeldPlaces
    <2> QED BY <1>1, <2>1, ReleasesAssumption DEF ReleasesInv, ArtifactInv
  <1> QED BY <1>1, <1>2, <1>3

(* Files: only the artifact that is held changes, and what it loses nobody *)
(* counts on any more.                                                     *)
LEMMA ArtifactFiles ==
  ASSUME ReleasesInv, NEW w \in Workers, FileStep(w), NEW b \in Arts
  PROVE  ArtifactInv(b)'
  <1>0. /\ Types /\ WorkerTypes /\ StoreTypes /\ LockTypes /\ WorkerInv(w) /\ HoldsFiles(w)
        /\ ArtifactInv(b) /\ JournalInv
    BY TypesParts DEF ReleasesInv, WorkerInv
  <1>1. /\ pc[w] # "idle" /\ UNCHANGED <<op, act, phase, decision, live, rpc, rrel>>
        /\ OtherFilesSame(ArtOf(op[w])) /\ ArtOf(op[w]) \in Arts
    BY <1>0, FileStepGoes DEF journal, readers
  <1>2. /\ Reading(b)' <=> Reading(b)
        /\ \A o \in Ops : /\ ArtOf(o)' = ArtOf(o)
                          /\ RetiresBytes(o)' <=> RetiresBytes(o)
    <2>1. \A o \in Ops : ArtOf(o)' = ArtOf(o)
      BY DEF ArtOf, BornFrom
    <2> QED BY <1>1, <2>1 DEF Reading, RetiresBytes, Owned
  <1>3. CASE b # ArtOf(op[w])
    <2>1. Verified(b)' <=> Verified(b)
      BY <1>1, <1>3 DEF OtherFilesSame, Verified, NotRetired
    <2> QED BY <1>0, <1>1, <1>2, <1>3, <2>1 DEF ArtifactInv, OtherFilesSame
  <1>4. CASE b = ArtOf(op[w])
    <2>1. ~Reading(b)
      BY <1>4, HeldIsUnread
    <2>2. cleaned[b] = "ok" => cleaned'[b] = "ok"
      BY <1>0, CleanStays
    <2>3. phase[b] = "prepared" \/ ReleaseOf[b] \in live => Verified(b)'
      <3>0. SUFFICES ASSUME phase[b] = "prepared" \/ ReleaseOf[b] \in live PROVE Verified(b)'
        OBVIOUS
      <3>1. Verified(b)
        BY <1>0, <3>0 DEF ArtifactInv
      <3>2. CASE FileLock(w) \/ Verify(w)
        BY <1>0, <1>4, <3>1, <3>2 DEF FileLock, Verify, Verified, NotRetired, store, StoreTypes
      <3>3. ~Begin(w) /\ ~AppendChunk(w) /\ ~Finish(w)
        BY <1>0, <1>4, <3>1 DEF Begin, AppendChunk, Finish, Verified, WorkerInv, KnowsFiles,
             Allocated, ActFits
      <3>4. ~Retire(w) /\ ~Unlink(w)
        <4>1. ASSUME pc[w] \in {"retire", "unlink"} PROVE FALSE
          <5>1. op[w] \in Ops /\ Doomed(op[w])
            BY <1>0, <1>1, <4>1, WorkerFacts DEF WorkerInv, KnowsJournal, ActFits, HeldPlaces
          <5>2. ReleaseOf[op[w]] = ReleaseOf[b]
            BY <1>4, <5>1, ArtFacts
          <5> QED BY <1>0, <1>4, <3>0, <5>1, <5>2, DoomedIsDead
        <4> QED BY <4>1 DEF Retire, Unlink
      <3> QED BY <3>2, <3>3, <3>4 DEF FileStep
    <2>4. /\ dir'[b] # "none" => phase[b] # "none"
          /\ payload'[b] # "none" \/ flock'[b] # NoOne => dir'[b] = "ok"
      <3>1. CASE FileLock(w)
        <4>1. act[w] = "upload" => phase[b] # "none"
          <5>1. pc[w] = "flock"
            BY <3>1 DEF FileLock
          <5>2. act[w] = "upload" => op[w] = b
            BY <1>0, <1>1, <1>4, WorkerFacts
          <5> QED BY <1>0, <5>1, <5>2 DEF WorkerInv, KnowsJournal
        <4>2. UNCHANGED payload
          BY <3>1 DEF FileLock
        <4>3. CASE dir[b] = "ok" /\ UNCHANGED dir
          BY <1>0, <1>1, <4>2, <4>3 DEF ArtifactInv
        <4>4. CASE dir[b] = "none" /\ act[w] = "upload" /\ dir'[b] = "ok"
          BY <4>1, <4>4
        <4>5. CASE dir[b] = "none" /\ act[w] = "upload" /\ UNCHANGED flock
          BY <1>0, <4>1, <4>2, <4>5 DEF ArtifactInv
        <4> QED BY <1>0, <1>4, <3>1, <4>3, <4>4, <4>5 DEF FileLock, StoreTypes
      <3>2. CASE ~FileLock(w)
        <4>1. flock[b] = w /\ UNCHANGED <<dir, flock>>
          BY <1>0, <1>4, <3>2 DEF FileStep, Begin, AppendChunk, Finish, Verify, Retire, Unlink,
               HoldsFiles, HeldPlaces, store
        <4>2. dir[b] = "ok"
          BY <1>0, <4>1, ReleasesAssumption DEF ArtifactInv
        <4> QED BY <1>0, <1>1, <4>1, <4>2 DEF ArtifactInv
      <3> QED BY <3>1, <3>2
    <2>5. cleaned'[b] = "ok" => payload'[b] = "none"
      <3>1. CASE Unlink(w)
        BY <1>0, <1>4, <3>1 DEF Unlink, StoreTypes
      <3>2. CASE Begin(w) \/ AppendChunk(w)
        <4>1. cleaned[b] = "none" /\ UNCHANGED cleaned
          BY <1>0, <1>4, <3>2 DEF Begin, AppendChunk, NotRetired, WorkerInv, KnowsFiles, Allocated
        <4> QED BY <4>1
      <3>3. CASE ~(Unlink(w) \/ Begin(w) \/ AppendChunk(w))
        <4>1. UNCHANGED <<cleaned, payload>>
          BY <3>3 DEF FileStep, FileLock, Finish, Verify, Retire, store
        <4> QED BY <1>0, <4>1 DEF ArtifactInv
      <3> QED BY <3>1, <3>2, <3>3
    <2>6. \A o \in Ops : ArtOf(o) = b /\ phase[o] = "cleaned" /\ RetiresBytes(o) =>
             cleaned'[b] = "ok"
      BY <1>0, <2>2 DEF ArtifactInv
    <2> QED BY <1>1, <1>2, <2>1, <2>3, <2>4, <2>5, <2>6 DEF ArtifactInv
  <1> QED BY <1>3, <1>4

(* The rest: locks are given back, downloads take theirs. *)
LEMMA ArtifactOther ==
  ASSUME ReleasesInv, NEW a \in Arts,
         \/ \E w \in Workers : BeginRequest(w) \/ OwnerStep(w)
         \/ IdleSession \/ \E d \in Readers : ReaderStep(d)
  PROVE  ArtifactInv(a)'
  <1>0. Types /\ LockTypes /\ ReaderTypes /\ ArtifactInv(a)
    BY TypesParts DEF ReleasesInv
  <1>1. /\ UNCHANGED <<phase, decision, live, store>>
        /\ flock'[a] = flock[a] \/ flock'[a] = NoOne
    <2>1. ASSUME NEW w \in Workers, OwnerStep(w)
          PROVE  UNCHANGED <<phase, decision, live, store>> /\ flock'[a] \in {flock[a], NoOne}
      BY <1>0, <2>1, OwnerGoes DEF journal, Released
    <2>2. ASSUME NEW w \in Workers, BeginRequest(w)
          PROVE  UNCHANGED <<phase, decision, live, store, flock>>
      BY <2>2 DEF BeginRequest, Acquire, journal
    <2>3. ASSUME IdleSession \/ \E d \in Readers : ReaderStep(d)
          PROVE  UNCHANGED <<phase, decision, live, store, flock>>
      BY <2>3 DEF IdleSession, AcquireUnconfirmed, SessionEnds, ReaderStep, ReadStart, ReadLock,
           ReadSend, ReadEnd, journal
    <2> QED BY <2>1, <2>2, <2>3
  <1>2. /\ Verified(a)' <=> Verified(a)
        /\ \A o \in Ops : ArtOf(o)' = ArtOf(o)
    BY <1>1 DEF Verified, NotRetired, store, ArtOf, BornFrom
  <1>3. \A o \in Ops : RetiresBytes(o)' <=> RetiresBytes(o)
    BY <1>1, <1>2 DEF RetiresBytes, Owned
  <1>4. Reading(a)' => Verified(a) /\ flock'[a] = NoOne
    <2>1. CASE Reading(a)
      BY <1>0, <1>1, <2>1 DEF ArtifactInv
    <2>2. CASE ~Reading(a) /\ \E d \in Readers : ReadLock(d)
      <3>1. PICK d \in Readers : ReadLock(d)
        BY <2>2
      <3>2. PICK b \in Arts : ReleaseOf[b] = rrel[d] /\ flock[b] = NoOne /\ Verified(b)
        BY <3>1 DEF ReadLock
      <3>3. UNCHANGED <<rrel, flock>> /\ rpc' = [rpc EXCEPT ![d] = "verified"]
        BY <3>1 DEF ReadLock
      <3>4. Reading(a)' => rrel[d] = ReleaseOf[a]
        BY <1>0, <2>2, <3>3 DEF Reading, ReaderTypes
      <3>5. ReleaseOf[b] = ReleaseOf[a] => a = b
        BY ArtOfRelease
      <3> QED BY <3>2, <3>3, <3>4, <3>5
    <2>3. CASE ~Reading(a) /\ ~ \E d \in Readers : ReadLock(d)
      <3>1. ~Reading(a)'
        <4>1. ASSUME NEW d \in Readers, ReaderStep(d) PROVE ~Reading(a)'
          BY <1>0, <2>3, <4>1 DEF ReaderStep, ReadStart, ReadSend, ReadEnd, Reading, ReaderTypes
        <4>2. ASSUME NEW w \in Workers, OwnerStep(w) PROVE ~Reading(a)'
          BY <1>0, <2>3, <4>2, OwnerGoes DEF Reading, readers
        <4>3. ASSUME NEW w \in Workers, BeginRequest(w) PROVE ~Reading(a)'
          BY <2>3, <4>3 DEF BeginRequest, Acquire, Reading, readers
        <4>4. ASSUME IdleSession PROVE ~Reading(a)'
          BY <2>3, <4>4 DEF IdleSession, AcquireUnconfirmed, SessionEnds, Reading, readers
        <4> QED BY <4>1, <4>2, <4>3, <4>4
      <3> QED BY <3>1
    <2> QED BY <2>1, <2>2, <2>3
  <1> QED BY <1>0, <1>1, <1>2, <1>3, <1>4 DEF ArtifactInv, store

-----------------------------------------------------------------------------
(* The budget *)

(* Only a reservation within the budget is charged anew. *)
LEMMA ChargedAnew ==
  ASSUME JournalInv, JournalInv', Forward, NEW o \in Ops, JournalMove(o), JournalTypes,
         NEW a \in Arts, Charged(a)', ~Charged(a)
  PROVE  a = o /\ MayPublish(o)
  <1>0. a \in Ops /\ KindOf[a] = "publish"
    BY ArtOfRelease
  <1>1. phase'[a] \notin {"none", "cleaned"}
    BY DEF Charged
  <1>2. CASE phase[a] = "none"
    <2>1. a = o
      BY <1>0, <1>1, <1>2 DEF JournalMove, PhaseSet, JournalTypes
    <2> QED BY <1>0, <1>1, <1>2, <2>1 DEF JournalMove, Undecided, Pending, Cleanable
  <1>3. CASE phase[a] = "cleaned"
    BY <1>0, <1>1, <1>3 DEF Forward
  <1>4. CASE phase[a] \notin {"none", "cleaned"}
    <2>1. PICK d \in Ops : /\ KindOf[d] = "delete" /\ ReleaseOf[d] = ReleaseOf[a]
                           /\ phase[d] = "cleaned" /\ decision[d] = "deleted"
                           /\ decision[a] = "published"
      BY <1>4 DEF Charged
    <2>2. phase'[d] = "cleaned" /\ decision'[d] = "deleted" /\ decision'[a] = "published"
      BY <1>0, <2>1 DEF Forward
    <2>3. Deleted(ReleaseOf[a])'
      BY <2>1, <2>2 DEF Deleted
    <2>4. phase'[a] = "decided" /\ ReleaseOf[a] \notin live'
      BY <1>0, <1>1, <2>2, <2>3 DEF JournalInv, JournalAt
    <2>5. ~Charged(a)'
      BY <2>1, <2>2, <2>4 DEF Charged
    <2> QED BY <2>5
  <1> QED BY <1>2, <1>3, <1>4

(* What is charged stays finite and within the budget. *)
LEMMA BudgetStep ==
  ASSUME ReleasesInv, Next
  PROVE  BudgetInv'
  <1>0. /\ Forward /\ JournalInv' /\ JournalInv /\ JournalTypes
        /\ UNCHANGED <<phase, decision, live>> \/ \E w \in Workers : Phase(w)
        /\ IsFiniteSet(ChargedArts) /\ Cardinality(ChargedArts) <= Budget
    BY StepForward, TypesParts DEF ReleasesInv, BudgetInv
  <1>1. CASE UNCHANGED <<phase, decision, live>>
    <2>1. ChargedArts' = ChargedArts
      BY <1>1 DEF ChargedArts, Charged
    <2> QED BY <1>0, <2>1 DEF BudgetInv
  <1>2. ASSUME NEW w \in Workers, Phase(w) PROVE BudgetInv'
    <2>1. PICK o \in Ops : JournalMove(o)
      BY <1>2, PhaseMoves
    <2>2. \A a \in Arts : Charged(a)' /\ ~Charged(a) => a = o /\ MayPublish(o)
      BY <1>0, <2>1, ChargedAnew
    <2>3. Cardinality(ChargedArts) \in Nat /\ Budget \in Nat
      BY <1>0, FS_CardinalityType, ReleasesAssumption
    <2>4. CASE ChargedArts' \subseteq ChargedArts
      <3>1. IsFiniteSet(ChargedArts') /\ Cardinality(ChargedArts') <= Cardinality(ChargedArts)
        BY <1>0, <2>4, FS_Subset
      <3>2. Cardinality(ChargedArts') \in Nat
        BY <3>1, FS_CardinalityType
      <3> QED BY <1>0, <2>3, <3>1, <3>2 DEF BudgetInv
    <2>5. CASE ~(ChargedArts' \subseteq ChargedArts)
      <3>1. o \in Arts /\ MayPublish(o) /\ ChargedArts' \subseteq ChargedArts \cup {o}
        BY <2>2, <2>5 DEF ChargedArts
      <3>2. /\ IsFiniteSet(ChargedArts \cup {o})
            /\ Cardinality(ChargedArts \cup {o}) <= Cardinality(ChargedArts) + 1
        <4>1. /\ IsFiniteSet(ChargedArts \cup {o})
              /\ Cardinality(ChargedArts \cup {o}) =
                   IF o \in ChargedArts THEN Cardinality(ChargedArts) ELSE Cardinality(ChargedArts) + 1
          BY <1>0, FS_AddElement
        <4>2. CASE o \in ChargedArts
          BY <2>3, <4>1, <4>2
        <4>3. CASE o \notin ChargedArts
          BY <2>3, <4>1, <4>3
        <4> QED BY <4>2, <4>3
      <3>3. /\ IsFiniteSet(ChargedArts')
            /\ Cardinality(ChargedArts') <= Cardinality(ChargedArts \cup {o})
        BY <3>1, <3>2, FS_Subset
      <3>4. Cardinality(ChargedArts') \in Nat /\ Cardinality(ChargedArts \cup {o}) \in Nat
        BY <3>2, <3>3, FS_CardinalityType
      <3>5. Cardinality(ChargedArts) + 1 <= Budget
        BY <3>1 DEF MayPublish
      <3> QED BY <2>3, <3>2, <3>3, <3>4, <3>5 DEF BudgetInv
    <2> QED BY <2>4, <2>5
  <1> QED BY <1>0, <1>1, <1>2

-----------------------------------------------------------------------------
(* The inductive invariant of the release lifecycle: the journal, the      *)
(* catalogue, the files, the readers and what every request believes,      *)
(* with or without its session, agree.                                     *)
THEOREM ReleasesInvariant == Spec => []ReleasesInv
  <1>1. Init => ReleasesInv
    <2> SUFFICES ASSUME Init PROVE ReleasesInv
      OBVIOUS
    <2>1. Types /\ JournalInv
      BY TypesInit, JournalInit
    <2>2. \A w \in Workers : WorkerInv(w)
      BY IdleWorker DEF Init
    <2>3. \A a \in Arts : ArtifactInv(a)
      BY DEF Init, ArtifactInv, Reading, Arts
    <2>4. BudgetInv
      <3>1. ChargedArts = {}
        BY DEF Init, ChargedArts, Charged, Arts
      <3> QED BY <3>1, FS_EmptySet, ReleasesAssumption DEF BudgetInv
    <2> QED BY <2>1, <2>2, <2>3, <2>4 DEF ReleasesInv
  <1>2. ASSUME ReleasesInv, Next PROVE ReleasesInv'
    <2>1. Types' /\ Forward /\ JournalInv' /\ BudgetInv'
      BY <1>2, TypesStep, StepForward, BudgetStep
    <2>2. \A q \in Workers : WorkerInv(q)'
      BY <1>2, <2>1, NextCases, WorkersPhase, WorkersFiles, WorkersOther
    <2>3. \A a \in Arts : ArtifactInv(a)'
      BY <1>2, <2>1, NextCases, ArtifactPhase, ArtifactFiles, ArtifactOther
    <2>4. Arts' = Arts
      BY DEF Arts
    <2> QED BY <2>1, <2>2, <2>3, <2>4 DEF ReleasesInv
  <1>3. ASSUME ReleasesInv, UNCHANGED vars PROVE ReleasesInv'
    <2>1. Types'
      BY <1>3 DEF ReleasesInv, Types, TypeOK, vars
    <2>2. JournalInv'
      BY <1>3, JournalSame DEF ReleasesInv, vars
    <2>3. \A w \in Workers : WorkerInv(w)'
      BY <1>3 DEF ReleasesInv, vars, WorkerInv, ActFits, HoldsFiles, KnowsJournal, KnowsFiles,
           Doomed, RetiresBytes, Owned, ArtOf, BornFrom, Allocated, Verified, NotRetired
    <2>4. \A a \in Arts : ArtifactInv(a)'
      BY <1>3 DEF ReleasesInv, vars, ArtifactInv, Reading, RetiresBytes, Owned, ArtOf, BornFrom,
           Verified, NotRetired
    <2>5. BudgetInv'
      BY <1>3 DEF ReleasesInv, vars, BudgetInv, ChargedArts, Charged
    <2> QED BY <2>1, <2>2, <2>3, <2>4, <2>5 DEF ReleasesInv
  <1> QED BY <1>1, <1>2, <1>3, PTL DEF Spec

(* Types; and a file lock is held only by a request that is on its way:    *)
(* every way out of _execute_owned closes the files first.                 *)
THEOREM ReleasesTypeCorrect == Spec => []TypeOK
  <1>1. ReleasesInv => TypeOK
    BY DEF ReleasesInv, Types
  <1> QED BY <1>1, ReleasesInvariant, PTL

(* A release in the catalogue has its binary, whole and not retired,       *)
(* whatever a request that lost its session or its answer still does.      *)
THEOREM LiveReleasesHaveBytes == Spec => []LiveHasBytes
  <1>1. ReleasesInv => LiveHasBytes
    BY DEF ReleasesInv, ArtifactInv, LiveHasBytes, Verified
  <1> QED BY <1>1, ReleasesInvariant, PTL

(* Every binary on disk, partial ones too, is charged until its cleanup is *)
(* recorded, and concurrent reservations do not overrun the budget.        *)
THEOREM BytesAreCharged == Spec => []BytesAccounted
  <1>1. ASSUME ReleasesInv PROVE BytesAccounted
    <2>1. ASSUME NEW a \in Arts, payload[a] # "none" PROVE Charged(a)
      <3>1. /\ ArtifactInv(a) /\ a \in Ops /\ ArtOf(a) = a /\ KindOf[a] = "publish"
            /\ \A o \in Ops : ReleaseOf[o] = ReleaseOf[a] <=> ArtOf(o) = a
        BY <1>1, ArtOfRelease DEF ReleasesInv
      <3>2. phase[a] # "none" /\ cleaned[a] # "ok"
        BY <2>1, <3>1 DEF ArtifactInv
      <3>3. phase[a] # "cleaned"
        BY <3>1, <3>2 DEF ArtifactInv, RetiresBytes, Owned
      <3>4. ASSUME NEW d \in Ops, KindOf[d] = "delete", ReleaseOf[d] = ReleaseOf[a],
                   phase[d] = "cleaned", decision[d] = "deleted"
            PROVE  FALSE
        BY <3>1, <3>2, <3>4 DEF ArtifactInv, RetiresBytes, Owned
      <3> QED BY <3>2, <3>3, <3>4 DEF Charged
    <2> QED BY <1>1, <2>1 DEF ReleasesInv, BudgetInv, BytesAccounted
  <1> QED BY <1>1, ReleasesInvariant, PTL

(* The catalogue is what the journal says, at every moment: _publish and   *)
(* _delete change both in one transaction.                                 *)
THEOREM CatalogueIsTheJournal == Spec => []CatalogueMatchesJournal
  <1>1. ASSUME ReleasesInv PROVE CatalogueMatchesJournal
    <2>1. JournalInv
      BY <1>1 DEF ReleasesInv
    <2>2. ASSUME NEW r \in live
          PROVE  /\ \E o \in Ops : KindOf[o] = "publish" /\ decision[o] = "published" /\ ReleaseOf[o] = r
                 /\ ~Deleted(r)
      BY <2>1 DEF JournalInv, JournalAt
    <2>3. ASSUME NEW o \in Ops, KindOf[o] = "publish", decision[o] = "published",
                 ~Deleted(ReleaseOf[o])
          PROVE  ReleaseOf[o] \in live
      BY <2>1, <2>3 DEF JournalInv, JournalAt
    <2>4. ASSUME NEW r
          PROVE  r \in live <=>
                   /\ r \in {ReleaseOf[o] : o \in {p \in Ops : KindOf[p] = "publish" /\ decision[p] = "published"}}
                   /\ r \notin {ReleaseOf[o] : o \in {p \in Ops : decision[p] = "deleted"}}
      <3>1. Deleted(r) <=> r \in {ReleaseOf[o] : o \in {p \in Ops : decision[p] = "deleted"}}
        BY DEF Deleted
      <3> QED BY <2>2, <2>3, <3>1
    <2> QED BY <2>4 DEF CatalogueMatchesJournal
  <1> QED BY <1>1, ReleasesInvariant, PTL

(* Cleanup is recorded only of bytes that are gone, and they stay gone.    *)
THEOREM CleanedBytesAreGone == Spec => []CleanedMeansGone
  <1>1. ReleasesInv => CleanedMeansGone
    BY DEF ReleasesInv, ArtifactInv, CleanedMeansGone, RetiresBytes, Owned
  <1> QED BY <1>1, ReleasesInvariant, PTL

(* The bytes of a download that ManagedReleaseResponse verified are        *)
(* neither retired nor removed under it.                                   *)
THEOREM DeliveriesAreWhole == Spec => []DeliveryIsWhole
  <1>1. ReleasesInv => DeliveryIsWhole
    BY DEF ReleasesInv, ArtifactInv, DeliveryIsWhole, Reading
  <1> QED BY <1>1, ReleasesInvariant, PTL

(* No request, not even one whose commit or session was lost, takes back a *)
(* decision or a phase of the journal.                                     *)
THEOREM JournalOnlyAdvances == Spec => DecisionsFinal
  <1>1. ASSUME ReleasesInv, [Next]_vars
        PROVE  [\A o \in Ops : /\ decision[o] # "none" => decision'[o] = decision[o]
                               /\ Rank[phase[o]] <= Rank[phase'[o]]]_vars
    <2>1. CASE Next
      BY <1>1, <2>1, StepForward DEF Forward
    <2>2. CASE UNCHANGED vars
      BY <2>2
    <2> QED BY <1>1, <2>1, <2>2
  <1> QED BY <1>1, ReleasesInvariant, PTL DEF Spec, DecisionsFinal

-----------------------------------------------------------------------------
(* The abstract specification *)

(* A download is of a release that was published. *)
ReaderInv ==
    \A d \in Readers, a \in Arts :
        rpc[d] # "idle" /\ rrel[d] = ReleaseOf[a] => decision[a] = "published"

(* It was when the download began, and decisions are final. *)
LEMMA ReaderInvStep ==
  ASSUME ReleasesInv, ReaderInv, [Next]_vars
  PROVE  ReaderInv'
  <1>0. ReaderTypes /\ \A a \in Arts : a \in Ops /\ decision[a] = "published" => decision'[a] = "published"
    <2>1. ReaderTypes
      BY TypesParts DEF ReleasesInv
    <2>2. CASE Next
      BY <2>1, <2>2, StepForward DEF Forward
    <2>3. CASE UNCHANGED vars
      BY <2>1, <2>3 DEF vars
    <2> QED BY <2>2, <2>3
  <1>1. \A a \in Arts : a \in Ops /\ (decision[a] = "published" => decision'[a] = "published")
    BY <1>0, ArtOfRelease
  <1>2. ASSUME UNCHANGED readers PROVE ReaderInv'
    BY <1>1, <1>2 DEF ReaderInv, readers, Arts
  <1>3. ASSUME NEW d \in Readers, NEW r \in Releases, ReadStart(d, r) PROVE ReaderInv'
    <2>1. ASSUME NEW a \in Arts, ReleaseOf[a] = r PROVE decision[a] = "published"
      <3>1. PICK o \in Arts : ReleaseOf[o] = r /\ decision[o] = "published"
        BY <1>3 DEF ReadStart, Deliverable
      <3>2. o = a
        BY <2>1, <3>1, ArtOfRelease
      <3> QED BY <3>1, <3>2
    <2>2. rpc' = [rpc EXCEPT ![d] = "observed"] /\ rrel' = [rrel EXCEPT ![d] = r]
      BY <1>3 DEF ReadStart
    <2> QED BY <1>0, <1>1, <2>1, <2>2 DEF ReaderInv, ReaderTypes, Arts
  <1>4. ASSUME NEW d \in Readers, ReadLock(d) \/ ReadSend(d) \/ ReadEnd(d) PROVE ReaderInv'
    <2>1. /\ \A u \in Readers : u # d => rpc'[u] = rpc[u] /\ rrel'[u] = rrel[u]
          /\ rpc'[d] # "idle" => rpc[d] # "idle" /\ rrel'[d] = rrel[d]
      BY <1>0, <1>4 DEF ReadLock, ReadSend, ReadEnd, ReaderTypes
    <2> QED BY <1>1, <2>1 DEF ReaderInv, Arts
  <1>5. CASE UNCHANGED vars
    BY <1>2, <1>5 DEF vars, readers
  <1>6. CASE \E w \in Workers : BeginRequest(w) \/ Phase(w) \/ FileStep(w) \/ OwnerStep(w)
    <2>1. UNCHANGED readers
      BY <1>6, PhaseGoes, FileStepGoes, OwnerGoes DEF BeginRequest, Acquire, ReleasesInv, WorkerInv
    <2> QED BY <1>2, <2>1
  <1>7. CASE IdleSession
    BY <1>2, <1>7 DEF IdleSession, AcquireUnconfirmed, SessionEnds
  <1> QED BY <1>3, <1>4, <1>5, <1>6, <1>7, NextCases DEF ReaderStep

ShelfStep == Shelf!Next \/ UNCHANGED <<shelfBar, bytesBar, takenBar>>

(* What the shelf shows depends on the journal, the files or the downloads. *)
LEMMA ShelfDepends ==
  /\ UNCHANGED <<decision, live>> => UNCHANGED shelfBar
  /\ UNCHANGED <<payload, retired>> => UNCHANGED bytesBar
  /\ UNCHANGED readers => UNCHANGED takenBar
  BY DEF shelfBar, bytesBar, takenBar, readers, Arts

(* One binary changes its place on the shelf. *)
LEMMA ShelfMoves ==
  ASSUME NEW a \in Arts, NEW x, shelfBar'[a] = x,
         \A b \in Arts \ {a} : shelfBar'[b] = shelfBar[b]
  PROVE  shelfBar' = [shelfBar EXCEPT ![a] = x]
  <1>1. /\ shelfBar = [b \in Arts |-> shelfBar[b]]
        /\ shelfBar' = [b \in Arts |-> shelfBar'[b]]
    BY DEF shelfBar, Arts
  <1> QED BY <1>1

(* One binary's bytes change. *)
LEMMA BytesMove ==
  ASSUME NEW a \in Arts, NEW x, bytesBar'[a] = x,
         \A b \in Arts \ {a} : payload'[b] = payload[b] /\ retired'[b] = retired[b]
  PROVE  bytesBar' = [bytesBar EXCEPT ![a] = x]
  <1>1. /\ bytesBar = [b \in Arts |-> bytesBar[b]]
        /\ bytesBar' = [b \in Arts |-> bytesBar'[b]]
        /\ \A b \in Arts \ {a} : bytesBar'[b] = bytesBar[b]
    BY DEF bytesBar, Arts
  <1> QED BY <1>1

(* A transaction that publishes offers, one that cancels a publication or  *)
(* deletes a release withdraws; operations without a stored binary and the *)
(* other transactions do not show.                                         *)
LEMMA ShelfPhase ==
  ASSUME ReleasesInv, NEW w \in Workers, Phase(w)
  PROVE  ShelfStep
  <1>0. /\ JournalTypes /\ UNCHANGED <<bytesBar, takenBar>>
    BY TypesParts, PhaseGoes, ShelfDepends DEF ReleasesInv, WorkerInv, store
  <1>1. PICK o \in Ops : JournalMove(o)
    BY PhaseMoves
  <1>2. JournalAt(o) /\ JournalAt(ArtOf(o)) /\ ArtOf(o) \in Ops
    BY ArtFacts DEF ReleasesInv, JournalInv
  <1>3. \A b \in Arts : /\ b \in Ops /\ KindOf[b] = "publish"
                        /\ ReleaseOf[b] = ReleaseOf[o] <=> ArtOf(o) = b
    BY ArtOfRelease
  <1>4. CASE UNCHANGED <<decision, live>>
    BY <1>0, <1>4, ShelfDepends DEF ShelfStep
  <1>5. CASE /\ Undecided(o) /\ (Owned(o) => phase[o] = "prepared") /\ KindOf[o] = "publish"
             /\ DecisionSet(o, "published") /\ live' = live \cup {ReleaseOf[o]}
    <2>0. ArtOf(o) = o /\ decision[o] = "none" /\ ReleaseOf[o] \notin live
      BY <1>2, <1>5, PublicationIsArt DEF JournalAt, Undecided, Pending
    <2>1. \A b \in Arts \ {o} : shelfBar'[b] = shelfBar[b]
      BY <1>0, <1>3, <1>5, <2>0 DEF shelfBar, DecisionSet, JournalTypes, Arts
    <2>2. CASE o \in Arts
      <3>1. Verified(o)
        BY <1>5, <2>0, <2>2 DEF Owned, ReleasesInv, ArtifactInv
      <3>2. shelfBar[o] = "absent" /\ bytesBar[o] = "full"
        BY <2>0, <2>2, <3>1 DEF shelfBar, bytesBar, Verified
      <3>3. shelfBar'[o] = "offered"
        BY <1>5, <2>2 DEF shelfBar, Arts
      <3>4. Shelf!Offer(o)
        BY <1>0, <2>1, <2>2, <3>2, <3>3, ShelfMoves DEF Shelf!Offer
      <3> QED BY <2>2, <3>4 DEF ShelfStep, Shelf!Next
    <2>3. CASE o \notin Arts
      <3>1. UNCHANGED shelfBar
        BY <2>1, <2>3 DEF shelfBar, Arts
      <3> QED BY <1>0, <3>1 DEF ShelfStep
    <2> QED BY <2>2, <2>3
  <1>6. CASE Pending(o) /\ DecisionSet(o, "cancelled") /\ UNCHANGED live
    <2>0. decision[o] = "none"
      BY <1>2, <1>6 DEF JournalAt, Pending
    <2>1. \A b \in Arts \ {o} : shelfBar'[b] = shelfBar[b]
      BY <1>0, <1>3, <1>6 DEF shelfBar, DecisionSet, JournalTypes, Arts
    <2>2. CASE o \in Arts
      <3>1. ReleaseOf[o] \notin live
        BY <1>2, <1>3, <2>0, <2>2 DEF JournalAt
      <3>2. shelfBar[o] = "absent" /\ shelfBar'[o] = "withdrawn"
        BY <1>0, <1>6, <2>0, <2>2, <3>1 DEF shelfBar, DecisionSet, JournalTypes, Arts
      <3>3. Shelf!Withdraw(o)
        BY <1>0, <2>1, <2>2, <3>2, ShelfMoves DEF Shelf!Withdraw
      <3> QED BY <2>2, <3>3 DEF ShelfStep, Shelf!Next
    <2>3. CASE o \notin Arts
      <3>1. UNCHANGED shelfBar
        BY <2>1, <2>3 DEF shelfBar, Arts
      <3> QED BY <1>0, <3>1 DEF ShelfStep
    <2> QED BY <2>2, <2>3
  <1>7. CASE /\ Pending(o) /\ DecisionSet(o, "deleted") /\ KindOf[o] = "delete"
             /\ ReleaseOf[o] \in live /\ live' = live \ {ReleaseOf[o]}
    <2>0. decision[ArtOf(o)] = "published"
      BY <1>2, <1>7 DEF JournalAt, Pending
    <2>1. \A b \in Arts \ {ArtOf(o)} : shelfBar'[b] = shelfBar[b]
      BY <1>0, <1>3, <1>7 DEF shelfBar, DecisionSet, JournalTypes, Arts
    <2>2. CASE ArtOf(o) \in Arts
      <3>1. shelfBar[ArtOf(o)] = "offered" /\ shelfBar'[ArtOf(o)] = "withdrawn"
        BY <1>0, <1>3, <1>7, <2>0, <2>2 DEF shelfBar, DecisionSet, JournalTypes, Arts
      <3>2. Shelf!Withdraw(ArtOf(o))
        BY <1>0, <2>1, <2>2, <3>1, ShelfMoves DEF Shelf!Withdraw
      <3> QED BY <2>2, <3>2 DEF ShelfStep, Shelf!Next
    <2>3. CASE ArtOf(o) \notin Arts
      <3>1. UNCHANGED shelfBar
        BY <2>1, <2>3 DEF shelfBar, Arts
      <3> QED BY <1>0, <3>1 DEF ShelfStep
    <2> QED BY <2>2, <2>3
  <1> QED BY <1>1, <1>4, <1>5, <1>6, <1>7 DEF JournalMove

(* What a cleanup may take is withdrawn, and nobody reads it. *)
LEMMA ShelfErasable ==
  ASSUME ReleasesInv, NEW w \in Workers, FileStep(w), pc[w] \in {"retire", "unlink"},
         NEW a, a = ArtOf(op[w])
  PROVE  shelfBar[a] = "withdrawn" /\ \A d \in Readers : <<d, a>> \notin takenBar
  <1>1. a \in Arts /\ a \in Ops /\ op[w] \in Ops /\ ArtOf(a) = a /\ ~Reading(a)
    BY HeldIsUnread, ArtOfRelease, TypesParts, WorkerFacts DEF ReleasesInv
  <1>2. Doomed(op[w]) /\ JournalAt(op[w])
    BY <1>1 DEF ReleasesInv, WorkerInv, ActFits, KnowsJournal, HeldPlaces, JournalInv
  <1>3. ReleaseOf[a] \notin live
    BY <1>1, <1>2, DoomedIsDead, ArtFacts DEF ReleasesInv
  <1>4. decision[a] # "none"
    <2>1. CASE KindOf[op[w]] = "publish"
      BY <1>1, <1>2, <2>1, PublicationIsArt DEF Doomed
    <2>2. CASE KindOf[op[w]] = "delete"
      BY <1>1, <1>2, <2>2 DEF Doomed, JournalAt
    <2> QED BY <1>1, <2>1, <2>2, ReleasesAssumption
  <1>5. shelfBar[a] = "withdrawn"
    BY <1>1, <1>3, <1>4 DEF shelfBar
  <1>6. \A d \in Readers : <<d, a>> \notin takenBar
    BY <1>1 DEF takenBar, Reading
  <1> QED BY <1>5, <1>6

(* Begin and AppendChunk write, under the directory's lock and only what   *)
(* is not offered; Retire of an empty directory and Unlink erase.          *)
LEMMA ShelfFiles ==
  ASSUME ReleasesInv, NEW w \in Workers, FileStep(w)
  PROVE  ShelfStep
  <1>0. PICK a : a = ArtOf(op[w])
    OBVIOUS
  <1>1. /\ a \in Arts /\ a \in Ops /\ StoreTypes /\ OtherFilesSame(a) /\ ArtifactInv(a) /\ KnowsFiles(w)
        /\ UNCHANGED <<journal, live, readers>>
    BY <1>0, FileStepGoes, ArtOfRelease, TypesParts DEF ReleasesInv, WorkerInv
  <1>2. UNCHANGED <<shelfBar, takenBar>>
    BY <1>1, ShelfDepends DEF journal
  <1>3. \A b \in Arts \ {a} : payload'[b] = payload[b] /\ retired'[b] = retired[b]
    BY <1>1 DEF OtherFilesSame
  <1>4. ASSUME ~Verified(a) PROVE shelfBar[a] # "offered"
    BY <1>1, <1>4 DEF ArtifactInv, shelfBar
  <1>5. CASE FileLock(w) \/ Finish(w) \/ Verify(w)
    BY <1>2, <1>5, ShelfDepends DEF FileLock, Finish, Verify, store, ShelfStep
  <1>6. CASE Begin(w)
    <2>1. payload[a] = "none" /\ retired[a] = "none" /\ payload'[a] = "part"
      BY <1>0, <1>1, <1>6 DEF Begin, NotRetired, StoreTypes
    <2>2. bytesBar[a] = "none" /\ bytesBar'[a] = "part" /\ shelfBar[a] # "offered"
      BY <1>1, <1>4, <2>1 DEF bytesBar, Verified, Arts
    <2>3. Shelf!Write(a, "none", "part")
      BY <1>1, <1>2, <1>3, <2>2, BytesMove DEF Shelf!Write
    <2> QED BY <1>1, <2>3 DEF ShelfStep, Shelf!Next
  <1>7. CASE AppendChunk(w)
    <2>1. Allocated(a, "part") /\ payload'[a] = "full" /\ retired' = retired
      BY <1>0, <1>1, <1>7 DEF AppendChunk, KnowsFiles, StoreTypes
    <2>2. bytesBar[a] = "part" /\ bytesBar'[a] = "full" /\ shelfBar[a] # "offered"
      BY <1>1, <1>4, <2>1 DEF bytesBar, Verified, Allocated, NotRetired, Arts
    <2>3. Shelf!Write(a, "part", "full")
      BY <1>1, <1>2, <1>3, <2>2, BytesMove DEF Shelf!Write
    <2> QED BY <1>1, <2>3 DEF ShelfStep, Shelf!Next
  <1>8. CASE Retire(w)
    <2>1. payload' = payload /\ (retired'[a] # "none" \/ retired' = retired) /\ pc[w] = "retire"
      BY <1>0, <1>1, <1>8 DEF Retire, StoreTypes
    <2>2. CASE retired' = retired
      BY <1>2, <2>1, <2>2, ShelfDepends DEF ShelfStep
    <2>3. CASE payload[a] # "none"
      <3>1. bytesBar'[a] = bytesBar[a]
        BY <1>1, <2>1, <2>3 DEF bytesBar, Arts
      <3>2. bytesBar' = [bytesBar EXCEPT ![a] = bytesBar[a]]
        BY <1>1, <1>3, <3>1, BytesMove
      <3>3. UNCHANGED bytesBar
        BY <3>2 DEF bytesBar
      <3> QED BY <1>2, <3>3 DEF ShelfStep
    <2>4. CASE retired'[a] # "none" /\ payload[a] = "none"
      <3>1. bytesBar'[a] = "gone"
        BY <1>1, <2>1, <2>4 DEF bytesBar, Arts
      <3>2. shelfBar[a] = "withdrawn" /\ \A d \in Readers : <<d, a>> \notin takenBar
        BY <1>0, <2>1, ShelfErasable
      <3>3. Shelf!Erase(a)
        BY <1>1, <1>2, <1>3, <3>1, <3>2, BytesMove DEF Shelf!Erase
      <3> QED BY <1>1, <3>3 DEF ShelfStep, Shelf!Next
    <2> QED BY <2>1, <2>2, <2>3, <2>4
  <1>9. CASE Unlink(w)
    <2>1. payload'[a] = "none" /\ retired'[a] = "ok" /\ pc[w] = "unlink"
      BY <1>0, <1>1, <1>9 DEF Unlink, StoreTypes
    <2>2. bytesBar'[a] = "gone"
      BY <1>1, <2>1 DEF bytesBar, Arts
    <2>3. shelfBar[a] = "withdrawn" /\ \A d \in Readers : <<d, a>> \notin takenBar
      BY <1>0, <2>1, ShelfErasable
    <2>4. Shelf!Erase(a)
      BY <1>1, <1>2, <1>3, <2>2, <2>3, BytesMove DEF Shelf!Erase
    <2> QED BY <1>1, <2>4 DEF ShelfStep, Shelf!Next
  <1> QED BY <1>5, <1>6, <1>7, <1>8, <1>9 DEF FileStep

(* A download takes a binary it found whole, and gives it back. *)
LEMMA ShelfReaders ==
  ASSUME ReleasesInv, ReaderInv, NEW d \in Readers, ReaderStep(d)
  PROVE  ShelfStep
  <1>0. ReaderTypes /\ UNCHANGED <<shelfBar, bytesBar>>
    <2>1. UNCHANGED <<journal, live, store>>
      BY DEF ReaderStep, ReadStart, ReadLock, ReadSend, ReadEnd
    <2> QED BY <2>1, ShelfDepends, TypesParts DEF ReleasesInv, journal, store
  <1>1. CASE \E r \in Releases : ReadStart(d, r)
    <2>1. UNCHANGED takenBar
      BY <1>0, <1>1 DEF ReadStart, takenBar, ReaderTypes, Arts
    <2> QED BY <1>0, <2>1 DEF ShelfStep
  <1>2. CASE ReadSend(d)
    <2>1. UNCHANGED takenBar
      BY <1>0, <1>2 DEF ReadSend, takenBar, ReaderTypes, Arts
    <2> QED BY <1>0, <2>1 DEF ShelfStep
  <1>3. CASE ReadEnd(d)
    <2>1. takenBar' = {t \in takenBar : t[1] # d}
      BY <1>0, <1>3 DEF ReadEnd, takenBar, ReaderTypes, Arts
    <2> QED BY <1>0, <2>1 DEF ShelfStep, Shelf!Next, Shelf!Return
  <1>4. CASE ReadLock(d)
    <2>1. PICK a \in Arts : ReleaseOf[a] = rrel[d] /\ Verified(a)
      BY <1>4 DEF ReadLock
    <2>2. decision[a] = "published"
      BY <1>4, <2>1 DEF ReadLock, ReaderInv
    <2>3. bytesBar[a] = "full" /\ shelfBar[a] # "absent"
      BY <2>1, <2>2 DEF bytesBar, shelfBar, Verified
    <2>4. \A b \in Arts : ReleaseOf[b] = rrel[d] => b = a
      BY <2>1, ArtOfRelease
    <2>5. takenBar' = takenBar \cup {<<d, a>>}
      BY <1>0, <1>4, <2>1, <2>4 DEF ReadLock, takenBar, ReaderTypes, Arts
    <2> QED BY <1>0, <2>1, <2>3, <2>5 DEF ShelfStep, Shelf!Next, Shelf!Take
  <1> QED BY <1>1, <1>2, <1>3, <1>4 DEF ReaderStep

(* Reservation, preparation, publication, deletion, cleanup and delivery   *)
(* together keep the promise of ReleaseShelf about every stored binary.    *)
THEOREM ShelfRefinement == Spec => ImplementsShelf
  <1>1. Init => Shelf!Init
    <2> SUFFICES ASSUME Init PROVE Shelf!Init
      OBVIOUS
    <2>1. shelfBar = [a \in Arts |-> "absent"]
      BY DEF Init, shelfBar, Arts
    <2>2. bytesBar = [a \in Arts |-> "none"]
      BY DEF Init, bytesBar
    <2>3. takenBar = {}
      BY DEF Init, takenBar
    <2> QED BY <2>1, <2>2, <2>3 DEF Shelf!Init
  <1>2. Init => ReaderInv
    BY DEF Init, ReaderInv
  <1>3. ReleasesInv /\ ReaderInv /\ [Next]_vars => ShelfStep
    <2> SUFFICES ASSUME ReleasesInv, ReaderInv, [Next]_vars PROVE ShelfStep
      OBVIOUS
    <2>1. CASE (\E w \in Workers : BeginRequest(w) \/ OwnerStep(w)) \/ IdleSession \/ UNCHANGED vars
      <3>1. UNCHANGED <<journal, live, store, readers>>
        BY <2>1, OwnerGoes DEF ReleasesInv, BeginRequest, Acquire, IdleSession, AcquireUnconfirmed,
             SessionEnds, vars, journal, store, readers
      <3> QED BY <3>1, ShelfDepends DEF ShelfStep, journal, store
    <2> QED BY <2>1, ShelfPhase, ShelfFiles, ShelfReaders, NextCases
  <1> QED BY <1>1, <1>2, <1>3, ReaderInvStep, ReleasesInvariant, PTL
          DEF Spec, ImplementsShelf, Shelf!Spec, ShelfStep

-----------------------------------------------------------------------------
(* Whose the locks are *)

(* A release's lock is free, of a session that is about to end, or of the  *)
(* request that works on that release.                                     *)
LeasesOwned ==
    \A r \in Releases : lease[r] \in Workers => pc[lease[r]] # "idle" /\ ReleaseOf[op[lease[r]]] = r

(* A request takes one lock, when it begins, and every way out of it gives *)
(* that up.                                                                *)
LEMMA LeasesOwnedStep ==
  ASSUME ReleasesInv, LeasesOwned, [Next]_vars
  PROVE  LeasesOwned'
  <1>0. LockTypes /\ WorkerTypes /\ NoOne \notin Workers /\ Lost \notin Workers
    BY TypesParts, ReleasesAssumption DEF ReleasesInv
  <1>1. ASSUME NEW w \in Workers, NEW o \in Ops, NEW a \in Requests(o), Acquire(w, o, a)
        PROVE  LeasesOwned'
    <2>1. ReleaseOf[o] \in Releases /\ FirstPlace(o, a) # "idle"
      BY ArtFacts, FirstPlaceType
    <2>2. /\ lease' = [lease EXCEPT ![ReleaseOf[o]] = w] /\ op' = [op EXCEPT ![w] = o]
          /\ pc' = [pc EXCEPT ![w] = FirstPlace(o, a)] /\ pc[w] = "idle"
      BY <1>1 DEF Acquire, Goto
    <2> QED BY <1>0, <2>1, <2>2 DEF LeasesOwned, LockTypes, WorkerTypes
  <1>2. ASSUME NEW w \in Workers, Phase(w) \/ FileStep(w) PROVE LeasesOwned'
    <2>1. /\ UNCHANGED <<lease, op>>
          /\ \E place \in Places \ {"idle"} : pc' = [pc EXCEPT ![w] = place]
      BY <1>2, PhaseGoes, FileStepGoes DEF ReleasesInv, WorkerInv
    <2> QED BY <1>0, <2>1 DEF LeasesOwned, LockTypes, WorkerTypes
  <1>3. ASSUME NEW w \in Workers, Fail(w) \/ Close(w) PROVE LeasesOwned'
    BY <1>0, <1>3 DEF Fail, Close, Goto, LeasesOwned, LockTypes, WorkerTypes
  <1>4. ASSUME NEW w \in Workers, Unlock(w) \/ ConnectionLost(w) \/ Crash(w) PROVE LeasesOwned'
    <2>1. PICK l \in {NoOne, Lost} : lease' = [r \in Releases |-> IF lease[r] = w THEN l ELSE lease[r]]
      BY <1>4 DEF Unlock, ConnectionLost, Crash, Release
    <2>2. \A q \in Workers : q # w => pc'[q] = pc[q] /\ op'[q] = op[q]
      BY <1>0, <1>4 DEF Unlock, ConnectionLost, Crash, Goto, WorkerTypes
    <2> QED BY <1>0, <2>1, <2>2 DEF LeasesOwned
  <1>5. CASE IdleSession
    BY <1>0, <1>5 DEF IdleSession, AcquireUnconfirmed, SessionEnds, LeasesOwned, LockTypes
  <1>6. CASE (\E d \in Readers : ReaderStep(d)) \/ UNCHANGED vars
    <2>1. UNCHANGED <<lease, pc, op>>
      BY <1>6 DEF ReaderStep, ReadStart, ReadLock, ReadSend, ReadEnd, vars
    <2> QED BY <2>1 DEF LeasesOwned
  <1> QED BY <1>1, <1>2, <1>3, <1>4, <1>5, <1>6, NextCases DEF BeginRequest, OwnerStep

(* No advisory lock is orphaned: _execute_owned leaves none behind with a  *)
(* request that has ended or that works on another release, so that the    *)
(* deadline of a request and the end of dead sessions free every lock.     *)
THEOREM LeasesHaveOwners == Spec => []LeasesOwned
  <1>1. Init => LeasesOwned
    BY ReleasesAssumption DEF Init, LeasesOwned
  <1> QED BY <1>1, LeasesOwnedStep, ReleasesInvariant, PTL DEF Spec
=============================================================================
