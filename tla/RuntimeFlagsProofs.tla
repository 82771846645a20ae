------------------------- MODULE RuntimeFlagsProofs -------------------------
(***************************************************************************)
(* Proofs about RuntimeFlags for any number of processes and any TTL.      *)
(***************************************************************************)
EXTENDS RuntimeFlags, TLAPS

FlagsInv == TypeOK /\ NeverOpened /\ MonitorOnlyHolds

(* No process has a value at first. *)
LEMMA FlagsInvInit == Init => FlagsInv
  <1> SUFFICES ASSUME Init PROVE FlagsInv
    OBVIOUS
  <1>1. up \in BOOLEAN /\ opened \in BOOLEAN /\ early \in BOOLEAN
    BY DEF Init
  <1>2. left \in [Procs -> 0..TTL]
    BY FlagsAssumption DEF Init
  <1>3. TypeOK
    BY <1>1, <1>2 DEF Init, TypeOK, Override, Thread
  <1> QED BY <1>3 DEF Init, FlagsInv, NeverOpened, MonitorOnlyHolds

(* A read of Redis returns an override the key has, or none. *)
LEMMA ReadIsOverride ==
  ASSUME TypeOK
  PROVE  ReadOverride \in Override /\ ReadOverride \in {redis, "unset"}
  BY DEF TypeOK, ReadOverride, Override

(* A write is let through only for a "false", which needs an operator.     *)
LEMMA AnswerIsSafe ==
  ASSUME FlagsInv, NEW o \in Override, (EnvDefault /\ ~opened) => o # "false", Answer(o)
  PROVE  early' \in BOOLEAN /\ (EnvDefault => ~early')
  BY FlagsAssumption DEF FlagsInv, TypeOK, MonitorOnlyHolds, Answer, Effective, Override

(* The gate answers from its cache, or reads and waits. *)
LEMMA FlagsInvGate ==
  ASSUME FlagsInv, NEW p \in Procs, NEW onLoop \in BOOLEAN, Gate(p, onLoop)
  PROVE  FlagsInv'
  <1>0. UNCHANGED <<redis, up, procVars, got, setting, opened>>
    BY DEF Gate
  <1>1. early' \in BOOLEAN /\ (EnvDefault => ~early')
    <2>1. CASE UNCHANGED early
      BY <2>1 DEF FlagsInv, TypeOK, MonitorOnlyHolds
    <2>2. CASE Answer(cache[p])
      <3>1. cache[p] \in Override /\ ((EnvDefault /\ ~opened) => cache[p] # "false")
        BY DEF FlagsInv, TypeOK, NeverOpened
      <3> QED BY <2>2, <3>1, AnswerIsSafe
    <2> QED BY <2>1, <2>2 DEF Gate
  <1>2. thread' \in [Procs -> Thread]
    BY DEF Gate, FlagsInv, TypeOK, Thread
  <1>3. waited' = waited \/ waited' = [waited EXCEPT ![p] = ReadOverride]
    BY DEF Gate
  <1>4. waited' \in [Procs -> Override \cup {"none"}]
    BY <1>3, ReadIsOverride DEF FlagsInv, TypeOK
  <1>5. (EnvDefault /\ ~opened) => \A q \in Procs : waited'[q] # "false"
    BY <1>3, ReadIsOverride DEF FlagsInv, TypeOK, NeverOpened
  <1> QED BY <1>0, <1>1, <1>2, <1>4, <1>5
          DEF FlagsInv, TypeOK, NeverOpened, MonitorOnlyHolds, procVars

(* A caller that waited stores what it has read and answers with it. *)
LEMMA FlagsInvAnswers ==
  ASSUME FlagsInv, NEW p \in Procs, GateAnswers(p)
  PROVE  FlagsInv'
  <1>1. waited[p] \in Override /\ ((EnvDefault /\ ~opened) => waited[p] # "false")
    BY DEF FlagsInv, TypeOK, NeverOpened, GateAnswers
  <1>2. early' \in BOOLEAN /\ (EnvDefault => ~early')
    BY <1>1, AnswerIsSafe DEF GateAnswers
  <1>3. /\ Store(p, waited[p]) /\ waited' = [waited EXCEPT ![p] = "none"]
        /\ UNCHANGED <<redis, up, thread, got, setting, opened>>
    BY DEF GateAnswers
  <1> QED BY <1>1, <1>2, <1>3, FlagsAssumption
          DEF FlagsInv, TypeOK, NeverOpened, MonitorOnlyHolds, Store

(* The other steps of a process pass a value on unchanged. *)
LEMMA FlagsInvProc ==
  ASSUME FlagsInv, NEW p \in Procs,
         \/ ThreadReads(p) \/ ThreadStores(p) \/ SetCache(p)
         \/ \E o \in {"true", "false"} : SetOverride(p, o)
  PROVE  FlagsInv'
  <1> USE FlagsAssumption
          DEF FlagsInv, TypeOK, NeverOpened, MonitorOnlyHolds, procVars, Override, Thread
  <1>1. CASE ThreadReads(p)
    BY <1>1, ReadIsOverride DEF ThreadReads
  <1>2. CASE ThreadStores(p)
    BY <1>2 DEF ThreadStores, Store
  <1>3. CASE SetCache(p)
    BY <1>3 DEF SetCache, Store
  <1>4. ASSUME NEW o \in {"true", "false"}, SetOverride(p, o) PROVE FlagsInv'
    BY <1>4 DEF SetOverride
  <1> QED BY <1>1, <1>2, <1>3, <1>4

(* Redis and the clock. *)
LEMMA FlagsInvEnv ==
  ASSUME FlagsInv, RedisFails \/ RedisReturns \/ RedisLosesKey \/ Tick
  PROVE  FlagsInv'
  <1> USE FlagsAssumption
          DEF FlagsInv, TypeOK, NeverOpened, MonitorOnlyHolds, procVars, Override, Thread
  <1>1. CASE RedisFails
    BY <1>1 DEF RedisFails
  <1>2. CASE RedisReturns
    BY <1>2 DEF RedisReturns
  <1>3. CASE RedisLosesKey
    BY <1>3 DEF RedisLosesKey
  <1>4. CASE Tick
    BY <1>4 DEF Tick
  <1> QED BY <1>1, <1>2, <1>3, <1>4

(* The types hold, before an operator opens the gate "false" is nowhere,    *)
(* and so no write is let through before that.                              *)
THEOREM FlagsInvariant == Spec => []FlagsInv
  <1>1. FlagsInv /\ [Next]_vars => FlagsInv'
    <2> SUFFICES ASSUME FlagsInv, [Next]_vars PROVE FlagsInv'
      OBVIOUS
    <2>1. CASE Next
      BY <2>1, FlagsInvGate, FlagsInvAnswers, FlagsInvProc, FlagsInvEnv DEF Next
    <2>2. CASE UNCHANGED vars
      BY <2>2 DEF vars, FlagsInv, TypeOK, NeverOpened, MonitorOnlyHolds
    <2> QED BY <2>1, <2>2
  <1> QED BY <1>1, FlagsInvInit, PTL DEF Spec

(* Every cache, expiry, refresh thread and pending set stays in its domain.  *)
THEOREM FlagsTypeCorrect == Spec => []TypeOK
  <1>1. FlagsInv => TypeOK
    BY DEF FlagsInv
  <1> QED BY <1>1, FlagsInvariant, PTL

(* A monitor-only deployment stays closed until an operator opens it,       *)
(* whatever Redis and the caches of however many processes do.              *)
THEOREM MonitorOnlyIsSafe == Spec => []MonitorOnlyHolds
  <1>1. FlagsInv => MonitorOnlyHolds
    BY DEF FlagsInv
  <1> QED BY <1>1, FlagsInvariant, PTL

-----------------------------------------------------------------------------
(* Agreement is stable *)

(* A process agrees with the override o, and so does whatever may still be *)
(* stored in its cache: what its refresh thread or a waiting caller has    *)
(* read, and the value of a set that has reached Redis.                    *)
Settled(p, o) ==
    /\ cache[p] = o /\ primed[p]
    /\ thread[p] = "read" => got[p] = o
    /\ setting[p] \in {"unset", o}
    /\ waited[p] \in {"none", o}

(* The override and Redis stay as they are over a step. *)
Steady(o) == redis = o /\ redis' = o /\ up /\ up'

(* What reads Redis reads o. *)
LEMMA SettledProc ==
  ASSUME TypeOK, NEW p \in Procs, NEW o \in Override, Settled(p, o), Steady(o), NEW q \in Procs,
         \/ \E onLoop \in BOOLEAN : Gate(q, onLoop)
         \/ GateAnswers(q) \/ ThreadReads(q) \/ ThreadStores(q) \/ SetCache(q)
         \/ \E v \in {"true", "false"} : SetOverride(q, v)
  PROVE  Settled(p, o)'
  <1> USE DEF TypeOK, Settled, Steady, procVars, Thread
  <1>0. ReadOverride = o
    BY DEF ReadOverride
  <1>1. ASSUME NEW onLoop \in BOOLEAN, Gate(q, onLoop) PROVE Settled(p, o)'
    <2>1. UNCHANGED <<cache, primed, got, setting>>
      BY <1>1 DEF Gate
    <2>2. thread'[p] = thread[p] \/ thread'[p] = "started"
      BY <1>1 DEF Gate
    <2>3. waited'[p] = waited[p] \/ waited'[p] = o
      BY <1>0, <1>1 DEF Gate
    <2> QED BY <2>1, <2>2, <2>3
  <1>2. CASE ThreadReads(q)
    BY <1>0, <1>2 DEF ThreadReads
  <1>3. CASE ThreadStores(q)
    BY <1>3 DEF ThreadStores, Store
  <1>4. CASE SetCache(q)
    BY <1>4 DEF SetCache, Store
  <1>5. ASSUME NEW v \in {"true", "false"}, SetOverride(q, v) PROVE Settled(p, o)'
    BY <1>5 DEF SetOverride
  <1>6. CASE GateAnswers(q)
    BY <1>6 DEF GateAnswers, Store
  <1> QED BY <1>1, <1>2, <1>3, <1>4, <1>5, <1>6

(* Agreement stands: a process that has settled on the override stays so   *)
(* for as long as the override and Redis do, whichever caches expire and   *)
(* whichever refreshes and sets complete in whatever order; only a value   *)
(* read before the change can put an old one back.                         *)
THEOREM AgreementStands ==
  Spec => [][\A p \in Procs, o \in Override : Settled(p, o) /\ Steady(o) => Settled(p, o)']_vars
  <1>1. ASSUME TypeOK, [Next]_vars, NEW p \in Procs, NEW o \in Override, Settled(p, o), Steady(o)
        PROVE  Settled(p, o)'
    <2>1. CASE RedisFails \/ RedisReturns \/ RedisLosesKey
      BY <1>1, <2>1 DEF RedisFails, RedisReturns, RedisLosesKey, Steady
    <2>2. CASE Tick
      BY <1>1, <2>2 DEF Tick, Settled
    <2>3. CASE UNCHANGED vars
      BY <1>1, <2>3 DEF vars, Settled
    <2> QED BY <1>1, <2>1, <2>2, <2>3, SettledProc DEF Next
  <1>2. TypeOK /\ [Next]_vars =>
          [\A p \in Procs, o \in Override : Settled(p, o) /\ Steady(o) => Settled(p, o)']_vars
    BY <1>1
  <1> QED BY <1>2, FlagsTypeCorrect, PTL DEF Spec
=============================================================================
