---------------------------- MODULE RuntimeFlags ----------------------------
(***************************************************************************)
(* core/runtime_flags.py: the ADAPTER_READ_ONLY gate every device write    *)
(* passes.  An override in Redis is shared by all processes; each process  *)
(* caches it for TTL ticks and refreshes the cache on a background thread. *)
(* This is what the variable readOnly of AdapterStaging abstracts.         *)
(***************************************************************************)
EXTENDS Naturals

CONSTANTS
    Procs,       \* gunicorn and Celery processes
    TTL,         \* _CACHE_TTL_S, in ticks
    EnvDefault   \* settings.ADAPTER_READ_ONLY

ASSUME FlagsAssumption == TTL \in Nat \ {0} /\ EnvDefault \in BOOLEAN

Override == {"unset", "true", "false"}

VARIABLES
    redis,    \* the key freesdn:config:adapter_read_only
    up,       \* Redis answers
    cache,    \* _cache[0] of each process
    left,     \* ticks until _cache[1], the expiry
    primed,   \* _cache_primed
    thread,   \* the refresh thread (_refresh_in_flight): where it is
    got,      \* what that thread has read
    waited,   \* what a caller that waits for Redis has read, or "none"
    setting,  \* a set_adapter_read_only between Redis and its own cache
    opened,   \* ghost: an operator has ever opened the gate
    early     \* ghost: a write was let through before that

vars == <<redis, up, cache, left, primed, thread, got, waited, setting, opened,
          early>>
procVars == <<cache, left, primed>>

Thread == {"none", "started", "read"}

TypeOK ==
    /\ redis \in Override
    /\ up \in BOOLEAN
    /\ cache \in [Procs -> Override]
    /\ left \in [Procs -> 0..TTL]
    /\ primed \in [Procs -> BOOLEAN]
    /\ thread \in [Procs -> Thread]
    /\ got \in [Procs -> Override]
    /\ waited \in [Procs -> Override \cup {"none"}]
    /\ setting \in [Procs -> Override]
    /\ opened \in BOOLEAN
    /\ early \in BOOLEAN

Init ==
    /\ redis = "unset" /\ up \in BOOLEAN
    /\ cache = [p \in Procs |-> "unset"]
    /\ left = [p \in Procs |-> 0]
    /\ primed = [p \in Procs |-> FALSE]
    /\ thread = [p \in Procs |-> "none"]
    /\ got = [p \in Procs |-> "unset"]
    /\ waited = [p \in Procs |-> "none"]
    /\ setting = [p \in Procs |-> "unset"]
    /\ opened = FALSE /\ early = FALSE

(* The answer for an override: the environment decides when there is none. *)
Effective(o) ==
    IF o = "true" \/ (o = "unset" /\ EnvDefault) THEN "closed" ELSE "open"

(* Mutant: an unreachable Redis reads as "not read-only". *)
ReadOverrideOpen == IF up THEN redis ELSE "false"

(* _read_redis_override: an unreachable Redis reads as unset. *)
ReadOverride == IF up THEN redis ELSE "unset"

(* The gate answers its caller, who writes to a device when it is open. *)
Answer(o) == early' = (early \/ (Effective(o) = "open" /\ ~opened))

Store(p, o) ==
    /\ cache' = [cache EXCEPT ![p] = o]
    /\ left' = [left EXCEPT ![p] = TTL]
    /\ primed' = [primed EXCEPT ![p] = TRUE]

-----------------------------------------------------------------------------
(* is_adapter_read_only: a cached answer while it is valid; an expired one  *)
(* on the event loop is served once more while a thread refreshes it; off   *)
(* the loop, or before the first read, the caller waits for Redis.  One     *)
(* caller of a process waits at a time.                                     *)
Gate(p, onLoop) ==
    /\ \/ /\ left[p] > 0
          /\ Answer(cache[p])
          /\ UNCHANGED <<thread, waited>>
       \/ /\ left[p] = 0 /\ primed[p] /\ onLoop
          /\ Answer(cache[p])
          /\ thread' = [thread EXCEPT ![p] = IF @ = "none" THEN "started" ELSE @]
          /\ UNCHANGED waited
       \/ /\ left[p] = 0 /\ ~(primed[p] /\ onLoop)
          /\ waited[p] = "none"
          /\ waited' = [waited EXCEPT ![p] = ReadOverride]
          /\ UNCHANGED <<thread, early>>
    /\ UNCHANGED <<redis, up, procVars, got, setting, opened>>

(* The caller that waited stores what it has read, and answers with it. *)
GateAnswers(p) ==
    /\ waited[p] # "none"
    /\ Store(p, waited[p])
    /\ Answer(waited[p])
    /\ waited' = [waited EXCEPT ![p] = "none"]
    /\ UNCHANGED <<redis, up, thread, got, setting, opened>>

(* The refresh thread: GET, then the assignment to _cache. *)
ThreadReads(p) ==
    /\ thread[p] = "started"
    /\ thread' = [thread EXCEPT ![p] = "read"]
    /\ got' = [got EXCEPT ![p] = ReadOverride]
    /\ UNCHANGED <<redis, up, procVars, waited, setting, opened, early>>

(* Mutant: without the finally block the in-flight mark stays. *)
ThreadStoresLeaks(p) ==
    /\ thread[p] = "read"
    /\ Store(p, got[p])
    /\ thread' = [thread EXCEPT ![p] = "leaked"]
    /\ got' = [got EXCEPT ![p] = "unset"]
    /\ UNCHANGED <<redis, up, waited, setting, opened, early>>

ThreadStores(p) ==
    /\ thread[p] = "read"
    /\ Store(p, got[p])
    /\ thread' = [thread EXCEPT ![p] = "none"]
    /\ got' = [got EXCEPT ![p] = "unset"]
    /\ UNCHANGED <<redis, up, waited, setting, opened, early>>

(* set_adapter_read_only: SET in Redis, then this process's cache.  An      *)
(* error is raised to the caller; a SET that timed out may have been done.  *)
SetOverride(p, o) ==
    /\ up
    /\ setting[p] = "unset"
    /\ redis' = o
    /\ setting' \in {[setting EXCEPT ![p] = o], setting}
    /\ opened' = (opened \/ o = "false")
    /\ UNCHANGED <<up, procVars, thread, got, waited, early>>

SetCache(p) ==
    /\ setting[p] # "unset"
    /\ Store(p, setting[p])
    /\ setting' = [setting EXCEPT ![p] = "unset"]
    /\ UNCHANGED <<redis, up, thread, got, waited, opened, early>>

(* Redis fails, comes back, or loses the key. *)
RedisFails ==
    /\ up
    /\ up' = FALSE
    /\ UNCHANGED <<redis, procVars, thread, got, waited, setting, opened, early>>

RedisReturns ==
    /\ ~up
    /\ up' = TRUE
    /\ UNCHANGED <<redis, procVars, thread, got, waited, setting, opened, early>>

RedisLosesKey ==
    /\ redis # "unset"
    /\ redis' = "unset"
    /\ UNCHANGED <<up, procVars, thread, got, waited, setting, opened, early>>

Tick ==
    /\ left' = [p \in Procs |-> IF left[p] > 0 THEN left[p] - 1 ELSE 0]
    /\ UNCHANGED <<redis, up, cache, primed, thread, got, waited, setting, opened, early>>

Next ==
    \/ \E p \in Procs :
         \/ \E onLoop \in BOOLEAN : Gate(p, onLoop)
         \/ GateAnswers(p) \/ ThreadReads(p) \/ ThreadStores(p) \/ SetCache(p)
         \/ \E o \in {"true", "false"} : SetOverride(p, o)
    \/ RedisFails \/ RedisReturns \/ RedisLosesKey \/ Tick

(* Threads run, reads and sets return (the client has a socket timeout),    *)
(* time passes, and every process keeps handling writes.                    *)
Fairness ==
    /\ \A p \in Procs : /\ WF_vars(ThreadReads(p) \/ ThreadStores(p))
                        /\ WF_vars(SetCache(p)) /\ WF_vars(GateAnswers(p))
                        /\ WF_vars(Gate(p, TRUE))
    /\ WF_vars(Tick)

Spec == Init /\ [][Next]_vars
FairSpec == Spec /\ Fairness

-----------------------------------------------------------------------------
(* Properties *)

(* A monitor-only deployment (ADAPTER_READ_ONLY=true) refuses every write   *)
(* until an operator opens the gate: no outage, lost key, overlapping reads *)
(* or half-done refresh opens it.                                           *)
MonitorOnlyHolds == EnvDefault => ~early

(* Once the override and Redis stay as they are, every process comes to     *)
(* agree with it and stays so, even after a refresh that overlapped the set *)
(* put an old value back.                                                   *)
GateConverges ==
    \A o \in Override :
        <>[](redis = o /\ up) => <>[](\A p \in Procs : cache[p] = o /\ primed[p])

(* Its inductive form: the value "false" is nowhere in the system yet.      *)
NeverOpened ==
    (EnvDefault /\ ~opened) =>
        /\ redis # "false"
        /\ \A p \in Procs : cache[p] # "false" /\ got[p] # "false"
                          /\ setting[p] # "false" /\ waited[p] # "false"

(* What the module says and the code does not do. *)

(* "any error reading Redis falls back to the env default ... the gate      *)
(* never fails OPEN": when Redis is out and the operator has closed the     *)
(* gate, what a waiting caller has read and will answer with is "closed".   *)
GateNeverFailsOpen ==
    [][\A p \in Procs :
          (waited[p] = "none" /\ waited'[p] # "none") /\ redis = "true" /\ ~up
            => Effective(waited'[p]) = "closed"]_vars

=============================================================================
