------------------------------ MODULE EventBus ------------------------------
(***************************************************************************)
(* The event bus of core/events.py: each process hands its own events to   *)
(* its subscribers at once and sends them to the others through Redis      *)
(* pub/sub, whose echo it must not hand on again.                          *)
(*                                                                         *)
(* Modelled code: publish, _listen_redis, connect, disconnect and the      *)
(* bookkeeping of EventBus.  Subscribers are one: what is counted is how   *)
(* often _dispatch_local is called for an event.  publish runs without     *)
(* suspension from the stamp to the dispatch, for nothing before it waits. *)
(***************************************************************************)
EXTENDS Naturals, Sequences, FiniteSets

CONSTANTS
    Processes, \* processes that ran connect()
    Events,
    SourceOf,  \* Events -> Processes
    Window,    \* maxlen of _locally_dispatched_ids
    MaxBreaks  \* losses of a process's connection in a behaviour

ASSUME BusAssumption ==
    /\ SourceOf \in [Events -> Processes]
    /\ Window \in Nat \ {0} /\ MaxBreaks \in Nat

VARIABLES
    sent,       \* an event: new, dispatched, done
    sequence,   \* Event.sequence
    counter,    \* _seq_counter of a process
    ids,        \* _locally_dispatched_ids, oldest first
    idSet,      \* _locally_dispatched_set
    up,         \* Redis answers
    running,    \* _running
    subscribed, \* its _pubsub is subscribed at Redis
    mute,       \* its _pubsub has a connection, but is not subscribed
    inbox,      \* messages Redis has for it
    dispatched, \* how often a process dispatched an event
    breaks      \* connections lost so far

busVars == <<sent, sequence, counter, ids, idSet, up, running, subscribed, mute,
             inbox, dispatched, breaks>>

BusInit ==
    /\ sent = [e \in Events |-> "new"] /\ sequence = [e \in Events |-> 0]
    /\ counter = [p \in Processes |-> 0]
    /\ ids = [p \in Processes |-> <<>>] /\ idSet = [p \in Processes |-> {}]
    /\ up = TRUE /\ running = [p \in Processes |-> TRUE]
    /\ subscribed = [p \in Processes |-> TRUE] /\ mute = [p \in Processes |-> FALSE]
    /\ inbox = [p \in Processes |-> <<>>]
    /\ dispatched = [p \in Processes |-> [e \in Events |-> 0]]
    /\ breaks = 0

Dispatch1(p, e) == dispatched' = [dispatched EXCEPT ![p][e] = @ + 1]

-----------------------------------------------------------------------------
Full(p) == Len(ids[p]) = Window

(* Mutant: the newest id is forgotten. *)
ForgottenNewest(p) == IF Full(p) THEN {ids[p][Window]} ELSE {}

(* The id that leaves the set with a full deque. *)
Forgotten(p) == IF Full(p) THEN {Head(ids[p])} ELSE {}

(* publish, up to the first suspension: stamp, remember, dispatch.  Only   *)
(* events that carry no number yet are modelled, and each is published     *)
(* once: replay tools would pass one on with the number it has.            *)
PublishLocally(e) ==
    LET p == SourceOf[e]
    IN /\ sent[e] = "new"
       /\ counter' = [counter EXCEPT ![p] = @ + 1]
       /\ sequence' = [sequence EXCEPT ![e] = counter[p] + 1]
       /\ ids' = [ids EXCEPT ![p] = Append(IF Full(p) THEN Tail(@) ELSE @, e)]
       /\ idSet' = [idSet EXCEPT ![p] = (@ \ Forgotten(p)) \cup {e}]
       /\ Dispatch1(p, e)
       /\ sent' = [sent EXCEPT ![e] = "dispatched"]
       /\ UNCHANGED <<up, running, subscribed, mute, inbox, breaks>>

Delivered(e) ==
    inbox' = [p \in Processes |-> IF subscribed[p] THEN Append(inbox[p], e) ELSE inbox[p]]

(* The publication to Redis, once the handlers are done.  When it fails    *)
(* (into the caller with the client of connect, into the log without one)  *)
(* Redis may have fanned the event out or not.                             *)
PublishRemotely(e) ==
    /\ sent[e] = "dispatched"
    /\ UNCHANGED inbox \/ (up /\ Delivered(e))
    /\ sent' = [sent EXCEPT ![e] = "done"]
    /\ UNCHANGED <<sequence, counter, ids, idSet, up, running, subscribed, mute, dispatched,
                   breaks>>

-----------------------------------------------------------------------------
(* _listen_redis *)

Receive(p) ==
    /\ running[p] /\ subscribed[p] /\ inbox[p] # <<>>
    /\ inbox' = [inbox EXCEPT ![p] = Tail(@)]
    /\ IF Head(inbox[p]) \in idSet[p] THEN UNCHANGED dispatched
       ELSE Dispatch1(p, Head(inbox[p]))
    /\ UNCHANGED <<sent, sequence, counter, ids, idSet, up, running, subscribed, mute, breaks>>

(* An error in the loop, a message that cannot be decoded included: the    *)
(* connection is torn down and what was waiting on it is lost.             *)
ListenBreaks(p) ==
    /\ running[p] /\ (subscribed[p] \/ mute[p]) /\ breaks < MaxBreaks
    /\ subscribed' = [subscribed EXCEPT ![p] = FALSE]
    /\ mute' = [mute EXCEPT ![p] = FALSE]
    /\ inbox' = [inbox EXCEPT ![p] = <<>>]
    /\ breaks' = breaks + 1
    /\ UNCHANGED <<sent, sequence, counter, ids, idSet, up, running, dispatched>>

(* Mutant: the connection is rebuilt, the pattern not subscribed again. *)
ReconnectOnly(p) == running[p] /\ ~subscribed[p] /\ ~mute[p] /\ up /\ UNCHANGED busVars

(* Five seconds later: connect and subscribe.  Without a connection the    *)
(* next get_message raises, and the loop goes round.                       *)
Reconnect(p) ==
    /\ running[p] /\ ~subscribed[p] /\ ~mute[p] /\ up
    /\ subscribed' = [subscribed EXCEPT ![p] = TRUE]
    /\ UNCHANGED <<sent, sequence, counter, ids, idSet, up, running, mute, inbox, dispatched,
                   breaks>>

(* The connection stands but the psubscribe on it fails, which is logged:  *)
(* get_message then only times out, and nothing tries again until the      *)
(* connection breaks.                                                      *)
ReconnectHalf(p) ==
    /\ running[p] /\ ~subscribed[p] /\ ~mute[p] /\ up
    /\ mute' = [mute EXCEPT ![p] = TRUE]
    /\ UNCHANGED <<sent, sequence, counter, ids, idSet, up, running, subscribed, inbox,
                   dispatched, breaks>>

(* disconnect, when the application stops. *)
Disconnect(p) ==
    /\ running[p]
    /\ running' = [running EXCEPT ![p] = FALSE]
    /\ subscribed' = [subscribed EXCEPT ![p] = FALSE]
    /\ mute' = [mute EXCEPT ![p] = FALSE]
    /\ inbox' = [inbox EXCEPT ![p] = <<>>]
    /\ UNCHANGED <<sent, sequence, counter, ids, idSet, up, dispatched, breaks>>

(* connect, by the next lifespan of the same bus. *)
Connect(p) ==
    /\ ~running[p] /\ up
    /\ running' = [running EXCEPT ![p] = TRUE]
    /\ subscribed' = [subscribed EXCEPT ![p] = TRUE]
    /\ UNCHANGED <<sent, sequence, counter, ids, idSet, up, mute, inbox, dispatched, breaks>>

-----------------------------------------------------------------------------
(* Redis goes, with every connection, and comes back. *)
RedisDown ==
    /\ up /\ breaks < MaxBreaks
    /\ up' = FALSE /\ breaks' = breaks + 1
    /\ subscribed' = [p \in Processes |-> FALSE] /\ mute' = [p \in Processes |-> FALSE]
    /\ inbox' = [p \in Processes |-> <<>>]
    /\ UNCHANGED <<sent, sequence, counter, ids, idSet, running, dispatched>>

RedisUp ==
    /\ ~up /\ up' = TRUE
    /\ UNCHANGED <<sent, sequence, counter, ids, idSet, running, subscribed, mute, inbox,
                   dispatched, breaks>>

BusNext ==
    \/ \E e \in Events : PublishLocally(e) \/ PublishRemotely(e)
    \/ \E p \in Processes : Receive(p) \/ ListenBreaks(p) \/ Reconnect(p)
                           \/ ReconnectHalf(p) \/ Disconnect(p) \/ Connect(p)
    \/ RedisDown \/ RedisUp

BusSpec == BusInit /\ [][BusNext]_busVars

(* The listener is a task of the event loop, and Redis is brought back. *)
BusFairness ==
    /\ \A p \in Processes : WF_busVars(Receive(p)) /\ WF_busVars(Reconnect(p))
    /\ WF_busVars(RedisUp)

-----------------------------------------------------------------------------
(* Types; and the set is what the deque holds, within the window: the      *)
(* memory of a long-running bus is bounded, and nothing leaves the set     *)
(* while it is in the deque.                                               *)
BusTypeOK ==
    /\ sent \in [Events -> {"new", "dispatched", "done"}]
    /\ sequence \in [Events -> Nat] /\ counter \in [Processes -> Nat]
    /\ up \in BOOLEAN /\ running \in [Processes -> BOOLEAN]
    /\ subscribed \in [Processes -> BOOLEAN] /\ mute \in [Processes -> BOOLEAN]
    /\ dispatched \in [Processes -> [Events -> Nat]] /\ breaks \in 0..MaxBreaks
    /\ \A p \in Processes : /\ Len(ids[p]) <= Window
                            /\ idSet[p] = {ids[p][i] : i \in 1..Len(ids[p])}

(* A subscriber is handed an event once: the echo of an event that the     *)
(* process published itself is recognised, whatever overtakes it, unless   *)
(* the process published a whole window of events in between.              *)
HandedOnce ==
    \A p \in Processes, e \in Events :
        dispatched[p][e] <=
            IF SourceOf[e] = p /\ counter[p] - sequence[e] >= Window THEN 2 ELSE 1

(* A lost connection is not a lost process: the listener is subscribed     *)
(* again, so that later events of other processes reach it; except that a  *)
(* subscription which failed on a connection that stands is not repeated.  *)
ListenerRecovers ==
    \A p \in Processes : []<>(subscribed[p] \/ mute[p] \/ ~running[p])
=============================================================================
