--------------------------- MODULE EventBusProofs ---------------------------
(***************************************************************************)
(* Proofs about EventBus for any processes, events, window and breaks.     *)
(***************************************************************************)
EXTENDS EventBus, SequenceTheorems, TLAPS

BusTypes ==
    /\ sent \in [Events -> {"new", "dispatched", "done"}]
    /\ sequence \in [Events -> Nat] /\ counter \in [Processes -> Nat]
    /\ ids \in [Processes -> Seq(Events)] /\ idSet \in [Processes -> SUBSET Events]
    /\ up \in BOOLEAN /\ running \in [Processes -> BOOLEAN]
    /\ subscribed \in [Processes -> BOOLEAN] /\ mute \in [Processes -> BOOLEAN]
    /\ inbox \in [Processes -> Seq(Events)]
    /\ dispatched \in [Processes -> [Events -> Nat]] /\ breaks \in 0..MaxBreaks

(* The deque holds the latest events of the process in the order of their  *)
(* numbers, and the set holds the same.                                    *)
WindowOf(p) ==
    /\ Len(ids[p]) <= Window /\ Len(ids[p]) <= counter[p]
    /\ \A i \in 1..Len(ids[p]) : /\ sent[ids[p][i]] # "new" /\ SourceOf[ids[p][i]] = p
                                 /\ sequence[ids[p][i]] = counter[p] - Len(ids[p]) + i
    /\ idSet[p] = {ids[p][i] : i \in 1..Len(ids[p])}

(* An event that left the set has a whole window behind it. *)
Overtaken(p) ==
    \A e \in Events : SourceOf[e] = p /\ sent[e] # "new" /\ e \notin idSet[p] =>
        counter[p] - sequence[e] >= Window

(* Redis holds an event for a process once, and only before it was handed  *)
(* on from there.                                                          *)
Waiting(p) ==
    /\ \A i \in 1..Len(inbox[p]) :
          /\ sent[inbox[p][i]] = "done"
          /\ dispatched[p][inbox[p][i]] <= IF SourceOf[inbox[p][i]] = p THEN 1 ELSE 0
    /\ \A i, j \in 1..Len(inbox[p]) : inbox[p][i] = inbox[p][j] => i = j

(* Before the publication to Redis only the source has handed it on. *)
Handed(p) ==
    \A e \in Events :
        /\ sent[e] = "new" => dispatched[p][e] = 0
        /\ sent[e] = "dispatched" => dispatched[p][e] <= IF SourceOf[e] = p THEN 1 ELSE 0
        /\ dispatched[p][e] <=
              IF SourceOf[e] = p /\ counter[p] - sequence[e] >= Window THEN 2 ELSE 1

ProcessInv(p) == WindowOf(p) /\ Overtaken(p) /\ Waiting(p) /\ Handed(p)
BusInv == BusTypes /\ \A p \in Processes : ProcessInv(p)

LEMMA BusInvInit == BusInit => BusInv
  BY BusAssumption DEF BusInit, BusInv, BusTypes, ProcessInv, WindowOf, Overtaken, Waiting, Handed

(* Connections come and go: what Redis held for a process is lost, nothing *)
(* is handed on.                                                           *)
LEMMA BusInvConnection ==
  ASSUME BusInv,
         \/ RedisDown \/ RedisUp
         \/ \E p \in Processes : ListenBreaks(p) \/ Reconnect(p) \/ ReconnectHalf(p)
                               \/ Disconnect(p) \/ Connect(p)
  PROVE  BusInv'
  <1>1. UNCHANGED <<sent, sequence, counter, ids, idSet, dispatched>>
    BY DEF RedisDown, RedisUp, ListenBreaks, Reconnect, ReconnectHalf, Disconnect, Connect
  <1>2. BusTypes'
    <2>1. /\ inbox \in [Processes -> Seq(Events)] /\ <<>> \in Seq(Events)
          /\ subscribed \in [Processes -> BOOLEAN] /\ mute \in [Processes -> BOOLEAN]
          /\ running \in [Processes -> BOOLEAN]
          /\ up \in BOOLEAN /\ breaks \in 0..MaxBreaks
      BY DEF BusInv, BusTypes
    <2>2. inbox' \in [Processes -> Seq(Events)]
      BY <2>1 DEF RedisDown, RedisUp, ListenBreaks, Reconnect, ReconnectHalf, Disconnect, Connect
    <2>3. subscribed' \in [Processes -> BOOLEAN] /\ mute' \in [Processes -> BOOLEAN]
      BY <2>1 DEF RedisDown, RedisUp, ListenBreaks, Reconnect, ReconnectHalf, Disconnect, Connect
    <2>4. running' \in [Processes -> BOOLEAN] /\ up' \in BOOLEAN
      BY <2>1 DEF RedisDown, RedisUp, ListenBreaks, Reconnect, ReconnectHalf, Disconnect, Connect
    <2>5. breaks' \in 0..MaxBreaks
      BY <2>1, BusAssumption
         DEF RedisDown, RedisUp, ListenBreaks, Reconnect, ReconnectHalf, Disconnect, Connect
    <2> QED BY <1>1, <2>2, <2>3, <2>4, <2>5 DEF BusInv, BusTypes
  <1>3. \A q \in Processes : inbox'[q] \in {inbox[q], <<>>}
    <2>1. inbox \in [Processes -> Seq(Events)]
      BY DEF BusInv, BusTypes
    <2> QED BY <2>1 DEF RedisDown, RedisUp, ListenBreaks, Reconnect, ReconnectHalf, Disconnect, Connect
  <1>4. ASSUME NEW q \in Processes PROVE ProcessInv(q)'
    <2>1. WindowOf(q) /\ Overtaken(q) /\ Waiting(q) /\ Handed(q)
      BY DEF BusInv, ProcessInv
    <2>2. WindowOf(q)'
      BY <1>1, <2>1 DEF WindowOf
    <2>3. Overtaken(q)' /\ Handed(q)'
      BY <1>1, <2>1 DEF Overtaken, Handed
    <2>4. Waiting(q)'
      <3>1. CASE inbox'[q] = inbox[q]
        BY <1>1, <2>1, <3>1 DEF Waiting
      <3>2. CASE inbox'[q] = <<>>
        <4>1. Len(inbox'[q]) = 0
          BY <3>2
        <4> QED BY <4>1 DEF Waiting
      <3> QED BY <1>3, <3>1, <3>2
    <2> QED BY <2>2, <2>3, <2>4 DEF ProcessInv
  <1> QED BY <1>2, <1>4 DEF BusInv

(* The listener hands on the first message, unless it knows the id. *)
LEMMA BusInvReceive ==
  ASSUME BusInv, NEW p \in Processes, Receive(p)
  PROVE  BusInv'
  <1>0. PICK m : m = Head(inbox[p])
    OBVIOUS
  <1>1. /\ UNCHANGED <<sent, sequence, counter, ids, idSet, up, running, subscribed, mute, breaks>>
        /\ inbox[p] # <<>> /\ inbox' = [inbox EXCEPT ![p] = Tail(inbox[p])]
        /\ dispatched' = IF m \in idSet[p] THEN dispatched
                         ELSE [dispatched EXCEPT ![p][m] = @ + 1]
    BY <1>0 DEF Receive, Dispatch1
  <1>2. /\ inbox \in [Processes -> Seq(Events)]
        /\ dispatched \in [Processes -> [Events -> Nat]]
        /\ counter \in [Processes -> Nat] /\ sequence \in [Events -> Nat]
    BY DEF BusInv, BusTypes
  <1>3. m \in Events /\ m = inbox[p][1] /\ 1 \in 1..Len(inbox[p])
    BY <1>0, <1>1, <1>2
  <1>4. /\ inbox' \in [Processes -> Seq(Events)] /\ Len(inbox'[p]) = Len(inbox[p]) - 1
        /\ \A i \in 1..Len(inbox'[p]) : inbox'[p][i] = inbox[p][i + 1] /\ i + 1 \in 1..Len(inbox[p])
        /\ \A q \in Processes \ {p} : inbox'[q] = inbox[q]
    BY <1>1, <1>2
  <1>5. Waiting(p) /\ Overtaken(p) /\ \A q \in Processes : Waiting(q) /\ Handed(q)
    BY DEF BusInv, ProcessInv
  <1>6. \A i \in 1..Len(inbox'[p]) : inbox'[p][i] # m
    BY <1>3, <1>4, <1>5 DEF Waiting
  <1>7. /\ dispatched' \in [Processes -> [Events -> Nat]]
        /\ \A q \in Processes, e \in Events :
             dispatched'[q][e] = IF q = p /\ e = m /\ m \notin idSet[p]
                                 THEN dispatched[q][e] + 1 ELSE dispatched[q][e]
    BY <1>1, <1>2, <1>3
  <1>8. BusTypes'
    BY <1>1, <1>4, <1>7 DEF BusInv, BusTypes
  <1>9. ASSUME NEW q \in Processes PROVE (WindowOf(q) /\ Overtaken(q))'
    BY <1>1 DEF BusInv, ProcessInv, WindowOf, Overtaken
  <1>10. ASSUME NEW q \in Processes PROVE Waiting(q)'
    <2>1. \A i \in 1..Len(inbox[q]) : inbox[q][i] \in Events
      BY <1>2
    <2>2. \A i \in 1..Len(inbox'[q]) : ~(q = p /\ inbox'[q][i] = m)
      BY <1>6
    <2>3. \A i \in 1..Len(inbox'[q]) : \E j \in 1..Len(inbox[q]) : inbox'[q][i] = inbox[q][j]
      BY <1>4
    <2>4. \A i \in 1..Len(inbox'[q]) :
            /\ sent'[inbox'[q][i]] = "done"
            /\ dispatched'[q][inbox'[q][i]] <= IF SourceOf[inbox'[q][i]] = q THEN 1 ELSE 0
      <3> SUFFICES ASSUME NEW i \in 1..Len(inbox'[q])
                   PROVE  /\ sent'[inbox'[q][i]] = "done"
                          /\ dispatched'[q][inbox'[q][i]] <= IF SourceOf[inbox'[q][i]] = q THEN 1 ELSE 0
        OBVIOUS
      <3>1. PICK j \in 1..Len(inbox[q]) : inbox'[q][i] = inbox[q][j]
        BY <2>3
      <3>2. PICK f \in Events : f = inbox[q][j]
        BY <2>1
      <3>3. sent[f] = "done" /\ dispatched[q][f] <= IF SourceOf[f] = q THEN 1 ELSE 0
        BY <1>5, <3>2 DEF Waiting
      <3>4. dispatched'[q][f] = dispatched[q][f]
        BY <1>7, <2>2, <3>1, <3>2
      <3> QED BY <1>1, <3>1, <3>2, <3>3, <3>4
    <2>5. \A i, j \in 1..Len(inbox'[q]) : inbox'[q][i] = inbox'[q][j] => i = j
      <3>1. CASE q = p
        <4> SUFFICES ASSUME NEW i \in 1..Len(inbox'[p]), NEW j \in 1..Len(inbox'[p]),
                            inbox'[p][i] = inbox'[p][j]
                     PROVE  i = j
          BY <3>1
        <4>1. i + 1 = j + 1
          BY <1>4, <1>5 DEF Waiting
        <4> QED BY <4>1, <1>2, <1>4
      <3>2. CASE q # p
        BY <1>4, <1>5, <3>2 DEF Waiting
      <3> QED BY <3>1, <3>2
    <2> QED BY <2>4, <2>5 DEF Waiting
  <1>11. ASSUME NEW q \in Processes, NEW e \in Events
         PROVE  /\ sent'[e] = "new" => dispatched'[q][e] = 0
                /\ sent'[e] = "dispatched" => dispatched'[q][e] <= IF SourceOf[e] = q THEN 1 ELSE 0
                /\ dispatched'[q][e] <=
                      IF SourceOf[e] = q /\ counter'[q] - sequence'[e] >= Window THEN 2 ELSE 1
    <2>1. CASE q = p /\ e = m /\ m \notin idSet[p]
      <3>1. sent[m] = "done" /\ dispatched[p][m] <= IF SourceOf[m] = p THEN 1 ELSE 0
        BY <1>3, <1>5 DEF Waiting
      <3>2. SourceOf[m] = p => counter[p] - sequence[m] >= Window
        BY <1>3, <1>5, <2>1, <3>1 DEF Overtaken
      <3>3. dispatched'[p][m] = dispatched[p][m] + 1 /\ dispatched[p][m] \in Nat
        BY <1>2, <1>3, <1>7, <2>1
      <3> QED BY <1>1, <2>1, <3>1, <3>2, <3>3
    <2>2. CASE ~(q = p /\ e = m /\ m \notin idSet[p])
      <3>1. dispatched'[q][e] = dispatched[q][e]
        BY <1>7, <2>2
      <3> QED BY <1>1, <1>5, <3>1 DEF Handed
    <2> QED BY <2>1, <2>2
  <1>12. ASSUME NEW q \in Processes PROVE Handed(q)'
    BY <1>11 DEF Handed
  <1> QED BY <1>8, <1>9, <1>10, <1>12 DEF BusInv, ProcessInv

(* Redis fans an event out, or does not. *)
LEMMA BusInvRemotely ==
  ASSUME BusInv, NEW e \in Events, PublishRemotely(e)
  PROVE  BusInv'
  <1>1. /\ UNCHANGED <<sequence, counter, ids, idSet, up, running, subscribed, mute,
                     dispatched, breaks>>
        /\ sent[e] = "dispatched" /\ sent' = [sent EXCEPT ![e] = "done"]
    BY DEF PublishRemotely
  <1>2. /\ inbox \in [Processes -> Seq(Events)] /\ ids \in [Processes -> Seq(Events)]
        /\ sent \in [Events -> {"new", "dispatched", "done"}]
    BY DEF BusInv, BusTypes
  <1>3. \A q \in Processes : inbox'[q] = inbox[q] \/ inbox'[q] = Append(inbox[q], e)
    BY <1>2 DEF PublishRemotely, Delivered
  <1>4. inbox' \in [Processes -> Seq(Events)]
    <2>1. \A q \in Processes : inbox[q] \in Seq(Events) /\ Append(inbox[q], e) \in Seq(Events)
      BY <1>2
    <2>2. CASE UNCHANGED inbox
      BY <1>2, <2>2
    <2>3. CASE Delivered(e)
      BY <2>1, <2>3 DEF Delivered
    <2> QED BY <2>2, <2>3 DEF PublishRemotely
  <1>5. /\ \A f \in Events : (sent'[f] = "new") <=> (sent[f] = "new")
        /\ \A f \in Events : sent'[f] = "dispatched" => sent[f] = "dispatched"
        /\ sent'[e] = "done" /\ \A f \in Events \ {e} : sent'[f] = sent[f]
    BY <1>1, <1>2
  <1>6. \A q \in Processes : WindowOf(q) /\ Overtaken(q) /\ Waiting(q) /\ Handed(q)
    BY DEF BusInv, ProcessInv
  <1>7. ASSUME NEW q \in Processes PROVE (WindowOf(q) /\ Overtaken(q) /\ Handed(q))'
    <2>1. \A i \in 1..Len(ids[q]) : ids[q][i] \in Events
      BY <1>2
    <2>2. WindowOf(q)'
      BY <1>1, <1>5, <1>6, <2>1 DEF WindowOf
    <2>3. Overtaken(q)' /\ Handed(q)'
      BY <1>1, <1>5, <1>6 DEF Overtaken, Handed
    <2> QED BY <2>2, <2>3
  <1>8. ASSUME NEW q \in Processes PROVE Waiting(q)'
    <2>1. \A i \in 1..Len(inbox[q]) : inbox[q][i] \in Events /\ inbox[q][i] # e
      <3>1. \A i \in 1..Len(inbox[q]) : inbox[q][i] \in Events
        BY <1>2
      <3>2. \A i \in 1..Len(inbox[q]) : sent[inbox[q][i]] = "done"
        BY <1>6 DEF Waiting
      <3> QED BY <1>1, <3>1, <3>2
    <2>2. dispatched[q][e] <= IF SourceOf[e] = q THEN 1 ELSE 0
      BY <1>1, <1>6 DEF Handed
    <2>3. CASE inbox'[q] = inbox[q]
      <3>1. ASSUME NEW i \in 1..Len(inbox[q])
            PROVE  /\ sent'[inbox[q][i]] = "done"
                   /\ dispatched'[q][inbox[q][i]] <= IF SourceOf[inbox[q][i]] = q THEN 1 ELSE 0
        <4>1. PICK f \in Events \ {e} : f = inbox[q][i]
          BY <2>1
        <4>2. sent[f] = "done" /\ dispatched[q][f] <= IF SourceOf[f] = q THEN 1 ELSE 0
          BY <1>6, <4>1 DEF Waiting
        <4> QED BY <1>1, <1>5, <4>1, <4>2
      <3>2. \A i, j \in 1..Len(inbox[q]) : inbox[q][i] = inbox[q][j] => i = j
        BY <1>6 DEF Waiting
      <3> QED BY <2>3, <3>1, <3>2 DEF Waiting
    <2>4. CASE inbox'[q] = Append(inbox[q], e)
      <3>1. /\ Len(inbox'[q]) = Len(inbox[q]) + 1 /\ inbox'[q][Len(inbox[q]) + 1] = e
            /\ \A i \in 1..Len(inbox[q]) : inbox'[q][i] = inbox[q][i]
            /\ Len(inbox[q]) \in Nat
        BY <1>2, <2>4
      <3>2. \A i \in 1..Len(inbox'[q]) : i \in 1..Len(inbox[q]) \/ i = Len(inbox[q]) + 1
        BY <3>1
      <3>3. \A i \in 1..Len(inbox'[q]) :
              /\ sent'[inbox'[q][i]] = "done"
              /\ dispatched'[q][inbox'[q][i]] <= IF SourceOf[inbox'[q][i]] = q THEN 1 ELSE 0
        <4> SUFFICES ASSUME NEW i \in 1..Len(inbox'[q])
                     PROVE  /\ sent'[inbox'[q][i]] = "done"
                            /\ dispatched'[q][inbox'[q][i]] <= IF SourceOf[inbox'[q][i]] = q THEN 1 ELSE 0
          OBVIOUS
        <4>1. CASE i \in 1..Len(inbox[q])
          <5>1. PICK f \in Events \ {e} : f = inbox[q][i]
            BY <2>1, <4>1
          <5>2. sent[f] = "done" /\ dispatched[q][f] <= IF SourceOf[f] = q THEN 1 ELSE 0
            BY <1>6, <4>1, <5>1 DEF Waiting
          <5>3. inbox'[q][i] = f
            BY <3>1, <4>1, <5>1
          <5> QED BY <1>1, <1>5, <5>2, <5>3
        <4>2. CASE i = Len(inbox[q]) + 1
          BY <1>1, <1>5, <2>2, <3>1, <4>2
        <4> QED BY <3>2, <4>1, <4>2
      <3>4. \A i, j \in 1..Len(inbox'[q]) : inbox'[q][i] = inbox'[q][j] => i = j
        BY <1>6, <2>1, <3>1, <3>2 DEF Waiting
      <3> QED BY <3>3, <3>4 DEF Waiting
    <2> QED BY <1>3, <2>3, <2>4
  <1>9. BusTypes'
    BY <1>1, <1>4 DEF BusInv, BusTypes
  <1> QED BY <1>7, <1>8, <1>9 DEF BusInv, ProcessInv

(* What a sequence is after one more event. *)
LEMMA AppendedTo ==
  ASSUME NEW s \in Seq(Events), NEW e \in Events
  PROVE  /\ Append(s, e) \in Seq(Events) /\ Len(Append(s, e)) = Len(s) + 1
         /\ Append(s, e)[Len(s) + 1] = e
         /\ \A i \in 1..Len(s) : Append(s, e)[i] = s[i]
  OBVIOUS

(* The window moves on by one event: what is left of the deque, in terms   *)
(* of what it was.                                                         *)
LEMMA WindowMoves ==
  ASSUME NEW s \in Seq(Events), NEW e \in Events, Len(s) <= Window,
         NEW t, t = Append(IF Len(s) = Window THEN Tail(s) ELSE s, e),
         NEW d, d = IF Len(s) = Window THEN 1 ELSE 0
  PROVE  /\ t \in Seq(Events) /\ Len(t) = Len(s) - d + 1 /\ Len(t) <= Window
         /\ Len(t) \in 1..Window /\ t[Len(t)] = e
         /\ \A i \in 1..(Len(t) - 1) : t[i] = s[i + d] /\ i + d \in 1..Len(s)
  <1>1. Len(s) \in Nat /\ Window \in Nat \ {0}
    BY BusAssumption
  <1>2. CASE Len(s) = Window
    <2>1. s # <<>>
      BY <1>1, <1>2
    <2>2. /\ Tail(s) \in Seq(Events) /\ Len(Tail(s)) = Len(s) - 1
          /\ \A i \in 1..Len(Tail(s)) : Tail(s)[i] = s[i + 1]
      BY <2>1
    <2>3. t = Append(Tail(s), e) /\ d = 1
      BY <1>2
    <2>4. /\ t \in Seq(Events) /\ Len(t) = Len(Tail(s)) + 1 /\ t[Len(t)] = e
          /\ \A i \in 1..Len(Tail(s)) : t[i] = Tail(s)[i]
      <3>1. PICK u \in Seq(Events) : u = Tail(s)
        BY <2>2
      <3>2. /\ Append(u, e) \in Seq(Events) /\ Len(Append(u, e)) = Len(u) + 1
            /\ Append(u, e)[Len(u) + 1] = e
            /\ \A i \in 1..Len(u) : Append(u, e)[i] = u[i]
        BY AppendedTo
      <3> QED BY <2>3, <3>1, <3>2
    <2> QED BY <1>1, <1>2, <2>2, <2>3, <2>4
  <1>3. CASE Len(s) # Window
    <2>1. t = Append(s, e) /\ d = 0
      BY <1>3
    <2>2. /\ t \in Seq(Events) /\ Len(t) = Len(s) + 1 /\ t[Len(t)] = e
          /\ \A i \in 1..Len(s) : t[i] = s[i]
      BY <2>1, AppendedTo
    <2> QED BY <1>1, <1>3, <2>1, <2>2
  <1> QED BY <1>2, <1>3

(* A process stamps, remembers and hands on an event of its own. *)
LEMMA BusInvLocally ==
  ASSUME BusInv, NEW e \in Events, PublishLocally(e)
  PROVE  BusInv'
  <1>0. PICK p \in Processes : p = SourceOf[e]
    BY BusAssumption
  <1>a. PICK d : d = IF Len(ids[p]) = Window THEN 1 ELSE 0
    OBVIOUS
  <1>b. PICK t : t = Append(IF Len(ids[p]) = Window THEN Tail(ids[p]) ELSE ids[p], e)
    OBVIOUS
  <1>1. /\ UNCHANGED <<up, running, subscribed, mute, inbox, breaks>>
        /\ sent[e] = "new" /\ sent' = [sent EXCEPT ![e] = "dispatched"]
        /\ counter' = [counter EXCEPT ![p] = @ + 1]
        /\ sequence' = [sequence EXCEPT ![e] = counter[p] + 1]
        /\ ids' = [ids EXCEPT ![p] = t]
        /\ idSet' = [idSet EXCEPT ![p] = (@ \ Forgotten(p)) \cup {e}]
        /\ dispatched' = [dispatched EXCEPT ![p][e] = @ + 1]
    BY <1>0, <1>b DEF PublishLocally, Full, Dispatch1
  <1>2. /\ sent \in [Events -> {"new", "dispatched", "done"}]
        /\ sequence \in [Events -> Nat] /\ counter \in [Processes -> Nat]
        /\ ids \in [Processes -> Seq(Events)] /\ idSet \in [Processes -> SUBSET Events]
        /\ inbox \in [Processes -> Seq(Events)]
        /\ dispatched \in [Processes -> [Events -> Nat]]
    BY DEF BusInv, BusTypes
  <1>3. \A q \in Processes : WindowOf(q) /\ Overtaken(q) /\ Waiting(q) /\ Handed(q)
    BY DEF BusInv, ProcessInv
  <1>4. /\ Len(ids[p]) \in Nat /\ Len(ids[p]) <= Window /\ Len(ids[p]) <= counter[p]
        /\ counter[p] \in Nat /\ Window \in Nat \ {0} /\ d \in {0, 1}
        /\ idSet[p] = {ids[p][i] : i \in 1..Len(ids[p])}
        /\ \A i \in 1..Len(ids[p]) :
             /\ ids[p][i] \in Events /\ sent[ids[p][i]] # "new" /\ SourceOf[ids[p][i]] = p
             /\ sequence[ids[p][i]] = counter[p] - Len(ids[p]) + i
    <2>1. WindowOf(p) /\ ids[p] \in Seq(Events) /\ counter[p] \in Nat
      BY <1>2, <1>3
    <2>2. Len(ids[p]) \in Nat /\ \A i \in 1..Len(ids[p]) : ids[p][i] \in Events
      BY <2>1
    <2>3. Window \in Nat \ {0} /\ d \in {0, 1}
      BY <1>a, BusAssumption
    <2> QED BY <2>1, <2>2, <2>3 DEF WindowOf
  <1>5. /\ t \in Seq(Events) /\ Len(t) = Len(ids[p]) - d + 1 /\ Len(t) \in 1..Window
        /\ t[Len(t)] = e
        /\ \A i \in 1..(Len(t) - 1) : t[i] = ids[p][i + d] /\ i + d \in 1..Len(ids[p])
    <2>1. ids[p] \in Seq(Events)
      BY <1>2
    <2> QED BY <2>1, <1>a, <1>b, <1>4, WindowMoves
  <1>6. /\ ids'[p] = t /\ counter'[p] = counter[p] + 1
        /\ idSet'[p] = (idSet[p] \ Forgotten(p)) \cup {e}
        /\ \A q \in Processes \ {p} :
             ids'[q] = ids[q] /\ counter'[q] = counter[q] /\ idSet'[q] = idSet[q]
        /\ sent'[e] = "dispatched" /\ sequence'[e] = counter[p] + 1
        /\ \A f \in Events \ {e} : sent'[f] = sent[f] /\ sequence'[f] = sequence[f]
    BY <1>1, <1>2
  <1>7. /\ dispatched' \in [Processes -> [Events -> Nat]]
        /\ \A q \in Processes, f \in Events :
             dispatched'[q][f] = IF q = p /\ f = e THEN dispatched[q][f] + 1
                                 ELSE dispatched[q][f]
    BY <1>1, <1>2
  <1>8. BusTypes'
    <2>2. /\ sent' \in [Events -> {"new", "dispatched", "done"}]
          /\ sequence' \in [Events -> Nat] /\ counter' \in [Processes -> Nat]
      BY <1>1, <1>2
    <2>3. ids' \in [Processes -> Seq(Events)] /\ idSet' \in [Processes -> SUBSET Events]
      BY <1>1, <1>2, <1>5
    <2> QED BY <1>1, <1>7, <2>2, <2>3 DEF BusInv, BusTypes
  (* The oldest event leaves exactly when the deque is full. *)
  <1>9. Forgotten(p) = IF d = 1 THEN {ids[p][1]} ELSE {}
    BY <1>a, <1>2, <1>4 DEF Forgotten, Full
  <1>10. \A i, j \in 1..Len(ids[p]) : ids[p][i] = ids[p][j] => i = j
    <2> SUFFICES ASSUME NEW i \in 1..Len(ids[p]), NEW j \in 1..Len(ids[p]),
                        ids[p][i] = ids[p][j]
                 PROVE  i = j
      OBVIOUS
    <2>1. counter[p] - Len(ids[p]) + i = counter[p] - Len(ids[p]) + j
      BY <1>4
    <2>2. counter[p] \in Nat /\ Len(ids[p]) \in Nat
      BY <1>4
    <2> QED BY <2>1, <2>2
  <1>11. idSet'[p] = {t[i] : i \in 1..Len(t)}
    <2>1. ASSUME NEW f, f \in idSet[p], f \notin Forgotten(p)
          PROVE  \E i \in 1..Len(t) : f = t[i]
      <3>1. PICK j \in 1..Len(ids[p]) : f = ids[p][j]
        BY <1>4, <2>1
      <3>2. d = 1 => j # 1
        BY <1>9, <2>1, <3>1
      <3>3. j - d \in 1..(Len(t) - 1) /\ (j - d) + d = j
        BY <1>4, <1>5, <3>1, <3>2
      <3>4. t[j - d] = ids[p][j]
        BY <1>5, <3>3
      <3> QED BY <1>5, <3>1, <3>3, <3>4
    <2>2. ASSUME NEW i \in 1..(Len(t) - 1)
          PROVE  t[i] \in idSet[p] /\ t[i] \notin Forgotten(p)
      <3>1. t[i] = ids[p][i + d] /\ i + d \in 1..Len(ids[p])
        BY <1>5
      <3>2. t[i] \in idSet[p]
        BY <1>4, <3>1
      <3>3. ASSUME d = 1 PROVE t[i] # ids[p][1]
        <4>1. 1 \in 1..Len(ids[p]) /\ i + d # 1
          BY <1>4, <3>1, <3>3
        <4> QED BY <1>10, <3>1, <4>1
      <3> QED BY <1>9, <3>2, <3>3
    <2>3. \A i \in 1..Len(t) : i \in 1..(Len(t) - 1) \/ i = Len(t)
      BY <1>5
    <2>4. Len(t) \in 1..Len(t)
      BY <1>5
    <2> QED BY <1>5, <1>6, <2>1, <2>2, <2>3, <2>4
  <1>12. ASSUME NEW q \in Processes PROVE WindowOf(q)'
    <2>1. CASE q = p
      <3>1. Len(t) <= Window /\ Len(t) <= counter[p] + 1
        BY <1>4, <1>5
      <3>2. ASSUME NEW i \in 1..Len(t)
            PROVE  /\ sent'[t[i]] # "new" /\ SourceOf[t[i]] = p
                   /\ sequence'[t[i]] = (counter[p] + 1) - Len(t) + i
        <4>1. CASE i = Len(t)
          <5>1. t[i] = e
            BY <1>5, <4>1
          <5>2. (counter[p] + 1) - Len(t) + i = counter[p] + 1
            BY <1>4, <4>1
          <5> QED BY <1>0, <1>6, <5>1, <5>2
        <4>2. CASE i # Len(t)
          <5>1. i \in 1..(Len(t) - 1)
            BY <1>5, <4>2
          <5>2. t[i] = ids[p][i + d] /\ i + d \in 1..Len(ids[p])
            BY <1>5, <5>1
          <5>3. /\ t[i] \in Events /\ sent[t[i]] # "new" /\ SourceOf[t[i]] = p
                /\ sequence[t[i]] = counter[p] - Len(ids[p]) + (i + d)
            BY <1>4, <5>2
          <5>4. t[i] # e
            BY <1>1, <5>3
          <5>5. sent'[t[i]] = sent[t[i]] /\ sequence'[t[i]] = sequence[t[i]]
            BY <1>6, <5>3, <5>4
          <5>6. counter[p] - Len(ids[p]) + (i + d) = (counter[p] + 1) - Len(t) + i
            <6>1. /\ counter[p] \in Nat /\ Len(ids[p]) \in Nat /\ d \in {0, 1}
                  /\ Len(t) = Len(ids[p]) - d + 1
              BY <1>4, <1>5
            <6> QED BY <6>1
          <5> QED BY <5>3, <5>5, <5>6
        <4> QED BY <4>1, <4>2
      <3> QED BY <1>6, <1>11, <2>1, <3>1, <3>2 DEF WindowOf
    <2>2. CASE q # p
      <3>1. \A i \in 1..Len(ids[q]) : ids[q][i] \in Events /\ ids[q][i] # e
        <4>1. WindowOf(q) /\ sent[e] = "new" /\ ids[q] \in Seq(Events)
          BY <1>1, <1>2, <1>3
        <4> QED BY <4>1 DEF WindowOf
      <3> QED BY <1>3, <1>6, <2>2, <3>1 DEF WindowOf
    <2> QED BY <2>1, <2>2
  <1>13. ASSUME NEW q \in Processes PROVE Overtaken(q)'
    <2> SUFFICES ASSUME NEW f \in Events, SourceOf[f] = q, sent'[f] # "new", f \notin idSet'[q]
                 PROVE  counter'[q] - sequence'[f] >= Window
      BY DEF Overtaken
    <2>1. f # e
      BY <1>0, <1>6
    <2>2. sent[f] # "new" /\ sequence'[f] = sequence[f]
      BY <1>6, <2>1
    <2>3. f \notin idSet[q] => counter[q] - sequence[f] >= Window
      BY <1>3, <2>2 DEF Overtaken
    <2>4. counter[q] \in Nat /\ sequence[f] \in Nat
      BY <1>2
    <2>5. CASE q # p
      BY <1>6, <2>2, <2>3, <2>5
    <2>6. CASE q = p /\ f \notin idSet[p]
      BY <1>4, <1>6, <2>2, <2>3, <2>4, <2>6
    <2>7. CASE q = p /\ f \in idSet[p]
      <3>1. f \in Forgotten(p)
        BY <1>6, <2>7
      <3>2. d = 1 /\ f = ids[p][1]
        BY <1>9, <3>1
      <3>3. Len(ids[p]) = Window
        BY <1>a, <3>2
      <3>4. sequence[f] = counter[p] - Window + 1
        BY <1>4, <3>2, <3>3
      <3> QED BY <1>4, <1>6, <2>2, <2>7, <3>4
    <2> QED BY <2>5, <2>6, <2>7
  <1>14. ASSUME NEW q \in Processes PROVE Waiting(q)'
    <2>1. inbox'[q] = inbox[q]
      BY <1>1
    <2>2. \A i \in 1..Len(inbox[q]) : inbox[q][i] \in Events /\ inbox[q][i] # e
      <3>1. Waiting(q) /\ sent[e] = "new" /\ inbox[q] \in Seq(Events)
        BY <1>1, <1>2, <1>3
      <3> QED BY <3>1 DEF Waiting
    <2>3. \A i \in 1..Len(inbox[q]) :
            /\ sent'[inbox[q][i]] = sent[inbox[q][i]]
            /\ dispatched'[q][inbox[q][i]] = dispatched[q][inbox[q][i]]
      BY <1>6, <1>7, <2>2
    <2> QED BY <1>3, <2>1, <2>3 DEF Waiting
  <1>15. ASSUME NEW q \in Processes, NEW f \in Events
         PROVE  /\ sent'[f] = "new" => dispatched'[q][f] = 0
                /\ sent'[f] = "dispatched" => dispatched'[q][f] <= IF SourceOf[f] = q THEN 1 ELSE 0
                /\ dispatched'[q][f] <=
                      IF SourceOf[f] = q /\ counter'[q] - sequence'[f] >= Window THEN 2 ELSE 1
    <2>1. CASE f = e
      <3>1. dispatched[q][e] = 0
        BY <1>1, <1>3 DEF Handed
      <3>2. dispatched'[q][e] = IF q = p THEN 1 ELSE 0
        BY <1>7, <3>1
      <3> QED BY <1>0, <1>6, <2>1, <3>2
    <2>2. CASE f # e
      <3>1. /\ dispatched'[q][f] = dispatched[q][f] /\ dispatched[q][f] \in Nat
            /\ sent'[f] = sent[f] /\ sequence'[f] = sequence[f]
        BY <1>2, <1>6, <1>7, <2>2
      <3>2. /\ counter[q] \in Nat /\ sequence[f] \in Nat
            /\ counter'[q] \in {counter[q], counter[q] + 1}
        BY <1>2, <1>6
      <3>3. /\ sent[f] = "new" => dispatched[q][f] = 0
            /\ sent[f] = "dispatched" => dispatched[q][f] <= IF SourceOf[f] = q THEN 1 ELSE 0
            /\ dispatched[q][f] <=
                  IF SourceOf[f] = q /\ counter[q] - sequence[f] >= Window THEN 2 ELSE 1
        BY <1>3 DEF Handed
      <3> QED BY <1>4, <3>1, <3>2, <3>3
    <2> QED BY <2>1, <2>2
  <1>16. ASSUME NEW q \in Processes PROVE Handed(q)'
    BY <1>15 DEF Handed
  <1> QED BY <1>8, <1>12, <1>13, <1>14, <1>16 DEF BusInv, ProcessInv

-----------------------------------------------------------------------------
(* The invariant holds of every bus: the deque is the latest stretch of    *)
(* the process's own numbers, the set is the deque, and what is waiting    *)
(* at Redis has not been handed on from there.                             *)
THEOREM BusInvariant == BusSpec => []BusInv
  <1>1. ASSUME BusInv, BusNext PROVE BusInv'
    <2>1. ASSUME NEW e \in Events, PublishLocally(e) \/ PublishRemotely(e) PROVE BusInv'
      BY <1>1, <2>1, BusInvLocally, BusInvRemotely
    <2>2. ASSUME NEW p \in Processes, Receive(p) PROVE BusInv'
      BY <1>1, <2>2, BusInvReceive
    <2>3. CASE \/ RedisDown \/ RedisUp
               \/ \E p \in Processes : ListenBreaks(p) \/ Reconnect(p) \/ ReconnectHalf(p)
                                     \/ Disconnect(p) \/ Connect(p)
      BY <1>1, <2>3, BusInvConnection
    <2> QED BY <1>1, <2>1, <2>2, <2>3 DEF BusNext
  <1>2. ASSUME BusInv, UNCHANGED busVars PROVE BusInv'
    <2>1. BusTypes'
      BY <1>2 DEF busVars, BusInv, BusTypes
    <2>2. ASSUME NEW p \in Processes PROVE ProcessInv(p)'
      BY <1>2 DEF busVars, BusInv, ProcessInv, WindowOf, Overtaken, Waiting, Handed
    <2> QED BY <2>1, <2>2 DEF BusInv
  <1> QED BY <1>1, <1>2, BusInvInit, PTL DEF BusSpec

(* Types, and the memory of the echo filter is bounded by its window:      *)
(* publish evicts from the set what its deque drops.                       *)
THEOREM BusTypeCorrect == BusSpec => []BusTypeOK
  <1>1. BusInv => BusTypeOK
    BY DEF BusInv, BusTypes, ProcessInv, WindowOf, BusTypeOK
  <1> QED BY <1>1, BusInvariant, PTL

(* A subscriber is handed an event once by publish or by the listener,     *)
(* and a second time only when a whole window of the process's own events  *)
(* overtook the echo.                                                      *)
THEOREM SubscriberIsHandedOnce == BusSpec => []HandedOnce
  <1>1. BusInv => HandedOnce
    BY DEF BusInv, ProcessInv, Handed, HandedOnce
  <1> QED BY <1>1, BusInvariant, PTL
=============================================================================
