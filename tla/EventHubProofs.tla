--------------------------- MODULE EventHubProofs ---------------------------
(***************************************************************************)
(* The safety properties of EventHub, for any number of publishers,        *)
(* subscribers and instances, and any limits of their queues.              *)
(*                                                                         *)
(* HubInv is inductive whoever publishes.  What a client knows follows     *)
(* from SerialInv, which is inductive on top of it where one goroutine     *)
(* makes the changes (OnePublisher): two are known to break it (the run    *)
(* event_hub_latest).                                                      *)
(***************************************************************************)
EXTENDS EventHub, FiniteSetTheorems, TLAPS

-----------------------------------------------------------------------------
(* Sequences and events *)

\* A queue with an element put at its end.
LEMMA AppendFacts ==
  ASSUME NEW S, NEW q \in Seq(S), NEW e \in S
  PROVE  /\ Append(q, e) \in Seq(S)
         /\ Len(q) \in Nat /\ Len(Append(q, e)) = Len(q) + 1
         /\ \A n \in 1..(Len(q) + 1) : Append(q, e)[n] = IF n = Len(q) + 1 THEN e ELSE q[n]
  OBVIOUS

\* A queue without its first element.
LEMMA TailFacts ==
  ASSUME NEW S, NEW q \in Seq(S), q # <<>>
  PROVE  /\ Tail(q) \in Seq(S)
         /\ Len(q) \in Nat \ {0} /\ Len(Tail(q)) = Len(q) - 1
         /\ q[1] \in S
         /\ \A n \in 1..(Len(q) - 1) : Tail(q)[n] = q[n + 1]
  OBVIOUS

\* Events by their type; a change is no log line, and the shutdown is neither.
LEMMA EventFacts ==
  /\ \A e \in ChangeEvent : /\ e.type \in {"create", "update", "delete"}
                            /\ e.key \in Instances
                            /\ e.version \in 0..MaxVersion
                            /\ e.time \in Nat
                            /\ e \notin LogEvent
  /\ \A e \in LogEvent : /\ e.type = "log"
                         /\ e.key \in Instances
                         /\ e.line \in 1..MaxLines
                         /\ e.time \in Nat
                         /\ e \notin ChangeEvent
  /\ \A e \in EndEvent : e.type = "shutdown" /\ e.time \in Nat
  BY DEF ChangeEvent, LogEvent, EndEvent, Absent

-----------------------------------------------------------------------------
(* The lines of an instance in a queue *)

HoldsEach(q, i, m, n) ==
  /\ \A x \in 1..Len(q) : q[x].key = i => q[x].line \in m..n
  /\ \A l \in m..n : \E x \in 1..Len(q) : q[x].key = i /\ q[x].line = l
  /\ \A x, y \in 1..Len(q) :
       q[x].key = i /\ q[y].key = i /\ x < y => q[x].line < q[y].line

\* What Holds says of the set of lines, said of each place in the queue.
LEMMA HoldsPointwise ==
  ASSUME NEW q \in Seq(LogEvent), NEW i, NEW m \in Nat, NEW n \in Nat
  PROVE  Holds(q, i, m, n) <=> HoldsEach(q, i, m, n)
  <1> DEFINE mine == {x \in 1..Len(q) : q[x].key = i}
  <1>1. {q[x].line : x \in mine} = m..n <=>
          /\ \A x \in mine : q[x].line \in m..n
          /\ \A l \in m..n : \E x \in mine : q[x].line = l
    OBVIOUS
  <1> QED BY <1>1 DEF Holds, HoldsEach

\* Behind it a line of another instance, or the next one, ...
LEMMA HoldsAppend ==
  ASSUME NEW q \in Seq(LogEvent), NEW r \in Seq(LogEvent), NEW e \in LogEvent,
         Len(r) = Len(q) + 1, r[Len(q) + 1] = e, \A x \in 1..Len(q) : r[x] = q[x],
         NEW i \in Instances, NEW m \in Nat, NEW n \in Nat, Holds(q, i, m, n)
  PROVE  /\ e.key # i => Holds(r, i, m, n)
         /\ e.key = i /\ e.line = n + 1 /\ m <= n + 1 => Holds(r, i, m, n + 1)
  <1>1. Len(q) \in Nat /\ \A x \in 1..Len(q) : q[x].line \in Nat
    BY EventFacts
  <1>2. /\ \A x \in 1..Len(q) : q[x].key = i => q[x].line \in m..n
        /\ \A l \in m..n : \E x \in 1..Len(q) : q[x].key = i /\ q[x].line = l
        /\ \A x, y \in 1..Len(q) :
             q[x].key = i /\ q[y].key = i /\ x < y => q[x].line < q[y].line
    BY HoldsPointwise DEF HoldsEach
  <1>3. \A x \in 1..Len(r) :
          (x \in 1..Len(q) /\ r[x] = q[x]) \/ (x = Len(q) + 1 /\ r[x] = e)
    BY <1>1
  <1>4. \A x \in 1..Len(q) : x \in 1..Len(r)
    BY <1>1
  <1>5. CASE e.key # i
    <2>1. \A x \in 1..Len(r) : r[x].key = i => r[x].line \in m..n
      BY <1>2, <1>3, <1>5
    <2>2. \A l \in m..n : \E x \in 1..Len(r) : r[x].key = i /\ r[x].line = l
      BY <1>2, <1>4
    <2>3. \A x, y \in 1..Len(r) :
            r[x].key = i /\ r[y].key = i /\ x < y => r[x].line < r[y].line
      BY ONLY <1>2, <1>3, <1>5
    <2>4. HoldsEach(r, i, m, n)
      BY <2>1, <2>2, <2>3 DEF HoldsEach
    <2> QED BY <1>5, <2>4, HoldsPointwise
  <1>6. CASE e.key = i /\ e.line = n + 1 /\ m <= n + 1
    <2>1. ASSUME NEW x \in 1..Len(r), r[x].key = i PROVE r[x].line \in m..(n + 1)
      <3>1. CASE x \in 1..Len(q) /\ r[x] = q[x]
        BY <1>2, <2>1, <3>1
      <3>2. CASE r[x] = e
        BY <1>6, <3>2
      <3> QED BY <1>3, <3>1, <3>2
    <2>2. \A l \in m..(n + 1) : \E x \in 1..Len(r) : r[x].key = i /\ r[x].line = l
      <3> SUFFICES ASSUME NEW l \in m..(n + 1)
                   PROVE  \E x \in 1..Len(r) : r[x].key = i /\ r[x].line = l
        OBVIOUS
      <3>1. CASE l = n + 1
        BY <1>1, <1>6, <3>1
      <3>2. CASE l # n + 1
        <4>1. l \in m..n
          BY <3>2
        <4>2. PICK x \in 1..Len(q) : q[x].key = i /\ q[x].line = l
          BY <1>2, <4>1
        <4> QED BY <1>4, <4>2
      <3> QED BY <3>1, <3>2
    <2>3. ASSUME NEW x \in 1..Len(r), NEW y \in 1..Len(r),
                 r[x].key = i, r[y].key = i, x < y
          PROVE  r[x].line < r[y].line
      <3>1. x \in 1..Len(q) /\ r[x] = q[x] /\ q[x].line \in m..n
        BY <1>1, <1>2, <1>3, <2>3
      <3>2. CASE y \in 1..Len(q) /\ r[y] = q[y]
        BY <1>2, <2>3, <3>1, <3>2
      <3>3. CASE r[y] = e
        BY <1>6, <3>1, <3>3
      <3> QED BY <1>3, <3>2, <3>3
    <2>4. n + 1 \in Nat
      OBVIOUS
    <2>5. HoldsEach(r, i, m, n + 1)
      BY <2>1, <2>2, <2>3 DEF HoldsEach
    <2> QED BY <1>6, <2>4, <2>5, HoldsPointwise
  <1> QED BY <1>5, <1>6

\* ... and before it the first is taken.
LEMMA HoldsTail ==
  ASSUME NEW q \in Seq(LogEvent), NEW r \in Seq(LogEvent),
         Len(q) \in Nat \ {0}, Len(r) = Len(q) - 1, \A x \in 1..Len(r) : r[x] = q[x + 1],
         NEW i \in Instances, NEW m \in Nat, NEW n \in Nat, Holds(q, i, m, n)
  PROVE  /\ q[1].key # i => Holds(r, i, m, n)
         /\ q[1].key = i => q[1].line = m /\ m <= n /\ Holds(r, i, m + 1, n)
  <1>1. \A x \in 1..Len(q) : q[x].line \in Nat
    BY EventFacts
  <1>2. /\ \A x \in 1..Len(q) : q[x].key = i => q[x].line \in m..n
        /\ \A l \in m..n : \E x \in 1..Len(q) : q[x].key = i /\ q[x].line = l
        /\ \A x, y \in 1..Len(q) :
             q[x].key = i /\ q[y].key = i /\ x < y => q[x].line < q[y].line
    BY HoldsPointwise DEF HoldsEach
  <1>3. \A x \in 1..Len(q) : x # 1 => x - 1 \in 1..Len(r) /\ r[x - 1] = q[x]
    OBVIOUS
  <1>4. \A x \in 1..Len(r) : x + 1 \in 1..Len(q) /\ 1 < x + 1 /\ r[x] = q[x + 1]
    OBVIOUS
  <1>5. ASSUME NEW x \in 1..Len(r), NEW y \in 1..Len(r), r[x].key = i, r[y].key = i, x < y
        PROVE  r[x].line < r[y].line
    <2>1. /\ x + 1 \in 1..Len(q) /\ y + 1 \in 1..Len(q) /\ x + 1 < y + 1
          /\ r[x] = q[x + 1] /\ r[y] = q[y + 1]
      BY <1>4, <1>5
    <2> QED BY <1>2, <1>5, <2>1
  <1>6. CASE q[1].key # i
    <2>1. ASSUME NEW x \in 1..Len(r), r[x].key = i PROVE r[x].line \in m..n
      <3>1. x + 1 \in 1..Len(q) /\ r[x] = q[x + 1]
        BY <1>4
      <3> QED BY <1>2, <2>1, <3>1
    <2>2. ASSUME NEW l \in m..n PROVE \E x \in 1..Len(r) : r[x].key = i /\ r[x].line = l
      <3>1. PICK x \in 1..Len(q) : q[x].key = i /\ q[x].line = l
        BY <1>2
      <3> QED BY <1>3, <1>6, <3>1
    <2>3. HoldsEach(r, i, m, n)
      BY <1>5, <2>1, <2>2 DEF HoldsEach
    <2> QED BY <1>6, <2>3, HoldsPointwise
  <1>7. CASE q[1].key = i
    <2>1. q[1].line = m /\ m <= n
      <3>1. 1 \in 1..Len(q) /\ q[1].line \in m..n
        BY <1>2, <1>7
      <3>2. PICK x \in 1..Len(q) : q[x].key = i /\ q[x].line = m
        BY <1>2, <3>1
      <3> QED BY <1>1, <1>2, <1>7, <3>1, <3>2
    <2>2. ASSUME NEW x \in 1..Len(r), r[x].key = i PROVE r[x].line \in (m + 1)..n
      <3>1. /\ x + 1 \in 1..Len(q) /\ 1 < x + 1 /\ 1 \in 1..Len(q)
            /\ r[x] = q[x + 1] /\ q[x + 1].key = i
        BY <1>4, <2>2
      <3>2. q[1].line < q[x + 1].line /\ q[x + 1].line \in m..n
        BY <1>2, <1>7, <3>1
      <3> QED BY <2>1, <3>1, <3>2
    <2>3. ASSUME NEW l \in (m + 1)..n PROVE \E x \in 1..Len(r) : r[x].key = i /\ r[x].line = l
      <3>1. PICK x \in 1..Len(q) : q[x].key = i /\ q[x].line = l
        BY <1>2
      <3>2. x # 1
        BY <2>1, <3>1
      <3> QED BY <1>3, <3>1, <3>2
    <2>4. m + 1 \in Nat
      OBVIOUS
    <2>5. HoldsEach(r, i, m + 1, n)
      BY <1>5, <2>2, <2>3 DEF HoldsEach
    <2> QED BY <1>7, <2>1, <2>4, <2>5, HoldsPointwise
  <1> QED BY <1>6, <1>7

-----------------------------------------------------------------------------
(* What a step does to the publisher that takes it *)

HandsOver(p, place, e, left) ==
  /\ pub' \in [Publishers -> Turn]
  /\ pub'[p].pc = place
  /\ pub'[p].event = e
  /\ pub'[p].left = left
  /\ \A x \in Publishers : x # p => pub'[x] = pub[x]

\* A change of an instance begins an event that has neither version nor time yet.
LEMMA AnnounceTurn ==
  ASSUME TypeOK, NEW p \in Publishers, NEW i \in Instances,
         NEW type \in {"create", "update", "delete"}, Announce(p, type, i)
  PROVE  \E e \in ChangeEvent : /\ e.type = type /\ e.key = i /\ e.time = 0
                                /\ HandsOver(p, "stamp", e, {})
  <1> DEFINE e == [type |-> type, key |-> i, version |-> Absent, time |-> 0]
  <1>1. e \in ChangeEvent
    BY BoundAssumption DEF ChangeEvent, Absent
  <1>2. [pc |-> "stamp", left |-> {}, event |-> e] \in Turn
    BY <1>1 DEF Turn
  <1>3. pub' = [pub EXCEPT ![p] = [pc |-> "stamp", left |-> {}, event |-> e]]
    BY DEF Announce
  <1> QED BY <1>1, <1>2, <1>3 DEF HandsOver, TypeOK

\* A log line is stamped and sent in the critical section that counts it (sendTelemetryLog).
LEMMA LogTurn ==
  ASSUME TypeOK, NEW p \in Publishers, NEW i \in Instances, Log(p, i)
  PROVE  \E e \in LogEvent : /\ e.key = i /\ e.line = lines'[i] /\ e.time = now'
                             /\ HandsOver(p, "send", e, registered)
  <1> DEFINE e == [type |-> "log", key |-> i, line |-> lines'[i], time |-> now']
  <1>1. lines'[i] \in 1..MaxLines /\ now' \in Nat
    BY BoundAssumption DEF Log, TypeOK, Clock
  <1>2. e \in LogEvent
    BY <1>1 DEF LogEvent
  <1>3. [pc |-> "send", left |-> registered, event |-> e] \in Turn
    BY <1>2 DEF Turn, TypeOK
  <1>4. pub' = [pub EXCEPT ![p] = [pc |-> "send", left |-> registered, event |-> e]]
    BY DEF Log
  <1> QED BY <1>2, <1>3, <1>4 DEF HandsOver, TypeOK

\* sendSSEEvent first takes the time.
LEMMA StampTurn ==
  ASSUME TypeOK, TurnInv, NEW p \in Publishers, Stamp(p)
  PROVE  \E e \in ChangeEvent :
           /\ e.type = pub[p].event.type /\ e.key = pub[p].event.key
           /\ e.version = pub[p].event.version /\ e.time = now'
           /\ HandsOver(p, "snap", e, {})
  <1> DEFINE e == [pub[p].event EXCEPT !.time = now']
  <1>1. now' \in Nat /\ pub[p] \in Turn /\ pub[p].event \in ChangeEvent /\ pub[p].left = {}
    <2>1. now' \in Nat /\ pub[p] \in Turn
      BY DEF Stamp, Clock, TypeOK
    <2>2. pub[p].pc = "stamp"
      BY DEF Stamp
    <2> QED BY <2>1, <2>2 DEF TurnInv
  <1>2. /\ e \in ChangeEvent /\ e.type = pub[p].event.type /\ e.key = pub[p].event.key
        /\ e.version = pub[p].event.version /\ e.time = now'
    BY <1>1, EventFacts DEF ChangeEvent
  <1>3. [pub[p] EXCEPT !.pc = "snap", !.event = e] \in Turn
    BY <1>1, <1>2 DEF Turn
  <1>4. pub' = [pub EXCEPT ![p] = [pub[p] EXCEPT !.pc = "snap", !.event = e]]
    BY <1>1 DEF Stamp, Turn, TypeOK
  <1>5. HandsOver(p, "snap", e, {})
    <2> HIDE DEF e
    <2>1. pub'[p] = [pub[p] EXCEPT !.pc = "snap", !.event = e]
      BY <1>4 DEF TypeOK
    <2>2. pub'[p].pc = "snap" /\ pub'[p].event = e /\ pub'[p].left = {}
      BY <1>1, <2>1 DEF Turn
    <2> QED BY <1>3, <1>4, <2>2 DEF HandsOver, TypeOK
  <1> QED BY <1>2, <1>5

\* It then takes the snapshot, with the version of that moment.
LEMMA SnapshotTurn ==
  ASSUME TypeOK, TurnInv, NEW p \in Publishers, Snapshot(p)
  PROVE  \E e \in ChangeEvent :
           /\ e.type = pub[p].event.type /\ e.key = pub[p].event.key
           /\ e.version = version[e.key] /\ e.time = pub[p].event.time
           /\ HandsOver(p, "range", e, {})
  <1> DEFINE e == [pub[p].event EXCEPT !.version = version[pub[p].event.key]]
  <1>1. /\ pub[p] \in Turn /\ pub[p].event \in ChangeEvent /\ pub[p].left = {}
        /\ version[pub[p].event.key] \in Absent..MaxVersion
    BY EventFacts DEF Snapshot, TypeOK, TurnInv
  <1>2. /\ e \in ChangeEvent /\ e.type = pub[p].event.type /\ e.key = pub[p].event.key
        /\ e.version = version[e.key] /\ e.time = pub[p].event.time
    BY <1>1 DEF ChangeEvent
  <1>3. [pub[p] EXCEPT !.pc = "range", !.event = e] \in Turn
    BY <1>1, <1>2 DEF Turn
  <1>4. pub' = [pub EXCEPT ![p] = [pub[p] EXCEPT !.pc = "range", !.event = e]]
    BY <1>1 DEF Snapshot, Turn, TypeOK
  <1>5. HandsOver(p, "range", e, {})
    <2> HIDE DEF e
    <2>1. pub'[p] = [pub[p] EXCEPT !.pc = "range", !.event = e]
      BY <1>4 DEF TypeOK
    <2>2. pub'[p].pc = "range" /\ pub'[p].event = e /\ pub'[p].left = {}
      BY <1>1, <2>1 DEF Turn
    <2> QED BY <1>3, <1>4, <2>2 DEF HandsOver, TypeOK
  <1> QED BY <1>2, <1>5

\* It then ranges over the subscribers registered by then.
LEMMA RangeTurn ==
  ASSUME TypeOK, NEW p \in Publishers, StartRange(p)
  PROVE  HandsOver(p, "send", pub[p].event, registered)
  <1> DEFINE t == [pub[p] EXCEPT !.pc = "send", !.left = registered]
  <1>1. t \in Turn /\ t.pc = "send" /\ t.event = pub[p].event /\ t.left = registered
    <2>1. pub[p] \in Turn /\ registered \in SUBSET Subscribers
      BY DEF TypeOK
    <2> QED BY <2>1 DEF Turn
  <1>2. pub' = [pub EXCEPT ![p] = t]
    BY DEF StartRange, Turn, TypeOK
  <1> HIDE DEF t
  <1> QED BY <1>1, <1>2 DEF HandsOver, TypeOK

\* One subscriber is served, the others are left.
LEMMA SendTurn ==
  ASSUME TypeOK, NEW p \in Publishers, NEW s \in Subscribers, Send(p, s)
  PROVE  HandsOver(p, "send", pub[p].event, pub[p].left \ {s})
  <1> DEFINE t == [pub[p] EXCEPT !.left = @ \ {s}]
  <1>1. t \in Turn /\ t.pc = "send" /\ t.event = pub[p].event /\ t.left = pub[p].left \ {s}
    <2>1. pub[p] \in Turn /\ pub[p].pc = "send"
      BY DEF Send, TypeOK
    <2> QED BY <2>1 DEF Turn
  <1>2. pub' = [pub EXCEPT ![p] = t]
    BY DEF Send
  <1> HIDE DEF t
  <1> QED BY <1>1, <1>2 DEF HandsOver, TypeOK

\* With nobody left the publisher is done.
LEMMA SentTurn ==
  ASSUME TypeOK, NEW p \in Publishers, Sent(p)
  PROVE  HandsOver(p, "idle", None, {})
  <1>1. Nobody \in Turn /\ Nobody.pc = "idle" /\ Nobody.event = None /\ Nobody.left = {}
    BY DEF Nobody, Turn
  <1>2. pub' = [pub EXCEPT ![p] = Nobody]
    BY DEF Sent
  <1> QED BY <1>1, <1>2 DEF HandsOver, TypeOK

-----------------------------------------------------------------------------
(* What enqueue does to the subscriber *)

Enqueued(s, k, e) ==
  /\ \A x \in Subscribers : x # s => /\ states'[x] = states[x] /\ logs'[x] = logs[x]
                                     /\ wake'[x] = wake[x] /\ closed'[x] = closed[x]
  /\ \/ /\ closed'[s]
        /\ states'[s] = states[s] /\ logs'[s] = logs[s] /\ wake'[s] = wake[s]
     \/ /\ ~closed[s] /\ ~closed'[s] /\ wake'[s]
        /\ e.type = "log"
        /\ states'[s] = states[s]
        /\ Len(logs[s]) < LogLimit /\ Len(logs'[s]) = Len(logs[s]) + 1
        /\ logs'[s][Len(logs[s]) + 1] = e
        /\ \A n \in 1..Len(logs[s]) : logs'[s][n] = logs[s][n]
     \/ /\ ~closed[s] /\ ~closed'[s] /\ wake'[s]
        /\ e.type # "log"
        /\ logs'[s] = logs[s]
        /\ DOMAIN states'[s] = DOMAIN states[s] \cup {k}
        /\ states'[s][k] = e
        /\ \A x \in DOMAIN states[s] \ {k} : states'[s][x] = states[s][x]

QueueOK ==
  /\ DOMAIN states = Subscribers
  /\ logs \in [Subscribers -> Seq(LogEvent)]
  /\ wake \in [Subscribers -> BOOLEAN]
  /\ closed \in [Subscribers -> BOOLEAN]
  /\ \A s \in Subscribers :
       /\ DOMAIN states[s] \subseteq Instances \cup {ShutdownKey}
       /\ \A k \in DOMAIN states[s] :
            states[s][k] \in IF k = ShutdownKey THEN EndEvent ELSE ChangeEvent
       /\ IsFiniteSet(DOMAIN states[s]) /\ Cardinality(DOMAIN states[s]) <= StateLimit
       /\ Len(logs[s]) <= LogLimit

\* What enqueue leaves of a subscriber's queues, wake slot and closure.
LEMMA EnqueueEffect ==
  ASSUME QueueOK, NEW s \in Subscribers, NEW k, NEW e, Enqueue(s, k, e),
         \/ e \in LogEvent
         \/ e \in ChangeEvent /\ k \in Instances
         \/ e \in EndEvent /\ k = ShutdownKey
  PROVE  Enqueued(s, k, e) /\ QueueOK'
  <1> USE LimitAssumption, NameAssumption DEF QueueOK
  <1>1. CASE closed[s] /\ UNCHANGED queueVars
    BY <1>1 DEF Enqueued, queueVars
  <1>2. CASE closed' = [closed EXCEPT ![s] = TRUE] /\ UNCHANGED <<states, logs, wake>>
    BY <1>2 DEF Enqueued
  <1>3. CASE /\ ~closed[s] /\ ~Full(s, k, e) /\ Put(s, k, e)
             /\ wake' = [wake EXCEPT ![s] = TRUE] /\ closed' = closed
    <2>1. CASE e.type = "log"
      <3>1. e \in LogEvent
        BY <2>1, EventFacts
      <3>2. logs' = [logs EXCEPT ![s] = Append(logs[s], e)] /\ states' = states
        BY <1>3, <2>1 DEF Put
      <3>3. /\ Append(logs[s], e) \in Seq(LogEvent)
            /\ Len(logs[s]) \in Nat /\ Len(Append(logs[s], e)) = Len(logs[s]) + 1
            /\ Append(logs[s], e)[Len(logs[s]) + 1] = e
            /\ \A n \in 1..Len(logs[s]) : Append(logs[s], e)[n] = logs[s][n]
        BY <3>1, AppendFacts
      <3>4. logs'[s] = Append(logs[s], e) /\ \A x \in Subscribers : x # s => logs'[x] = logs[x]
        BY <3>2
      <3>5. Len(logs[s]) < LogLimit
        BY <1>3, <2>1, <3>3 DEF Full
      <3>6. logs' \in [Subscribers -> Seq(LogEvent)]
        BY <3>2, <3>3
      <3>7. Enqueued(s, k, e)
        BY <1>3, <2>1, <3>2, <3>3, <3>4, <3>5 DEF Enqueued
      <3>8. QueueOK'
        BY <1>3, <3>2, <3>3, <3>4, <3>5, <3>6
      <3> QED BY <3>7, <3>8
    <2>2. CASE e.type # "log"
      <3> DEFINE after == [x \in DOMAIN states[s] \cup {k} |-> IF x = k THEN e ELSE states[s][x]]
      <3>1. logs' = logs /\ states' = [states EXCEPT ![s] = after]
        BY <1>3, <2>2 DEF Put, SetState
      <3>2. states'[s] = after /\ \A x \in Subscribers : x # s => states'[x] = states[x]
        BY <3>1
      <3>3. e \notin LogEvent
        BY <2>2, EventFacts
      <3>4. DOMAIN after \subseteq Instances \cup {ShutdownKey}
        BY <3>3
      <3>5. \A x \in DOMAIN after : after[x] \in IF x = ShutdownKey THEN EndEvent ELSE ChangeEvent
        BY <3>3
      <3>6. IsFiniteSet(DOMAIN after) /\ Cardinality(DOMAIN after) <= StateLimit
        <4>1. DOMAIN after = DOMAIN states[s] \cup {k}
          OBVIOUS
        <4>2. CASE k \in DOMAIN states[s]
          <5>1. DOMAIN after = DOMAIN states[s]
            BY <4>1, <4>2
          <5> QED BY <5>1
        <4>3. CASE k \notin DOMAIN states[s]
          <5>1. Cardinality(DOMAIN states[s]) # StateLimit
            BY <1>3, <2>2, <4>3 DEF Full
          <5>2. Cardinality(DOMAIN states[s]) \in Nat
            BY FS_CardinalityType
          <5>3. /\ IsFiniteSet(DOMAIN states[s] \cup {k})
                /\ Cardinality(DOMAIN states[s] \cup {k}) = Cardinality(DOMAIN states[s]) + 1
            BY <4>3, FS_AddElement
          <5> QED BY <4>1, <5>1, <5>2, <5>3
        <4> QED BY <4>2, <4>3
      <3>7. Enqueued(s, k, e)
        BY <1>3, <2>2, <3>1, <3>2 DEF Enqueued
      <3>8. QueueOK'
        <4> HIDE DEF after
        <4> QED BY <1>3, <3>1, <3>2, <3>4, <3>5, <3>6
      <3> QED BY <3>7, <3>8
    <2> QED BY <2>1, <2>2
  <1> QED BY <1>1, <1>2, <1>3 DEF Enqueue

USE LimitAssumption, BoundAssumption, NameAssumption
    DEF instanceVars, queueVars, clientVars, Absent, Pending, Connected

\* A publisher's event reaches the queues of one subscriber, if it is still registered.
LEMMA SendEffect ==
  ASSUME TypeOK, TurnInv, NEW p \in Publishers, NEW s \in Subscribers, Send(p, s)
  PROVE  LET e == pub[p].event IN
         /\ pub[p].pc = "send" /\ s \in pub[p].left
         /\ e \in ChangeEvent \cup LogEvent /\ e.key \in Instances
         /\ HandsOver(p, "send", e, pub[p].left \ {s})
         /\ Enqueued(s, e.key, e) \/ (s \notin registered /\ UNCHANGED queueVars)
         /\ QueueOK'
         /\ UNCHANGED <<instanceVars, now, registered, clientVars, ending>>
  <1> DEFINE e == pub[p].event
  <1>1. pub[p].pc = "send" /\ s \in pub[p].left
    BY DEF Send
  <1>2. e \in ChangeEvent \cup LogEvent /\ e.key \in Instances
    BY <1>1, EventFacts DEF TurnInv
  <1>3. HandsOver(p, "send", e, pub[p].left \ {s})
    BY SendTurn
  <1>4. QueueOK
    BY DEF TypeOK, QueueOK
  <1>5. \/ Enqueued(s, e.key, e) /\ QueueOK'
        \/ s \notin registered /\ UNCHANGED queueVars /\ QueueOK'
    <2>1. CASE Enqueue(s, e.key, e)
      BY <1>2, <1>4, <2>1, EnqueueEffect
    <2>2. CASE s \notin registered /\ UNCHANGED queueVars
      BY <1>4, <2>2 DEF QueueOK
    <2> QED BY <2>1, <2>2 DEF Send
  <1>6. UNCHANGED <<instanceVars, now, registered, clientVars, ending>>
    BY DEF Send
  <1> QED BY <1>1, <1>2, <1>3, <1>5, <1>6

\* The shutdown event reaches one subscriber, later than everything so far.
LEMMA ShutdownEffect ==
  ASSUME TypeOK, NEW s \in Subscribers, ShutdownOne(s)
  PROVE  \E e \in EndEvent :
           /\ now' \in Nat /\ now' >= now /\ e.time = now' /\ e.type = "shutdown"
           /\ Enqueued(s, ShutdownKey, e) \/ (s \notin registered /\ UNCHANGED queueVars)
           /\ QueueOK'
           /\ s \in ending /\ ending' = ending \ {s} /\ registered' = registered \ {s}
           /\ UNCHANGED <<instanceVars, pub, clientVars>>
  <1> DEFINE e == [type |-> "shutdown", time |-> now']
  <1>1. now' \in Nat /\ now' >= now
    BY DEF ShutdownOne, Clock, TypeOK
  <1>2. e \in EndEvent /\ e.time = now' /\ e.type = "shutdown"
    BY <1>1 DEF EndEvent
  <1>3. QueueOK
    BY DEF TypeOK, QueueOK
  <1>4. \/ Enqueued(s, ShutdownKey, e) /\ QueueOK'
        \/ s \notin registered /\ UNCHANGED queueVars /\ QueueOK'
    <2>1. CASE Enqueue(s, ShutdownKey, e)
      BY <1>2, <1>3, <2>1, EnqueueEffect
    <2>2. CASE s \notin registered /\ UNCHANGED queueVars
      BY <1>3, <2>2 DEF QueueOK
    <2> QED BY <2>1, <2>2 DEF ShutdownOne
  <1>5. /\ s \in ending /\ ending' = ending \ {s} /\ registered' = registered \ {s}
        /\ UNCHANGED <<instanceVars, pub, clientVars>>
    BY DEF ShutdownOne
  <1> QED BY <1>1, <1>2, <1>4, <1>5

\* The handler writes the first line of the log queue and takes it out (next).
LEMMA DeliverEffect ==
  ASSUME TypeOK, NEW s \in Subscribers, DeliverLog(s)
  PROVE  LET e == logs[s][1] IN
         /\ e \in LogEvent
         /\ Len(logs[s]) \in Nat \ {0} /\ Len(logs'[s]) = Len(logs[s]) - 1
         /\ \A n \in 1..Len(logs'[s]) : logs'[s][n] = logs[s][n + 1]
         /\ \A x \in Subscribers : x # s => logs'[x] = logs[x] /\ heard'[x] = heard[x]
         /\ heard'[s][e.key] = e.line
         /\ \A i \in Instances : i # e.key => heard'[s][i] = heard[s][i]
         /\ heard' \in [Subscribers -> [Instances -> 0..MaxLines]]
         /\ QueueOK'
  <1> DEFINE q == logs[s]
             e == logs[s][1]
  <1>1. q \in Seq(LogEvent) /\ q # <<>>
    BY DEF DeliverLog, LogIsFirst, TypeOK
  <1>2. /\ Tail(q) \in Seq(LogEvent)
        /\ Len(q) \in Nat \ {0} /\ Len(Tail(q)) = Len(q) - 1
        /\ e \in LogEvent
        /\ \A n \in 1..(Len(q) - 1) : Tail(q)[n] = q[n + 1]
    BY <1>1, TailFacts
  <1>3. e.key \in Instances /\ e.line \in 1..MaxLines
    BY <1>2, EventFacts
  <1>4. logs' = [logs EXCEPT ![s] = Tail(q)]
    BY DEF DeliverLog
  <1>5. /\ logs' \in [Subscribers -> Seq(LogEvent)] /\ logs'[s] = Tail(q)
        /\ \A x \in Subscribers : x # s => logs'[x] = logs[x]
    BY <1>2, <1>4 DEF TypeOK
  <1>6. heard' = [heard EXCEPT ![s][e.key] = e.line]
    BY DEF DeliverLog
  <1>7. /\ heard' \in [Subscribers -> [Instances -> 0..MaxLines]]
        /\ heard'[s][e.key] = e.line
        /\ \A x \in Subscribers : x # s => heard'[x] = heard[x]
        /\ \A i \in Instances : i # e.key => heard'[s][i] = heard[s][i]
    BY <1>3, <1>6 DEF TypeOK
  <1>8. QueueOK'
    BY <1>2, <1>5 DEF DeliverLog, TypeOK, QueueOK
  <1> QED BY <1>2, <1>5, <1>7, <1>8

-----------------------------------------------------------------------------
(* The parts of the invariant, step by step *)

\* A step that touches no queue and no handler.
LEMMA QueuesAlone ==
  ASSUME TypeOK, JoinedInv, WakeInv, UNCHANGED <<queueVars, clientVars, registered, ending>>
  PROVE  QueueOK' /\ JoinedInv' /\ WakeInv'
  <1>1. QueueOK'
    BY DEF TypeOK, QueueOK, queueVars
  <1>2. JoinedInv' /\ WakeInv'
    BY DEF JoinedInv, WakeInv, queueVars, clientVars
  <1> QED BY <1>1, <1>2

\* A step that changes neither the lines of a subscriber nor what is sent to it.
LEMMA LinesAlone ==
  ASSUME LogsComplete,
         registered' \subseteq registered,
         \A s \in registered' : /\ logs'[s] = logs[s]
                                /\ heard'[s] = heard[s]
                                /\ Connected(s)' => Connected(s)
                                /\ \A i \in Instances : LastSent(s, i)' = LastSent(s, i)
  PROVE  LogsComplete'
  BY DEF LogsComplete

\* What is pending and connected does not change; the publishers that log do not either.
LEMMA LastSentAlone ==
  ASSUME TypeOK, UNCHANGED <<mu, lines>>, NEW s \in Subscribers, NEW i \in Instances,
         mu[i] # None => (s \in pub'[mu[i]].left <=> s \in pub[mu[i]].left)
  PROVE  LastSent(s, i)' = LastSent(s, i)
  BY DEF LastSent, TypeOK

\* A publisher goes on with an event that is not a log line: Create, Change, Delete, Stamp,
\* Snapshot and StartRange.
LEMMA TurnStep ==
  ASSUME HubInv, NEW p \in Publishers, pub[p].pc # "send",
         NEW place \in {"stamp", "snap", "range", "send"}, NEW e \in ChangeEvent,
         NEW left \in SUBSET registered, left # {} => place = "send",
         HandsOver(p, place, e, left),
         now' \in Nat, now' >= now, e.time <= now',
         version' \in [Instances -> Absent..MaxVersion], present' \in [Instances -> BOOLEAN],
         told' \in [Instances -> Absent..MaxVersion],
         UNCHANGED <<lines, mu, queueVars, clientVars, registered, ending>>
  PROVE  HubInv'
  <1>1. /\ TypeOK /\ TurnInv /\ JoinedInv /\ MuInv /\ TimeInv /\ EndInv
        /\ WakeInv /\ LogsComplete /\ ShutdownIsLast
    BY DEF HubInv
  <1>2. QueueOK' /\ JoinedInv' /\ WakeInv'
    BY <1>1, QueuesAlone
  <1>3. /\ pub' \in [Publishers -> Turn] /\ pub'[p].pc = place /\ pub'[p].event = e
        /\ pub'[p].left = left /\ \A x \in Publishers : x # p => pub'[x] = pub[x]
    BY DEF HandsOver
  <1>4. TypeOK'
    BY <1>1, <1>2, <1>3 DEF TypeOK, QueueOK, queueVars, clientVars
  <1>5. TurnInv'
    BY <1>1, <1>3 DEF TurnInv, JoinedInv, clientVars
  <1>6. MuInv'
    <2>1. \A i \in Instances : mu[i] # None => mu[i] \in Publishers /\ mu[i] # p
      BY <1>1 DEF MuInv, TypeOK
    <2> QED BY <1>1, <1>3, <2>1, EventFacts DEF MuInv
  <1>7. TimeInv'
    <2>1. \A x \in Publishers : pub'[x].pc # "idle" => pub'[x].event.time <= now'
      <3> SUFFICES ASSUME NEW x \in Publishers, pub'[x].pc # "idle", x # p
                   PROVE  pub'[x].event.time <= now'
        BY <1>3
      <3>1. pub[x].event.time <= now /\ pub[x].event.time \in Nat
        <4>1. pub[x].event \in ChangeEvent \cup LogEvent
          BY <1>1, <1>3 DEF TypeOK, Turn, TurnInv
        <4> QED BY <1>1, <1>3, <4>1, EventFacts DEF TimeInv
      <3> QED BY <1>1, <1>3, <3>1 DEF TypeOK
    <2>2. \A s \in Subscribers : \A k \in DOMAIN states[s] : states[s][k].time \in Nat
      BY <1>1, EventFacts DEF TypeOK
    <2>3. \A s \in Subscribers : \A n \in 1..Len(logs[s]) : logs[s][n].time \in Nat
      BY <1>1, EventFacts DEF TypeOK
    <2> QED BY <1>1, <2>1, <2>2, <2>3 DEF TimeInv, TypeOK, queueVars
  <1>8. EndInv'
    BY <1>1, <1>3 DEF EndInv, queueVars, clientVars
  <1>9. LogsComplete'
    <2>1. \A s \in Subscribers, i \in Instances : LastSent(s, i)' = LastSent(s, i)
      <3>1. \A i \in Instances : mu[i] # None => mu[i] \in Publishers /\ mu[i] # p
        BY <1>1 DEF MuInv, TypeOK
      <3> QED BY <1>1, <1>3, <3>1, LastSentAlone
    <2>2. registered' \subseteq Subscribers
      BY <1>1 DEF TypeOK
    <2> QED BY <1>1, <2>1, <2>2, LinesAlone DEF queueVars, clientVars, Connected
  <1>10. ShutdownIsLast'
    BY <1>1 DEF ShutdownIsLast, queueVars
  <1> QED BY <1>2, <1>4, <1>5, <1>6, <1>7, <1>8, <1>9, <1>10 DEF HubInv

\* The steps of a change, before it is sent, keep the invariant.
LEMMA NewsStep ==
  ASSUME HubInv, NEW p \in Publishers,
         \/ \E i \in Instances : Create(p, i) \/ Change(p, i) \/ Delete(p, i)
         \/ Stamp(p) \/ Snapshot(p) \/ StartRange(p)
  PROVE  HubInv'
  <1> USE BoundAssumption
  <1>1. TypeOK /\ TurnInv /\ TimeInv
    BY DEF HubInv
  <1>2. /\ version \in [Instances -> Absent..MaxVersion] /\ present \in [Instances -> BOOLEAN]
        /\ told \in [Instances -> Absent..MaxVersion] /\ now \in Nat
    BY <1>1 DEF TypeOK
  <1>3. ASSUME NEW i \in Instances, NEW type \in {"create", "update", "delete"},
               Announce(p, type, i), version' \in [Instances -> Absent..MaxVersion],
               present' \in [Instances -> BOOLEAN]
        PROVE  HubInv'
    <2>1. PICK e \in ChangeEvent : e.time = 0 /\ HandsOver(p, "stamp", e, {})
      BY <1>1, <1>3, AnnounceTurn
    <2>2. /\ pub[p].pc # "send" /\ now' = now
          /\ UNCHANGED <<lines, mu, queueVars, clientVars, registered, ending>>
      BY <1>3 DEF Announce
    <2>3. told' \in [Instances -> Absent..MaxVersion]
      BY <1>2, <1>3 DEF Announce
    <2> QED BY <1>2, <1>3, <2>1, <2>2, <2>3, TurnStep
  <1>4. ASSUME NEW i \in Instances, Create(p, i) PROVE HubInv'
    BY <1>2, <1>3, <1>4 DEF Create, Absent
  <1>5. ASSUME NEW i \in Instances, Change(p, i) PROVE HubInv'
    BY <1>2, <1>3, <1>5 DEF Change, Absent
  <1>6. ASSUME NEW i \in Instances, Delete(p, i) PROVE HubInv'
    BY <1>2, <1>3, <1>6 DEF Delete
  <1>7. CASE Stamp(p)
    <2>1. PICK e \in ChangeEvent : e.time = now' /\ HandsOver(p, "snap", e, {})
      BY <1>1, <1>7, StampTurn
    <2>2. /\ pub[p].pc # "send" /\ now' \in Nat /\ now' >= now
          /\ UNCHANGED <<version, present, told, lines, mu, queueVars, clientVars, registered, ending>>
      BY <1>2, <1>7 DEF Stamp, Clock, instanceVars
    <2> QED BY <1>2, <2>1, <2>2, TurnStep
  <1>8. CASE Snapshot(p)
    <2>1. PICK e \in ChangeEvent : e.time = pub[p].event.time /\ HandsOver(p, "range", e, {})
      BY <1>1, <1>8, SnapshotTurn
    <2>2. /\ pub[p].pc = "snap" /\ now' = now
          /\ UNCHANGED <<version, present, told, lines, mu, queueVars, clientVars, registered, ending>>
      BY <1>8 DEF Snapshot, instanceVars
    <2>3. e.time <= now
      BY <1>1, <2>1, <2>2 DEF TimeInv
    <2> QED BY <1>2, <2>1, <2>2, <2>3, TurnStep
  <1>9. CASE StartRange(p)
    <2>1. HandsOver(p, "send", pub[p].event, registered)
      BY <1>1, <1>9, RangeTurn
    <2>2. /\ pub[p].pc = "range" /\ now' = now
          /\ UNCHANGED <<version, present, told, lines, mu, queueVars, clientVars, registered, ending>>
      BY <1>9 DEF StartRange, instanceVars
    <2>3. pub[p].event \in ChangeEvent /\ pub[p].event.time <= now
      BY <1>1, <2>2 DEF TurnInv, TimeInv
    <2> QED BY <1>2, <2>1, <2>2, <2>3, TurnStep
  <1> QED BY <1>4, <1>5, <1>6, <1>7, <1>8, <1>9

\* So does a change of which nobody sends an event.
LEMMA SilentStep == ASSUME HubInv, NEW i \in Instances, ChangeSilently(i) PROVE HubInv'
  <1>1. /\ TypeOK /\ TurnInv /\ JoinedInv /\ MuInv /\ TimeInv /\ EndInv
        /\ WakeInv /\ LogsComplete /\ ShutdownIsLast
    BY DEF HubInv
  <1>2. /\ version' \in [Instances -> Absent..MaxVersion]
        /\ UNCHANGED <<present, told, lines, mu, now, pub, registered, queueVars, clientVars, ending>>
    BY <1>1, BoundAssumption DEF ChangeSilently, TypeOK
  <1>3. QueueOK' /\ JoinedInv' /\ WakeInv'
    BY <1>1, <1>2, QueuesAlone
  <1>4. TypeOK'
    BY <1>1, <1>2, <1>3 DEF TypeOK, QueueOK, queueVars, clientVars
  <1>5. TurnInv' /\ MuInv' /\ TimeInv' /\ EndInv' /\ ShutdownIsLast'
    BY <1>1, <1>2 DEF TurnInv, MuInv, TimeInv, EndInv, ShutdownIsLast, queueVars, clientVars
  <1>6. LogsComplete'
    BY <1>1, <1>2 DEF LogsComplete, LastSent, Connected, queueVars, clientVars
  <1> QED BY <1>3, <1>4, <1>5, <1>6 DEF HubInv

\* So does the publication of a log line.
LEMMA LogStep == ASSUME HubInv, NEW p \in Publishers, NEW i \in Instances, Log(p, i) PROVE HubInv'
  <1>1. /\ TypeOK /\ TurnInv /\ JoinedInv /\ MuInv /\ TimeInv /\ EndInv
        /\ WakeInv /\ LogsComplete /\ ShutdownIsLast
    BY DEF HubInv
  <1>2. PICK e \in LogEvent : /\ e.key = i /\ e.line = lines'[i] /\ e.time = now'
                              /\ HandsOver(p, "send", e, registered)
    BY <1>1, LogTurn
  <1>3. /\ pub' \in [Publishers -> Turn] /\ pub'[p].pc = "send" /\ pub'[p].event = e
        /\ pub'[p].left = registered /\ \A x \in Publishers : x # p => pub'[x] = pub[x]
    BY <1>2 DEF HandsOver
  <1>4. /\ pub[p].pc = "idle" /\ mu[i] = None /\ now' \in Nat /\ now' >= now
        /\ mu' = [mu EXCEPT ![i] = p] /\ lines' = [lines EXCEPT ![i] = @ + 1]
        /\ lines[i] < MaxLines
        /\ UNCHANGED <<version, present, told, registered, queueVars, clientVars, ending>>
    BY <1>1 DEF Log, Clock, TypeOK
  <1>5. QueueOK' /\ JoinedInv' /\ WakeInv'
    BY <1>1, <1>4, QueuesAlone
  <1>6. TypeOK'
    <2>1. lines' \in [Instances -> 0..MaxLines] /\ mu' \in [Instances -> Publishers \cup {None}]
      BY <1>1, <1>4, BoundAssumption DEF TypeOK
    <2> QED BY <1>1, <1>3, <1>4, <1>5, <2>1 DEF TypeOK, QueueOK, clientVars
  <1>7. TurnInv'
    <2>1. ASSUME NEW x \in Publishers
          PROVE  /\ pub'[x].pc \in {"stamp", "snap", "range"} => pub'[x].event \in ChangeEvent
                 /\ pub'[x].pc = "send" => pub'[x].event \in ChangeEvent \cup LogEvent
                 /\ pub'[x].left # {} => pub'[x].pc = "send"
                 /\ \A s \in pub'[x].left : handler[s] # "out"
      <3>1. CASE x = p
        BY <1>1, <1>2, <1>3, <3>1 DEF JoinedInv
      <3>2. CASE x # p
        BY <1>1, <1>3, <3>2 DEF TurnInv
      <3> QED BY <3>1, <3>2
    <2> QED BY <1>4, <2>1 DEF TurnInv
  <1>8. \A j \in Instances : mu[j] # None => mu[j] \in Publishers /\ mu[j] # p
    BY <1>1, <1>4 DEF MuInv, TypeOK
  <1>9. MuInv'
    <2>1. /\ mu'[i] = p /\ lines'[i] = lines[i] + 1
          /\ \A j \in Instances : j # i => mu'[j] = mu[j] /\ lines'[j] = lines[j]
      BY <1>1, <1>4 DEF TypeOK
    <2>2. ASSUME NEW x \in Publishers, pub'[x].pc = "send", pub'[x].event \in LogEvent
          PROVE  mu'[pub'[x].event.key] = x
      <3>1. CASE x = p
        BY <1>2, <1>3, <2>1, <3>1
      <3>2. CASE x # p
        <4>1. mu[pub[x].event.key] = x /\ pub[x].event.key \in Instances
          BY <1>1, <1>3, <2>2, <3>2, EventFacts DEF MuInv
        <4>2. pub[x].event.key # i
          BY <1>4, <4>1, NameAssumption
        <4> QED BY <1>3, <2>1, <3>2, <4>1, <4>2
      <3> QED BY <3>1, <3>2
    <2>3. ASSUME NEW j \in Instances, mu'[j] # None
          PROVE  LET t == pub'[mu'[j]] IN
                 t.pc = "send" /\ t.event \in LogEvent /\ t.event.key = j /\ t.event.line = lines'[j]
      <3>1. CASE j = i
        BY <1>2, <1>3, <2>1, <3>1
      <3>2. CASE j # i
        BY <1>1, <1>3, <1>8, <2>1, <2>3, <3>2 DEF MuInv
      <3> QED BY <3>1, <3>2
    <2> QED BY <2>2, <2>3 DEF MuInv
  <1>10. TimeInv'
    <2>1. ASSUME NEW x \in Publishers, pub'[x].pc # "idle" PROVE pub'[x].event.time <= now'
      <3>1. CASE x = p
        BY <1>2, <1>3, <1>4, <3>1
      <3>2. CASE x # p
        <4>1. pub[x].event \in ChangeEvent \cup LogEvent
          BY <1>1, <1>3, <2>1, <3>2 DEF TypeOK, Turn, TurnInv
        <4>2. pub[x].event.time <= now /\ pub[x].event.time \in Nat
          BY <1>1, <1>3, <2>1, <3>2, <4>1, EventFacts DEF TimeInv
        <4> QED BY <1>1, <1>3, <1>4, <3>2, <4>2 DEF TypeOK
      <3> QED BY <3>1, <3>2
    <2>2. \A s \in Subscribers : \A k \in DOMAIN states[s] : states[s][k].time \in Nat
      BY <1>1, EventFacts DEF TypeOK
    <2>3. \A s \in Subscribers : \A n \in 1..Len(logs[s]) : logs[s][n].time \in Nat
      BY <1>1, EventFacts DEF TypeOK
    <2>4. now \in Nat
      BY <1>1 DEF TypeOK
    <2>5. \A s \in Subscribers : \A k \in DOMAIN states'[s] : states'[s][k].time <= now'
      BY <1>1, <1>4, <2>2, <2>4 DEF TimeInv
    <2>6. \A s \in Subscribers : \A n \in 1..Len(logs'[s]) : logs'[s][n].time <= now'
      BY <1>1, <1>4, <2>3, <2>4 DEF TimeInv
    <2> QED BY <2>1, <2>5, <2>6 DEF TimeInv
  <1>11. EndInv'
    BY <1>1, <1>3, <1>4 DEF EndInv, queueVars, clientVars
  <1>12. LogsComplete'
    <2>1. ASSUME NEW s \in registered, NEW j \in Instances PROVE LastSent(s, j)' = LastSent(s, j)
      <3>1. CASE j = i
        <4>1. LastSent(s, j) = lines[i]
          BY <1>4, <3>1, NameAssumption DEF LastSent
        <4>2. LastSent(s, j)' = lines'[i] - 1
          BY <1>1, <1>3, <1>4, <3>1 DEF LastSent, TypeOK
        <4> QED BY <1>1, <1>4, <4>1, <4>2 DEF TypeOK
      <3>2. CASE j # i
        <4>1. mu'[j] = mu[j] /\ lines'[j] = lines[j]
          BY <1>1, <1>4, <3>2 DEF TypeOK
        <4> QED BY <1>3, <1>8, <4>1 DEF LastSent
      <3> QED BY <3>1, <3>2
    <2> QED BY <1>1, <1>4, <2>1, LinesAlone DEF queueVars, clientVars, Connected
  <1>13. ShutdownIsLast'
    BY <1>1, <1>4 DEF ShutdownIsLast, queueVars
  <1> QED BY <1>5, <1>6, <1>7, <1>9, <1>10, <1>11, <1>12, <1>13 DEF HubInv

\* So does the end of a publication.
LEMMA SentStep == ASSUME HubInv, NEW p \in Publishers, Sent(p) PROVE HubInv'
  <1>1. /\ TypeOK /\ TurnInv /\ JoinedInv /\ MuInv /\ TimeInv /\ EndInv
        /\ WakeInv /\ LogsComplete /\ ShutdownIsLast
    BY DEF HubInv
  <1>2. /\ pub' \in [Publishers -> Turn] /\ pub'[p].pc = "idle"
        /\ pub'[p].left = {} /\ \A x \in Publishers : x # p => pub'[x] = pub[x]
    BY <1>1, SentTurn DEF HandsOver
  <1>3. /\ pub[p].left = {} /\ pub[p].pc = "send"
        /\ mu' = [i \in Instances |-> IF mu[i] = p THEN None ELSE mu[i]]
        /\ UNCHANGED <<version, present, told, lines, now, registered, queueVars, clientVars, ending>>
    BY DEF Sent
  <1>4. QueueOK' /\ JoinedInv' /\ WakeInv'
    BY <1>1, <1>3, QueuesAlone
  <1>5. TypeOK'
    <2>1. mu' \in [Instances -> Publishers \cup {None}]
      BY <1>1, <1>3 DEF TypeOK
    <2> QED BY <1>1, <1>2, <1>3, <1>4, <2>1 DEF TypeOK, QueueOK, clientVars
  <1>6. TurnInv'
    BY <1>1, <1>2, <1>3 DEF TurnInv, clientVars
  <1>7. MuInv'
    <2>1. ASSUME NEW x \in Publishers, pub'[x].pc = "send", pub'[x].event \in LogEvent
          PROVE  mu'[pub'[x].event.key] = x
      <3>1. x # p /\ pub'[x] = pub[x]
        BY <1>2, <2>1
      <3>2. mu[pub[x].event.key] = x /\ pub[x].event.key \in Instances
        BY <1>1, <2>1, <3>1, EventFacts DEF MuInv
      <3> QED BY <1>3, <3>1, <3>2
    <2>2. ASSUME NEW j \in Instances, mu'[j] # None
          PROVE  LET t == pub'[mu'[j]] IN
                 t.pc = "send" /\ t.event \in LogEvent /\ t.event.key = j /\ t.event.line = lines'[j]
      <3>1. mu'[j] = mu[j] /\ mu[j] # p /\ mu[j] \in Publishers
        BY <1>1, <1>3, <2>2 DEF TypeOK
      <3> QED BY <1>1, <1>2, <1>3, <2>2, <3>1 DEF MuInv
    <2> QED BY <2>1, <2>2 DEF MuInv
  <1>8. TimeInv'
    BY <1>1, <1>2, <1>3 DEF TimeInv, queueVars
  <1>9. EndInv'
    BY <1>1, <1>2, <1>3 DEF EndInv, queueVars, clientVars
  <1>10. LogsComplete'
    <2>1. ASSUME NEW s \in Subscribers, NEW i \in Instances PROVE LastSent(s, i)' = LastSent(s, i)
      <3>1. CASE mu[i] = p
        BY <1>2, <1>3, <3>1, NameAssumption DEF LastSent
      <3>2. CASE mu[i] # p
        <4>1. mu'[i] = mu[i]
          BY <1>3, <3>2
        <4> QED BY <1>2, <1>3, <3>2, <4>1 DEF LastSent
      <3> QED BY <3>1, <3>2
    <2>2. registered' \subseteq Subscribers
      BY <1>1, <1>3 DEF TypeOK
    <2> QED BY <1>1, <1>3, <2>1, <2>2, LinesAlone DEF queueVars, clientVars, Connected
  <1>11. ShutdownIsLast'
    BY <1>1, <1>3 DEF ShutdownIsLast, queueVars
  <1> QED BY <1>4, <1>5, <1>6, <1>7, <1>8, <1>9, <1>10, <1>11 DEF HubInv

\* So does handing an event to a subscriber.
LEMMA SendStep ==
  ASSUME HubInv, NEW p \in Publishers, NEW s \in Subscribers, Send(p, s)
  PROVE  HubInv'
  <1> DEFINE e == pub[p].event
  <1>1. /\ TypeOK /\ TurnInv /\ JoinedInv /\ MuInv /\ TimeInv /\ EndInv
        /\ WakeInv /\ LogsComplete /\ ShutdownIsLast
    BY DEF HubInv
  <1>2. /\ pub[p].pc = "send" /\ s \in pub[p].left
        /\ e \in ChangeEvent \cup LogEvent /\ e.key \in Instances
        /\ HandsOver(p, "send", e, pub[p].left \ {s})
        /\ Enqueued(s, e.key, e) \/ (s \notin registered /\ UNCHANGED queueVars)
        /\ QueueOK'
        /\ UNCHANGED <<instanceVars, now, registered, clientVars, ending>>
    BY <1>1, SendEffect
  <1>3. /\ pub' \in [Publishers -> Turn]
        /\ \A x \in Publishers : /\ pub'[x].pc = pub[x].pc /\ pub'[x].event = pub[x].event
                                 /\ pub'[x].left \subseteq pub[x].left
                                 /\ \A y \in Subscribers : y # s => (y \in pub'[x].left <=> y \in pub[x].left)
        /\ s \notin pub'[p].left
        /\ \A x \in Publishers : x # p => pub'[x] = pub[x]
    BY <1>2 DEF HandsOver
  <1>4. handler[s] # "out" /\ e.time <= now /\ e.key # ShutdownKey
    BY <1>1, <1>2 DEF TurnInv, TimeInv
  <1>5. \A x \in Subscribers : x # s => /\ states'[x] = states[x] /\ logs'[x] = logs[x]
                                        /\ wake'[x] = wake[x] /\ closed'[x] = closed[x]
    BY <1>2 DEF Enqueued
  \* What is queued at s afterwards.
  <1>6. \/ states'[s] = states[s] /\ logs'[s] = logs[s] /\ wake'[s] = wake[s]
                                  /\ (closed'[s] \/ closed'[s] = closed[s])
        \/ states'[s] = states[s] /\ wake'[s] /\ Len(logs'[s]) = Len(logs[s]) + 1
                                  /\ logs'[s][Len(logs[s]) + 1] = e
                                  /\ \A n \in 1..Len(logs[s]) : logs'[s][n] = logs[s][n]
        \/ logs'[s] = logs[s] /\ wake'[s] /\ DOMAIN states'[s] = DOMAIN states[s] \cup {e.key}
                              /\ states'[s][e.key] = e
                              /\ \A x \in DOMAIN states[s] \ {e.key} : states'[s][x] = states[s][x]
    BY <1>2 DEF Enqueued
  <1>7. /\ \A k \in DOMAIN states'[s] : states'[s][k] = e \/ (k \in DOMAIN states[s] /\ states'[s][k] = states[s][k])
        /\ \A n \in 1..Len(logs'[s]) : logs'[s][n] = e \/ (n \in 1..Len(logs[s]) /\ logs'[s][n] = logs[s][n])
        /\ ShutdownKey \in DOMAIN states'[s] =>
             ShutdownKey \in DOMAIN states[s] /\ states'[s][ShutdownKey] = states[s][ShutdownKey]
    <2>1. Len(logs[s]) \in Nat
      BY <1>1 DEF TypeOK
    <2> QED BY <1>4, <1>6, <2>1
  <1>8. TypeOK'
    BY <1>1, <1>2, <1>3 DEF TypeOK, QueueOK
  <1>9. TurnInv'
    BY <1>1, <1>2, <1>3 DEF TurnInv
  <1>10. JoinedInv'
    BY <1>1, <1>2, <1>4, <1>5 DEF JoinedInv
  <1>11. MuInv'
    <2>1. \A i \in Instances : mu[i] # None => mu[i] \in Publishers
      BY <1>1 DEF TypeOK
    <2> QED BY <1>1, <1>2, <1>3, <2>1 DEF MuInv
  <1>12. TimeInv'
    <2>1. now' = now
      BY <1>2
    <2>2. \A x \in Publishers : pub'[x].pc # "idle" => pub'[x].event.time <= now
      BY <1>1, <1>3 DEF TimeInv
    <2>3. ASSUME NEW y \in Subscribers
          PROVE  /\ \A k \in DOMAIN states'[y] : states'[y][k].time <= now
                 /\ \A n \in 1..Len(logs'[y]) : logs'[y][n].time <= now
      <3>1. CASE y = s
        BY <1>1, <1>4, <1>7, <3>1 DEF TimeInv
      <3>2. CASE y # s
        BY <1>1, <1>5, <3>2 DEF TimeInv
      <3> QED BY <3>1, <3>2
    <2> QED BY <2>1, <2>2, <2>3 DEF TimeInv
  <1>13. EndInv'
    <2>1. registered' = registered /\ handler' = handler
      BY <1>2
    <2>2. ASSUME NEW y \in Subscribers, ShutdownKey \in DOMAIN states'[y]
          PROVE  /\ ShutdownKey \in DOMAIN states[y]
                 /\ states'[y][ShutdownKey] = states[y][ShutdownKey]
      BY <1>5, <1>7, <2>2
    <2> QED BY <1>1, <1>3, <2>1, <2>2 DEF EndInv
  <1>14. WakeInv'
    <2>1. handler' = handler
      BY <1>2
    <2>2. closed'[s] \/ wake'[s] \/ (states'[s] = states[s] /\ logs'[s] = logs[s]
                                     /\ wake'[s] = wake[s] /\ closed'[s] = closed[s])
      BY <1>6
    <2> QED BY <1>1, <1>5, <2>1, <2>2 DEF WakeInv
  <1>15. LogsComplete'
    <2>1. registered' = registered /\ heard' = heard /\ handler' = handler /\ mu' = mu /\ lines' = lines
      BY <1>2
    <2>2. ASSUME NEW y \in registered, NEW i \in Instances, Connected(y)'
          PROVE  /\ heard[y][i] <= LastSent(y, i)'
                 /\ Holds(logs'[y], i, heard[y][i] + 1, LastSent(y, i)')
      <3>1. y \in Subscribers
        BY <1>1 DEF TypeOK
      <3>2. CASE y # s
        <4>1. LastSent(y, i)' = LastSent(y, i)
          <5>1. mu[i] # None => mu[i] \in Publishers
            BY <1>1 DEF TypeOK
          <5> QED BY <1>1, <1>3, <2>1, <3>1, <3>2, <5>1, LastSentAlone
        <4> QED BY <1>1, <1>5, <2>1, <2>2, <3>1, <3>2, <4>1 DEF LogsComplete
      <3>3. CASE y = s
        <4>1. ~closed'[s] /\ Enqueued(s, e.key, e)
          BY <1>2, <2>2, <3>3
        <4>2. Connected(s)
          BY <2>1, <2>2, <3>3, <4>1 DEF Enqueued
        <4>3. heard[s][i] <= LastSent(s, i) /\ Holds(logs[s], i, heard[s][i] + 1, LastSent(s, i))
          BY <1>1, <3>3, <4>2 DEF LogsComplete
        <4>4. /\ heard[s][i] \in Nat /\ lines[i] \in Nat
              /\ logs[s] \in Seq(LogEvent) /\ logs'[s] \in Seq(LogEvent)
          BY <1>1, <1>2 DEF TypeOK, QueueOK
        <4>5. CASE e \in LogEvent /\ e.key = i
          <5>1. mu[i] = p /\ e.line = lines[i]
            BY <1>1, <1>2, <4>5, NameAssumption DEF MuInv
          <5>2. LastSent(s, i) = lines[i] - 1 /\ LastSent(s, i)' = lines[i]
            BY <1>2, <1>3, <2>1, <5>1 DEF LastSent
          <5>3. /\ Len(logs'[s]) = Len(logs[s]) + 1 /\ logs'[s][Len(logs[s]) + 1] = e
                /\ \A n \in 1..Len(logs[s]) : logs'[s][n] = logs[s][n]
            BY <4>1, <4>5, EventFacts DEF Enqueued
          <5>4. lines[i] - 1 \in Nat /\ lines[i] = (lines[i] - 1) + 1
            BY <4>3, <4>4, <5>2
          <5>5. Holds(logs'[s], i, heard[s][i] + 1, (lines[i] - 1) + 1)
            <6> DEFINE q == logs[s]  r == logs'[s]  m == heard[s][i] + 1  n == lines[i] - 1
            <6>1. q \in Seq(LogEvent) /\ r \in Seq(LogEvent) /\ m \in Nat /\ n \in Nat
              BY <4>4, <5>4
            <6>2. e \in LogEvent /\ e.key = i /\ e.line = n + 1 /\ m <= n + 1
              <7>1. heard[s][i] + 1 <= (lines[i] - 1) + 1
                BY <4>3, <4>4, <5>2
              <7> QED BY <4>5, <5>1, <5>4, <7>1
            <6>3. Len(r) = Len(q) + 1 /\ r[Len(q) + 1] = e /\ \A x \in 1..Len(q) : r[x] = q[x]
              BY <5>3
            <6>4. Holds(q, i, m, n)
              BY <4>3, <5>2
            <6> HIDE DEF e, q, r, m, n
            <6>5. Holds(r, i, m, n + 1)
              BY ONLY <6>1, <6>2, <6>3, <6>4, HoldsAppend, i \in Instances
            <6> QED BY <6>5 DEF r, m, n
          <5> QED BY <3>3, <4>3, <4>4, <5>2, <5>4, <5>5
        <4>6. CASE ~(e \in LogEvent /\ e.key = i)
          <5>1. mu[i] # None => mu[i] \in Publishers /\ mu[i] # p
            BY <1>1, <4>6 DEF MuInv, TypeOK
          <5>2. LastSent(s, i)' = LastSent(s, i)
            BY <1>1, <1>3, <2>1, <5>1, LastSentAlone
          <5>3. LastSent(s, i) \in Nat
            BY <4>3, <4>4 DEF LastSent
          <5>4. Holds(logs'[s], i, heard[s][i] + 1, LastSent(s, i))
            <6>1. CASE e \in LogEvent
              <7>1. /\ Len(logs'[s]) = Len(logs[s]) + 1 /\ logs'[s][Len(logs[s]) + 1] = e
                    /\ \A n \in 1..Len(logs[s]) : logs'[s][n] = logs[s][n]
                BY <4>1, <6>1, EventFacts DEF Enqueued
              <7> DEFINE q == logs[s]  r == logs'[s]  m == heard[s][i] + 1  n == LastSent(s, i)
              <7>2. /\ q \in Seq(LogEvent) /\ r \in Seq(LogEvent) /\ m \in Nat /\ n \in Nat
                    /\ e \in LogEvent /\ e.key # i /\ Holds(q, i, m, n)
                BY <4>3, <4>4, <4>6, <5>3, <6>1
              <7>3. Len(r) = Len(q) + 1 /\ r[Len(q) + 1] = e /\ \A x \in 1..Len(q) : r[x] = q[x]
                BY <7>1
              <7> HIDE DEF e, q, r, m, n
              <7>4. Holds(r, i, m, n)
                BY ONLY <7>2, <7>3, HoldsAppend, i \in Instances
              <7> QED BY <7>4 DEF r, m, n
            <6>2. CASE e \in ChangeEvent
              <7>1. logs'[s] = logs[s]
                BY <4>1, <6>2, EventFacts DEF Enqueued
              <7> QED BY <4>3, <7>1
            <6> QED BY <1>2, <6>1, <6>2
          <5> QED BY <3>3, <4>3, <5>2, <5>4
        <4> QED BY <4>5, <4>6
      <3> QED BY <3>2, <3>3
    <2> QED BY <2>1, <2>2 DEF LogsComplete
  <1>16. ShutdownIsLast'
    <2> SUFFICES ASSUME NEW y \in Subscribers, ShutdownKey \in DOMAIN states'[y]
                 PROVE  LET t == states'[y][ShutdownKey].time IN
                        /\ \A k \in DOMAIN states'[y] \ {ShutdownKey} : states'[y][k].time <= t
                        /\ \A n \in 1..Len(logs'[y]) : logs'[y][n].time <= t
      BY DEF ShutdownIsLast
    <2>1. CASE y = s
      <3>1. e.time <= states[s][ShutdownKey].time
        BY <1>1, <1>2, <1>7, <2>1 DEF EndInv
      <3> QED BY <1>1, <1>7, <2>1, <3>1 DEF ShutdownIsLast
    <2>2. CASE y # s
      BY <1>1, <1>5, <2>2 DEF ShutdownIsLast
    <2> QED BY <2>1, <2>2
  <1> QED BY <1>8, <1>9, <1>10, <1>11, <1>12, <1>13, <1>14, <1>15, <1>16 DEF HubInv

\* So does telling a subscriber of the shutdown.
LEMMA ShutdownStep == ASSUME HubInv, NEW s \in Subscribers, ShutdownOne(s) PROVE HubInv'
  <1>1. /\ TypeOK /\ TurnInv /\ JoinedInv /\ MuInv /\ TimeInv /\ EndInv
        /\ WakeInv /\ LogsComplete /\ ShutdownIsLast
    BY DEF HubInv
  <1>2. PICK e \in EndEvent :
           /\ now' \in Nat /\ now' >= now /\ e.time = now' /\ e.type = "shutdown"
           /\ Enqueued(s, ShutdownKey, e) \/ (s \notin registered /\ UNCHANGED queueVars)
           /\ QueueOK'
           /\ s \in ending /\ ending' = ending \ {s} /\ registered' = registered \ {s}
           /\ UNCHANGED <<instanceVars, pub, clientVars>>
    BY <1>1, ShutdownEffect
  <1>3. handler[s] # "out" /\ now \in Nat
    BY <1>1, <1>2 DEF JoinedInv, TypeOK
  <1>4. \A x \in Subscribers : x # s => /\ states'[x] = states[x] /\ logs'[x] = logs[x]
                                        /\ wake'[x] = wake[x] /\ closed'[x] = closed[x]
    BY <1>2 DEF Enqueued
  <1>5. /\ logs'[s] = logs[s]
        /\ \/ states'[s] = states[s] /\ wake'[s] = wake[s]
                                     /\ (closed'[s] \/ closed'[s] = closed[s])
           \/ wake'[s] /\ DOMAIN states'[s] = DOMAIN states[s] \cup {ShutdownKey}
                       /\ states'[s][ShutdownKey] = e
                       /\ \A x \in DOMAIN states[s] \ {ShutdownKey} : states'[s][x] = states[s][x]
    BY <1>2 DEF Enqueued
  <1>6. \A k \in DOMAIN states'[s] : \/ k = ShutdownKey /\ states'[s][k] = e
                                     \/ k \in DOMAIN states[s] /\ states'[s][k] = states[s][k]
    BY <1>5
  <1>7. TypeOK'
    BY <1>1, <1>2 DEF TypeOK, QueueOK
  <1>8. TurnInv'
    BY <1>1, <1>2 DEF TurnInv
  <1>9. JoinedInv'
    BY <1>1, <1>2, <1>3, <1>4 DEF JoinedInv
  <1>10. MuInv'
    BY <1>1, <1>2 DEF MuInv
  <1>11. /\ \A x \in Publishers : pub[x].pc # "idle" => pub[x].event.time \in Nat
         /\ \A y \in Subscribers :
              /\ \A k \in DOMAIN states[y] : states[y][k].time \in Nat
              /\ \A n \in 1..Len(logs[y]) : logs[y][n].time \in Nat
    <2>1. ASSUME NEW x \in Publishers, pub[x].pc # "idle" PROVE pub[x].event.time \in Nat
      <3>1. pub[x].event \in ChangeEvent \cup LogEvent
        BY <1>1, <2>1 DEF TypeOK, Turn, TurnInv
      <3> QED BY <3>1, EventFacts
    <2>2. \A y \in Subscribers : \A k \in DOMAIN states[y] : states[y][k].time \in Nat
      BY <1>1, EventFacts DEF TypeOK
    <2>3. \A y \in Subscribers : \A n \in 1..Len(logs[y]) : logs[y][n].time \in Nat
      BY <1>1, EventFacts DEF TypeOK
    <2> QED BY <2>1, <2>2, <2>3
  <1>12. TimeInv'
    <2>1. \A x \in Publishers : pub'[x].pc # "idle" => pub'[x].event.time <= now'
      BY <1>1, <1>2, <1>3, <1>11 DEF TimeInv
    <2>2. ASSUME NEW y \in Subscribers
          PROVE  /\ \A k \in DOMAIN states'[y] : states'[y][k].time <= now'
                 /\ \A n \in 1..Len(logs'[y]) : logs'[y][n].time <= now'
      <3>1. /\ \A k \in DOMAIN states[y] : states[y][k].time <= now'
            /\ \A n \in 1..Len(logs[y]) : logs[y][n].time <= now'
        BY <1>1, <1>2, <1>3, <1>11 DEF TimeInv
      <3>2. CASE y = s
        BY <1>2, <1>5, <1>6, <3>1, <3>2
      <3>3. CASE y # s
        BY <1>4, <3>1, <3>3
      <3> QED BY <3>2, <3>3
    <2> QED BY <2>1, <2>2 DEF TimeInv
  <1>13. EndInv'
    <2> SUFFICES ASSUME NEW y \in Subscribers, ShutdownKey \in DOMAIN states'[y]
                 PROVE  /\ y \notin registered' /\ handler[y] # "out"
                        /\ \A x \in Publishers : y \in pub[x].left =>
                             pub[x].event.time <= states'[y][ShutdownKey].time
      BY <1>2 DEF EndInv
    <2>1. CASE y # s
      BY <1>1, <1>2, <1>4, <2>1 DEF EndInv
    <2>2. CASE y = s /\ states'[s] = states[s]
      BY <1>1, <1>2, <2>2 DEF EndInv
    <2>3. CASE y = s /\ states'[s][ShutdownKey] = e
      <3>1. ASSUME NEW x \in Publishers, s \in pub[x].left PROVE pub[x].event.time <= now'
        <4>1. pub[x].pc # "idle"
          BY <1>1, <3>1 DEF TurnInv
        <4> QED BY <1>1, <1>2, <1>3, <1>11, <4>1 DEF TimeInv
      <3> QED BY <1>2, <1>3, <2>3, <3>1
    <2> QED BY <1>5, <2>1, <2>2, <2>3
  <1>14. WakeInv'
    <2>1. handler' = handler
      BY <1>2
    <2>2. closed'[s] \/ wake'[s] \/ (states'[s] = states[s] /\ logs'[s] = logs[s]
                                     /\ wake'[s] = wake[s] /\ closed'[s] = closed[s])
      BY <1>5
    <2> QED BY <1>1, <1>4, <2>1, <2>2 DEF WakeInv
  <1>15. LogsComplete'
    <2>1. \A y \in registered' : y \in Subscribers /\ y # s
      BY <1>1, <1>2 DEF TypeOK
    <2>2. \A y \in Subscribers, i \in Instances : LastSent(y, i)' = LastSent(y, i)
      BY <1>2 DEF LastSent
    <2>3. handler' = handler /\ heard' = heard /\ registered' \subseteq registered
      BY <1>2
    <2> QED BY <1>1, <1>4, <2>1, <2>2, <2>3, LinesAlone
  <1>16. ShutdownIsLast'
    <2> SUFFICES ASSUME NEW y \in Subscribers, ShutdownKey \in DOMAIN states'[y]
                 PROVE  LET t == states'[y][ShutdownKey].time IN
                        /\ \A k \in DOMAIN states'[y] \ {ShutdownKey} : states'[y][k].time <= t
                        /\ \A n \in 1..Len(logs'[y]) : logs'[y][n].time <= t
      BY DEF ShutdownIsLast
    <2>1. CASE y # s
      BY <1>1, <1>4, <2>1 DEF ShutdownIsLast
    <2>2. CASE y = s /\ states'[s] = states[s]
      BY <1>1, <1>5, <2>2 DEF ShutdownIsLast
    <2>3. CASE y = s /\ states'[s][ShutdownKey] = e
      BY <1>2, <1>12, <2>3 DEF TimeInv
    <2> QED BY <1>5, <2>1, <2>2, <2>3
  <1> QED BY <1>7, <1>8, <1>9, <1>10, <1>12, <1>13, <1>14, <1>15, <1>16 DEF HubInv

\* So does beginning to tell them.
LEMMA BroadcastStep == ASSUME HubInv, BroadcastShutdown PROVE HubInv'
  <1>1. /\ TypeOK /\ TurnInv /\ JoinedInv /\ MuInv /\ TimeInv /\ EndInv
        /\ WakeInv /\ LogsComplete /\ ShutdownIsLast
    BY DEF HubInv
  <1>2. /\ ending' = registered
        /\ UNCHANGED <<instanceVars, now, pub, registered, queueVars, clientVars>>
    BY DEF BroadcastShutdown
  <1>3. TypeOK' /\ TurnInv' /\ JoinedInv'
    BY <1>1, <1>2 DEF TypeOK, TurnInv, JoinedInv
  <1>4. MuInv' /\ TimeInv' /\ EndInv' /\ WakeInv' /\ ShutdownIsLast'
    BY <1>1, <1>2 DEF MuInv, TimeInv, EndInv, WakeInv, ShutdownIsLast
  <1>5. LogsComplete'
    BY <1>1, <1>2, LinesAlone DEF LastSent
  <1> QED BY <1>3, <1>4, <1>5 DEF HubInv

\* A new subscriber: nobody has sent it anything, and it has heard what there is.
LEMMA ConnectStep == ASSUME HubInv, NEW s \in Subscribers, Connect(s) PROVE HubInv'
  <1>1. /\ TypeOK /\ TurnInv /\ JoinedInv /\ MuInv /\ TimeInv /\ EndInv
        /\ WakeInv /\ LogsComplete /\ ShutdownIsLast
    BY DEF HubInv
  <1>2. /\ handler[s] = "out"
        /\ registered' = registered \cup {s}
        /\ handler' = [handler EXCEPT ![s] = "enter"]
        /\ heard' = [heard EXCEPT ![s] = lines]
        /\ UNCHANGED <<instanceVars, now, pub, queueVars, todo, view, ending>>
    BY DEF Connect
  <1>3. /\ handler'[s] = "enter" /\ heard'[s] = lines
        /\ \A x \in Subscribers : x # s => handler'[x] = handler[x] /\ heard'[x] = heard[x]
    BY <1>1, <1>2 DEF TypeOK
  <1>4. DOMAIN states[s] = {} /\ logs[s] = <<>> /\ \A p \in Publishers : s \notin pub[p].left
    BY <1>1, <1>2 DEF JoinedInv, TurnInv
  <1>5. TypeOK'
    <2>1. /\ handler' \in [Subscribers -> {"out", "enter", "initial", "wait", "drain", "gone"}]
          /\ heard' \in [Subscribers -> [Instances -> 0..MaxLines]]
      BY <1>1, <1>2 DEF TypeOK
    <2> QED BY <1>1, <1>2, <2>1 DEF TypeOK
  <1>6. TurnInv'
    <2>1. \A p \in Publishers : pub[p].left \subseteq Subscribers
      BY <1>1 DEF TypeOK, Turn
    <2> QED BY <1>1, <1>2, <1>3, <2>1 DEF TurnInv
  <1>7. JoinedInv'
    <2>1. registered \subseteq Subscribers /\ ending \subseteq Subscribers
      BY <1>1 DEF TypeOK
    <2> QED BY <1>1, <1>2, <1>3, <2>1 DEF JoinedInv
  <1>8. MuInv' /\ TimeInv' /\ ShutdownIsLast'
    BY <1>1, <1>2 DEF MuInv, TimeInv, ShutdownIsLast
  <1>9. EndInv'
    BY <1>1, <1>2, <1>3, <1>4 DEF EndInv
  <1>10. WakeInv'
    BY <1>1, <1>2, <1>3, <1>4 DEF WakeInv
  <1>11. LogsComplete'
    <2>1. \A y \in Subscribers, i \in Instances : LastSent(y, i)' = LastSent(y, i)
      BY <1>2 DEF LastSent
    <2>2. ASSUME NEW y \in registered', NEW i \in Instances, Connected(y)'
          PROVE  /\ heard'[y][i] <= LastSent(y, i)
                 /\ Holds(logs[y], i, heard'[y][i] + 1, LastSent(y, i))
      <3>1. CASE y = s
        <4>1. LastSent(s, i) = lines[i] /\ lines[i] \in Nat
          BY <1>1, <1>4 DEF LastSent, TypeOK
        <4>2. Holds(<<>>, i, lines[i] + 1, lines[i])
          <5>1. HoldsEach(<<>>, i, lines[i] + 1, lines[i])
            BY <4>1 DEF HoldsEach
          <5>2. <<>> \in Seq(LogEvent) /\ lines[i] + 1 \in Nat
            BY <4>1
          <5> QED BY <4>1, <5>1, <5>2, HoldsPointwise
        <4> QED BY <1>3, <1>4, <3>1, <4>1, <4>2
      <3>2. CASE y # s
        <4>1. y \in registered /\ y \in Subscribers
          BY <1>1, <1>2, <3>2 DEF TypeOK
        <4> QED BY <1>1, <1>2, <1>3, <2>2, <3>2, <4>1 DEF LogsComplete
      <3> QED BY <3>1, <3>2
    <2>3. registered' \subseteq Subscribers /\ logs' = logs
      BY <1>1, <1>2 DEF TypeOK
    <2> QED BY <2>1, <2>2, <2>3 DEF LogsComplete
  <1> QED BY <1>5, <1>6, <1>7, <1>8, <1>9, <1>10, <1>11 DEF HubInv

\* A handler that takes nothing from its queue: all but Connect and the Delivers.
LEMMA HandlerAlone ==
  ASSUME HubInv,
         UNCHANGED <<instanceVars, now, pub, states, logs, heard, ending>>,
         registered' \subseteq registered,
         wake' \in [Subscribers -> BOOLEAN], closed' \in [Subscribers -> BOOLEAN],
         handler' \in [Subscribers -> {"out", "enter", "initial", "wait", "drain", "gone"}],
         todo' \in [Subscribers -> SUBSET Instances],
         view' \in [Subscribers -> [Instances -> 0..MaxVersion]],
         \A s \in Subscribers : handler'[s] = "out" <=> handler[s] = "out",
         \A s \in registered' : Connected(s)' => Connected(s),
         WakeInv'
  PROVE  HubInv'
  <1>1. /\ TypeOK /\ TurnInv /\ JoinedInv /\ MuInv /\ TimeInv /\ EndInv
        /\ WakeInv /\ LogsComplete /\ ShutdownIsLast
    BY DEF HubInv
  <1>2. TypeOK'
    BY <1>1 DEF TypeOK
  <1>3. TurnInv'
    <2>1. \A p \in Publishers : pub[p].left \subseteq Subscribers
      BY <1>1 DEF TypeOK, Turn
    <2> QED BY <1>1, <2>1 DEF TurnInv
  <1>4. JoinedInv'
    <2>1. registered \cup ending \subseteq Subscribers
      BY <1>1 DEF TypeOK
    <2> QED BY <1>1, <2>1 DEF JoinedInv
  <1>5. MuInv' /\ TimeInv' /\ EndInv' /\ ShutdownIsLast'
    BY <1>1 DEF MuInv, TimeInv, EndInv, ShutdownIsLast
  <1>6. LogsComplete'
    <2>1. \A s \in Subscribers, i \in Instances : LastSent(s, i)' = LastSent(s, i)
      BY DEF LastSent
    <2>2. registered' \subseteq Subscribers
      BY <1>1 DEF TypeOK
    <2> QED BY <1>1, <2>1, <2>2, LinesAlone
  <1> QED BY <1>2, <1>3, <1>4, <1>5, <1>6 DEF HubInv

\* So do the steps of handleSSE that take nothing out of the queues.
LEMMA HandlerStep ==
  ASSUME HubInv, NEW s \in Subscribers,
         \/ \E i \in Instances : WriteInitial(s, i)
         \/ StartInitial(s) \/ Listen(s) \/ Wake(s) \/ Drained(s) \/ NoticeClosed(s) \/ GiveUp(s)
  PROVE  HubInv'
  <1> USE DEF WakeInv
  <1>1. TypeOK /\ WakeInv /\ registered \subseteq Subscribers
    BY DEF HubInv, TypeOK
  <1>2. /\ wake \in [Subscribers -> BOOLEAN] /\ closed \in [Subscribers -> BOOLEAN]
        /\ handler \in [Subscribers -> {"out", "enter", "initial", "wait", "drain", "gone"}]
        /\ todo \in [Subscribers -> SUBSET Instances]
        /\ view \in [Subscribers -> [Instances -> 0..MaxVersion]]
        /\ version \in [Instances -> 0..MaxVersion]
    BY <1>1 DEF TypeOK
  <1>3. ASSUME NEW i \in Instances, WriteInitial(s, i) PROVE HubInv'
    <2>1. view' \in [Subscribers -> [Instances -> 0..MaxVersion]]
      <3>1. view' = [view EXCEPT ![s][i] = version[i]] \/ view' = view
        BY <1>3 DEF WriteInitial
      <3>2. [view[s] EXCEPT ![i] = version[i]] \in [Instances -> 0..MaxVersion]
        BY <1>2
      <3> QED BY <1>2, <3>1, <3>2
    <2>2. todo' \in [Subscribers -> SUBSET Instances]
      BY <1>2, <1>3 DEF WriteInitial
    <2>3. UNCHANGED <<instanceVars, now, pub, registered, queueVars, handler, heard, ending>>
      BY <1>3 DEF WriteInitial
    <2> QED BY <1>1, <1>2, <2>1, <2>2, <2>3, HandlerAlone
  <1>4. CASE StartInitial(s)
    <2>1. todo' \in [Subscribers -> SUBSET Instances]
      BY <1>2, <1>4 DEF StartInitial
    <2> QED BY <1>1, <1>2, <1>4, <2>1, HandlerAlone DEF StartInitial
  <1>5. CASE Listen(s)
    BY <1>1, <1>2, <1>5, HandlerAlone DEF Listen
  <1>6. CASE Wake(s)
    BY <1>1, <1>2, <1>6, HandlerAlone DEF Wake
  <1>7. CASE Drained(s)
    BY <1>1, <1>2, <1>7, HandlerAlone DEF Drained
  <1>8. CASE NoticeClosed(s)
    BY <1>1, <1>2, <1>8, HandlerAlone DEF NoticeClosed, End
  <1>9. CASE GiveUp(s)
    BY <1>1, <1>2, <1>9, HandlerAlone DEF GiveUp, End
  <1> QED BY <1>3, <1>4, <1>5, <1>6, <1>7, <1>8, <1>9

\* So does the delivery of a log line.
LEMMA DeliverLogStep == ASSUME HubInv, NEW s \in Subscribers, DeliverLog(s) PROVE HubInv'
  <1> DEFINE e == logs[s][1]
  <1>1. /\ TypeOK /\ TurnInv /\ JoinedInv /\ MuInv /\ TimeInv /\ EndInv
        /\ WakeInv /\ LogsComplete /\ ShutdownIsLast
    BY DEF HubInv
  <1>2. /\ e \in LogEvent
        /\ Len(logs[s]) \in Nat \ {0} /\ Len(logs'[s]) = Len(logs[s]) - 1
        /\ \A n \in 1..Len(logs'[s]) : logs'[s][n] = logs[s][n + 1]
        /\ \A x \in Subscribers : x # s => logs'[x] = logs[x] /\ heard'[x] = heard[x]
        /\ heard'[s][e.key] = e.line
        /\ \A i \in Instances : i # e.key => heard'[s][i] = heard[s][i]
        /\ heard' \in [Subscribers -> [Instances -> 0..MaxLines]]
        /\ QueueOK'
    BY <1>1, DeliverEffect
  <1>3. /\ handler[s] = "drain"
        /\ UNCHANGED <<instanceVars, now, pub, registered, states, wake, closed, handler,
                       todo, view, ending>>
    BY DEF DeliverLog
  <1>4. TypeOK'
    BY <1>1, <1>2, <1>3 DEF TypeOK, QueueOK
  <1>5. TurnInv' /\ MuInv' /\ EndInv'
    BY <1>1, <1>3 DEF TurnInv, MuInv, EndInv
  <1>6. JoinedInv'
    BY <1>1, <1>2, <1>3 DEF JoinedInv
  <1>7. \A x \in Subscribers : \A n \in 1..Len(logs'[x]) :
          \E m \in 1..Len(logs[x]) : logs'[x][n] = logs[x][m]
    <2> SUFFICES ASSUME NEW x \in Subscribers, NEW n \in 1..Len(logs'[x])
                 PROVE  \E m \in 1..Len(logs[x]) : logs'[x][n] = logs[x][m]
      OBVIOUS
    <2>1. CASE x = s
      <3>1. n + 1 \in 1..Len(logs[s])
        BY <1>2, <2>1
      <3> QED BY <1>2, <2>1, <3>1
    <2>2. CASE x # s
      BY <1>2, <2>2
    <2> QED BY <2>1, <2>2
  <1>8. TimeInv'
    BY <1>1, <1>3, <1>7 DEF TimeInv
  <1>9. ShutdownIsLast'
    BY <1>1, <1>3, <1>7 DEF ShutdownIsLast
  <1>10. WakeInv'
    BY <1>1, <1>2, <1>3 DEF WakeInv
  <1>11. LogsComplete'
    <2>1. ASSUME NEW y \in registered, NEW i \in Instances, Connected(y)
          PROVE  /\ heard'[y][i] <= LastSent(y, i)
                 /\ Holds(logs'[y], i, heard'[y][i] + 1, LastSent(y, i))
      <3>1. heard[y][i] <= LastSent(y, i) /\ Holds(logs[y], i, heard[y][i] + 1, LastSent(y, i))
        BY <1>1, <2>1 DEF LogsComplete
      <3>2. y \in Subscribers /\ heard[y][i] \in Nat /\ lines[i] \in Nat
        BY <1>1 DEF TypeOK
      <3>3. CASE y # s
        BY <1>2, <3>1, <3>2, <3>3
      <3>4. CASE y = s
        <4> DEFINE q == logs[s]  r == logs'[s]  m == heard[s][i] + 1  n == LastSent(s, i)
        <4>1. q \in Seq(LogEvent) /\ r \in Seq(LogEvent) /\ m \in Nat /\ n \in Nat
          <5>1. LastSent(s, i) \in Nat
            BY <3>1, <3>2, <3>4 DEF LastSent
          <5>2. q \in Seq(LogEvent)
            BY <1>1 DEF TypeOK
          <5>3. r \in Seq(LogEvent)
            BY <1>2 DEF QueueOK
          <5>4. m \in Nat
            BY <3>2, <3>4
          <5> QED BY <3>4, <5>1, <5>2, <5>3, <5>4
        <4>2. /\ Len(q) \in Nat \ {0} /\ Len(r) = Len(q) - 1
              /\ \A x \in 1..Len(r) : r[x] = q[x + 1]
              /\ Holds(q, i, m, n) /\ q[1] = e
          BY <1>2, <3>1, <3>4
        <4>3. /\ q[1].key # i => Holds(r, i, m, n)
              /\ q[1].key = i => q[1].line = m /\ m <= n /\ Holds(r, i, m + 1, n)
          <5> HIDE DEF q, r, m, n, e
          <5> QED BY ONLY <4>1, <4>2, HoldsTail, i \in Instances
        <4>4. CASE e.key # i
          BY <1>2, <3>1, <3>4, <4>3, <4>4
        <4>5. CASE e.key = i
          <5>1. heard'[s][i] = heard[s][i] + 1
            BY <1>2, <4>3, <4>5
          <5> QED BY <3>4, <4>3, <4>5, <5>1
        <4> QED BY <4>4, <4>5
      <3> QED BY <3>3, <3>4
    <2>2. \A y \in Subscribers, i \in Instances : LastSent(y, i)' = LastSent(y, i)
      BY <1>3 DEF LastSent
    <2>3. registered \subseteq Subscribers
      BY <1>1 DEF TypeOK
    <2> QED BY <1>3, <2>1, <2>2, <2>3 DEF LogsComplete
  <1> QED BY <1>4, <1>5, <1>6, <1>8, <1>9, <1>10, <1>11 DEF HubInv

\* A state is written and leaves the queue; after the shutdown event the handler returns.
LEMMA RemoveState ==
  ASSUME HubInv, NEW s \in Subscribers, NEW k, handler[s] = "drain",
         states' = [states EXCEPT ![s] = [x \in DOMAIN @ \ {k} |-> @[x]]],
         UNCHANGED <<instanceVars, now, pub, logs, wake, heard, todo, ending>>,
         registered' \subseteq registered,
         closed' \in [Subscribers -> BOOLEAN],
         handler' \in [Subscribers -> {"out", "enter", "initial", "wait", "drain", "gone"}],
         view' \in [Subscribers -> [Instances -> 0..MaxVersion]],
         \A x \in Subscribers : x # s => handler'[x] = handler[x] /\ closed'[x] = closed[x],
         \/ handler'[s] = "drain" /\ closed'[s] = closed[s]
         \/ handler'[s] = "gone" /\ closed'[s]
  PROVE  HubInv'
  <1>1. /\ TypeOK /\ TurnInv /\ JoinedInv /\ MuInv /\ TimeInv /\ EndInv
        /\ WakeInv /\ LogsComplete /\ ShutdownIsLast
    BY DEF HubInv
  <1>2. /\ DOMAIN states' = Subscribers
        /\ DOMAIN states'[s] = DOMAIN states[s] \ {k}
        /\ \A x \in DOMAIN states'[s] : states'[s][x] = states[s][x]
        /\ \A y \in Subscribers : y # s => states'[y] = states[y]
    BY <1>1 DEF TypeOK
  <1>3. \A y \in Subscribers : /\ DOMAIN states'[y] \subseteq DOMAIN states[y]
                               /\ \A x \in DOMAIN states'[y] : states'[y][x] = states[y][x]
    BY <1>2
  <1>4. TypeOK'
    <2>1. \A y \in Subscribers : /\ IsFiniteSet(DOMAIN states'[y])
                                 /\ Cardinality(DOMAIN states'[y]) <= StateLimit
      <3> SUFFICES ASSUME NEW y \in Subscribers
                   PROVE  /\ IsFiniteSet(DOMAIN states'[y])
                          /\ Cardinality(DOMAIN states'[y]) <= StateLimit
        OBVIOUS
      <3>1. IsFiniteSet(DOMAIN states[y]) /\ Cardinality(DOMAIN states[y]) <= StateLimit
        BY <1>1 DEF TypeOK
      <3>2. /\ IsFiniteSet(DOMAIN states'[y])
            /\ Cardinality(DOMAIN states'[y]) <= Cardinality(DOMAIN states[y])
        BY <1>3, <3>1, FS_Subset
      <3>3. Cardinality(DOMAIN states[y]) \in Nat /\ Cardinality(DOMAIN states'[y]) \in Nat
        BY <3>1, <3>2, FS_CardinalityType
      <3> QED BY <3>1, <3>2, <3>3
    <2>2. \A y \in Subscribers :
            /\ DOMAIN states'[y] \subseteq Instances \cup {ShutdownKey}
            /\ \A x \in DOMAIN states'[y] :
                 states'[y][x] \in IF x = ShutdownKey THEN EndEvent ELSE ChangeEvent
      BY <1>1, <1>3 DEF TypeOK
    <2> QED BY <1>1, <1>2, <2>1, <2>2 DEF TypeOK
  <1>5. \A x \in Subscribers : handler'[x] = "out" <=> handler[x] = "out"
    OBVIOUS
  <1>6. TurnInv'
    <2>1. \A p \in Publishers : pub[p].left \subseteq Subscribers
      BY <1>1 DEF TypeOK, Turn
    <2> QED BY <1>1, <1>5, <2>1 DEF TurnInv
  <1>7. JoinedInv'
    <2>1. registered \cup ending \subseteq Subscribers
      BY <1>1 DEF TypeOK
    <2> QED BY <1>1, <1>3, <1>5, <2>1 DEF JoinedInv
  <1>8. MuInv' /\ TimeInv' /\ EndInv'
    <2>1. MuInv'
      BY <1>1, <1>3, <1>5 DEF MuInv
    <2>2. TimeInv'
      BY <1>1, <1>3, <1>5 DEF TimeInv
    <2>3. EndInv'
      BY <1>1, <1>3, <1>5 DEF EndInv
    <2> QED BY <2>1, <2>2, <2>3
  <1>9. ShutdownIsLast'
    BY <1>1, <1>3 DEF ShutdownIsLast
  <1>10. WakeInv'
    <2> SUFFICES ASSUME NEW y \in Subscribers, handler'[y] # "drain", ~closed'[y], Pending(y)'
                 PROVE  wake[y]
      BY DEF WakeInv
    <2>1. y # s
      OBVIOUS
    <2>2. handler[y] # "drain" /\ ~closed[y] /\ Pending(y)
      BY <1>2, <2>1
    <2> QED BY <1>1, <2>2 DEF WakeInv
  <1>11. LogsComplete'
    <2>1. \A y \in Subscribers, i \in Instances : LastSent(y, i)' = LastSent(y, i)
      BY DEF LastSent
    <2>2. registered' \subseteq Subscribers
      BY <1>1 DEF TypeOK
    <2>3. \A y \in registered' : Connected(y)' => Connected(y)
      BY <2>2
    <2> QED BY <1>1, <2>1, <2>2, <2>3, LinesAlone
  <1> QED BY <1>4, <1>6, <1>7, <1>8, <1>9, <1>10, <1>11 DEF HubInv

\* So does the delivery of a state or of the shutdown.
LEMMA DeliverStep ==
  ASSUME HubInv, NEW s \in Subscribers,
         (\E k \in Instances : DeliverState(s, k)) \/ DeliverShutdown(s)
  PROVE  HubInv'
  <1>1. TypeOK
    BY DEF HubInv
  <1>2. /\ closed \in [Subscribers -> BOOLEAN]
        /\ handler \in [Subscribers -> {"out", "enter", "initial", "wait", "drain", "gone"}]
        /\ view \in [Subscribers -> [Instances -> 0..MaxVersion]]
    BY <1>1 DEF TypeOK
  <1>3. ASSUME NEW k \in Instances, DeliverState(s, k) PROVE HubInv'
    <2>1. view' \in [Subscribers -> [Instances -> 0..MaxVersion]]
      <3>1. states[s][k] \in ChangeEvent
        BY <1>1, <1>3 DEF DeliverState, EarliestKeys, TypeOK
      <3> QED BY <1>2, <1>3, <3>1, EventFacts DEF DeliverState
    <2> QED BY <1>2, <1>3, <2>1, RemoveState DEF DeliverState
  <1>4. CASE DeliverShutdown(s)
    BY <1>2, <1>4, RemoveState DEF DeliverShutdown, End
  <1> QED BY <1>3, <1>4

-----------------------------------------------------------------------------
(* The theorems *)

\* Nothing is published, and nobody is registered, at first.
LEMMA HubInitial == ASSUME Init PROVE HubInv
  <1>1. TypeOK
    <2>1. Nobody \in Turn
      BY DEF Nobody, Turn
    <2>2. <<>> \in Seq(LogEvent)
      OBVIOUS
    <2>3. \A s \in Subscribers : states[s] = NoStates /\ DOMAIN states[s] = {} /\ logs[s] = <<>>
      BY DEF Init, NoStates
    <2>4. IsFiniteSet({}) /\ Cardinality({}) = 0
      BY FS_EmptySet
    <2>5. \A s \in Subscribers :
            IsFiniteSet(DOMAIN states[s]) /\ Cardinality(DOMAIN states[s]) <= StateLimit
      <3>1. 0 <= StateLimit
        OBVIOUS
      <3> QED BY <2>3, <2>4, <3>1
    <2>6. version \in [Instances -> Absent..MaxVersion]
      BY DEF Init
    <2> QED BY <2>1, <2>2, <2>3, <2>5, <2>6 DEF TypeOK, Init
  <1>2. TurnInv /\ MuInv /\ TimeInv
    BY DEF Init, TurnInv, MuInv, TimeInv, Nobody, NoStates
  <1>3. JoinedInv /\ EndInv /\ WakeInv /\ LogsComplete /\ ShutdownIsLast
    BY DEF Init, JoinedInv, EndInv, WakeInv, LogsComplete, ShutdownIsLast, NoStates
  <1> QED BY <1>1, <1>2, <1>3 DEF HubInv

\* Every step keeps the invariant.
LEMMA HubStep == ASSUME HubInv, [Next]_vars PROVE HubInv'
  <1>1. CASE UNCHANGED vars
    <2> USE <1>1 DEF vars
    <2>1. TypeOK' /\ TurnInv' /\ JoinedInv' /\ MuInv'
      BY DEF HubInv, TypeOK, TurnInv, JoinedInv, MuInv
    <2>2. TimeInv' /\ EndInv' /\ WakeInv' /\ ShutdownIsLast'
      BY DEF HubInv, TimeInv, EndInv, WakeInv, ShutdownIsLast
    <2>3. LogsComplete'
      BY DEF HubInv, LogsComplete, LastSent
    <2> QED BY <2>1, <2>2, <2>3 DEF HubInv
  <1>2. ASSUME NEW p \in Publishers, NEW i \in Instances,
               Create(p, i) \/ Change(p, i) \/ Delete(p, i) \/ Log(p, i)
        PROVE  HubInv'
    BY <1>2, NewsStep, LogStep
  <1>3. ASSUME NEW p \in Publishers, Publish(p) PROVE HubInv'
    BY <1>3, NewsStep, SendStep, SentStep DEF Publish
  <1>4. ASSUME NEW s \in Subscribers, Handle(s) PROVE HubInv'
    BY <1>4, HandlerStep, DeliverLogStep, DeliverStep DEF Handle
  <1>5. ASSUME NEW s \in Subscribers, Connect(s) \/ GiveUp(s) \/ ShutdownOne(s) PROVE HubInv'
    BY <1>5, ConnectStep, HandlerStep, ShutdownStep
  <1> QED BY <1>1, <1>2, <1>3, <1>4, <1>5, BroadcastStep, SilentStep DEF Next

\* In every reachable state all parts of the invariant hold.
THEOREM AlwaysHub == Spec => []HubInv
  <1>1. Init => HubInv
    BY HubInitial
  <1>2. HubInv /\ [Next]_vars => HubInv'
    BY HubStep
  <1> QED BY <1>1, <1>2, PTL DEF Spec

\* Every variable has its type, and no queue is longer than its limit (event.go:104-133).
THEOREM TypeCorrect == Spec => []TypeOK
  <1>1. HubInv => TypeOK
    BY DEF HubInv
  <1> QED BY <1>1, AlwaysHub, PTL

\* A handler never sleeps on a pending event: the wake slot of size one (event.go:129-132)
\* loses no wake-up, however many publishers fill it.
THEOREM NoSleepOnPending == Spec => []NoLostWakeup
  <1>1. HubInv => NoLostWakeup
    BY DEF HubInv, WakeInv, NoLostWakeup
  <1> QED BY <1>1, AlwaysHub, PTL

\* A connected client misses no log line of any instance and gets them in order, because
\* sendTelemetryLog publishes with inst.mu held (runtime.go:134-140).
THEOREM NoLineMissed == Spec => []LogsComplete
  <1>1. HubInv => LogsComplete
    BY DEF HubInv
  <1> QED BY <1>1, AlwaysHub, PTL

\* What is queued with a shutdown event is never later than it (event.go:96-102).
THEOREM ShutdownWrittenLast == Spec => []ShutdownIsLast
  <1>1. HubInv => ShutdownIsLast
    BY DEF HubInv
  <1> QED BY <1>1, AlwaysHub, PTL

-----------------------------------------------------------------------------
(* One publisher: the client is up to date *)

OnePublisher == \A p, q \in Publishers : p = q

\* A change begins, and its event is now on its way to everybody.
LEMMA AnnounceSerial ==
  ASSUME HubInv, SerialInv, OnePublisher, NEW p \in Publishers, NEW i \in Instances,
         NEW type \in {"create", "update", "delete"}, Announce(p, type, i),
         \A j \in Instances : j # i => version'[j] = version[j] /\ present'[j] = present[j],
         version'[i] \in Nat \ {0}, version'[i] >= version[i],
         type = "delete" <=> ~present'[i],
         present'[i] => present[i] \/ version[i] = Absent
  PROVE  SerialInv'
  <1>1. TypeOK /\ NewsInv /\ ClientInv /\ registered \subseteq Subscribers
    BY DEF HubInv, SerialInv, TypeOK
  <1>2. PICK e \in ChangeEvent : e.type = type /\ e.key = i /\ HandsOver(p, "stamp", e, {})
    BY <1>1, AnnounceTurn
  <1>3. /\ pub[p].pc = "idle" /\ \A x \in Publishers : x = p
        /\ pub'[p].pc = "stamp" /\ pub'[p].event = e
        /\ told'[i] = version'[i] /\ \A j \in Instances : j # i => told'[j] = told[j]
        /\ UNCHANGED <<queueVars, clientVars, registered>>
    BY <1>1, <1>2 DEF Announce, OnePublisher, HandsOver, TypeOK
  <1>4. NewsInv'
    <2>1. ASSUME NEW s \in Subscribers, NEW j \in Instances, j \in DOMAIN states[s]
          PROVE  /\ version'[j] # Absent
                 /\ states[s][j].version <= version'[j]
                 /\ states[s][j].type = "delete" => ~present'[j]
      <3>1. /\ version[j] # Absent /\ states[s][j].version <= version[j]
            /\ states[s][j].type = "delete" => ~present[j]
        BY <1>1, <2>1 DEF NewsInv
      <3>2. states[s][j] \in ChangeEvent
        BY <1>1, <2>1 DEF TypeOK
      <3>3. states[s][j].version \in Nat /\ version[j] \in Nat
        BY <1>1, <3>2, EventFacts DEF TypeOK
      <3>4. CASE j = i
        BY <3>1, <3>3, <3>4
      <3>5. CASE j # i
        BY <3>1, <3>5
      <3> QED BY <3>4, <3>5
    <2>2. \A j \in Instances : /\ present'[j] => told'[j] # Absent
                               /\ told'[j] <= version'[j]
      BY <1>1, <1>3 DEF NewsInv
    <2> QED BY <1>2, <1>3, <2>1, <2>2 DEF NewsInv
  <1>5. ASSUME NEW s \in registered, NEW j \in Instances, Knows(s, j) PROVE Knows(s, j)'
    <2>1. CASE j = i
      BY <1>2, <1>3, <2>1 DEF Knows, OnItsWay
    <2>2. CASE j # i
      <3>1. ~OnItsWay(s, j)
        BY <1>3 DEF OnItsWay
      <3> QED BY <1>3, <1>5, <2>2, <3>1 DEF Knows, Tells, Current
    <2> QED BY <2>1, <2>2
  <1> QED BY <1>1, <1>3, <1>4, <1>5 DEF ClientInv, SerialInv

\* The publisher goes on with its event, or has none that anybody waits for.
LEMMA TurnSerial ==
  ASSUME HubInv, SerialInv, OnePublisher, NEW p \in Publishers, NEW place, NEW e, NEW left,
         HandsOver(p, place, e, left),
         UNCHANGED <<version, present, told, queueVars, clientVars, registered>>,
         \/ /\ place = "idle" \/ e \notin ChangeEvent
            /\ \A s \in registered, i \in Instances : ~OnItsWay(s, i)
         \/ /\ pub[p].pc # "idle" /\ place # "idle"
            /\ pub[p].event \in ChangeEvent /\ e \in ChangeEvent
            /\ e.key = pub[p].event.key /\ e.type = pub[p].event.type
            /\ place \in {"range", "send"} =>
                 /\ e.version \in told[e.key]..version[e.key]
                 /\ \A s \in Subscribers :
                      e.key \in DOMAIN states[s] => states[s][e.key].version <= e.version
            /\ place = "send" => left = registered
  PROVE  SerialInv'
  <1>1. NewsInv /\ ClientInv
    BY DEF SerialInv
  <1>2. /\ \A x \in Publishers : x = p
        /\ pub'[p].pc = place /\ pub'[p].event = e /\ pub'[p].left = left
    BY DEF OnePublisher, HandsOver
  <1>3. NewsInv'
    BY <1>1, <1>2 DEF NewsInv
  <1>4. ASSUME NEW s \in registered, NEW i \in Instances, Knows(s, i) PROVE Knows(s, i)'
    <2>1. OnItsWay(s, i) => OnItsWay(s, i)'
      BY <1>2 DEF OnItsWay
    <2> QED BY <1>4, <2>1 DEF Knows, Tells, Current
  <1> QED BY <1>1, <1>3, <1>4 DEF ClientInv, SerialInv

\* What one publisher does keeps the client able to know all: sent, pending, or in its hands.
LEMMA PublisherSerial ==
  ASSUME HubInv, SerialInv, OnePublisher, NEW p \in Publishers,
         \/ \E i \in Instances : Create(p, i) \/ Change(p, i) \/ Delete(p, i) \/ Log(p, i)
         \/ Stamp(p) \/ Snapshot(p) \/ StartRange(p) \/ Sent(p)
  PROVE  SerialInv'
  <1>1. TypeOK /\ TurnInv /\ NewsInv
    BY DEF HubInv, SerialInv
  <1>2. /\ version \in [Instances -> 0..MaxVersion] /\ present \in [Instances -> BOOLEAN]
        /\ told \in [Instances -> 0..MaxVersion]
        /\ \A i \in Instances : present[i] => version[i] # Absent
        /\ \A x \in Publishers : x = p
    BY <1>1 DEF TypeOK, NewsInv, OnePublisher
  <1>3. ASSUME NEW i \in Instances, Create(p, i) PROVE SerialInv'
    <2>1. Announce(p, "create", i) /\ version[i] = Absent
      BY <1>3 DEF Create
    <2>2. /\ \A j \in Instances : j # i => version'[j] = version[j] /\ present'[j] = present[j]
          /\ version'[i] = 1 /\ present'[i]
      BY <1>2, <1>3 DEF Create
    <2> QED BY <2>1, <2>2, AnnounceSerial
  <1>4. ASSUME NEW i \in Instances, Change(p, i) PROVE SerialInv'
    BY <1>2, <1>4, AnnounceSerial DEF Change
  <1>5. ASSUME NEW i \in Instances, Delete(p, i) PROVE SerialInv'
    <2>1. Announce(p, "delete", i) /\ version[i] \in Nat \ {0}
      BY <1>2, <1>5 DEF Delete
    <2>2. /\ \A j \in Instances : j # i => version'[j] = version[j] /\ present'[j] = present[j]
          /\ version'[i] = version[i] /\ ~present'[i]
      BY <1>2, <1>5 DEF Delete
    <2> QED BY <2>1, <2>2, AnnounceSerial
  <1>6. ASSUME NEW i \in Instances, Log(p, i) PROVE SerialInv'
    <2>1. PICK e \in LogEvent : HandsOver(p, "send", e, registered)
      BY <1>1, <1>6, LogTurn
    <2>2. pub[p].pc = "idle" /\ UNCHANGED <<version, present, told, queueVars, clientVars, registered>>
      BY <1>6 DEF Log
    <2>3. e \notin ChangeEvent /\ \A s \in registered, j \in Instances : ~OnItsWay(s, j)
      BY <1>2, <2>2, EventFacts DEF OnItsWay
    <2> QED BY <2>1, <2>2, <2>3, TurnSerial
  <1>7. CASE Stamp(p)
    <2>1. PICK e \in ChangeEvent : /\ e.type = pub[p].event.type /\ e.key = pub[p].event.key
                                   /\ HandsOver(p, "snap", e, {})
      BY <1>1, <1>7, StampTurn
    <2>2. pub[p].pc = "stamp" /\ UNCHANGED <<version, present, told, queueVars, clientVars, registered>>
      BY <1>7 DEF Stamp
    <2> QED BY <1>1, <2>1, <2>2, TurnSerial DEF TurnInv
  <1>8. CASE Snapshot(p)
    <2>1. PICK e \in ChangeEvent : /\ e.type = pub[p].event.type /\ e.key = pub[p].event.key
                                   /\ e.version = version[e.key]
                                   /\ HandsOver(p, "range", e, {})
      BY <1>1, <1>8, SnapshotTurn
    <2>2. pub[p].pc = "snap" /\ UNCHANGED <<version, present, told, queueVars, clientVars, registered>>
      BY <1>8 DEF Snapshot
    <2>3. e.version \in told[e.key]..version[e.key] /\ e.key \in Instances
      BY <1>1, <1>2, <2>1, EventFacts DEF NewsInv
    <2>4. \A s \in Subscribers :
            e.key \in DOMAIN states[s] => states[s][e.key].version <= e.version
      BY <1>1, <2>1, <2>3 DEF NewsInv
    <2> QED BY <1>1, <2>1, <2>2, <2>3, <2>4, TurnSerial DEF TurnInv
  <1>9. CASE StartRange(p)
    <2>1. HandsOver(p, "send", pub[p].event, registered)
      BY <1>1, <1>9, RangeTurn
    <2>2. pub[p].pc = "range" /\ UNCHANGED <<version, present, told, queueVars, clientVars, registered>>
      BY <1>9 DEF StartRange
    <2> DEFINE e == pub[p].event
    <2>3. /\ e \in ChangeEvent /\ e.version \in told[e.key]..version[e.key]
          /\ \A s \in Subscribers :
               e.key \in DOMAIN states[s] => states[s][e.key].version <= e.version
      BY <1>1, <2>2 DEF TurnInv, NewsInv
    <2> QED BY <2>1, <2>2, <2>3, TurnSerial
  <1>10. CASE Sent(p)
    <2>1. HandsOver(p, "idle", None, {})
      BY <1>1, <1>10, SentTurn
    <2>2. /\ pub[p].pc = "send" /\ pub[p].left = {}
          /\ UNCHANGED <<version, present, told, queueVars, clientVars, registered>>
      BY <1>10 DEF Sent
    <2>3. \A s \in registered, j \in Instances : ~OnItsWay(s, j)
      BY <1>2, <2>2 DEF OnItsWay
    <2> QED BY <2>1, <2>2, <2>3, TurnSerial
  <1> QED BY <1>3, <1>4, <1>5, <1>6, <1>7, <1>8, <1>9, <1>10

\* The news arrives.
LEMMA SendSerial ==
  ASSUME HubInv, SerialInv, OnePublisher, NEW p \in Publishers, NEW s \in Subscribers, Send(p, s)
  PROVE  SerialInv'
  <1> DEFINE e == pub[p].event
  <1>1. /\ TypeOK /\ TurnInv /\ EndInv /\ NewsInv /\ ClientInv /\ registered \subseteq Subscribers
        /\ \A x \in Publishers : x = p
    BY DEF HubInv, SerialInv, TypeOK, OnePublisher
  <1>2. /\ pub[p].pc = "send" /\ s \in pub[p].left
        /\ e \in ChangeEvent \cup LogEvent /\ e.key \in Instances
        /\ HandsOver(p, "send", e, pub[p].left \ {s})
        /\ Enqueued(s, e.key, e) \/ (s \notin registered /\ UNCHANGED queueVars)
        /\ UNCHANGED <<instanceVars, now, registered, clientVars, ending>>
    BY <1>1, SendEffect
  <1>3. pub'[p].pc = "send" /\ pub'[p].event = e /\ pub'[p].left = pub[p].left \ {s}
    BY <1>2 DEF HandsOver
  <1>4. \A x \in Subscribers : x # s => states'[x] = states[x] /\ closed'[x] = closed[x]
    BY <1>2 DEF Enqueued
  <1>5. \/ states'[s] = states[s] /\ (closed'[s] \/ s \notin registered \/ e \in LogEvent)
        \/ /\ e \in ChangeEvent /\ ~closed[s] /\ DOMAIN states'[s] = DOMAIN states[s] \cup {e.key}
           /\ states'[s][e.key] = e
           /\ \A x \in DOMAIN states[s] \ {e.key} : states'[s][x] = states[s][x]
    <2>1. CASE e \in LogEvent
      BY <1>2, <2>1, EventFacts DEF Enqueued
    <2>2. CASE e \in ChangeEvent
      BY <1>2, <2>2, EventFacts DEF Enqueued
    <2> QED BY <1>2, <2>1, <2>2
  <1>6. e \in ChangeEvent => /\ version[e.key] # Absent
                             /\ e.type = "delete" <=> ~present[e.key]
                             /\ e.version \in told[e.key]..version[e.key]
                             /\ \A y \in Subscribers :
                                  e.key \in DOMAIN states[y] =>
                                    states[y][e.key].version <= e.version
    BY <1>1, <1>2 DEF NewsInv
  <1>7. version \in [Instances -> 0..MaxVersion] /\ told \in [Instances -> 0..MaxVersion]
    BY <1>1 DEF TypeOK
  <1>8. NewsInv'
    <2>1. ASSUME NEW y \in Subscribers, NEW i \in Instances, i \in DOMAIN states'[y]
          PROVE  /\ version[i] # Absent
                 /\ states'[y][i].version <= version[i]
                 /\ states'[y][i].type = "delete" => ~present[i]
      <3>1. CASE i \in DOMAIN states[y] /\ states'[y][i] = states[y][i]
        BY <1>1, <3>1 DEF NewsInv
      <3>2. CASE y = s /\ i = e.key /\ e \in ChangeEvent /\ states'[s][i] = e
        BY <1>6, <1>7, <3>2
      <3> QED BY <1>4, <1>5, <2>1, <3>1, <3>2
    <2>2. ASSUME e \in ChangeEvent, NEW y \in Subscribers, e.key \in DOMAIN states'[y]
          PROVE  states'[y][e.key].version <= e.version
      <3>1. CASE e.key \in DOMAIN states[y] /\ states'[y][e.key] = states[y][e.key]
        BY <1>6, <2>2, <3>1
      <3>2. CASE states'[y][e.key] = e
        BY <1>2, <1>6, <1>7, <2>2, <3>2
      <3> QED BY <1>4, <1>5, <2>2, <3>1, <3>2
    <2> QED BY <1>1, <1>2, <1>3, <1>6, <2>1, <2>2 DEF NewsInv, instanceVars
  <1>9. ASSUME NEW y \in registered, NEW i \in Instances, ~closed'[y], Knows(y, i)
        PROVE  Knows(y, i)'
    <2>1. CASE y # s
      <3>1. OnItsWay(y, i) => OnItsWay(y, i)'
        BY <1>1, <1>2, <1>3, <2>1 DEF OnItsWay
      <3> QED BY <1>1, <1>2, <1>4, <1>9, <2>1, <3>1 DEF Knows, Tells, Current
    <2>2. CASE y = s /\ e \in ChangeEvent /\ i = e.key
      <3>1. i \in DOMAIN states'[s] /\ states'[s][i] = e
        BY <1>5, <1>9, <2>2, EventFacts
      <3>2. Tells(states[s][i], i)'
        BY <1>2, <1>6, <2>2, <3>1 DEF Tells
      <3> QED BY <2>2, <3>1, <3>2 DEF Knows
    <2>3. CASE y = s /\ ~(e \in ChangeEvent /\ i = e.key)
      <3>1. ~OnItsWay(s, i)
        BY <1>1, <2>3 DEF OnItsWay
      <3>2. /\ i \in DOMAIN states'[s] <=> i \in DOMAIN states[s]
            /\ i \in DOMAIN states[s] => states'[s][i] = states[s][i]
        BY <1>5, <2>3
      <3> QED BY <1>2, <1>9, <2>3, <3>1, <3>2 DEF Knows, Tells, Current
    <2> QED BY <2>1, <2>2, <2>3
  <1>10. \A y \in registered : closed[y] => closed'[y]
    BY <1>1, <1>2, <1>4 DEF Enqueued
  <1>11. ClientInv'
    <2>1. closed' \in [Subscribers -> BOOLEAN] /\ closed \in [Subscribers -> BOOLEAN]
      BY <1>1, SendEffect DEF TypeOK, QueueOK
    <2> QED BY <1>1, <1>2, <1>9, <1>10, <2>1 DEF ClientInv
  <1> QED BY <1>8, <1>11 DEF SerialInv

\* A step of one subscriber s, of which nobody else notices anything.
LEMMA SubscriberSerial ==
  ASSUME HubInv, SerialInv, NEW s \in Subscribers,
         UNCHANGED <<version, present, told, pub>>,
         \A y \in Subscribers : y # s =>
           /\ states'[y] = states[y] /\ closed'[y] = closed[y]
           /\ handler'[y] = handler[y] /\ todo'[y] = todo[y] /\ view'[y] = view[y],
         registered' \ {s} \subseteq registered,
         \A i \in Instances : i \in DOMAIN states'[s] =>
           i \in DOMAIN states[s] /\ states'[s][i] = states[s][i],
         handler'[s] # "out",
         s \in registered' /\ ~closed'[s] =>
           /\ handler'[s] \in {"enter", "initial", "wait", "drain"}
           /\ handler'[s] # "initial" => todo'[s] = {}
           /\ \A i \in Instances :
                /\ handler'[s] = "enter" \/ i \in todo'[s] => view'[s][i] = Absent
                /\ Knows(s, i)'
  PROVE  SerialInv'
  <1>1. NewsInv /\ ClientInv /\ registered \subseteq Subscribers
    BY DEF HubInv, SerialInv, TypeOK
  <1>2. NewsInv'
    <2>1. \A y \in Subscribers, i \in Instances : i \in DOMAIN states'[y] =>
            i \in DOMAIN states[y] /\ states'[y][i] = states[y][i]
      OBVIOUS
    <2>2. \A e \in ChangeEvent : e.key \in Instances
      BY EventFacts
    <2> QED BY <1>1, <2>1, <2>2 DEF NewsInv
  <1>3. ClientInv'
    <2>1. ASSUME NEW y \in registered', y # s, ~closed'[y]
          PROVE  /\ handler'[y] \in {"enter", "initial", "wait", "drain"}
                 /\ handler'[y] # "initial" => todo'[y] = {}
                 /\ \A i \in Instances :
                      /\ handler'[y] = "enter" \/ i \in todo'[y] => view'[y][i] = Absent
                      /\ Knows(y, i)'
      <3>1. y \in registered /\ y \in Subscribers
        BY <1>1, <2>1
      <3>2. \A i \in Instances : Knows(y, i) => Knows(y, i)'
        BY <2>1, <3>1 DEF Knows, OnItsWay, Tells, Current
      <3> QED BY <1>1, <2>1, <3>1, <3>2 DEF ClientInv
    <2>2. \A y \in Subscribers : handler'[y] = "out" =>
            todo'[y] = {} /\ \A i \in Instances : view'[y][i] = Absent
      BY <1>1 DEF ClientInv
    <2> QED BY <2>1, <2>2 DEF ClientInv
  <1> QED BY <1>2, <1>3 DEF SerialInv

\* What the handler does keeps it: a state taken out of the map is in the client's view.
LEMMA HandlerSerial ==
  ASSUME HubInv, SerialInv, NEW s \in Subscribers, Connect(s) \/ Handle(s) \/ GiveUp(s)
  PROVE  SerialInv'
  <1>1. TypeOK /\ JoinedInv /\ NewsInv /\ ClientInv
    BY DEF HubInv, SerialInv
  <1>2. /\ handler \in [Subscribers -> {"out", "enter", "initial", "wait", "drain", "gone"}]
        /\ todo \in [Subscribers -> SUBSET Instances]
        /\ view \in [Subscribers -> [Instances -> 0..MaxVersion]]
        /\ closed \in [Subscribers -> BOOLEAN]
        /\ DOMAIN states = Subscribers
        /\ version \in [Instances -> 0..MaxVersion] /\ told \in [Instances -> 0..MaxVersion]
        /\ \A i \in Instances : /\ present[i] => version[i] # Absent
                                /\ told[i] <= version[i]
    BY <1>1 DEF TypeOK, NewsInv
  \* What is known of s before.
  <1>3. s \in registered /\ ~closed[s] =>
          /\ handler[s] # "initial" => todo[s] = {}
          /\ \A i \in Instances :
               /\ handler[s] = "enter" \/ i \in todo[s] => view[s][i] = Absent
               /\ Knows(s, i)
    BY <1>1 DEF ClientInv
  <1>4. CASE Connect(s)
    <2>1. /\ handler[s] = "out" /\ registered' = registered \cup {s}
          /\ handler' = [handler EXCEPT ![s] = "enter"]
          /\ UNCHANGED <<version, present, told, pub, states, closed, todo, view>>
      BY <1>4 DEF Connect
    <2>2. todo[s] = {} /\ \A i \in Instances : view[s][i] = Absent /\ i \notin DOMAIN states[s]
      BY <1>1, <2>1 DEF ClientInv, JoinedInv
    <2>3. handler'[s] = "enter" /\ \A i \in Instances : Knows(s, i)'
      BY <1>2, <2>1, <2>2 DEF Knows
    <2> QED BY <1>2, <2>1, <2>2, <2>3, SubscriberSerial
  <1>5. CASE StartInitial(s)
    <2>1. PICK later \in SUBSET {i \in Instances : version[i] = Absent} :
            todo' = [todo EXCEPT ![s] = {i \in Instances : present[i]} \cup later]
      BY <1>5 DEF StartInitial
    <2>2. /\ handler[s] = "enter" /\ handler' = [handler EXCEPT ![s] = "initial"]
          /\ UNCHANGED <<version, present, told, pub, registered, states, closed, view>>
      BY <1>5 DEF StartInitial
    <2>3. /\ todo'[s] = {i \in Instances : present[i]} \cup later /\ handler'[s] = "initial"
          /\ \A y \in Subscribers : y # s => todo'[y] = todo[y] /\ handler'[y] = handler[y]
      BY <1>2, <2>1, <2>2
    <2>4. ASSUME s \in registered, ~closed[s], NEW i \in Instances
          PROVE  view[s][i] = Absent /\ Knows(s, i)'
      <3>1. view[s][i] = Absent /\ Knows(s, i)
        BY <1>3, <2>2, <2>4
      <3>2. CASE OnItsWay(s, i)
        BY <2>2, <3>1, <3>2 DEF Knows, OnItsWay
      <3>3. CASE i \in DOMAIN states[s] /\ Tells(states[s][i], i)
        BY <2>2, <3>1, <3>3 DEF Knows, Tells
      <3>4. CASE i \notin DOMAIN states[s]
        <4>1. i \in todo'[s] => present[i] \/ version[i] = Absent
          BY <2>3
        <4>2. i \notin todo'[s] => Current(view[s][i], i)
          BY <2>3, <3>1 DEF Current
        <4> QED BY <2>2, <3>1, <3>4, <4>1, <4>2 DEF Knows, Current
      <3> QED BY <3>1, <3>2, <3>3, <3>4 DEF Knows
    <2> QED BY <2>2, <2>3, <2>4, SubscriberSerial
  <1>6. ASSUME NEW k \in Instances, WriteInitial(s, k) PROVE SerialInv'
    <2>1. /\ handler[s] = "initial" /\ k \in todo[s] /\ todo' = [todo EXCEPT ![s] = @ \ {k}]
          /\ \/ version[k] # Absent /\ view' = [view EXCEPT ![s][k] = version[k]]
             \/ ~present[k] /\ view' = view
          /\ UNCHANGED <<version, present, told, pub, registered, states, closed, handler>>
      BY <1>6 DEF WriteInitial
    <2>2. /\ todo'[s] = todo[s] \ {k}
          /\ \A y \in Subscribers : y # s => todo'[y] = todo[y] /\ view'[y] = view[y]
          /\ \A i \in Instances : i # k => view'[s][i] = view[s][i]
      BY <1>2, <2>1
    <2>3. \/ version[k] # Absent /\ view'[s][k] = version[k]
          \/ ~present[k] /\ view'[s][k] = view[s][k]
      BY <1>2, <2>1
    <2>4. ASSUME s \in registered, ~closed[s], NEW i \in Instances
          PROVE  /\ i \in todo'[s] => view'[s][i] = Absent
                 /\ Knows(s, i)'
      <3>1. /\ i \in todo[s] => view[s][i] = Absent
            /\ Knows(s, i)
        BY <1>3, <2>4
      <3>2. CASE i # k
        BY <2>1, <2>2, <3>1, <3>2 DEF Knows, OnItsWay, Tells, Current
      <3>3. CASE i = k
        <4>1. view[s][k] = Absent /\ k \notin todo'[s]
          BY <2>1, <2>2, <3>1, <3>3
        <4>2. CASE OnItsWay(s, k)
          BY <2>1, <3>3, <4>1, <4>2 DEF Knows, OnItsWay
        <4>3. CASE k \in DOMAIN states[s] /\ Tells(states[s][k], k)
          BY <2>1, <3>3, <4>1, <4>3 DEF Knows, Tells
        <4>4. CASE k \notin DOMAIN states[s] /\ (present[k] \/ version[k] = Absent)
          <5>1. Current(view'[s][k], k)
            BY <1>2, <2>3, <4>1, <4>4 DEF Current
          <5> QED BY <2>1, <3>3, <4>1, <4>4, <5>1 DEF Knows, Current
        <4> QED BY <2>1, <3>1, <3>3, <4>2, <4>3, <4>4 DEF Knows
      <3> QED BY <3>2, <3>3
    <2> QED BY <2>1, <2>2, <2>4, SubscriberSerial
  <1>7. CASE Listen(s) \/ Wake(s) \/ Drained(s) \/ DeliverLog(s)
    <2>1. /\ UNCHANGED <<version, present, told, pub, registered, states, closed, todo, view>>
          /\ handler[s] \in {"initial", "wait", "drain"} /\ handler'[s] \in {"wait", "drain"}
          /\ handler[s] = "initial" => todo[s] = {}
          /\ \A y \in Subscribers : y # s => handler'[y] = handler[y]
      BY <1>2, <1>7 DEF Listen, Wake, Drained, DeliverLog
    <2>2. \A i \in Instances : Knows(s, i) => Knows(s, i)'
      BY <2>1 DEF Knows, OnItsWay, Tells, Current
    <2> QED BY <1>3, <2>1, <2>2, SubscriberSerial
  <1>8. ASSUME NEW k \in Instances, DeliverState(s, k) PROVE SerialInv'
    <2> DEFINE e == states[s][k]
    <2>1. /\ handler[s] = "drain" /\ k \in DOMAIN states[s]
          /\ states' = [states EXCEPT ![s] = [x \in DOMAIN @ \ {k} |-> @[x]]]
          /\ view' = [view EXCEPT ![s][k] = IF e.type = "delete" THEN Absent ELSE e.version]
          /\ UNCHANGED <<version, present, told, pub, registered, closed, handler, todo>>
      BY <1>8 DEF DeliverState, EarliestKeys
    <2>2. /\ DOMAIN states'[s] = DOMAIN states[s] \ {k}
          /\ \A x \in DOMAIN states'[s] : states'[s][x] = states[s][x]
          /\ \A y \in Subscribers : y # s => states'[y] = states[y] /\ view'[y] = view[y]
          /\ view'[s][k] = IF e.type = "delete" THEN Absent ELSE e.version
          /\ \A i \in Instances : i # k => view'[s][i] = view[s][i]
      BY <1>2, <2>1
    <2>3. ASSUME s \in registered, ~closed[s], NEW i \in Instances PROVE Knows(s, i)'
      <3>1. Knows(s, i) /\ todo[s] = {}
        BY <1>3, <2>1, <2>3
      <3>2. CASE i # k
        BY <2>1, <2>2, <3>1, <3>2 DEF Knows, OnItsWay, Tells, Current
      <3>3. CASE i = k
        <4>1. CASE OnItsWay(s, k)
          BY <2>1, <3>3, <4>1 DEF Knows, OnItsWay
        <4>2. CASE Tells(e, k)
          <5>1. Current(view'[s][k], k)
            BY <1>2, <2>2, <4>2 DEF Tells, Current
          <5> QED BY <2>1, <2>2, <3>1, <3>3, <5>1 DEF Knows, Current
        <4> QED BY <2>1, <3>1, <3>3, <4>1, <4>2 DEF Knows
      <3> QED BY <3>2, <3>3
    <2> QED BY <1>3, <2>1, <2>2, <2>3, SubscriberSerial
  <1>9. CASE NoticeClosed(s) \/ GiveUp(s)
    <2>1. /\ handler'[s] = "gone" /\ closed'[s] /\ registered' = registered \ {s}
          /\ \A y \in Subscribers : y # s => handler'[y] = handler[y] /\ closed'[y] = closed[y]
          /\ UNCHANGED <<version, present, told, pub, states, todo, view>>
      BY <1>2, <1>9 DEF NoticeClosed, GiveUp, End
    <2> QED BY <2>1, SubscriberSerial
  <1>10. CASE DeliverShutdown(s)
    <2>1. /\ handler'[s] = "gone" /\ closed'[s] /\ registered' = registered \ {s}
          /\ \A y \in Subscribers : y # s =>
               handler'[y] = handler[y] /\ closed'[y] = closed[y] /\ states'[y] = states[y]
          /\ \A i \in DOMAIN states'[s] : i \in DOMAIN states[s] /\ states'[s][i] = states[s][i]
          /\ UNCHANGED <<version, present, told, pub, todo, view>>
      BY <1>2, <1>10 DEF DeliverShutdown, End
    <2> QED BY <2>1, SubscriberSerial
  <1> QED BY <1>4, <1>5, <1>6, <1>7, <1>8, <1>9, <1>10 DEF Handle

\* So does a change without an event: what was current still is.
LEMMA SilentSerial ==
  ASSUME HubInv, SerialInv, NEW i \in Instances, ChangeSilently(i)
  PROVE  SerialInv'
  <1>1. TypeOK /\ NewsInv /\ ClientInv /\ registered \subseteq Subscribers
    BY DEF HubInv, SerialInv, TypeOK
  <1>2. /\ version \in [Instances -> 0..MaxVersion] /\ version' \in [Instances -> Nat]
        /\ told \in [Instances -> 0..MaxVersion]
        /\ \A j \in Instances : version[j] <= version'[j]
        /\ \A j \in Instances : version'[j] = Absent <=> version[j] = Absent
        /\ UNCHANGED <<present, told, pub, registered, queueVars, clientVars>>
    BY <1>1 DEF ChangeSilently, TypeOK, NewsInv
  <1>3. \A j \in Instances : told[j]..version[j] \subseteq told[j]..version'[j]
    BY <1>2
  <1>4. NewsInv'
    <2>1. ASSUME NEW s \in Subscribers, NEW j \in Instances, j \in DOMAIN states[s]
          PROVE  states[s][j].version <= version'[j]
      <3>1. states[s][j].version \in Nat /\ states[s][j].version <= version[j]
        BY <1>1, <2>1, EventFacts DEF TypeOK, NewsInv
      <3> QED BY <1>2, <3>1
    <2>2. \A j \in Instances : told[j] <= version'[j]
      BY <1>1, <1>2 DEF NewsInv
    <2>3. \A p \in Publishers : pub[p].pc # "idle" /\ pub[p].event \in ChangeEvent =>
            pub[p].event.key \in Instances
      BY EventFacts
    <2> QED BY <1>1, <1>2, <1>3, <2>1, <2>2, <2>3 DEF NewsInv
  <1>5. ASSUME NEW s \in registered, NEW j \in Instances, Knows(s, j) PROVE Knows(s, j)'
    BY <1>2, <1>3, <1>5 DEF Knows, OnItsWay, Tells, Current
  <1> QED BY <1>1, <1>2, <1>4, <1>5 DEF ClientInv, SerialInv

\* So does the shutdown, which ends the stream.
LEMMA ShutdownSerial ==
  ASSUME HubInv, SerialInv, NEW s \in Subscribers, ShutdownOne(s)
  PROVE  SerialInv'
  <1>1. TypeOK /\ JoinedInv
    BY DEF HubInv
  <1>2. PICK e \in EndEvent :
           /\ Enqueued(s, ShutdownKey, e) \/ (s \notin registered /\ UNCHANGED queueVars)
           /\ s \in ending /\ registered' = registered \ {s}
           /\ e.type = "shutdown"
           /\ UNCHANGED <<instanceVars, pub, clientVars>>
    BY <1>1, ShutdownEffect
  <1>3. /\ \A y \in Subscribers : y # s => states'[y] = states[y] /\ closed'[y] = closed[y]
        /\ \A i \in Instances : i \in DOMAIN states'[s] =>
             i \in DOMAIN states[s] /\ states'[s][i] = states[s][i]
    BY <1>2 DEF Enqueued
  <1>4. handler'[s] # "out" /\ s \notin registered' /\ registered' \ {s} \subseteq registered
    BY <1>1, <1>2 DEF JoinedInv
  <1> QED BY <1>2, <1>3, <1>4, SubscriberSerial

\* Nothing has happened that a client could have missed.
LEMMA SerialInitial == ASSUME Init PROVE SerialInv
  BY DEF Init, SerialInv, NewsInv, ClientInv, Nobody, NoStates

\* With one publisher every step keeps SerialInv.
LEMMA SerialStep == ASSUME OnePublisher, HubInv, SerialInv, [Next]_vars PROVE SerialInv'
  <1>1. CASE UNCHANGED vars \/ BroadcastShutdown
    <2>1. UNCHANGED <<version, present, told, pub, registered, states, closed, handler, todo, view>>
      BY <1>1 DEF vars, BroadcastShutdown
    <2>2. \A s \in registered, i \in Instances : Knows(s, i) => Knows(s, i)'
      BY <2>1 DEF Knows, OnItsWay, Tells, Current
    <2> QED BY <2>1, <2>2 DEF SerialInv, NewsInv, ClientInv
  <1>2. ASSUME NEW p \in Publishers, NEW i \in Instances,
               Create(p, i) \/ Change(p, i) \/ Delete(p, i) \/ Log(p, i)
        PROVE  SerialInv'
    BY <1>2, PublisherSerial
  <1>3. ASSUME NEW p \in Publishers, Publish(p) PROVE SerialInv'
    BY <1>3, PublisherSerial, SendSerial DEF Publish
  <1>4. ASSUME NEW s \in Subscribers, Connect(s) \/ Handle(s) \/ GiveUp(s) \/ ShutdownOne(s)
        PROVE  SerialInv'
    BY <1>4, HandlerSerial, ShutdownSerial
  <1>5. ASSUME NEW i \in Instances, ChangeSilently(i) PROVE SerialInv'
    BY <1>5, SilentSerial
  <1> QED BY <1>1, <1>2, <1>3, <1>4, <1>5 DEF Next

\* When everything published has been delivered, a client still connected knows of every
\* instance a state no older than its last change with an event, with no gap between its
\* initial events and the stream (event.go:10-76): with any number of subscribers and
\* instances, changes without events at any time, and the others published by one goroutine.
\* With more of them it is false: one may put an older snapshot over a newer one.
THEOREM SerialClients == OnePublisher => (Spec => []ClientUpToDate)
  <1>1. HubInv /\ SerialInv => ClientUpToDate
    <2> SUFFICES ASSUME HubInv, SerialInv, \A p \in Publishers : pub[p].pc = "idle",
                        NEW s \in registered, handler[s] = "wait", ~closed[s], ~Pending(s),
                        NEW i \in Instances
                 PROVE  IF present[i] THEN view[s][i] \in told[i]..version[i]
                        ELSE view[s][i] = Absent
      BY DEF ClientUpToDate
    <2>1. DOMAIN states[s] = {} /\ ~OnItsWay(s, i) /\ todo[s] = {} /\ Knows(s, i)
      BY DEF SerialInv, ClientInv, OnItsWay
    <2> QED BY <2>1 DEF Knows, Current
  <1>2. ASSUME OnePublisher PROVE Spec => []ClientUpToDate
    <2>1. Init => SerialInv
      BY SerialInitial
    <2>2. HubInv /\ SerialInv /\ [Next]_vars => SerialInv'
      BY <1>2, SerialStep
    <2> QED BY <1>1, <2>1, <2>2, AlwaysHub, PTL DEF Spec
  <1> QED BY <1>2

\* An event put over another one is not older, when one goroutine publishes.
LEMMA SerialKeepsLatest ==
  ASSUME OnePublisher, HubInv, SerialInv, [Next]_vars,
         NEW s \in Subscribers, NEW i \in Instances,
         i \in DOMAIN states[s], i \in DOMAIN states'[s]
  PROVE  /\ states'[s][i].version >= states[s][i].version
         /\ states[s][i].type = "delete" => states'[s][i].type = "delete"
  <1>1. TypeOK /\ TurnInv /\ NewsInv /\ registered \subseteq Subscribers
    BY DEF HubInv, SerialInv, TypeOK
  <1>2. /\ states[s][i] \in ChangeEvent /\ states[s][i].version \in Nat
        /\ states[s][i].version <= version[i]
        /\ states[s][i].type = "delete" => ~present[i]
        /\ DOMAIN states = Subscribers
    BY <1>1, EventFacts DEF TypeOK, NewsInv
  <1>3. CASE states'[s][i] = states[s][i]
    BY <1>2, <1>3
  <1>4. ASSUME NEW p \in Publishers, NEW y \in Subscribers, Send(p, y),
               states'[s][i] # states[s][i]
        PROVE  /\ states'[s][i].version >= states[s][i].version
               /\ states[s][i].type = "delete" => states'[s][i].type = "delete"
    <2> DEFINE e == pub[p].event
    <2>1. /\ pub[p].pc = "send" /\ e \in ChangeEvent \cup LogEvent
          /\ Enqueued(y, e.key, e) \/ UNCHANGED queueVars
      BY <1>1, <1>4, SendEffect
    <2>2. s = y /\ e \in ChangeEvent /\ e.key = i /\ states'[s][i] = e
      BY <1>4, <2>1, EventFacts DEF Enqueued
    <2>3. states[s][i].version <= e.version /\ (e.type = "delete" <=> ~present[i])
      BY <1>1, <2>1, <2>2 DEF NewsInv
    <2> QED BY <1>1, <1>2, <2>2, <2>3 DEF TypeOK
  <1>5. ASSUME NEW y \in Subscribers, ShutdownOne(y) PROVE states'[s][i] = states[s][i]
    <2>1. PICK e \in EndEvent : /\ Enqueued(y, ShutdownKey, e) \/ UNCHANGED queueVars
                                /\ e.type = "shutdown"
      BY <1>1, <1>5, ShutdownEffect
    <2> QED BY <2>1 DEF Enqueued
  <1>6. ASSUME NEW y \in Subscribers, Connect(y) \/ Handle(y) \/ GiveUp(y)
        PROVE  states'[s][i] = states[s][i]
    <2>1. CASE states' = states
      BY <2>1
    <2>2. ASSUME NEW k, states' = [states EXCEPT ![y] = [x \in DOMAIN @ \ {k} |-> @[x]]]
          PROVE  states'[s][i] = states[s][i]
      <3>1. CASE y = s
        <4>1. states'[s] = [x \in DOMAIN states[s] \ {k} |-> states[s][x]]
          BY <1>2, <2>2, <3>1
        <4> QED BY <4>1
      <3>2. CASE y # s
        BY <1>2, <2>2, <3>2
      <3> QED BY <3>1, <3>2
    <2> QED BY <1>6, <2>1, <2>2
         DEF Handle, Connect, GiveUp, WriteInitial, DeliverState, StartInitial, Listen, Wake,
             DeliverLog, Drained, NoticeClosed, DeliverShutdown, End
  <1>7. ASSUME NEW p \in Publishers, NEW k \in Instances,
               \/ Create(p, k) \/ Change(p, k) \/ Delete(p, k) \/ Log(p, k)
               \/ Stamp(p) \/ Snapshot(p) \/ StartRange(p) \/ Sent(p)
        PROVE  states' = states
    BY <1>7 DEF Create, Change, Delete, Log, Announce, Stamp, Snapshot, StartRange, Sent
  <1>8. CASE UNCHANGED vars \/ BroadcastShutdown \/ \E k \in Instances : ChangeSilently(k)
    BY <1>3, <1>8 DEF vars, BroadcastShutdown, ChangeSilently
  <1> QED BY <1>3, <1>4, <1>5, <1>6, <1>7, <1>8 DEF Next, Publish

\* docs/master.md:708-709: a subscriber keeps the latest state of each instance.  It does,
\* where one goroutine publishes; the run event_hub_latest shows that it need not with two.
THEOREM SerialLatest == OnePublisher => (Spec => LatestStateKept)
  <1>1. ASSUME OnePublisher PROVE Spec => LatestStateKept
    <2>1. Init => SerialInv
      BY SerialInitial
    <2>2. HubInv /\ SerialInv /\ [Next]_vars => SerialInv'
      BY <1>1, SerialStep
    <2>3. HubInv /\ SerialInv /\ [Next]_vars =>
            [\A s \in Subscribers, i \in Instances :
               (i \in DOMAIN states[s] /\ i \in DOMAIN states'[s]) =>
                 /\ states'[s][i].version >= states[s][i].version
                 /\ states[s][i].type = "delete" => states'[s][i].type = "delete"]_vars
      BY <1>1, SerialKeepsLatest
    <2> QED BY <2>1, <2>2, <2>3, AlwaysHub, PTL DEF Spec, LatestStateKept
  <1> QED BY <1>1

=============================================================================
