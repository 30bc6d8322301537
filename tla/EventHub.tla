------------------------------ MODULE EventHub ------------------------------
(***************************************************************************)
(* The event stream GET /events (src/internal/master/event.go): publishers *)
(* snapshot an instance and hand the event to every registered subscriber; *)
(* a subscriber keeps the last pending state of each instance and a short  *)
(* queue of log lines, and its handler, woken through a channel of one     *)
(* slot, writes what is pending in the order of the events' times.         *)
(*                                                                         *)
(* The state of an instance is a version number.  A critical section of    *)
(* inst.mu, of subscriber.mu, and a visit of a Range is one action; a log  *)
(* line is published with inst.mu held, so `mu' is explicit.  Two events   *)
(* may have the same time.                                                 *)
(*                                                                         *)
(* An operator with the comment "Mutant" is a wrong version of the one     *)
(* after it, which some property must tell from it; no action uses it.     *)
(***************************************************************************)
EXTENDS Naturals, Sequences, FiniteSets

CONSTANTS Instances,
          Publishers,  \* goroutines that may send events (bound on concurrency)
          Subscribers, \* connections; one that has ended is not used again
          LogLimit,    \* 10 in enqueue
          StateLimit,  \* channelBufSize
          MaxVersion,  \* bound on the changes of an instance
          MaxLines,    \* bound on its log lines
          None

ShutdownKey == "shutdown"

ASSUME LimitAssumption == LogLimit \in Nat \ {0} /\ StateLimit \in Nat \ {0}
ASSUME BoundAssumption == MaxVersion \in Nat \ {0} /\ MaxLines \in Nat
ASSUME NameAssumption == ShutdownKey \notin Instances /\ None \notin Publishers

VARIABLES
  version, present, \* of each instance: its state, and whether it is in the map
  told,             \* history: the state of each instance at its last change with an event
  lines,            \* of each instance: log lines sent so far
  mu,               \* of each instance: the publisher that holds inst.mu while it logs
  now,              \* the clock
  pub,              \* of each publisher: [pc, event, left]
  registered,       \* m.subscribers
  states, logs,     \* of each subscriber: pending states by key, and pending log lines
  wake, closed,     \* its wake slot is full; its done channel is closed
  handler,          \* its handler: "out", "enter", "initial", "wait", "drain", "gone"
  todo,             \* instances whose initial event it has still to write
  view,             \* what the client knows of each instance by the documented reducer
  heard,            \* log lines of each instance the client has, counted from its first
  ending            \* shutdownSSEConnections: "no", or the subscribers left to visit

instanceVars == <<version, present, told, lines, mu>>
queueVars == <<states, logs, wake, closed>>
clientVars == <<handler, todo, view, heard>>
vars == <<instanceVars, now, pub, registered, queueVars, clientVars, ending>>

Absent == 0   \* versions count from 1

ChangeEvent == [type : {"create", "update", "delete"}, key : Instances,
                version : Absent..MaxVersion, time : Nat]
LogEvent == [type : {"log"}, key : Instances, line : 1..MaxLines, time : Nat]
EndEvent == [type : {"shutdown"}, time : Nat]

Turn == [pc : {"idle", "stamp", "snap", "range", "send"},
         event : ChangeEvent \cup LogEvent \cup {None}, left : SUBSET Subscribers]

TypeOK ==
  /\ version \in [Instances -> Absent..MaxVersion]
  /\ present \in [Instances -> BOOLEAN]
  /\ told \in [Instances -> Absent..MaxVersion]
  /\ lines \in [Instances -> 0..MaxLines]
  /\ mu \in [Instances -> Publishers \cup {None}]
  /\ now \in Nat
  /\ pub \in [Publishers -> Turn]
  /\ registered \subseteq Subscribers
  /\ DOMAIN states = Subscribers
  /\ logs \in [Subscribers -> Seq(LogEvent)]
  /\ \A s \in Subscribers :
       /\ DOMAIN states[s] \subseteq Instances \cup {ShutdownKey}
       /\ \A k \in DOMAIN states[s] :
            states[s][k] \in IF k = ShutdownKey THEN EndEvent ELSE ChangeEvent
       /\ IsFiniteSet(DOMAIN states[s]) /\ Cardinality(DOMAIN states[s]) <= StateLimit
       /\ Len(logs[s]) <= LogLimit
  /\ wake \in [Subscribers -> BOOLEAN]
  /\ closed \in [Subscribers -> BOOLEAN]
  /\ handler \in [Subscribers -> {"out", "enter", "initial", "wait", "drain", "gone"}]
  /\ todo \in [Subscribers -> SUBSET Instances]
  /\ view \in [Subscribers -> [Instances -> 0..MaxVersion]]
  /\ heard \in [Subscribers -> [Instances -> 0..MaxLines]]
  /\ ending \subseteq Subscribers

Nobody == [pc |-> "idle", event |-> None, left |-> {}]
NoStates == [k \in {} |-> None]

Init ==
  /\ present \in [Instances -> BOOLEAN]
  /\ version = [i \in Instances |-> IF present[i] THEN 1 ELSE Absent]
  /\ told = version
  /\ lines = [i \in Instances |-> 0]
  /\ mu = [i \in Instances |-> None]
  /\ now = 0
  /\ pub = [p \in Publishers |-> Nobody]
  /\ registered = {}
  /\ states = [s \in Subscribers |-> NoStates]
  /\ logs = [s \in Subscribers |-> <<>>]
  /\ wake = [s \in Subscribers |-> FALSE]
  /\ closed = [s \in Subscribers |-> FALSE]
  /\ handler = [s \in Subscribers |-> "out"]
  /\ todo = [s \in Subscribers |-> {}]
  /\ view = [s \in Subscribers |-> [i \in Instances |-> Absent]]
  /\ heard = [s \in Subscribers |-> [i \in Instances |-> 0]]
  /\ ending = {}

\* time.Now: later than the last event, or not yet.
Clock == now' \in {now, now + 1}

-----------------------------------------------------------------------------
(* Publishers *)

\* What sendSSEEvent is called with; its time and snapshot come later.
Announce(p, type, i) ==
  /\ pub[p].pc = "idle"
  /\ mu[i] = None
  /\ told' = [told EXCEPT ![i] = version'[i]]
  /\ pub' = [pub EXCEPT ![p] = [pc |-> "stamp", left |-> {},
               event |-> [type |-> type, key |-> i, version |-> Absent, time |-> 0]]]
  /\ UNCHANGED <<lines, mu, now, registered, queueVars, clientVars, ending>>

\* handleInstances has put a new instance into the map, under an ID never used before.
Create(p, i) ==
  /\ version[i] = Absent
  /\ version' = [version EXCEPT ![i] = 1]
  /\ present' = [present EXCEPT ![i] = TRUE]
  /\ Announce(p, "create", i)

\* A start, a stop, the monitor, telemetry or a PATCH changes the instance under inst.mu,
\* and will send an update.
Change(p, i) ==
  /\ present[i]
  /\ version[i] < MaxVersion
  /\ version' = [version EXCEPT ![i] = @ + 1]
  /\ Announce(p, "update", i)
  /\ UNCHANGED present

\* A change of which nobody sends an event: POST /info sets the alias of the internal
\* instance; a PUT sets the URL and leaves the event to its start, which sends none once
\* the shutdown has begun.
ChangeSilently(i) ==
  /\ present[i]
  /\ mu[i] = None
  /\ version[i] < MaxVersion
  /\ version' = [version EXCEPT ![i] = @ + 1]
  /\ UNCHANGED <<present, told, lines, mu, now, pub, registered, queueVars, clientVars, ending>>

\* handleDeleteInstance has taken the instance out of the map, and will send a delete.
Delete(p, i) ==
  /\ present[i]
  /\ present' = [present EXCEPT ![i] = FALSE]
  /\ UNCHANGED version
  /\ Announce(p, "delete", i)

\* sendSSEEvent, first the time ...
Stamp(p) ==
  /\ pub[p].pc = "stamp"
  /\ Clock
  /\ pub' = [pub EXCEPT ![p].pc = "snap", ![p].event.time = now']
  /\ UNCHANGED <<instanceVars, registered, queueVars, clientVars, ending>>

\* ... then the snapshot, under inst.mu, ...
Snapshot(p) ==
  LET i == pub[p].event.key IN
  /\ pub[p].pc = "snap"
  /\ mu[i] = None
  /\ pub' = [pub EXCEPT ![p].pc = "range", ![p].event.version = version[i]]
  /\ UNCHANGED <<instanceVars, now, registered, queueVars, clientVars, ending>>

\* ... then publishEvent ranges over the subscribers.
StartRange(p) ==
  /\ pub[p].pc = "range"
  /\ pub' = [pub EXCEPT ![p].pc = "send", ![p].left = registered]
  /\ UNCHANGED <<instanceVars, now, registered, queueVars, clientVars, ending>>

\* Mutant: inst.mu is not held while the line is published.
LogUnlocked(p, i) ==
  /\ pub[p].pc = "idle"
  /\ present[i]
  /\ mu[i] = None
  /\ lines[i] < MaxLines
  /\ Clock
  /\ lines' = [lines EXCEPT ![i] = @ + 1]
  /\ pub' = [pub EXCEPT ![p] = [pc |-> "send", left |-> registered,
               event |-> [type |-> "log", key |-> i, line |-> lines'[i], time |-> now']]]
  /\ UNCHANGED <<version, present, told, mu, registered, queueVars, clientVars, ending>>

\* sendTelemetryLog does all of it under inst.mu.
Log(p, i) ==
  /\ pub[p].pc = "idle"
  /\ present[i]
  /\ mu[i] = None
  /\ lines[i] < MaxLines
  /\ mu' = [mu EXCEPT ![i] = p]
  /\ Clock
  /\ lines' = [lines EXCEPT ![i] = @ + 1]
  /\ pub' = [pub EXCEPT ![p] = [pc |-> "send", left |-> registered,
               event |-> [type |-> "log", key |-> i, line |-> lines'[i], time |-> now']]]
  /\ UNCHANGED <<version, present, told, registered, queueVars, clientVars, ending>>

\* Mutant: a pending state stays as it is.
SetStateOnce(s, k, e) ==
  states' = [states EXCEPT ![s] =
              [x \in DOMAIN @ \cup {k} |-> IF x \in DOMAIN @ THEN @[x] ELSE e]]

SetState(s, k, e) ==
  states' = [states EXCEPT ![s] = [x \in DOMAIN @ \cup {k} |-> IF x = k THEN e ELSE @[x]]]

\* Mutant: one log line too many.
FullLate(s, k, e) == IF e.type = "log" THEN Len(logs[s]) = LogLimit + 1
                     ELSE k \notin DOMAIN states[s] /\ Cardinality(DOMAIN states[s]) = StateLimit

\* There is no room for the event.
Full(s, k, e) == IF e.type = "log" THEN Len(logs[s]) = LogLimit
                 ELSE k \notin DOMAIN states[s] /\ Cardinality(DOMAIN states[s]) = StateLimit

Put(s, k, e) == IF e.type = "log"
                THEN logs' = [logs EXCEPT ![s] = Append(@, e)] /\ UNCHANGED states
                ELSE SetState(s, k, e) /\ UNCHANGED logs

\* enqueue: nothing for a closed subscriber, closure instead of a queue too long.
Enqueue(s, k, e) ==
  \/ /\ closed[s]
     /\ UNCHANGED queueVars
  \/ /\ ~closed[s]
     /\ Full(s, k, e)
     /\ closed' = [closed EXCEPT ![s] = TRUE]
     /\ UNCHANGED <<states, logs, wake>>
  \/ /\ ~closed[s]
     /\ ~Full(s, k, e)
     /\ Put(s, k, e)
     /\ wake' = [wake EXCEPT ![s] = TRUE]
     /\ UNCHANGED closed

\* The Range may hold a subscriber that has been unregistered since, or notice.
Send(p, s) ==
  /\ pub[p].pc = "send"
  /\ s \in pub[p].left
  /\ pub' = [pub EXCEPT ![p].left = @ \ {s}]
  /\ \/ Enqueue(s, pub[p].event.key, pub[p].event)
     \/ s \notin registered /\ UNCHANGED queueVars
  /\ UNCHANGED <<instanceVars, now, registered, clientVars, ending>>

Sent(p) ==
  /\ pub[p].pc = "send"
  /\ pub[p].left = {}
  /\ mu' = [i \in Instances |-> IF mu[i] = p THEN None ELSE mu[i]]
  /\ pub' = [pub EXCEPT ![p] = Nobody]
  /\ UNCHANGED <<version, present, told, lines, now, registered, queueVars, clientVars, ending>>

Publish(p) == Stamp(p) \/ Snapshot(p) \/ StartRange(p) \/ (\E s \in Subscribers : Send(p, s)) \/ Sent(p)

-----------------------------------------------------------------------------
(* handleSSE *)

\* The subscriber is registered before the first snapshot is taken.
Connect(s) ==
  /\ handler[s] = "out"
  /\ registered' = registered \cup {s}
  /\ handler' = [handler EXCEPT ![s] = "enter"]
  /\ heard' = [heard EXCEPT ![s] = lines]
  /\ UNCHANGED <<instanceVars, now, pub, queueVars, todo, view, ending>>

\* The Range over the instances visits those present when it starts, and some of
\* those created before it ends.
StartInitial(s) ==
  /\ handler[s] = "enter"
  /\ handler' = [handler EXCEPT ![s] = "initial"]
  /\ \E later \in SUBSET {i \in Instances : version[i] = Absent} :
       todo' = [todo EXCEPT ![s] = {i \in Instances : present[i]} \cup later]
  /\ UNCHANGED <<instanceVars, now, pub, registered, queueVars, view, heard, ending>>

\* One initial event, a snapshot written at once; or the instance is not, or no
\* longer, there when the Range comes to it.
WriteInitial(s, i) ==
  /\ handler[s] = "initial"
  /\ i \in todo[s]
  /\ todo' = [todo EXCEPT ![s] = @ \ {i}]
  /\ \/ /\ version[i] # Absent
        /\ mu[i] = None
        /\ view' = [view EXCEPT ![s][i] = version[i]]
     \/ /\ ~present[i]
        /\ UNCHANGED view
  /\ UNCHANGED <<instanceVars, now, pub, registered, queueVars, handler, heard, ending>>

Listen(s) ==
  /\ handler[s] = "initial"
  /\ todo[s] = {}
  /\ handler' = [handler EXCEPT ![s] = "wait"]
  /\ UNCHANGED <<instanceVars, now, pub, registered, queueVars, todo, view, heard, ending>>

Wake(s) ==
  /\ handler[s] = "wait"
  /\ wake[s]
  /\ wake' = [wake EXCEPT ![s] = FALSE]
  /\ handler' = [handler EXCEPT ![s] = "drain"]
  /\ UNCHANGED <<instanceVars, now, pub, registered, states, logs, closed, todo, view, heard, ending>>

\* next: the earliest pending state, unless the first log line is earlier.
EarliestKeys(s) == {k \in DOMAIN states[s] :
                      \A x \in DOMAIN states[s] : states[s][k].time <= states[s][x].time}
LogIsFirst(s) == /\ logs[s] # <<>>
                 /\ \A k \in DOMAIN states[s] : logs[s][1].time < states[s][k].time

\* Mutant: one event for each wake-up.
DeliverLogOnce(s) ==
  /\ handler[s] = "drain"
  /\ ~closed[s]
  /\ LogIsFirst(s)
  /\ logs' = [logs EXCEPT ![s] = Tail(@)]
  /\ heard' = [heard EXCEPT ![s][logs[s][1].key] = logs[s][1].line]
  /\ handler' = [handler EXCEPT ![s] = "wait"]
  /\ UNCHANGED <<instanceVars, now, pub, registered, states, wake, closed, todo, view, ending>>

DeliverLog(s) ==
  /\ handler[s] = "drain"
  /\ ~closed[s]
  /\ LogIsFirst(s)
  /\ logs' = [logs EXCEPT ![s] = Tail(@)]
  /\ heard' = [heard EXCEPT ![s][logs[s][1].key] = logs[s][1].line]
  /\ UNCHANGED <<instanceVars, now, pub, registered, states, wake, closed, handler, todo, view, ending>>

DeliverState(s, k) ==
  LET e == states[s][k] IN
  /\ handler[s] = "drain"
  /\ ~closed[s]
  /\ ~LogIsFirst(s)
  /\ k \in EarliestKeys(s) \cap Instances
  /\ states' = [states EXCEPT ![s] = [x \in DOMAIN @ \ {k} |-> @[x]]]
  /\ view' = [view EXCEPT ![s][k] = IF e.type = "delete" THEN Absent ELSE e.version]
  /\ UNCHANGED <<instanceVars, now, pub, registered, logs, wake, closed, handler, todo, heard, ending>>

\* Nothing pending, or closed: back to the select.
Drained(s) ==
  /\ handler[s] = "drain"
  /\ closed[s] \/ (DOMAIN states[s] = {} /\ logs[s] = <<>>)
  /\ handler' = [handler EXCEPT ![s] = "wait"]
  /\ UNCHANGED <<instanceVars, now, pub, registered, queueVars, todo, view, heard, ending>>

\* The handler returns and its deferred function unregisters and closes.
End(s) ==
  /\ registered' = registered \ {s}
  /\ closed' = [closed EXCEPT ![s] = TRUE]
  /\ handler' = [handler EXCEPT ![s] = "gone"]

\* A write that fails or takes five seconds, or the client has left.
GiveUp(s) ==
  /\ handler[s] \in {"enter", "initial", "wait", "drain"}
  /\ End(s)
  /\ UNCHANGED <<instanceVars, now, pub, states, logs, wake, todo, view, heard, ending>>

\* Mutant: only when nothing is pending.
NoticeClosedEmpty(s) ==
  /\ handler[s] = "wait"
  /\ closed[s]
  /\ DOMAIN states[s] = {} /\ logs[s] = <<>>
  /\ End(s)
  /\ UNCHANGED <<instanceVars, now, pub, states, logs, wake, todo, view, heard, ending>>

NoticeClosed(s) ==
  /\ handler[s] = "wait"
  /\ closed[s]
  /\ End(s)
  /\ UNCHANGED <<instanceVars, now, pub, states, logs, wake, todo, view, heard, ending>>

DeliverShutdown(s) ==
  /\ handler[s] = "drain"
  /\ ~closed[s]
  /\ ~LogIsFirst(s)
  /\ ShutdownKey \in EarliestKeys(s)
  /\ states' = [states EXCEPT ![s] = [x \in DOMAIN @ \ {ShutdownKey} |-> @[x]]]
  /\ End(s)
  /\ UNCHANGED <<instanceVars, now, pub, logs, wake, todo, view, heard, ending>>

Handle(s) == \/ \E i \in Instances : WriteInitial(s, i) \/ DeliverState(s, i)
             \/ StartInitial(s) \/ Listen(s) \/ Wake(s) \/ DeliverLog(s) \/ Drained(s)
             \/ NoticeClosed(s) \/ DeliverShutdown(s)

-----------------------------------------------------------------------------
(* shutdownSSEConnections, at the end of the program or for a new API key *)

BroadcastShutdown ==
  /\ ending = {}
  /\ registered # {}
  /\ ending' = registered
  /\ UNCHANGED <<instanceVars, now, pub, registered, queueVars, clientVars>>

\* Mutant: the subscriber stays registered.
ShutdownOneStays(s) ==
  /\ s \in ending
  /\ ending' = ending \ {s}
  /\ Clock
  /\ Enqueue(s, ShutdownKey, [type |-> "shutdown", time |-> now'])
  /\ UNCHANGED <<instanceVars, pub, registered, clientVars>>

\* The subscriber is unregistered first; only then is its event stamped and queued.
ShutdownOne(s) ==
  /\ s \in ending
  /\ ending' = ending \ {s}
  /\ registered' = registered \ {s}
  /\ Clock
  /\ \/ Enqueue(s, ShutdownKey, [type |-> "shutdown", time |-> now'])
     \/ s \notin registered /\ UNCHANGED queueVars
  /\ UNCHANGED <<instanceVars, pub, clientVars>>

Next ==
  \/ \E p \in Publishers : \/ \E i \in Instances : Create(p, i) \/ Change(p, i)
                                                  \/ Delete(p, i) \/ Log(p, i)
                           \/ Publish(p)
  \/ \E i \in Instances : ChangeSilently(i)
  \/ \E s \in Subscribers : Connect(s) \/ Handle(s) \/ GiveUp(s) \/ ShutdownOne(s)
  \/ BroadcastShutdown

Spec == Init /\ [][Next]_vars

\* Publishers, handlers and the broadcast run; nobody need connect, change or leave.
Fairness == /\ \A p \in Publishers : WF_vars(Publish(p))
            /\ \A s \in Subscribers : WF_vars(Handle(s)) /\ WF_vars(ShutdownOne(s))
FairSpec == Spec /\ Fairness

-----------------------------------------------------------------------------
(* Properties *)

Pending(s) == DOMAIN states[s] # {} \/ logs[s] # <<>>
Connected(s) == handler[s] \in {"enter", "initial", "wait", "drain"} /\ ~closed[s]

\* A handler never sleeps on a pending event: the wake slot of size one, filled
\* without blocking (event.go:129-132), loses no wake-up.
NoLostWakeup ==
  \A s \in Subscribers : handler[s] = "wait" /\ ~closed[s] /\ Pending(s) => wake[s]

\* A queue has the lines m to n of an instance, in order and each once.
Holds(q, i, m, n) ==
  LET mine == {x \in 1..Len(q) : q[x].key = i}
  IN /\ {q[x].line : x \in mine} = m..n
     /\ \A x, y \in mine : x < y => q[x].line < q[y].line

\* The last line that a subscriber could have: one that is being published is still on
\* its way to some.
LastSent(s, i) == IF \E p \in Publishers : mu[i] = p /\ s \in pub[p].left
                  THEN lines[i] - 1 ELSE lines[i]

\* A connected client misses no log line and gets them in order: behind the last one
\* it has heard, its queue holds all that followed, each once.
LogsComplete ==
  \A s \in registered, i \in Instances :
    Connected(s) => /\ heard[s][i] <= LastSent(s, i)
                    /\ Holds(logs[s], i, heard[s][i] + 1, LastSent(s, i))

\* The shutdown event is not earlier than whatever is queued with it, so that child logs
\* and final states are written first (docs/master.md:836).  Of events with the same time
\* any may be the first to be written, and what is behind a shutdown event is lost
\* (event.go:144-150): where the clock stands still there is no promise.
ShutdownIsLast ==
  \A s \in Subscribers :
    ShutdownKey \in DOMAIN states[s] =>
      LET t == states[s][ShutdownKey].time IN
      /\ \A k \in DOMAIN states[s] \ {ShutdownKey} : states[s][k].time <= t
      /\ \A n \in 1..Len(logs[s]) : logs[s][n].time <= t

\* When everything published has been delivered, a client that is still connected knows
\* which instances there are, and of each a state that is no older than its last change
\* with an event: what happened before it connected from the initial events, the rest
\* from the stream, with no gap in between.  Changes since then that send no event it
\* need not know (rest.go:371-377), though docs/master.md:704 says that an update is
\* "sent when lifecycle state, metadata, counters, or API-key state changes".
ClientUpToDate ==
  (\A p \in Publishers : pub[p].pc = "idle") =>
    \A s \in registered :
      handler[s] = "wait" /\ ~closed[s] /\ ~Pending(s) =>
        \A i \in Instances :
          IF present[i] THEN view[s][i] \in told[i]..version[i] ELSE view[s][i] = Absent

\* docs/master.md:708-709, of a subscriber: "a separate map of the latest state per
\* instance".  An event snapshotted before another one of the same instance is never
\* put over it.
LatestStateKept ==
  [][\A s \in Subscribers, i \in Instances :
       (i \in DOMAIN states[s] /\ i \in DOMAIN states'[s]) =>
         /\ states'[s][i].version >= states[s][i].version
         /\ states[s][i].type = "delete" => states'[s][i].type = "delete"]_vars

\* Whatever is pending is delivered, or the subscriber is disconnected.
PendingHandled == \A s \in Subscribers : Pending(s) /\ ~closed[s] ~> ~Pending(s) \/ closed[s]

\* A subscriber that was closed for being slow, or told to end, goes away.
ClosedEnds == \A s \in Subscribers : closed[s] ~> handler[s] = "gone"

-----------------------------------------------------------------------------
(* Why they hold: the parts of an inductive invariant *)

\* What a publisher has in hand.
TurnInv ==
  \A p \in Publishers :
    /\ pub[p].pc \in {"stamp", "snap", "range"} => pub[p].event \in ChangeEvent
    /\ pub[p].pc = "send" => pub[p].event \in ChangeEvent \cup LogEvent
    /\ pub[p].left # {} => pub[p].pc = "send"
    /\ \A s \in pub[p].left : handler[s] # "out"

\* Nobody knows of a subscriber before it is registered.
JoinedInv ==
  /\ \A s \in registered \cup ending : handler[s] # "out"
  /\ \A s \in Subscribers : handler[s] = "out" => ~Pending(s)

\* inst.mu is held for the last line of the instance, by its publisher.
MuInv ==
  /\ \A p \in Publishers :
       pub[p].pc = "send" /\ pub[p].event \in LogEvent => mu[pub[p].event.key] = p
  /\ \A i \in Instances : mu[i] # None =>
       LET t == pub[mu[i]] IN
       t.pc = "send" /\ t.event \in LogEvent /\ t.event.key = i /\ t.event.line = lines[i]

TimeInv ==
  /\ \A p \in Publishers : pub[p].pc # "idle" => pub[p].event.time <= now
  /\ \A s \in Subscribers :
       /\ \A k \in DOMAIN states[s] : states[s][k].time <= now
       /\ \A n \in 1..Len(logs[s]) : logs[s][n].time <= now

\* Once the shutdown event is queued, only what has been stamped before is still to come.
EndInv ==
  \A s \in Subscribers : ShutdownKey \in DOMAIN states[s] =>
    /\ s \notin registered /\ handler[s] # "out"
    /\ \A p \in Publishers : s \in pub[p].left =>
         pub[p].event.time <= states[s][ShutdownKey].time

WakeInv ==
  \A s \in Subscribers : handler[s] # "drain" /\ ~closed[s] /\ Pending(s) => wake[s]

HubInv == /\ TypeOK /\ TurnInv /\ JoinedInv /\ MuInv /\ TimeInv /\ EndInv
          /\ WakeInv /\ LogsComplete /\ ShutdownIsLast

\* With one publisher: what a client may think of an instance, ...
Current(v, i) == IF present[i] THEN v \in told[i]..version[i] ELSE v = Absent
Tells(e, i) == IF e.type = "delete" THEN ~present[i]
               ELSE present[i] /\ e.version \in told[i]..version[i]

\* ... whether the news of it is on its way to a subscriber, ...
OnItsWay(s, i) ==
  \E p \in Publishers :
    /\ pub[p].pc # "idle" /\ pub[p].event \in ChangeEvent /\ pub[p].event.key = i
    /\ pub[p].pc = "send" => s \in pub[p].left

\* ... or waits there, or will be an initial event, or has been heard.
Knows(s, i) ==
  \/ OnItsWay(s, i)
  \/ i \in DOMAIN states[s] /\ Tells(states[s][i], i)
  \/ i \notin DOMAIN states[s] /\ handler[s] = "enter"
  \/ i \notin DOMAIN states[s] /\ i \in todo[s] /\ (present[i] \/ version[i] = Absent)
  \/ i \notin DOMAIN states[s] /\ i \notin todo[s] /\ Current(view[s][i], i)

\* An event is never ahead of its instance.
NewsInv ==
  /\ \A i \in Instances : /\ present[i] => told[i] # Absent
                          /\ told[i] <= version[i]
  /\ \A p \in Publishers : pub[p].pc # "idle" /\ pub[p].event \in ChangeEvent =>
       LET e == pub[p].event IN
       /\ version[e.key] # Absent
       /\ e.type = "delete" <=> ~present[e.key]
       /\ pub[p].pc \in {"range", "send"} =>
            /\ e.version \in told[e.key]..version[e.key]
            /\ \A s \in Subscribers :
                 e.key \in DOMAIN states[s] => states[s][e.key].version <= e.version
  /\ \A s \in Subscribers, i \in Instances : i \in DOMAIN states[s] =>
       /\ version[i] # Absent
       /\ states[s][i].version <= version[i]
       /\ states[s][i].type = "delete" => ~present[i]

ClientInv ==
  /\ \A s \in Subscribers : handler[s] = "out" =>
       todo[s] = {} /\ \A i \in Instances : view[s][i] = Absent
  /\ \A s \in registered : ~closed[s] =>
       /\ handler[s] \in {"enter", "initial", "wait", "drain"}
       /\ handler[s] # "initial" => todo[s] = {}
       /\ \A i \in Instances :
            /\ handler[s] = "enter" \/ i \in todo[s] => view[s][i] = Absent
            /\ Knows(s, i)

SerialInv == NewsInv /\ ClientInv
=============================================================================
