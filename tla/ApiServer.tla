------------------------------ MODULE ApiServer ------------------------------
(***************************************************************************)
(* The API server of the master (Run and shutdown in                       *)
(* src/internal/master/master.go, handleInfo and handleTCPPing in rest.go, *)
(* the end of handleSSE in event.go): connections with their TLS           *)
(* handshakes (CertReload), the requests on them, and the end of the       *)
(* program, which tells the open streams, closes the server, and does not  *)
(* wait for ever.                                                          *)
(*                                                                         *)
(* What the requests do to instances, files and event queues is in         *)
(* Supervisor, StateStore and EventHub; the end of the children and the    *)
(* last save are steps here.  Timers are choices.                          *)
(*                                                                         *)
(* An operator with the comment "Mutant" is a wrong version of the one     *)
(* after it, which some property must tell from it; no action uses it.     *)
(***************************************************************************)
EXTENDS CertReload, FiniteSets

CONSTANTS Aliases,
          PingSlots  \* pingSemLimit

ASSUME SlotsAssumption == PingSlots \in Nat \ {0}

VARIABLES
  stage,              \* of each connection: what is being done on it
  want,               \* of each connection: the alias its request sets
  served, saved,      \* m.alias, and the alias of the internal instance
  slots,              \* tokens in tcpPingSem
  registered, told,   \* m.subscribers; those with a shutdown event queued
  phase,              \* of the program
  early, left         \* history: streams open when the broadcast began; those it has to visit

requestVars == <<stage, want, served, saved, slots>>
streamVars == <<registered, told, early, left>>
vars == <<tlsVars, requestVars, streamVars, phase>>

TypeOK ==
  /\ TlsTypeOK
  /\ stage \in [Conns -> {"closed", "handshake", "idle", "record", "wait", "dial", "stream", "reply"}]
  /\ want \in [Conns -> Aliases \cup {None}]
  /\ served \in Aliases
  /\ saved \in Aliases
  /\ slots \in 0..PingSlots
  /\ registered \subseteq Conns
  /\ told \subseteq Conns
  /\ phase \in {"up", "stopping", "saving", "telling", "closing", "over"}
  /\ early \subseteq Conns
  /\ left \subseteq Conns

\* Run serves the alias that was loaded.
Init ==
  /\ TlsInit
  /\ stage = [c \in Conns |-> "closed"]
  /\ want = [c \in Conns |-> None]
  /\ served \in Aliases
  /\ saved = served
  /\ slots = 0
  /\ registered = {}
  /\ told = {}
  /\ phase = "up"
  /\ early = {}
  /\ left = {}

-----------------------------------------------------------------------------
(* Connections: net/http accepts, reads requests, and closes *)

Stage(c, place) == stage' = [stage EXCEPT ![c] = place]

Accept(c) ==
  /\ phase \notin {"closing", "over"}
  /\ stage[c] = "closed"
  /\ Hello(c)
  /\ Stage(c, "handshake")
  /\ UNCHANGED <<want, served, saved, slots, streamVars, phase>>

Greet(c) ==
  /\ stage[c] = "handshake"
  /\ Handshake(c)
  /\ Stage(c, IF handshake'[c] = "done" THEN "idle" ELSE "handshake")
  /\ UNCHANGED <<want, served, saved, slots, streamVars, phase>>

\* A client leaves, or the server that is closing drops a connection without a request;
\* one that has had none yet may still make it.
CloseIdle(c) ==
  /\ stage[c] = "idle"
  /\ Stage(c, "closed")
  /\ Forget(c)
  /\ UNCHANGED <<want, served, saved, slots, streamVars, phase>>

\* The handler has returned.  A server that is closing keeps no connection alive, and the
\* client may be gone.
Reply(c) ==
  /\ stage[c] = "reply"
  /\ \/ phase # "closing" /\ Stage(c, "idle") /\ UNCHANGED tlsVars
     \/ Stage(c, "closed") /\ Forget(c)
  /\ UNCHANGED <<want, served, saved, slots, streamVars, phase>>

\* A request that changes nothing here: refused, invalid, or about something else.
Answer(c) ==
  /\ stage[c] = "idle"
  /\ Stage(c, "reply")
  /\ UNCHANGED <<tlsVars, want, served, saved, slots, streamVars, phase>>

-----------------------------------------------------------------------------
(* handleInfo: POST /info *)

\* Under m.mu ...
SetAlias(c, a) ==
  /\ stage[c] = "idle"
  /\ served' = a
  /\ want' = [want EXCEPT ![c] = a]
  /\ Stage(c, "record")
  /\ UNCHANGED <<tlsVars, saved, slots, streamVars, phase>>

\* ... and under the mu of the internal instance, which every later save copies.
RecordAlias(c) ==
  /\ stage[c] = "record"
  /\ saved' = want[c]
  /\ want' = [want EXCEPT ![c] = None]
  /\ Stage(c, "reply")
  /\ UNCHANGED <<tlsVars, served, slots, streamVars, phase>>

-----------------------------------------------------------------------------
(* handleTCPPing *)

Ping(c) ==
  /\ stage[c] = "idle"
  /\ Stage(c, "wait")
  /\ UNCHANGED <<tlsVars, want, served, saved, slots, streamVars, phase>>

\* Mutant: room for one more.
TakeSlotOver(c) ==
  /\ stage[c] = "wait"
  /\ slots <= PingSlots
  /\ slots' = slots + 1
  /\ Stage(c, "dial")
  /\ UNCHANGED <<tlsVars, want, served, saved, streamVars, phase>>

TakeSlot(c) ==
  /\ stage[c] = "wait"
  /\ slots < PingSlots
  /\ slots' = slots + 1
  /\ Stage(c, "dial")
  /\ UNCHANGED <<tlsVars, want, served, saved, streamVars, phase>>

\* Mutant: the slot is given back on the way out of the timeout, too.
PingTimeoutReleases(c) ==
  /\ stage[c] = "wait"
  /\ slots' = IF slots = 0 THEN 0 ELSE slots - 1
  /\ Stage(c, "reply")
  /\ UNCHANGED <<tlsVars, want, served, saved, streamVars, phase>>

\* "too many requests", after a second.
PingTimeout(c) ==
  /\ stage[c] = "wait"
  /\ Stage(c, "reply")
  /\ UNCHANGED <<tlsVars, want, served, saved, slots, streamVars, phase>>

\* The dial has succeeded, failed, or taken five seconds; the slot is given back.
Dialled(c) ==
  /\ stage[c] = "dial"
  /\ slots' = slots - 1
  /\ Stage(c, "reply")
  /\ UNCHANGED <<tlsVars, want, served, saved, streamVars, phase>>

-----------------------------------------------------------------------------
(* handleSSE: GET /events *)

\* A Range that is under way may come to a subscriber that registers now.
OpenStream(c) ==
  /\ stage[c] = "idle"
  /\ Stage(c, "stream")
  /\ registered' = registered \cup {c}
  /\ left' \in IF phase = "telling" THEN {left, left \cup {c}} ELSE {left}
  /\ UNCHANGED <<tlsVars, want, served, saved, slots, told, early, phase>>

\* The shutdown event is written; or the client has left, or is too slow.
EndStream(c) ==
  /\ stage[c] = "stream"
  /\ Stage(c, "reply")
  /\ registered' = registered \ {c}
  /\ told' = told \ {c}
  /\ early' = early \ {c}
  /\ UNCHANGED <<tlsVars, want, served, saved, slots, left, phase>>

-----------------------------------------------------------------------------
(* shutdown *)

\* SIGINT or SIGTERM: Run goes on to shutdown, whose time starts to run.
Terminate ==
  /\ phase = "up"
  /\ phase' = "stopping"
  /\ UNCHANGED <<tlsVars, requestVars, streamVars>>

ChildrenStopped ==
  /\ phase = "stopping"
  /\ phase' = "saving"
  /\ UNCHANGED <<tlsVars, requestVars, streamVars>>

\* saveState has returned, and shutdownSSEConnections ranges over the subscribers.
Saved ==
  /\ phase = "saving"
  /\ phase' = "telling"
  /\ early' = registered
  /\ left' = registered
  /\ UNCHANGED <<tlsVars, requestVars, registered, told>>

\* The subscriber is unregistered and has its event; one that has gone is passed over.
Tell(c) ==
  /\ phase = "telling"
  /\ c \in left
  /\ left' = left \ {c}
  /\ registered' = registered \ {c}
  /\ told' = IF c \in registered THEN told \cup {c} ELSE told
  /\ UNCHANGED <<tlsVars, requestVars, early, phase>>

\* Mutant: shutdownSSEConnections in a goroutine of its own, as for a new API key.
CloseServerEarly ==
  /\ phase = "telling"
  /\ phase' = "closing"
  /\ UNCHANGED <<tlsVars, requestVars, streamVars>>

\* server.Shutdown closes the listener, then waits.
CloseServer ==
  /\ phase = "telling"
  /\ left = {}
  /\ phase' = "closing"
  /\ UNCHANGED <<tlsVars, requestVars, streamVars>>

\* No connection is left.
Finish ==
  /\ phase = "closing"
  /\ \A c \in Conns : stage[c] = "closed"
  /\ phase' = "over"
  /\ UNCHANGED <<tlsVars, requestVars, streamVars>>

\* Mutant: only server.Shutdown has a deadline.
DeadlineServer ==
  /\ phase = "closing"
  /\ phase' = "over"
  /\ UNCHANGED <<tlsVars, requestVars, streamVars>>

\* Five seconds for the server, thirteen for everything; what is open is cut off.
Deadline ==
  /\ phase \notin {"up", "over"}
  /\ phase' = "over"
  /\ UNCHANGED <<tlsVars, requestVars, streamVars>>

-----------------------------------------------------------------------------
Serve(c) == Greet(c) \/ Reply(c) \/ RecordAlias(c) \/ TakeSlot(c) \/ PingTimeout(c) \/ Dialled(c)

\* What happens on a connection while the program runs.
Connection(c) ==
  /\ phase # "over"
  /\ \/ Accept(c) \/ Serve(c) \/ CloseIdle(c) \/ Answer(c) \/ Ping(c) \/ OpenStream(c) \/ EndStream(c)
     \/ \E a \in Aliases : SetAlias(c, a)

World == /\ phase # "over"
         /\ Tick \/ RotateCrt \/ RotateKey
         /\ UNCHANGED <<requestVars, streamVars, phase>>

Next == \/ \E c \in Conns : Connection(c) \/ Tell(c)
        \/ World
        \/ Terminate \/ ChildrenStopped \/ Saved \/ CloseServer \/ Finish \/ Deadline

Spec == Init /\ [][Next]_vars

\* Handlers run, and the time given to the shutdown passes.  Nothing makes clients act or
\* leave, children end, or the disk answer.
Fairness == /\ \A c \in Conns : WF_vars(phase # "over" /\ Serve(c))
            /\ WF_vars(Deadline)
FairSpec == Spec /\ Fairness

-----------------------------------------------------------------------------
(* Properties *)

\* A slot is taken exactly while an address is being dialled for somebody: none is lost
\* on any way out of handleTCPPing, and none given back twice (rest.go:406-414).
SlotsAccounted == slots = Cardinality({c \in Conns : stage[c] = "dial"})

\* When the server begins to close, every stream that was open when the children had
\* been stopped and the state saved is unregistered and has its shutdown event, or has
\* ended: only a stream opened later can hold the server up (master.go:228-231).
NobodyForgotten ==
  phase = "closing" => \A c \in early : c \notin registered /\ c \in told

\* Whoever has been accepted gets through the handshake, and whoever asks for something
\* other than a stream gets an answer, unless the program ends: neither the lock of the
\* certificate nor a ping that waits for a slot holds anybody for ever.
Busy(c) == stage[c] \in {"handshake", "record", "wait", "dial", "reply"}
RequestsAnswered == \A c \in Conns : Busy(c) ~> ~Busy(c) \/ phase = "over"

\* Once told to, the program ends, whatever clients and disk do (docs/master.md:836-839).
ProgramEnds == phase = "stopping" ~> phase = "over"

\* "The alias ... is persisted through the internal API-key instance"
\* (docs/master.md:343): with no request under way the one served is the one saved.
AliasAgrees == (\A c \in Conns : stage[c] # "record") => served = saved

-----------------------------------------------------------------------------
(* Why they hold: the parts of an inductive invariant *)

\* A connection is in GetCertificate as long as it shakes hands.
StageInv ==
  \A c \in Conns :
    /\ stage[c] = "closed" <=> handshake[c] = "none"
    /\ stage[c] = "handshake" <=> handshake[c] \notin {"none", "done"}
    /\ stage[c] = "record" => want[c] \in Aliases

\* Only open streams are registered or told; of those that the broadcast found, each is
\* registered until its turn has come, and then told.
StreamInv ==
  /\ \A c \in registered \cup told \cup early : stage[c] = "stream"
  /\ phase = "telling" => \A c \in early : IF c \in left THEN c \in registered
                                           ELSE c \notin registered /\ c \in told

\* There are not more pings than slots.
DialInv == IsFiniteSet({c \in Conns : stage[c] = "dial"}) /\ SlotsAccounted

ServerInv == TypeOK /\ TlsInv /\ StageInv /\ StreamInv /\ DialInv /\ NobodyForgotten
=============================================================================
