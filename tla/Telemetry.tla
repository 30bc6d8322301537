------------------------------ MODULE Telemetry ------------------------------
(***************************************************************************)
(* The figures of one instance (src/internal/master/runtime.go): every     *)
(* child has a goroutine that finds the telemetry endpoints of its         *)
(* process, connects to one, and applies the snapshots it reads to the     *)
(* instance, while the instance is stopped, started anew, or has its       *)
(* counters reset by a user.                                               *)
(*                                                                         *)
(* One byte counter stands for the four, one number of connections for     *)
(* the two.  The lifecycle is that of Supervisor, reduced to what it does  *)
(* to the figures.                                                         *)
(*                                                                         *)
(* External are the processes and their endpoints (of Linux: unixipc.go,   *)
(* linux.go).  A process may have several endpoints, each with counts that *)
(* never decrease; the registry file of an endpoint outlives it.  The PID  *)
(* of a process that has been waited for may be given to another child or  *)
(* to a process of somebody else, which may have endpoints, too.           *)
(*                                                                         *)
(* An operator with the comment "Mutant" is a wrong version of the one     *)
(* after it, which some property must tell from it; no action uses it.     *)
(***************************************************************************)
EXTENDS Naturals

CONSTANTS Procs,     \* children, each launched at most once
          Others,    \* Nowhere processes that are not children of this instance
          Pids,      \* process identifiers
          Endpoints, \* registry names; each is used once
          Loads,     \* numbers of connections a frame may carry
          MaxBytes,  \* bound on the bytes an endpoint counts
          MaxUint,   \* math.MaxUint64
          MaxInt32,  \* math.MaxInt32
          None

ASSUME WidthAssumption == /\ MaxUint \in Nat /\ MaxInt32 \in Nat
                          /\ MaxBytes \in 0..MaxUint /\ Loads \subseteq Nat
ASSUME NoneAssumption == None \notin Procs \cup Others \cup Endpoints \cup Pids
ASSUME ProcessAssumption == Procs \cap Others = {}

Processes == Procs \cup Others

VARIABLES
  status, cmd,        \* of the instance
  total, base, reset, \* TCPRX, tcpRXBase, tcpRXReset
  active,             \* TCPS
  identity,           \* telemetryIdentity
  pid,                \* of each process: what it was given, cmd.Process.Pid of a child
  bearer,             \* of each PID: the process that has it now
  host,               \* of each endpoint: the process that registered it
  sent,               \* bytes counted by each endpoint
  life,               \* of each child: "new", "up", "recorded", "over"
  stopping,           \* its channel `stopped' is closed
  cancelled,          \* its context is cancelled
  pc, peer, snapshot, \* its telemetry goroutine: place, endpoint and last frame
  due, seen, spoilt   \* history: what `total' should say, see CounterExact

figures == <<total, base, reset, active>>
counters == <<total, base, reset>>
system == <<pid, bearer, host, sent>>
children == <<life, stopping, cancelled>>
links == <<pc, peer, snapshot>>
history == <<due, seen, spoilt>>
vars == <<status, cmd, figures, identity, system, children, links, history>>

Frame == [bytes : 0..MaxBytes, active : Loads]

TypeOK ==
  /\ status \in {"stopped", "running", "error"}
  /\ cmd \in Procs \cup {None}
  /\ total \in 0..MaxUint
  /\ base \in 0..MaxUint
  /\ reset \in 0..MaxUint
  /\ active \in 0..MaxInt32
  /\ identity \in Endpoints \cup {None}
  /\ pid \in [Processes -> Pids \cup {None}]
  /\ bearer \in [Pids -> Processes \cup {None}]
  /\ host \in [Endpoints -> Processes \cup {None}]
  /\ sent \in [Endpoints -> 0..MaxBytes]
  /\ life \in [Procs -> {"new", "up", "recorded", "over"}]
  /\ stopping \in [Procs -> BOOLEAN]
  /\ cancelled \in [Procs -> BOOLEAN]
  /\ pc \in [Procs -> {"off", "search", "hello", "open", "check", "apply", "left", "ended"}]
  /\ peer \in [Procs -> Endpoints \cup {None}]
  /\ snapshot \in [Procs -> Frame \cup {None}]
  /\ due \in Nat
  /\ seen \in 0..MaxBytes
  /\ spoilt \in BOOLEAN

Init ==
  /\ status = "stopped"
  /\ cmd = None
  /\ total = 0
  /\ base = 0
  /\ reset = 0
  /\ active = 0
  /\ identity = None
  /\ pid = [x \in Processes |-> None]
  /\ bearer = [k \in Pids |-> None]
  /\ host = [e \in Endpoints |-> None]
  /\ sent = [e \in Endpoints |-> 0]
  /\ life = [p \in Procs |-> "new"]
  /\ stopping = [p \in Procs |-> FALSE]
  /\ cancelled = [p \in Procs |-> FALSE]
  /\ pc = [p \in Procs |-> "off"]
  /\ peer = [p \in Procs |-> None]
  /\ snapshot = [p \in Procs |-> None]
  /\ due = 0
  /\ seen = 0
  /\ spoilt = FALSE

Least(a, b) == IF a < b THEN a ELSE b

-----------------------------------------------------------------------------
(* Processes and their endpoints *)

Exists(x) == pid[x] # None /\ bearer[pid[x]] = x

\* A new process gets a PID that is free.
Launch(x) ==
  /\ pid[x] = None
  /\ \E k \in Pids : /\ bearer[k] = None
                     /\ pid' = [pid EXCEPT ![x] = k]
                     /\ bearer' = [bearer EXCEPT ![k] = x]
  /\ UNCHANGED <<host, sent>>

\* A process has exited and its parent, for a child cmd.Wait, knows; its PID is free.
Exit(x) ==
  /\ Exists(x)
  /\ bearer' = [bearer EXCEPT ![pid[x]] = None]
  /\ UNCHANGED <<pid, host, sent>>

Register(x, e) ==
  /\ Exists(x)
  /\ host[e] = None
  /\ host' = [host EXCEPT ![e] = x]
  /\ UNCHANGED <<pid, bearer, sent>>

Transfer(e) ==
  /\ host[e] # None
  /\ Exists(host[e])
  /\ sent[e] < MaxBytes
  /\ sent' = [sent EXCEPT ![e] = @ + 1]
  /\ UNCHANGED <<pid, bearer, host>>

System ==
  /\ \/ \E o \in Others : Launch(o)
     \/ \E x \in Processes : Exit(x) \/ \E e \in Endpoints : Register(x, e)
     \/ \E e \in Endpoints : Transfer(e)
  /\ UNCHANGED <<status, cmd, figures, identity, children, links, history>>

-----------------------------------------------------------------------------
(* The lifecycle of the instance *)

\* startInstanceLocked starts the counters of a child from what is there.
Rebase == /\ base' = total
          /\ reset' = 0
          /\ identity' = None
          /\ active' = 0
          /\ seen' = 0
          /\ UNCHANGED <<total, due, spoilt>>

Start(p) ==
  /\ status = "stopped"
  /\ life[p] = "new"
  /\ Launch(p)
  /\ Rebase
  /\ status' = "running"
  /\ cmd' = p
  /\ life' = [life EXCEPT ![p] = "up"]
  /\ pc' = [pc EXCEPT ![p] = "search"]
  /\ UNCHANGED <<stopping, cancelled, peer, snapshot>>

StartFails ==
  /\ status = "stopped"
  /\ Rebase
  /\ status' = "error"
  /\ UNCHANGED <<cmd, system, children, links>>

\* monitorInstance records an exit, then cancels the context outside inst.mu.
ExitRecorded(p, how) ==
  /\ cmd = p
  /\ ~Exists(p)
  /\ ~stopping[p]
  /\ status' = how
  /\ cmd' = None
  /\ active' = 0
  /\ life' = [life EXCEPT ![p] = "recorded"]
  /\ UNCHANGED <<counters, identity, system, stopping, cancelled, links, history>>

ExitCancels(p) ==
  /\ life[p] = "recorded"
  /\ life' = [life EXCEPT ![p] = "over"]
  /\ cancelled' = [cancelled EXCEPT ![p] = TRUE]
  /\ UNCHANGED <<status, cmd, figures, identity, system, stopping, links, history>>

\* stopInstanceLocked: of an instance that shows an error ...
StopDead ==
  /\ status = "error"
  /\ status' = "stopped"
  /\ active' = 0
  /\ UNCHANGED <<cmd, counters, identity, system, children, links, history>>

\* ... or of a running one, in three critical sections.
StopSignal(p) ==
  /\ cmd = p
  /\ ~stopping[p]
  /\ stopping' = [stopping EXCEPT ![p] = TRUE]
  /\ UNCHANGED <<status, cmd, figures, identity, system, life, cancelled, links, history>>

StopCancels(p) ==
  /\ cmd = p
  /\ stopping[p]
  /\ ~cancelled[p]
  /\ cancelled' = [cancelled EXCEPT ![p] = TRUE]
  /\ UNCHANGED <<status, cmd, figures, identity, system, life, stopping, links, history>>

StopFinish(p) ==
  /\ cmd = p
  /\ stopping[p]
  /\ cancelled[p]
  /\ status' = "stopped"
  /\ cmd' = None
  /\ active' = 0
  /\ life' = [life EXCEPT ![p] = "over"]
  /\ UNCHANGED <<counters, identity, system, stopping, cancelled, links, history>>

\* PATCH with the action "reset", which waits for the end of a stop.
ResetCounters ==
  /\ ~\E p \in Procs : cmd = p /\ stopping[p]
  /\ reset' = (reset + total - base) % (MaxUint + 1)
  /\ total' = 0
  /\ base' = 0
  /\ due' = 0
  /\ spoilt' = (spoilt \/ due > MaxUint)
  /\ UNCHANGED <<status, cmd, active, identity, system, children, links, seen>>

-----------------------------------------------------------------------------
(* The telemetry goroutine of a child: runTelemetry *)

Go(p, place) == pc' = [pc EXCEPT ![p] = place]

\* Mutant: any child that is not being stopped.
CurrentAny(p) == ~stopping[p]

\* telemetryCurrentLocked
Current(p) == cmd = p /\ ~stopping[p]

\* validateTelemetryProcess: the PID in the registry file is that of the process that wrote
\* it, not of a later one.  Linux tells by the time at which the process was started.
Genuine(e) == bearer[pid[host[e]]] = host[e]

\* Mutant: whatever is in the directory.
DiscoveredAny(p, e) == host[e] # None /\ Genuine(e)

\* discoverTelemetry: the files that name the PID of the child.
Discovered(p, e) == host[e] # None /\ pid[host[e]] = pid[p] /\ Genuine(e)

\* Mutant: any endpoint that is found.
ExpectedAny(e) == TRUE

\* The endpoint of before, if there was one.
Expected(e) == identity \in {None, e}

\* dialTelemetry: somebody listens, and the socket is that of the PID in the file.
Reachable(e) == Exists(host[e])

\* An endpoint is found, expected and reached, and greets properly.  Else the goroutine
\* waits and tries again.
Connect(p, e) ==
  /\ pc[p] = "search"
  /\ ~cancelled[p]
  /\ Discovered(p, e)
  /\ Expected(e)
  /\ Reachable(e)
  /\ peer' = [peer EXCEPT ![p] = e]
  /\ Go(p, "hello")
  /\ UNCHANGED <<status, cmd, figures, identity, system, children, snapshot, history>>

\* applyTelemetryHello
Hello(p) ==
  /\ pc[p] = "hello"
  /\ identity' = IF Current(p) THEN peer[p] ELSE identity
  /\ Go(p, "open")
  /\ UNCHANGED <<status, cmd, figures, system, children, peer, snapshot, history>>

\* consumeTelemetry reads a frame ...
Receive(p, connections) ==
  /\ pc[p] = "open"
  /\ snapshot' = [snapshot EXCEPT ![p] = [bytes |-> sent[peer[p]], active |-> connections]]
  /\ Go(p, "check")
  /\ UNCHANGED <<status, cmd, figures, identity, system, children, peer, history>>

\* ... or cannot: an error, a malformed frame, a timeout, a closed connection.
ReadFails(p) ==
  /\ pc[p] = "open"
  /\ Go(p, "left")
  /\ UNCHANGED <<status, cmd, figures, identity, system, children, peer, snapshot, history>>

\* It asks whether the child is current, validates the frame without inst.mu, ...
Check(p) ==
  /\ pc[p] = "check"
  /\ Go(p, IF Current(p) THEN "apply" ELSE "left")
  /\ UNCHANGED <<status, cmd, figures, identity, system, children, peer, snapshot, history>>

\* applyCounter
CounterReset(value) == IF value >= reset THEN reset ELSE 0
\* Mutant: no saturation.
CounterValueOver(value) == base + (value - CounterReset(value))

CounterValue(value) == Least(base + (value - CounterReset(value)), MaxUint)

\* ... and applies it if the child is still current: applyTelemetrySnapshot.
Apply(p) ==
  LET f == snapshot[p] IN
  /\ pc[p] = "apply"
  /\ IF Current(p)
     THEN /\ active' = Least(f.active, MaxInt32)
          /\ total' = CounterValue(f.bytes)
          /\ reset' = CounterReset(f.bytes)
          /\ spoilt' = (spoilt \/ host[peer[p]] # p)
          /\ due' = IF spoilt' THEN 0 ELSE due + (f.bytes - seen)
          /\ seen' = IF spoilt' THEN 0 ELSE f.bytes
     ELSE UNCHANGED <<active, total, reset, history>>
  /\ snapshot' = [snapshot EXCEPT ![p] = None]
  /\ Go(p, "open")
  /\ UNCHANGED <<status, cmd, base, identity, system, children, peer>>

\* Mutant: no clearActiveTelemetry.
DisconnectOnly(p) ==
  /\ pc[p] = "left"
  /\ Go(p, IF cancelled[p] THEN "ended" ELSE "search")
  /\ peer' = [peer EXCEPT ![p] = None]
  /\ snapshot' = [snapshot EXCEPT ![p] = None]
  /\ UNCHANGED <<status, cmd, figures, identity, system, children, history>>

\* The connection is closed; clearActiveTelemetry unless the context is cancelled.
Disconnect(p) ==
  /\ pc[p] = "left"
  /\ active' = IF ~cancelled[p] /\ Current(p) THEN 0 ELSE active
  /\ Go(p, IF cancelled[p] THEN "ended" ELSE "search")
  /\ peer' = [peer EXCEPT ![p] = None]
  /\ snapshot' = [snapshot EXCEPT ![p] = None]
  /\ UNCHANGED <<status, cmd, counters, identity, system, children, history>>

Quit(p) ==
  /\ pc[p] = "search"
  /\ cancelled[p]
  /\ Go(p, "ended")
  /\ UNCHANGED <<status, cmd, figures, identity, system, children, peer, snapshot, history>>

-----------------------------------------------------------------------------
Lifecycle(p) == \/ Start(p)
                \/ \E how \in {"stopped", "error"} : ExitRecorded(p, how)
                \/ ExitCancels(p)
                \/ StopSignal(p)
                \/ StopCancels(p)
                \/ StopFinish(p)

Next == \/ StartFails \/ StopDead \/ ResetCounters \/ System
        \/ \E p \in Procs :
             \/ Lifecycle(p)
             \/ Hello(p)
             \/ Check(p)
             \/ Apply(p)
             \/ ReadFails(p)
             \/ Disconnect(p)
             \/ Quit(p)
             \/ \E e \in Endpoints : Connect(p, e)
             \/ \E c \in Loads : Receive(p, c)

Spec == Init /\ [][Next]_vars

-----------------------------------------------------------------------------
(* Properties *)

\* The counter is what the children have reported since the last reset, no byte
\* twice and none missed, over restarts, reconnections and late snapshots; it stops
\* at its greatest value.  Two exceptions (spoilt): the reset of a saturated counter
\* forgets what was beyond and shows it again (rest.go:200), and see OwnEndpointOnly.
CounterExact == ~spoilt => total = Least(due, MaxUint)

\* Connections are on display only while somebody reports them: a snapshot that was read
\* before an exit and applied after it does not bring them back, and a connection that is
\* lost takes them away.  A stop clears them at its end.
ActiveIsLive ==
  active # 0 => \E p \in Procs : cmd = p /\ (stopping[p] \/ pc[p] \in {"open", "check", "apply", "left"})

\* As long as a child exists its goroutine talks to nobody else, whatever the directory
\* holds and whoever has had its PID before.  It does not hold afterwards: until
\* monitorInstance has recorded the exit, the goroutine looks for the PID of a process that
\* has been waited for, and may find the next one that has it (runtime.go:25).
OwnEndpointOnly ==
  \A p \in Procs : Exists(p) /\ peer[p] # None => host[peer[p]] = p

-----------------------------------------------------------------------------
(* Why they hold: the parts of an inductive invariant *)

ChildInv ==
  /\ cmd # None <=> status = "running"
  /\ \A p \in Procs :
       /\ life[p] = "new" <=> pid[p] = None
       /\ life[p] = "new" <=> pc[p] = "off"
       /\ life[p] = "new" => ~stopping[p] /\ ~cancelled[p]
       /\ cmd = p => life[p] = "up" /\ (cancelled[p] => stopping[p])

LinkInv ==
  \A p \in Procs :
    /\ peer[p] # None <=> pc[p] \in {"hello", "open", "check", "apply", "left"}
    /\ peer[p] # None => host[peer[p]] # None
    /\ pc[p] \in {"check", "apply"} =>
         snapshot[p] \in Frame /\ snapshot[p].bytes <= sent[peer[p]]

\* The endpoint that is counted from is one, and what has been applied of it is not more
\* than what the next frame will say.
IdentityInv ==
  /\ IF identity = None THEN seen = 0 ELSE seen <= sent[identity]
  /\ \A p \in Procs : Current(p) =>
       /\ pc[p] = "hello" => Expected(peer[p])
       /\ pc[p] \in {"open", "check", "apply"} => identity = peer[p]
       /\ pc[p] \in {"check", "apply"} => seen <= snapshot[p].bytes

\* base, reset and seen say how `total' has come about, as long as it has not saturated.
MeterInv ==
  ~spoilt => /\ reset <= seen
             /\ IF due <= MaxUint THEN base + seen = reset + due
                                  ELSE base + seen >= reset + MaxUint

TelemetryInv == /\ TypeOK /\ ChildInv /\ LinkInv /\ IdentityInv /\ MeterInv
                /\ CounterExact /\ ActiveIsLive /\ OwnEndpointOnly
=============================================================================
