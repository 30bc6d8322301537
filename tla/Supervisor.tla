----------------------------- MODULE Supervisor -----------------------------
(***************************************************************************)
(* How OpenCtrl supervises its child processes                             *)
(* (src/internal/master/instance.go, rest.go, periodic.go, master.go).     *)
(*                                                                         *)
(* Every instance has a short mutex inst.mu and a long one, lifecycleMu.   *)
(* A critical section of inst.mu is one action here; lifecycleMu is the    *)
(* explicit variable `lock', because a stop keeps it for seconds while it  *)
(* waits for the child.  The goroutines that compete for it are            *)
(*   - Workers: the goroutine of a REST request, or the one it spawns,     *)
(*   - Main: the start of the program, which loads and starts instances,   *)
(*   - Periodic: the hourly task that restarts failed instances,           *)
(*   - one per instance, spawned by the shutdown to stop it,               *)
(* and every child has a monitor that waits for its exit and takes inst.mu *)
(* without lifecycleMu.                                                    *)
(*                                                                         *)
(* An element of Instances stands for one ID and its record, which is      *)
(* never reused; an element of Procs for one exec.Cmd together with its    *)
(* context and its channels `stopped' and `exited', all made by one start. *)
(*                                                                         *)
(* An operator with the comment "Mutant" is a wrong version of the one     *)
(* after it, which some property must tell from it; no action uses it.     *)
(***************************************************************************)
CONSTANTS Instances,  \* instances the program may ever know
          Procs,      \* child processes it may ever launch (bound)
          Workers,    \* request goroutines (bound on concurrency)
          Main,       \* the goroutine that loads the state
          Periodic,   \* the hourly task
          Urls,       \* URLs an instance may carry
          Supported,  \* those with a supported role that agrees with the type
          None

Threads == Workers \cup {Main, Periodic} \cup Instances

ASSUME UrlAssumption == Supported \subseteq Urls
ASSUME NoneAssumption == None \notin Instances \cup Procs \cup Urls \cup Threads
ASSUME ThreadAssumption == /\ Workers \cap Instances = {}
                           /\ Main \notin Workers \cup Instances
                           /\ Periodic \notin Workers \cup Instances
                           /\ Main # Periodic

VARIABLES
  status, url, restart, cmd, deleted, failure,  \* fields of each instance
  life,      \* "absent", "saved" (only in the state file), "stored" (in the map), "removed"
  lock,      \* holder of lifecycleMu of each instance
  pc, op, on, child, arg,  \* of each thread: place, operation, its instance, child and URL
  proc,      \* each child, from its launch to the return of its monitor
  owner,     \* the instance it was launched for
  stopping,  \* its channel `stopped' is closed
  cancelled, \* its context is cancelled
  phase,     \* "loading", "up", "ranging" (shutdown looks at instances), "drained"
  toVisit,   \* instances Main has still to load, or the shutdown to look at
  toScan,    \* instances the hourly task has still to look at
  due,       \* failed instances it has found and not yet handled
  asked      \* history: "run" or "halt", the last order given to each instance

instVars   == <<status, url, restart, cmd, deleted, failure>>
threadVars == <<pc, op, on, child, arg>>
childVars  == <<proc, owner, stopping, cancelled>>
taskVars   == <<phase, toVisit, toScan, due>>
vars == <<instVars, life, lock, threadVars, childVars, taskVars, asked>>

Ops == {"start", "stop", "restart", "put", "delete", "recover"}
PCs == {"idle", "lock", "stop", "grace", "killed", "reset", "replace", "remove",
        "start", "exited"}

\* A child is alive, then dying (SIGKILL sent) or not, exits well or with an error,
\* has its exit recorded by the monitor or ignored as superseded; then `exited' is closed.
ProcStates == {"unborn", "alive", "dying", "ok", "fail", "recorded", "superseded", "done"}

TypeOK ==
  /\ status \in [Instances -> {"stopped", "running", "error"}]
  /\ url \in [Instances -> Urls \cup {None}]
  /\ restart \in [Instances -> BOOLEAN]
  /\ cmd \in [Instances -> Procs \cup {None}]
  /\ deleted \in [Instances -> BOOLEAN]
  /\ failure \in [Instances -> BOOLEAN]
  /\ life \in [Instances -> {"absent", "saved", "stored", "removed"}]
  /\ lock \in [Instances -> Threads \cup {None}]
  /\ pc \in [Threads -> PCs]
  /\ op \in [Threads -> Ops \cup {None}]
  /\ on \in [Threads -> Instances \cup {None}]
  /\ child \in [Threads -> Procs \cup {None}]
  /\ arg \in [Threads -> Urls \cup {None}]
  /\ proc \in [Procs -> ProcStates]
  /\ owner \in [Procs -> Instances \cup {None}]
  /\ stopping \in [Procs -> BOOLEAN]
  /\ cancelled \in [Procs -> BOOLEAN]
  /\ phase \in {"loading", "up", "ranging", "drained"}
  /\ toVisit \subseteq Instances
  /\ toScan \subseteq Instances
  /\ due \subseteq Instances
  /\ asked \in [Instances -> {"run", "halt"}]

\* The state file holds any exported fields whatever; gob drops the others.
Init ==
  /\ life \in [Instances -> {"absent", "saved"}]
  /\ status \in [Instances -> {"stopped", "running", "error"}]
  /\ url \in [Instances -> Urls \cup {None}]
  /\ restart \in [Instances -> BOOLEAN]
  /\ \A i \in Instances : IF life[i] = "saved"
                          THEN url[i] # None
                          ELSE url[i] = None /\ status[i] = "stopped" /\ ~restart[i]
  /\ cmd = [i \in Instances |-> None]
  /\ deleted = [i \in Instances |-> FALSE]
  /\ failure = [i \in Instances |-> FALSE]
  /\ lock = [i \in Instances |-> None]
  /\ pc = [t \in Threads |-> "idle"]
  /\ op = [t \in Threads |-> None]
  /\ on = [t \in Threads |-> None]
  /\ child = [t \in Threads |-> None]
  /\ arg = [t \in Threads |-> None]
  /\ proc = [p \in Procs |-> "unborn"]
  /\ owner = [p \in Procs |-> None]
  /\ stopping = [p \in Procs |-> FALSE]
  /\ cancelled = [p \in Procs |-> FALSE]
  /\ phase = "loading"
  /\ toVisit = {i \in Instances : life[i] = "saved"}
  /\ toScan = {}
  /\ due = {}
  /\ asked = [i \in Instances |-> IF restart[i] THEN "run" ELSE "halt"]

-----------------------------------------------------------------------------
(* Helpers *)

\* shutdown closes periodicDone before it looks at any instance.
ShuttingDown == phase \in {"ranging", "drained"}
Serving == phase # "loading"

\* Mutant: a status of no documented name.
ResetStoppedIdle(i) == /\ status' = [status EXCEPT ![i] = "idle"]
                       /\ cmd' = [cmd EXCEPT ![i] = None]
                       /\ failure' = [failure EXCEPT ![i] = FALSE]

\* Mutant: runtimeFailure is not reset.
ResetStoppedFailed(i) == /\ status' = [status EXCEPT ![i] = "stopped"]
                         /\ cmd' = [cmd EXCEPT ![i] = None]
                         /\ UNCHANGED failure

\* resetStoppedInstanceLocked, but for the live metrics.
ResetStopped(i) == /\ status' = [status EXCEPT ![i] = "stopped"]
                   /\ cmd' = [cmd EXCEPT ![i] = None]
                   /\ failure' = [failure EXCEPT ![i] = FALSE]

\* m.instances.Store(id, inst)
Store(i) == life' = [life EXCEPT ![i] = "stored"]

\* What restartFailedInstance requires of an instance.
Eligible(i) == /\ life[i] = "stored"
               /\ restart[i]
               /\ status[i] = "error"
               /\ failure[i]
               /\ ~deleted[i]

\* Mutant: a start does not look at the status.
StartableTwice(i) == ~ShuttingDown /\ ~deleted[i]

\* Mutant: a start does not look at periodicDone.
StartableLate(i) == ~deleted[i] /\ status[i] = "stopped"

\* Mutant: a start does not look at the deletion.
StartableDeleted(i) == ~ShuttingDown /\ status[i] = "stopped"

\* startInstanceLocked goes past its early return.
Startable(i) == /\ ~ShuttingDown
                /\ ~deleted[i]
                /\ status[i] = "stopped"

\* Thread t is about to take lifecycleMu of i in order to run o.
Call(t, o, i, u) == /\ pc' = [pc EXCEPT ![t] = "lock"]
                    /\ op' = [op EXCEPT ![t] = o]
                    /\ on' = [on EXCEPT ![t] = i]
                    /\ arg' = [arg EXCEPT ![t] = u]
                    /\ UNCHANGED child

\* t takes lifecycleMu and goes on at place.
Enter(t, place) == /\ pc[t] = "lock"
                   /\ lock[on[t]] = None
                   /\ lock' = [lock EXCEPT ![on[t]] = t]
                   /\ pc' = [pc EXCEPT ![t] = place]
                   /\ UNCHANGED <<op, on, child, arg>>

\* t gives lifecycleMu back and its operation is over.
Leave(t) == /\ lock' = [lock EXCEPT ![on[t]] = None]
            /\ pc' = [pc EXCEPT ![t] = "idle"]
            /\ op' = [op EXCEPT ![t] = None]
            /\ on' = [on EXCEPT ![t] = None]
            /\ child' = [child EXCEPT ![t] = None]
            /\ arg' = [arg EXCEPT ![t] = None]

\* t goes on at place and still holds lifecycleMu.
Go(t, place) == /\ pc' = [pc EXCEPT ![t] = place]
                /\ UNCHANGED <<lock, op, on, child, arg>>

\* stopInstanceLocked returns to the operation that called it.
StopReturns(t) == \/ op[t] = "stop" /\ Leave(t)
                  \/ op[t] \in {"restart", "recover"} /\ Go(t, "start")
                  \/ op[t] = "put" /\ Go(t, "replace")
                  \/ op[t] = "delete" /\ Go(t, "remove")

-----------------------------------------------------------------------------
(* Start of the program: loadState, then Run opens the API *)

\* One round of the loop of loadState: reset, store, and start if it should run.
LoadInstance(i) ==
  /\ phase = "loading"
  /\ pc[Main] = "idle"
  /\ i \in toVisit
  /\ toVisit' = toVisit \ {i}
  /\ ResetStopped(i)
  /\ Store(i)
  /\ IF url[i] \in Supported /\ restart[i]
     THEN Call(Main, "start", i, None)
     ELSE UNCHANGED threadVars
  /\ UNCHANGED <<url, restart, deleted, lock, childVars, phase, toScan, due, asked>>

\* NewMaster returns; Run starts the server and the hourly task.
Serve ==
  /\ phase = "loading"
  /\ toVisit = {}
  /\ pc[Main] = "idle"
  /\ phase' = "up"
  /\ UNCHANGED <<instVars, life, lock, threadVars, childVars, toVisit, toScan, due, asked>>

-----------------------------------------------------------------------------
(* REST requests *)

\* POST /instances: the record is stored and a goroutine starts it.
Create(w, i, u) ==
  /\ Serving
  /\ pc[w] = "idle"
  /\ life[i] = "absent"
  /\ Store(i)
  /\ url' = [url EXCEPT ![i] = u]
  /\ restart' = [restart EXCEPT ![i] = TRUE]
  /\ asked' = [asked EXCEPT ![i] = "run"]
  /\ Call(w, "start", i, None)
  /\ UNCHANGED <<status, cmd, deleted, failure, lock, childVars, taskVars>>

\* PATCH /instances/{id}: the handler takes and gives back lifecycleMu around its
\* changes, then leaves the action to a goroutine that takes it anew.
Patch(w, i, r, action) ==
  /\ Serving
  /\ pc[w] = "idle"
  /\ lock[i] = None
  /\ life[i] = "stored"
  /\ ~deleted[i]
  /\ restart' = [restart EXCEPT ![i] = r]
  /\ IF action = None THEN UNCHANGED threadVars ELSE Call(w, action, i, None)
  /\ UNCHANGED <<status, url, cmd, deleted, failure, life, lock, childVars, taskVars, asked>>

\* PUT and DELETE find the instance before they wait for its lifecycleMu.
Request(w, i, o, u) ==
  /\ Serving
  /\ pc[w] = "idle"
  /\ life[i] = "stored"
  /\ Call(w, o, i, u)
  /\ UNCHANGED <<instVars, life, lock, childVars, taskVars, asked>>

-----------------------------------------------------------------------------
(* Operations take lifecycleMu *)

BeginStart(t) ==
  /\ op[t] = "start"
  /\ Enter(t, "start")
  /\ asked' = IF t \in Workers THEN [asked EXCEPT ![on[t]] = "run"] ELSE asked
  /\ UNCHANGED <<instVars, life, childVars, taskVars>>

BeginStop(t) ==
  /\ op[t] = "stop"
  /\ Enter(t, "stop")
  /\ asked' = [asked EXCEPT ![on[t]] = "halt"]
  /\ UNCHANGED <<instVars, life, childVars, taskVars>>

BeginRestart(t) ==
  /\ op[t] = "restart"
  /\ Enter(t, "stop")
  /\ asked' = [asked EXCEPT ![on[t]] = "run"]
  /\ UNCHANGED <<instVars, life, childVars, taskVars>>

\* Mutant: no second look.
BeginRecoverStale(t) ==
  /\ op[t] = "recover"
  /\ Enter(t, "stop")
  /\ UNCHANGED <<instVars, life, childVars, taskVars, asked>>

\* restartFailedInstance looks again at the instance it was given.
BeginRecover(t) ==
  /\ op[t] = "recover"
  /\ Eligible(on[t])
  /\ Enter(t, "stop")
  /\ UNCHANGED <<instVars, life, childVars, taskVars, asked>>

BeginPut(t) ==
  /\ op[t] = "put"
  /\ life[on[t]] = "stored"
  /\ ~deleted[on[t]]
  /\ url[on[t]] # arg[t]
  /\ Enter(t, "stop")
  /\ asked' = [asked EXCEPT ![on[t]] = "run"]
  /\ UNCHANGED <<instVars, life, childVars, taskVars>>

BeginDelete(t) ==
  /\ op[t] = "delete"
  /\ life[on[t]] = "stored"
  /\ ~deleted[on[t]]
  /\ Enter(t, "stop")
  /\ deleted' = [deleted EXCEPT ![on[t]] = TRUE]
  /\ asked' = [asked EXCEPT ![on[t]] = "halt"]
  /\ UNCHANGED <<status, url, restart, cmd, failure, life, childVars, taskVars>>

\* The checks under the lock fail (404, 409, or a failed instance that is not
\* eligible any more): the lock is taken and given back.
Reject(t) ==
  /\ pc[t] = "lock"
  /\ lock[on[t]] = None
  /\ \/ op[t] = "recover" /\ ~Eligible(on[t])
     \/ op[t] \in {"put", "delete"} /\ (life[on[t]] # "stored" \/ deleted[on[t]])
     \/ op[t] = "put" /\ url[on[t]] = arg[t]
  /\ Leave(t)
  /\ UNCHANGED <<instVars, life, childVars, taskVars, asked>>

Acquire(t) == \/ BeginStart(t)
              \/ BeginStop(t)
              \/ BeginRestart(t)
              \/ BeginRecover(t)
              \/ BeginPut(t)
              \/ BeginDelete(t)
              \/ Reject(t)

-----------------------------------------------------------------------------
(* stopInstanceLocked, with lifecycleMu held *)

\* Mutant: an early return that keeps lifecycleMu.
StopNothingLocked(t) ==
  /\ pc[t] = "stop"
  /\ status[on[t]] = "stopped"
  /\ pc' = [pc EXCEPT ![t] = "idle"]
  /\ UNCHANGED <<instVars, life, lock, op, on, child, arg, childVars, taskVars, asked>>

StopNothing(t) ==
  /\ pc[t] = "stop"
  /\ status[on[t]] = "stopped"
  /\ StopReturns(t)
  /\ UNCHANGED <<instVars, life, childVars, taskVars, asked>>

\* The child is gone already, or there never was one.
StopDead(t) ==
  /\ pc[t] = "stop"
  /\ status[on[t]] # "stopped"
  /\ cmd[on[t]] = None
  /\ ResetStopped(on[t])
  /\ Store(on[t])
  /\ StopReturns(t)
  /\ UNCHANGED <<url, restart, deleted, childVars, taskVars, asked>>

\* Closes `stopped', remembers the child and sends it SIGTERM.
StopSignal(t) ==
  /\ pc[t] = "stop"
  /\ status[on[t]] # "stopped"
  /\ cmd[on[t]] # None
  /\ stopping' = [stopping EXCEPT ![cmd[on[t]]] = TRUE]
  /\ child' = [child EXCEPT ![t] = cmd[on[t]]]
  /\ pc' = [pc EXCEPT ![t] = "grace"]
  /\ UNCHANGED <<instVars, life, lock, op, on, arg, proc, owner, cancelled, taskVars, asked>>

\* The monitor has closed `exited' before the timeout.
Exited(t) ==
  /\ pc[t] \in {"grace", "killed"}
  /\ proc[child[t]] = "done"
  /\ Go(t, "reset")
  /\ UNCHANGED <<instVars, life, childVars, taskVars, asked>>

\* Mutant: no timeout, the stop waits for a child that ignores SIGTERM.
GraceTimeoutNever(t) == pc[t] = "grace" /\ FALSE /\ UNCHANGED vars

\* Mutant: the context is cancelled but the child is not killed.
GraceTimeoutSpares(t) ==
  /\ pc[t] = "grace"
  /\ cancelled' = [cancelled EXCEPT ![child[t]] = TRUE]
  /\ Go(t, "killed")
  /\ UNCHANGED <<instVars, life, proc, owner, stopping, taskVars, asked>>

\* gracefulTimeout: the context is cancelled and the child is sent SIGKILL.
GraceTimeout(t) ==
  /\ pc[t] = "grace"
  /\ proc' = [proc EXCEPT ![child[t]] = IF @ = "alive" THEN "dying" ELSE @]
  /\ cancelled' = [cancelled EXCEPT ![child[t]] = TRUE]
  /\ Go(t, "killed")
  /\ UNCHANGED <<instVars, life, owner, stopping, taskVars, asked>>

\* Three more seconds, and the stop goes on without the child's exit.
KillTimeout(t) ==
  /\ pc[t] = "killed"
  /\ Go(t, "reset")
  /\ UNCHANGED <<instVars, life, childVars, taskVars, asked>>

StopFinish(t) ==
  /\ pc[t] = "reset"
  /\ cancelled' = [cancelled EXCEPT ![child[t]] = TRUE]
  /\ ResetStopped(on[t])
  /\ Store(on[t])
  /\ StopReturns(t)
  /\ UNCHANGED <<url, restart, deleted, proc, owner, stopping, taskVars, asked>>

-----------------------------------------------------------------------------
(* The rest of PUT and DELETE *)

Replace(t) ==
  /\ pc[t] = "replace"
  /\ url' = [url EXCEPT ![on[t]] = arg[t]]
  /\ status' = [status EXCEPT ![on[t]] = "stopped"]
  /\ Store(on[t])
  /\ Go(t, "start")
  /\ UNCHANGED <<restart, cmd, deleted, failure, childVars, taskVars, asked>>

Remove(t) ==
  /\ pc[t] = "remove"
  /\ life' = [life EXCEPT ![on[t]] = "removed"]
  /\ Leave(t)
  /\ UNCHANGED <<instVars, childVars, taskVars, asked>>

-----------------------------------------------------------------------------
(* startInstanceLocked, with lifecycleMu held *)

StartRefused(t) ==
  /\ pc[t] = "start"
  /\ ~Startable(on[t])
  /\ Leave(t)
  /\ UNCHANGED <<instVars, life, childVars, taskVars, asked>>

\* A URL without a supported role: an error that no restart will cure.
StartUnsupported(t) ==
  /\ pc[t] = "start"
  /\ Startable(on[t])
  /\ url[on[t]] \notin Supported
  /\ status' = [status EXCEPT ![on[t]] = "error"]
  /\ failure' = [failure EXCEPT ![on[t]] = FALSE]
  /\ Leave(t)
  /\ UNCHANGED <<url, restart, cmd, deleted, life, childVars, taskVars, asked>>

\* os.Executable or cmd.Start fails.
StartFails(t) ==
  /\ pc[t] = "start"
  /\ Startable(on[t])
  /\ url[on[t]] \in Supported
  /\ status' = [status EXCEPT ![on[t]] = "error"]
  /\ failure' = [failure EXCEPT ![on[t]] = TRUE]
  /\ cmd' = [cmd EXCEPT ![on[t]] = None]
  /\ Store(on[t])
  /\ Leave(t)
  /\ UNCHANGED <<url, restart, deleted, childVars, taskVars, asked>>

StartLaunch(t, p) ==
  /\ pc[t] = "start"
  /\ Startable(on[t])
  /\ url[on[t]] \in Supported
  /\ proc[p] = "unborn"
  /\ proc' = [proc EXCEPT ![p] = "alive"]
  /\ owner' = [owner EXCEPT ![p] = on[t]]
  /\ status' = [status EXCEPT ![on[t]] = "running"]
  /\ failure' = [failure EXCEPT ![on[t]] = FALSE]
  /\ cmd' = [cmd EXCEPT ![on[t]] = p]
  /\ Store(on[t])
  /\ Leave(t)
  /\ UNCHANGED <<url, restart, deleted, stopping, cancelled, taskVars, asked>>

\* A step of t that waits for nobody's lock.
Proceed(t) == \/ StopNothing(t)
              \/ StopDead(t)
              \/ StopSignal(t)
              \/ Exited(t)
              \/ GraceTimeout(t)
              \/ KillTimeout(t)
              \/ StopFinish(t)
              \/ Replace(t)
              \/ Remove(t)
              \/ StartRefused(t)
              \/ StartUnsupported(t)
              \/ StartFails(t)
              \/ \E p \in Procs : StartLaunch(t, p)

-----------------------------------------------------------------------------
(* The children and their monitors *)

ChildExit(p, how) ==
  /\ proc[p] \in {"alive", "dying"}
  /\ proc' = [proc EXCEPT ![p] = how]
  /\ UNCHANGED <<instVars, life, lock, threadVars, owner, stopping, cancelled, taskVars, asked>>

\* Mutant: the monitor does not look at `stopped'.
RecordableStopping(p) == cmd[owner[p]] = p /\ ~deleted[owner[p]]

\* Mutant: nor whether its child is the current one.
RecordableAlways(p) == ~deleted[owner[p]]

\* Mutant: a clean exit is not looked at.
RecordableFailure(p) ==
  cmd[owner[p]] = p /\ ~deleted[owner[p]] /\ ~stopping[p] /\ proc[p] = "fail"

\* What monitorInstance finds under inst.mu once Wait has returned.
Recordable(p) == /\ cmd[owner[p]] = p
                 /\ ~deleted[owner[p]]
                 /\ ~stopping[p]

MonitorRecord(p) ==
  LET i == owner[p] IN
  /\ proc[p] \in {"ok", "fail"}
  /\ Recordable(p)
  /\ status' = [status EXCEPT ![i] = IF proc[p] = "ok" THEN "stopped" ELSE "error"]
  /\ failure' = [failure EXCEPT ![i] = proc[p] = "fail"]
  /\ cmd' = [cmd EXCEPT ![i] = None]
  /\ proc' = [proc EXCEPT ![p] = "recorded"]
  /\ UNCHANGED <<url, restart, deleted, life, lock, threadVars, owner, stopping, cancelled,
                 taskVars, asked>>

\* The child was being stopped, or deleted, or had been replaced.
MonitorSuperseded(p) ==
  /\ proc[p] \in {"ok", "fail"}
  /\ ~Recordable(p)
  /\ proc' = [proc EXCEPT ![p] = "superseded"]
  /\ UNCHANGED <<instVars, life, lock, threadVars, owner, stopping, cancelled, taskVars, asked>>

\* Mutant: nobody cancels the context of a child that has exited by itself.
MonitorCloseOnly(p) ==
  /\ proc[p] \in {"recorded", "superseded"}
  /\ proc' = [proc EXCEPT ![p] = "done"]
  /\ UNCHANGED <<instVars, life, lock, threadVars, owner, stopping, cancelled, taskVars, asked>>

\* The monitor cancels the context if it recorded the exit, saves, and closes `exited'.
MonitorClose(p) ==
  /\ proc[p] \in {"recorded", "superseded"}
  /\ proc' = [proc EXCEPT ![p] = "done"]
  /\ cancelled' = [cancelled EXCEPT ![p] = IF proc[p] = "recorded" THEN TRUE ELSE @]
  /\ UNCHANGED <<instVars, life, lock, threadVars, owner, stopping, taskVars, asked>>

Monitor(p) == \/ MonitorRecord(p)
              \/ MonitorSuperseded(p)
              \/ MonitorClose(p)

-----------------------------------------------------------------------------
(* The hourly task *)

\* After periodicDone is closed the select may still choose a tick.
PeriodicTick ==
  /\ Serving
  /\ pc[Periodic] = "idle"
  /\ toScan = {}
  /\ due = {}
  /\ toScan' = {i \in Instances : life[i] = "stored"}
  /\ UNCHANGED <<instVars, life, lock, threadVars, childVars, phase, toVisit, due, asked>>

\* Mutant: an instance that some operation holds is left for the next hour.
PeriodicScanFree(i) ==
  /\ i \in toScan
  /\ toScan' = toScan \ {i}
  /\ due' = IF Eligible(i) /\ lock[i] = None THEN due \cup {i} ELSE due
  /\ UNCHANGED <<instVars, life, lock, threadVars, childVars, phase, toVisit, asked>>

\* One instance of the first loop, under its inst.mu.
PeriodicScan(i) ==
  /\ i \in toScan
  /\ toScan' = toScan \ {i}
  /\ due' = IF Eligible(i) THEN due \cup {i} ELSE due
  /\ UNCHANGED <<instVars, life, lock, threadVars, childVars, phase, toVisit, asked>>

\* One instance of the second loop.
PeriodicRecover(i) ==
  /\ pc[Periodic] = "idle"
  /\ toScan = {}
  /\ i \in due
  /\ due' = due \ {i}
  /\ Call(Periodic, "recover", i, None)
  /\ UNCHANGED <<instVars, life, lock, childVars, phase, toVisit, toScan, asked>>

PeriodicExit ==
  /\ ShuttingDown
  /\ pc[Periodic] = "idle"
  /\ toScan = {}
  /\ due = {}
  /\ pc' = [pc EXCEPT ![Periodic] = "exited"]
  /\ UNCHANGED <<instVars, life, lock, op, on, child, arg, childVars, taskVars, asked>>

-----------------------------------------------------------------------------
(* Shutdown *)

ShutdownBegin ==
  /\ phase = "up"
  /\ phase' = "ranging"
  /\ toVisit' = {i \in Instances : life[i] = "stored"}
  /\ UNCHANGED <<instVars, life, lock, threadVars, childVars, toScan, due, asked>>

\* One instance of the Range: a goroutine stops it if it has a child.
ShutdownVisit(i) ==
  /\ phase = "ranging"
  /\ i \in toVisit
  /\ toVisit' = toVisit \ {i}
  /\ IF status[i] # "stopped" /\ cmd[i] # None
     THEN Call(i, "stop", i, None)
     ELSE UNCHANGED threadVars
  /\ UNCHANGED <<instVars, life, lock, childVars, phase, toScan, due, asked>>

\* wg.Wait returns.
ShutdownDrained ==
  /\ phase = "ranging"
  /\ toVisit = {}
  /\ \A i \in Instances : pc[i] = "idle"
  /\ phase' = "drained"
  /\ UNCHANGED <<instVars, life, lock, threadVars, childVars, toVisit, toScan, due, asked>>

\* The program has nothing left to do but to end.
AtRest ==
  /\ phase = "drained"
  /\ \A t \in Threads : pc[t] \in {"idle", "exited"}
  /\ UNCHANGED vars

-----------------------------------------------------------------------------
Requests ==
  \E w \in Workers, i \in Instances :
    \/ \E u \in Supported : Create(w, i, u)
    \/ \E r \in BOOLEAN, action \in {None, "start", "stop", "restart"} : Patch(w, i, r, action)
    \/ \E u \in Supported : Request(w, i, "put", u)
    \/ Request(w, i, "delete", None)

Periodically == \/ PeriodicTick
                \/ \E i \in Instances : PeriodicScan(i) \/ PeriodicRecover(i)
                \/ PeriodicExit

Shutdown == \/ \E i \in Instances : ShutdownVisit(i)
            \/ ShutdownDrained

Load == \/ \E i \in Instances : LoadInstance(i)
        \/ Serve

Children == \E p \in Procs : \/ Monitor(p)
                             \/ \E how \in {"ok", "fail"} : ChildExit(p, how)

Next == \/ Load
        \/ Requests
        \/ \E t \in Threads : Acquire(t) \/ Proceed(t)
        \/ Children
        \/ Periodically
        \/ ShutdownBegin
        \/ Shutdown
        \/ AtRest

Spec == Init /\ [][Next]_vars

\* Every goroutine runs; a mutex is not withheld from a waiter for ever
\* (sync.Mutex hands over in starvation mode); a killed child dies; the ticker ticks.
Fairness ==
  /\ WF_vars(Load)
  /\ \A t \in Threads : SF_vars(Acquire(t)) /\ WF_vars(Proceed(t))
  /\ \A p \in Procs : /\ WF_vars(Monitor(p))
                      /\ WF_vars(proc[p] = "dying" /\ ChildExit(p, "fail"))
  /\ WF_vars(Periodically)
  /\ WF_vars(Shutdown)

FairSpec == Spec /\ Fairness

-----------------------------------------------------------------------------
(* Safety *)

\* A child that runs and has not been sent SIGKILL.
Live(p) == proc[p] = "alive"

\* An instance never has two live children: whatever starts, restarts, recoveries
\* and replacements race (startInstanceLocked, instance.go:82), each finds the other's.
AtMostOneChild ==
  \A p, q \in Procs : Live(p) /\ Live(q) /\ owner[p] = owner[q] => p = q

\* A live child is never lost: its instance is still in the map, reported as
\* running, and holds the handle by which a stop or a delete will reach it.
ChildUnderControl ==
  \A p \in Procs :
    Live(p) => /\ life[owner[p]] = "stored"
               /\ status[owner[p]] = "running"
               /\ cmd[owner[p]] = p

\* While stopInstanceLocked waits without inst.mu (instance.go:260-293) neither the
\* child's monitor nor another operation changes the status and the handle that
\* its last step will reset.
StopperOwnsChild ==
  \A t \in Threads :
    pc[t] \in {"grace", "killed", "reset"} =>
      status[on[t]] = "running" /\ cmd[on[t]] = child[t]

\* Once the shutdown has waited for its stops (master.go:220) no live child is
\* left, the ones that a request or the hourly task was starting meanwhile included.
ShutdownLeavesNoChild == phase = "drained" => \A p \in Procs : ~Live(p)

\* An instance that a user has stopped, and nobody has been asked to start since,
\* stays down: not the hourly task, nor a monitor, nor the loader runs it.
HaltRespected ==
  \A i \in Instances :
    asked[i] = "halt" /\ lock[i] = None /\ life[i] = "stored" => status[i] # "running"

\* The context of every child that is not current any more has been cancelled, or
\* its monitor is about to (instance.go:187, 272-291): no telemetry goroutine
\* outlives its child.
NoLeakedContext ==
  \A p \in Procs :
    proc[p] # "unborn" /\ ~cancelled[p] => cmd[owner[p]] = p \/ proc[p] = "recorded"

\* Status and handle never disagree: an instance is reported as running as long as
\* it holds a child and no longer, and is a failure only while it shows an error.
StatusMatchesHandle ==
  \A i \in Instances :
    life[i] \in {"stored", "removed"} =>
      /\ status[i] = "running" <=> cmd[i] # None
      /\ failure[i] => status[i] = "error"

\* Action property.  A deleted instance does not come back: the Store at the end
\* of a start or a stop that was waiting for the lock does not put it into the map
\* again (instance.go:114, 149, 163, 242, 295), and nothing runs it.
NoResurrection ==
  [][\A i \in Instances :
       life[i] = "removed" => life'[i] = "removed" /\ status'[i] = "stopped"]_vars

\* What docs/master.md:452 says of the status `stopped': "No child process is
\* active".  A stop that gives up waiting for a killed child does not respect it.
StoppedMeansNoChild ==
  \A p \in Procs : proc[p] \in {"alive", "dying"} => status[owner[p]] # "stopped"

-----------------------------------------------------------------------------
(* Liveness *)

\* Every operation that waits for lifecycleMu gets it, and ends.
OperationsFinish == \A t \in Threads : pc[t] = "lock" ~> pc[t] = "idle"

\* The exit of a child is always noticed: its instance does not go on to be
\* reported as running with that child.
ExitNoticed ==
  \A p \in Procs, i \in Instances :
    owner[p] = i /\ proc[p] \in {"ok", "fail"} ~> cmd[i] # p

\* The hourly task gets to every instance that failed and is to be restarted.
FailureRecovered ==
  \A i \in Instances : Eligible(i) /\ phase = "up" ~> ~Eligible(i) \/ phase # "up"

\* A shutdown ends, whatever the children do with their SIGTERM.
ShutdownDrains == phase = "ranging" ~> phase = "drained"

-----------------------------------------------------------------------------
(* The inductive invariant behind the safety properties *)

Signalled == {"grace", "killed", "reset"}                       \* a stop waits for its child
Holds == {"stop", "replace", "remove", "start"} \cup Signalled  \* has lifecycleMu
Engaged == {"lock"} \cup Holds                                  \* has it, or waits for it
Known == {"stored", "removed"}

\* Where a thread can be with which operation, and on what.
ThreadInv ==
  /\ \A t \in Threads :
       /\ pc[t] \in Engaged => on[t] \in Instances /\ life[on[t]] \in Known /\ op[t] \in Ops
       /\ pc[t] \in {"stop"} \cup Signalled => op[t] # "start"
       /\ pc[t] = "start" => op[t] \notin {"stop", "delete"}
       /\ pc[t] = "replace" => op[t] = "put" /\ status[on[t]] = "stopped"
       /\ pc[t] = "remove" => op[t] = "delete" /\ status[on[t]] = "stopped"
       /\ pc[t] \in Holds /\ op[t] \in {"put", "delete"} => (deleted[on[t]] <=> op[t] = "delete")
  /\ \A i \in Instances :
       /\ pc[i] \in Engaged => on[i] = i /\ op[i] = "stop"
       /\ pc[i] # "exited"
       /\ phase # "ranging" \/ i \in toVisit => pc[i] = "idle"

\* lifecycleMu is held by exactly the thread that acts on the instance.
LockInv ==
  /\ \A t \in Threads : pc[t] \in Holds => lock[on[t]] = t
  /\ \A i \in Instances : lock[i] # None => pc[lock[i]] \in Holds /\ on[lock[i]] = i

\* The life of an instance: before it is in the map, and after it has left it.
LifeInv ==
  \A i \in Instances :
    /\ life[i] = "absent" => status[i] = "stopped"
    /\ life[i] \in {"absent", "saved"} => cmd[i] = None /\ ~failure[i] /\ ~deleted[i]
    /\ life[i] = "removed" => deleted[i] /\ status[i] = "stopped"
    /\ life[i] = "saved" => phase = "loading" /\ i \in toVisit
    /\ i \in toScan \cup due => life[i] \in Known
    /\ i \in toVisit => IF phase = "loading" THEN life[i] = "saved" ELSE life[i] \in Known

\* A handle is that of a child launched for the instance.
ProcInv ==
  /\ \A p \in Procs : IF proc[p] = "unborn" THEN owner[p] = None ELSE owner[p] \in Instances
  /\ \A i \in Instances : cmd[i] # None => owner[cmd[i]] = i

\* A stop that has signalled its child keeps the monitor from recording the exit,
\* and resets only what is dead or killed.
StopInv ==
  \A t \in Threads :
    pc[t] \in Signalled =>
      /\ child[t] # None
      /\ stopping[child[t]]
      /\ pc[t] \in {"killed", "reset"} => ~Live(child[t])

\* What still runs during a shutdown is yet to be visited, or being stopped.
ShutdownInv ==
  ShuttingDown =>
    \A i \in Instances :
      status[i] = "running" =>
        phase = "ranging" /\ (i \in toVisit \/ pc[i] \in {"lock", "stop"} \cup Signalled)

SafeInv == /\ TypeOK /\ ThreadInv /\ LockInv /\ LifeInv /\ ProcInv /\ StopInv /\ ShutdownInv
           /\ StatusMatchesHandle /\ StopperOwnsChild /\ ChildUnderControl

\* On top of it, for HaltRespected: whoever may start an instance has been asked to,
\* and what a halted instance has left to lose, its stop is about to take.
Halting(i) == /\ lock[i] # None
              /\ op[lock[i]] \in {"stop", "delete"}
              /\ pc[lock[i]] \in {"stop"} \cup Signalled

HaltInv ==
  /\ \A i \in Instances :
       /\ asked[i] = "halt" /\ life[i] \in Known /\ ~Halting(i) =>
            status[i] # "running" /\ ~failure[i]
       /\ life[i] = "saved" /\ restart[i] => asked[i] = "run"
  /\ \A t \in Threads :
       /\ pc[t] \in Holds /\ op[t] \notin {"stop", "delete"} => asked[on[t]] = "run"
       /\ phase = "loading" /\ t # Main => pc[t] = "idle"
  /\ pc[Main] \in Engaged => phase = "loading" /\ op[Main] = "start" /\ asked[on[Main]] = "run"
  /\ pc[Periodic] \in Engaged => op[Periodic] = "recover"
  /\ phase = "loading" => toScan = {} /\ due = {}

IInv == SafeInv /\ HaltInv /\ NoLeakedContext

-----------------------------------------------------------------------------
(* Refinement *)

ShownStatus(i) == CASE life[i] \in {"absent", "saved"} -> "absent"
                    [] life[i] = "stored"              -> status[i]
                    [] life[i] = "removed"             -> "gone"
ShownChild(i) == IF cmd[i] # None /\ Live(cmd[i]) THEN cmd[i] ELSE None
Gate == [loading |-> "open", up |-> "open", ranging |-> "closed", drained |-> "left"]

Lifecycle == INSTANCE InstanceLifecycle
               WITH status <- [i \in Instances |-> ShownStatus(i)],
                    child <- [i \in Instances |-> ShownChild(i)],
                    used <- {p \in Procs : proc[p] # "unborn"},
                    gate <- Gate[phase]

\* The supervisor, for all its locks, timeouts and racing goroutines, keeps the
\* promise of InstanceLifecycle: every step is one of its steps or none.
ImplementsLifecycle == Lifecycle!Spec
=============================================================================
