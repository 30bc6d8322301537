-------------------------- MODULE SupervisorProofs --------------------------
(***************************************************************************)
(* The safety properties of Supervisor, for every number of instances,     *)
(* children, workers and URLs.  SafeInv is inductive by itself; HaltInv    *)
(* and NoLeakedContext are inductive relative to it.  Each part of the     *)
(* next-state relation has its lemma, with one step per action.            *)
(***************************************************************************)
EXTENDS Supervisor, TLAPS

USE DEF Threads, Signalled, Holds, Engaged, Known, Live,
        instVars, threadVars, childVars, taskVars

-----------------------------------------------------------------------------
(* SafeInv: who is where, who holds what, and which child is whose *)

\* The program begins with no instance, no child and no lock taken.
LEMMA SafeInit == Init => SafeInv
  <1> SUFFICES ASSUME Init PROVE SafeInv
    OBVIOUS
  <1>1. TypeOK
    BY DEF Init, TypeOK, PCs, ProcStates
  <1>2. ThreadInv /\ LockInv /\ StopInv /\ StopperOwnsChild
    BY NoneAssumption DEF Init, ThreadInv, LockInv, StopInv, StopperOwnsChild
  <1>3. LifeInv /\ ProcInv /\ ShutdownInv /\ StatusMatchesHandle /\ ChildUnderControl
    BY DEF Init, LifeInv, ProcInv, ShutdownInv, ShuttingDown, StatusMatchesHandle,
           ChildUnderControl
  <1> QED BY <1>1, <1>2, <1>3 DEF SafeInv

\* loadState keeps SafeInv: what it stores is new, and stopped.
LEMMA LoadSafe == ASSUME SafeInv, Load PROVE SafeInv'
  <1> USE NoneAssumption, ThreadAssumption
      DEF SafeInv, TypeOK, PCs, Ops, ProcStates, ThreadInv, LockInv, LifeInv, ProcInv, StopInv,
          ShutdownInv, ShuttingDown, StatusMatchesHandle, StopperOwnsChild, ChildUnderControl
  <1>1. ASSUME NEW i \in Instances, LoadInstance(i) PROVE SafeInv'
    BY <1>1 DEF LoadInstance, ResetStopped, Store, Call
  <1>2. CASE Serve
    BY <1>2 DEF Serve
  <1> QED BY <1>1, <1>2 DEF Load

\* So do the handlers, up to the lock they wait for.
LEMMA RequestsSafe == ASSUME SafeInv, Requests PROVE SafeInv'
  <1> USE NoneAssumption, ThreadAssumption, UrlAssumption
      DEF SafeInv, TypeOK, PCs, Ops, ProcStates, ThreadInv, LockInv, LifeInv, ProcInv, StopInv,
          ShutdownInv, ShuttingDown, StatusMatchesHandle, StopperOwnsChild, ChildUnderControl
  <1>1. ASSUME NEW w \in Workers, NEW i \in Instances, NEW u \in Supported, Create(w, i, u)
        PROVE  SafeInv'
    <2>1. TypeOK' /\ ThreadInv' /\ LockInv'
      BY <1>1 DEF Create, Serving, Store, Call
    <2>2. LifeInv' /\ ProcInv' /\ StopInv' /\ ShutdownInv'
      BY <1>1 DEF Create, Serving, Store, Call
    <2>3. StatusMatchesHandle' /\ StopperOwnsChild' /\ ChildUnderControl'
      BY <1>1 DEF Create, Serving, Store, Call
    <2> QED BY ONLY <2>1, <2>2, <2>3 DEF SafeInv
  <1>2. ASSUME NEW w \in Workers, NEW i \in Instances, NEW r \in BOOLEAN,
               NEW action \in {None, "start", "stop", "restart"}, Patch(w, i, r, action)
        PROVE  SafeInv'
    <2>1. CASE action = None
      BY <1>2, <2>1 DEF Patch, Serving
    <2>2. CASE action # None
      <3>1. action \in {"start", "stop", "restart"} /\ Call(w, action, i, None)
        BY <1>2, <2>2 DEF Patch
      <3> QED
        <4>1. TypeOK' /\ ThreadInv' /\ LockInv'
          BY <1>2, <3>1 DEF Patch, Serving, Call
        <4>2. LifeInv' /\ ProcInv' /\ StopInv' /\ ShutdownInv'
          BY <1>2, <3>1 DEF Patch, Serving, Call
        <4>3. StatusMatchesHandle' /\ StopperOwnsChild' /\ ChildUnderControl'
          BY <1>2, <3>1 DEF Patch, Serving, Call
        <4> QED BY ONLY <4>1, <4>2, <4>3 DEF SafeInv
    <2> QED BY <2>1, <2>2
  <1>3. ASSUME NEW w \in Workers, NEW i \in Instances, NEW o \in {"put", "delete"},
               NEW u \in Urls \cup {None}, Request(w, i, o, u)
        PROVE  SafeInv'
    <2>1. TypeOK' /\ ThreadInv' /\ LockInv'
      BY <1>3 DEF Request, Serving, Call
    <2>2. LifeInv' /\ ProcInv' /\ StopInv' /\ ShutdownInv'
      BY <1>3 DEF Request, Serving, Call
    <2>3. StatusMatchesHandle' /\ StopperOwnsChild' /\ ChildUnderControl'
      BY <1>3 DEF Request, Serving, Call
    <2> QED BY ONLY <2>1, <2>2, <2>3 DEF SafeInv
  <1> QED BY ONLY <1>1, <1>2, <1>3, Requests, UrlAssumption DEF Requests

\* So does taking lifecycleMu, and the checks behind it.
LEMMA AcquireSafe == ASSUME SafeInv, NEW t \in Threads, Acquire(t) PROVE SafeInv'
  <1> USE NoneAssumption, ThreadAssumption
      DEF SafeInv, TypeOK, PCs, Ops, ProcStates, ThreadInv, LockInv, LifeInv, ProcInv, StopInv,
          ShutdownInv, ShuttingDown, StatusMatchesHandle, StopperOwnsChild, ChildUnderControl
  <1>1. CASE BeginStart(t)
    BY <1>1 DEF BeginStart, Enter
  <1>2. CASE BeginStop(t)
    BY <1>2 DEF BeginStop, Enter
  <1>3. CASE BeginRestart(t)
    BY <1>3 DEF BeginRestart, Enter
  <1>4. CASE BeginRecover(t)
    BY <1>4 DEF BeginRecover, Enter
  <1>5. CASE BeginPut(t)
    BY <1>5 DEF BeginPut, Enter
  <1>6. CASE BeginDelete(t)
    BY <1>6 DEF BeginDelete, Enter
  <1>7. CASE Reject(t)
    <2>1. TypeOK' /\ ThreadInv' /\ LockInv'
      BY <1>7 DEF Reject, Leave
    <2>2. LifeInv' /\ ProcInv' /\ StopInv' /\ ShutdownInv'
      BY <1>7 DEF Reject, Leave
    <2>3. StatusMatchesHandle' /\ StopperOwnsChild' /\ ChildUnderControl'
      BY <1>7 DEF Reject, Leave
    <2> QED BY ONLY <2>1, <2>2, <2>3 DEF SafeInv
  <1> QED BY <1>1, <1>2, <1>3, <1>4, <1>5, <1>6, <1>7 DEF Acquire

\* The four ways in which stopInstanceLocked goes back to its caller.
LEMMA StopReturnsCases ==
  ASSUME NEW t \in Threads, StopReturns(t)
  PROVE  \/ op[t] = "stop" /\ Leave(t)
         \/ op[t] \in {"restart", "recover"} /\ Go(t, "start")
         \/ op[t] = "put" /\ Go(t, "replace")
         \/ op[t] = "delete" /\ Go(t, "remove")
  BY DEF StopReturns

\* So do the critical sections of stopInstanceLocked.
LEMMA StopSafe ==
  ASSUME SafeInv, NEW t \in Threads,
         \/ StopNothing(t) \/ StopDead(t) \/ StopSignal(t) \/ Exited(t)
         \/ GraceTimeout(t) \/ KillTimeout(t) \/ StopFinish(t)
  PROVE  SafeInv'
  <1> USE NoneAssumption, ThreadAssumption
      DEF SafeInv, TypeOK, PCs, Ops, ProcStates, ThreadInv, LockInv, LifeInv, ProcInv, StopInv,
          ShutdownInv, ShuttingDown, StatusMatchesHandle, StopperOwnsChild, ChildUnderControl
  <1>1. CASE StopNothing(t)
    <2>1. CASE op[t] = "stop" /\ Leave(t)
      <3>1. TypeOK' /\ ThreadInv' /\ LockInv'
        BY <1>1, <2>1 DEF StopNothing, Leave
      <3>2. LifeInv' /\ ProcInv' /\ StopInv' /\ ShutdownInv'
        BY <1>1, <2>1 DEF StopNothing, Leave
      <3>3. StatusMatchesHandle' /\ StopperOwnsChild' /\ ChildUnderControl'
        BY <1>1, <2>1 DEF StopNothing, Leave
      <3> QED BY ONLY <3>1, <3>2, <3>3 DEF SafeInv
    <2>2. CASE op[t] \in {"restart", "recover"} /\ Go(t, "start")
      BY <1>1, <2>2 DEF StopNothing, Go
    <2>3. CASE op[t] = "put" /\ Go(t, "replace")
      BY <1>1, <2>3 DEF StopNothing, Go
    <2>4. CASE op[t] = "delete" /\ Go(t, "remove")
      BY <1>1, <2>4 DEF StopNothing, Go
    <2>5. StopReturns(t)
      BY ONLY <1>1 DEF StopNothing
    <2> QED BY ONLY <2>1, <2>2, <2>3, <2>4, <2>5, StopReturnsCases
  <1>2. CASE StopDead(t)
    <2>1. CASE op[t] = "stop" /\ Leave(t)
      <3>1. TypeOK' /\ ThreadInv' /\ LockInv'
        BY <1>2, <2>1 DEF StopDead, ResetStopped, Store, Leave
      <3>2. LifeInv' /\ ProcInv' /\ StopInv' /\ ShutdownInv'
        BY <1>2, <2>1 DEF StopDead, ResetStopped, Store, Leave
      <3>3. StatusMatchesHandle' /\ StopperOwnsChild' /\ ChildUnderControl'
        BY <1>2, <2>1 DEF StopDead, ResetStopped, Store, Leave
      <3> QED BY ONLY <3>1, <3>2, <3>3 DEF SafeInv
    <2>2. CASE op[t] \in {"restart", "recover"} /\ Go(t, "start")
      <3>1. TypeOK' /\ ThreadInv' /\ LockInv'
        BY <1>2, <2>2 DEF StopDead, ResetStopped, Store, Go
      <3>2. LifeInv' /\ ProcInv' /\ StopInv' /\ ShutdownInv'
        BY <1>2, <2>2 DEF StopDead, ResetStopped, Store, Go
      <3>3. StatusMatchesHandle' /\ StopperOwnsChild' /\ ChildUnderControl'
        BY <1>2, <2>2 DEF StopDead, ResetStopped, Store, Go
      <3> QED BY ONLY <3>1, <3>2, <3>3 DEF SafeInv
    <2>3. CASE op[t] = "put" /\ Go(t, "replace")
      <3>1. TypeOK' /\ ThreadInv' /\ LockInv'
        BY <1>2, <2>3 DEF StopDead, ResetStopped, Store, Go
      <3>2. LifeInv' /\ ProcInv' /\ StopInv' /\ ShutdownInv'
        BY <1>2, <2>3 DEF StopDead, ResetStopped, Store, Go
      <3>3. StatusMatchesHandle' /\ StopperOwnsChild' /\ ChildUnderControl'
        BY <1>2, <2>3 DEF StopDead, ResetStopped, Store, Go
      <3> QED BY ONLY <3>1, <3>2, <3>3 DEF SafeInv
    <2>4. CASE op[t] = "delete" /\ Go(t, "remove")
      <3>1. TypeOK' /\ ThreadInv' /\ LockInv'
        BY <1>2, <2>4 DEF StopDead, ResetStopped, Store, Go
      <3>2. LifeInv' /\ ProcInv' /\ StopInv' /\ ShutdownInv'
        BY <1>2, <2>4 DEF StopDead, ResetStopped, Store, Go
      <3>3. StatusMatchesHandle' /\ StopperOwnsChild' /\ ChildUnderControl'
        BY <1>2, <2>4 DEF StopDead, ResetStopped, Store, Go
      <3> QED BY ONLY <3>1, <3>2, <3>3 DEF SafeInv
    <2>5. StopReturns(t)
      BY ONLY <1>2 DEF StopDead
    <2> QED BY ONLY <2>1, <2>2, <2>3, <2>4, <2>5, StopReturnsCases
  <1>3. CASE StopSignal(t)
    <2>1. TypeOK' /\ ThreadInv' /\ LockInv'
      BY <1>3 DEF StopSignal
    <2>2. LifeInv' /\ ProcInv' /\ StopInv' /\ ShutdownInv'
      BY <1>3 DEF StopSignal
    <2>3. StatusMatchesHandle' /\ StopperOwnsChild' /\ ChildUnderControl'
      BY <1>3 DEF StopSignal
    <2> QED BY ONLY <2>1, <2>2, <2>3 DEF SafeInv
  <1>4. CASE Exited(t)
    BY <1>4 DEF Exited, Go
  <1>5. CASE GraceTimeout(t)
    <2>1. TypeOK' /\ ThreadInv' /\ LockInv'
      BY <1>5 DEF GraceTimeout, Go
    <2>2. LifeInv' /\ ProcInv' /\ StopInv' /\ ShutdownInv'
      BY <1>5 DEF GraceTimeout, Go
    <2>3. StatusMatchesHandle' /\ StopperOwnsChild' /\ ChildUnderControl'
      BY <1>5 DEF GraceTimeout, Go
    <2> QED BY ONLY <2>1, <2>2, <2>3 DEF SafeInv
  <1>6. CASE KillTimeout(t)
    BY <1>6 DEF KillTimeout, Go
  <1>7. CASE StopFinish(t)
    <2>1. CASE op[t] = "stop" /\ Leave(t)
      <3>1. TypeOK' /\ ThreadInv' /\ LockInv'
        <4>1. TypeOK'
          BY <1>7, <2>1 DEF StopFinish, ResetStopped, Store, Leave
        <4>2. ThreadInv'
          BY <1>7, <2>1 DEF StopFinish, ResetStopped, Store, Leave
        <4>3. LockInv'
          BY <1>7, <2>1 DEF StopFinish, ResetStopped, Store, Leave
        <4> QED BY ONLY <4>1, <4>2, <4>3
      <3>2. LifeInv' /\ ProcInv' /\ StopInv' /\ ShutdownInv'
        BY <1>7, <2>1 DEF StopFinish, ResetStopped, Store, Leave
      <3>3. StatusMatchesHandle' /\ StopperOwnsChild' /\ ChildUnderControl'
        BY <1>7, <2>1 DEF StopFinish, ResetStopped, Store, Leave
      <3> QED BY ONLY <3>1, <3>2, <3>3 DEF SafeInv
    <2>2. CASE op[t] \in {"restart", "recover"} /\ Go(t, "start")
      <3>1. TypeOK' /\ ThreadInv' /\ LockInv'
        BY <1>7, <2>2 DEF StopFinish, ResetStopped, Store, Go
      <3>2. LifeInv' /\ ProcInv' /\ StopInv' /\ ShutdownInv'
        BY <1>7, <2>2 DEF StopFinish, ResetStopped, Store, Go
      <3>3. StatusMatchesHandle' /\ StopperOwnsChild' /\ ChildUnderControl'
        BY <1>7, <2>2 DEF StopFinish, ResetStopped, Store, Go
      <3> QED BY ONLY <3>1, <3>2, <3>3 DEF SafeInv
    <2>3. CASE op[t] = "put" /\ Go(t, "replace")
      <3>1. TypeOK' /\ ThreadInv' /\ LockInv'
        BY <1>7, <2>3 DEF StopFinish, ResetStopped, Store, Go
      <3>2. LifeInv' /\ ProcInv' /\ StopInv' /\ ShutdownInv'
        BY <1>7, <2>3 DEF StopFinish, ResetStopped, Store, Go
      <3>3. StatusMatchesHandle' /\ StopperOwnsChild' /\ ChildUnderControl'
        BY <1>7, <2>3 DEF StopFinish, ResetStopped, Store, Go
      <3> QED BY ONLY <3>1, <3>2, <3>3 DEF SafeInv
    <2>4. CASE op[t] = "delete" /\ Go(t, "remove")
      <3>1. TypeOK' /\ ThreadInv' /\ LockInv'
        BY <1>7, <2>4 DEF StopFinish, ResetStopped, Store, Go
      <3>2. LifeInv' /\ ProcInv' /\ StopInv' /\ ShutdownInv'
        BY <1>7, <2>4 DEF StopFinish, ResetStopped, Store, Go
      <3>3. StatusMatchesHandle' /\ StopperOwnsChild' /\ ChildUnderControl'
        BY <1>7, <2>4 DEF StopFinish, ResetStopped, Store, Go
      <3> QED BY ONLY <3>1, <3>2, <3>3 DEF SafeInv
    <2>5. StopReturns(t)
      BY ONLY <1>7 DEF StopFinish
    <2> QED BY ONLY <2>1, <2>2, <2>3, <2>4, <2>5, StopReturnsCases
  <1> QED BY <1>1, <1>2, <1>3, <1>4, <1>5, <1>6, <1>7

\* So do PUT and DELETE after their stop, and startInstanceLocked.
LEMMA StartSafe ==
  ASSUME SafeInv, NEW t \in Threads,
         \/ Replace(t) \/ Remove(t)
         \/ StartRefused(t) \/ StartUnsupported(t) \/ StartFails(t)
         \/ \E p \in Procs : StartLaunch(t, p)
  PROVE  SafeInv'
  <1> USE NoneAssumption, ThreadAssumption
      DEF SafeInv, TypeOK, PCs, Ops, ProcStates, ThreadInv, LockInv, LifeInv, ProcInv, StopInv,
          ShutdownInv, ShuttingDown, StatusMatchesHandle, StopperOwnsChild, ChildUnderControl
  <1>1. CASE Replace(t)
    <2>1. TypeOK' /\ ThreadInv' /\ LockInv'
      BY <1>1 DEF Replace, Store, Go
    <2>2. LifeInv' /\ ProcInv' /\ StopInv' /\ ShutdownInv'
      BY <1>1 DEF Replace, Store, Go
    <2>3. StatusMatchesHandle' /\ StopperOwnsChild' /\ ChildUnderControl'
      BY <1>1 DEF Replace, Store, Go
    <2> QED BY ONLY <2>1, <2>2, <2>3 DEF SafeInv
  <1>2. CASE Remove(t)
    <2>1. TypeOK' /\ ThreadInv' /\ LockInv'
      <3>1. TypeOK'
        BY <1>2 DEF Remove, Leave
      <3>2. ThreadInv'
        BY <1>2 DEF Remove, Leave
      <3>3. LockInv'
        BY <1>2 DEF Remove, Leave
      <3> QED BY ONLY <3>1, <3>2, <3>3
    <2>2. LifeInv' /\ ProcInv' /\ StopInv' /\ ShutdownInv'
      BY <1>2 DEF Remove, Leave
    <2>3. StatusMatchesHandle' /\ StopperOwnsChild' /\ ChildUnderControl'
      BY <1>2 DEF Remove, Leave
    <2> QED BY ONLY <2>1, <2>2, <2>3 DEF SafeInv
  <1>3. CASE StartRefused(t)
    <2>1. TypeOK' /\ ThreadInv' /\ LockInv'
      <3>1. TypeOK'
        BY <1>3 DEF StartRefused, Startable, Leave
      <3>2. ThreadInv'
        BY <1>3 DEF StartRefused, Startable, Leave
      <3>3. LockInv'
        BY <1>3 DEF StartRefused, Startable, Leave
      <3> QED BY ONLY <3>1, <3>2, <3>3
    <2>2. LifeInv' /\ ProcInv' /\ StopInv' /\ ShutdownInv'
      BY <1>3 DEF StartRefused, Startable, Leave
    <2>3. StatusMatchesHandle' /\ StopperOwnsChild' /\ ChildUnderControl'
      BY <1>3 DEF StartRefused, Startable, Leave
    <2> QED BY ONLY <2>1, <2>2, <2>3 DEF SafeInv
  <1>4. CASE StartUnsupported(t)
    <2>1. TypeOK' /\ ThreadInv' /\ LockInv'
      <3>1. TypeOK'
        BY <1>4 DEF StartUnsupported, Startable, Leave
      <3>2. ThreadInv'
        BY <1>4 DEF StartUnsupported, Startable, Leave
      <3>3. LockInv'
        BY <1>4 DEF StartUnsupported, Startable, Leave
      <3> QED BY ONLY <3>1, <3>2, <3>3
    <2>2. LifeInv' /\ ProcInv' /\ StopInv' /\ ShutdownInv'
      BY <1>4 DEF StartUnsupported, Startable, Leave
    <2>3. StatusMatchesHandle' /\ StopperOwnsChild' /\ ChildUnderControl'
      BY <1>4 DEF StartUnsupported, Startable, Leave
    <2> QED BY ONLY <2>1, <2>2, <2>3 DEF SafeInv
  <1>5. CASE StartFails(t)
    <2>1. TypeOK' /\ ThreadInv' /\ LockInv'
      <3>1. TypeOK'
        BY <1>5 DEF StartFails, Startable, Store, Leave
      <3>2. ThreadInv'
        BY <1>5 DEF StartFails, Startable, Store, Leave
      <3>3. LockInv'
        BY <1>5 DEF StartFails, Startable, Store, Leave
      <3> QED BY ONLY <3>1, <3>2, <3>3
    <2>2. LifeInv' /\ ProcInv' /\ StopInv' /\ ShutdownInv'
      <3>1. LifeInv'
        BY <1>5 DEF StartFails, Startable, Store, Leave
      <3>2. ProcInv'
        BY <1>5 DEF StartFails, Startable, Store, Leave
      <3>3. StopInv'
        BY <1>5 DEF StartFails, Startable, Store, Leave
      <3>4. ShutdownInv'
        BY <1>5 DEF StartFails, Startable, Store, Leave
      <3> QED BY ONLY <3>1, <3>2, <3>3, <3>4
    <2>3. StatusMatchesHandle' /\ StopperOwnsChild' /\ ChildUnderControl'
      <3>1. StatusMatchesHandle'
        BY <1>5 DEF StartFails, Startable, Store, Leave
      <3>2. StopperOwnsChild'
        BY <1>5 DEF StartFails, Startable, Store, Leave
      <3>3. ChildUnderControl'
        BY <1>5 DEF StartFails, Startable, Store, Leave
      <3> QED BY ONLY <3>1, <3>2, <3>3
    <2> QED BY ONLY <2>1, <2>2, <2>3 DEF SafeInv
  <1>6. ASSUME NEW p \in Procs, StartLaunch(t, p) PROVE SafeInv'
    <2>1. TypeOK' /\ ThreadInv' /\ LockInv'
      <3>1. TypeOK'
        BY <1>6 DEF StartLaunch, Startable, Store, Leave
      <3>2. ThreadInv'
        BY <1>6, SMTT(20) DEF StartLaunch, Startable, Store, Leave
      <3>3. LockInv'
        BY <1>6 DEF StartLaunch, Startable, Store, Leave
      <3> QED BY ONLY <3>1, <3>2, <3>3
    <2>2. LifeInv' /\ ProcInv' /\ StopInv' /\ ShutdownInv'
      <3>1. LifeInv'
        BY <1>6 DEF StartLaunch, Startable, Store, Leave
      <3>2. ProcInv'
        BY <1>6 DEF StartLaunch, Startable, Store, Leave
      <3>3. StopInv'
        BY <1>6 DEF StartLaunch, Startable, Store, Leave
      <3>4. ShutdownInv'
        BY <1>6 DEF StartLaunch, Startable, Store, Leave
      <3> QED BY ONLY <3>1, <3>2, <3>3, <3>4
    <2>3. StatusMatchesHandle' /\ StopperOwnsChild' /\ ChildUnderControl'
      <3>1. StatusMatchesHandle'
        BY <1>6 DEF StartLaunch, Startable, Store, Leave
      <3>2. StopperOwnsChild'
        BY <1>6 DEF StartLaunch, Startable, Store, Leave
      <3>3. ChildUnderControl'
        BY <1>6 DEF StartLaunch, Startable, Store, Leave
      <3> QED BY ONLY <3>1, <3>2, <3>3
    <2> QED BY ONLY <2>1, <2>2, <2>3 DEF SafeInv
  <1> QED BY <1>1, <1>2, <1>3, <1>4, <1>5, <1>6

\* So does whatever a thread does under lifecycleMu.
LEMMA ProceedSafe == ASSUME SafeInv, NEW t \in Threads, Proceed(t) PROVE SafeInv'
  BY StopSafe, StartSafe DEF Proceed

\* So do the exit of a child and its monitor.
LEMMA ChildrenSafe == ASSUME SafeInv, Children PROVE SafeInv'
  <1> USE NoneAssumption, ThreadAssumption
      DEF SafeInv, TypeOK, PCs, Ops, ProcStates, ThreadInv, LockInv, LifeInv, ProcInv, StopInv,
          ShutdownInv, ShuttingDown, StatusMatchesHandle, StopperOwnsChild, ChildUnderControl
  <1>1. ASSUME NEW p \in Procs, MonitorRecord(p) PROVE SafeInv'
    BY <1>1 DEF MonitorRecord, Recordable
  <1>2. ASSUME NEW p \in Procs, MonitorSuperseded(p) PROVE SafeInv'
    BY <1>2 DEF MonitorSuperseded
  <1>3. ASSUME NEW p \in Procs, MonitorClose(p) PROVE SafeInv'
    <2>1. CASE proc[p] = "recorded"
      BY <1>3, <2>1 DEF MonitorClose
    <2>2. CASE proc[p] = "superseded"
      BY <1>3, <2>2 DEF MonitorClose
    <2> QED BY <1>3, <2>1, <2>2 DEF MonitorClose
  <1>4. ASSUME NEW p \in Procs, NEW how \in {"ok", "fail"}, ChildExit(p, how) PROVE SafeInv'
    BY <1>4 DEF ChildExit
  <1> QED BY ONLY <1>1, <1>2, <1>3, <1>4, Children DEF Children, Monitor

\* So does the hourly task.
LEMMA PeriodicallySafe == ASSUME SafeInv, Periodically PROVE SafeInv'
  <1> USE NoneAssumption, ThreadAssumption
      DEF SafeInv, TypeOK, PCs, Ops, ProcStates, ThreadInv, LockInv, LifeInv, ProcInv, StopInv,
          ShutdownInv, ShuttingDown, StatusMatchesHandle, StopperOwnsChild, ChildUnderControl
  <1>1. CASE PeriodicTick
    BY <1>1 DEF PeriodicTick
  <1>2. ASSUME NEW i \in Instances, PeriodicScan(i) PROVE SafeInv'
    BY <1>2 DEF PeriodicScan
  <1>3. ASSUME NEW i \in Instances, PeriodicRecover(i) PROVE SafeInv'
    BY <1>3 DEF PeriodicRecover, Call
  <1>4. CASE PeriodicExit
    BY <1>4 DEF PeriodicExit
  <1> QED BY <1>1, <1>2, <1>3, <1>4 DEF Periodically

\* So does the shutdown.
LEMMA ShutdownSafe == ASSUME SafeInv, ShutdownBegin \/ Shutdown PROVE SafeInv'
  <1> USE NoneAssumption, ThreadAssumption
      DEF SafeInv, TypeOK, PCs, Ops, ProcStates, ThreadInv, LockInv, LifeInv, ProcInv, StopInv,
          ShutdownInv, ShuttingDown, StatusMatchesHandle, StopperOwnsChild, ChildUnderControl
  <1>1. CASE ShutdownBegin
    BY <1>1 DEF ShutdownBegin
  <1>2. ASSUME NEW i \in Instances, ShutdownVisit(i) PROVE SafeInv'
    <2>1. CASE status[i] # "stopped" /\ cmd[i] # None
      <3>1. Call(i, "stop", i, None) /\ life[i] \in Known
        BY <1>2, <2>1 DEF ShutdownVisit
      <3> QED BY <1>2, <3>1 DEF ShutdownVisit, Call
    <2>2. CASE ~(status[i] # "stopped" /\ cmd[i] # None)
      BY <1>2, <2>2 DEF ShutdownVisit
    <2> QED BY <2>1, <2>2
  <1>3. CASE ShutdownDrained
    BY <1>3 DEF ShutdownDrained
  <1> QED BY <1>1, <1>2, <1>3 DEF Shutdown

\* A step of something else changes nothing.
LEMMA StutterSafe == ASSUME SafeInv, UNCHANGED vars PROVE SafeInv'
  BY DEF vars, SafeInv, TypeOK, ThreadInv, LockInv, LifeInv, ProcInv, StopInv,
         ShutdownInv, ShuttingDown, StatusMatchesHandle, StopperOwnsChild, ChildUnderControl

\* Every step keeps SafeInv.
LEMMA SafeStep == SafeInv /\ [Next]_vars => SafeInv'
  BY LoadSafe, RequestsSafe, AcquireSafe, ProceedSafe, ChildrenSafe, PeriodicallySafe,
     ShutdownSafe, StutterSafe DEF Next, AtRest

\* The joint invariant of the threads, the locks, the handles and the children.
THEOREM AlwaysSafe == Spec => []SafeInv
  BY SafeInit, SafeStep, PTL DEF Spec

\* Every variable stays in its domain; in particular a stop always knows where to return to.
THEOREM TypeCorrect == Spec => []TypeOK
  <1>1. SafeInv => TypeOK
    BY DEF SafeInv
  <1> QED BY <1>1, AlwaysSafe, PTL

\* A live child can always be reached by a stop or a delete of its instance.
THEOREM ChildrenControlled == Spec => []ChildUnderControl
  <1>1. SafeInv => ChildUnderControl
    BY DEF SafeInv
  <1> QED BY <1>1, AlwaysSafe, PTL

\* No instance has two live children, however starts, restarts and recoveries race.
THEOREM ChildrenUnique == Spec => []AtMostOneChild
  <1>1. SafeInv => AtMostOneChild
    BY DEF SafeInv, ChildUnderControl, AtMostOneChild
  <1> QED BY <1>1, AlwaysSafe, PTL

\* Nobody interferes with the instance of a stop that waits for its child.
THEOREM StopUndisturbed == Spec => []StopperOwnsChild
  <1>1. SafeInv => StopperOwnsChild
    BY DEF SafeInv
  <1> QED BY <1>1, AlwaysSafe, PTL

\* Reported as running if and only if there is a handle.
THEOREM StatusTrue == Spec => []StatusMatchesHandle
  <1>1. SafeInv => StatusMatchesHandle
    BY DEF SafeInv
  <1> QED BY <1>1, AlwaysSafe, PTL

\* A drained shutdown has no live child behind it.
THEOREM ShutdownComplete == Spec => []ShutdownLeavesNoChild
  <1>1. SafeInv => ShutdownLeavesNoChild
    BY DEF SafeInv, TypeOK, ShutdownInv, ShuttingDown, ProcInv, ChildUnderControl,
           ShutdownLeavesNoChild
  <1> QED BY <1>1, AlwaysSafe, PTL

\* Only a step that stores a deleted instance could bring it back, and none is enabled.
LEMMA RemovedStays ==
  ASSUME SafeInv, [Next]_vars, NEW i \in Instances, life[i] = "removed"
  PROVE  life'[i] = "removed"
  <1>1. /\ TypeOK
        /\ status[i] = "stopped" /\ deleted[i]
        /\ phase = "loading" => i \notin toVisit
        /\ \A t \in Threads : pc[t] \in {"reset", "replace"} => on[t] # i
    BY DEF SafeInv, LifeInv, StopperOwnsChild, ThreadInv
  <1>2. CASE Load
    BY <1>1, <1>2 DEF TypeOK, Load, LoadInstance, Serve, Store
  <1>3. CASE Requests
    BY <1>1, <1>3 DEF TypeOK, Requests, Create, Patch, Request, Store
  <1>4. ASSUME NEW t \in Threads, Acquire(t) PROVE life'[i] = "removed"
    BY <1>1, <1>4 DEF Acquire, BeginStart, BeginStop, BeginRestart, BeginRecover, BeginPut,
                      BeginDelete, Reject
  <1>5. ASSUME NEW t \in Threads, Proceed(t) PROVE life'[i] = "removed"
    <2>1. CASE StopDead(t)
      BY <1>1, <2>1 DEF TypeOK, StopDead, Store
    <2>2. CASE StopFinish(t)
      BY <1>1, <2>2 DEF TypeOK, StopFinish, Store
    <2>3. CASE Replace(t)
      BY <1>1, <2>3 DEF TypeOK, Replace, Store
    <2>4. CASE Remove(t)
      BY <1>1, <2>4 DEF TypeOK, Remove
    <2>5. CASE StartFails(t) \/ \E p \in Procs : StartLaunch(t, p)
      BY <1>1, <2>5 DEF TypeOK, StartFails, StartLaunch, Startable, Store
    <2>6. CASE \/ StopNothing(t) \/ StopSignal(t) \/ Exited(t) \/ GraceTimeout(t)
               \/ KillTimeout(t) \/ StartRefused(t) \/ StartUnsupported(t)
      BY <1>1, <2>6 DEF StopNothing, StopSignal, Exited, GraceTimeout, KillTimeout,
                        StartRefused, StartUnsupported
    <2> QED BY <1>5, <2>1, <2>2, <2>3, <2>4, <2>5, <2>6 DEF Proceed
  <1>6. CASE Children
    BY <1>1, <1>6 DEF Children, Monitor, MonitorRecord, MonitorSuperseded, MonitorClose, ChildExit
  <1>7. CASE Periodically \/ ShutdownBegin \/ Shutdown \/ AtRest \/ UNCHANGED vars
    BY <1>1, <1>7 DEF Periodically, PeriodicTick, PeriodicScan, PeriodicRecover, PeriodicExit,
                      ShutdownBegin, Shutdown, ShutdownVisit, ShutdownDrained, AtRest, vars
  <1> QED BY <1>2, <1>3, <1>4, <1>5, <1>6, <1>7 DEF Next

\* A deleted instance stays out of the map and down, whatever was waiting for its lock.
THEOREM DeletedForGood == Spec => NoResurrection
  <1>1. SafeInv /\ SafeInv' /\ [Next]_vars =>
          [\A i \in Instances :
             life[i] = "removed" => life'[i] = "removed" /\ status'[i] = "stopped"]_vars
    BY RemovedStays DEF SafeInv, LifeInv
  <1> QED BY <1>1, AlwaysSafe, PTL DEF Spec, NoResurrection

-----------------------------------------------------------------------------
(* HaltInv: whoever may start an instance has been asked to *)

\* Nobody has halted anything at first.
LEMMA HaltInit == Init => HaltInv
  <1> SUFFICES ASSUME Init PROVE HaltInv
    OBVIOUS
  <1>1. ASSUME NEW i \in Instances
        PROVE  life[i] \notin Known /\ (restart[i] => asked[i] = "run")
    <2>1. life[i] \in {"absent", "saved"}
      BY DEF Init
    <2> QED BY <2>1 DEF Init
  <1>2. \A t \in Threads : pc[t] = "idle"
    BY DEF Init
  <1>3. pc[Main] \notin Engaged /\ pc[Periodic] \notin Engaged
    BY <1>2
  <1>4. toScan = {} /\ due = {}
    BY DEF Init
  <1> QED BY <1>1, <1>2, <1>3, <1>4 DEF HaltInv

\* loadState starts what the state file says runs: it was asked to.
LEMMA LoadAsked == ASSUME SafeInv, HaltInv, Load PROVE HaltInv'
  <1> USE NoneAssumption, ThreadAssumption
      DEF SafeInv, TypeOK, ThreadInv, LockInv, LifeInv, ProcInv, StatusMatchesHandle, HaltInv,
          Halting
  <1>1. ASSUME NEW i \in Instances, LoadInstance(i) PROVE HaltInv'
    BY <1>1 DEF LoadInstance, ResetStopped, Store, Call
  <1>2. CASE Serve
    BY <1>2 DEF Serve
  <1> QED BY ONLY <1>1, <1>2, Load DEF Load

\* A request that starts an instance asks for it as it begins.
LEMMA RequestsAsked == ASSUME SafeInv, HaltInv, Requests PROVE HaltInv'
  <1> USE NoneAssumption, ThreadAssumption
      DEF SafeInv, TypeOK, ThreadInv, LockInv, LifeInv, ProcInv, StatusMatchesHandle, HaltInv,
          Halting
  <1>1. ASSUME NEW w \in Workers, NEW i \in Instances, NEW u \in Supported, Create(w, i, u)
        PROVE  HaltInv'
    BY <1>1 DEF Create, Serving, Store, Call
  <1>2. ASSUME NEW w \in Workers, NEW i \in Instances, NEW r \in BOOLEAN,
               NEW action \in {None, "start", "stop", "restart"}, Patch(w, i, r, action)
        PROVE  HaltInv'
    <2>1. CASE action = None
      BY <1>2, <2>1 DEF Patch, Serving
    <2>2. CASE action # None
      <3>1. action \in {"start", "stop", "restart"} /\ Call(w, action, i, None)
        BY <1>2, <2>2 DEF Patch
      <3> QED BY <1>2, <3>1 DEF Patch, Serving, Call
    <2> QED BY <2>1, <2>2
  <1>3. ASSUME NEW w \in Workers, NEW i \in Instances, NEW o \in {"put", "delete"},
               NEW u \in Urls \cup {None}, Request(w, i, o, u)
        PROVE  HaltInv'
    BY <1>3 DEF Request, Serving, Call
  <1> QED BY ONLY <1>1, <1>2, <1>3, Requests, UrlAssumption DEF Requests

\* Whoever gets the lock begins what it was asked, or finds it is no longer wanted.
LEMMA AcquireAsked == ASSUME SafeInv, HaltInv, NEW t \in Threads, Acquire(t) PROVE HaltInv'
  <1> USE NoneAssumption, ThreadAssumption
      DEF SafeInv, TypeOK, ThreadInv, LockInv, LifeInv, ProcInv, StatusMatchesHandle, HaltInv,
          Halting
  <1>1. CASE BeginStart(t)
    <2>1. CASE t \in Workers
      BY <1>1, <2>1 DEF BeginStart, Enter
    <2>2. CASE t = Main
      BY <1>1, <2>2 DEF BeginStart, Enter
    <2> QED BY <1>1, <2>1, <2>2 DEF BeginStart, Enter
  <1>2. CASE BeginStop(t)
    BY <1>2 DEF BeginStop, Enter
  <1>3. CASE BeginRestart(t)
    BY <1>3 DEF BeginRestart, Enter
  <1>4. CASE BeginRecover(t)
    BY <1>4 DEF BeginRecover, Enter, Eligible
  <1>5. CASE BeginPut(t)
    BY <1>5 DEF BeginPut, Enter
  <1>6. CASE BeginDelete(t)
    BY <1>6 DEF BeginDelete, Enter
  <1>7. CASE Reject(t)
    BY <1>7 DEF Reject, Leave
  <1> QED BY ONLY <1>1, <1>2, <1>3, <1>4, <1>5, <1>6, <1>7, Acquire(t) DEF Acquire

\* A stop takes from a halted instance what it has left to lose.
LEMMA StopAsked ==
  ASSUME SafeInv, HaltInv, NEW t \in Threads,
         \/ StopNothing(t) \/ StopDead(t) \/ StopSignal(t) \/ Exited(t)
         \/ GraceTimeout(t) \/ KillTimeout(t) \/ StopFinish(t)
  PROVE  HaltInv'
  <1> USE NoneAssumption, ThreadAssumption
      DEF SafeInv, TypeOK, ThreadInv, LockInv, LifeInv, ProcInv, StatusMatchesHandle, HaltInv,
          Halting
  <1>1. CASE StopNothing(t)
    <2>1. CASE op[t] = "stop" /\ Leave(t)
      BY <1>1, <2>1 DEF StopNothing, Leave
    <2>2. CASE op[t] \in {"restart", "recover"} /\ Go(t, "start")
      BY <1>1, <2>2 DEF StopNothing, Go
    <2>3. CASE op[t] = "put" /\ Go(t, "replace")
      BY <1>1, <2>3 DEF StopNothing, Go
    <2>4. CASE op[t] = "delete" /\ Go(t, "remove")
      BY <1>1, <2>4 DEF StopNothing, Go
    <2>5. StopReturns(t)
      BY ONLY <1>1 DEF StopNothing
    <2> QED BY ONLY <2>1, <2>2, <2>3, <2>4, <2>5, StopReturnsCases
  <1>2. CASE StopDead(t)
    <2>1. CASE op[t] = "stop" /\ Leave(t)
      BY <1>2, <2>1 DEF StopDead, ResetStopped, Store, Leave
    <2>2. CASE op[t] \in {"restart", "recover"} /\ Go(t, "start")
      BY <1>2, <2>2 DEF StopDead, ResetStopped, Store, Go
    <2>3. CASE op[t] = "put" /\ Go(t, "replace")
      BY <1>2, <2>3 DEF StopDead, ResetStopped, Store, Go
    <2>4. CASE op[t] = "delete" /\ Go(t, "remove")
      BY <1>2, <2>4 DEF StopDead, ResetStopped, Store, Go
    <2>5. StopReturns(t)
      BY ONLY <1>2 DEF StopDead
    <2> QED BY ONLY <2>1, <2>2, <2>3, <2>4, <2>5, StopReturnsCases
  <1>3. CASE StopSignal(t)
    BY <1>3 DEF StopSignal
  <1>4. CASE Exited(t)
    BY <1>4 DEF Exited, Go
  <1>5. CASE GraceTimeout(t)
    BY <1>5 DEF GraceTimeout, Go
  <1>6. CASE KillTimeout(t)
    BY <1>6 DEF KillTimeout, Go
  <1>7. CASE StopFinish(t)
    <2>1. CASE op[t] = "stop" /\ Leave(t)
      BY <1>7, <2>1 DEF StopFinish, ResetStopped, Store, Leave
    <2>2. CASE op[t] \in {"restart", "recover"} /\ Go(t, "start")
      BY <1>7, <2>2 DEF StopFinish, ResetStopped, Store, Go
    <2>3. CASE op[t] = "put" /\ Go(t, "replace")
      BY <1>7, <2>3 DEF StopFinish, ResetStopped, Store, Go
    <2>4. CASE op[t] = "delete" /\ Go(t, "remove")
      BY <1>7, <2>4 DEF StopFinish, ResetStopped, Store, Go
    <2>5. StopReturns(t)
      BY ONLY <1>7 DEF StopFinish
    <2> QED BY ONLY <2>1, <2>2, <2>3, <2>4, <2>5, StopReturnsCases
  <1> QED BY <1>1, <1>2, <1>3, <1>4, <1>5, <1>6, <1>7

\* A start launches only what it was asked to, and PUT and DELETE nothing.
LEMMA StartAsked ==
  ASSUME SafeInv, HaltInv, NEW t \in Threads,
         \/ Replace(t) \/ Remove(t)
         \/ StartRefused(t) \/ StartUnsupported(t) \/ StartFails(t)
         \/ \E p \in Procs : StartLaunch(t, p)
  PROVE  HaltInv'
  <1> USE NoneAssumption, ThreadAssumption
      DEF SafeInv, TypeOK, ThreadInv, LockInv, LifeInv, ProcInv, StatusMatchesHandle, HaltInv,
          Halting
  <1>1. CASE Replace(t)
    BY <1>1 DEF Replace, Store, Go
  <1>2. CASE Remove(t)
    BY <1>2 DEF Remove, Leave
  <1>3. CASE StartRefused(t)
    BY <1>3 DEF StartRefused, Leave
  <1>4. CASE StartUnsupported(t)
    BY <1>4 DEF StartUnsupported, Leave
  <1>5. CASE StartFails(t)
    BY <1>5, SMTT(20) DEF StartFails, Store, Leave
  <1>6. ASSUME NEW p \in Procs, StartLaunch(t, p) PROVE HaltInv'
    BY <1>6, SMTT(20) DEF StartLaunch, Store, Leave
  <1> QED BY <1>1, <1>2, <1>3, <1>4, <1>5, <1>6

\* A child and its monitor start nothing.
LEMMA ChildrenAsked == ASSUME SafeInv, HaltInv, Children PROVE HaltInv'
  <1> USE NoneAssumption, ThreadAssumption
      DEF SafeInv, TypeOK, ThreadInv, LockInv, LifeInv, ProcInv, StatusMatchesHandle, HaltInv,
          Halting
  <1>1. ASSUME NEW p \in Procs, MonitorRecord(p) PROVE HaltInv'
    BY <1>1 DEF MonitorRecord, Recordable
  <1>2. ASSUME NEW p \in Procs, MonitorSuperseded(p) PROVE HaltInv'
    BY <1>2 DEF MonitorSuperseded
  <1>3. ASSUME NEW p \in Procs, MonitorClose(p) PROVE HaltInv'
    BY <1>3 DEF MonitorClose
  <1>4. ASSUME NEW p \in Procs, NEW how \in {"ok", "fail"}, ChildExit(p, how) PROVE HaltInv'
    BY <1>4 DEF ChildExit
  <1> QED BY ONLY <1>1, <1>2, <1>3, <1>4, Children DEF Children, Monitor

\* The hourly task asks again under the lock; the shutdown asks for stops only.
LEMMA TasksAsked ==
  ASSUME SafeInv, HaltInv, Periodically \/ ShutdownBegin \/ Shutdown PROVE HaltInv'
  <1> USE NoneAssumption, ThreadAssumption
      DEF SafeInv, TypeOK, ThreadInv, LockInv, LifeInv, ProcInv, StatusMatchesHandle, HaltInv,
          Halting
  <1>1. CASE PeriodicTick
    BY <1>1 DEF PeriodicTick, Serving
  <1>2. ASSUME NEW i \in Instances, PeriodicScan(i) PROVE HaltInv'
    BY <1>2 DEF PeriodicScan
  <1>3. ASSUME NEW i \in Instances, PeriodicRecover(i) PROVE HaltInv'
    BY <1>3 DEF PeriodicRecover, Call
  <1>4. CASE PeriodicExit
    BY <1>4 DEF PeriodicExit, ShuttingDown
  <1>5. CASE ShutdownBegin
    BY <1>5 DEF ShutdownBegin
  <1>6. ASSUME NEW i \in Instances, ShutdownVisit(i) PROVE HaltInv'
    <2>1. CASE status[i] # "stopped" /\ cmd[i] # None
      <3>1. Call(i, "stop", i, None)
        BY <1>6, <2>1 DEF ShutdownVisit
      <3> QED BY <1>6, <3>1 DEF ShutdownVisit, Call
    <2>2. CASE ~(status[i] # "stopped" /\ cmd[i] # None)
      BY <1>6, <2>2 DEF ShutdownVisit
    <2> QED BY <2>1, <2>2
  <1>7. CASE ShutdownDrained
    BY <1>7 DEF ShutdownDrained
  <1> QED BY <1>1, <1>2, <1>3, <1>4, <1>5, <1>6, <1>7 DEF Periodically, Shutdown

\* Every step keeps HaltInv where SafeInv holds.
LEMMA HaltStep == SafeInv /\ HaltInv /\ [Next]_vars => HaltInv'
  <1>1. ASSUME HaltInv, UNCHANGED vars PROVE HaltInv'
    BY <1>1 DEF vars, HaltInv, Halting
  <1> QED BY <1>1, LoadAsked, RequestsAsked, AcquireAsked, StopAsked, StartAsked, ChildrenAsked,
             TasksAsked DEF Next, Proceed, AtRest

\* Who was asked to run, and what a stop still owes, as the instances' history demands.
THEOREM StoppedByUserAsked == Spec => []HaltInv
  BY AlwaysSafe, SafeStep, HaltInit, HaltStep, PTL DEF Spec

\* What a user has stopped stays down until a user asks for it again: the hourly task,
\* the loader and the monitors never bring it up.
THEOREM StoppedByUserStaysDown == Spec => []HaltRespected
  <1>1. HaltInv => HaltRespected
    BY DEF HaltInv, Halting, HaltRespected
  <1> QED BY <1>1, StoppedByUserAsked, PTL

-----------------------------------------------------------------------------
(* NoLeakedContext *)

\* What changes no child, context or handle leaks no context.
LEMMA LeakUntouched ==
  ASSUME NoLeakedContext, UNCHANGED <<proc, owner, cancelled, cmd>>
  PROVE  NoLeakedContext'
  BY DEF NoLeakedContext

\* No step of a start or a stop leaves a context behind.
LEMMA ProceedNoLeak ==
  ASSUME SafeInv, NoLeakedContext, NEW t \in Threads, Proceed(t) PROVE NoLeakedContext'
  <1> USE NoneAssumption
      DEF SafeInv, TypeOK, ThreadInv, LifeInv, ProcInv, StopInv, StatusMatchesHandle,
          StopperOwnsChild, NoLeakedContext
  <1>1. CASE StopDead(t)
    BY <1>1 DEF StopDead, ResetStopped
  <1>2. CASE GraceTimeout(t)
    BY <1>2 DEF GraceTimeout
  <1>3. CASE StopFinish(t)
    BY <1>3 DEF StopFinish, ResetStopped
  <1>4. CASE StartFails(t)
    BY <1>4 DEF StartFails, Startable
  <1>5. ASSUME NEW p \in Procs, StartLaunch(t, p) PROVE NoLeakedContext'
    BY <1>5 DEF StartLaunch, Startable
  <1>6. CASE \/ StopNothing(t) \/ StopSignal(t) \/ Exited(t) \/ KillTimeout(t)
             \/ Replace(t) \/ Remove(t) \/ StartRefused(t) \/ StartUnsupported(t)
    BY ONLY <1>6, NoLeakedContext, LeakUntouched
       DEF StopNothing, StopSignal, Exited, KillTimeout, Replace, Remove, StartRefused,
           StartUnsupported, instVars, childVars
  <1> QED BY ONLY <1>1, <1>2, <1>3, <1>4, <1>5, <1>6, Proceed(t) DEF Proceed

\* Nor does a monitor: it cancels the context of a child whose exit it records; of one that is
\* being stopped or was superseded a stop has cancelled the context, or is about to.
LEMMA ChildrenNoLeak ==
  ASSUME SafeInv, NoLeakedContext, Children PROVE NoLeakedContext'
  <1> USE NoneAssumption DEF SafeInv, TypeOK, ProcStates, ProcInv, NoLeakedContext
  <1>1. ASSUME NEW p \in Procs, MonitorRecord(p) PROVE NoLeakedContext'
    BY <1>1 DEF MonitorRecord, Recordable
  <1>2. ASSUME NEW p \in Procs, MonitorSuperseded(p) PROVE NoLeakedContext'
    BY <1>2 DEF MonitorSuperseded
  <1>3. ASSUME NEW p \in Procs, MonitorClose(p) PROVE NoLeakedContext'
    <2>1. CASE proc[p] = "recorded"
      BY <1>3, <2>1 DEF MonitorClose
    <2>2. CASE proc[p] = "superseded"
      BY <1>3, <2>2 DEF MonitorClose
    <2> QED BY <1>3, <2>1, <2>2 DEF MonitorClose
  <1>4. ASSUME NEW p \in Procs, NEW how \in {"ok", "fail"}, ChildExit(p, how)
        PROVE  NoLeakedContext'
    BY <1>4 DEF ChildExit
  <1> QED BY ONLY <1>1, <1>2, <1>3, <1>4, Children DEF Children, Monitor

\* No step leaks a context where SafeInv holds.
LEMMA NoLeakStep == SafeInv /\ NoLeakedContext /\ [Next]_vars => NoLeakedContext'
  <1> SUFFICES ASSUME SafeInv, NoLeakedContext, [Next]_vars PROVE NoLeakedContext'
    OBVIOUS
  <1>1. ASSUME NEW i \in Instances, LoadInstance(i) PROVE NoLeakedContext'
    <2>1. i \in Instances /\ cmd[i] = None
      BY <1>1 DEF SafeInv, LifeInv, LoadInstance
    <2> QED BY <1>1, <2>1, NoneAssumption
            DEF SafeInv, TypeOK, LoadInstance, ResetStopped, NoLeakedContext
  <1>2. CASE Serve \/ Requests
    BY <1>2, LeakUntouched DEF Serve, Requests, Create, Patch, Request
  <1>3. ASSUME NEW t \in Threads, Acquire(t) PROVE NoLeakedContext'
    BY <1>3, LeakUntouched DEF Acquire, BeginStart, BeginStop, BeginRestart, BeginRecover,
                               BeginPut, BeginDelete, Reject
  <1>4. CASE Periodically \/ ShutdownBegin \/ Shutdown \/ AtRest \/ UNCHANGED vars
    BY <1>4, LeakUntouched
       DEF Periodically, PeriodicTick, PeriodicScan, PeriodicRecover, PeriodicExit,
           ShutdownBegin, Shutdown, ShutdownVisit, ShutdownDrained, AtRest, vars
  <1> QED BY <1>1, <1>2, <1>3, <1>4, ProceedNoLeak, ChildrenNoLeak DEF Next, Load

\* No context, and so no telemetry goroutine, is left behind by a child that is not
\* current any more, whichever of the stop and the monitor came first.
THEOREM ContextsReleased == Spec => []NoLeakedContext
  <1>1. Init => NoLeakedContext
    BY DEF Init, NoLeakedContext
  <1> QED BY <1>1, AlwaysSafe, SafeStep, NoLeakStep, PTL DEF Spec

\* The inductive invariant as a whole: from every state in which it holds, every step of
\* instance.go, rest.go, periodic.go and shutdown leads to one in which it holds.
THEOREM AlwaysInvariant == Spec => []IInv
  BY AlwaysSafe, StoppedByUserAsked, ContextsReleased, PTL DEF IInv

-----------------------------------------------------------------------------
(* Supervisor implements InstanceLifecycle *)

\* The initial state is an initial state of InstanceLifecycle.
LEMMA LifecycleInit == Init => Lifecycle!Init
  BY NoneAssumption DEF Init, Lifecycle!Init, ShownStatus, ShownChild, Gate

\* A step that keeps what the abstract state is made of is a stuttering step.
LEMMA Stutters ==
  ASSUME UNCHANGED <<status, life, cmd, proc, phase>>
  PROVE  UNCHANGED Lifecycle!lifecycleVars
  BY DEF Lifecycle!lifecycleVars, ShownStatus, ShownChild, Gate

\* So is one after which every instance looks as before.
LEMMA LooksTheSame ==
  ASSUME \A k \in Instances : ShownStatus(k)' = ShownStatus(k) /\ ShownChild(k)' = ShownChild(k),
         {p \in Procs : proc[p] # "unborn"}' = {p \in Procs : proc[p] # "unborn"},
         Gate[phase]' = Gate[phase]
  PROVE  UNCHANGED Lifecycle!lifecycleVars
  BY DEF Lifecycle!lifecycleVars

\* A loaded instance appears.
LEMMA LoadRefines ==
  ASSUME SafeInv, NEW i \in Instances, LoadInstance(i)
  PROVE  Lifecycle!Appear(i)
  <1>1. life[i] = "saved" /\ \A p \in Procs : ~(proc[p] = "alive" /\ owner[p] = i)
    BY DEF SafeInv, LifeInv, ChildUnderControl, LoadInstance
  <1>2. \A k \in Instances : ShownStatus(k)' = IF k = i THEN "stopped" ELSE ShownStatus(k)
    BY <1>1 DEF SafeInv, TypeOK, LoadInstance, ResetStopped, Store, ShownStatus
  <1>3. \A k \in Instances : ShownChild(k)' = ShownChild(k)
    BY <1>1 DEF SafeInv, TypeOK, LifeInv, LoadInstance, ResetStopped, ShownChild
  <1>4. ShownStatus(i) = "absent"
    BY <1>1 DEF ShownStatus
  <1>5. UNCHANGED <<proc, phase>>
    BY DEF LoadInstance
  <1> QED BY <1>2, <1>3, <1>4, <1>5 DEF Lifecycle!Appear, Lifecycle!Become, Gate

\* A created instance appears.
LEMMA CreateRefines ==
  ASSUME SafeInv, NEW w \in Workers, NEW i \in Instances, NEW u \in Supported, Create(w, i, u)
  PROVE  Lifecycle!Appear(i)
  <1>1. life[i] = "absent" /\ status[i] = "stopped" /\ UNCHANGED <<cmd, proc, phase>>
    BY DEF SafeInv, LifeInv, Create, taskVars, childVars
  <1>2. \A k \in Instances : ShownStatus(k)' = IF k = i THEN "stopped" ELSE ShownStatus(k)
    BY <1>1 DEF SafeInv, TypeOK, Create, Store, ShownStatus
  <1>3. \A k \in Instances : ShownChild(k)' = ShownChild(k)
    BY <1>1 DEF ShownChild
  <1>4. ShownStatus(i) = "absent"
    BY <1>1 DEF ShownStatus
  <1> QED BY <1>1, <1>2, <1>3, <1>4 DEF Lifecycle!Appear, Lifecycle!Become

\* A stop that finds no child clears what is shown of it.
LEMMA StopDeadRefines ==
  ASSUME SafeInv, NEW t \in Threads, StopDead(t)
  PROVE  Lifecycle!Clear(on[t])
  <1>1. on[t] \in Instances /\ life[on[t]] = "stored" /\ status[on[t]] = "error"
    BY DEF SafeInv, TypeOK, ThreadInv, LifeInv, StatusMatchesHandle, StopDead
  <1>2. \A k \in Instances : ShownStatus(k)' = IF k = on[t] THEN "stopped" ELSE ShownStatus(k)
    BY <1>1 DEF SafeInv, TypeOK, StopDead, ResetStopped, Store, ShownStatus
  <1>3. \A k \in Instances : ShownChild(k)' = ShownChild(k)
    BY <1>1 DEF SafeInv, TypeOK, StopDead, ResetStopped, ShownChild
  <1>4. ShownStatus(on[t]) = "error" /\ UNCHANGED <<proc, phase>>
    BY <1>1 DEF ShownStatus, StopDead
  <1> QED BY <1>1, <1>2, <1>3, <1>4 DEF Lifecycle!Clear, Lifecycle!Become

\* A child that is no longer live, be it by SIGKILL or by its own exit.
LEMMA LossRefines ==
  ASSUME SafeInv, NEW p \in Procs, Live(p), NEW s \in {"dying", "ok", "fail"},
         proc' = [proc EXCEPT ![p] = s], UNCHANGED <<status, life, cmd, phase>>
  PROVE  Lifecycle!LoseChild(owner[p])
  <1>1. owner[p] \in Instances /\ cmd[owner[p]] = p
    BY DEF SafeInv, ProcInv, ChildUnderControl
  <1>2. \A k \in Instances : cmd[k] # None => cmd[k] \in Procs /\ owner[cmd[k]] = k
    BY DEF SafeInv, TypeOK, ProcInv
  <1>3. \A k \in Instances : ShownChild(k)' = IF k = owner[p] THEN None ELSE ShownChild(k)
    BY <1>1, <1>2, NoneAssumption DEF SafeInv, TypeOK, ShownChild
  <1>4. \A k \in Instances : ShownStatus(k)' = ShownStatus(k)
    BY DEF ShownStatus
  <1>5. ShownChild(owner[p]) # None
    BY <1>1, NoneAssumption DEF ShownChild
  <1>6. {q \in Procs : proc[q] # "unborn"}' = {q \in Procs : proc[q] # "unborn"}
    BY DEF SafeInv, TypeOK
  <1> QED BY <1>1, <1>3, <1>4, <1>5, <1>6 DEF Lifecycle!LoseChild

\* A child that was not live changes state without anybody noticing.
LEMMA AfterLossStutters ==
  ASSUME SafeInv, NEW p \in Procs, ~Live(p), proc[p] # "unborn",
         NEW s \in ProcStates \ {"alive", "unborn"},
         proc' = [proc EXCEPT ![p] = s], UNCHANGED <<status, life, cmd, phase>>
  PROVE  UNCHANGED Lifecycle!lifecycleVars
  <1>1. \A k \in Instances : ShownChild(k)' = ShownChild(k) /\ ShownStatus(k)' = ShownStatus(k)
    BY NoneAssumption DEF SafeInv, TypeOK, ProcStates, ShownChild, ShownStatus
  <1>2. {q \in Procs : proc[q] # "unborn"}' = {q \in Procs : proc[q] # "unborn"}
    BY DEF SafeInv, TypeOK, ProcStates
  <1> QED BY <1>1, <1>2, LooksTheSame

\* A SIGKILL takes the child away, unless it is gone already.
LEMMA GraceTimeoutRefines ==
  ASSUME SafeInv, NEW t \in Threads, GraceTimeout(t)
  PROVE  (\E i \in Instances : Lifecycle!LoseChild(i)) \/ UNCHANGED Lifecycle!lifecycleVars
  <1> DEFINE p == child[t]
  <1>1. p \in Procs /\ on[t] \in Instances /\ cmd[on[t]] = p
    BY DEF SafeInv, TypeOK, ThreadInv, StopInv, StopperOwnsChild, GraceTimeout
  <1>2. proc[p] # "unborn" /\ owner[p] = on[t]
    BY <1>1, NoneAssumption DEF SafeInv, ProcInv
  <1>3. CASE Live(p)
    <2>1. proc' = [proc EXCEPT ![p] = "dying"] /\ UNCHANGED <<status, life, cmd, phase>>
      BY <1>3 DEF GraceTimeout
    <2> QED BY <1>1, <1>2, <1>3, <2>1, LossRefines
  <1>4. CASE ~Live(p)
    <2>1. UNCHANGED <<status, life, cmd, proc, phase>>
      BY <1>1, <1>4 DEF SafeInv, TypeOK, GraceTimeout
    <2> QED BY <2>1, Stutters
  <1> QED BY <1>3, <1>4

\* An exit takes the child away, unless it was killed before.
LEMMA ChildExitRefines ==
  ASSUME SafeInv, NEW p \in Procs, NEW how \in {"ok", "fail"}, ChildExit(p, how)
  PROVE  (\E i \in Instances : Lifecycle!LoseChild(i)) \/ UNCHANGED Lifecycle!lifecycleVars
  <1>1. /\ proc' = [proc EXCEPT ![p] = how]
        /\ UNCHANGED <<status, life, cmd, phase>>
        /\ proc[p] \in {"alive", "dying"}
    BY DEF ChildExit
  <1>2. CASE Live(p)
    <2>1. owner[p] \in Instances
      BY <1>2 DEF SafeInv, ProcInv
    <2> QED BY <1>1, <1>2, <2>1, LossRefines
  <1>3. CASE ~Live(p)
    BY <1>1, <1>3, AfterLossStutters DEF ProcStates
  <1> QED BY <1>2, <1>3

\* The end of a stop shows that the child is gone.
LEMMA StopFinishRefines ==
  ASSUME SafeInv, NEW t \in Threads, StopFinish(t)
  PROVE  Lifecycle!ShowEnd(on[t])
  <1>1. /\ on[t] \in Instances /\ life[on[t]] = "stored" /\ status[on[t]] = "running"
        /\ cmd[on[t]] = child[t] /\ ~Live(child[t])
    BY DEF SafeInv, TypeOK, ThreadInv, LifeInv, StopInv, StopperOwnsChild, StopFinish
  <1>2. \A k \in Instances : ShownStatus(k)' = IF k = on[t] THEN "stopped" ELSE ShownStatus(k)
    BY <1>1 DEF SafeInv, TypeOK, StopFinish, ResetStopped, Store, ShownStatus
  <1>3. \A k \in Instances : ShownChild(k)' = ShownChild(k)
    BY <1>1 DEF SafeInv, TypeOK, StopFinish, ResetStopped, ShownChild
  <1>4. ShownStatus(on[t]) = "running" /\ ShownChild(on[t]) = None /\ UNCHANGED <<proc, phase>>
    BY <1>1 DEF ShownStatus, ShownChild, StopFinish
  <1> QED BY <1>1, <1>2, <1>3, <1>4 DEF Lifecycle!ShowEnd, Lifecycle!Become

\* So does a monitor that records the exit.
LEMMA MonitorRecordRefines ==
  ASSUME SafeInv, NEW p \in Procs, MonitorRecord(p)
  PROVE  \E i \in Instances : Lifecycle!ShowEnd(i)
  <1> DEFINE i == owner[p]
             to == IF proc[p] = "ok" THEN "stopped" ELSE "error"
  <1>1. /\ i \in Instances /\ cmd[i] = p /\ status[i] = "running" /\ life[i] = "stored"
        /\ proc[p] \in {"ok", "fail"}
    BY NoneAssumption DEF SafeInv, TypeOK, ProcInv, LifeInv, StatusMatchesHandle, MonitorRecord,
       Recordable
  <1>2. \A k \in Instances : ShownStatus(k)' = IF k = i THEN to ELSE ShownStatus(k)
    BY <1>1 DEF SafeInv, TypeOK, MonitorRecord, ShownStatus
  <1>3. \A k \in Instances : ShownChild(k)' = ShownChild(k)
    BY <1>1, NoneAssumption DEF SafeInv, TypeOK, ProcInv, MonitorRecord, ShownChild
  <1>4. /\ ShownStatus(i) = "running" /\ ShownChild(i) = None
        /\ {q \in Procs : proc[q] # "unborn"}' = {q \in Procs : proc[q] # "unborn"}
        /\ UNCHANGED phase
    BY <1>1 DEF SafeInv, TypeOK, ShownStatus, ShownChild, MonitorRecord
  <1>5. to \in {"stopped", "error"}
    OBVIOUS
  <1> QED BY <1>1, <1>2, <1>3, <1>4, <1>5 DEF Lifecycle!ShowEnd, Lifecycle!Become

\* PUT changes the URL, which the lifecycle does not show.
LEMMA ReplaceRefines ==
  ASSUME SafeInv, NEW t \in Threads, Replace(t)
  PROVE  UNCHANGED Lifecycle!lifecycleVars
  <1>1. on[t] \in Instances /\ life[on[t]] = "stored" /\ status[on[t]] = "stopped"
    BY DEF SafeInv, TypeOK, ThreadInv, LifeInv, Replace
  <1>2. UNCHANGED <<status, life, cmd, proc, phase>>
    BY <1>1 DEF SafeInv, TypeOK, Replace, Store
  <1> QED BY <1>2, Stutters

\* DELETE makes the instance vanish.
LEMMA RemoveRefines ==
  ASSUME SafeInv, NEW t \in Threads, Remove(t)
  PROVE  Lifecycle!Vanish(on[t]) \/ UNCHANGED Lifecycle!lifecycleVars
  <1>1. on[t] \in Instances /\ life[on[t]] \in Known /\ status[on[t]] = "stopped"
    BY DEF SafeInv, ThreadInv, Remove
  <1>2. \A k \in Instances : ShownStatus(k)' = IF k = on[t] THEN "gone" ELSE ShownStatus(k)
    BY <1>1 DEF SafeInv, TypeOK, Remove, ShownStatus
  <1>3. UNCHANGED <<cmd, proc, phase>> /\ \A k \in Instances : ShownChild(k)' = ShownChild(k)
    BY DEF Remove, ShownChild
  <1>4. CASE life[on[t]] = "stored"
    <2>1. ShownStatus(on[t]) = "stopped"
      BY <1>1, <1>4 DEF ShownStatus
    <2> QED BY <1>1, <1>2, <1>3, <2>1 DEF Lifecycle!Vanish, Lifecycle!Become
  <1>5. CASE life[on[t]] = "removed"
    <2>1. ShownStatus(on[t]) = "gone"
      BY <1>1, <1>5 DEF ShownStatus
    <2> QED BY <1>1, <1>2, <1>3, <2>1, LooksTheSame
  <1> QED BY <1>1, <1>4, <1>5

\* Where a start may go on, the instance shows as stopped, and the gate is open.
LEMMA StartableShows ==
  ASSUME SafeInv, NEW t \in Threads, pc[t] = "start", Startable(on[t])
  PROVE  /\ on[t] \in Instances /\ life[on[t]] = "stored" /\ cmd[on[t]] = None
         /\ ShownStatus(on[t]) = "stopped" /\ ShownChild(on[t]) = None /\ Gate[phase] = "open"
  BY DEF SafeInv, TypeOK, ThreadInv, LifeInv, StatusMatchesHandle, Startable, ShuttingDown,
         ShownStatus, ShownChild, Gate

\* A failed launch shows an error and no child.
LEMMA StartErrorRefines ==
  ASSUME SafeInv, NEW t \in Threads, StartUnsupported(t) \/ StartFails(t)
  PROVE  Lifecycle!FailToLaunch(on[t])
  <1>1. /\ on[t] \in Instances /\ life[on[t]] = "stored" /\ cmd[on[t]] = None
        /\ ShownStatus(on[t]) = "stopped" /\ Gate[phase] = "open"
    BY StartableShows DEF StartUnsupported, StartFails
  <1>2. \A k \in Instances : ShownStatus(k)' = IF k = on[t] THEN "error" ELSE ShownStatus(k)
    BY <1>1 DEF SafeInv, TypeOK, StartUnsupported, StartFails, Store, ShownStatus
  <1>3. \A k \in Instances : ShownChild(k)' = ShownChild(k)
    BY <1>1 DEF SafeInv, TypeOK, StartUnsupported, StartFails, ShownChild
  <1>4. UNCHANGED <<proc, phase>>
    BY DEF StartUnsupported, StartFails
  <1> QED BY <1>1, <1>2, <1>3, <1>4 DEF Lifecycle!FailToLaunch, Lifecycle!Become

\* A launch gives the instance a new child.
LEMMA StartLaunchRefines ==
  ASSUME SafeInv, NEW t \in Threads, NEW p \in Procs, StartLaunch(t, p)
  PROVE  Lifecycle!Launch(on[t], p)
  <1>1. /\ on[t] \in Instances /\ life[on[t]] = "stored" /\ cmd[on[t]] = None
        /\ ShownStatus(on[t]) = "stopped" /\ ShownChild(on[t]) = None /\ Gate[phase] = "open"
    BY StartableShows DEF StartLaunch
  <1>2. \A k \in Instances : cmd[k] # p
    BY NoneAssumption DEF SafeInv, ProcInv, StartLaunch
  <1>3. \A k \in Instances : ShownStatus(k)' = IF k = on[t] THEN "running" ELSE ShownStatus(k)
    BY <1>1 DEF SafeInv, TypeOK, StartLaunch, Store, ShownStatus
  <1>4. \A k \in Instances : ShownChild(k)' = IF k = on[t] THEN p ELSE ShownChild(k)
    BY <1>1, <1>2, NoneAssumption DEF SafeInv, TypeOK, StartLaunch, ShownChild
  <1>5. /\ {q \in Procs : proc[q] # "unborn"}' = {q \in Procs : proc[q] # "unborn"} \cup {p}
        /\ p \notin {q \in Procs : proc[q] # "unborn"}
        /\ UNCHANGED phase
    BY DEF SafeInv, TypeOK, StartLaunch
  <1> QED BY <1>1, <1>3, <1>4, <1>5 DEF Lifecycle!Launch, Lifecycle!Become

\* A monitor that has been superseded, or is at its end, shows nothing.
LEMMA MonitorStutters ==
  ASSUME SafeInv, NEW p \in Procs, MonitorSuperseded(p) \/ MonitorClose(p)
  PROVE  UNCHANGED Lifecycle!lifecycleVars
  <1>1. /\ ~Live(p) /\ proc[p] # "unborn"
        /\ \E s \in {"superseded", "done"} : proc' = [proc EXCEPT ![p] = s]
        /\ UNCHANGED <<status, life, cmd, phase>>
    BY DEF MonitorSuperseded, MonitorClose
  <1> QED BY <1>1, AfterLossStutters DEF ProcStates

\* Serving shows nothing; the shutdown closes, then has drained.
LEMMA PhaseRefines ==
  ASSUME SafeInv, Serve \/ ShutdownBegin \/ ShutdownDrained
  PROVE  Lifecycle!Close \/ Lifecycle!Drain \/ UNCHANGED Lifecycle!lifecycleVars
  <1>1. \A k \in Instances : ShownStatus(k)' = ShownStatus(k) /\ ShownChild(k)' = ShownChild(k)
    BY DEF Serve, ShutdownBegin, ShutdownDrained, ShownStatus, ShownChild
  <1>2. UNCHANGED proc
    BY DEF Serve, ShutdownBegin, ShutdownDrained
  <1>3. CASE Serve
    <2>1. Gate[phase]' = Gate[phase]
      BY <1>3 DEF Serve, Gate
    <2> QED BY <1>1, <1>2, <2>1, LooksTheSame
  <1>4. CASE ShutdownBegin
    <2>1. Gate[phase] = "open" /\ Gate[phase]' = "closed"
      BY <1>4 DEF ShutdownBegin, Gate
    <2> QED BY <1>1, <1>2, <2>1 DEF Lifecycle!Close
  <1>5. CASE ShutdownDrained
    <2>1. Gate[phase] = "closed" /\ Gate[phase]' = "left"
      BY <1>5 DEF ShutdownDrained, Gate
    <2>2. \A k \in Instances : ShownStatus(k) # "running"
      BY <1>5 DEF SafeInv, TypeOK, ShutdownInv, ShuttingDown, ShutdownDrained, ShownStatus
    <2> QED BY <1>1, <1>2, <2>1, <2>2 DEF Lifecycle!Drain
  <1> QED BY <1>3, <1>4, <1>5

\* Whatever a thread does under the lock is a step of InstanceLifecycle or shows nothing.
LEMMA ProceedRefines ==
  ASSUME SafeInv, NEW t \in Threads, Proceed(t)
  PROVE  Lifecycle!Next \/ UNCHANGED Lifecycle!lifecycleVars
  <1>1. on[t] \in Instances
    BY DEF SafeInv, ThreadInv, Proceed, StopNothing, StopDead, StopSignal, Exited, GraceTimeout,
           KillTimeout, StopFinish, Replace, Remove, StartRefused, StartUnsupported, StartFails,
           StartLaunch
  <1>2. CASE StopDead(t) \/ StopFinish(t) \/ Remove(t) \/ StartUnsupported(t) \/ StartFails(t)
    BY <1>1, <1>2, StopDeadRefines, StopFinishRefines, RemoveRefines, StartErrorRefines
       DEF Lifecycle!Next
  <1>3. CASE GraceTimeout(t) \/ Replace(t)
    BY <1>3, GraceTimeoutRefines, ReplaceRefines DEF Lifecycle!Next
  <1>4. ASSUME NEW p \in Procs, StartLaunch(t, p) PROVE Lifecycle!Next
    BY <1>1, <1>4, StartLaunchRefines DEF Lifecycle!Next
  <1>5. CASE StopNothing(t) \/ StopSignal(t) \/ Exited(t) \/ KillTimeout(t) \/ StartRefused(t)
    BY <1>5, Stutters DEF StopNothing, StopSignal, Exited, KillTimeout, StartRefused
  <1> QED BY <1>2, <1>3, <1>4, <1>5 DEF Proceed

\* Every step is a step of InstanceLifecycle or shows nothing.
LEMMA LifecycleStep ==
  ASSUME SafeInv, [Next]_vars
  PROVE  Lifecycle!Next \/ UNCHANGED Lifecycle!lifecycleVars
  <1>1. CASE Load
    BY <1>1, LoadRefines, PhaseRefines DEF Load, Lifecycle!Next
  <1>2. CASE Requests
    <2>1. ASSUME NEW w \in Workers, NEW i \in Instances, NEW u \in Supported, Create(w, i, u)
          PROVE  Lifecycle!Next
      BY <2>1, CreateRefines DEF Lifecycle!Next
    <2>2. CASE UNCHANGED <<status, life, cmd, proc, phase>>
      BY <2>2, Stutters
    <2> QED BY <1>2, <2>1, <2>2 DEF Requests, Patch, Request
  <1>3. ASSUME NEW t \in Threads, Acquire(t) PROVE UNCHANGED Lifecycle!lifecycleVars
    BY <1>3, Stutters DEF Acquire, BeginStart, BeginStop, BeginRestart, BeginRecover, BeginPut,
                          BeginDelete, Reject
  <1>4. CASE Children
    BY <1>4, MonitorRecordRefines, MonitorStutters, ChildExitRefines
       DEF Children, Monitor, Lifecycle!Next
  <1>5. CASE ShutdownBegin \/ Shutdown
    <2>1. ASSUME NEW i \in Instances, ShutdownVisit(i) PROVE UNCHANGED Lifecycle!lifecycleVars
      BY <2>1, Stutters DEF ShutdownVisit
    <2> QED BY <1>5, <2>1, PhaseRefines DEF Shutdown, Lifecycle!Next
  <1>6. CASE Periodically \/ AtRest \/ UNCHANGED vars
    BY <1>6, Stutters DEF Periodically, PeriodicTick, PeriodicScan, PeriodicRecover,
                          PeriodicExit, AtRest, vars
  <1> QED BY <1>1, <1>2, <1>3, <1>4, <1>5, <1>6, ProceedRefines DEF Next

\* The supervisor implements the lifecycle that the API promises.
THEOREM Refinement == Spec => ImplementsLifecycle
  BY LifecycleInit, AlwaysSafe, LifecycleStep, PTL DEF Spec, ImplementsLifecycle, Lifecycle!Spec
=============================================================================
