-------------------------- MODULE TelemetryProofs ---------------------------
(***************************************************************************)
(* The safety properties of Telemetry, for any number of children, of      *)
(* other processes, PIDs and endpoints, and any width of the counters that *)
(* holds what an endpoint counts.                                          *)
(***************************************************************************)
EXTENDS Telemetry, TLAPS

\* What a step of the system leaves alone.
Rest == UNCHANGED <<status, cmd, figures, identity, children, links, history>>

\* The reset of a counter that has not saturated does not wrap (rest.go:200).
LEMMA SmallMod == ASSUME NEW n \in Nat, NEW k \in 0..n PROVE k % (n + 1) = k
  OBVIOUS

USE WidthAssumption, NoneAssumption, ProcessAssumption
    DEF Processes, figures, counters, system, children, links, history,
        Go, Exists, Current, Genuine

\* Nothing runs at first and nothing has been counted.
LEMMA TelemetryInitial == Init => TelemetryInv
  <1> SUFFICES ASSUME Init PROVE TelemetryInv
    OBVIOUS
  <1>1. TypeOK
    <2>1. snapshot \in [Procs -> Frame \cup {None}]
      BY DEF Init
    <2>2. /\ seen \in 0..MaxBytes /\ total \in 0..MaxUint
          /\ base \in 0..MaxUint /\ reset \in 0..MaxUint /\ active \in 0..MaxInt32
      BY DEF Init
    <2>3. /\ pid \in [Processes -> Pids \cup {None}]
          /\ bearer \in [Pids -> Processes \cup {None}]
          /\ host \in [Endpoints -> Processes \cup {None}]
          /\ sent \in [Endpoints -> 0..MaxBytes]
      BY DEF Init
    <2> QED BY <2>1, <2>2, <2>3 DEF Init, TypeOK
  <1>2. ChildInv /\ LinkInv /\ IdentityInv
    BY DEF Init, ChildInv, LinkInv, IdentityInv
  <1>3. MeterInv /\ CounterExact /\ ActiveIsLive /\ OwnEndpointOnly
    BY DEF Init, MeterInv, CounterExact, ActiveIsLive, OwnEndpointOnly, Least
  <1> QED BY <1>1, <1>2, <1>3 DEF TelemetryInv

\* Every variable keeps its type; what is added to the history of the counter is never
\* negative, because a frame says no less than the one before.
LEMMA TypeStep ==
  ASSUME TypeOK, LinkInv, IdentityInv, [Next]_vars
  PROVE  TypeOK'
  <1> USE DEF TypeOK, Least
  <1>1. ASSUME StartFails PROVE TypeOK'
    BY <1>1 DEF StartFails, Rebase
  <1>2. ASSUME StopDead PROVE TypeOK'
    BY <1>2 DEF StopDead
  <1>3. ASSUME ResetCounters PROVE TypeOK'
    BY <1>3 DEF ResetCounters
  <1>4. ASSUME NEW o \in Others, Rest, Launch(o) PROVE TypeOK'
    BY <1>4 DEF Launch, Rest
  <1>5. ASSUME NEW x \in Processes, Rest, Exit(x) PROVE TypeOK'
    BY <1>5 DEF Exit, Rest
  <1>6. ASSUME NEW x \in Processes, NEW e \in Endpoints, Rest, Register(x, e)
        PROVE  TypeOK'
    BY <1>6 DEF Register, Rest
  <1>7. ASSUME NEW e \in Endpoints, Rest, Transfer(e) PROVE TypeOK'
    BY <1>7 DEF Transfer, Rest
  <1>8. ASSUME NEW p \in Procs, Start(p) PROVE TypeOK'
    BY <1>8 DEF Start, Launch, Rebase
  <1>9. ASSUME NEW p \in Procs, NEW how \in {"stopped", "error"}, ExitRecorded(p, how)
        PROVE  TypeOK'
    BY <1>9 DEF ExitRecorded
  <1>10. ASSUME NEW p \in Procs, ExitCancels(p) PROVE TypeOK'
    BY <1>10 DEF ExitCancels
  <1>11. ASSUME NEW p \in Procs, StopSignal(p) PROVE TypeOK'
    BY <1>11 DEF StopSignal
  <1>12. ASSUME NEW p \in Procs, StopCancels(p) PROVE TypeOK'
    BY <1>12 DEF StopCancels
  <1>13. ASSUME NEW p \in Procs, StopFinish(p) PROVE TypeOK'
    BY <1>13 DEF StopFinish
  <1>14. ASSUME NEW p \in Procs, NEW e \in Endpoints, Connect(p, e) PROVE TypeOK'
    BY <1>14 DEF Connect, Discovered, Expected, Reachable
  <1>15. ASSUME NEW p \in Procs, Hello(p) PROVE TypeOK'
    BY <1>15 DEF Hello
  <1>16. ASSUME NEW p \in Procs, NEW c \in Loads, Receive(p, c) PROVE TypeOK'
    <2>1. [bytes |-> sent[peer[p]], active |-> c] \in Frame
      BY <1>16 DEF Receive, LinkInv, Frame
    <2>2. snapshot' \in [Procs -> Frame \cup {None}]
      BY <1>16, <2>1 DEF Receive
    <2> QED BY <1>16, <2>2 DEF Receive
  <1>17. ASSUME NEW p \in Procs, ReadFails(p) PROVE TypeOK'
    BY <1>17 DEF ReadFails
  <1>18. ASSUME NEW p \in Procs, Check(p) PROVE TypeOK'
    BY <1>18 DEF Check
  <1>19. ASSUME NEW p \in Procs, Apply(p) PROVE TypeOK'
    <2> DEFINE f == snapshot[p]
    <2>1. f.bytes \in 0..MaxBytes /\ f.active \in Nat
      BY <1>19 DEF Apply, LinkInv, Frame
    <2>2. CounterReset(f.bytes) \in 0..MaxUint /\ CounterReset(f.bytes) <= f.bytes
      BY <2>1 DEF CounterReset
    <2>3. CounterValue(f.bytes) \in 0..MaxUint /\ Least(f.active, MaxInt32) \in 0..MaxInt32
      BY <2>1, <2>2 DEF CounterValue
    <2>4. Current(p) => f.bytes - seen \in Nat
      BY <1>19, <2>1 DEF Apply, IdentityInv
    <2>5. CASE Current(p)
      <3>1. due' \in Nat /\ seen' \in 0..MaxBytes
        BY <1>19, <2>1, <2>4, <2>5 DEF Apply
      <3>2. snapshot' \in [Procs -> Frame \cup {None}] /\ spoilt' \in BOOLEAN
        BY <1>19, <2>5 DEF Apply
      <3> QED BY <1>19, <2>2, <2>3, <2>5, <3>1, <3>2 DEF Apply
    <2>6. CASE ~Current(p)
      BY <1>19, <2>6 DEF Apply
    <2> QED BY <2>5, <2>6
  <1>20. ASSUME NEW p \in Procs, Disconnect(p) PROVE TypeOK'
    BY <1>20 DEF Disconnect
  <1>21. ASSUME NEW p \in Procs, Quit(p) PROVE TypeOK'
    BY <1>21 DEF Quit
  <1>22. CASE UNCHANGED vars
    BY <1>22 DEF vars
  <1> HIDE DEF TypeOK
  <1> QED BY <1>1, <1>2, <1>3, <1>4, <1>5, <1>6, <1>7, <1>8, <1>9, <1>10, <1>11, <1>12,
            <1>13, <1>14, <1>15, <1>16, <1>17, <1>18, <1>19, <1>20, <1>21, <1>22
            DEF Next, Lifecycle, System, Rest

\* What an instance says of a child is true of it: a new one has no process and no
\* goroutine, and the one that is current runs.
LEMMA ChildStep ==
  ASSUME TypeOK, ChildInv, [Next]_vars
  PROVE  ChildInv'
  <1> USE DEF TypeOK, ChildInv
  <1>1. ASSUME StartFails PROVE ChildInv'
    BY <1>1 DEF StartFails, Rebase
  <1>2. ASSUME StopDead PROVE ChildInv'
    BY <1>2 DEF StopDead
  <1>3. ASSUME ResetCounters PROVE ChildInv'
    BY <1>3 DEF ResetCounters
  <1>4. ASSUME NEW o \in Others, Rest, Launch(o) PROVE ChildInv'
    BY <1>4 DEF Launch, Rest
  <1>5. ASSUME NEW x \in Processes, Rest, Exit(x) PROVE ChildInv'
    BY <1>5 DEF Exit, Rest
  <1>6. ASSUME NEW x \in Processes, NEW e \in Endpoints, Rest, Register(x, e)
        PROVE  ChildInv'
    BY <1>6 DEF Register, Rest
  <1>7. ASSUME NEW e \in Endpoints, Rest, Transfer(e) PROVE ChildInv'
    BY <1>7 DEF Transfer, Rest
  <1>8. ASSUME NEW p \in Procs, Start(p) PROVE ChildInv'
    BY <1>8 DEF Start, Launch, Rebase
  <1>9. ASSUME NEW p \in Procs, NEW how \in {"stopped", "error"}, ExitRecorded(p, how)
        PROVE  ChildInv'
    BY <1>9 DEF ExitRecorded
  <1>10. ASSUME NEW p \in Procs, ExitCancels(p) PROVE ChildInv'
    BY <1>10 DEF ExitCancels
  <1>11. ASSUME NEW p \in Procs, StopSignal(p) PROVE ChildInv'
    BY <1>11 DEF StopSignal
  <1>12. ASSUME NEW p \in Procs, StopCancels(p) PROVE ChildInv'
    BY <1>12 DEF StopCancels
  <1>13. ASSUME NEW p \in Procs, StopFinish(p) PROVE ChildInv'
    BY <1>13 DEF StopFinish
  <1>14. ASSUME NEW p \in Procs, NEW e \in Endpoints, Connect(p, e) PROVE ChildInv'
    BY <1>14 DEF Connect, Discovered, Expected, Reachable
  <1>15. ASSUME NEW p \in Procs, Hello(p) PROVE ChildInv'
    BY <1>15 DEF Hello
  <1>16. ASSUME NEW p \in Procs, NEW c \in Loads, Receive(p, c) PROVE ChildInv'
    BY <1>16 DEF Receive
  <1>17. ASSUME NEW p \in Procs, ReadFails(p) PROVE ChildInv'
    BY <1>17 DEF ReadFails
  <1>18. ASSUME NEW p \in Procs, Check(p) PROVE ChildInv'
    BY <1>18 DEF Check
  <1>19. ASSUME NEW p \in Procs, Apply(p) PROVE ChildInv'
    BY <1>19 DEF Apply, CounterReset, CounterValue
  <1>20. ASSUME NEW p \in Procs, Disconnect(p) PROVE ChildInv'
    BY <1>20 DEF Disconnect
  <1>21. ASSUME NEW p \in Procs, Quit(p) PROVE ChildInv'
    BY <1>21 DEF Quit
  <1>22. CASE UNCHANGED vars
    BY <1>22 DEF vars
  <1> HIDE DEF TypeOK
  <1> QED BY <1>1, <1>2, <1>3, <1>4, <1>5, <1>6, <1>7, <1>8, <1>9, <1>10, <1>11, <1>12,
            <1>13, <1>14, <1>15, <1>16, <1>17, <1>18, <1>19, <1>20, <1>21, <1>22
            DEF Next, Lifecycle, System, Rest

\* A connection is to an endpoint that has been registered, and no frame says more than
\* the endpoint has counted.
LEMMA LinkStep ==
  ASSUME TypeOK, ChildInv, LinkInv, [Next]_vars
  PROVE  LinkInv'
  <1> USE DEF TypeOK, ChildInv, LinkInv
  <1>1. ASSUME StartFails PROVE LinkInv'
    BY <1>1 DEF StartFails, Rebase
  <1>2. ASSUME StopDead PROVE LinkInv'
    BY <1>2 DEF StopDead
  <1>3. ASSUME ResetCounters PROVE LinkInv'
    BY <1>3 DEF ResetCounters
  <1>4. ASSUME NEW o \in Others, Rest, Launch(o) PROVE LinkInv'
    BY <1>4 DEF Launch, Rest
  <1>5. ASSUME NEW x \in Processes, Rest, Exit(x) PROVE LinkInv'
    BY <1>5 DEF Exit, Rest
  <1>6. ASSUME NEW x \in Processes, NEW e \in Endpoints, Rest, Register(x, e)
        PROVE  LinkInv'
    BY <1>6 DEF Register, Rest
  <1>7. ASSUME NEW e \in Endpoints, Rest, Transfer(e) PROVE LinkInv'
    <2>1. \A x \in Endpoints : sent[x] <= sent'[x]
      BY <1>7 DEF Transfer, Rest
    <2>2. \A q \in Procs : pc[q] \in {"check", "apply"} =>
                             snapshot[q].bytes \in 0..MaxBytes /\ peer[q] \in Endpoints
      BY DEF Frame
    <2> QED BY <1>7, <2>1, <2>2 DEF Transfer, Rest
  <1>8. ASSUME NEW p \in Procs, Start(p) PROVE LinkInv'
    BY <1>8 DEF Start, Launch, Rebase
  <1>9. ASSUME NEW p \in Procs, NEW how \in {"stopped", "error"}, ExitRecorded(p, how)
        PROVE  LinkInv'
    BY <1>9 DEF ExitRecorded
  <1>10. ASSUME NEW p \in Procs, ExitCancels(p) PROVE LinkInv'
    BY <1>10 DEF ExitCancels
  <1>11. ASSUME NEW p \in Procs, StopSignal(p) PROVE LinkInv'
    BY <1>11 DEF StopSignal
  <1>12. ASSUME NEW p \in Procs, StopCancels(p) PROVE LinkInv'
    BY <1>12 DEF StopCancels
  <1>13. ASSUME NEW p \in Procs, StopFinish(p) PROVE LinkInv'
    BY <1>13 DEF StopFinish
  <1>14. ASSUME NEW p \in Procs, NEW e \in Endpoints, Connect(p, e) PROVE LinkInv'
    BY <1>14 DEF Connect, Discovered, Expected, Reachable
  <1>15. ASSUME NEW p \in Procs, Hello(p) PROVE LinkInv'
    BY <1>15 DEF Hello
  <1>16. ASSUME NEW p \in Procs, NEW c \in Loads, Receive(p, c) PROVE LinkInv'
    <2>1. sent[peer[p]] \in 0..MaxBytes /\ c \in Nat
      BY <1>16 DEF Receive
    <2>2. [bytes |-> sent[peer[p]], active |-> c] \in Frame
      BY <1>16, <2>1 DEF Frame
    <2> QED BY <1>16, <2>1, <2>2 DEF Receive
  <1>17. ASSUME NEW p \in Procs, ReadFails(p) PROVE LinkInv'
    BY <1>17 DEF ReadFails
  <1>18. ASSUME NEW p \in Procs, Check(p) PROVE LinkInv'
    BY <1>18 DEF Check
  <1>19. ASSUME NEW p \in Procs, Apply(p) PROVE LinkInv'
    BY <1>19 DEF Apply, CounterReset, CounterValue
  <1>20. ASSUME NEW p \in Procs, Disconnect(p) PROVE LinkInv'
    BY <1>20 DEF Disconnect
  <1>21. ASSUME NEW p \in Procs, Quit(p) PROVE LinkInv'
    BY <1>21 DEF Quit
  <1>22. CASE UNCHANGED vars
    BY <1>22 DEF vars
  <1> HIDE DEF TypeOK
  <1> QED BY <1>1, <1>2, <1>3, <1>4, <1>5, <1>6, <1>7, <1>8, <1>9, <1>10, <1>11, <1>12,
            <1>13, <1>14, <1>15, <1>16, <1>17, <1>18, <1>19, <1>20, <1>21, <1>22
            DEF Next, Lifecycle, System, Rest

\* A PID that is still the child's is nobody else's, so what is found by it is the child's.
LEMMA OwnStep ==
  ASSUME TypeOK, ChildInv, LinkInv, OwnEndpointOnly, [Next]_vars
  PROVE  OwnEndpointOnly'
  <1> USE DEF TypeOK, ChildInv, LinkInv, OwnEndpointOnly
  <1>1. ASSUME StartFails PROVE OwnEndpointOnly'
    BY <1>1 DEF StartFails, Rebase
  <1>2. ASSUME StopDead PROVE OwnEndpointOnly'
    BY <1>2 DEF StopDead
  <1>3. ASSUME ResetCounters PROVE OwnEndpointOnly'
    BY <1>3 DEF ResetCounters
  <1>4. ASSUME NEW o \in Others, Rest, Launch(o) PROVE OwnEndpointOnly'
    BY <1>4 DEF Launch, Rest
  <1>5. ASSUME NEW x \in Processes, Rest, Exit(x) PROVE OwnEndpointOnly'
    BY <1>5 DEF Exit, Rest
  <1>6. ASSUME NEW x \in Processes, NEW e \in Endpoints, Rest, Register(x, e)
        PROVE  OwnEndpointOnly'
    BY <1>6 DEF Register, Rest
  <1>7. ASSUME NEW e \in Endpoints, Rest, Transfer(e) PROVE OwnEndpointOnly'
    BY <1>7 DEF Transfer, Rest
  <1>8. ASSUME NEW p \in Procs, Start(p) PROVE OwnEndpointOnly'
    BY <1>8 DEF Start, Launch, Rebase
  <1>9. ASSUME NEW p \in Procs, NEW how \in {"stopped", "error"}, ExitRecorded(p, how)
        PROVE  OwnEndpointOnly'
    BY <1>9 DEF ExitRecorded
  <1>10. ASSUME NEW p \in Procs, ExitCancels(p) PROVE OwnEndpointOnly'
    BY <1>10 DEF ExitCancels
  <1>11. ASSUME NEW p \in Procs, StopSignal(p) PROVE OwnEndpointOnly'
    BY <1>11 DEF StopSignal
  <1>12. ASSUME NEW p \in Procs, StopCancels(p) PROVE OwnEndpointOnly'
    BY <1>12 DEF StopCancels
  <1>13. ASSUME NEW p \in Procs, StopFinish(p) PROVE OwnEndpointOnly'
    BY <1>13 DEF StopFinish
  <1>14. ASSUME NEW p \in Procs, NEW e \in Endpoints, Connect(p, e)
         PROVE  OwnEndpointOnly'
    BY <1>14 DEF Connect, Discovered, Expected, Reachable
  <1>15. ASSUME NEW p \in Procs, Hello(p) PROVE OwnEndpointOnly'
    BY <1>15 DEF Hello
  <1>16. ASSUME NEW p \in Procs, NEW c \in Loads, Receive(p, c) PROVE OwnEndpointOnly'
    BY <1>16 DEF Receive
  <1>17. ASSUME NEW p \in Procs, ReadFails(p) PROVE OwnEndpointOnly'
    BY <1>17 DEF ReadFails
  <1>18. ASSUME NEW p \in Procs, Check(p) PROVE OwnEndpointOnly'
    BY <1>18 DEF Check
  <1>19. ASSUME NEW p \in Procs, Apply(p) PROVE OwnEndpointOnly'
    BY <1>19 DEF Apply, CounterReset, CounterValue
  <1>20. ASSUME NEW p \in Procs, Disconnect(p) PROVE OwnEndpointOnly'
    BY <1>20 DEF Disconnect
  <1>21. ASSUME NEW p \in Procs, Quit(p) PROVE OwnEndpointOnly'
    BY <1>21 DEF Quit
  <1>22. CASE UNCHANGED vars
    BY <1>22 DEF vars
  <1> HIDE DEF TypeOK
  <1> QED BY <1>1, <1>2, <1>3, <1>4, <1>5, <1>6, <1>7, <1>8, <1>9, <1>10, <1>11, <1>12,
            <1>13, <1>14, <1>15, <1>16, <1>17, <1>18, <1>19, <1>20, <1>21, <1>22
            DEF Next, Lifecycle, System, Rest

\* No snapshot is applied for a child that is not current, and whatever ends a connection
\* or a child clears the display.
LEMMA LiveStep ==
  ASSUME TypeOK, ChildInv, ActiveIsLive, [Next]_vars
  PROVE  ActiveIsLive'
  <1> USE DEF TypeOK, ChildInv, ActiveIsLive
  <1>1. ASSUME StartFails PROVE ActiveIsLive'
    BY <1>1 DEF StartFails, Rebase
  <1>2. ASSUME StopDead PROVE ActiveIsLive'
    BY <1>2 DEF StopDead
  <1>3. ASSUME ResetCounters PROVE ActiveIsLive'
    BY <1>3 DEF ResetCounters
  <1>4. ASSUME NEW o \in Others, Rest, Launch(o) PROVE ActiveIsLive'
    BY <1>4 DEF Launch, Rest
  <1>5. ASSUME NEW x \in Processes, Rest, Exit(x) PROVE ActiveIsLive'
    BY <1>5 DEF Exit, Rest
  <1>6. ASSUME NEW x \in Processes, NEW e \in Endpoints, Rest, Register(x, e)
        PROVE  ActiveIsLive'
    BY <1>6 DEF Register, Rest
  <1>7. ASSUME NEW e \in Endpoints, Rest, Transfer(e) PROVE ActiveIsLive'
    BY <1>7 DEF Transfer, Rest
  <1>8. ASSUME NEW p \in Procs, Start(p) PROVE ActiveIsLive'
    BY <1>8 DEF Start, Launch, Rebase
  <1>9. ASSUME NEW p \in Procs, NEW how \in {"stopped", "error"}, ExitRecorded(p, how)
        PROVE  ActiveIsLive'
    BY <1>9 DEF ExitRecorded
  <1>10. ASSUME NEW p \in Procs, ExitCancels(p) PROVE ActiveIsLive'
    BY <1>10 DEF ExitCancels
  <1>11. ASSUME NEW p \in Procs, StopSignal(p) PROVE ActiveIsLive'
    BY <1>11 DEF StopSignal
  <1>12. ASSUME NEW p \in Procs, StopCancels(p) PROVE ActiveIsLive'
    BY <1>12 DEF StopCancels
  <1>13. ASSUME NEW p \in Procs, StopFinish(p) PROVE ActiveIsLive'
    BY <1>13 DEF StopFinish
  <1>14. ASSUME NEW p \in Procs, NEW e \in Endpoints, Connect(p, e) PROVE ActiveIsLive'
    BY <1>14 DEF Connect, Discovered, Expected, Reachable
  <1>15. ASSUME NEW p \in Procs, Hello(p) PROVE ActiveIsLive'
    BY <1>15 DEF Hello
  <1>16. ASSUME NEW p \in Procs, NEW c \in Loads, Receive(p, c) PROVE ActiveIsLive'
    BY <1>16 DEF Receive
  <1>17. ASSUME NEW p \in Procs, ReadFails(p) PROVE ActiveIsLive'
    BY <1>17 DEF ReadFails
  <1>18. ASSUME NEW p \in Procs, Check(p) PROVE ActiveIsLive'
    BY <1>18 DEF Check
  <1>19. ASSUME NEW p \in Procs, Apply(p) PROVE ActiveIsLive'
    BY <1>19 DEF Apply, CounterReset, CounterValue
  <1>20. ASSUME NEW p \in Procs, Disconnect(p) PROVE ActiveIsLive'
    BY <1>20 DEF Disconnect
  <1>21. ASSUME NEW p \in Procs, Quit(p) PROVE ActiveIsLive'
    BY <1>21 DEF Quit
  <1>22. CASE UNCHANGED vars
    BY <1>22 DEF vars
  <1> HIDE DEF TypeOK
  <1> QED BY <1>1, <1>2, <1>3, <1>4, <1>5, <1>6, <1>7, <1>8, <1>9, <1>10, <1>11, <1>12,
            <1>13, <1>14, <1>15, <1>16, <1>17, <1>18, <1>19, <1>20, <1>21, <1>22
            DEF Next, Lifecycle, System, Rest

\* The endpoint of the first hello is the only one that is counted from, and what has been
\* applied of it is what a frame of it said.
LEMMA IdentityStep ==
  ASSUME TypeOK, ChildInv, LinkInv, IdentityInv, [Next]_vars
  PROVE  IdentityInv'
  <1> USE DEF TypeOK, ChildInv, LinkInv, IdentityInv, Expected, Frame
  <1>1. ASSUME StartFails PROVE IdentityInv'
    BY <1>1 DEF StartFails, Rebase
  <1>2. ASSUME StopDead PROVE IdentityInv'
    BY <1>2 DEF StopDead
  <1>3. ASSUME ResetCounters PROVE IdentityInv'
    BY <1>3 DEF ResetCounters
  <1>4. ASSUME NEW o \in Others, Rest, Launch(o) PROVE IdentityInv'
    BY <1>4 DEF Launch, Rest
  <1>5. ASSUME NEW x \in Processes, Rest, Exit(x) PROVE IdentityInv'
    BY <1>5 DEF Exit, Rest
  <1>6. ASSUME NEW x \in Processes, NEW e \in Endpoints, Rest, Register(x, e)
        PROVE  IdentityInv'
    BY <1>6 DEF Register, Rest
  <1>7. ASSUME NEW e \in Endpoints, Rest, Transfer(e) PROVE IdentityInv'
    BY <1>7 DEF Transfer, Rest
  <1>8. ASSUME NEW p \in Procs, Start(p) PROVE IdentityInv'
    BY <1>8 DEF Start, Launch, Rebase
  <1>9. ASSUME NEW p \in Procs, NEW how \in {"stopped", "error"}, ExitRecorded(p, how)
        PROVE  IdentityInv'
    BY <1>9 DEF ExitRecorded
  <1>10. ASSUME NEW p \in Procs, ExitCancels(p) PROVE IdentityInv'
    BY <1>10 DEF ExitCancels
  <1>11. ASSUME NEW p \in Procs, StopSignal(p) PROVE IdentityInv'
    BY <1>11 DEF StopSignal
  <1>12. ASSUME NEW p \in Procs, StopCancels(p) PROVE IdentityInv'
    BY <1>12 DEF StopCancels
  <1>13. ASSUME NEW p \in Procs, StopFinish(p) PROVE IdentityInv'
    BY <1>13 DEF StopFinish
  <1>14. ASSUME NEW p \in Procs, NEW e \in Endpoints, Connect(p, e) PROVE IdentityInv'
    BY <1>14 DEF Connect, Discovered, Expected, Reachable
  <1>15. ASSUME NEW p \in Procs, Hello(p) PROVE IdentityInv'
    BY <1>15 DEF Hello
  <1>16. ASSUME NEW p \in Procs, NEW c \in Loads, Receive(p, c) PROVE IdentityInv'
    BY <1>16 DEF Receive
  <1>17. ASSUME NEW p \in Procs, ReadFails(p) PROVE IdentityInv'
    BY <1>17 DEF ReadFails
  <1>18. ASSUME NEW p \in Procs, Check(p) PROVE IdentityInv'
    BY <1>18 DEF Check
  <1>19. ASSUME NEW p \in Procs, Apply(p) PROVE IdentityInv'
    BY <1>19 DEF Apply, CounterReset, CounterValue
  <1>20. ASSUME NEW p \in Procs, Disconnect(p) PROVE IdentityInv'
    BY <1>20 DEF Disconnect
  <1>21. ASSUME NEW p \in Procs, Quit(p) PROVE IdentityInv'
    BY <1>21 DEF Quit
  <1>22. CASE UNCHANGED vars
    BY <1>22 DEF vars
  <1> HIDE DEF TypeOK
  <1> QED BY <1>1, <1>2, <1>3, <1>4, <1>5, <1>6, <1>7, <1>8, <1>9, <1>10, <1>11, <1>12,
            <1>13, <1>14, <1>15, <1>16, <1>17, <1>18, <1>19, <1>20, <1>21, <1>22
            DEF Next, Lifecycle, System, Rest

\* Every snapshot adds what is new in it to the counter, and a reset takes back what the
\* counter shows.
LEMMA MeterStep ==
  ASSUME TypeOK, ChildInv, LinkInv, IdentityInv, MeterInv, CounterExact, [Next]_vars
  PROVE  MeterInv' /\ CounterExact'
  <1> USE DEF TypeOK, ChildInv, LinkInv, IdentityInv, MeterInv, CounterExact, Least
  <1>1. ASSUME StartFails PROVE MeterInv' /\ CounterExact'
    BY <1>1 DEF StartFails, Rebase
  <1>2. ASSUME StopDead PROVE MeterInv' /\ CounterExact'
    BY <1>2 DEF StopDead
  <1>3. ASSUME ResetCounters PROVE MeterInv' /\ CounterExact'
    <2>1. CASE spoilt'
      BY <2>1
    <2>2. CASE ~spoilt'
      <3>1. ~spoilt /\ ~(due > MaxUint)
        BY ONLY <1>3, <2>2 DEF ResetCounters
      <3>2. reset + total - base = seen
        BY <3>1
      <3>3. seen % (MaxUint + 1) = seen
        <4>1. MaxUint \in Nat /\ seen \in 0..MaxUint
          OBVIOUS
        <4> QED BY ONLY <4>1, SmallMod
      <3>4. reset' = seen
        BY <1>3, <3>2, <3>3 DEF ResetCounters
      <3> QED BY <1>3, <3>4 DEF ResetCounters
    <2> QED BY <2>1, <2>2
  <1>4. ASSUME NEW o \in Others, Rest, Launch(o) PROVE MeterInv' /\ CounterExact'
    BY <1>4 DEF Launch, Rest
  <1>5. ASSUME NEW x \in Processes, Rest, Exit(x) PROVE MeterInv' /\ CounterExact'
    BY <1>5 DEF Exit, Rest
  <1>6. ASSUME NEW x \in Processes, NEW e \in Endpoints, Rest, Register(x, e)
        PROVE  MeterInv' /\ CounterExact'
    BY <1>6 DEF Register, Rest
  <1>7. ASSUME NEW e \in Endpoints, Rest, Transfer(e) PROVE MeterInv' /\ CounterExact'
    BY <1>7 DEF Transfer, Rest
  <1>8. ASSUME NEW p \in Procs, Start(p) PROVE MeterInv' /\ CounterExact'
    BY <1>8 DEF Start, Launch, Rebase
  <1>9. ASSUME NEW p \in Procs, NEW how \in {"stopped", "error"}, ExitRecorded(p, how)
        PROVE  MeterInv' /\ CounterExact'
    BY <1>9 DEF ExitRecorded
  <1>10. ASSUME NEW p \in Procs, ExitCancels(p) PROVE MeterInv' /\ CounterExact'
    BY <1>10 DEF ExitCancels
  <1>11. ASSUME NEW p \in Procs, StopSignal(p) PROVE MeterInv' /\ CounterExact'
    BY <1>11 DEF StopSignal
  <1>12. ASSUME NEW p \in Procs, StopCancels(p) PROVE MeterInv' /\ CounterExact'
    BY <1>12 DEF StopCancels
  <1>13. ASSUME NEW p \in Procs, StopFinish(p) PROVE MeterInv' /\ CounterExact'
    BY <1>13 DEF StopFinish
  <1>14. ASSUME NEW p \in Procs, NEW e \in Endpoints, Connect(p, e)
         PROVE  MeterInv' /\ CounterExact'
    BY <1>14 DEF Connect, Discovered, Expected, Reachable
  <1>15. ASSUME NEW p \in Procs, Hello(p) PROVE MeterInv' /\ CounterExact'
    BY <1>15 DEF Hello
  <1>16. ASSUME NEW p \in Procs, NEW c \in Loads, Receive(p, c)
         PROVE  MeterInv' /\ CounterExact'
    BY <1>16 DEF Receive
  <1>17. ASSUME NEW p \in Procs, ReadFails(p) PROVE MeterInv' /\ CounterExact'
    BY <1>17 DEF ReadFails
  <1>18. ASSUME NEW p \in Procs, Check(p) PROVE MeterInv' /\ CounterExact'
    BY <1>18 DEF Check
  <1>19. ASSUME NEW p \in Procs, Apply(p) PROVE MeterInv' /\ CounterExact'
    <2> DEFINE f == snapshot[p]
    <2>1. CASE Current(p) /\ ~spoilt'
      <3>1. f.bytes \in 0..MaxBytes /\ seen <= f.bytes /\ ~spoilt
        BY <1>19, <2>1 DEF Apply, Frame
      <3>2. CounterReset(f.bytes) = reset
        BY <3>1 DEF CounterReset
      <3>3. /\ base' = base /\ reset' = reset /\ seen' = f.bytes
            /\ due' = due + (f.bytes - seen)
            /\ total' = Least(base + (f.bytes - reset), MaxUint)
        BY <1>19, <2>1, <3>2 DEF Apply, CounterValue
      <3>4. /\ base \in Nat /\ reset \in Nat /\ seen \in Nat /\ due \in Nat
            /\ f.bytes \in Nat /\ MaxUint \in Nat
        BY <3>1
      <3> HIDE DEF f
      <3> QED BY ONLY <2>1, <3>1, <3>3, <3>4, MeterInv DEF MeterInv, CounterExact, Least
    <2>2. CASE Current(p) /\ spoilt'
      BY <2>2
    <2>3. CASE ~Current(p)
      <3>1. UNCHANGED <<total, base, reset, due, seen, spoilt>>
        BY <1>19, <2>3 DEF Apply
      <3> QED BY ONLY <3>1, MeterInv, CounterExact DEF MeterInv, CounterExact
    <2> QED BY <2>1, <2>2, <2>3
  <1>20. ASSUME NEW p \in Procs, Disconnect(p) PROVE MeterInv' /\ CounterExact'
    BY <1>20 DEF Disconnect
  <1>21. ASSUME NEW p \in Procs, Quit(p) PROVE MeterInv' /\ CounterExact'
    BY <1>21 DEF Quit
  <1>22. CASE UNCHANGED vars
    BY <1>22 DEF vars
  <1> HIDE DEF TypeOK
  <1> QED BY <1>1, <1>2, <1>3, <1>4, <1>5, <1>6, <1>7, <1>8, <1>9, <1>10, <1>11, <1>12,
            <1>13, <1>14, <1>15, <1>16, <1>17, <1>18, <1>19, <1>20, <1>21, <1>22
            DEF Next, Lifecycle, System, Rest

\* The invariant of the telemetry client, which every step of the goroutines, of the
\* lifecycle, of a reset and of the processes and their endpoints preserves.
THEOREM AlwaysTelemetry == Spec => []TelemetryInv
  <1>1. TelemetryInv /\ [Next]_vars => TelemetryInv'
    BY TypeStep, ChildStep, LinkStep, OwnStep, LiveStep, IdentityStep, MeterStep
       DEF TelemetryInv
  <1> QED BY <1>1, TelemetryInitial, PTL DEF Spec

-----------------------------------------------------------------------------
(* What follows *)

\* Every variable of an instance's figures, of its children and of their connections
\* keeps its type; no counter exceeds its width.
THEOREM TypeCorrect == Spec => []TypeOK
  <1>1. TelemetryInv => TypeOK
    BY DEF TelemetryInv
  <1> QED BY <1>1, AlwaysTelemetry, PTL

\* TCPRX and its like are what the endpoints of all children have counted since the last
\* reset, up to the greatest value of the counter.
THEOREM NoByteTwiceNoneMissed == Spec => []CounterExact
  <1>1. TelemetryInv => CounterExact
    BY DEF TelemetryInv
  <1> QED BY <1>1, AlwaysTelemetry, PTL

\* TCPS and its like are zero unless a child is current, or being stopped, whose goroutine
\* is connected.
THEOREM NoStaleConnections == Spec => []ActiveIsLive
  <1>1. TelemetryInv => ActiveIsLive
    BY DEF TelemetryInv
  <1> QED BY <1>1, AlwaysTelemetry, PTL

\* runTelemetry of a child that exists is connected to an endpoint of that child or to none.
THEOREM NobodyElsesEndpoint == Spec => []OwnEndpointOnly
  <1>1. TelemetryInv => OwnEndpointOnly
    BY DEF TelemetryInv
  <1> QED BY <1>1, AlwaysTelemetry, PTL
=============================================================================
