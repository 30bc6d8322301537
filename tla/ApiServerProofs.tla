--------------------------- MODULE ApiServerProofs ---------------------------
(***************************************************************************)
(* The safety properties of ApiServer and of CertReload, of which it is    *)
(* made, for every number of connections, aliases and ping slots, every    *)
(* interval between two loads, and every length of time.                   *)
(***************************************************************************)
EXTENDS ApiServer, FiniteSetTheorems, TLAPS

-----------------------------------------------------------------------------
(* CertReload: every step, whatever happens on the connections *)

\* The certificate loaded at the start counts as the first attempt.
LEMMA TlsInitial == TlsInit => TlsInv
  BY IntervalAssumption, NoConnAssumption
     DEF TlsInit, TlsInv, TlsTypeOK, LoaderInv, LoadedInv, YoungInv, ReloadsApart

\* The clock and whoever renews the files leave the locks and the attempts alone.
LEMMA WorldReloads == ASSUME TlsInv, Tick \/ RotateCrt \/ RotateKey PROVE TlsInv'
  <1> USE IntervalAssumption, NoConnAssumption
      DEF TlsInv, TlsTypeOK, LoaderInv, LoadedInv, YoungInv, ReloadsApart
  <1>1. CASE Tick
    BY <1>1 DEF Tick
  <1>2. CASE RotateCrt
    BY <1>2 DEF RotateCrt
  <1>3. CASE RotateKey
    BY <1>3 DEF RotateKey
  <1> QED BY <1>1, <1>2, <1>3

\* Nor does a handshake, which loads only under the lock and when the last attempt is old.
LEMMA ConnReloads ==
  ASSUME TlsInv, NEW c \in Conns,
         \/ Hello(c) \/ Handshake(c)
         \/ handshake[c] = "done" /\ Forget(c)
  PROVE  TlsInv'
  <1> USE IntervalAssumption, NoConnAssumption
      DEF TlsInv, TlsTypeOK, LoaderInv, LoadedInv, YoungInv, ReloadsApart, At, Expired
  <1>1. CASE Hello(c)
    BY <1>1 DEF Hello
  <1>2. CASE CheckAge(c)
    BY <1>2 DEF CheckAge
  <1>3. CASE LockAndCheck(c)
    BY <1>3 DEF LockAndCheck
  <1>4. CASE LoadCrt(c)
    BY <1>4 DEF LoadCrt
  <1>5. CASE LoadKey(c)
    BY <1>5 DEF LoadKey
  <1>6. CASE Take(c)
    BY <1>6 DEF Take
  <1>7. CASE handshake[c] = "done" /\ Forget(c)
    BY <1>7 DEF Forget
  <1> QED BY <1>1, <1>2, <1>3, <1>4, <1>5, <1>6, <1>7 DEF Handshake

\* What does not touch the certificate keeps what is known of it.
LEMMA TlsUntouched == TlsInv /\ UNCHANGED tlsVars => TlsInv'
  BY DEF tlsVars, TlsInv, TlsTypeOK, LoaderInv, LoadedInv, YoungInv, ReloadsApart

-----------------------------------------------------------------------------
(* ApiServer: the certificate *)

USE DEF Stage, requestVars, streamVars

\* Before the first connection nothing is taken, open or ending.
LEMMA ServerInitial == Init => ServerInv
  <1> SUFFICES ASSUME Init PROVE ServerInv
    OBVIOUS
  <1>1. TlsInv
    BY TlsInitial DEF Init
  <1>2. TypeOK
    BY <1>1, SlotsAssumption DEF Init, TypeOK, TlsInv
  <1>3. StageInv /\ StreamInv /\ NobodyForgotten
    BY DEF Init, TlsInit, StageInv, StreamInv, NobodyForgotten
  <1>4. {c \in Conns : stage[c] = "dial"} = {}
    BY DEF Init
  <1>5. DialInv
    BY <1>4, FS_EmptySet DEF Init, DialInv, SlotsAccounted
  <1> QED BY <1>1, <1>2, <1>3, <1>5 DEF ServerInv

\* What a step of ApiServer does to the certificate is a step of CertReload.
LEMMA ServerReloads == ASSUME ServerInv, [Next]_vars PROVE TlsInv'
  <1> USE DEF ServerInv
  <1>1. ASSUME NEW c \in Conns, Connection(c) PROVE TlsInv'
    <2>1. CASE Accept(c)
      BY <2>1, ConnReloads DEF Accept
    <2>2. CASE Greet(c)
      BY <2>2, ConnReloads DEF Greet
    <2>3. CASE CloseIdle(c)
      <3>1. handshake[c] = "done" /\ Forget(c)
        BY <2>3 DEF CloseIdle, StageInv
      <3> QED BY <3>1, ConnReloads
    <2>4. CASE Reply(c)
      <3>1. \/ handshake[c] = "done" /\ Forget(c)
            \/ UNCHANGED tlsVars
        BY <2>4 DEF Reply, StageInv
      <3> QED BY <3>1, ConnReloads, TlsUntouched
    <2>5. CASE \/ RecordAlias(c) \/ TakeSlot(c) \/ PingTimeout(c) \/ Dialled(c) \/ Answer(c)
               \/ Ping(c) \/ OpenStream(c) \/ EndStream(c) \/ \E a \in Aliases : SetAlias(c, a)
      BY <2>5, TlsUntouched
         DEF RecordAlias, TakeSlot, PingTimeout, Dialled, Answer, Ping, OpenStream, EndStream,
             SetAlias
    <2> QED BY <1>1, <2>1, <2>2, <2>3, <2>4, <2>5 DEF Connection, Serve
  <1>2. CASE World
    BY <1>2, WorldReloads DEF World
  <1>3. CASE \/ \E c \in Conns : Tell(c)
             \/ Terminate \/ ChildrenStopped \/ Saved \/ CloseServer \/ Finish \/ Deadline
    BY <1>3, TlsUntouched
       DEF Tell, Terminate, ChildrenStopped, Saved, CloseServer, Finish, Deadline
  <1>4. CASE UNCHANGED vars
    BY <1>4, TlsUntouched DEF vars
  <1> QED BY <1>1, <1>2, <1>3, <1>4 DEF Next

-----------------------------------------------------------------------------
(* ApiServer: connections, slots and streams *)

\* A connection that goes to or from "dial" changes the number of those who dial by one.
LEMMA DialCount ==
  ASSUME DialInv, TypeOK, NEW c \in Conns, NEW place,
         stage' = [stage EXCEPT ![c] = place],
         \/ place = "dial" /\ stage[c] # "dial" /\ slots' = slots + 1
         \/ place # "dial" /\ stage[c] = "dial" /\ slots' = slots - 1
         \/ place # "dial" /\ stage[c] # "dial" /\ slots' = slots
  PROVE  DialInv'
  <1> DEFINE D == {x \in Conns : stage[x] = "dial"}
  <1> USE DEF DialInv, SlotsAccounted
  <1>1. stage \in [Conns -> {"closed", "handshake", "idle", "record", "wait", "dial", "stream", "reply"}]
        /\ IsFiniteSet(D) /\ slots = Cardinality(D) /\ slots \in Nat
    BY SlotsAssumption DEF TypeOK
  <1>2. D' = IF place = "dial" THEN D \cup {c} ELSE D \ {c}
    BY <1>1
  <1>3. c \in D <=> stage[c] = "dial"
    OBVIOUS
  <1> HIDE DEF D
  <1>4. CASE place = "dial"
    <2>1. D' = D \cup {c}
      BY <1>2, <1>4
    <2>2. IsFiniteSet(D') /\ Cardinality(D') = IF c \in D THEN Cardinality(D) ELSE Cardinality(D) + 1
      BY <2>1, <1>1, FS_AddElement
    <2>3. slots' = Cardinality(D')
      BY <1>1, <1>3, <1>4, <2>2
    <2> QED BY <2>2, <2>3 DEF D
  <1>5. CASE place # "dial"
    <2>1. D' = D \ {c}
      BY <1>2, <1>5
    <2>2. IsFiniteSet(D') /\ Cardinality(D') = IF c \in D THEN Cardinality(D) - 1 ELSE Cardinality(D)
      BY <2>1, <1>1, FS_RemoveElement
    <2>3. slots' = Cardinality(D')
      BY <1>1, <1>3, <1>5, <2>2
    <2> QED BY <2>2, <2>3 DEF D
  <1> QED BY <1>4, <1>5

\* The slots stay accounted for when neither a slot nor a connection's stage changes.
LEMMA DialUntouched == DialInv /\ UNCHANGED <<stage, slots>> => DialInv'
  BY DEF DialInv, SlotsAccounted

\* Everything but the certificate and the count of slots.
Rest == TypeOK /\ StageInv /\ StreamInv /\ NobodyForgotten

\* The steps of a connection keep all but the slots (GetCertificate, the handlers).
LEMMA ConnRest == ASSUME ServerInv, NEW c \in Conns, Connection(c) PROVE Rest'
  <1> USE DEF ServerInv, Rest, StageInv, StreamInv, NobodyForgotten
  <1>0. TlsInv'
    BY ServerReloads DEF Next
  <1>a. TlsTypeOK'
    BY <1>0 DEF TlsInv
  <1> USE <1>a DEF TypeOK
  <1>1. CASE Accept(c)
    BY <1>1 DEF Accept, Hello, At, TlsInv, TlsTypeOK
  <1>2. CASE Greet(c)
    <2>1. \E place \in {"lock", "take", "load", "match", "done"} :
            handshake' = [handshake EXCEPT ![c] = place]
      BY <1>2 DEF Greet, Handshake, CheckAge, LockAndCheck, LoadCrt, LoadKey, Take, At
    <2> QED BY <1>2, <2>1 DEF Greet, TlsInv, TlsTypeOK
  <1>3. CASE CloseIdle(c)
    BY <1>3 DEF CloseIdle, Forget, At, TlsInv, TlsTypeOK
  <1>4. CASE Reply(c)
    BY <1>4 DEF Reply, Forget, At, TlsInv, TlsTypeOK, tlsVars
  <1>5. CASE RecordAlias(c)
    BY <1>5 DEF RecordAlias, tlsVars
  <1>6. CASE TakeSlot(c)
    BY <1>6, SlotsAssumption DEF TakeSlot, tlsVars
  <1>7. CASE PingTimeout(c) \/ Answer(c) \/ Ping(c)
    BY <1>7 DEF PingTimeout, Answer, Ping, tlsVars
  <1>8. CASE Dialled(c)
    <2>1. DialInv'
      BY <1>8, DialCount DEF Dialled
    <2>2. slots' \in 0..PingSlots
      BY <1>8, <2>1, FS_CardinalityType, SlotsAssumption DEF Dialled, DialInv, SlotsAccounted
    <2> QED BY <1>8, <2>2 DEF Dialled, tlsVars
  <1>9. CASE OpenStream(c)
    BY <1>9 DEF OpenStream, tlsVars
  <1>10. CASE EndStream(c)
    BY <1>10 DEF EndStream, tlsVars
  <1>11. ASSUME NEW a \in Aliases, SetAlias(c, a) PROVE Rest'
    BY <1>11 DEF SetAlias, tlsVars
  <1> QED BY <1>1, <1>2, <1>3, <1>4, <1>5, <1>6, <1>7, <1>8, <1>9, <1>10, <1>11
          DEF Connection, Serve

\* The steps of the shutdown keep all but the slots.
LEMMA ShutdownRest ==
  ASSUME ServerInv,
         \/ \E c \in Conns : Tell(c)
         \/ Terminate \/ ChildrenStopped \/ Saved \/ CloseServer \/ Finish \/ Deadline
  PROVE  Rest'
  <1> USE DEF ServerInv, Rest, TypeOK, TlsTypeOK, StageInv, StreamInv, NobodyForgotten, tlsVars
  <1>1. ASSUME NEW c \in Conns, Tell(c) PROVE Rest'
    BY <1>1 DEF Tell
  <1>2. CASE Saved
    BY <1>2 DEF Saved
  <1>3. CASE CloseServer
    BY <1>3 DEF CloseServer
  <1>4. CASE Terminate \/ ChildrenStopped \/ Finish \/ Deadline
    BY <1>4 DEF Terminate, ChildrenStopped, Finish, Deadline
  <1> QED BY <1>1, <1>2, <1>3, <1>4

\* Every step accounts for the slots it takes or gives back (handleTCPPing).
LEMMA NextDial == ASSUME ServerInv, Next PROVE DialInv'
  <1> USE DEF ServerInv, TypeOK
  <1>1. ASSUME NEW c \in Conns, Connection(c) PROVE DialInv'
    <2>1. ASSUME NEW place, Stage(c, place), UNCHANGED slots,
                 place # "dial", stage[c] # "dial"
          PROVE  DialInv'
      BY <2>1, DialCount, SlotsAssumption
    <2>2. CASE Accept(c) \/ Greet(c) \/ CloseIdle(c) \/ Reply(c)
      BY <2>1, <2>2 DEF Accept, Greet, CloseIdle, Reply
    <2>3. CASE \/ RecordAlias(c) \/ PingTimeout(c) \/ Answer(c) \/ Ping(c)
               \/ OpenStream(c) \/ EndStream(c) \/ \E a \in Aliases : SetAlias(c, a)
      BY <2>1, <2>3 DEF RecordAlias, PingTimeout, Answer, Ping, OpenStream, EndStream, SetAlias
    <2>4. CASE TakeSlot(c)
      BY <2>4, DialCount, SlotsAssumption DEF TakeSlot
    <2>5. CASE Dialled(c)
      BY <2>5, DialCount, SlotsAssumption DEF Dialled
    <2> QED BY <1>1, <2>2, <2>3, <2>4, <2>5 DEF Connection, Serve
  <1>2. CASE World
    BY <1>2, DialUntouched DEF World
  <1>3. CASE \/ \E c \in Conns : Tell(c)
             \/ Terminate \/ ChildrenStopped \/ Saved \/ CloseServer \/ Finish \/ Deadline
    BY <1>3, DialUntouched
       DEF Tell, Terminate, ChildrenStopped, Saved, CloseServer, Finish, Deadline
  <1> QED BY <1>1, <1>2, <1>3 DEF Next

\* Every step keeps the invariant.
LEMMA ServerStep == ServerInv /\ [Next]_vars => ServerInv'
  <1> SUFFICES ASSUME ServerInv, [Next]_vars PROVE ServerInv'
    OBVIOUS
  <1>1. CASE Next
    <2>1. CASE World
      <3>1. handshake' = handshake /\ TlsTypeOK'
        BY <2>1, ServerReloads DEF World, Tick, RotateCrt, RotateKey, TlsInv
      <3> QED BY <1>1, <2>1, <3>1, ServerReloads, NextDial
              DEF World, ServerInv, TypeOK, StageInv, StreamInv, NobodyForgotten
    <2>2. CASE ~World
      BY <1>1, <2>2, ConnRest, ShutdownRest, NextDial, ServerReloads DEF Next, Rest, ServerInv
    <2> QED BY <2>1, <2>2
  <1>2. CASE UNCHANGED vars
    BY <1>2, ServerReloads, DialUntouched
       DEF vars, tlsVars, ServerInv, TypeOK, TlsTypeOK, StageInv, StreamInv, NobodyForgotten
  <1> QED BY <1>1, <1>2

\* The invariant of the server and of its certificate, which every step of net/http, of
\* the handlers and of the shutdown preserves.
THEOREM AlwaysServer == Spec => []ServerInv
  BY ServerInitial, ServerStep, PTL DEF Spec

-----------------------------------------------------------------------------
(* What follows *)

\* Every variable of the server and of its certificate keeps its type: in particular,
\* no more than PingSlots slots are taken.
THEOREM TypeCorrect == Spec => []TypeOK
  <1>1. ServerInv => TypeOK
    BY DEF ServerInv
  <1> QED BY <1>1, AlwaysServer, PTL

\* GetCertificate loads the files at most once in an interval, however many handshakes
\* find the certificate old and whether or not the last load succeeded.
THEOREM LoadedOncePerInterval == Spec => []ReloadsApart
  <1>1. ServerInv => ReloadsApart
    BY DEF ServerInv, TlsInv
  <1> QED BY <1>1, AlwaysServer, PTL

\* handleTCPPing takes a slot for as long as it dials, on every path.
THEOREM SlotsNeverLost == Spec => []SlotsAccounted
  <1>1. ServerInv => SlotsAccounted
    BY DEF ServerInv, DialInv
  <1> QED BY <1>1, AlwaysServer, PTL

\* shutdownSSEConnections reaches every stream that was open when it began before the
\* server begins to close, whatever opens and ends meanwhile.
THEOREM EveryStreamTold == Spec => []NobodyForgotten
  <1>1. ServerInv => NobodyForgotten
    BY DEF ServerInv
  <1> QED BY <1>1, AlwaysServer, PTL

\* A renewed pair of files that has been in place for an interval when a handshake begins
\* is the certificate that GetCertificate answers with.
THEOREM RotationAlwaysServed == Spec => RotationServed
  <1>1. ServerInv /\ [Next]_vars =>
          [\A c \in Conns : /\ handshake[c] = "take" /\ handshake'[c] = "done"
                            /\ crt = key
                            /\ settled + Interval <= began[c]
                            => cached = crt]_tlsVars
    <2> SUFFICES ASSUME ServerInv, [Next]_vars, NEW c \in Conns,
                        handshake[c] = "take", handshake'[c] = "done",
                        crt = key, settled + Interval <= began[c]
                 PROVE  cached = crt
      OBVIOUS
    <2>1. settled < lastReload
      BY IntervalAssumption DEF ServerInv, TlsInv, TlsTypeOK, YoungInv
    <2> QED BY <2>1 DEF ServerInv, TlsInv, LoadedInv
  <1> QED BY <1>1, AlwaysServer, PTL DEF Spec, RotationServed
=============================================================================
