-------------------------- MODULE StateStoreProofs --------------------------
(***************************************************************************)
(* The safety properties of StateStore, for any sets of instances and of   *)
(* saves under way, and any number of changes, failures and crashes.       *)
(***************************************************************************)
EXTENDS StateStore, TLAPS

-----------------------------------------------------------------------------
(* What the savers are doing; the set of all places stays a set here *)

Placed == saver \in [AllSavers -> Place]

\* A saver that does nothing and a map with nothing in it.
LEMMA IdlePlace == Idle \in Place /\ Nothing \in [Records -> Never..Gone]
  <1>1. Nothing \in [Records -> Never..Gone]
    BY VersionAssumption DEF Nothing, Never, Gone
  <1> QED BY <1>1 DEF Idle, Place

\* A save that takes stateMu is where a save can be (Placed).
LEMMA PlaceCopy == ASSUME Placed, NEW s \in AllSavers, LockState(s) PROVE Placed'
  BY DEF Placed, LockState, Place

\* So is one that has copied a record.
LEMMA PlaceCopied ==
  ASSUME Placed, map \in [Records -> Never..Gone],
         NEW s \in AllSavers, NEW r \in Records, CopyRecord(s, r)
  PROVE  Placed'
  <1> DEFINE next == [saver[s] EXCEPT !.todo = @ \ {r}, !.copy[r] = map[r]]
  <1>1. next \in Place
    BY DEF Placed, Place
  <1>2. saver' = [saver EXCEPT ![s] = next]
    BY DEF Placed, CopyRecord, Place
  <1> QED BY <1>1, <1>2 DEF Placed

\* So is one that has ended.
LEMMA PlaceIdle == ASSUME Placed, NEW s \in AllSavers, Unlock(s) PROVE Placed'
  BY IdlePlace DEF Placed, Unlock

\* So is one that has been asked for.
LEMMA PlaceWait ==
  ASSUME Placed, NEW s \in AllSavers, NEW t \in {"state", "backup"}, AskSave(s, t)
  PROVE  Placed'
  <1>1. [Idle EXCEPT !.pc = "wait", !.target = t] \in Place
    BY IdlePlace DEF Place
  <1> QED BY <1>1 DEF Placed, AskSave

\* So are all when the process is gone.
LEMMA PlaceVanish == Vanish => Placed'
  BY IdlePlace DEF Placed, Vanish

-----------------------------------------------------------------------------
(* The parts of the invariant, step by step *)

USE VersionAssumption, BoundAssumption, SaverAssumption
    DEF Records, AllSavers, Never, Gone, Exists, Nothing, Idle, Open, Running, Quiet, saveVars, histVars

\* A map of instances is never taken for a file that cannot be decoded.
LEMMA JunkDiffers == ASSUME NEW f \in [Records -> Never..Gone] PROVE f # Junk
  <1>1. f[Key] # Junk[Key]
    BY DEF Junk
  <1> QED BY <1>1

\* There is no file at first and nothing to be saved.
LEMMA StoreInitial == Init => StoreInv
  <1> SUFFICES ASSUME Init PROVE StoreInv
    OBVIOUS
  <1>1. TypeOK
    <2>1. saver \in [AllSavers -> Place]
      BY IdlePlace DEF Init
    <2>2. file \in [Records -> Never..Gone] \cup {Junk} /\ made \in [Records -> Never..Gone]
      BY DEF Init
    <2>3. map \in [Records -> Never..Gone] /\ read \in [Records -> Never..Gone]
      BY IdlePlace DEF Init
    <2>4. crashes \in 0..MaxCrashes /\ failures \in 0..MaxFailures
      BY DEF Init
    <2> QED BY <2>1, <2>2, <2>3, <2>4 DEF Init, TypeOK
  <1>2. OrderInv /\ LoadInv
    BY DEF Init, OrderInv, LoadInv
  <1>3. LockInv /\ CopyInv /\ CatchUpInv /\ CleanInv
    BY DEF Init, LockInv, CopyInv, CatchUpInv, CleanInv
  <1> QED BY <1>1, <1>2, <1>3 DEF StoreInv

\* stateMu has one holder, the saver that is copying, and Main saves only when it starts
\* and when it shuts down.
LEMMA TypeStep ==
  ASSUME TypeOK, LockInv, LoadInv, [Next]_vars
  PROVE  TypeOK' /\ LockInv'
  <1> USE JunkDiffers DEF TypeOK, LockInv
  <1>1. ASSUME NEW s \in AllSavers, phase # "ended", LockState(s)
        PROVE  TypeOK' /\ LockInv'
    <2>1. Placed'
      BY <1>1, PlaceCopy DEF Placed, LockState
    <2> QED BY <1>1, <2>1 DEF Placed, LockState
  <1>2. ASSUME NEW s \in AllSavers, NEW r \in Records, phase # "ended", CopyRecord(s, r)
        PROVE  TypeOK' /\ LockInv'
    <2>1. Placed'
      BY <1>2, PlaceCopied DEF Placed, CopyRecord
    <2> QED BY <1>2, <2>1 DEF Placed, CopyRecord
  <1>3. ASSUME NEW s \in AllSavers, phase # "ended", ReplaceFile(s)
        PROVE  TypeOK' /\ LockInv'
    <2>1. Placed'
      BY <1>3, PlaceIdle DEF Placed, ReplaceFile
    <2>2. saver[s].copy \in [Records -> Never..Gone]
      BY DEF Place
    <2> QED BY <1>3, <2>1, <2>2 DEF Placed, ReplaceFile, Unlock
  <1>4. ASSUME NEW s \in AllSavers, phase # "ended", SaveFails(s)
        PROVE  TypeOK' /\ LockInv'
    <2>1. Placed'
      BY <1>4, PlaceIdle DEF Placed, SaveFails
    <2> QED BY <1>4, <2>1 DEF Placed, SaveFails, Unlock
  <1>5. ASSUME Boot PROVE TypeOK' /\ LockInv'
    BY <1>5 DEF Boot
  <1>6. ASSUME NEW r \in Records, LoadRecord(r) PROVE TypeOK' /\ LockInv'
    BY <1>6 DEF LoadRecord
  <1>7. ASSUME MakeKey PROVE TypeOK' /\ LockInv'
    <2>1. Placed'
      BY <1>7, PlaceWait DEF Placed, MakeKey
    <2> QED BY <1>7, <2>1 DEF Placed, MakeKey, AskSave
  <1>8. ASSUME Serve PROVE TypeOK' /\ LockInv'
    BY <1>8 DEF Serve
  <1>9. ASSUME NEW s \in Savers, NEW r \in Records, CreateRecord(s, r)
        PROVE  TypeOK' /\ LockInv'
    <2>1. Placed'
      BY <1>9, PlaceWait DEF Placed, CreateRecord
    <2> QED BY <1>9, <2>1 DEF Placed, CreateRecord, AskSave, Note
  <1>10. ASSUME NEW s \in Savers, NEW r \in Records, ChangeRecord(s, r)
         PROVE  TypeOK' /\ LockInv'
    <2>1. Placed'
      BY <1>10, PlaceWait DEF Placed, ChangeRecord
    <2> QED BY <1>10, <2>1 DEF Placed, ChangeRecord, AskSave, Note
  <1>11. ASSUME NEW s \in Savers, NEW r \in Records, DeleteRecord(s, r)
         PROVE  TypeOK' /\ LockInv'
    <2>1. Placed'
      BY <1>11, PlaceWait DEF Placed, DeleteRecord
    <2> QED BY <1>11, <2>1 DEF Placed, DeleteRecord, AskSave, Note
  <1>12. ASSUME NEW s \in Savers, ChildSave(s) PROVE TypeOK' /\ LockInv'
    <2>1. Placed'
      BY <1>12, PlaceWait DEF Placed, ChildSave
    <2> QED BY <1>12, <2>1 DEF Placed, ChildSave, AskSave
  <1>13. ASSUME NEW s \in Savers, BackUp(s) PROVE TypeOK' /\ LockInv'
    <2>1. Placed'
      BY <1>13, PlaceWait DEF Placed, BackUp
    <2> QED BY <1>13, <2>1 DEF Placed, BackUp, AskSave
  <1>14. ASSUME Terminate PROVE TypeOK' /\ LockInv'
    BY <1>14 DEF Terminate
  <1>15. ASSUME ShutdownSave PROVE TypeOK' /\ LockInv'
    <2>1. Placed'
      BY <1>15, PlaceWait DEF Placed, ShutdownSave
    <2> QED BY <1>15, <2>1 DEF Placed, ShutdownSave, AskSave
  <1>16. ASSUME End PROVE TypeOK' /\ LockInv'
    BY <1>16 DEF End
  <1>17. ASSUME NEW r \in Ids, ChangeUnsaved(r) PROVE TypeOK' /\ LockInv'
    BY <1>17 DEF ChangeUnsaved, Note
  <1>18. ASSUME Vanish PROVE TypeOK' /\ LockInv'
    <2>1. Placed'
      BY <1>18, PlaceVanish DEF Placed, Vanish
    <2>2. /\ map' \in [Records -> Never..Gone]
          /\ read' \in [Records -> Never..Gone]
          /\ crashes' \in 0..MaxCrashes
      BY <1>18 DEF Vanish
    <2> QED BY <1>18, <2>1, <2>2 DEF Placed, Vanish
  <1>19. CASE UNCHANGED vars
    BY <1>19 DEF vars
  <1> QED BY <1>1, <1>2, <1>3, <1>4, <1>5, <1>6, <1>7, <1>8, <1>9, <1>10, <1>11, <1>12,
            <1>13, <1>14, <1>15, <1>16, <1>17, <1>18, <1>19
            DEF Next, Start, Work, Save

\* No version goes back: file, copy under way, map and last version made are in order.
LEMMA OrderStep ==
  ASSUME TypeOK, LockInv, OrderInv, LoadInv, CopyInv, [Next]_vars
  PROVE  OrderInv' /\ LoadInv' /\ CopyInv'
  <1> USE JunkDiffers DEF TypeOK, LockInv, OrderInv, LoadInv, CopyInv, Copied, Place
  <1>1. ASSUME NEW s \in AllSavers, phase # "ended", LockState(s)
        PROVE  OrderInv' /\ LoadInv' /\ CopyInv'
    BY <1>1 DEF LockState
  <1>2. ASSUME NEW s \in AllSavers, NEW r \in Records, phase # "ended", CopyRecord(s, r)
        PROVE  OrderInv' /\ LoadInv' /\ CopyInv'
    BY <1>2 DEF CopyRecord
  <1>3. ASSUME NEW s \in AllSavers, phase # "ended", ReplaceFile(s)
        PROVE  OrderInv' /\ LoadInv' /\ CopyInv'
    <2>1. saver[s].copy \in [Records -> Never..Gone]
      OBVIOUS
    <2>2. CASE saver[s].target = "state"
      <3>1. OrderInv'
        BY <1>3, <2>1, <2>2 DEF ReplaceFile, Unlock
      <3>2. LoadInv'
        BY <1>3, <2>1, <2>2 DEF ReplaceFile, Unlock
      <3>3. CopyInv'
        BY <1>3, <2>1, <2>2 DEF ReplaceFile, Unlock
      <3> QED BY <3>1, <3>2, <3>3
    <2>3. CASE saver[s].target # "state"
      BY <1>3, <2>3 DEF ReplaceFile, Unlock
    <2> QED BY <2>2, <2>3
  <1>4. ASSUME NEW s \in AllSavers, phase # "ended", SaveFails(s)
        PROVE  OrderInv' /\ LoadInv' /\ CopyInv'
    BY <1>4 DEF SaveFails, Unlock
  <1>5. ASSUME Boot PROVE OrderInv' /\ LoadInv' /\ CopyInv'
    BY <1>5 DEF Boot
  <1>6. ASSUME NEW r \in Records, LoadRecord(r) PROVE OrderInv' /\ LoadInv' /\ CopyInv'
    BY <1>6 DEF LoadRecord
  <1>7. ASSUME MakeKey PROVE OrderInv' /\ LoadInv' /\ CopyInv'
    BY <1>7 DEF MakeKey, AskSave
  <1>8. ASSUME Serve PROVE OrderInv' /\ LoadInv' /\ CopyInv'
    BY <1>8 DEF Serve
  <1>9. ASSUME NEW s \in Savers, NEW r \in Records, CreateRecord(s, r)
        PROVE  OrderInv' /\ LoadInv' /\ CopyInv'
    BY <1>9 DEF CreateRecord, AskSave, Note
  <1>10. ASSUME NEW s \in Savers, NEW r \in Records, ChangeRecord(s, r)
         PROVE  OrderInv' /\ LoadInv' /\ CopyInv'
    BY <1>10 DEF ChangeRecord, AskSave, Note
  <1>11. ASSUME NEW s \in Savers, NEW r \in Records, DeleteRecord(s, r)
         PROVE  OrderInv' /\ LoadInv' /\ CopyInv'
    BY <1>11 DEF DeleteRecord, AskSave, Note
  <1>12. ASSUME NEW s \in Savers, ChildSave(s) PROVE OrderInv' /\ LoadInv' /\ CopyInv'
    BY <1>12 DEF ChildSave, AskSave
  <1>13. ASSUME NEW s \in Savers, BackUp(s) PROVE OrderInv' /\ LoadInv' /\ CopyInv'
    BY <1>13 DEF BackUp, AskSave
  <1>14. ASSUME Terminate PROVE OrderInv' /\ LoadInv' /\ CopyInv'
    BY <1>14 DEF Terminate
  <1>15. ASSUME ShutdownSave PROVE OrderInv' /\ LoadInv' /\ CopyInv'
    BY <1>15 DEF ShutdownSave, AskSave
  <1>16. ASSUME End PROVE OrderInv' /\ LoadInv' /\ CopyInv'
    BY <1>16 DEF End
  <1>17. ASSUME NEW r \in Ids, ChangeUnsaved(r) PROVE OrderInv' /\ LoadInv' /\ CopyInv'
    BY <1>17 DEF ChangeUnsaved, Note
  <1>18. ASSUME Vanish PROVE OrderInv' /\ LoadInv' /\ CopyInv'
    BY <1>18 DEF Vanish
  <1>19. CASE UNCHANGED vars
    BY <1>19 DEF vars
  <1> QED BY <1>1, <1>2, <1>3, <1>4, <1>5, <1>6, <1>7, <1>8, <1>9, <1>10, <1>11, <1>12,
            <1>13, <1>14, <1>15, <1>16, <1>17, <1>18, <1>19
            DEF Next, Start, Work, Save

\* What a save under way has missed of what is owed is for another save, which is waiting.
LEMMA CleanStep ==
  ASSUME TypeOK, LockInv, OrderInv, LoadInv, CopyInv, CatchUpInv, CleanInv, [Next]_vars
  PROVE  CatchUpInv' /\ CleanInv'
  <1> USE JunkDiffers DEF TypeOK, LockInv, OrderInv, LoadInv, CatchUpInv, CleanInv,
             Copied, UpToDate, Waiting, Active, Place
  <1>1. ASSUME NEW s \in AllSavers, phase # "ended", LockState(s)
        PROVE  CatchUpInv' /\ CleanInv'
    BY <1>1 DEF LockState
  <1>2. ASSUME NEW s \in AllSavers, NEW r \in Records, phase # "ended", CopyRecord(s, r)
        PROVE  CatchUpInv' /\ CleanInv'
    <2>1. CatchUpInv'
      BY <1>2 DEF CopyRecord
    <2>2. CleanInv'
      BY <1>2 DEF CopyRecord
    <2> QED BY <2>1, <2>2
  <1>3. ASSUME NEW s \in AllSavers, phase # "ended", ReplaceFile(s)
        PROVE  CatchUpInv' /\ CleanInv'
    <2>1. /\ saver[s].pc = "copy" /\ Copied(s) = Records
          /\ saver[s].copy \in [Records -> Never..Gone]
          /\ saver' = [saver EXCEPT ![s] = Idle]
          /\ UNCHANGED <<map, phase, owed, late>>
      BY <1>3 DEF ReplaceFile, Unlock
    <2>2. CatchUpInv'
      <3>1. Waiting => Waiting'
        BY <2>1
      <3>2. Waiting' \/ \A x \in AllSavers : saver'[x].pc = "copy" =>
                          \A r \in Copied(x)' : owed'[r] <= saver'[x].copy[r]
        BY <2>1, <3>1
      <3>3. Waiting' => Active'
        OBVIOUS
      <3>4. CASE saver[s].target = "state"
        <4>1. file' = saver[s].copy /\ file' # Junk
          BY <1>3, <2>1, <3>4 DEF ReplaceFile
        <4>2. \A r \in Records : file'[r] <= map[r]
          BY <2>1, <4>1 DEF CopyInv
        <4>3. ~Waiting => \A r \in Records : owed[r] <= file'[r]
          BY <2>1, <4>1
        <4> QED BY <2>1, <3>1, <3>2, <3>3, <4>1, <4>2, <4>3
      <3>5. CASE saver[s].target # "state"
        <4>1. UNCHANGED <<file, lastSave>> /\ (Active => Active')
          BY <1>3, <2>1, <3>5 DEF ReplaceFile
        <4> QED BY <2>1, <3>2, <4>1
      <3> QED BY <3>4, <3>5
    <2>3. CleanInv'
      BY <1>3, <2>1 DEF ReplaceFile, Unlock
    <2> QED BY <2>2, <2>3
  <1>4. ASSUME NEW s \in AllSavers, phase # "ended", SaveFails(s)
        PROVE  CatchUpInv' /\ CleanInv'
    BY <1>4 DEF SaveFails, Unlock
  <1>5. ASSUME Boot PROVE CatchUpInv' /\ CleanInv'
    BY <1>5 DEF Boot
  <1>6. ASSUME NEW r \in Records, LoadRecord(r) PROVE CatchUpInv' /\ CleanInv'
    BY <1>6 DEF LoadRecord
  <1>7. ASSUME MakeKey PROVE CatchUpInv' /\ CleanInv'
    BY <1>7 DEF MakeKey, AskSave
  <1>8. ASSUME Serve PROVE CatchUpInv' /\ CleanInv'
    BY <1>8 DEF Serve
  <1>9. ASSUME NEW s \in Savers, NEW r \in Records, CreateRecord(s, r)
        PROVE  CatchUpInv' /\ CleanInv'
    <2>1. Waiting' /\ owed' = map' /\ map' \in [Records -> Never..Gone]
      BY <1>9 DEF CreateRecord, AskSave
    <2>2. phase' # "ended" /\ (phase' = "saving" => late')
      BY <1>9 DEF CreateRecord, Note
    <2> QED BY <2>1, <2>2
  <1>10. ASSUME NEW s \in Savers, NEW r \in Records, ChangeRecord(s, r)
         PROVE  CatchUpInv' /\ CleanInv'
    <2>1. Waiting' /\ owed' = map' /\ map' \in [Records -> Never..Gone]
      BY <1>10 DEF ChangeRecord, AskSave
    <2>2. phase' # "ended" /\ (phase' = "saving" => late')
      BY <1>10 DEF ChangeRecord, Note
    <2> QED BY <2>1, <2>2
  <1>11. ASSUME NEW s \in Savers, NEW r \in Records, DeleteRecord(s, r)
         PROVE  CatchUpInv' /\ CleanInv'
    <2>1. Waiting' /\ owed' = map' /\ map' \in [Records -> Never..Gone]
      BY <1>11 DEF DeleteRecord, AskSave
    <2>2. phase' # "ended" /\ (phase' = "saving" => late')
      BY <1>11 DEF DeleteRecord, Note
    <2> QED BY <2>1, <2>2
  <1>12. ASSUME NEW s \in Savers, ChildSave(s) PROVE CatchUpInv' /\ CleanInv'
    BY <1>12 DEF ChildSave, AskSave
  <1>13. ASSUME NEW s \in Savers, BackUp(s) PROVE CatchUpInv' /\ CleanInv'
    BY <1>13 DEF BackUp, AskSave
  <1>14. ASSUME Terminate PROVE CatchUpInv' /\ CleanInv'
    BY <1>14 DEF Terminate
  <1>15. ASSUME ShutdownSave PROVE CatchUpInv' /\ CleanInv'
    BY <1>15 DEF ShutdownSave, AskSave
  <1>16. ASSUME End PROVE CatchUpInv' /\ CleanInv'
    BY <1>16 DEF End
  <1>17. ASSUME NEW r \in Ids, ChangeUnsaved(r) PROVE CatchUpInv' /\ CleanInv'
    <2>1. /\ map' \in [Records -> Never..Gone]
          /\ \A x \in Records : map[x] <= map'[x]
          /\ UNCHANGED <<file, saver, lastSave, owed>>
      <3>1. /\ made[r] \in 0..MaxVersion + 1 /\ made[r] < MaxVersion /\ map[r] <= made[r]
            /\ map' = [map EXCEPT ![r] = made[r] + 1]
            /\ UNCHANGED <<file, saver, lastSave, owed>>
        BY <1>17 DEF ChangeUnsaved, OrderInv
      <3>2. map[r] <= made[r] + 1 /\ made[r] + 1 \in 0..MaxVersion + 1
        BY <3>1
      <3> QED BY <3>1, <3>2
    <2>2. CatchUpInv'
      BY <2>1
    <2>3. phase' # "ended" /\ (phase' = "saving" => late')
      BY <1>17 DEF ChangeUnsaved, Note
    <2> QED BY <2>2, <2>3
  <1>18. ASSUME Vanish PROVE CatchUpInv' /\ CleanInv'
    BY <1>18 DEF Vanish
  <1>19. CASE UNCHANGED vars
    BY <1>19 DEF vars
  <1> QED BY <1>1, <1>2, <1>3, <1>4, <1>5, <1>6, <1>7, <1>8, <1>9, <1>10, <1>11, <1>12,
            <1>13, <1>14, <1>15, <1>16, <1>17, <1>18, <1>19
            DEF Next, Start, Work, Save

\* The invariant of the state file, which every step of a save, of a start, of the API
\* and of an end of the process preserves.
THEOREM AlwaysStore == Spec => []StoreInv
  <1>1. StoreInv /\ [Next]_vars => StoreInv'
    BY TypeStep, OrderStep, CleanStep DEF StoreInv
  <1> QED BY <1>1, StoreInitial, PTL DEF Spec

-----------------------------------------------------------------------------
(* What follows *)

\* Every variable of the state file and of its savers keeps its type.
THEOREM TypeCorrect == Spec => []TypeOK
  <1>1. StoreInv => TypeOK
    BY DEF StoreInv
  <1> QED BY <1>1, AlwaysStore, PTL

\* When no call of saveState is left and the last one has succeeded, the file has all that
\* was in the map when one was last asked for, however many asked at once and whichever
\* got stateMu last.  What telemetry and starts have changed since may be missing.
THEOREM LastSaveHasAll == Spec => []FileCatchesUp
  <1>1. StoreInv => FileCatchesUp
    BY DEF StoreInv, CatchUpInv, FileCatchesUp, Active
  <1> QED BY <1>1, AlwaysStore, PTL

\* What shutdown saves is not overwritten by an older save that is still under way, and
\* has the changes too that asked for no save.
THEOREM CleanEndHasAll == Spec => []CleanEndIsSaved
  <1>1. StoreInv => CleanEndIsSaved
    BY DEF StoreInv, CleanInv, LockInv, CleanEndIsSaved
  <1> QED BY <1>1, AlwaysStore, PTL

\* loadState brings back every record that its file had, whatever its children save while
\* it does, and Run makes an internal instance only when the file had none.
THEOREM LoadHasAll == Spec => []LoadIsComplete
  <1>1. StoreInv => LoadIsComplete
    BY DEF StoreInv, TypeOK, LoadInv, LoadIsComplete
  <1> QED BY <1>1, AlwaysStore, PTL

\* A save never replaces a record in the file by an older one, nor brings a deleted one
\* back, in any life of the process.
THEOREM FileOnlyAdvances == Spec => FileNeverGoesBack
  <1>1. StoreInv /\ [Next]_vars =>
          [\A r \in Records : file # Junk => file'[r] = Never \/ file'[r] >= file[r]]_vars
    <2> SUFFICES ASSUME StoreInv, Next, NEW r \in Records, file # Junk
                 PROVE  file'[r] = Never \/ file'[r] >= file[r]
      OBVIOUS
    <2>1. CASE \E s \in AllSavers : ReplaceFile(s) /\ saver[s].target = "state"
      BY <2>1 DEF ReplaceFile, StoreInv, TypeOK, CopyInv, Copied, Place
    <2>2. CASE UNCHANGED file
      BY <2>2 DEF StoreInv, TypeOK
    <2> QED BY <2>1, <2>2
            DEF Next, Start, Work, Save, LockState, CopyRecord, ReplaceFile, SaveFails, Boot,
                LoadRecord, MakeKey, Serve, CreateRecord, ChangeRecord, DeleteRecord,
                ChangeUnsaved, ChildSave, AskSave, BackUp, Terminate, ShutdownSave, End, Vanish
  <1> QED BY <1>1, AlwaysStore, PTL DEF Spec, FileNeverGoesBack
=============================================================================
