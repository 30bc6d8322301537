----------------------------- MODULE StateStore -----------------------------
(***************************************************************************)
(* What OpenCtrl keeps on disk (src/internal/master/state.go and its       *)
(* callers): what the API changes, and every stop or exit of a child, asks *)
(* for a save of the whole map, mostly in a goroutine of its own, while    *)
(* the API answers at once; what telemetry and starts change asks for      *)
(* none and waits for the next one; stateMu puts the saves in a row; a     *)
(* start of the program reads the file back, starting children while it    *)
(* does.                                                                   *)
(*                                                                         *)
(* The contents of a record are a version number that every change raises. *)
(* `Gone' is the version of a record that a DELETE has taken out of the    *)
(* map; on disk it means, like `Never', that there is no such record, and  *)
(* a map without any record that there is no file.                         *)
(*                                                                         *)
(* An operator with the comment "Mutant" is a wrong version of the one     *)
(* after it, which some property must tell from it; no action uses it.     *)
(***************************************************************************)
EXTENDS Naturals

CONSTANTS Ids,         \* IDs of ordinary instances, each used at most once
          Key,         \* the internal instance with the API key and the master ID
          Savers,      \* goroutines that save (bound on the saves under way)
          Main,        \* the goroutine of NewMaster, Run and shutdown, which also saves
          MaxVersion,  \* bound on the changes of a record
          MaxCrashes,  \* bound on the ends of the process
          MaxFailures, \* bound on the saves that fail
          None

ASSUME VersionAssumption == MaxVersion \in Nat \ {0}
ASSUME BoundAssumption == MaxCrashes \in Nat /\ MaxFailures \in Nat
ASSUME SaverAssumption == Main \notin Savers /\ None \notin Savers \cup {Main}

VARIABLES
  map,       \* m.instances: the version of each record
  made,      \* history: the last version ever given to each record
  file,      \* the state file, or Junk when it cannot be decoded
  phase,     \* "down", "loading", "key", "serving", "stopping", "saving", "ended"
  read,      \* what loadState decoded
  toLoad,    \* IDs its loop has not come to
  stateMu,   \* the saver that holds it
  saver,     \* of each saver: [pc, target, todo, copy]
  lastSave,  \* history, of this process: "none", "ok", "failed"
  owed,      \* history, of this process: the map when a save was last asked for
  late,      \* history, of this process: something has changed after its last request
  kept,      \* history: records that have been in the file and not been deleted
  crashes, failures  \* how often the bounded things have happened

saveVars == <<stateMu, saver, lastSave, owed, failures>>
histVars == <<late, kept, crashes>>
vars == <<map, made, file, phase, read, toLoad, saveVars, histVars>>

Records == Ids \cup {Key}
AllSavers == Savers \cup {Main}
Never == 0
Gone == MaxVersion + 1
Exists(v) == v \notin {Never, Gone}
Nothing == [r \in Records |-> Never]
Junk == [r \in Records |-> Gone + 1]

Idle == [pc |-> "idle", target |-> None, todo |-> {}, copy |-> Nothing]

Place == [pc : {"idle", "wait", "copy"}, target : {"state", "backup", None},
          todo : SUBSET Records, copy : [Records -> Never..Gone]]

TypeOK ==
  /\ map \in [Records -> Never..Gone]
  /\ made \in [Records -> Never..Gone]
  /\ file \in [Records -> Never..Gone] \cup {Junk}
  /\ phase \in {"down", "loading", "key", "serving", "stopping", "saving", "ended"}
  /\ read \in [Records -> Never..Gone]
  /\ toLoad \subseteq Records
  /\ stateMu \in AllSavers \cup {None}
  /\ saver \in [AllSavers -> Place]
  /\ lastSave \in {"none", "ok", "failed"}
  /\ owed \in [Records -> Never..Gone]
  /\ late \in BOOLEAN
  /\ kept \subseteq Records
  /\ crashes \in 0..MaxCrashes
  /\ failures \in 0..MaxFailures

\* The file of an earlier process, of a first start, or of another program.
Init ==
  /\ file \in [Records -> {Never, 1}] \cup {Junk}
  /\ made = [r \in Records |-> IF file[r] = 1 THEN 1 ELSE Never]
  /\ map = Nothing
  /\ phase = "down"
  /\ read = Nothing
  /\ toLoad = {}
  /\ stateMu = None
  /\ saver = [s \in AllSavers |-> Idle]
  /\ lastSave = "none"
  /\ owed = Nothing
  /\ late = FALSE
  /\ kept = {r \in Records : file[r] = 1}
  /\ crashes = 0
  /\ failures = 0

-----------------------------------------------------------------------------
(* saveStateToPath *)

\* s is about to call it; a save runs on until it is over or the process ends.
AskSave(s, target) ==
  /\ saver[s].pc = "idle"
  /\ saver' = [saver EXCEPT ![s] = [Idle EXCEPT !.pc = "wait", !.target = target]]
  /\ owed' = IF target = "state" THEN map' ELSE owed
  /\ UNCHANGED <<stateMu, lastSave, failures>>

\* Mutant: no stateMu.
LockStateFree(s) ==
  /\ saver[s].pc = "wait"
  /\ stateMu' = s
  /\ saver' = [saver EXCEPT ![s].pc = "copy", ![s].todo = Records]
  /\ UNCHANGED <<map, made, file, phase, read, toLoad, lastSave, owed, failures, histVars>>

LockState(s) ==
  /\ saver[s].pc = "wait"
  /\ stateMu = None
  /\ stateMu' = s
  /\ saver' = [saver EXCEPT ![s].pc = "copy", ![s].todo = Records]
  /\ UNCHANGED <<map, made, file, phase, read, toLoad, lastSave, owed, failures, histVars>>

\* The Range takes the snapshots one by one, under the inst.mu of each; what comes
\* or goes meanwhile is seen or not.
CopyRecord(s, r) ==
  /\ saver[s].pc = "copy"
  /\ r \in saver[s].todo
  /\ saver' = [saver EXCEPT ![s].todo = @ \ {r}, ![s].copy[r] = map[r]]
  /\ UNCHANGED <<map, made, file, phase, read, toLoad, stateMu, lastSave, owed, failures,
                 histVars>>

Unlock(s) == /\ stateMu' = None
             /\ saver' = [saver EXCEPT ![s] = Idle]

\* The temporary file replaces the old one, or an empty map removes it.  The backup
\* is another file, which the program never reads.
ReplaceFile(s) ==
  /\ saver[s].pc = "copy"
  /\ saver[s].todo = {}
  /\ IF saver[s].target = "state"
     THEN /\ file' = saver[s].copy
          /\ lastSave' = "ok"
          /\ kept' = kept \cup {r \in Records : Exists(file'[r]) /\ made[r] # Gone}
     ELSE UNCHANGED <<file, lastSave, kept>>
  /\ Unlock(s)
  /\ UNCHANGED <<map, made, phase, read, toLoad, owed, failures, late, crashes>>

\* Any step of it fails: the error is logged, the old file stays, nobody retries.
SaveFails(s) ==
  /\ saver[s].pc = "copy"
  /\ saver[s].todo = {}
  /\ failures < MaxFailures
  /\ failures' = failures + 1
  /\ lastSave' = IF saver[s].target = "state" THEN "failed" ELSE lastSave
  /\ Unlock(s)
  /\ UNCHANGED <<map, made, file, phase, read, toLoad, owed, histVars>>

Save(s) == \/ LockState(s)
           \/ \E r \in Records : CopyRecord(s, r)
           \/ ReplaceFile(s)
           \/ SaveFails(s)

-----------------------------------------------------------------------------
(* loadState, and the beginning of Run *)

\* Mutant: the error of the decoder is ignored.
BootAnyway ==
  /\ phase = "down"
  /\ phase' = "loading"
  /\ read' = [r \in Records |-> IF Exists(file[r]) THEN file[r] ELSE Never]
  /\ toLoad' = {r \in Records : read'[r] # Never}
  /\ UNCHANGED <<map, made, file, saveVars, histVars>>

\* Leftover temporary files are removed, and the file is decoded as a whole.
Boot ==
  /\ phase = "down"
  /\ phase' = "loading"
  /\ read' = IF file = Junk THEN Nothing ELSE [r \in Records |-> IF Exists(file[r]) THEN file[r]
                                                                 ELSE Never]
  /\ toLoad' = {r \in Records : read'[r] # Never}
  /\ UNCHANGED <<map, made, file, saveVars, histVars>>

\* Mutant: the record is read from the file only now.
LoadRecordLate(r) ==
  /\ phase = "loading"
  /\ r \in toLoad
  /\ toLoad' = toLoad \ {r}
  /\ map' = [map EXCEPT ![r] = file[r]]
  /\ UNCHANGED <<made, file, phase, read, saveVars, histVars>>

\* One round of the loop; an instance may be started, see ChildSave.
LoadRecord(r) ==
  /\ phase = "loading"
  /\ r \in toLoad
  /\ toLoad' = toLoad \ {r}
  /\ map' = [map EXCEPT ![r] = read[r]]
  /\ UNCHANGED <<made, file, phase, read, saveVars, histVars>>

\* Run makes an internal instance if there was none, and saves before it serves.
MakeKey ==
  /\ phase = "loading"
  /\ toLoad = {}
  /\ map[Key] = Never
  /\ made[Key] < MaxVersion
  /\ made' = [made EXCEPT ![Key] = @ + 1]
  /\ map' = [map EXCEPT ![Key] = made'[Key]]
  /\ AskSave(Main, "state")
  /\ phase' = "key"
  /\ UNCHANGED <<file, read, toLoad, histVars>>

Serve ==
  /\ \/ phase = "loading" /\ toLoad = {} /\ map[Key] # Never
     \/ phase = "key" /\ saver[Main].pc = "idle"
  /\ phase' = "serving"
  /\ UNCHANGED <<map, made, file, read, toLoad, saveVars, histVars>>

-----------------------------------------------------------------------------
(* What asks for saves.  The server serves until the process ends. *)

Open == phase \in {"serving", "stopping", "saving"}
Running == phase \in {"loading", "key"} \/ Open

Note == late' = (late \/ phase = "saving")

\* POST /instances
CreateRecord(s, r) ==
  /\ Open
  /\ r # Key
  /\ made[r] = Never
  /\ map' = [map EXCEPT ![r] = 1]
  /\ made' = [made EXCEPT ![r] = 1]
  /\ AskSave(s, "state")
  /\ Note
  /\ UNCHANGED <<file, phase, read, toLoad, kept, crashes>>

\* PATCH and POST /info; the save follows the unlock at once.
ChangeRecord(s, r) ==
  /\ Open
  /\ Exists(map[r])
  /\ made[r] < MaxVersion
  /\ made' = [made EXCEPT ![r] = @ + 1]
  /\ map' = [map EXCEPT ![r] = made'[r]]
  /\ AskSave(s, "state")
  /\ Note
  /\ UNCHANGED <<file, phase, read, toLoad, kept, crashes>>

\* DELETE: the save comes after the removal from the map.
DeleteRecord(s, r) ==
  /\ Open
  /\ r # Key
  /\ Exists(map[r])
  /\ map' = [map EXCEPT ![r] = Gone]
  /\ made' = [made EXCEPT ![r] = Gone]
  /\ AskSave(s, "state")
  /\ Note
  /\ kept' = kept \ {r}
  /\ UNCHANGED <<file, phase, read, toLoad, crashes>>

\* A persistent field changes and no save is asked for: what telemetry reports of a
\* child or clears, and the status that a start sets.  Nor is one asked for yet when a
\* stop, a monitor or a PUT releases inst.mu, see ChildSave; between the two parts of a
\* PUT lies a whole start.
ChangeUnsaved(r) ==
  /\ Running
  /\ Exists(map[r])
  /\ made[r] < MaxVersion
  /\ made' = [made EXCEPT ![r] = @ + 1]
  /\ map' = [map EXCEPT ![r] = made'[r]]
  /\ Note
  /\ UNCHANGED <<file, phase, read, toLoad, saveVars, kept, crashes>>

\* The monitor of a child that has exited saves what it has changed, and so do a stop
\* and, after its start, a PUT; a DELETE may come first.  The children that loadState
\* starts have theirs saved as soon as their instance is in the map.
ChildSave(s) ==
  /\ Running
  /\ \E r \in Ids : map[r] # Never
  /\ UNCHANGED <<map, made, file, phase, read, toLoad, histVars>>
  /\ AskSave(s, "state")

\* The hourly task.
BackUp(s) ==
  /\ Open
  /\ AskSave(s, "backup")
  /\ UNCHANGED <<map, made, file, phase, read, toLoad, histVars>>

-----------------------------------------------------------------------------
(* The end of the process *)

\* SIGTERM: children are stopped, then Main saves and waits for that save only.
Terminate ==
  /\ phase = "serving"
  /\ phase' = "stopping"
  /\ UNCHANGED <<map, made, file, read, toLoad, saveVars, histVars>>

ShutdownSave ==
  /\ phase = "stopping"
  /\ phase' = "saving"
  /\ UNCHANGED <<map, made, file, read, toLoad, histVars>>
  /\ AskSave(Main, "state")

\* Mutant: the last save is not waited for.
EndAtOnce ==
  /\ phase = "saving"
  /\ phase' = "ended"
  /\ UNCHANGED <<map, made, file, read, toLoad, saveVars, histVars>>

End ==
  /\ phase = "saving"
  /\ saver[Main].pc = "idle"
  /\ phase' = "ended"
  /\ UNCHANGED <<map, made, file, read, toLoad, saveVars, histVars>>

\* The process is gone, killed at any moment or after its end; saves under way with
\* it.  Another one may be started.
Vanish ==
  /\ phase # "down"
  /\ crashes < MaxCrashes
  /\ crashes' = crashes + 1
  /\ phase' = "down"
  /\ map' = Nothing
  /\ read' = Nothing
  /\ toLoad' = {}
  /\ stateMu' = None
  /\ saver' = [s \in AllSavers |-> Idle]
  /\ lastSave' = "none"
  /\ owed' = Nothing
  /\ late' = FALSE
  /\ UNCHANGED <<made, file, kept, failures>>

-----------------------------------------------------------------------------
Start == Boot \/ (\E r \in Records : LoadRecord(r)) \/ MakeKey \/ Serve

Work(s) == \/ \E r \in Records : CreateRecord(s, r) \/ ChangeRecord(s, r) \/ DeleteRecord(s, r)
           \/ ChildSave(s)
           \/ BackUp(s)

Next == \/ Start
        \/ \E s \in Savers : Work(s)
        \/ \E r \in Ids : ChangeUnsaved(r)
        \/ \E s \in AllSavers : phase # "ended" /\ Save(s)
        \/ Terminate \/ ShutdownSave \/ End
        \/ Vanish

Spec == Init /\ [][Next]_vars

-----------------------------------------------------------------------------
(* Properties *)

Quiet == \A s \in AllSavers : saver[s].pc = "idle"

\* Whatever the order in which the saves get stateMu, once no save is left and the last
\* one has succeeded, the file has all that was in the map when a save was last asked
\* for: no older snapshot has come last.  It need not have what has changed since
\* without asking, byte totals and the status of a start (runtime.go:162-173,
\* instance.go:159): a crash loses that.
FileCatchesUp ==
  Quiet /\ lastSave = "ok" => \A r \in Records : owed[r] <= file[r] /\ file[r] <= map[r]

\* Nor does any save on the way put an older version of a record over a newer one,
\* or bring a deleted record back.
FileNeverGoesBack ==
  [][\A r \in Records : file # Junk => file'[r] = Never \/ file'[r] >= file[r]]_vars

\* A clean end has everything on disk that was changed before the shutdown asked for its
\* save, whether or not the change did, though it waits for no save but its own.
CleanEndIsSaved ==
  phase = "ended" /\ ~late /\ lastSave = "ok" => file = map

\* The program that has started has every record its file had, although children
\* started on the way overwrite the file while it is being loaded; and a new API key
\* is made only when the file had none.
LoadIsComplete ==
  /\ phase \in {"key", "serving"} => \A r \in Records : read[r] # Never => map[r] >= read[r]
  /\ phase = "key" => read[Key] = Never

\* README.md:16, "Local durable state with backup": a record that has been in the
\* state file, and was not deleted, is there in every later life of the program.
RecordsSurvive == phase = "serving" => \A r \in kept : Exists(map[r])

-----------------------------------------------------------------------------
(* Why they hold: the parts of an inductive invariant *)

\* What the saver has copied so far.
Copied(s) == Records \ saver[s].todo
Waiting == \E s \in AllSavers : saver[s].pc = "wait" /\ saver[s].target = "state"
Active == \E s \in AllSavers : saver[s].pc # "idle" /\ saver[s].target = "state"

LockInv == /\ \A s \in AllSavers : saver[s].pc = "copy" <=> stateMu = s
           /\ saver[Main].pc # "idle" => phase \in {"key", "saving"} /\ saver[Main].target = "state"

\* The versions of a record: on disk none that is newer than the one in the map, in the
\* map none that has not been made.
OrderInv ==
  \A r \in Records :
    /\ map[r] <= made[r]
    /\ file # Junk => file[r] <= made[r] /\ (map[r] # Never => file[r] <= map[r])

LoadInv ==
  /\ phase # "loading" => toLoad = {}
  /\ phase = "down" => map = Nothing /\ Quiet
  /\ \A r \in toLoad : map[r] = Never /\ read[r] # Never /\ (file # Junk => file[r] <= read[r])
  /\ \A r \in Records :
       read[r] <= made[r] /\ (phase # "down" /\ r \notin toLoad /\ read[r] # Never => read[r] <= map[r])
  /\ phase = "key" => read[Key] = Never

\* What is being saved is between what is on disk and what is in the map.
CopyInv ==
  \A s \in AllSavers : saver[s].pc = "copy" =>
    \A r \in Copied(s) :
      /\ saver[s].copy[r] <= map[r]
      /\ file # Junk /\ saver[s].copy[r] # Never => file[r] <= saver[s].copy[r]

UpToDate(s) == saver[s].pc = "copy" => \A r \in Copied(s) : saver[s].copy[r] = map[r]

\* Of a request that a save under way has missed another save is waiting.
CatchUpInv ==
  /\ \A r \in Records : owed[r] <= map[r]
  /\ Waiting \/ \A s \in AllSavers : saver[s].pc = "copy" =>
                   \A r \in Copied(s) : owed[r] <= saver[s].copy[r]
  /\ lastSave = "ok" /\ ~Active =>
       file # Junk /\ \A r \in Records : owed[r] <= file[r] /\ file[r] <= map[r]

\* From the shutdown's save on nothing old is written any more.
CleanInv ==
  phase \in {"saving", "ended"} /\ ~late =>
    IF saver[Main].pc = "idle"
    THEN (\A s \in AllSavers : UpToDate(s)) /\ (lastSave = "ok" => file = map)
    ELSE UpToDate(Main)

StoreInv == TypeOK /\ LockInv /\ OrderInv /\ LoadInv /\ CopyInv /\ CatchUpInv /\ CleanInv
=============================================================================
