------------------------- MODULE InstanceLifecycle -------------------------
(***************************************************************************)
(* What the API promises of an instance (docs/master.md, "Status meanings" *)
(* and "Nowhere Process and Telemetry Contract"), without locks, goroutines*)
(* or channels: at most one child at a time, reported as running from its  *)
(* launch until it is gone, never relaunched under the same handle, and    *)
(* nothing launched once the shutdown has begun.  Supervisor is shown to   *)
(* implement it.                                                           *)
(***************************************************************************)
CONSTANTS Instances, Procs, None

VARIABLES status,  \* "absent", "stopped", "running", "error", "gone"
          child,   \* the child that runs and has not been killed, or None
          used,    \* the children launched so far
          gate     \* "open", "closed" by the shutdown, "left" when it has drained

lifecycleVars == <<status, child, used, gate>>

Init == /\ status = [i \in Instances |-> "absent"]
        /\ child = [i \in Instances |-> None]
        /\ used = {}
        /\ gate = "open"

Become(i, from, to) == /\ status[i] \in from
                       /\ status' = [status EXCEPT ![i] = to]

Appear(i) == /\ Become(i, {"absent"}, "stopped")
             /\ UNCHANGED <<child, used, gate>>

Launch(i, p) == /\ gate = "open"
                /\ p \notin used
                /\ child[i] = None
                /\ Become(i, {"stopped"}, "running")
                /\ child' = [child EXCEPT ![i] = p]
                /\ used' = used \cup {p}
                /\ UNCHANGED gate

FailToLaunch(i) == /\ gate = "open"
                   /\ Become(i, {"stopped"}, "error")
                   /\ UNCHANGED <<child, used, gate>>

\* The child exits or is killed; the instance is still reported as running.
LoseChild(i) == /\ child[i] # None
                /\ child' = [child EXCEPT ![i] = None]
                /\ UNCHANGED <<status, used, gate>>

\* The end of the child shows: stopped after a stop or a clean exit, error otherwise.
ShowEnd(i) == /\ child[i] = None
              /\ \E to \in {"stopped", "error"} : Become(i, {"running"}, to)
              /\ UNCHANGED <<child, used, gate>>

Clear(i) == /\ Become(i, {"error"}, "stopped")
            /\ UNCHANGED <<child, used, gate>>

Vanish(i) == /\ Become(i, {"stopped"}, "gone")
             /\ UNCHANGED <<child, used, gate>>

Close == /\ gate = "open"
         /\ gate' = "closed"
         /\ UNCHANGED <<status, child, used>>

Drain == /\ gate = "closed"
         /\ \A i \in Instances : status[i] # "running"
         /\ gate' = "left"
         /\ UNCHANGED <<status, child, used>>

Next == \/ \E i \in Instances : \/ Appear(i)
                                \/ \E p \in Procs : Launch(i, p)
                                \/ FailToLaunch(i)
                                \/ LoseChild(i)
                                \/ ShowEnd(i)
                                \/ Clear(i)
                                \/ Vanish(i)
        \/ Close
        \/ Drain

Spec == Init /\ [][Next]_lifecycleVars
=============================================================================
