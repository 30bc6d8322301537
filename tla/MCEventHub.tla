----------------------------- MODULE MCEventHub -----------------------------
(* Small instances of EventHub for TLC. *)
EXTENDS EventHub, TLC

HubSymmetry == Permutations(Publishers)

Published(events) == {e \in events : e # None}
Events == Published({pub[p].event : p \in Publishers})
          \cup UNION {{states[s][k] : k \in DOMAIN states[s]} : s \in Subscribers}
          \cup UNION {{logs[s][n] : n \in 1..Len(logs[s])} : s \in Subscribers}

\* Times are only compared: the view keeps their order, and which of them are now.  The
\* versions that events carry and clients know are passed on and never compared, but in
\* properties that the run with this view does not check: it leaves them out, and `told'.
OrderView ==
  LET times == {now} \cup {e.time : e \in Events}
      rank == [t \in times |-> Cardinality({u \in times : u < t})]
      ranked(e) == IF e = None THEN None
                   ELSE [f \in DOMAIN e \ {"version"} |-> IF f = "time" THEN rank[e.time] ELSE e[f]]
  IN <<version, present, lines, mu, rank[now], registered, wake, closed, handler, todo, heard, ending,
       [p \in Publishers |-> <<pub[p].pc, pub[p].left, ranked(pub[p].event)>>],
       [s \in Subscribers |-> [k \in DOMAIN states[s] |-> ranked(states[s][k])]],
       [s \in Subscribers |-> [n \in 1..Len(logs[s]) |-> ranked(logs[s][n])]]>>
=============================================================================
