----------------------------- MODULE CertReload -----------------------------
(***************************************************************************)
(* The certificate of the API server under tls=2 (newServerTLSConfig in    *)
(* src/internal/master/tls.go): every TLS handshake asks GetCertificate,   *)
(* which loads the two files again when the last attempt is Interval old,  *)
(* and keeps what it has when that fails.                                  *)
(*                                                                         *)
(* A certificate is the version of the pair of files it came from.  The    *)
(* files are external and are replaced one after the other; a pair of      *)
(* different versions does not load.  A critical section of mu is one      *)
(* action, but for the one that reads files.  Time passes between actions; *)
(* a load takes less than a unit of it.                                    *)
(*                                                                         *)
(* An operator with the comment "Mutant" is a wrong version of the one     *)
(* after it, which some property must tell from it; no action uses it.     *)
(***************************************************************************)
EXTENDS Naturals

CONSTANTS Conns,      \* connections
          Interval,   \* reloadInterval
          MaxTime,    \* bound on the clock
          MaxVersion, \* bound on the versions of the files
          None

ASSUME IntervalAssumption == Interval \in Nat \ {0} /\ MaxTime \in Nat /\ MaxVersion \in Nat
ASSUME NoConnAssumption == None \notin Conns

VARIABLES
  now,                \* the clock
  crt, key, settled,  \* external: the versions of the files, and when one last changed
  cached, lastReload, \* cachedCert and lastReload
  mu,                 \* the connection that holds mu to load, or None
  read,               \* version of the crt file it has read, 0 if none is loading
  handshake,          \* of each connection: place in GetCertificate
  began,              \* of each connection in GetCertificate: when it called it, else 0
  loaded              \* history: when files were last loaded, with or without success

tlsVars == <<now, crt, key, settled, cached, lastReload, mu, read, handshake, began, loaded>>

TlsTypeOK ==
  /\ now \in 0..MaxTime
  /\ crt \in 0..MaxVersion
  /\ key \in 0..MaxVersion
  /\ settled \in 0..now
  /\ cached \in 0..MaxVersion
  /\ lastReload \in 0..now
  /\ mu \in Conns \cup {None}
  /\ read \in 0..MaxVersion
  /\ handshake \in [Conns -> {"none", "check", "lock", "load", "match", "take", "done"}]
  /\ began \in [Conns -> 0..now]
  /\ loaded \in 0..now

\* The program has loaded the pair at its start.
TlsInit ==
  /\ now = 0
  /\ crt = 0
  /\ key = 0
  /\ settled = 0
  /\ cached = 0
  /\ lastReload = 0
  /\ mu = None
  /\ read = 0
  /\ handshake = [c \in Conns |-> "none"]
  /\ began = [c \in Conns |-> 0]
  /\ loaded = 0

-----------------------------------------------------------------------------
(* External *)

Tick ==
  /\ now < MaxTime
  /\ mu = None
  /\ now' = now + 1
  /\ UNCHANGED <<crt, key, settled, cached, lastReload, mu, read, handshake, began, loaded>>

\* Whoever renews the certificate puts the files in place, in either order.
RotateCrt ==
  /\ crt < MaxVersion
  /\ crt <= key
  /\ crt' = crt + 1
  /\ settled' = now
  /\ UNCHANGED <<now, key, cached, lastReload, mu, read, handshake, began, loaded>>

RotateKey ==
  /\ key < MaxVersion
  /\ key <= crt
  /\ key' = key + 1
  /\ settled' = now
  /\ UNCHANGED <<now, crt, cached, lastReload, mu, read, handshake, began, loaded>>

-----------------------------------------------------------------------------
(* GetCertificate *)

At(c, place) == handshake' = [handshake EXCEPT ![c] = place]

\* Mutant: an attempt is due one unit later.
ExpiredLate == now - lastReload > Interval

Expired == now - lastReload >= Interval

\* A ClientHello has arrived.
Hello(c) ==
  /\ handshake[c] = "none"
  /\ At(c, "check")
  /\ began' = [began EXCEPT ![c] = now]
  /\ UNCHANGED <<now, crt, key, settled, cached, lastReload, mu, read, loaded>>

\* shouldReload, under the read lock.
CheckAge(c) ==
  /\ handshake[c] = "check"
  /\ mu = None
  /\ At(c, IF Expired THEN "lock" ELSE "take")
  /\ UNCHANGED <<now, crt, key, settled, cached, lastReload, mu, read, began, loaded>>

\* Mutant: the age is not looked at again.
LockAnyway(c) ==
  /\ handshake[c] = "lock"
  /\ mu = None
  /\ mu' = c
  /\ At(c, "load")
  /\ UNCHANGED <<now, crt, key, settled, cached, lastReload, read, began, loaded>>

\* The age again, under the lock: another handshake may have loaded meanwhile.
LockAndCheck(c) ==
  /\ handshake[c] = "lock"
  /\ mu = None
  /\ IF Expired THEN mu' = c /\ At(c, "load") ELSE UNCHANGED mu /\ At(c, "take")
  /\ UNCHANGED <<now, crt, key, settled, cached, lastReload, read, began, loaded>>

\* LoadX509KeyPair reads the certificate ...
LoadCrt(c) ==
  /\ handshake[c] = "load"
  /\ read' = crt
  /\ At(c, "match")
  /\ UNCHANGED <<now, crt, key, settled, cached, lastReload, mu, began, loaded>>

\* Mutant: a failure returns without unlocking.
LoadKeyHolds(c) ==
  /\ handshake[c] = "match"
  /\ cached' = IF key = read THEN read ELSE cached
  /\ lastReload' = now
  /\ loaded' = now
  /\ mu' = IF key = read THEN None ELSE mu
  /\ read' = 0
  /\ At(c, "take")
  /\ UNCHANGED <<now, crt, key, settled, began>>

\* ... and the key, and fails if it is another pair's.  Either way this was the attempt.
LoadKey(c) ==
  /\ handshake[c] = "match"
  /\ cached' = IF key = read THEN read ELSE cached
  /\ lastReload' = now
  /\ loaded' = now
  /\ mu' = None
  /\ read' = 0
  /\ At(c, "take")
  /\ UNCHANGED <<now, crt, key, settled, began>>

\* The certificate in use now, under the read lock.
Take(c) ==
  /\ handshake[c] = "take"
  /\ mu = None
  /\ At(c, "done")
  /\ began' = [began EXCEPT ![c] = 0]
  /\ UNCHANGED <<now, crt, key, settled, cached, lastReload, mu, read, loaded>>

Handshake(c) == CheckAge(c) \/ LockAndCheck(c) \/ LoadCrt(c) \/ LoadKey(c) \/ Take(c)

\* The connection is closed; the next one may use its name.
Forget(c) == At(c, "none")
             /\ UNCHANGED <<now, crt, key, settled, cached, lastReload, mu, read, began, loaded>>

-----------------------------------------------------------------------------
(* Properties *)

\* "At most once per hour" (docs/master.md:93), however many handshakes find the
\* certificate old at the same time, and whether or not the last load succeeded.
ReloadsApart == mu # None => now - loaded >= Interval

\* A pair that has been in place for a whole interval when a handshake begins is the one
\* it gets: no failed attempt and no concurrent handshake delays it any longer.
RotationServed ==
  [][\A c \in Conns :
       /\ handshake[c] = "take" /\ handshake'[c] = "done"
       /\ crt = key
       /\ settled + Interval <= began[c]
       => cached = crt]_tlsVars

-----------------------------------------------------------------------------
(* Why they hold: the parts of an inductive invariant *)

\* Whoever reads files holds mu, and nobody else does.
LoaderInv == \A c \in Conns : handshake[c] \in {"load", "match"} <=> mu = c

\* The age is that of the last attempt; what was read or loaded after the last change
\* of the files is what they hold.
LoadedInv ==
  /\ lastReload = loaded
  /\ crt = key /\ settled < lastReload => cached = crt
  /\ \A c \in Conns : handshake[c] = "match" /\ settled < now => read = crt

\* Whoever takes the certificate has found it young enough, or has loaded it.
YoungInv == \A c \in Conns : handshake[c] = "take" => began[c] < lastReload + Interval

TlsInv == TlsTypeOK /\ LoaderInv /\ LoadedInv /\ YoungInv /\ ReloadsApart
=============================================================================
