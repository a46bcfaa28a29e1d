----------------------------- MODULE TLSReload ------------------------------
(***************************************************************************)
(* The certificate reload of pkg/tlsreload: a provider polls three files,  *)
(* compares their latest modification time with the one it remembers and   *)
(* reads the files when it is newer.  A rotation replaces the files while  *)
(* the provider reads them.  Connections take the key pair from what the   *)
(* provider holds at the time, and the CA pool from the configuration that *)
(* TLSConfig made once.                                                    *)
(*                                                                         *)
(* A file is its version and its modification time; a certificate and a    *)
(* key match when they have the same version.  All versions are within     *)
(* their validity.                                                         *)
(***************************************************************************)
EXTENDS Integers, FiniteSets, FiniteSetsExt

CONSTANT MaxVersion  \* bound: rotations

VARIABLES
  disk,     \* the files
  clock,    \* the time of the last write to one of them
  pc,       \* the provider: "idle", or what it does next
  read,     \* the versions read so far
  current,  \* the material held and the modification time kept with it
  pool      \* the CA version of the configuration in use, 0 before there is one

vars == <<disk, clock, pc, read, current, pool>>

Files == {"cert", "key", "ca"}
None == [loaded |-> FALSE]

\* latestModTime
latestModTime == Max({disk[f].mtime : f \in Files})

\* The server starts with a call of Load.
Init ==
  /\ disk = [f \in Files |-> [version |-> 1, mtime |-> 0]]
  /\ clock = 0
  /\ pc = "cert"
  /\ read = [f \in Files |-> 0]
  /\ current = None
  /\ pool = 0

\* A rotation writes each file once; the next waits for it.  Time passes
\* between two writes, so a file that was replaced is newer than all others.
Rotate(f) ==
  /\ disk[f].version < MaxVersion
  /\ \A g \in Files : disk[f].version <= disk[g].version
  /\ clock' = clock + 1
  /\ disk' = [disk EXCEPT ![f] = [version |-> @.version + 1, mtime |-> clock']]
  /\ UNCHANGED <<pc, read, current, pool>>

\* A tick of the poll: reload reads only what has become newer.
Reload ==
  /\ pc = "idle"
  /\ latestModTime > current.mtime
  /\ pc' = "cert"
  /\ UNCHANGED <<disk, clock, read, current, pool>>

\* LoadX509KeyPair reads the certificate and then the key.
ReadCert ==
  /\ pc = "cert"
  /\ read' = [read EXCEPT !["cert"] = disk["cert"].version]
  /\ pc' = "key"
  /\ UNCHANGED <<disk, clock, current, pool>>

\* A pair that does not match is rejected: the material in use is kept, and a
\* server that has none yet is started again.
ReadKey ==
  /\ pc = "key"
  /\ read' = [read EXCEPT !["key"] = disk["key"].version]
  /\ pc' = IF read["cert"] = disk["key"].version THEN "ca"
           ELSE IF current = None THEN "cert" ELSE "idle"
  /\ UNCHANGED <<disk, clock, current, pool>>

ReadCA ==
  /\ pc = "ca"
  /\ read' = [read EXCEPT !["ca"] = disk["ca"].version]
  /\ pc' = "stat"
  /\ UNCHANGED <<disk, clock, current, pool>>

\* The modification time is taken after the files were read.
StoreState ==
  /\ pc = "stat"
  /\ current' = [loaded |-> TRUE, version |-> read, mtime |-> latestModTime]
  /\ pc' = "idle"
  /\ UNCHANGED <<disk, clock, read, pool>>

\* The server wires the provider into its TLS configuration after Load.
TLSConfig ==
  /\ pool = 0 /\ current # None
  /\ pool' = current.version["ca"]
  /\ UNCHANGED <<disk, clock, pc, read, current>>

Provider == Reload \/ ReadCert \/ ReadKey \/ ReadCA \/ StoreState

Next == Provider \/ TLSConfig \/ \E f \in Files : Rotate(f)

\* The poll runs on a ticker until the server stops, NewServer goes on to make
\* its configuration, and a rotation that was begun is completed.
FairSpec ==
  /\ Init /\ [][Next]_vars
  /\ WF_vars(Provider) /\ WF_vars(TLSConfig) /\ WF_vars(\E f \in Files : Rotate(f))

-------------------------------------------------------------------------------

(***************************************************************************)
(* The provider polls "for changes so cert rotation is hot-reloaded        *)
(* without a restart" (pkg/tlsreload/tlsreload.go:29): when the rotations  *)
(* have ended, the certificate and the key on disk come into use, through  *)
(* GetCertificate, and stay in use.                                        *)
(***************************************************************************)
HotReloaded ==
  <>[](current # None /\ \A f \in {"cert", "key"} : current.version[f] = disk[f].version)

(***************************************************************************)
(* TLSConfig is wired to the provider's "current CA pool"                  *)
(* (pkg/tlsreload/tlsreload.go:85), which it "atomically swaps" (:28): the *)
(* pool the provider has loaded last comes to be the one that connections  *)
(* are verified against.                                                   *)
(***************************************************************************)
PoolReloaded == <>[](current # None /\ pool = current.version["ca"])
=============================================================================
