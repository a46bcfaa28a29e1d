------------------------------ MODULE ClusterProofs ------------------------------
(***************************************************************************)
(* Proofs about Cluster for every number of pods, crashes, scalings and    *)
(* recoveries.  The fence holds as long as the generation can be read and  *)
(* raised and the operator scales a cluster whose pods are ready; failed   *)
(* writes of the generation file and crashes at any point do no harm.      *)
(***************************************************************************)
EXTENDS Cluster, TLAPS

--------------------------------------------------------------------------------
(* The invariant                                                            *)

Confs == UNION {[S -> {"stale", "name"}] : S \in SUBSET Pods}
Disk == [conf : Confs, ver : Nat, line : Nat, gen : Nat]
Started == [single : BOOLEAN, seen : Nat]
PCs == {"gone", "down", "read", "bumped", "opened", "waiting", "running"}
Ticks == [add : SUBSET Pods, upd : SUBSET Pods, rem : SUBSET Pods, readd : Pods \cup {NoPod}]

TypeInv ==
  /\ flag \in 1 .. N /\ spec \in {1, flag}
  /\ pc \in [Pods -> PCs] /\ tick \in [Pods -> Ticks]
  /\ disk \in [Pods -> Disk] /\ start \in [Pods -> Started]
  /\ generation \in Nat /\ line \in Nat

\* Leaders run and have state; a server without state has no voters; the
\* bootstrap node is always of the newest lineage.
LineInv ==
  /\ \A p \in leaders : p \in Pods /\ Running(p) /\ HasState(p)
  /\ \A p \in Pods : disk[p].line = 0 => Voters(p) = {}
  /\ \A p \in Pods : disk[p].line <= line
  /\ disk[0].line = line

GenInv ==
  \A p \in Pods : /\ disk[p].gen <= generation /\ start[p].seen <= generation
                  /\ start[p].single => p = 0

\* Only the bootstrap node runs for long, and no other knows the generation.
Alone ==
  /\ spec = 1
  /\ \A p \in Pods \ {0} : disk[p].gen < generation /\ start[p].seen < generation

Starting(p) == pc[p] \in {"read", "bumped"}

\* A recovery is under way only at one replica, and is announced before.
RecoveryInv ==
  /\ Starting(0) /\ start[0].single => spec = 1
  /\ pc[0] = "bumped" /\ start[0].single => Alone

Old(p) == disk[p].line \notin {0, line}

\* A server of an older lineage ends before the cluster grows again, or will
\* find out when it starts.
FenceInv ==
  \A p \in Pods : Old(p) =>
    \/ Alone
    \/ pc[p] \in {"gone", "down"} /\ disk[p].gen < generation
    \/ Starting(p) /\ disk[p].gen < start[p].seen

CInv == TypeInv /\ LineInv /\ GenInv /\ RecoveryInv /\ FenceInv

\* The generation is read and raised, and the pods are ready before a scaling.
Healthy == "read" \notin Faults /\ "bump" \notin Faults /\ "scale" \notin Faults

--------------------------------------------------------------------------------

LEMMA PodZero == 0 \in Pods /\ \A p \in Pods : p \in Int /\ p >= 0 /\ NoPod # p
  BY ClusterAssumption DEF Pods, NoPod

LEMMA BlankType == Blank \in Disk /\ Blank.line = 0 /\ DOMAIN Blank.conf = {} /\ Blank.gen = 0
  <1>1. <<>> \in [{} -> {"stale", "name"}] /\ DOMAIN <<>> = {}
    OBVIOUS
  <1>2. <<>> \in Confs
    BY <1>1 DEF Confs
  <1> QED
    BY <1>1, <1>2 DEF Blank, Disk

LEMMA InitCInv == Init => CInv
  <1> SUFFICES ASSUME Init PROVE CInv
    OBVIOUS
  <1>1. start = [p \in Pods |-> NotStarted] /\ NotStarted \in Started
    BY DEF Init, NotStarted, Started
  <1>2. NoTick \in Ticks
    BY DEF NoTick, Ticks
  <1>3. flag \in 1 .. N /\ spec = flag /\ flag \in Int
    BY ClusterAssumption DEF Init
  <1>4. /\ pc \in [Pods -> PCs] /\ disk \in [Pods -> Disk] /\ line \in Nat
        /\ \A p \in Pods : /\ disk[p].line = line /\ disk[p].gen = 0
                           /\ disk[p].line = 0 => Voters(p) = {}
                           /\ pc[p] \in {"running", "down", "gone"}
    <2>1. CASE Settled
      <3>1. PICK stale \in SUBSET Pods :
              disk = [p \in Pods |->
                        [conf |-> [q \in Pods |-> IF q \in stale THEN "stale" ELSE "name"],
                         ver |-> 1, line |-> 1, gen |-> 0]]
        BY <2>1 DEF Settled
      <3> DEFINE c == [q \in Pods |-> IF q \in stale THEN "stale" ELSE "name"]
      <3>2. c \in [Pods -> {"stale", "name"}]
        OBVIOUS
      <3> HIDE DEF c
      <3>3. c \in Confs
        BY <3>2 DEF Confs
      <3>4. disk = [p \in Pods |-> [conf |-> c, ver |-> 1, line |-> 1, gen |-> 0]]
        BY <3>1 DEF c
      <3>5. disk \in [Pods -> Disk] /\ \A p \in Pods : disk[p].line = 1 /\ disk[p].gen = 0
        BY <3>3, <3>4 DEF Disk
      <3> QED
        BY <2>1, <3>5 DEF Settled, PCs
    <2>2. CASE Fresh
      BY <2>2, BlankType DEF Fresh, PCs, Voters
    <2> QED
      BY <2>1, <2>2 DEF Init
  <1>5. generation = 0 /\ leaders = {} /\ tick \in [Pods -> Ticks]
    BY <1>2 DEF Init
  <1>6. TypeInv
    BY <1>1, <1>3, <1>4, <1>5 DEF TypeInv
  <1>7. LineInv
    BY <1>4, <1>5, PodZero DEF LineInv
  <1>8. GenInv
    BY <1>1, <1>4, <1>5 DEF GenInv, NotStarted
  <1>9. RecoveryInv /\ FenceInv
    BY <1>1, <1>4, PodZero DEF RecoveryInv, FenceInv, Starting, Old, NotStarted
  <1> QED
    BY <1>6, <1>7, <1>8, <1>9 DEF CInv

LEMMA Types ==
  ASSUME CInv, NEW p \in Pods
  PROVE  /\ disk[p] \in Disk /\ disk[p].gen \in Nat /\ disk[p].line \in Nat /\ disk[p].ver \in Nat
         /\ disk[p].conf \in Confs
         /\ start[p] \in Started /\ start[p].seen \in Nat /\ start[p].single \in BOOLEAN
         /\ tick[p] \in Ticks
         /\ generation \in Nat /\ line \in Nat /\ pc[p] \in PCs
         /\ spec \in Int /\ flag \in Int
  BY ClusterAssumption DEF CInv, TypeInv, Disk, Started

\* Steps of the leaders that change no disk and no process.
LEMMA LeadersStep ==
  ASSUME CInv, UNCHANGED <<flag, spec, pc, disk, start, generation, line>>,
         \A p \in leaders' : p \in leaders \/ (p \in Pods /\ Running(p) /\ p \in Voters(p)),
         tick' \in [Pods -> Ticks]
  PROVE  CInv'
  <1>1. TypeInv'
    BY DEF CInv, TypeInv
  <1>2. LineInv'
    <2>1. \A p \in leaders' : p \in Pods /\ Running(p) /\ HasState(p)
      BY DEF CInv, LineInv, HasState
    <2> QED
      BY <2>1 DEF CInv, LineInv, Running, HasState, Voters
  <1>3. GenInv' /\ RecoveryInv' /\ FenceInv'
    BY DEF CInv, GenInv, RecoveryInv, FenceInv, Alone, Starting, Old
  <1> QED
    BY <1>1, <1>2, <1>3 DEF CInv

\* The process of p ends; its disk stays.
LEMMA DownStep ==
  ASSUME CInv, NEW p \in Pods, NEW to \in {"down", "gone"}, Down(p, to),
         UNCHANGED <<flag, spec, disk, generation, line>>
  PROVE  CInv'
  <1>1. /\ pc' = [pc EXCEPT ![p] = to] /\ leaders' = leaders \ {p}
        /\ tick' = [tick EXCEPT ![p] = NoTick] /\ start' = [start EXCEPT ![p] = NotStarted]
    BY DEF Down
  <1>2. /\ NoTick \in Ticks /\ NotStarted \in Started /\ NotStarted.seen = 0
        /\ NotStarted.single = FALSE
    BY DEF NoTick, Ticks, NotStarted, Started
  <1>3. pc \in [Pods -> PCs] /\ start \in [Pods -> Started] /\ tick \in [Pods -> Ticks]
    BY DEF CInv, TypeInv
  <1>4. \A q \in Pods : /\ pc'[q] = IF q = p THEN to ELSE pc[q]
                        /\ start'[q] = IF q = p THEN NotStarted ELSE start[q]
    BY <1>1, <1>3
  <1>5. TypeInv'
    BY <1>1, <1>2, <1>3 DEF CInv, TypeInv, PCs
  <1>6. LineInv'
    BY <1>1, <1>4 DEF CInv, LineInv, Running, HasState, Voters
  <1>7. GenInv'
    <2> SUFFICES ASSUME NEW q \in Pods
                 PROVE  /\ disk[q].gen <= generation /\ start'[q].seen <= generation
                        /\ start'[q].single => q = 0
      BY DEF GenInv
    <2> QED
      BY <1>2, <1>4, Types DEF CInv, GenInv
  <1>8. Alone => Alone'
    <2> SUFFICES ASSUME Alone, NEW q \in Pods \ {0}
                 PROVE  disk[q].gen < generation /\ start'[q].seen < generation
      BY DEF Alone
    <2> QED
      BY <1>2, <1>4, Types DEF Alone
  <1>9. RecoveryInv'
    BY <1>2, <1>4, <1>8, PodZero DEF CInv, RecoveryInv, Starting
  <1>10. FenceInv'
    <2> SUFFICES ASSUME NEW q \in Pods, Old(q)
                 PROVE  \/ Alone'
                        \/ pc'[q] \in {"gone", "down"} /\ disk[q].gen < generation
                        \/ pc'[q] \in {"read", "bumped"} /\ disk[q].gen < start'[q].seen
      BY DEF FenceInv, Old, Starting
    <2>1. \/ Alone
          \/ pc[q] \in {"gone", "down"} /\ disk[q].gen < generation
          \/ pc[q] \in {"read", "bumped"} /\ disk[q].gen < start[q].seen
      BY DEF CInv, FenceInv, Starting
    <2>2. CASE q # p
      BY <1>4, <1>8, <2>1, <2>2
    <2>3. CASE q = p
      <3>1. start[q].seen <= generation
        BY DEF CInv, GenInv
      <3>2. Alone' \/ disk[q].gen < generation
        BY <1>8, <2>1, <3>1, Types
      <3> QED
        BY <1>4, <2>3, <3>2
    <2> QED
      BY <2>2, <2>3
  <1> QED
    BY <1>5, <1>6, <1>7, <1>9, <1>10 DEF CInv

\* A leader brings servers it reaches to its own lineage: replication and
\* changes of the configuration.
LEMMA DiskStep ==
  ASSUME CInv, NEW p \in leaders, NEW S, S \subseteq Reach(p) \cup {p},
         disk' \in [Pods -> Disk],
         \A q \in Pods : /\ disk'[q].gen = disk[q].gen
                         /\ q \in S => disk'[q].line = disk[p].line
                         /\ q \notin S => disk'[q] = disk[q],
         UNCHANGED <<flag, spec, pc, start, generation, line>>,
         leaders' \subseteq leaders, tick' \in [Pods -> Ticks]
  PROVE  CInv'
  <1>1. p \in Pods /\ disk[p].line # 0 /\ disk[p].line <= line /\ Running(p)
    BY DEF CInv, LineInv, HasState
  <1>2. TypeInv'
    BY DEF CInv, TypeInv
  <1>3. \A q \in Pods : disk'[q].line <= line
    BY <1>1 DEF CInv, LineInv
  <1>4. disk'[0].line = line
    <2>1. 0 \in Pods /\ disk[0].line = line /\ line \in Nat /\ disk[p].line \in Nat
      BY <1>1, Types, PodZero DEF CInv, LineInv
    <2>2. 0 \in S => disk[p].line = line
      BY <1>1, <2>1 DEF Reach
    <2> QED
      BY <2>1, <2>2
  <1>5. \A q \in leaders' : q \in Pods /\ Running(q)' /\ HasState(q)'
    BY <1>1 DEF CInv, LineInv, Running, HasState
  <1>6. \A q \in Pods : disk'[q].line = 0 => DOMAIN disk'[q].conf = {}
    BY <1>1 DEF CInv, LineInv, Voters
  <1>7. LineInv'
    BY <1>3, <1>4, <1>5, <1>6 DEF LineInv, Voters
  <1>8. GenInv'
    BY DEF CInv, GenInv
  <1>9. Alone => Alone'
    BY DEF Alone
  <1>10. RecoveryInv'
    BY <1>9 DEF CInv, RecoveryInv, Starting
  <1>11. FenceInv'
    <2>1. CASE Old(p)
      <3>1. Alone
        BY <1>1, <2>1 DEF CInv, FenceInv, Running, Starting
      <3> QED
        BY <3>1, <1>9 DEF FenceInv
    <2>2. CASE ~Old(p)
      <3>1. disk[p].line = line
        BY <1>1, <2>2 DEF Old
      <3>2. \A q \in Pods : Old(q)' => Old(q)
        BY <3>1 DEF Old
      <3> QED
        BY <3>2, <1>9 DEF CInv, FenceInv, Starting
    <2> QED
      BY <2>1, <2>2
  <1> QED
    BY <1>2, <1>7, <1>8, <1>10, <1>11 DEF CInv

--------------------------------------------------------------------------------
(* One lemma per action                                                     *)

LEMMA ScaleStep == CInv /\ Healthy /\ Scale => CInv'
  <1> SUFFICES ASSUME CInv, Healthy, Scale PROVE CInv'
    OBVIOUS
  <1>1. /\ UNCHANGED <<flag, pc, disk, start, generation, line, leaders, tick>>
        /\ spec' \in {1, flag} \ {spec} /\ spec \in {1, flag} /\ flag \in 1 .. N
        /\ \A p \in Pods : (p < spec <=> pc[p] # "gone") /\ (p < spec => pc[p] = "running")
    BY DEF Scale, Healthy, CInv, TypeInv
  <1>2. TypeInv' /\ LineInv' /\ GenInv'
    BY <1>1 DEF CInv, TypeInv, LineInv, GenInv, Running, HasState, Voters
  <1>3. pc[0] = "running"
    BY <1>1, PodZero
  <1>4. RecoveryInv'
    BY <1>1, <1>3 DEF RecoveryInv, Starting
  <1>5. FenceInv'
    <2> SUFFICES ASSUME NEW p \in Pods, Old(p)
                 PROVE  \/ Alone'
                        \/ pc[p] \in {"gone", "down"} /\ disk[p].gen < generation
                        \/ pc[p] \in {"read", "bumped"} /\ disk[p].gen < start[p].seen
      BY <1>1 DEF FenceInv, Old, Starting
    <2>1. p # 0
      BY DEF CInv, LineInv, Old
    <2>2. Alone => pc[p] = "gone" /\ disk[p].gen < generation
      BY <1>1, <2>1, PodZero DEF Alone
    <2> QED
      BY <2>2 DEF CInv, FenceInv, Starting
  <1> QED
    BY <1>2, <1>4, <1>5 DEF CInv

LEMMA CreateStep == \A p \in Pods : CInv /\ CreatePod(p) => CInv'
  <1> SUFFICES ASSUME NEW p \in Pods, CInv, CreatePod(p) PROVE CInv'
    OBVIOUS
  <1>1. /\ pc[p] = "gone" /\ pc' = [pc EXCEPT ![p] = "down"]
        /\ UNCHANGED <<flag, spec, disk, start, generation, line, leaders, tick>>
        /\ pc \in [Pods -> PCs]
    BY DEF CreatePod, CInv, TypeInv
  <1>2. \A q \in Pods : pc'[q] = IF q = p THEN "down" ELSE pc[q]
    BY <1>1
  <1>3. TypeInv'
    BY <1>1 DEF CInv, TypeInv, PCs
  <1>4. LineInv'
    BY <1>1, <1>2 DEF CInv, LineInv, Running, HasState, Voters
  <1>5. GenInv' /\ (Alone <=> Alone')
    BY <1>1 DEF CInv, GenInv, Alone
  <1>6. RecoveryInv'
    BY <1>1, <1>2, <1>5, PodZero DEF CInv, RecoveryInv, Starting
  <1>7. FenceInv'
    BY <1>1, <1>2, <1>5 DEF CInv, FenceInv, Starting, Old
  <1> QED
    BY <1>3, <1>4, <1>5, <1>6, <1>7 DEF CInv

\* Crashes, deletions, a startup without a leader and the watch.
LEMMA EndSteps ==
  /\ CInv /\ WatchRecovery => CInv'
  /\ \A p \in Pods : CInv /\ (DeletePod(p) \/ Crash(p) \/ WaitForLeaderFails(p)) => CInv'
  <1>1. ASSUME CInv, WatchRecovery PROVE CInv'
    BY <1>1, DownStep, PodZero DEF WatchRecovery
  <1>2. ASSUME NEW p \in Pods, CInv, DeletePod(p) PROVE CInv'
    BY <1>2, DownStep DEF DeletePod
  <1>3. ASSUME NEW p \in Pods, CInv, Crash(p) PROVE CInv'
    BY <1>3, DownStep DEF Crash
  <1>4. ASSUME NEW p \in Pods, CInv, WaitForLeaderFails(p) PROVE CInv'
    BY <1>4, DownStep DEF WaitForLeaderFails
  <1> QED
    BY <1>1, <1>2, <1>3, <1>4

LEMMA ReadStep == \A p \in Pods : CInv /\ Healthy /\ ReadCluster(p) => CInv'
  <1> SUFFICES ASSUME NEW p \in Pods, CInv, Healthy, ReadCluster(p) PROVE CInv'
    OBVIOUS
  <1> DEFINE one == p = 0 /\ spec = 1 /\ flag > 1
  <1>1. /\ pc[p] = "down" /\ p < spec /\ pc' = [pc EXCEPT ![p] = "read"]
        /\ start' = [start EXCEPT ![p] = [single |-> one, seen |-> generation]]
        /\ UNCHANGED <<flag, spec, disk, generation, line, leaders, tick>>
    BY DEF ReadCluster, Healthy
  <1>2. one \in BOOLEAN /\ (one => p = 0 /\ spec = 1)
    OBVIOUS
  <1> HIDE DEF one
  <1>3. pc \in [Pods -> PCs] /\ start \in [Pods -> Started]
    BY DEF CInv, TypeInv
  <1>4. PICK s \in Started : s.single = one /\ s.seen = generation
                             /\ start' = [start EXCEPT ![p] = s]
    <2>1. [single |-> one, seen |-> generation] \in Started
      BY <1>2, Types DEF Started
    <2> QED
      BY <1>1, <2>1
  <1>5. \A q \in Pods : /\ pc'[q] = IF q = p THEN "read" ELSE pc[q]
                        /\ start'[q] = IF q = p THEN s ELSE start[q]
    BY <1>1, <1>3, <1>4
  <1>6. TypeInv'
    BY <1>1, <1>3, <1>4 DEF CInv, TypeInv, PCs
  <1>7. LineInv'
    BY <1>1, <1>5 DEF CInv, LineInv, Running, HasState, Voters
  <1>8. GenInv'
    BY <1>1, <1>2, <1>4, <1>5, Types DEF CInv, GenInv
  <1>9. Alone => Alone'
    <2> SUFFICES ASSUME Alone, NEW q \in Pods \ {0}
                 PROVE  disk[q].gen < generation /\ start'[q].seen < generation
      BY <1>1 DEF Alone
    <2>1. q # p
      BY <1>1, PodZero DEF Alone
    <2> QED
      BY <1>5, <2>1 DEF Alone
  <1>10. RecoveryInv'
    BY <1>1, <1>2, <1>4, <1>5, <1>9, PodZero DEF CInv, RecoveryInv, Starting
  <1>11. FenceInv'
    <2> SUFFICES ASSUME NEW q \in Pods, Old(q)
                 PROVE  \/ Alone'
                        \/ pc'[q] \in {"gone", "down"} /\ disk[q].gen < generation
                        \/ pc'[q] \in {"read", "bumped"} /\ disk[q].gen < start'[q].seen
      BY <1>1 DEF FenceInv, Old, Starting
    <2> QED
      BY <1>1, <1>4, <1>5, <1>9 DEF CInv, FenceInv, Starting
  <1> QED
    BY <1>6, <1>7, <1>8, <1>10, <1>11 DEF CInv

LEMMA BumpStep == \A p \in Pods : CInv /\ Healthy /\ BumpGeneration(p) => CInv'
  <1> SUFFICES ASSUME NEW p \in Pods, CInv, Healthy, BumpGeneration(p) PROVE CInv'
    OBVIOUS
  <1>1. /\ pc[p] = "read" /\ pc' = [pc EXCEPT ![p] = "bumped"]
        /\ UNCHANGED <<flag, spec, disk, line, leaders, tick>>
        /\ pc \in [Pods -> PCs] /\ start \in [Pods -> Started]
    BY DEF BumpGeneration, CInv, TypeInv
  <1>2. \A q \in Pods : pc'[q] = IF q = p THEN "bumped" ELSE pc[q]
    BY <1>1
  <1>3. LineInv'
    BY <1>1, <1>2 DEF CInv, LineInv, Running, HasState, Voters
  <1>4. CASE /\ start[p].single /\ generation' = generation + 1
             /\ start' = [start EXCEPT ![p].seen = generation + 1]
    <2>1. p = 0 /\ spec = 1
      BY <1>1, <1>4 DEF CInv, GenInv, RecoveryInv, Starting
    <2>2. \A q \in Pods : /\ start'[q] \in Started
                          /\ start'[q].single = start[q].single
                          /\ start'[q].seen = IF q = p THEN generation + 1 ELSE start[q].seen
      BY <1>1, <1>4, Types DEF Started
    <2>3. start' \in [Pods -> Started] /\ generation' \in Nat
      BY <1>1, <1>4, <2>2, Types
    <2>4. TypeInv'
      BY <1>1, <2>3 DEF CInv, TypeInv, PCs
    <2>5. GenInv'
      <3> SUFFICES ASSUME NEW q \in Pods
                   PROVE  /\ disk[q].gen <= generation + 1 /\ start'[q].seen <= generation + 1
                          /\ start'[q].single => q = 0
        BY <1>1, <1>4 DEF GenInv
      <3> QED
        BY <2>2, Types DEF CInv, GenInv
    <2>6. Alone'
      <3> SUFFICES ASSUME NEW q \in Pods \ {0}
                   PROVE  disk[q].gen < generation + 1 /\ start'[q].seen < generation + 1
        BY <1>1, <1>4, <2>1 DEF Alone
      <3> QED
        BY <2>1, <2>2, Types DEF CInv, GenInv
    <2> QED
      BY <1>1, <1>3, <2>1, <2>4, <2>5, <2>6 DEF CInv, RecoveryInv, FenceInv
  <1>5. CASE ~start[p].single /\ UNCHANGED <<generation, start>>
    <2>1. TypeInv' /\ GenInv' /\ (Alone <=> Alone')
      BY <1>1, <1>5 DEF CInv, TypeInv, GenInv, Alone, PCs
    <2>2. RecoveryInv'
      BY <1>1, <1>2, <1>5, <2>1, PodZero DEF CInv, RecoveryInv, Starting
    <2>3. FenceInv'
      BY <1>1, <1>2, <1>5, <2>1 DEF CInv, FenceInv, Starting, Old
    <2> QED
      BY <1>3, <2>1, <2>2, <2>3 DEF CInv
  <1> QED
    BY <1>4, <1>5 DEF BumpGeneration, Healthy

LEMMA OpenStep == \A p \in Pods : CInv /\ OpenStore(p) => CInv'
  <1> SUFFICES ASSUME NEW p \in Pods, CInv, OpenStore(p) PROVE CInv'
    OBVIOUS
  <1>1. /\ pc[p] = "bumped" /\ pc' = [pc EXCEPT ![p] = "opened"]
        /\ UNCHANGED <<flag, spec, start, generation, leaders, tick>>
        /\ pc \in [Pods -> PCs] /\ disk \in [Pods -> Disk]
    BY DEF OpenStore, CInv, TypeInv
  <1>2. \A q \in Pods : pc'[q] = IF q = p THEN "opened" ELSE pc[q]
    BY <1>1
  <1>3. p \notin leaders
    BY <1>1 DEF CInv, LineInv, Running
  <1>4. pc' \in [Pods -> PCs]
    BY <1>1 DEF PCs
  <1>5. CASE Stale(p)
    <2> DEFINE d == [Blank EXCEPT !.gen = disk[p].gen]
    <2>1. disk' = [disk EXCEPT ![p] = d] /\ line' = line
      BY <1>5 DEF OpenStore
    <2>2. d \in Disk /\ d.line = 0 /\ DOMAIN d.conf = {} /\ d.gen = disk[p].gen
      BY BlankType, Types DEF Disk
    <2> HIDE DEF d
    <2>3. \A q \in Pods : disk'[q] = IF q = p THEN d ELSE disk[q]
      BY <1>1, <2>1
    <2>4. TypeInv'
      BY <1>1, <1>4, <2>1, <2>2 DEF CInv, TypeInv
    <2>5. p # 0
      BY <1>5 DEF Stale
    <2>6. LineInv'
      <3>1. \A q \in leaders : q \in Pods /\ Running(q)' /\ HasState(q)'
        BY <1>2, <1>3, <2>3 DEF CInv, LineInv, Running, HasState
      <3>2. \A q \in Pods : /\ disk'[q].line = 0 => DOMAIN disk'[q].conf = {}
                            /\ disk'[q].line <= line
        BY <2>2, <2>3, Types DEF CInv, LineInv, Voters
      <3>3. disk'[0].line = line
        BY <2>3, <2>5, PodZero DEF CInv, LineInv
      <3> QED
        BY <1>1, <2>1, <3>1, <3>2, <3>3 DEF LineInv, Voters
    <2>7. \A q \in Pods : disk'[q].gen = disk[q].gen
      BY <2>2, <2>3
    <2>8. GenInv' /\ (Alone => Alone')
      BY <1>1, <2>7 DEF CInv, GenInv, Alone
    <2>9. RecoveryInv'
      BY <1>1, <1>2, <2>5, <2>8, PodZero DEF CInv, RecoveryInv, Starting
    <2>10. FenceInv'
      BY <1>1, <1>2, <2>1, <2>2, <2>3, <2>8 DEF CInv, FenceInv, Starting, Old
    <2> QED
      BY <2>4, <2>6, <2>8, <2>9, <2>10 DEF CInv
  <1>6. CASE ~Stale(p) /\ p = 0 /\ (start[p].single \/ ~HasState(p))
    <2> DEFINE c == [q \in {0} |-> "name"]
               d == [conf |-> c, ver |-> disk[p].ver + 1, line |-> line + 1, gen |-> disk[p].gen]
    <2>1. disk' = [disk EXCEPT ![p] = d] /\ line' = line + 1
      BY <1>6 DEF OpenStore
    <2>2. c \in [{0} -> {"stale", "name"}]
      OBVIOUS
    <2> HIDE DEF c
    <2>3. c \in Confs
      BY <2>2, PodZero DEF Confs
    <2>4. d \in Disk /\ d.line = line + 1 /\ d.gen = disk[p].gen
      BY <2>3, Types DEF Disk
    <2> HIDE DEF d
    <2>5. \A q \in Pods : disk'[q] = IF q = p THEN d ELSE disk[q]
      BY <1>1, <2>1
    <2>6. line \in Nat
      BY Types
    <2>7. TypeInv'
      BY <1>1, <1>4, <2>1, <2>4, <2>6 DEF CInv, TypeInv
    <2>8. LineInv'
      <3>1. \A q \in leaders : q \in Pods /\ Running(q)' /\ HasState(q)'
        BY <1>2, <1>3, <2>5 DEF CInv, LineInv, Running, HasState
      <3>2. \A q \in Pods : /\ disk'[q].line = 0 => DOMAIN disk'[q].conf = {}
                            /\ disk'[q].line <= line + 1
        BY <2>4, <2>5, <2>6, Types DEF CInv, LineInv, Voters
      <3>3. disk'[0].line = line + 1
        BY <1>6, <2>4, <2>5
      <3> QED
        BY <1>1, <2>1, <3>1, <3>2, <3>3 DEF LineInv, Voters
    <2>9. \A q \in Pods : disk'[q].gen = disk[q].gen
      BY <2>4, <2>5
    <2>10. GenInv' /\ (Alone => Alone')
      BY <1>1, <2>9 DEF CInv, GenInv, Alone
    <2>11. RecoveryInv'
      BY <1>2, <1>6 DEF RecoveryInv, Starting
    <2>12. FenceInv'
      <3>1. CASE start[p].single
        BY <1>1, <1>6, <2>10, <3>1 DEF CInv, RecoveryInv, FenceInv
      <3>2. CASE ~HasState(p)
        <4> SUFFICES ASSUME NEW q \in Pods PROVE ~Old(q)'
          BY DEF FenceInv
        <4>1. line = 0 /\ disk[q].line <= line /\ disk[q].line \in Nat
          BY <1>6, <3>2, Types DEF CInv, LineInv, HasState
        <4> QED
          BY <1>6, <2>1, <2>4, <2>5, <4>1 DEF Old
      <3> QED
        BY <1>6, <3>1, <3>2
    <2> QED
      BY <2>7, <2>8, <2>10, <2>11, <2>12 DEF CInv
  <1>7. CASE ~Stale(p) /\ ~(p = 0 /\ (start[p].single \/ ~HasState(p)))
    <2>1. UNCHANGED <<disk, line>>
      BY <1>7 DEF OpenStore
    <2>2. TypeInv'
      BY <1>1, <1>4, <2>1 DEF CInv, TypeInv
    <2>3. LineInv'
      BY <1>1, <1>2, <2>1 DEF CInv, LineInv, Running, HasState, Voters
    <2>4. GenInv' /\ (Alone => Alone')
      BY <1>1, <2>1 DEF CInv, GenInv, Alone
    <2>5. RecoveryInv'
      BY <1>1, <1>2, <2>4, PodZero DEF CInv, RecoveryInv, Starting
    <2>6. FenceInv'
      <3> SUFFICES ASSUME NEW q \in Pods, Old(q)
                   PROVE  \/ Alone'
                          \/ pc'[q] \in {"gone", "down"} /\ disk[q].gen < generation
                          \/ pc'[q] \in {"read", "bumped"} /\ disk[q].gen < start[q].seen
        BY <1>1, <2>1 DEF FenceInv, Old, Starting
      <3>1. q # 0
        BY DEF CInv, LineInv, Old
      <3>2. \/ Alone
            \/ pc[q] \in {"gone", "down"} /\ disk[q].gen < generation
            \/ pc[q] \in {"read", "bumped"} /\ disk[q].gen < start[q].seen
        BY DEF CInv, FenceInv, Starting
      <3>3. CASE q = p
        BY <1>1, <1>7, <2>4, <3>1, <3>2, <3>3, Types DEF Stale
      <3> QED
        BY <1>2, <2>4, <3>2, <3>3
    <2> QED
      BY <2>2, <2>3, <2>4, <2>5, <2>6 DEF CInv
  <1> QED
    BY <1>5, <1>6, <1>7

LEMMA WriteStep == \A p \in Pods : CInv /\ WriteGeneration(p) => CInv'
  <1> SUFFICES ASSUME NEW p \in Pods, CInv, WriteGeneration(p) PROVE CInv'
    OBVIOUS
  <1>1. PICK gen \in {start[p].seen, disk[p].gen} : disk' = [disk EXCEPT ![p].gen = gen]
    BY DEF WriteGeneration
  <1>2. /\ pc[p] = "opened" /\ pc' = [pc EXCEPT ![p] = "waiting"]
        /\ UNCHANGED <<flag, spec, start, generation, line, leaders, tick>>
        /\ pc \in [Pods -> PCs] /\ disk \in [Pods -> Disk]
    BY DEF WriteGeneration, CInv, TypeInv
  <1>3. \A q \in Pods : pc'[q] = IF q = p THEN "waiting" ELSE pc[q]
    BY <1>2
  <1>4. gen \in Nat /\ gen <= generation
    BY <1>1, Types DEF CInv, GenInv
  <1>5. \A q \in Pods : /\ disk'[q] \in Disk /\ disk'[q].line = disk[q].line
                        /\ disk'[q].conf = disk[q].conf
                        /\ disk'[q].gen = IF q = p THEN gen ELSE disk[q].gen
    BY <1>1, <1>2, <1>4 DEF Disk
  <1>6. TypeInv'
    <2>1. disk' \in [Pods -> Disk]
      BY <1>1, <1>2, <1>5
    <2> QED
      BY <1>2, <2>1 DEF CInv, TypeInv, PCs
  <1>7. LineInv'
    <2>1. \A q \in leaders : q \in Pods /\ Running(q)' /\ HasState(q)'
      BY <1>3, <1>5 DEF CInv, LineInv, Running, HasState
    <2> QED
      BY <1>2, <1>5, <2>1, PodZero DEF CInv, LineInv, Voters
  <1>8. GenInv'
    BY <1>2, <1>4, <1>5 DEF CInv, GenInv
  <1>9. Alone => Alone'
    BY <1>1, <1>2, <1>5 DEF Alone
  <1>10. RecoveryInv'
    BY <1>2, <1>3, <1>9, PodZero DEF CInv, RecoveryInv, Starting
  <1>11. FenceInv'
    <2> SUFFICES ASSUME NEW q \in Pods, Old(q)
                 PROVE  \/ Alone'
                        \/ pc'[q] \in {"gone", "down"} /\ disk'[q].gen < generation
                        \/ pc'[q] \in {"read", "bumped"} /\ disk'[q].gen < start[q].seen
      BY <1>2, <1>5 DEF FenceInv, Old, Starting
    <2> QED
      BY <1>2, <1>3, <1>5, <1>9 DEF CInv, FenceInv, Starting
  <1> QED
    BY <1>6, <1>7, <1>8, <1>10, <1>11 DEF CInv

LEMMA FoundStep == \A p \in Pods : CInv /\ LeaderFound(p) => CInv'
  <1> SUFFICES ASSUME NEW p \in Pods, CInv, LeaderFound(p) PROVE CInv'
    OBVIOUS
  <1>1. /\ pc[p] = "waiting" /\ pc' = [pc EXCEPT ![p] = "running"]
        /\ UNCHANGED <<flag, spec, disk, start, generation, line, leaders, tick>>
        /\ pc \in [Pods -> PCs]
    BY DEF LeaderFound, CInv, TypeInv
  <1>2. \A q \in Pods : pc'[q] = IF q = p THEN "running" ELSE pc[q]
    BY <1>1
  <1>3. TypeInv'
    BY <1>1 DEF CInv, TypeInv, PCs
  <1>4. LineInv'
    BY <1>1, <1>2 DEF CInv, LineInv, Running, HasState, Voters
  <1>5. GenInv' /\ (Alone <=> Alone')
    BY <1>1 DEF CInv, GenInv, Alone
  <1>6. RecoveryInv'
    BY <1>1, <1>2, <1>5, PodZero DEF CInv, RecoveryInv, Starting
  <1>7. FenceInv'
    BY <1>1, <1>2, <1>5 DEF CInv, FenceInv, Starting, Old
  <1> QED
    BY <1>3, <1>4, <1>5, <1>6, <1>7 DEF CInv

\* Elections, the loss of a quorum, and a reconciliation that starts or ends.
LEMMA LeaderSteps ==
  \A p \in Pods : CInv /\ (Elect(p) \/ LoseQuorum(p) \/ JoinTick(p) \/ JoinFails(p)) => CInv'
  <1> SUFFICES ASSUME NEW p \in Pods, CInv,
                      Elect(p) \/ LoseQuorum(p) \/ JoinTick(p) \/ JoinFails(p)
               PROVE  CInv'
    OBVIOUS
  <1>1. tick \in [Pods -> Ticks] /\ NoTick \in Ticks
    BY DEF CInv, TypeInv, NoTick, Ticks
  <1>2. CASE Elect(p)
    BY <1>1, <1>2, LeadersStep DEF Elect, CanElect
  <1>3. CASE LoseQuorum(p)
    BY <1>1, <1>3, LeadersStep DEF LoseQuorum
  <1>4. CASE JoinFails(p)
    BY <1>1, <1>4, LeadersStep DEF JoinFails
  <1>5. CASE JoinTick(p)
    <2> DEFINE t == [add |-> Desired \ Voters(p),
                     upd |-> {q \in Desired \cap Voters(p) : addrChanged(p, q)},
                     rem |-> Voters(p) \ Desired, readd |-> NoPod]
    <2>1. Desired \subseteq Pods
      BY ClusterAssumption DEF CInv, TypeInv, Desired, Pods
    <2>2. Voters(p) \subseteq Pods
      BY Types DEF Voters, Confs
    <2>3. t \in Ticks
      BY <2>1, <2>2 DEF Ticks
    <2>4. tick' = [tick EXCEPT ![p] = t]
      BY <1>5 DEF JoinTick
    <2> HIDE DEF t
    <2>5. tick' \in [Pods -> Ticks]
      BY <1>1, <2>3, <2>4
    <2> QED
      BY <1>5, <2>5, LeadersStep DEF JoinTick
  <1> QED
    BY <1>2, <1>3, <1>4, <1>5

LEMMA ReplicateStep == \A p \in Pods : CInv /\ Replicate(p) => CInv'
  <1> SUFFICES ASSUME NEW p \in Pods, CInv, Replicate(p) PROVE CInv'
    OBVIOUS
  <1>1. PICK q \in Reach(p) : disk' = [disk EXCEPT ![q] = [disk[p] EXCEPT !.gen = disk[q].gen]]
    BY DEF Replicate
  <1>2. q \in Pods
    BY Types DEF Reach, Voters, Confs
  <1> DEFINE d == [disk[p] EXCEPT !.gen = disk[q].gen]
  <1>3. d \in Disk /\ d.line = disk[p].line /\ d.gen = disk[q].gen
    BY <1>2, Types DEF Disk
  <1>4. disk' = [disk EXCEPT ![q] = d]
    BY <1>1
  <1> HIDE DEF d
  <1>5. disk \in [Pods -> Disk] /\ tick \in [Pods -> Ticks]
    BY DEF CInv, TypeInv
  <1>6. disk' \in [Pods -> Disk] /\ \A r \in Pods : disk'[r] = IF r = q THEN d ELSE disk[r]
    BY <1>2, <1>3, <1>4, <1>5
  <1>7. /\ p \in leaders /\ {q} \subseteq Reach(p) \cup {p}
        /\ UNCHANGED <<flag, spec, pc, start, generation, line, leaders, tick>>
    BY DEF Replicate
  <1>8. \A r \in Pods : /\ disk'[r].gen = disk[r].gen
                        /\ r \in {q} => disk'[r].line = disk[p].line
                        /\ r \notin {q} => disk'[r] = disk[r]
    BY <1>3, <1>6
  <1> QED
    BY <1>5, <1>6, <1>7, <1>8, DiskStep

--------------------------------------------------------------------------------
(* The join loop                                                            *)

LEMMA ChangeStep ==
  ASSUME CInv, NEW p \in leaders, NEW conf \in Confs, Change(p, conf),
         UNCHANGED <<flag, spec, pc, start, generation, line>>,
         leaders' \subseteq leaders, tick' \in [Pods -> Ticks]
  PROVE  CInv'
  <1> DEFINE d(q) == [disk[p] EXCEPT !.conf = conf, !.ver = @ + 1, !.gen = disk[q].gen]
  <1>1. PICK S \in SUBSET (Reach(p) \cup {p}) :
          disk' = [q \in Pods |-> IF q \in S THEN d(q) ELSE disk[q]]
    BY DEF Change
  <1>2. p \in Pods
    BY DEF CInv, LineInv
  <1>3. \A q \in Pods : d(q) \in Disk /\ d(q).line = disk[p].line /\ d(q).gen = disk[q].gen
    <2> SUFFICES ASSUME NEW q \in Pods
                 PROVE  d(q) \in Disk /\ d(q).line = disk[p].line /\ d(q).gen = disk[q].gen
      OBVIOUS
    <2>1. disk[p] \in Disk /\ disk[p].ver + 1 \in Nat /\ disk[q].gen \in Nat
      BY <1>2, Types
    <2> QED
      BY <2>1 DEF Disk
  <1> HIDE DEF d
  <1>4. \A q \in Pods : disk[q] \in Disk
    BY Types
  <1>5. disk' \in [Pods -> Disk]
    BY <1>1, <1>3, <1>4
  <1>6. \A q \in Pods : /\ disk'[q].gen = disk[q].gen
                        /\ q \in S => disk'[q].line = disk[p].line
                        /\ q \notin S => disk'[q] = disk[q]
    BY <1>1, <1>3
  <1> QED
    BY <1>5, <1>6, DiskStep

LEMMA AddConf ==
  ASSUME CInv, NEW p \in Pods, NEW q \in Pods
  PROVE  [r \in Voters(p) \cup {q} |-> IF r = q THEN "name" ELSE disk[p].conf[r]] \in Confs
  <1>1. PICK V \in SUBSET Pods : disk[p].conf \in [V -> {"stale", "name"}]
    BY Types DEF Confs
  <1>2. Voters(p) = V
    BY <1>1 DEF Voters
  <1>3. [r \in V \cup {q} |-> IF r = q THEN "name" ELSE disk[p].conf[r]]
          \in [V \cup {q} -> {"stale", "name"}]
    BY <1>1
  <1> QED
    BY <1>2, <1>3 DEF Confs

LEMMA RemoveConf ==
  ASSUME CInv, NEW p \in Pods, NEW q
  PROVE  [r \in Voters(p) \ {q} |-> disk[p].conf[r]] \in Confs
  <1>1. PICK V \in SUBSET Pods : disk[p].conf \in [V -> {"stale", "name"}]
    BY Types DEF Confs
  <1>2. Voters(p) = V
    BY <1>1 DEF Voters
  <1>3. [r \in V \ {q} |-> disk[p].conf[r]] \in [V \ {q} -> {"stale", "name"}]
    BY <1>1
  <1> QED
    BY <1>2, <1>3 DEF Confs

LEMMA AddStep ==
  ASSUME CInv, NEW p \in leaders, NEW q \in Pods, AddVoter(p, q),
         UNCHANGED <<flag, spec, pc, start, generation, line, leaders>>, tick' \in [Pods -> Ticks]
  PROVE  CInv'
  <1>1. p \in Pods
    BY DEF CInv, LineInv
  <1> DEFINE c == [r \in Voters(p) \cup {q} |-> IF r = q THEN "name" ELSE disk[p].conf[r]]
  <1>2. c \in Confs
    BY <1>1, AddConf
  <1>3. Change(p, c)
    BY DEF AddVoter
  <1> HIDE DEF c
  <1> QED
    BY <1>2, <1>3, ChangeStep

LEMMA RemoveStep ==
  ASSUME CInv, NEW p \in leaders, NEW q, RemoveServer(p, q),
         UNCHANGED <<flag, spec, pc, start, generation, line>>, tick' \in [Pods -> Ticks]
  PROVE  CInv'
  <1>1. p \in Pods
    BY DEF CInv, LineInv
  <1> DEFINE c == [r \in Voters(p) \ {q} |-> disk[p].conf[r]]
  <1>2. c \in Confs
    BY <1>1, RemoveConf
  <1>3. Change(p, c) /\ leaders' \subseteq leaders
    BY DEF RemoveServer
  <1> HIDE DEF c
  <1> QED
    BY <1>2, <1>3, ChangeStep

\* A reconciliation that leaves something undone is one of the same kind.
LEMMA TickTypes ==
  ASSUME CInv, NEW p \in Pods, NEW t \in Ticks, tick' = [tick EXCEPT ![p] = t]
  PROVE  tick' \in [Pods -> Ticks]
  BY DEF CInv, TypeInv

LEMMA JoinSteps ==
  \A p \in Pods : CInv /\ (JoinAdd(p) \/ JoinUpdate(p) \/ JoinReadd(p) \/ JoinRemove(p)) => CInv'
  <1> SUFFICES ASSUME NEW p \in Pods, CInv,
                      JoinAdd(p) \/ JoinUpdate(p) \/ JoinReadd(p) \/ JoinRemove(p)
               PROVE  CInv'
    OBVIOUS
  <1>1. tick \in [Pods -> Ticks] /\ tick[p] \in Ticks /\ NoTick \in Ticks
    BY DEF CInv, TypeInv, NoTick, Ticks
  <1>2. CASE JoinAdd(p)
    <2>1. PICK q \in tick[p].add :
            /\ IF peerResolvable(q) THEN AddVoter(p, q) ELSE UNCHANGED disk
            /\ tick' = [tick EXCEPT ![p].add = @ \ {q}]
      BY <1>2 DEF JoinAdd
    <2>2. p \in leaders /\ q \in Pods
      BY <1>1, <1>2 DEF JoinAdd, Ticks
    <2>3. UNCHANGED <<flag, spec, pc, start, generation, line, leaders>>
      BY <1>2 DEF JoinAdd
    <2> DEFINE t == [tick[p] EXCEPT !.add = @ \ {q}]
    <2>4. t \in Ticks /\ tick' = [tick EXCEPT ![p] = t]
      BY <1>1, <2>1 DEF Ticks
    <2> HIDE DEF t
    <2>5. tick' \in [Pods -> Ticks]
      BY <2>4, TickTypes
    <2>6. CASE AddVoter(p, q)
      BY <2>2, <2>3, <2>5, <2>6, AddStep
    <2>7. CASE UNCHANGED disk
      BY <2>3, <2>5, <2>7, LeadersStep
    <2> QED
      BY <2>1, <2>6, <2>7
  <1>3. CASE JoinUpdate(p)
    <2>1. PICK q \in tick[p].upd :
             IF peerResolvable(q)
             THEN /\ RemoveServer(p, q)
                  /\ tick' = [tick EXCEPT ![p] = IF p = q THEN NoTick
                                ELSE [tick[p] EXCEPT !.upd = @ \ {q}, !.readd = q]]
             ELSE /\ tick' = [tick EXCEPT ![p].upd = @ \ {q}]
                  /\ UNCHANGED <<disk, leaders>>
      BY <1>3 DEF JoinUpdate
    <2>2. p \in leaders /\ q \in Pods
      BY <1>1, <1>3 DEF JoinUpdate, Ticks
    <2>3. UNCHANGED <<flag, spec, pc, start, generation, line>>
      BY <1>3 DEF JoinUpdate
    <2> DEFINE t == IF p = q THEN NoTick ELSE [tick[p] EXCEPT !.upd = @ \ {q}, !.readd = q]
               u == [tick[p] EXCEPT !.upd = @ \ {q}]
    <2>4. t \in Ticks /\ u \in Ticks
      BY <1>1, <2>2 DEF Ticks
    <2>5. CASE peerResolvable(q)
      <3>1. RemoveServer(p, q) /\ tick' = [tick EXCEPT ![p] = t]
        <4>1. CASE p = q
          BY <2>1, <2>5, <4>1
        <4>2. CASE p # q
          BY <2>1, <2>5, <4>2
        <4> QED
          BY <4>1, <4>2
      <3> HIDE DEF t
      <3>2. tick' \in [Pods -> Ticks]
        BY <2>4, <3>1, TickTypes
      <3> QED
        BY <2>2, <2>3, <3>1, <3>2, RemoveStep
    <2>6. CASE ~peerResolvable(q)
      <3>1. tick' = [tick EXCEPT ![p] = u] /\ UNCHANGED <<disk, leaders>>
        BY <1>1, <2>1, <2>6
      <3> HIDE DEF u
      <3>2. tick' \in [Pods -> Ticks]
        BY <2>4, <3>1, TickTypes
      <3> QED
        BY <2>3, <3>1, <3>2, LeadersStep
    <2> QED
      BY <2>5, <2>6
  <1>4. CASE JoinReadd(p)
    <2>1. /\ p \in leaders /\ AddVoter(p, tick[p].readd) /\ tick[p].readd \in Pods
          /\ UNCHANGED <<flag, spec, pc, start, generation, line, leaders>>
      BY <1>1, <1>4 DEF JoinReadd, Ticks
    <2> DEFINE t == [tick[p] EXCEPT !.readd = NoPod]
    <2>2. t \in Ticks /\ tick' = [tick EXCEPT ![p] = t]
      BY <1>1, <1>4 DEF Ticks, JoinReadd
    <2> HIDE DEF t
    <2>3. tick' \in [Pods -> Ticks]
      BY <2>2, TickTypes
    <2> QED
      BY <2>1, <2>3, AddStep
  <1>5. CASE JoinRemove(p)
    <2>1. PICK q \in tick[p].rem :
            /\ RemoveServer(p, q)
            /\ tick' = [tick EXCEPT ![p] = IF p = q THEN NoTick ELSE [tick[p] EXCEPT !.rem = @ \ {q}]]
      BY <1>5 DEF JoinRemove
    <2>2. p \in leaders /\ UNCHANGED <<flag, spec, pc, start, generation, line>>
      BY <1>5 DEF JoinRemove
    <2> DEFINE t == IF p = q THEN NoTick ELSE [tick[p] EXCEPT !.rem = @ \ {q}]
    <2>3. t \in Ticks
      BY <1>1 DEF Ticks
    <2>4. tick' = [tick EXCEPT ![p] = t]
      <3>1. CASE p = q
        BY <2>1, <3>1
      <3>2. CASE p # q
        BY <2>1, <3>2
      <3> QED
        BY <3>1, <3>2
    <2> HIDE DEF t
    <2>5. tick' \in [Pods -> Ticks]
      BY <2>3, <2>4, TickTypes
    <2> QED
      BY <2>1, <2>2, <2>5, RemoveStep
  <1> QED
    BY <1>2, <1>3, <1>4, <1>5

--------------------------------------------------------------------------------
(* The theorems                                                             *)

LEMMA NextCInv == Healthy /\ CInv /\ [Next]_vars => CInv'
  <1> SUFFICES ASSUME Healthy, CInv, [Next]_vars PROVE CInv'
    OBVIOUS
  <1>1. CASE Scale \/ WatchRecovery
    BY <1>1, ScaleStep, EndSteps
  <1>2. ASSUME NEW p \in Pods, \/ CreatePod(p) \/ DeletePod(p) \/ Crash(p) \/ JoinFails(p)
                               \/ Startup(p) \/ JoinLoop(p) \/ Consensus(p)
        PROVE  CInv'
    BY <1>2, CreateStep, EndSteps, ReadStep, BumpStep, OpenStep, WriteStep, FoundStep,
       LeaderSteps, ReplicateStep, JoinSteps DEF Startup, JoinLoop, Consensus
  <1>3. CASE UNCHANGED vars
    BY <1>3, LeadersStep DEF vars, CInv, TypeInv
  <1> QED
    BY <1>1, <1>2, <1>3 DEF Next

LEMMA Inductive == Healthy => (Spec => []CInv)
  <1> SUFFICES ASSUME Healthy PROVE Spec => []CInv
    OBVIOUS
  <1>1. CInv /\ [Next]_vars => CInv'
    BY NextCInv
  <1> QED
    BY <1>1, InitCInv, PTL DEF Spec

(***************************************************************************)
(* The fence holds for every number of pods and recoveries: a server of an *)
(* older lineage leads only while its pod is being removed.  It survives a *)
(* generation file that cannot be written and a crash anywhere between     *)
(* NewServer's steps; it needs the generation to be read and raised and    *)
(* the pods to be ready when the operator scales.                          *)
(***************************************************************************)
THEOREM FenceHolds == Healthy => (Spec => []FencedOff)
  <1> SUFFICES ASSUME Healthy PROVE Spec => []FencedOff
    OBVIOUS
  <1>1. CInv => FencedOff
    <2> SUFFICES ASSUME CInv, NEW p \in leaders, disk[p].line # line PROVE p >= spec
      BY DEF FencedOff
    <2>1. p \in Pods /\ Running(p) /\ Old(p) /\ p # 0
      BY DEF CInv, LineInv, HasState, Old
    <2>2. Alone
      BY <2>1 DEF CInv, FenceInv, Running, Starting
    <2> QED
      BY <2>1, <2>2, PodZero DEF Alone
  <1>2. Spec => []CInv
    BY Inductive
  <1> QED
    BY <1>1, <1>2, PTL

================================================================================
