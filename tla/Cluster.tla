------------------------------- MODULE Cluster -------------------------------
(***************************************************************************)
(* The membership of the cluster and its recovery from the loss of a       *)
(* quorum: the join loop that makes the configuration follow the pods      *)
(* (ReconcileMembership and StartJoinLoop in internal/repository/raft.go), *)
(* the single-node recovery a scale-down to one replica authorises, and    *)
(* the generation number that fences off servers of an older configuration *)
(* (NewServer, watchSingleNodeRecovery and raft_generation.go in           *)
(* internal/server).                                                       *)
(*                                                                         *)
(* Pod 0 is the bootstrap node.  `line' numbers the lineages of the log: a *)
(* recovery starts a new one, and servers of different lineages must not   *)
(* both elect leaders.  Elections and replication are hashicorp/raft's and *)
(* are modelled by what they guarantee within one lineage.                 *)
(***************************************************************************)
EXTENDS Integers, FiniteSets

CONSTANTS
  N,             \* pods the configuration starts with
  Faults,        \* faults around the startup, of: "read", "bump", "write", "crash", "scale", "both"
  MaxCrashes,    \* bound: crashes of a server and calls that time out
  MaxScales,     \* bound: changes of the replica count
  MaxGeneration  \* bound: recoveries

ASSUME ClusterAssumption ==
  /\ N \in Nat \ {0} /\ MaxGeneration \in Nat \ {0}
  /\ Faults \subseteq {"read", "bump", "write", "crash", "scale", "both"}
  /\ MaxCrashes \in Nat /\ MaxScales \in Nat

VARIABLES
  flag,        \* --raft-replicas, the same on every pod
  spec,        \* the replica count of the StatefulSet: 1 or flag
  pc,          \* gone, down, or where the process of each pod is
  disk,        \* the configuration, lineage and generation file of each pod
  start,       \* what the process read when it started
  generation,  \* the generation in the shared Secret
  line,        \* history: the newest lineage
  leaders,     \* the servers that are leaders
  tick,        \* what is left of the leader's reconciliation
  left         \* crashes and scalings that may still happen

vars == <<flag, spec, pc, disk, start, generation, line, leaders, tick, left>>

Pods == 0 .. N - 1
NoPod == -1

\* conf maps voters to the address they are known by, a stale one or the
\* stable name; ver is the index of the configuration entry.
Blank == [conf |-> <<>>, ver |-> 0, line |-> 0, gen |-> 0]
NotStarted == [single |-> FALSE, seen |-> 0]
NoTick == [add |-> {}, upd |-> {}, rem |-> {}, readd |-> NoPod]

\* The raft server runs from the moment NewRaftStore returns.
Running(p) == pc[p] \in {"opened", "waiting", "running"}
HasState(p) == disk[p].line # 0
Voters(p) == DOMAIN disk[p].conf

\* A running cluster: --raft-replicas was lowered by one at most, or a voter is
\* known by a stale address; with the fault "both", at once.
Settled ==
  /\ pc = [p \in Pods |-> IF p < flag THEN "running" ELSE "gone"]
  /\ line = 1
  /\ \E stale \in {s \in SUBSET Pods : Cardinality(s) <= 1} :
       /\ stale # {} /\ flag # N => "both" \in Faults
       /\ disk = [p \in Pods |->
                    [conf |-> [q \in Pods |-> IF q \in stale THEN "stale" ELSE "name"],
                     ver |-> 1, line |-> 1, gen |-> 0]]

\* A cluster that is started for the first time.
Fresh ==
  /\ pc = [p \in Pods |-> IF p < flag THEN "down" ELSE "gone"]
  /\ line = 0
  /\ disk = [p \in Pods |-> Blank]

Init ==
  /\ flag \in {k \in 2 .. N : k >= N - 1} /\ spec = flag
  /\ Settled \/ Fresh
  /\ start = [p \in Pods |-> NotStarted]
  /\ generation = 0
  /\ leaders = {}
  /\ tick = [p \in Pods |-> NoTick]
  /\ left = [crashes |-> MaxCrashes, scales |-> MaxScales]

-------------------------------------------------------------------------------
(* The StatefulSet controller and the operator                             *)

Down(p, to) ==
  /\ pc' = [pc EXCEPT ![p] = to]
  /\ leaders' = leaders \ {p}
  /\ tick' = [tick EXCEPT ![p] = NoTick]
  /\ start' = [start EXCEPT ![p] = NotStarted]

\* The operator changes spec.replicas once the pods of the previous count are
\* ready, or, with the fault "scale", once they exist.
Scale ==
  /\ left.scales > 0
  /\ \A p \in Pods : /\ (p < spec) <=> (pc[p] # "gone")
                     /\ p < spec => pc[p] = "running" \/ "scale" \in Faults
  /\ spec' \in {1, flag} \ {spec}
  /\ left' = [left EXCEPT !.scales = @ - 1]
  /\ UNCHANGED <<flag, pc, disk, start, generation, line, leaders, tick>>

CreatePod(p) ==
  /\ p < spec /\ pc[p] = "gone"
  /\ pc' = [pc EXCEPT ![p] = "down"]
  /\ UNCHANGED <<flag, spec, disk, start, generation, line, leaders, tick, left>>

\* Pods are removed from the highest ordinal down; their disks stay.
DeletePod(p) ==
  /\ p >= spec /\ pc[p] # "gone" /\ \A q \in Pods : q > p => pc[q] = "gone"
  /\ Down(p, "gone")
  /\ UNCHANGED <<flag, spec, disk, generation, line, left>>

Crash(p) ==
  /\ left.crashes > 0
  /\ \/ pc[p] \in {"waiting", "running"}
     \/ pc[p] \notin {"gone", "down"} /\ "crash" \in Faults
  /\ Down(p, "down")
  /\ left' = [left EXCEPT !.crashes = @ - 1]
  /\ UNCHANGED <<flag, spec, disk, generation, line>>

-------------------------------------------------------------------------------
(* NewServer                                                               *)

\* The replica count authorises a recovery; a generation that cannot be
\* read counts as 0.  These are two reads, one after the other: only pod 0
\* acts on the first, and only pod 0 changes what the second returns, so no
\* step between them could make a difference to either.
ReadCluster(p) ==
  /\ pc[p] = "down" /\ p < spec
  /\ \E seen \in {generation} \cup (IF "read" \in Faults THEN {0} ELSE {}) :
       start' = [start EXCEPT ![p] = [single |-> p = 0 /\ spec = 1 /\ flag > 1,
                                      seen |-> seen]]
  /\ pc' = [pc EXCEPT ![p] = "read"]
  /\ UNCHANGED <<flag, spec, disk, generation, line, leaders, tick, left>>

\* The bootstrap node raises the generation before it recovers; a failure is
\* logged and the recovery goes on.
BumpGeneration(p) ==
  /\ pc[p] = "read"
  /\ pc' = [pc EXCEPT ![p] = "bumped"]
  /\ \/ /\ start[p].single /\ generation < MaxGeneration
        /\ generation' = generation + 1
        /\ start' = [start EXCEPT ![p].seen = generation + 1]
     \/ /\ ~start[p].single \/ "bump" \in Faults
        /\ UNCHANGED <<generation, start>>
  /\ UNCHANGED <<flag, spec, disk, line, leaders, tick, left>>

\* Variant with a fault: a server of an older generation keeps its state.
NeverStale(p) == FALSE

\* Variant with a fault: the bootstrap node is not exempt.
StaleAnyNode(p) == start[p].seen > disk[p].gen

Stale(p) == p # 0 /\ start[p].seen > disk[p].gen

\* NewRaftStore: clear a stale server, recover the bootstrap node alone,
\* or seed a cluster of one on a bootstrap node without state.
OpenStore(p) ==
  /\ pc[p] = "bumped"
  /\ pc' = [pc EXCEPT ![p] = "opened"]
  /\ LET alone == [conf |-> [q \in {0} |-> "name"], ver |-> disk[p].ver + 1,
                   line |-> line + 1, gen |-> disk[p].gen]
     IN  CASE Stale(p) -> /\ disk' = [disk EXCEPT ![p] = [Blank EXCEPT !.gen = disk[p].gen]]
                          /\ UNCHANGED line
           [] ~Stale(p) /\ p = 0 /\ (start[p].single \/ ~HasState(p)) ->
                /\ disk' = [disk EXCEPT ![p] = alone]
                /\ line' = line + 1
           [] OTHER -> UNCHANGED <<disk, line>>
  /\ UNCHANGED <<flag, spec, start, generation, leaders, tick, left>>

\* The generation the process read becomes the local one, unless the write
\* fails, which is logged.
WriteGeneration(p) ==
  /\ pc[p] = "opened"
  /\ pc' = [pc EXCEPT ![p] = "waiting"]
  /\ \E gen \in {start[p].seen} \cup (IF "write" \in Faults THEN {disk[p].gen} ELSE {}) :
       disk' = [disk EXCEPT ![p].gen = gen]
  /\ UNCHANGED <<flag, spec, start, generation, line, leaders, tick, left>>

-------------------------------------------------------------------------------
(* Elections and replication, within one lineage                           *)

\* The log of q is older than the log of p.
Behind(q, p) ==
  \/ disk[q].line < disk[p].line
  \/ disk[q].line = disk[p].line /\ disk[q].ver < disk[p].ver

\* The voters of p's configuration that answer p: servers of its lineage, and
\* servers of older ones that have no leader of their own.
Reach(p) ==
  {q \in Voters(p) : /\ Running(q) /\ disk[q].line <= disk[p].line
                     /\ \A l \in leaders : disk[l].line = disk[q].line
                                             => disk[l].line = disk[p].line}

Majority(S, of) == 2 * Cardinality(S \cap of) > Cardinality(of)

\* The leader p hears from, if there is one.
Leader(p) == {q \in leaders : p \in Reach(q)}

CanElect(p) ==
  /\ Running(p) /\ p \in Voters(p)
  /\ \A q \in leaders : disk[q].line # disk[p].line
  /\ Majority({q \in Reach(p) : ~Behind(p, q)}, Voters(p))

\* p has been without a leader for the whole --raft-leader-wait-timeout, which
\* outlasts the start and the end of a pod and many elections: every pod has
\* started or ended, and no election can succeed.
Leaderless(p) ==
  /\ Leader(p) = {}
  /\ \A q \in Pods : IF q < spec THEN pc[q] \in {"waiting", "running"}
                     ELSE pc[q] = "gone"
  /\ \A q \in Pods : p \in Reach(q) => ~CanElect(q)

Elect(p) ==
  /\ CanElect(p)
  /\ leaders' = leaders \cup {p}
  /\ UNCHANGED <<flag, spec, pc, disk, start, generation, line, tick, left>>

LoseQuorum(p) ==
  /\ p \in leaders /\ ~Majority(Reach(p), Voters(p))
  /\ leaders' = leaders \ {p}
  /\ tick' = [tick EXCEPT ![p] = NoTick]
  /\ UNCHANGED <<flag, spec, pc, disk, start, generation, line, left>>

Replicate(p) ==
  /\ p \in leaders
  /\ \E q \in Reach(p) :
       /\ Behind(q, p)
       /\ disk' = [disk EXCEPT ![q] = [disk[p] EXCEPT !.gen = disk[q].gen]]
  /\ UNCHANGED <<flag, spec, pc, start, generation, line, leaders, tick, left>>

-------------------------------------------------------------------------------
(* The rest of the startup, and the watch                                  *)

LeaderFound(p) ==
  /\ pc[p] = "waiting" /\ Leader(p) # {}
  /\ pc' = [pc EXCEPT ![p] = "running"]
  /\ UNCHANGED <<flag, spec, disk, start, generation, line, leaders, tick, left>>

\* A startup without a leader ends the process; the pod restarts it.
WaitForLeaderFails(p) ==
  /\ pc[p] = "waiting" /\ Leaderless(p)
  /\ Down(p, "down")
  /\ UNCHANGED <<flag, spec, disk, generation, line, left>>

\* watchSingleNodeRecovery: without a leader at one replica, start again.
WatchRecovery ==
  /\ pc[0] = "running" /\ spec = 1 /\ flag > 1
  /\ Leaderless(0)
  /\ Down(0, "down")
  /\ UNCHANGED <<flag, spec, disk, generation, line, left>>

-------------------------------------------------------------------------------
(* The join loop                                                           *)

Desired == 0 .. flag - 1

\* Variant with a fault: a pod that does not exist counts as a peer.
AnyPeer(q) == TRUE

peerResolvable(q) == pc[q] # "gone"

\* Variant with a fault: a stale address is taken for the current one.
NeverChanged(p, q) == FALSE

addrChanged(p, q) == disk[p].conf[q] # "name"

\* The leader compares its configuration with the desired voters.
JoinTick(p) ==
  /\ p \in leaders /\ pc[p] = "running" /\ tick[p] = NoTick
  /\ tick' = [tick EXCEPT ![p] =
       [add |-> Desired \ Voters(p),
        upd |-> {q \in Desired \cap Voters(p) : addrChanged(p, q)},
        rem |-> Voters(p) \ Desired, readd |-> NoPod]]
  /\ tick' # tick
  /\ UNCHANGED <<flag, spec, pc, disk, start, generation, line, leaders, left>>

\* A configuration change that commits: in the new configuration, or at once
\* through the old one when the leader is its only voter.
Change(p, conf) ==
  \E S \in SUBSET (Reach(p) \cup {p}) :
    /\ p \in S
    /\ Majority(S, DOMAIN conf) \/ Voters(p) = {p}
    /\ disk' = [q \in Pods |->
                  IF q \in S THEN [disk[p] EXCEPT !.conf = conf, !.ver = @ + 1,
                                                  !.gen = disk[q].gen]
                  ELSE disk[q]]

AddVoter(p, q) ==
  Change(p, [r \in Voters(p) \cup {q} |-> IF r = q THEN "name" ELSE disk[p].conf[r]])

RemoveServer(p, q) ==
  /\ Change(p, [r \in Voters(p) \ {q} |-> disk[p].conf[r]])
  /\ leaders' = IF p = q THEN leaders \ {p} ELSE leaders

\* A call that times out ends the reconciliation until the next tick; what it
\* asked for may have happened or not.
JoinFails(p) ==
  /\ p \in leaders /\ tick[p] # NoTick /\ left.crashes > 0
  /\ tick' = [tick EXCEPT ![p] = NoTick]
  /\ left' = [left EXCEPT !.crashes = @ - 1]
  /\ UNCHANGED <<flag, spec, pc, disk, start, generation, line, leaders>>

JoinAdd(p) ==
  /\ p \in leaders
  /\ \E q \in tick[p].add :
       /\ IF peerResolvable(q) THEN AddVoter(p, q) ELSE UNCHANGED disk
       /\ tick' = [tick EXCEPT ![p].add = @ \ {q}]
  /\ UNCHANGED <<flag, spec, pc, start, generation, line, leaders, left>>

JoinUpdate(p) ==
  /\ p \in leaders /\ tick[p].add = {} /\ tick[p].readd = NoPod
  /\ \E q \in tick[p].upd :
       IF peerResolvable(q)
       THEN /\ RemoveServer(p, q)
            /\ tick' = [tick EXCEPT ![p] = IF p = q THEN NoTick
                          ELSE [tick[p] EXCEPT !.upd = @ \ {q}, !.readd = q]]
       ELSE /\ tick' = [tick EXCEPT ![p].upd = @ \ {q}]
            /\ UNCHANGED <<disk, leaders>>
  /\ UNCHANGED <<flag, spec, pc, start, generation, line, left>>

JoinReadd(p) ==
  /\ p \in leaders /\ tick[p].readd # NoPod
  /\ AddVoter(p, tick[p].readd)
  /\ tick' = [tick EXCEPT ![p].readd = NoPod]
  /\ UNCHANGED <<flag, spec, pc, start, generation, line, leaders, left>>

JoinRemove(p) ==
  /\ p \in leaders /\ tick[p].add = {} /\ tick[p].upd = {}
  /\ tick[p].readd = NoPod
  /\ \E q \in tick[p].rem :
       /\ RemoveServer(p, q)
       /\ tick' = [tick EXCEPT ![p] = IF p = q THEN NoTick
                                      ELSE [tick[p] EXCEPT !.rem = @ \ {q}]]
  /\ UNCHANGED <<flag, spec, pc, start, generation, line, left>>

-------------------------------------------------------------------------------

Startup(p) ==
  \/ ReadCluster(p) \/ BumpGeneration(p) \/ OpenStore(p) \/ WriteGeneration(p)
  \/ LeaderFound(p) \/ WaitForLeaderFails(p)

JoinLoop(p) ==
  JoinTick(p) \/ JoinAdd(p) \/ JoinUpdate(p) \/ JoinReadd(p) \/ JoinRemove(p)

Consensus(p) == Elect(p) \/ LoseQuorum(p) \/ Replicate(p)

Next ==
  \/ Scale \/ WatchRecovery
  \/ \E p \in Pods : \/ CreatePod(p) \/ DeletePod(p) \/ Crash(p) \/ JoinFails(p)
                     \/ Startup(p) \/ JoinLoop(p) \/ Consensus(p)

Spec == Init /\ [][Next]_vars

(***************************************************************************)
(* Pods follow the replica count and are restarted, processes that run go  *)
(* on, and consensus makes the progress it can.                            *)
(***************************************************************************)
Fairness ==
  /\ WF_vars(WatchRecovery)
  /\ \A p \in Pods : /\ WF_vars(CreatePod(p)) /\ WF_vars(DeletePod(p))
                     /\ WF_vars(Startup(p)) /\ WF_vars(JoinLoop(p))
                     /\ WF_vars(Elect(p)) /\ WF_vars(LoseQuorum(p))
                     /\ WF_vars(Replicate(p))

FairSpec == Spec /\ Fairness

-------------------------------------------------------------------------------
(* Properties                                                              *)

\* The values the variables take; every other property presupposes it.
ClusterTypeOK ==
  /\ flag \in 1 .. N /\ spec \in {1, flag}
  /\ pc \in [Pods -> {"gone", "down", "read", "bumped", "opened", "waiting", "running"}]
  /\ \A p \in Pods : /\ Voters(p) \subseteq Pods
                     /\ disk[p].line \in 0 .. line
                     /\ disk[p].gen \in 0 .. generation
  /\ leaders \subseteq {p \in Pods : Running(p)}
  /\ generation \in 0 .. MaxGeneration

(***************************************************************************)
(* The fence: once a recovery started a new lineage, a server of an older  *)
(* one leads only while its pod is being removed; no pod that belongs to   *)
(* the cluster forms a second quorum out of an old configuration.          *)
(***************************************************************************)
FencedOff == \A p \in leaders : disk[p].line # line => p >= spec

Cleared(p) == HasState(p) /\ disk'[p].line = 0

\* The bootstrap node has announced a recovery and is about to carry it out.
Recovering == pc[0] = "bumped" /\ start[0].single

(***************************************************************************)
(* A server that is cleared to rejoin loses nothing but what a recovery    *)
(* superseded: another server holds a log at least as new, or the          *)
(* bootstrap node is about to start a new lineage.                         *)
(***************************************************************************)
ClearedIsKept ==
  [][\A p \in Pods : Cleared(p) => \/ Recovering
                                    \/ \E q \in Pods \ {p} : HasState(q) /\ ~Behind(q, p)]_vars

(***************************************************************************)
(* The comment on the fence in NewServer: "A node that starts with an      *)
(* older generation still holds a pre-recovery configuration", so only     *)
(* state of an older lineage is cleared.                                   *)
(***************************************************************************)
OnlyStaleCleared ==
  [][\A p \in Pods : Cleared(p) => Recovering \/ disk[p].line < line]_vars

(***************************************************************************)
(* The cluster recovers by itself: after the last crash and scaling one    *)
(* server of the replica count leads for good, also when the quorum left   *)
(* with the pods and when an address update stopped half way.              *)
(***************************************************************************)
EventuallyLed == <>[](\E p \in leaders : p < spec /\ disk[p].line = line)

(***************************************************************************)
(* The join loop converges: in the end every pod is a voter under its      *)
(* stable name on every pod, and no other voter is left at full scale.     *)
(***************************************************************************)
EventuallyJoined ==
  <>[](\A p \in 0 .. spec - 1 :
         /\ \A q \in 0 .. spec - 1 : q \in Voters(p) /\ disk[p].conf[q] = "name"
         /\ spec = flag => Voters(p) = Desired)
=============================================================================
