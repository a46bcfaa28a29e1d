--------------------------- MODULE ReplicatedStore ---------------------------
(***************************************************************************)
(* The replicated store: the state machine that applies committed commands *)
(* to a key-value bucket (internal/repository/fsm.go), the snapshots of    *)
(* that bucket and the files a node keeps across restarts (bolt.go), and   *)
(* the startup of a node up to the moment it serves (raft.go, and NewServer *)
(* in internal/server/server.go).                                          *)
(*                                                                         *)
(* Consensus is the library hashicorp/raft and is modelled by what its     *)
(* users see: one committed log, a leader that holds all of it, an applied *)
(* index and a commit index that start again from zero.  What is this      *)
(* program's own is that the bucket outlives the process, so a node that   *)
(* restarts applies old commands to a newer bucket, and that a snapshot is *)
(* read after the index it is labelled with was taken.                     *)
(***************************************************************************)
EXTENDS Integers, Sequences, FiniteSetsExt

CONSTANTS
  Nodes,              \* the servers of the cluster
  Channels,           \* identifiers of channels
  Names,              \* user names; a user is created with its name as id
  BootstrapFiles,     \* what a bootstrap file may hold; none without the option
  NoSnapshotRestore,  \* the values of --raft-no-snapshot-restore on restarts
  Concurrent,         \* whether handlers propose before the last is applied
  MaxLog,             \* bound: entries of the log
  MaxCrashes,         \* bound: crashes in one behaviour
  MaxSnapshots        \* bound: snapshots taken in one behaviour

NoNode == "none"

ASSUME StoreAssumption ==
  /\ NoNode \notin Nodes
  /\ Names \subseteq Nat \ {0}
  /\ NoSnapshotRestore \subseteq BOOLEAN /\ Concurrent \in BOOLEAN
  /\ MaxLog \in Nat /\ MaxCrashes \in Nat /\ MaxSnapshots \in Nat

VARIABLES
  log,     \* the committed log; its first entry is the configuration
  ideal,   \* history: ideal[i + 1] is the bucket after the first i entries
  leader,  \* the leader, or NoNode
  node,    \* what each server holds
  snap,    \* the latest snapshot of each server
  pend,    \* the index of a snapshot that is not yet persisted, or 0
  left     \* crashes and snapshots that may still happen

vars == <<log, ideal, leader, node, snap, pend, left>>

-------------------------------------------------------------------------------
(* The bucket and the commands                                             *)

\* A record's value is the index of the entry that brought its contents, for
\* the server configuration its session secret; a user's value is its name,
\* and an index entry's the id.  The first entry brings nothing, so its index
\* stands for what DefaultGlobalConfig has, which is no secret.
Absent == 0
Default == 1
ConfigKey == <<"global", 0>>
DefaultsKey == <<"defaults", 0>>
ChannelKey(c) == <<"channel", c>>
UserKey(n) == <<"user", n>>
IndexKey(n) == <<"index", n>>

Keys == {ConfigKey, DefaultsKey} \cup {ChannelKey(c) : c \in Channels}
          \cup {UserKey(n) : n \in Names} \cup {IndexKey(n) : n \in Names}

\* The contents of a bootstrap file do not depend on when it is applied.
FromFile == MaxLog + 1

Bucket == [Keys -> Names \cup 0 .. FromFile]
Empty == [k \in Keys |-> Absent]

(***************************************************************************)
(* A command writes `entries', a function from keys to values in which     *)
(* Absent deletes; the keys of one command are distinct, so their order    *)
(* does not matter.                                                        *)
(***************************************************************************)
Put(s, entries) ==
  [k \in Keys |-> IF k \in DOMAIN entries THEN entries[k] ELSE s[k]]

Single(k, v) == [x \in {k} |-> v]

Noop == [op |-> "noop", key |-> ConfigKey, entries |-> <<>>]

CreateChannel(c, i) ==
  [op |-> "create-channel", key |-> ChannelKey(c),
   entries |-> Single(ChannelKey(c), i)]

UpdateChannel(c, i) ==
  [op |-> "set", key |-> ChannelKey(c), entries |-> Single(ChannelKey(c), i)]

DeleteChannel(c) ==
  [op |-> "delete", key |-> ChannelKey(c),
   entries |-> Single(ChannelKey(c), Absent)]

CreateUser(n) ==
  [op |-> "create-user", key |-> UserKey(n),
   entries |-> [k \in {UserKey(n), IndexKey(n)} |-> n]]

\* The user record, the entry of its new name, and the old entry's removal.
UpdateUser(s, id, name) ==
  LET old == {IndexKey(s[UserKey(id)])} \ {IndexKey(name)}
  IN  [op |-> "set-multi", key |-> UserKey(id),
       entries |-> [k \in {UserKey(id), IndexKey(name)} \cup old |->
                      CASE k = UserKey(id)    -> name
                        [] k = IndexKey(name) -> id
                        [] OTHER              -> Absent]]

DeleteUser(s, id) ==
  [op |-> "set-multi", key |-> UserKey(id),
   entries |-> [k \in {UserKey(id), IndexKey(s[UserKey(id)])} |-> Absent]]

\* Both records of the configuration, read and written back; the API does not
\* let the secret be changed.
UpdateGlobalConfig(s, i) ==
  [op |-> "set-multi", key |-> ConfigKey,
   entries |-> [k \in {ConfigKey, DefaultsKey} |->
                  IF k = DefaultsKey THEN i
                  ELSE IF s[k] = Absent THEN Default ELSE s[k]]]

\* DefaultGlobalConfig stands in for records that are not there.
SetSessionSecret(s, i) ==
  [op |-> "set-multi", key |-> ConfigKey,
   entries |-> [k \in {ConfigKey, DefaultsKey} |->
                  IF k = ConfigKey THEN i
                  ELSE IF s[k] = Absent THEN Default ELSE s[k]]]

\* The sections of a bootstrap file, each of them optional, as one command.
ASSUME FileAssumption ==
  \A file \in BootstrapFiles :
    \E D \in SUBSET Keys : file \in [D -> Nat \ {0}]

ApplyBootstrap(file) ==
  [op |-> "bootstrap", key |-> ConfigKey, entries |-> file]

\* Variant with a fault: the bootstrap command does not look for data.
RefusedUnlessBootstrap(s, c) ==
  c.op \in {"create-channel", "create-user"} /\ s[c.key] # Absent

\* The state machine rejects the command and leaves the bucket alone.
Refused(s, c) ==
  \/ c.op \in {"create-channel", "create-user"} /\ s[c.key] # Absent
  \/ c.op = "bootstrap" /\ s # Empty

Apply(s, c) == IF Refused(s, c) THEN s ELSE Put(s, c.entries)

\* The commands the handlers of a leader whose bucket is s may propose as
\* entry i.
Proposals(s, i) ==
  {CreateChannel(c, i) : c \in Channels}
    \cup {UpdateChannel(c, i) : c \in {d \in Channels : s[ChannelKey(d)] # Absent}}
    \cup {DeleteChannel(c) : c \in Channels}
    \cup {UpdateGlobalConfig(s, i)}
    \cup {CreateUser(n) : n \in Names}
    \cup {UpdateUser(s, id, n) : id \in {m \in Names : s[UserKey(m)] # Absent},
                                 n \in Names}
    \cup {DeleteUser(s, id) : id \in {m \in Names : s[UserKey(m)] # Absent}}

-------------------------------------------------------------------------------
(* The servers                                                             *)

NoSnapshot == [index |-> 0, data |-> Empty, upto |-> 0]

\* status: down, waiting for a clean state, ready for the bootstrap file,
\* loading it, waiting for its command, past it, without a session secret,
\* waiting for the command that sets one, polling for it, serving.  last, store and high survive
\* a crash; high is history: the last entry whose effect is in the bucket.
Fresh == [status |-> "waiting", last |-> 0, commit |-> 0, applied |-> 0,
          store |-> Empty, high |-> 0]

Up(n) == node[n].status # "down"
HasData(s) == s # Empty

\* The bootstrap node has the first configuration; another server may have
\* received it, may have nothing yet, or may not have been started.
Init ==
  /\ log = <<Noop>>
  /\ ideal = <<Empty, Empty>>
  /\ leader = NoNode
  /\ node \in [Nodes -> {Fresh, [Fresh EXCEPT !.last = 1],
                         [Fresh EXCEPT !.status = "down"]}]
  /\ \E n \in Nodes : node[n].last = 1
  /\ snap = [n \in Nodes |-> NoSnapshot]
  /\ pend = [n \in Nodes |-> 0]
  /\ left = [crashes |-> MaxCrashes, snapshots |-> MaxSnapshots]

-------------------------------------------------------------------------------
(* Consensus, as far as the store sees it                                  *)

Elect(n) ==
  /\ leader = NoNode /\ Up(n) /\ node[n].last = Len(log)
  /\ leader' = n
  /\ UNCHANGED <<log, ideal, node, snap, pend, left>>

\* The entry a new leader writes commits everything before it.
LeaderCommits(n) ==
  /\ leader = n /\ node[n].commit < Len(log)
  /\ node' = [node EXCEPT ![n].commit = Len(log)]
  /\ UNCHANGED <<log, ideal, leader, snap, pend, left>>

\* A follower stores entries of the leader's log and learns the commit
\* index as far as its own log reaches.
AppendEntries(n) ==
  /\ leader \notin {NoNode, n} /\ Up(n)
  /\ \E i \in node[n].last .. Len(log) :
       LET c == Min({node[leader].commit, i})
       IN  /\ i > node[n].last \/ c > node[n].commit
           /\ node' = [node EXCEPT ![n].last = i,
                                   ![n].commit = Max({@, c})]
  /\ UNCHANGED <<log, ideal, leader, snap, pend, left>>

Append1(n, c, status) ==
  /\ Len(log) < MaxLog
  /\ log' = Append(log, c)
  /\ ideal' = Append(ideal, Apply(ideal[Len(ideal)], c))
  /\ node' = [node EXCEPT ![n].last = @ + 1, ![n].commit = Len(log) + 1,
                          ![n].status = status]

\* A handler of the leader has a command replicated.
Propose(n) ==
  /\ leader = n /\ node[n].status = "serving" /\ node[n].commit = Len(log)
  /\ Concurrent \/ node[n].applied = Len(log)
  /\ \E c \in Proposals(node[n].store, Len(log) + 1) : Append1(n, c, "serving")
  /\ UNCHANGED <<leader, snap, pend, left>>

-------------------------------------------------------------------------------
(* The state machine of one server                                         *)

ApplyNext(n) ==
  /\ Up(n) /\ node[n].applied < node[n].commit
  /\ LET i == node[n].applied + 1
     IN  node' = [node EXCEPT ![n].store = Apply(@, log[i]),
                              ![n].applied = i,
                              ![n].high = Max({@, i})]
  /\ UNCHANGED <<log, ideal, leader, snap, pend, left>>

\* FSM.Snapshot: the index is fixed, nothing is read yet.
SnapshotStart(n) ==
  /\ Up(n) /\ pend[n] = 0 /\ left.snapshots > 0
  /\ node[n].applied > snap[n].index
  /\ pend' = [pend EXCEPT ![n] = node[n].applied]
  /\ left' = [left EXCEPT !.snapshots = @ - 1]
  /\ UNCHANGED <<log, ideal, leader, node, snap>>

\* Snapshot.Persist reads the bucket now, whatever was applied since; the
\* file store keeps the snapshot with the highest index.
Persist(n) ==
  /\ Up(n) /\ pend[n] # 0
  /\ snap' = IF pend[n] <= snap[n].index THEN snap
             ELSE [snap EXCEPT ![n] = [index |-> pend[n],
                                       data |-> node[n].store,
                                       upto |-> node[n].high]]
  /\ pend' = [pend EXCEPT ![n] = 0]
  /\ UNCHANGED <<log, ideal, leader, node, left>>

\* Variant with a fault: keys the snapshot does not have are kept.
RestoreMerged(r, s) ==
  [r EXCEPT !.store = [k \in Keys |-> IF s.data[k] = Absent THEN r.store[k]
                                      ELSE s.data[k]],
            !.applied = s.index, !.high = s.upto]

\* FSM.Restore clears the bucket and fills it from the snapshot.
Restore(r, s) ==
  [r EXCEPT !.store = s.data, !.applied = s.index, !.high = s.upto]

\* The leader sends its snapshot to a follower whose log ends before it.
InstallSnapshot(n) ==
  /\ leader \notin {NoNode, n} /\ Up(n)
  /\ snap[leader].index > node[n].last
  /\ node' = [node EXCEPT ![n] = [Restore(@, snap[leader])
                                    EXCEPT !.last = snap[leader].index]]
  /\ snap' = [snap EXCEPT ![n] = snap[leader]]
  /\ UNCHANGED <<log, ideal, leader, pend, left>>

-------------------------------------------------------------------------------
(* Startup                                                                 *)

(***************************************************************************)
(* IsCleanState: the applied index has reached the commit index; only a    *)
(* follower needs a commit index other than zero, and contact with the     *)
(* leader, which here is that there is one (WaitForLeader asks the same).  *)
(***************************************************************************)
IsCleanState(n) ==
  /\ leader # NoNode
  /\ node[n].commit = node[n].applied
  /\ leader # n => node[n].commit # 0

WaitForCleanState(n) ==
  /\ node[n].status = "waiting" /\ IsCleanState(n)
  /\ node' = [node EXCEPT ![n].status = "ready"]
  /\ UNCHANGED <<log, ideal, leader, snap, pend, left>>

\* The process ends; what is not on disk is gone.
Stop(n) ==
  /\ node' = [node EXCEPT ![n].status = "down", ![n].commit = 0]
  /\ leader' = IF leader = n THEN NoNode ELSE leader
  /\ pend' = [pend EXCEPT ![n] = 0]

\* The leader of an empty store goes on to load the bootstrap file.
CheckBootstrap(n) ==
  /\ node[n].status = "ready"
  /\ node' = [node EXCEPT ![n].status =
                 IF BootstrapFiles # {} /\ leader = n /\ ~HasData(node[n].store)
                 THEN "loading" ELSE "booted"]
  /\ UNCHANGED <<log, ideal, leader, snap, pend, left>>

\* The file is loaded; if the store is still empty its contents are
\* replicated, and otherwise the process ends.
ApplyBootstrapOnce(n) ==
  /\ node[n].status = "loading" /\ leader = n
  /\ \/ /\ ~HasData(node[n].store)
        /\ \E file \in BootstrapFiles :
             Append1(n, ApplyBootstrap(file), "bootstrapping")
        /\ UNCHANGED <<leader, pend>>
     \/ /\ HasData(node[n].store)
        /\ Stop(n)
        /\ UNCHANGED <<log, ideal>>
  /\ UNCHANGED <<snap, left>>

SessionSecret(n) ==
  LET v == node[n].store[ConfigKey] IN IF v = Default THEN Absent ELSE v

\* A server that has the session secret serves; without one it looks next
\* whether it is the leader.
ReadSecret(n) ==
  /\ node[n].status = "booted"
  /\ node' = [node EXCEPT ![n].status =
                 IF SessionSecret(n) # Absent THEN "serving" ELSE "unsigned"]
  /\ UNCHANGED <<log, ideal, leader, snap, pend, left>>

\* The leader generates a secret; any other server polls for it from here on.
GenerateSecret(n) ==
  /\ node[n].status = "unsigned"
  /\ IF leader = n
     THEN Append1(n, SetSessionSecret(node[n].store, Len(log) + 1),
                  "signing")
     ELSE /\ node' = [node EXCEPT ![n].status = "polling"]
          /\ UNCHANGED <<log, ideal>>
  /\ UNCHANGED <<leader, snap, pend, left>>

\* The command was applied here; that the state machine refused a bootstrap
\* goes unnoticed.
CommandApplied(n) ==
  /\ node[n].status \in {"bootstrapping", "signing"}
  /\ node[n].applied = node[n].commit
  /\ node' = [node EXCEPT ![n].status = IF @ = "signing" THEN "serving"
                                        ELSE "booted"]
  /\ UNCHANGED <<log, ideal, leader, snap, pend, left>>

\* The poll finds the secret, or its deadline passes: a store with users or
\* OIDC providers stops the process, one without serves unsigned.  The
\* providers' record is left out of the bucket: a store with data may have it.
PollSecret(n) ==
  /\ node[n].status = "polling"
  /\ \/ /\ \/ SessionSecret(n) # Absent
           \/ \A m \in Names : node[n].store[UserKey(m)] = Absent
        /\ node' = [node EXCEPT ![n].status = "serving"]
        /\ UNCHANGED <<leader, pend>>
     \/ /\ SessionSecret(n) = Absent /\ HasData(node[n].store)
        /\ Stop(n)
  /\ UNCHANGED <<log, ideal, snap, left>>

Crash(n) ==
  /\ Up(n) /\ left.crashes > 0
  /\ Stop(n)
  /\ left' = [left EXCEPT !.crashes = @ - 1]
  /\ UNCHANGED <<log, ideal, snap>>

\* What NewRaft makes of the files: the bucket of the latest snapshot, or
\* the bucket as it was left, counting as applied what a snapshot covers.
Reopened(n, noRestore) ==
  IF snap[n].index = 0 \/ noRestore
  THEN [node[n] EXCEPT !.applied = snap[n].index]
  ELSE Restore(node[n], snap[n])

Restart(n) ==
  /\ ~Up(n)
  /\ \E noRestore \in NoSnapshotRestore :
       node' = [node EXCEPT ![n] = [Reopened(n, noRestore)
                                      EXCEPT !.status = "waiting"]]
  /\ UNCHANGED <<log, ideal, leader, snap, pend, left>>

\* The bucket after entries i .. j are applied to s.
Replayed(s, i, j) ==
  LET f[k \in i - 1 .. j] == IF k = i - 1 THEN s ELSE Apply(f[k - 1], log[k])
  IN  f[j]

(***************************************************************************)
(* Single-node recovery: RecoverCluster restores the latest snapshot,      *)
(* applies the rest of the log, and leaves a snapshot of the result.       *)
(***************************************************************************)
Recover(n) ==
  /\ ~Up(n) /\ node[n].last = Len(log) /\ \A m \in Nodes \ {n} : ~Up(m)
  /\ LET base == Reopened(n, FALSE)
         s    == Replayed(base.store, base.applied + 1, Len(log))
     IN  /\ node' = [node EXCEPT ![n] =
                       [base EXCEPT !.status = "waiting", !.store = s,
                                    !.applied = Len(log), !.high = Len(log)]]
         /\ snap' = [snap EXCEPT ![n] = [index |-> Len(log), data |-> s,
                                         upto |-> Len(log)]]
  /\ UNCHANGED <<log, ideal, leader, pend, left>>

\* A node of an older generation removes its files and joins as a new one.
ClearAndRestart(n) ==
  /\ ~Up(n) /\ \E m \in Nodes \ {n} : Up(m) /\ node[m].last = Len(log)
  /\ node' = [node EXCEPT ![n] = Fresh]
  /\ snap' = [snap EXCEPT ![n] = NoSnapshot]
  /\ UNCHANGED <<log, ideal, leader, pend, left>>

-------------------------------------------------------------------------------

ServerStep(n) ==
  \/ Elect(n) \/ LeaderCommits(n) \/ AppendEntries(n)
  \/ ApplyNext(n) \/ SnapshotStart(n) \/ Persist(n) \/ InstallSnapshot(n)
  \/ WaitForCleanState(n) \/ CheckBootstrap(n) \/ ApplyBootstrapOnce(n)
  \/ ReadSecret(n) \/ GenerateSecret(n) \/ CommandApplied(n) \/ PollSecret(n) \/ Restart(n)

Next ==
  \E n \in Nodes : \/ ServerStep(n) \/ Propose(n) \/ Crash(n)
                   \/ Recover(n) \/ ClearAndRestart(n)

Spec == Init /\ [][Next]_vars

-------------------------------------------------------------------------------
(* Properties                                                              *)

\* The values the variables take; every other property presupposes it.
StoreTypeOK ==
  /\ Len(log) \in 1 .. MaxLog /\ Len(ideal) = Len(log) + 1
  /\ \A i \in DOMAIN ideal : ideal[i] \in Bucket
  /\ leader \in Nodes \cup {NoNode}
  /\ \A n \in Nodes :
       /\ node[n].store \in Bucket
       /\ node[n].applied \in 0 .. Len(log) /\ node[n].high \in 0 .. Len(log)
       /\ node[n].commit \in 0 .. node[n].last
       /\ node[n].last \in 0 .. Len(log)
       /\ snap[n].data \in Bucket /\ snap[n].index \in 0 .. Len(log)
       /\ pend[n] \in 0 .. Len(log)

CaughtUp(n) == node[n].applied >= node[n].high

Effective(i) == log[i].op = "bootstrap" /\ ideal[i + 1] # ideal[i]

\* No other command came before the bootstrap file, and it is the only one
\* or it left a configuration.
BootstrapFirst ==
  \A i \in DOMAIN log : log[i].op = "bootstrap" =>
    /\ log[2].op = "bootstrap"
    /\ i = 2 \/ ConfigKey \in DOMAIN log[2].entries

(***************************************************************************)
(* Crash recovery loses and invents nothing: once a server has applied as  *)
(* much as its bucket ever held, its configuration and channel records are *)
(* those the log defines, although old commands were applied to a newer    *)
(* bucket (after a restart without a snapshot, or from a snapshot that     *)
(* Persist read late) and created records were refused on the way.  The    *)
(* exception is a bootstrap file that followed other commands, be it       *)
(* another file without a configuration: one that took effect is refused   *)
(* as a whole when it is applied again, and one that was refused takes     *)
(* effect when the bucket was emptied since.                               *)
(***************************************************************************)
Recovered ==
  \A n \in Nodes : BootstrapFirst /\ CaughtUp(n) =>
    /\ \A k \in {ConfigKey, DefaultsKey} :
         node[n].store[k] = ideal[node[n].applied + 1][k]
    /\ \A c \in Channels : node[n].store[ChannelKey(c)] =
                             ideal[node[n].applied + 1][ChannelKey(c)]

(***************************************************************************)
(* The same for user records and the index of their names, which one       *)
(* transaction writes so that a crash cannot separate them.                *)
(***************************************************************************)
RecoveredUsers ==
  \A n \in Nodes : CaughtUp(n) =>
    \A m \in Names :
      /\ node[n].store[UserKey(m)] = ideal[node[n].applied + 1][UserKey(m)]
      /\ node[n].store[IndexKey(m)] = ideal[node[n].applied + 1][IndexKey(m)]

(***************************************************************************)
(* A bootstrap file takes effect at most once, however often a leader finds *)
(* its own bucket empty (a crash before the first apply, an election        *)
(* between the check and the command): once a file with a configuration     *)
(* took effect none does again.  A file without one leaves a store that     *)
(* deletions can empty, until a leader adds the session secret.             *)
(***************************************************************************)
BootstrapOnce ==
  \A i, j \in DOMAIN log : i < j /\ Effective(i) /\ Effective(j) =>
    ConfigKey \notin DOMAIN log[i].entries

(***************************************************************************)
(* The startup barrier: a server that serves has applied every entry its   *)
(* bucket already held before it restarted.                                *)
(***************************************************************************)
ServesRecovered ==
  \A n \in Nodes : node[n].status = "serving" => CaughtUp(n)
=============================================================================
