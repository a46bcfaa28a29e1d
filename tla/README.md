# TLA+ models of gohookbridge

gohookbridge receives webhooks over HTTP, spreads them to the nodes of a cluster
over NATS, keeps the recent ones in memory and relays them to clients as
server-sent events. Its configuration (channels, users, tokens, cursors) is
replicated with Raft. This directory holds the TLA+ models of its core, the TLC
runs that check them on small instances, and TLAPS proofs of the most important
invariants for every size of the instance.

## The system

| part | state it keeps | operations | source |
|---|---|---|---|
| ring buffer | slots, head, tail, full, bytes, TTLs | Append, Get, SetChannelTTL, cleanup | `pkg/nats/buffer.go` |
| broker | subscribers of each channel, their queues and byte budgets | NATS callback, fanout, Subscribe, Unsubscribe, Ack | `pkg/nats/broker.go` |
| event stream handler | places of the connection limiter, one session per request | GET /events/{channel} | `internal/handler/events.go` |
| webhook ingress | none | POST /{channel}: limits, signature, token, encryption, publication | `internal/handler/webhook.go`, `internal/service/publish.go` |
| replicated store | Raft log, FSM bucket, snapshots, membership | Apply, Snapshot, Restore, bootstrap, join loop | `internal/repository` |
| accounts | users, username index, auth epoch, roles, providers, tokens (in the store) | create, update, delete, login, session check | `internal/service`, `internal/handler/api.go`, `auth.go`, `oidc.go` |
| abuse control | request times, failures and bans per IP, login attempts | Allow, record and ban, Unban, Sweep | `internal/service/ratelimit.go` |
| cluster membership | Raft configuration, lineage and generation of each pod, the reconciliation under way | join loop, single-node recovery, generation fence | `internal/repository/raft.go`, `internal/server` |
| client and proxy | the stream being read, payloads being forwarded | parse, decrypt, save, forward, run a command, reconnect, poll GitHub | `internal/client`, `internal/proxy` |
| server | wiring, generation marker, leader forwarding | start, recover, forward | `internal/server`, `internal/handler/leader_forward.go` |
| certificate reload | the current certificate and its modification time | poll, reload | `pkg/tlsreload` |

How they interact: ingress publishes on the subject `webhook.<channel>`; NATS
calls every node's broker callback, which appends to the ring and then fans out
to the live queues of the streams on that node. A stream handler registers its
queue first and drains the ring second, writes the history, then follows its
queue, and stores the client's position in the replicated store when it ends.
Every administrative request reads the local FSM, decides, and applies a command
through the Raft leader.

What is hard about it: the callback, the cleanup goroutine and one goroutine per
stream share the ring and the subscriber table under two different locks;
clients leave at any point; payload arrays are shared between the ring and the
queues; several budgets (entries, bytes, age, queue depth, queue bytes,
connections) are kept by counters updated in several places; administrative
operations are read-modify-write over a replicated log without a transaction; a
webhook post reads the store anew for each of its decisions; the bucket the log
is applied to outlives the process, so a restart applies old commands to newer
data; and the cluster repairs its own membership while pods come and go.
`PROJECT.json` lists these as hazards, each at its line.

What makes each part correct:

- ring: indices, flag and slots agree; oldest first; the byte count is exact and
  bounded; Get returns the live entries asked for, in order; the expired go away;
- broker and streams: no send on a closed queue, no leaked subscriber or limiter
  place, no gap between history and live, order kept, a departed client's
  handler ends, a position that loses nothing, payloads delivered unchanged;
- store: a restart, a snapshot or a recovery leaves what the log defines; the
  bootstrap file takes effect once;
- cluster: no two quorums, no lost log, and a leader and full membership in the
  end without anyone's help;
- accounts: a revoked session stays revoked, an admin and an authentication
  provider remain, the username index matches the users; requests that overlap
  break each of these, and what can be said is which overlap it takes;
- abuse control: the limiter's memory of a window is exact, guessing is slow,
  only attacks are banned, a ban lasts its time;
- ingress: a post is answered as the settings say, passes no check because they
  changed meanwhile (the signature check excepted, outside strict mode), and is
  never relayed in the clear on an encrypted channel;
- client: every message is handled, in order, and a failure stays with its
  message;
- certificate reload: what is on disk comes into use.

## Modules

| module | models | composition |
|---|---|---|
| `RetainedLog` | what a ring promises: a bounded FIFO of timestamped entries | abstract specification |
| `RingBuffer` | `buffer.go` | implements `RetainedLog` |
| `EventStream` | `broker.go` and `events.go` | instantiates `RingBuffer` for its ring |
| `Accounts` | users, sessions and providers: `api.go`, `auth.go`, `internal/service`, the account records of `raft.go` and `fsm.go` | stands alone |
| `ReplicatedStore` | `fsm.go`, snapshots (`bolt.go`), restart and recovery (`raft.go`), startup barrier, bootstrap file and session secret (`server.go`) | consensus is external |
| `Cluster` | join loop (`raft.go`), recovery watch and generation fence (`server.go`, `raft_generation.go`) | the membership side of the same startup |
| `Throttle` | `service/ratelimit.go`, `handler/ratelimit.go`, the throttled part of the login | stands alone |
| `Ingress` | `middleware.go`, `webhook.go`, `publish.go`, and the channel administration that runs against them | TTLs go to the ring of `RingBuffer` |
| `Client` | `client.go`, `replay.go` | the reader of what `EventStream` sends |
| `TLSReload` | `tlsreload.go` | stands alone |
| `MCRingBuffer`, `MCEventStream`, `MCAccounts`, `MCReplicatedStore`, `MCThrottle`, `MCIngress`, `MCClient` | small sets of channels, streams, users, nodes, configurations, messages | extend the above for TLC |
| `RingBufferProofs`, `EventStreamProofs`, `IngressProofs`, `ThrottleProofs`, `AccountsProofs`, `ClusterProofs`, `ReplicatedStoreProofs`, `ClientProofs` | theorems | each extends the module it is named after and TLAPS |

### RingBuffer

`entries`, `head`, `tail`, `full`, `currentBytes` and `channelTTLs` are the
fields of the struct. A payload is an identity (its number of arrival) with a
size. `Append` runs under the ring's mutex but evicts in a loop, so it is kept
as a loop: `AppendLock`, one `AppendEvictForBytes` per iteration,
`AppendEvictWhenFull`, `AppendStore`; `wr` is the position of the writer, and
while it is not idle the mutex is held and no other operation is enabled.
`evictExpired` (one action: the rebuild has no intermediate state another
goroutine can see) and `SetChannelTTL` complete the operations; `Get` is an
operator, since it changes nothing. Time is a counter of ticks; Go's zero time
is 0 and `now` starts at 1. `zeroed` records which payloads had their array
overwritten by an eviction, which matters to whoever still holds the array.

### EventStream

The callback goroutine is `fan`: `Deliver`, `DeliverEvict` and `DeliverStore`
are the ring's Append; `FanoutLock` takes `b.mu.RLock` and reads the
subscribers, `FanoutSend` is one iteration of the loop with its `trySend`. While
`fan.pc = "send"` the lock is held, so `Register` and `Unsubscribe`, which
write-lock it, wait. The handler of stream `s` follows `HandleEventsGet`: `Open`
(limiter), `Greet`, `ReadCursor` (whose error is dropped: the stream starts from
the beginning), `Register` and `Drain` (the two halves of
Subscribe), `WriteHistory`, the loop `Receive`, `Ack`, `WriteLive`, `ClientGone`,
`KeepaliveFails`, then `SaveCursor`, `Unsubscribe`, `Release`. Every write may
fail, and a failed write leaves by the code's own early return: before the
subscription straight to `Release`, in the history to `Unsubscribe` without
saving the position. A request refused by the limiter changes nothing and is the
absence of `Open`. Messages of the embedded NATS server are external: any
message may arrive at any time, one at a time, in one order.

`lost`, `cut`, `lastLive`, `shown` and `mangled` are history variables: what
fanout dropped because of a bound, whether the drain limit cut the history, the
last live message taken, what was written to the client and what was written
after its array had been overwritten.

### Accounts

`db` holds the account records: `users` by identifier (the name at creation; a
rename keeps it), `index` (the `/users/by-username/` entries), `epoch`, `flag`
(internal auth: unset, on, off) and the list of OIDC `providers`. A request is
in `req`: its input, the copy of the user it works on, the command it is about
to replicate, and `pc`, the database access that comes next. A handler is one
action per read of the local database and one per command, since nothing is
locked in between: `updateUser`, `SaveUser` (the second read, inside
`RaftStore.UpdateUser`), `ApplyCommand`, `BumpRead`, `BumpApply`; for a binding
`updateBinding`, `UpdateUserBinding` and then the same; for a deletion
`deleteUser`, `CountAdmins`, `RemoveUser`; for providers one or two reads
(`deleteOIDCProvider`, `CheckLastProvider`). A helper that makes several reads
for one answer (`ListUsers`, `IsInternalAuthEnabled`, `GetUserByUsername`) is one
step. `Apply` is `FSM.Apply`: one transaction per command. A command may fail,
with or without having been applied (`ApplyFails`, `BumpFails`); the handlers
ignore the failure of a bump. Any number of requests and logins overlap. A login is
`CheckPassword`, `LookupUser`, `MintSession`; `Accepted` is what `RequireAuth`
demands of a token. Permissions of the caller are left out: a refused request
changes nothing, and the model lets every request through. Passwords, channels
and group claims are data no property tells apart. Three history variables:
`dead` holds the tokens outstanding when a bump was applied; `stale` the requests
that have read something (`Basis`) which another request has changed since; and
`raced` the groups of records (users, auth, epoch) to which a command of a stale
request was applied. `Asked` and `Stores` choose the requests that are sent and
the bootstrapped stores a behaviour starts from.

### ReplicatedStore

One committed `log`; `node[n]` is what a server holds: how far its log reaches,
its commit and applied index, and the bucket `store`, which is a file and
survives a crash (the indices do not). `ideal` is a history variable, the bucket
that the log defines after each entry, and `high` the last entry whose effect is
in a bucket. Commands are built by the operators with the names of the
`RaftStore` methods, from the bucket of the leader at that moment; `Apply` is
`FSM.Apply` with its refusals. `SnapshotStart` fixes the index and `Persist`
reads the bucket later, which is when the code reads it. `Restart` has the two
forms of `--raft-no-snapshot-restore`; `Recover` is `RecoverCluster`;
`ClearAndRestart` is the cleared server of an older generation. The startup of a
server is `WaitForCleanState`, `CheckBootstrap` (the first look at the bucket),
`ApplyBootstrapOnce` (which looks again and stops the process if data has come
meanwhile), `ReadSecret`, `GenerateSecret` or `PollSecret`. Elections,
replication and the installation of a snapshot are hashicorp/raft's and are
modelled by what the store sees of them. A record's value is the index of the
log entry that brought its contents, a user record's the user's present name;
the global configuration is two keys, the server section, of which the session
secret matters, and the defaults. A bootstrap file is a function from the keys
it fills to their values, since each of its sections is optional
(`BootstrapFiles`). The record of OIDC providers is left out: it is one key
written as a whole, as the defaults are, and where `PollSecret` looks whether
there are providers the model allows either answer.

### Cluster

The pods of a StatefulSet, the replica count the operator sets, and for each pod
its configuration, the lineage of its log (a recovery starts a new one) and its
generation file. The startup is one action per access to the outside:
`ReadCluster` (replica count and generation, one action because only pod 0 acts
on the count and only pod 0 changes the generation), `BumpGeneration`, `OpenStore`
(clear, recover or seed), `WriteGeneration`, then `LeaderFound` or
`WaitForLeaderFails`. The join loop is `JoinTick` (compare), then one
configuration change at a time: `JoinAdd`, `JoinUpdate` and `JoinReadd` (an
address is changed by a removal and an addition), `JoinRemove`; a crash, a loss of the
quorum, or a call that times out (`JoinFails`) may come between any two of them.
`WatchRecovery` is the watch that ends the process of a leaderless pod 0 at one
replica. Faults that need an outage of the Kubernetes API or of the disk are in
the constant `Faults` and off in the run: a generation that cannot be read
(the code then writes generation 0 over the local one), bumped or written, a
crash in the middle of the startup, a scaling before the pods are ready, and a
stale address together with a lowered `--raft-replicas`. The run also assumes that
`--raft-leader-wait-timeout` outlasts the start or end of a pod and an election.

### Throttle

`limiter`, `tracker` and `throttle` are the fields of the three structs. A login
is `Arrive` (`BanMiddleware`), `RateLimit`, `ThrottleAllow`, and `LoginFails` or
`LoginSucceeds`, with the clock, other requests and the administrator
(`UpdateConfig`, `Unban`, `ListBans`) in between. Each step reads the
configuration before it takes the lock of its tracker; `seen` holds the
configurations in force since the step before, and the step uses any one of
them. Windows are ticks; an unset or
negative window goes through `clampWindow` where the code does that and is used
as it is where the code does that. `hist` holds what was let through and what
failed, for the properties.

### Ingress

A post is one action per read of the store. Each resolution of its settings is
two: `GetChannel`, then the step that reads the global configuration and decides,
which is `CheckAccess`, `ResolveConfig`, `ResolveSecret` or `EncryptForChannel`.
The other steps are `ValidateChannelToken` (which demands a token of the scope
"produce" or "both"), `VerifySignature`, `ReadMode`, `EncryptAgain` and `Publish`
(which sets the TTL before it publishes, and may fail). An administrative request
reads the whole channel
(`AdminReads`), writes the whole channel (`AdminWrites`) and tells the TTL in two
more steps (`AdminNotifies`, `OnChannelChanged`), so that two of them may
overtake each other. `seen` collects the settings in force during a post; the
properties are stated over it. `Answer` is an independent definition of the right
answer under one setting. Bodies are valid JSON of an allowed size.

### Client

`client` and `replay` share the message pipeline `saveData`, `replayData`,
`runExecCommand` (each may fail) in the two orders the code has. For the client,
`Connect`, `Read` (the reader goroutine of the SSE library, one message ahead)
and `Handle` (the callback up to its first effect); `Lose` is a message that the
server does not send again, because the ring no longer has it, the history was
cut or the queue was full (see `EventStream`); `Exit` is the end of the process,
killed or because Subscribe returned; for replay `List`,
`NextDelivery`, `GetHookDelivery` (three fetches, as in the code), `Advance`. `Accepted`
collects the early returns of the callback: keepalives, undecryptable texts,
missing headers, "ready". `Parsed` is `parse`: an event of the ignore list is
logged as skipped there and goes on like any other. A sealed text is an algorithm, a key and the channel
it is bound to.

### TLSReload

Three files with version and modification time, a rotation that replaces them
one by one and advances the clock with each, the provider reading them one by
one and then their times, and `TLSConfig`, which copies the CA pool once into the
configuration that connections use.

Definitions called "variant with a fault" are faulty versions of the operation
that follows them; they are used to confirm that each property can fail.

## Runs

| run | checks | bounds and why they suffice |
|---|---|---|
| `ring` | `TypeOK RingInv FIFOInv BytesInv BudgetInv GetInv ExpiredIsRemoved`, refinement of `RetainedLog` | 2 channels, 3 slots, 5 appends: the indices wrap more than once; sizes 1 and 3 of 4 bytes: one payload can evict several; a TTL of 1 next to MaxAge 2 makes expiry non-monotonic in ring order |
| `stream` | `NoSendOnClosed SubsMatchStreams LimiterExact NoGap QueueBytesExact LiveInOrder QueueIsServed StreamIsReleased` | 1 stream used any number of times by one client, 3 messages of 2 bytes, ring of 2 slots, queue of 2 and of 5 bytes, drain limit 1, age limit 1 of 2 ticks: eviction, expiry, cut history and drops by depth and by bytes (a third message while one is in hand and one queued) all occur. One stream, because two make the liveness properties too dear; the safety properties are proved for any number |
| `accounts` | `AccountsTypeOK IndexLostOnlyByRace AdminLostOnlyByRace ProviderLostOnlyByRace RevocationLostOnlyByRace` | 2 overlapping administrative requests of any kind (an update changes one field), one login beside them, 2 names, 2 providers, 3 requests or logins from every bootstrapped store, commands may fail: a rename onto a taken name, its undoing and a deletion fit, and so do a login and two bumps |
| `overlap` | `SomeGuaranteeKept`, violated | 2 overlapping requests out of 5, one login, 3 users, 1 provider, 6 requests or logins |
| `store` | `Recovered BootstrapOnce` | 2 servers, one of which may not have started yet, 1 channel, 3 bootstrap files (with a secret, without one, a channel only), 4 entries, 1 crash, 1 snapshot: the configuration entry, two bootstrap commands of different leaders or a bootstrap and a secret, and a command after the snapshot's index fit, and each of them is replayed, by a restart, a recovery or a follower that gets the snapshot |
| `store_users` | `RecoveredUsers`, violated | 1 server, 3 names, 6 entries, 1 crash |
| `cluster` | `FencedOff ClearedIsKept EventuallyLed EventuallyJoined` | 3 pods, 2 crashes or timed-out calls, 2 scalings: to one replica and back with a crash in each phase; starts from a fresh cluster and from settled ones with a stale address or one voter too many |
| `throttle` | `WindowExact GuessBound BanSound BanHolds` | 1 address, 2 accounts, 2 requests at once of 3, 4 ticks for windows of 0 to 3, 2 actions of the administrator, 3 configurations (all limits, a zero window without bans, everything unset): every edge of a window is met from both sides, and a request uses a configuration that was replaced after it read it |
| `ingress` | `QuietExact ChecksHeld StrictSigned NoPlaintext TTLSettles` | 1 post, 2 overlapping administrators with 2 requests out of 14 (tokens of both scopes, secrets, encryption, retention, creation and deletion), 4 bodies, 3 global configurations: two changes fit between any two reads of the post; any number of changes is covered by the proofs |
| `ingress_secret` | `SecretHeld`, violated | an unsigned post, 3 changes of the two secrets |
| `client` | `InOrder FailuresIsolated PollsMeet EventuallyHandled` | 2 messages for the client and 3 deliveries for replay, of 4 kinds, with and without an ignore list, pages of 2, 2 failures of the environment (a broken connection, a message not sent, an exit, a failed step), 2 seconds |
| `tls_reload` | `HotReloaded`, violated | 1 rotation of 3 files; each write has a later time than the one before, so only the race is left |

The deadlock check is off where a bound ends the behaviour (`store`, `cluster`,
`throttle`, `ingress`, `client`: a finite number of requests, crashes and
ticks, after which nothing is left to do) and in `tls_reload`. In `ring`,
`stream` and `accounts` it is on: a writer that holds the ring's mutex can
always go on, a TTL can always be set when it is free, and a client can always
open, leave or come back. `Accounts` stutters (`Quiet`) once the bounded number
of requests was answered, and only then. Posts, administrators, nodes and request
slots are interchangeable and reduced by symmetry in the runs that check safety
properties only.

The type invariants of the other modules (`StreamTypeOK`, `StoreTypeOK`,
`ClusterTypeOK`, `ThrottleTypeOK`, `IngressTypeOK`, `ClientTypeOK`) hold on the
same instances and document the state; the runs leave them out in favour of the
properties that presuppose them.

TTL changes and the byte budget of the ring are exercised by the run of
`RingBuffer`; in the run of `EventStream` the age limit is the global one and the
ring evicts by slots.

### Fairness

`FairSpec` of `RingBuffer` assumes weak fairness of the cleanup goroutine, which
a ticker wakes every 30 s until shutdown, of the writer in the mutex, and of the
clock. (Weak fairness is enough because the number of appends is bounded; with
endless appends one would appeal to Go's mutex, which hands itself to a waiter
that has starved for a millisecond.) `FairSpec` of `EventStream` assumes
that the callback and every handler keep running (a write ends within its 10 s
deadline), strong fairness of `Register` and `Unsubscribe` (`sync.RWMutex` does
not starve a writer) and of `ClientGone` (`select` chooses uniformly among ready
cases, so a cancelled context is chosen eventually even if data is always
queued). Nothing is assumed about clients, time or arrivals, and nothing makes a
keepalive fail.

`FairSpec` of `Cluster`: the StatefulSet controller creates and deletes the pods
the replica count asks for and restarts a process that ended; startup, join
loop and watch run on tickers; an election that can succeed does, a leader
without quorum steps down, and a leader replicates to the servers it reaches.
Nothing makes the operator scale or a call fail. `FairSpec` of `Client`: the
command goes on by itself, since the requests and the command it runs have
timeouts, and the reconnection has no limit; nothing is assumed of senders and
failures. `FairSpec` of `TLSReload`: the poll runs on a ticker, and a rotation
that was begun ends.

### Findings

1. `store_users`: the bucket survives the process, so a restart without a
   snapshot, and a single-node recovery, apply the log to a bucket that already
   has its effects. Most commands write what they wrote before, and the last write wins;
   the creation of a user looks first, and when its record is there it does not
   write the index entry either. After *create a, rename a to b, create b* and a
   restart, the replayed rename has given the entry of `b` to `a`, and the
   creation of `b` is refused: whoever logs in as `b` is looked up as `a`. With a
   second rename of `a` before the creation the entry is gone. (`Recovered` shows
   that channels and the configuration, which have one key each, come out right.)
2. `overlap`: nothing locks the account records between the reads of a request
   and its command, and four guarantees that the code states without a condition
   are lost when requests overlap. `SomeGuaranteeKept` is their disjunction, so
   the counterexample is one behaviour in which all four are gone.
   - `IndexResolves` (`raft.go:1288`, against `fsm.go:149`): a user is renamed
     between the read and the command of its deletion; the entry of the new name
     stays and points at nobody.
   - `AdminRemains` (`api.go:641`, against the answer of `api.go:653`): two
     deletions of the two last administrators both count the other one.
   - `RevokedStaysRevoked` (`raft.go:1373`, against `raft.go:1370`): two bumps
     read the same epoch and write the same epoch, so a session minted between
     the two writes survives the second.
   - `ProviderRemains` (`service/auth.go:27`, against `service/auth.go:22`):
     switching internal auth off looks at the providers, removing the last
     provider looks at the flag, and both pass.

   What remains is in `accounts`: each guarantee is lost only by a command applied
   after another request changed what the command was computed from.
3. `ingress_secret`: the secret of a post is resolved from two reads
   (`service/channel.go:56` and `:71`). A channel that is given a secret after
   the first read, and a global secret that is removed before the second, leave
   the post with no secret at all, and the signature check is skipped, against
   `SECURITY.md:131`. `ChecksHeld` says how far the check does hold, and
   `StrictSigned` that strict mode does not have the gap.
4. `tls_reload`: the modification time is taken after the files were read. A
   file replaced in between counts as loaded and is not read until the next
   rotation.

### Known divergences

These properties are defined in the modules and do not hold of the code; each
was met while modelling and can be reproduced by naming it in a cfg.

- `RingBuffer!FullMeansFull` (`buffer.go:79`): an eviction from a full ring clears
  `full` only when `tail` meets `head`, so after a byte-budget eviction the flag
  stays set with slots free; the next append evicts one entry more than any
  budget asks for, and `lenLocked` counts cleared slots, until the cleanup pass. The
  ring still is a bounded FIFO: it keeps less than it could.
- `EventStream!ResumeFromLastSeen` (`events.go:143`): the stored position is a
  clock reading, not the last message sent; a message retained before that
  instant but not sent is skipped, against the wording of `--resume`.
- `EventStream!PayloadsIntact` (`buffer.go:75`): an eviction zeroes an array that
  a slow stream has yet to write; the client receives zeros.
- `Accounts!IndexComplete` (`raft.go:1280`): a user can be renamed to a name
  another user has; they share one index entry, and the next rename or deletion
  of either removes it.
- `Accounts!ChangeRevokes` (`api.go:627`, also 662, 721, 1039, 1077 and 1104):
  the error of `BumpAuthEpoch` is dropped, so when the second command of a request
  fails it is answered as a success and every session stays valid, against
  `api.go:625` and `SECURITY.md:603`. One request is enough.
- A login that checked its password before a revocation and reads the epoch after
  it (`auth.go:191`) gets a token that is valid although the password no longer
  is. The documents speak of outstanding sessions only, so there is no property.
- `Client!IgnoredSkipped` (`client.go:186`): an event of the `--ignore-event` list
  is logged as skipped and then saved, forwarded and given to the command like any
  other, against `README.md:342` and the assertion of `client_test.go:1201`, which
  is about a helper of the test that filters by itself; replay never looks at the
  list. `FailuresIsolated` is about what the code does, ignored events included.
- `TLSReload!PoolReloaded` (`tlsreload.go:93`): the CA pool is copied into the TLS
  configuration once; the pools that the provider loads later are never used,
  against `tlsreload.go:28`, "atomically swaps a keypair + CA pool".
- `ReplicatedStore!ServesRecovered` (`raft.go:785`): a leader just elected has
  commit and applied index 0 until its first entry commits, and the startup
  barrier takes that for a settled state, against `raft.go:540`: it may serve
  from a bucket the replay has not reached.
- `ReplicatedStore!Recovered` without its condition `BootstrapFirst`
  (`fsm.go:211`): a bootstrap file is refused as a whole when the bucket has data,
  and a server that served an empty store and restarts as leader with the file
  may replicate it after other commands, be it another file without a
  configuration. If it took effect, then applied again
  onto its own result it is refused, and does not write back a channel that an
  earlier command, replayed before it, removed; this takes two crashes and a
  snapshot read late. If it was refused, then replayed from such a snapshot onto
  a bucket emptied since it takes effect, and brings back what the log does not
  have; this takes about four crashes, more than the run has, and was met when
  the proof of `RecoveryIsExact` failed under a weaker condition.
- A file that brings channels only can take effect more than once, when the
  channels were deleted in between: `BootstrapOnce` is about files with a
  configuration, which no command removes.
- `Cluster!OnlyStaleCleared` (`server.go:229`): when pod 0 crashes at one
  replica and recovers while the other pods still terminate, a pod whose log is
  of the newest lineage may be cleared because the generation moved on. `ClearedIsKept`
  holds: another server has what it loses.

Seen while reading and in the models, without a property:

- `Throttle`: the window of the limiter is not validated, and with 0 or less it
  limits nothing; a repeated fingerprint keeps its first time stamp;
  `LoginThrottle` entries of accounts nobody tries again are never swept.
- `Ingress`: token and channel updates write the whole record they read, so
  overlapping ones lose changes, and one that overlaps a deletion brings the
  channel back; a TTL set back to 0 never reaches the ring; two notifications told
  in the opposite order leave the older TTL in the ring until the next post.
- `Client`: an envelope that contains
  "ready" anywhere is dropped; without `--resume` a reconnection forwards the
  retained messages again; replay ignores `--noReplay`,
  misses a delivery of a second already handled or beyond one page, and ends on
  the third 404 of a fetch; the time stamp of saved files has the month in place of the seconds;
  envelopes of version 1 are bound to no channel.

## Proofs

All are checked by TLAPS for every value of the constants that satisfies the
assumption named in each module (`RingAssumption`, `StreamAssumption` with `RingParameters`,
`IngressAssumption`, `ThrottleAssumption`, `AccountsAssumption`,
`ClusterAssumption`, `StoreAssumption` with `FileAssumption`, `ClientAssumption`). They type the constants: sizes and
bounds are numbers, the marks for "none" are no member of the sets they stand
beside, the values an administrator may send are ones the handlers accept. They
bound nothing: the number of streams, posts, pods, servers, crashes, snapshots
and requests is any. Each inductive invariant was checked by TLC before it was
proved.

| module | theorem | establishes |
|---|---|---|
| `RingBufferProofs` | `TypeCorrect`, `RingWellFormed`, `OldestFirst`, `GetCorrect`, `BytesCorrect`, `BudgetCorrect`, `ImplementsLog` | `TypeOK`, `RingInv`, `FIFOInv`, `GetInv`, `BytesInv`, `BudgetInv`, `ImplementsRetainedLog` |
| `EventStreamProofs` | `NeverSendsOnClosed`, `SubsCorrect`, `LimiterCorrect`, `StreamTypeCorrect`, `BytesCorrect`, `LiveOrder`, `NothingMissed` | `NoSendOnClosed`, `SubsMatchStreams`, `LimiterExact`, `StreamTypeOK`, `QueueBytesExact`, `LiveInOrder`, `NoGap` |
| `IngressProofs` | `AnswersExactly`, `ChecksAlwaysHeld`, `StrictAlwaysSigned`, `NeverPlaintext`, `RetentionSettles`, `IngressTypeCorrect` | `QuietExact`, `ChecksHeld`, `StrictSigned`, `NoPlaintext`, `TTLSettles`, `IngressTypeOK` |
| `ThrottleProofs` | `LimiterExact`, `GuessesBounded`, `BansAreSound`, `BansHold`, `ThrottleTypeCorrect` | `WindowExact`, `GuessBound`, `BanSound`, `BanHolds`, types |
| `AccountsProofs` | `AccountsTypeCorrect`, `IndexStaysSound`, `AdminAlwaysRemains`, `ProviderAlwaysRemains`, `RevocationIsFinal` | `AccountsTypeOK`, `IndexLostOnlyByRace`, `AdminLostOnlyByRace`, `ProviderLostOnlyByRace`, `RevocationLostOnlyByRace` |
| `ClusterProofs` | `FenceHolds` | `FencedOff`, for a cluster whose faults are those of `Healthy` |
| `ReplicatedStoreProofs` | `RecoveryIsExact`, `BootstrapsOnce` | `Recovered`, `BootstrapOnce` |
| `ClientProofs` | `EffectsInOrder`, `PollsFit`, `FailuresStay`, `ClientTypeCorrect` | `InOrder`, `PollsMeet`, `FailuresIsolated`, `ClientTypeOK` |

**RingBuffer.** The inductive invariant is
`TypeOK /\ RingInv /\ WriterInv /\ DataInv /\ OrderInv`.
`RingInv` alone says which slots are occupied; it is not inductive because a
store needs to know that the slot at `head` is free, which holds only after the
writer has evicted (`WriterInv`), and eviction relies on `tail` being occupied
or the ring being flagged full. Note that the flag may be stale (`FullMeansFull` does not hold), so
the occupied slots are described by `tail`, `head` and `full` together and not
by the flag alone. The order of the entries (`FIFOInv`) follows from `OrderInv`,
stated over positions from `tail`, and `DataInv`, which bounds payload numbers
and times of the entries by the writer's. The rebuild of `evictExpired` is the
one step that moves entries; the lemmas about increasing enumerations of a set
of positions are there for it.

`GetCorrect` needs no more than this invariant: by `RingInv` the positions that
match are those of the wanted entries (`Scanned`; the empty slots that a stale
flag adds to the scan never match), and by `OrderInv` payloads increase along
them. The list of a finite set in increasing order exists and leaves nothing out
(`Listed`, `ListsAll`), by induction as under Throttle.

The byte count adds `BytesInv`, `BudgetInv` and `FitsInv` to the invariant
(`BInv`). `Held` is the sizes of the entries by position from `tail`, and
`Total` their sum. Each operation changes `Held` in its own way, and there is a
lemma on sums for each: an eviction shifts it by one (`TotalShift`), a store adds
one position (`TotalSplit`, `TotalOne`), a cleanup splits it into what it keeps
and what it gives back and moves what it keeps together (`TotalSplit`,
`TotalKept`). `FitsInv` carries the outcome of the budget loop over the eviction
that a full ring needs before the store.

`ImplementsLog` is the refinement of `RetainedLog`, step by step: both
evictions of `Append` are `DropOldest`, the store is `Store` (its room and budget
come from `BInv`), `evictExpired` is `Expire`, taking the mutex changes nothing.
The log is one sequence without slots, so the `Expire` step has to show that the
code's scan over slots, empty ones included, keeps what a filter of the sequence
keeps (`LogPicked`), and that the code's age limit is the smaller of the two that
are set (`SameAge`).

**EventStream.** The first three theorems rest on `SInv`,
`TypeInv /\ HandlerInv /\ SubsMatchStreams /\ FanInv /\
LimiterInv`: `HandlerInv` ties a handler's position to whether its queue is open
and its channel set; `FanInv` says that the subscribers left to serve are still
registered while the fan-out holds the read lock, which is what the write-lock of
`Unsubscribe` protects; `LimiterInv` is the equality of the counter with the
number of running handlers, moved one by one with the cardinality theorems for
finite sets.

The theorems on delivery rest on `DInv`, which adds to it `ScanInv`, `MsgInv`,
`RecordInv` and, for each stream, `StreamOK`. `ScanInv` is what is needed of the
ring: an entry lies in a slot that the scan of `Get` reaches, so `Drain` finds
all of them. `MsgInv` says that the callback carries the youngest message, and
that its entry, once stored, is of the message's channel. `StreamOK` has four
parts. `LineOK` is `LiveInOrder` with the message that the callback has still to
send, which is younger than everything queued; `BytesOK` is `QueueBytesExact`,
carried over `trySend`, `Receive` and `Ack` by lemmas on the sum over a queue
(`QueuedAppend`, `QueuedTail`); `GapOK` is `NoGap`, with what has reached the
stream (`Received`) kept apart from what is on its way (`Due`); `HandOK` says
when a message is in hand. Three steps carry the argument for `GapOK`.
`DeliverStore` adds one entry, and makes it due to every stream. `FanoutLock`
narrows that to the registered subscribers: a stream that has drained is
registered, because `Register` comes before `Drain`, so it is among them if the
message is of its channel. `FanoutSend` moves the message from due to queued or
lost. Everything else the ring does only removes entries. The sums and the
enumeration of the scan are handled by induction as under Throttle.

**Ingress.** A post may act on settings that are no longer stored, so
`DecisionInv` says of each decision behind it that it was right for *some*
settings stored since the post arrived. A fact of this form survives every write
of an administrator, which only adds to `seen`; when the settings never changed
there is one such setting, and the decisions together are `Answer`. The secret is
the exception: it comes from a channel and a global configuration that were each
stored meanwhile, at two moments perhaps (`ResolveSeen`), which is what
`ChecksHeld` says and all that is true. `StrictAlwaysSigned` needs more: when a
post goes on with no secret, the mode that allowed it was read from a
configuration stored meanwhile.
`QuietInv` says that a post without administration beside it has seen exactly
what is stored, TTL included. `AdminInv` is needed because a change is computed
from a copy read earlier.

**Throttle.** `WindowExact` compares two lists through a loop that drops old
time stamps, `GuessBound` counts with the same loop, and bans count accounts in
a set. What the loop returns is proved by induction on the length of the list.
The induction theorems of the library take an operator and cannot be used here;
`Least` and `Induct` obtain induction over the numbers from the least element of
a non-empty set of numbers, for the set of lengths at which a statement fails.
The invariant needs that time stamps never exceed the clock and that the last of
a list is its largest (`LimiterInv`): sweeps look only at the last. The throttle forgets
an attempt once the cooldown is over, so `ThrottleInv` compares what it remembers
with what was tried for every instant within the last cooldown, not for the
present one only. Requests that still use an earlier configuration are in all of
it: the limiter's memory is exact for the shortest window used so far, a ban is
one of some configuration in use (`InUse`), and the count of guesses starts anew
with a change and with a stale use.

**Accounts.** Any number of requests and logins overlap and any command may fail.
`TypeInv` and `FlowInv` say what a handler carries at each of its positions.
`Current` says what it may rely on between its check and its command: the copy it
works on is what is stored, the administrator it counted is still there, the
epoch it read is the present one. `RaceInv` is the invariant: of every request
either `Current` holds or it is `stale`, and a group of records to which no stale
command was applied is in order. The work is in `CurrentKept`: a command that
leaves the `Basis` of another request alone leaves its `Current` alone, so `Basis`
names all that a handler depends on. The theorems therefore bound the damage and
do not exclude it; that overlapping requests do lose each guarantee is the
finding of `overlap`.

**Cluster.** `Healthy` excludes three of the faults the model can inject: a
generation that cannot be read, or not raised, and a scaling while pods are not
ready. Under the first two the code goes on with the local
generation, and the fence it compares is not the cluster's. Failed writes of the generation file,
crashes between any two steps of the startup, stale addresses and any number of
recoveries are allowed. `FenceInv` is the heart: while a
server of an older lineage exists, either the cluster is at one replica and no
pod but the first has heard of the present generation (`Alone`), or that server
is down with a generation file older than the Secret's, or it is starting and
has read a newer generation than its file has, so that it clears itself.
`RecoveryInv` says that a recovery under way is that of a single replica, and
that the generation was raised before it: without this order a pod could start
in between and keep its log.

**ReplicatedStore.** A replay applies old entries to a bucket that already has
newer effects, so between a restart and the moment it has caught up the bucket
is none that the log defines. `Good` describes it key by key: having applied `i`
entries, with effects up to entry `h` present, every key of the configuration
and the channels that no entry from `i + 1` to `h` overwrites holds either what
the log defines after `h` entries or what it defines after `i` (`KeyGood`; not
the latter while a bootstrap file at the head of the log that fills the key,
`Filled`, is still to be replayed, since it would be refused). It is preserved by an application, whether
the command is refused or not, and at `i = h` it says what `Recovered` says.
`FilesInv` says the same of a snapshot, for the interval between the index fixed
by `SnapshotStart` and the entries applied when `Persist` read the bucket, so
installing, restoring and recovering preserve it. `LogOK` says that `ideal` follows
the log. `BootstrapsOnce` rests on the configuration key, which a file with a
configuration writes and no command removes. User records are outside: `RecoveredUsers` does
not hold.

**Client.** Messages and options are any at all; what is needed of a pipeline is
that its steps are in the order of `Rank`, each at most once (`PipelineOK`).
`InOrder` is about the past, so the invariant `IInv` says how the present relates
to it: what was done on this connection comes before the message in hand, or is an
earlier step of it (`DidInv`); the message that the reader holds or will read next
is later than all of it, and a connection has a number that no effect has yet
(`LinkInv`); the deliveries left of a poll are later than all that any poll has
done, because those were before `since` and the log is ordered by time
(`BatchInv`, `LogInv`).

`PollsFit` adds `PollInv`: every delivery up to the last of the poll is too old,
still to come, in hand, replayed or excused. A poll is an increasing list of
a finite set, as long as the set is large, so it leaves nothing out (`Listing`).
Two steps carry the argument. `Advance` puts `since` a second after the last
delivery, so a later delivery it goes past has that delivery's second. `Publish`
may come when `since` is already ahead of the clock; then some delivery has the
second before `since`, and this one shares it. Both are `Crowded`.

`FailuresStay` adds `HandInv`: the steps done and the steps left of the message
in hand are together those it needs, and none of those done failed. When the
message ends, either nothing was left or the step just taken failed, and the
command, the last step, has not run. What is sealed with another key or for
another channel is never accepted (`ForeignRefused`).

Only model-checked:

- every liveness property (`ExpiredIsRemoved`, `QueueIsServed`,
  `StreamIsReleased`, `EventuallyLed`, `EventuallyJoined`, `EventuallyHandled`):
  fairness is out of the prover's reach;
- `ClearedIsKept` of `Cluster`, which needs that two majorities of successive
  configurations meet;
- `RecoveredUsers`, `SomeGuaranteeKept`, `SecretHeld` and `HotReloaded`, which do
  not hold.

## Not modelled, and the plan

Next:

1. OIDC logins and identity linking, role mappings, channel ACLs and setup mode
   in `Accounts`; the session path of `ChannelAccessMiddleware`; the
   authorization operators against a reference definition.
2. A composition of `Client` with `EventStream`: what a client has handled over
   several connections with `--resume`.

Left out for good: the embedded NATS server, hashicorp/raft and bbolt (external
libraries, modelled from their use), the TLS configuration and the stream layer
of Raft, at-rest encryption and the migration of old records (one pass over the
data before anything else runs), cryptography (only the policy around it can be
checked), forwarding to the leader (a request is passed on with a marker and no
state is kept), the proxy (one stateless request at a time), command-line
parsing, logging, the web UI and the deployment files. More than half of the repository's
Go lines are the generated client of its build pipeline
(`dagger/gohookbridge/internal/dagger`), which is no part of the program.
