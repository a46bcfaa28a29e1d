------------------------------ MODULE RingBuffer ------------------------------
(***************************************************************************)
(* The in-memory ring buffer that keeps recent webhooks for late           *)
(* subscribers (pkg/nats/buffer.go).                                       *)
(*                                                                         *)
(* The ring is an array of MaxSize slots with a read index tail, a write   *)
(* index head and a flag full that tells a full ring from an empty one     *)
(* when the two indices meet.  It is bounded by entry count, by payload    *)
(* bytes and by age (global MaxAge, or a smaller per-channel TTL).         *)
(*                                                                         *)
(* Append holds rb.mu throughout, but evicts in a loop; the loop is kept,  *)
(* one eviction per step, with the writer's position in wr.  While wr.pc   *)
(* is not "idle" the mutex is held: no other operation of the ring is      *)
(* enabled.  Payloads are identities (the n-th payload appended is n) with *)
(* a size.  A payload whose backing array evictOldestLocked overwrote is   *)
(* in zeroed: the broker hands the same array to live queues.              *)
(***************************************************************************)
EXTENDS Integers, Sequences, FiniteSets

CONSTANTS
    Channels,     \* channel names
    NoChannel,    \* the channel of a cleared slot: Go's ""
    Sizes,        \* payload lengths that occur
    TTLs,         \* values SetChannelTTL is called with; 0 removes the TTL
    MaxSize,      \* rb.maxSize
    MaxBytes,     \* rb.maxBytes, 0 = unbounded
    MaxAge,       \* rb.maxAge in clock ticks, 0 = no limit
    MaxAppends,   \* bound: payloads appended in a behaviour
    MaxClock      \* bound: the last tick of the clock

\* NewRingBuffer clamps a non-positive maxSize to 1; the sizes and ages of the
\* other parameters are non-negative.
ASSUME RingAssumption ==
    /\ MaxSize \in Nat \ {0}
    /\ MaxBytes \in Nat
    /\ MaxAge \in Nat
    /\ MaxAppends \in Nat
    /\ MaxClock \in Nat \ {0}
    /\ Sizes \subseteq Nat
    /\ TTLs \subseteq Nat
    /\ NoChannel \notin Channels

VARIABLES
    entries,       \* rb.entries
    head,          \* rb.head: the next slot to write
    tail,          \* rb.tail: the oldest entry
    full,          \* rb.full
    currentBytes,  \* rb.currentBytes
    channelTTLs,   \* rb.channelTTLs, 0 where the map has no key
    now,           \* time.Now(), in ticks
    wr,            \* the Append that holds rb.mu, if any
    appended,      \* number of payloads appended (or being appended) so far
    zeroed         \* payloads whose bytes have been overwritten with zeros

ring == <<entries, head, tail, full, currentBytes, zeroed>>
ringVars == <<ring, channelTTLs, now, wr, appended>>

Slots == 0 .. MaxSize - 1
Payloads == 1 .. MaxAppends

\* A slot's value: entry{} is the cleared slot, with Go's zero time.
EmptyEntry == [channel |-> NoChannel, data |-> 0, size |-> 0, timestamp |-> 0]
Entry == [channel : Channels, data : Payloads, size : Sizes,
          timestamp : 1 .. MaxClock]

NoWriter == [pc |-> "idle", channel |-> NoChannel, data |-> 0, size |-> 0]
Writer == [pc : {"bytes", "store"}, channel : Channels, data : Payloads,
           size : Sizes]
-----------------------------------------------------------------------------
\* Number of live entries as the code computes it.
lenLocked ==
    IF full THEN MaxSize
    ELSE IF head >= tail THEN head - tail
    ELSE MaxSize - tail + head

\* The i-th slot of the scan loops, counted from the oldest.
Slot(i) == (tail + i) % MaxSize

\* Age limit that applies to an entry of channel ch (0 = none).
EffectiveAge(ch) ==
    IF channelTTLs[ch] > 0 /\ (MaxAge <= 0 \/ channelTTLs[ch] < MaxAge)
    THEN channelTTLs[ch] ELSE MaxAge

\* Variant with a fault: an entry exactly as old as its limit is kept.
entryExpiredLate(e) ==
    \/ e.timestamp = 0
    \/ /\ EffectiveAge(e.channel) > 0
       /\ e.timestamp < now - EffectiveAge(e.channel)

entryExpired(e) ==
    \/ e.timestamp = 0
    \/ /\ EffectiveAge(e.channel) > 0
       /\ e.timestamp <= now - EffectiveAge(e.channel)

\* Variant with a fault: an entry exactly at since is returned again.
MatchingFrom(channel, since) ==
    {i \in 0 .. lenLocked - 1 :
        LET e == entries[Slot(i)] IN
        /\ e.channel = channel
        /\ e.timestamp >= since
        /\ ~entryExpired(e)}

\* Scan positions, oldest first, of what Get returns before the limit cuts it.
Matching(channel, since) ==
    {i \in 0 .. lenLocked - 1 :
        LET e == entries[Slot(i)] IN
        /\ e.channel = channel
        /\ e.timestamp > since
        /\ ~entryExpired(e)}

\* The increasing enumerations of a set of scan positions (there is one).
InOrder(S) ==
    {f \in [1 .. Cardinality(S) -> S] :
        \A i, j \in 1 .. Cardinality(S) : i < j => f[i] < f[j]}

\* Get stops at the limit-th match from the oldest; limit <= 0 returns all.
Get(channel, since, limit) ==
    LET found == CHOOSE f \in InOrder(Matching(channel, since)) : TRUE
        n == IF limit > 0 /\ limit < Len(found) THEN limit ELSE Len(found)
    IN  [i \in 1 .. n |-> entries[Slot(found[i])].data]
-----------------------------------------------------------------------------
Init ==
    /\ entries = [i \in Slots |-> EmptyEntry]
    /\ head = 0
    /\ tail = 0
    /\ full = FALSE
    /\ currentBytes = 0
    /\ channelTTLs = [ch \in Channels |-> 0]
    /\ now = 1
    /\ wr = NoWriter
    /\ appended = 0
    /\ zeroed = {}

\* Variant with a fault: the evicted bytes are not given back.
evictOldestKeepBytes ==
    /\ lenLocked # 0
    /\ currentBytes' = currentBytes
    /\ zeroed' = zeroed \cup {entries[tail].data}
    /\ entries' = [entries EXCEPT ![tail] = EmptyEntry]
    /\ tail' = (tail + 1) % MaxSize
    /\ full' = (full /\ tail' # head)
    /\ UNCHANGED head

\* Drops the oldest entry and overwrites its payload.
evictOldestLocked ==
    /\ lenLocked # 0
    /\ currentBytes' = currentBytes - entries[tail].size
    /\ zeroed' = zeroed \cup {entries[tail].data}
    /\ entries' = [entries EXCEPT ![tail] = EmptyEntry]
    /\ tail' = (tail + 1) % MaxSize
    /\ full' = (full /\ tail' # head)
    /\ UNCHANGED head

\* Append takes the mutex.
AppendLock(ch, sz) ==
    /\ wr.pc = "idle"
    /\ appended < MaxAppends
    /\ appended' = appended + 1
    /\ wr' = [pc |-> "bytes", channel |-> ch, data |-> appended + 1, size |-> sz]
    /\ UNCHANGED <<ring, channelTTLs, now>>

\* Variant with a fault: the size of the new payload is not counted.
OverBudgetBefore == MaxBytes > 0 /\ lenLocked > 0 /\ currentBytes > MaxBytes

OverBudget ==
    MaxBytes > 0 /\ lenLocked > 0 /\ currentBytes + wr.size > MaxBytes

\* One iteration of the byte-budget loop.
AppendEvictForBytes ==
    /\ wr.pc = "bytes"
    /\ OverBudget
    /\ evictOldestLocked
    /\ UNCHANGED <<channelTTLs, now, wr, appended>>

\* Variant with a fault: a full ring keeps its oldest entry, which the write then
\* overwrites without moving tail.
AppendOverwrite ==
    /\ wr.pc = "bytes"
    /\ ~OverBudget
    /\ full
    /\ wr' = [wr EXCEPT !.pc = "store"]
    /\ UNCHANGED <<ring, channelTTLs, now, appended>>

\* The loop has ended; a ring flagged full gives up its oldest entry.
AppendEvictWhenFull ==
    /\ wr.pc = "bytes"
    /\ ~OverBudget
    /\ full
    /\ evictOldestLocked
    /\ wr' = [wr EXCEPT !.pc = "store"]
    /\ UNCHANGED <<channelTTLs, now, appended>>

\* Variant with a fault: head does not wrap.
AppendStoreNoWrap ==
    /\ \/ wr.pc = "bytes" /\ ~OverBudget /\ ~full
       \/ wr.pc = "store"
    /\ entries' = [entries EXCEPT ![head] =
                     [channel |-> wr.channel, data |-> wr.data, size |-> wr.size,
                      timestamp |-> now]]
    /\ currentBytes' = currentBytes + wr.size
    /\ head' = head + 1
    /\ full' = (full \/ head' = tail)
    /\ wr' = NoWriter
    /\ UNCHANGED <<tail, zeroed, channelTTLs, now, appended>>

\* The entry is written at head and the mutex released.
AppendStore ==
    /\ \/ wr.pc = "bytes" /\ ~OverBudget /\ ~full
       \/ wr.pc = "store"
    /\ entries' = [entries EXCEPT ![head] =
                     [channel |-> wr.channel, data |-> wr.data, size |-> wr.size,
                      timestamp |-> now]]
    /\ currentBytes' = currentBytes + wr.size
    /\ head' = (head + 1) % MaxSize
    /\ full' = (full \/ head' = tail)
    /\ wr' = NoWriter
    /\ UNCHANGED <<tail, zeroed, channelTTLs, now, appended>>

\* A non-positive ttl deletes the channel's key.
SetChannelTTL(ch, ttl) ==
    /\ wr.pc = "idle"
    /\ channelTTLs' = [channelTTLs EXCEPT ![ch] = ttl]
    /\ UNCHANGED <<ring, now, wr, appended>>

\* The sum of w[0] .. w[MaxSize - 1], as a loop over the scan adds it up.
Total(w) ==
    LET sum[k \in 0 .. MaxSize] == IF k = 0 THEN 0 ELSE sum[k - 1] + w[k - 1]
    IN  sum[MaxSize]

\* Total size of the entries at a set of scan positions.
SizeAt(S) ==
    Total([k \in 0 .. MaxSize - 1 |-> IF k \in S THEN entries[Slot(k)].size ELSE 0])

\* Variant with a fault: the rebuilt ring keeps the old tail.
evictExpiredOldTail ==
    LET scan == 0 .. lenLocked - 1
        dead == {i \in scan : entryExpired(entries[Slot(i)])}
        n == Cardinality(scan \ dead)
    IN  /\ wr.pc = "idle"
        /\ lenLocked # 0
        /\ \E kept \in InOrder(scan \ dead) :
             entries' = [j \in Slots |-> IF j < n THEN entries[Slot(kept[j + 1])]
                                                 ELSE EmptyEntry]
        /\ full' = (n = MaxSize)
        /\ head' = n % MaxSize
        /\ currentBytes' = currentBytes - SizeAt(dead)
        /\ UNCHANGED <<tail, zeroed, channelTTLs, now, wr, appended>>

\* Variant with a fault: the scan stops at the first entry that has not expired.
evictExpiredPrefix ==
    LET scan == 0 .. lenLocked - 1
        dead == {i \in scan : \A k \in 0 .. i : entryExpired(entries[Slot(k)])}
        n == Cardinality(scan \ dead)
    IN  /\ wr.pc = "idle"
        /\ lenLocked # 0
        /\ \E kept \in InOrder(scan \ dead) :
             entries' = [j \in Slots |-> IF j < n THEN entries[Slot(kept[j + 1])]
                                                 ELSE EmptyEntry]
        /\ tail' = 0
        /\ full' = (n = MaxSize)
        /\ head' = n % MaxSize
        /\ currentBytes' = currentBytes - SizeAt(dead)
        /\ UNCHANGED <<zeroed, channelTTLs, now, wr, appended>>

\* The cleanup ticker: the ring is rebuilt from slot 0 with the entries that
\* have not expired, in order.
evictExpired ==
    LET scan == 0 .. lenLocked - 1
        dead == {i \in scan : entryExpired(entries[Slot(i)])}
        n == Cardinality(scan \ dead)
    IN  /\ wr.pc = "idle"
        /\ lenLocked # 0
        /\ \E kept \in InOrder(scan \ dead) :
             entries' = [j \in Slots |-> IF j < n THEN entries[Slot(kept[j + 1])]
                                                 ELSE EmptyEntry]
        /\ tail' = 0
        /\ full' = (n = MaxSize)
        /\ head' = n % MaxSize
        /\ currentBytes' = currentBytes - SizeAt(dead)
        /\ UNCHANGED <<zeroed, channelTTLs, now, wr, appended>>

Tick ==
    /\ now < MaxClock
    /\ now' = now + 1
    /\ UNCHANGED <<ring, channelTTLs, wr, appended>>

Next ==
    \/ \E ch \in Channels, sz \in Sizes : AppendLock(ch, sz)
    \/ AppendEvictForBytes
    \/ AppendEvictWhenFull
    \/ AppendStore
    \/ \E ch \in Channels, ttl \in TTLs : SetChannelTTL(ch, ttl)
    \/ evictExpired
    \/ Tick

Spec == Init /\ [][Next]_ringVars

\* The cleanup goroutine runs on a ticker for as long as the broker lives, an
\* Append that holds the mutex runs to its end, and time passes.
FairSpec ==
    /\ Spec
    /\ WF_ringVars(AppendEvictForBytes \/ AppendEvictWhenFull \/ AppendStore)
    /\ WF_ringVars(evictExpired)
    /\ WF_ringVars(Tick)
-----------------------------------------------------------------------------
\* The types of the ring's state (currentBytes is pinned down by BytesInv).
TypeOK ==
    /\ entries \in [Slots -> Entry \cup {EmptyEntry}]
    /\ head \in Slots
    /\ tail \in Slots
    /\ full \in BOOLEAN
    /\ channelTTLs \in [Channels -> Nat]
    /\ now \in 1 .. MaxClock
    /\ wr \in Writer \cup {NoWriter}
    /\ appended \in 0 .. MaxAppends
    /\ zeroed \subseteq 0 .. MaxAppends

\* The slots from tail up to head, cyclically: the entries in the ring.  When
\* the indices meet the flag decides between all slots and none.
Occupied(i) ==
    IF tail < head THEN tail <= i /\ i < head
    ELSE IF head < tail THEN tail <= i \/ i < head
    ELSE full

\* Number of entries really in the ring.
LiveCount ==
    IF tail < head THEN head - tail
    ELSE IF head < tail THEN MaxSize - tail + head
    ELSE IF full THEN MaxSize ELSE 0

\* The ring indices and the array agree: a slot holds an entry exactly when it
\* lies in the cyclic interval from tail to head, through any mix of evictions
\* for bytes, for size and for age (evictOldestLocked, Append, evictExpired).
RingInv == \A i \in Slots : entries[i] # EmptyEntry <=> Occupied(i)

\* An entry's position in the ring is its age: from tail onwards the payloads
\* are in the order they were appended, so "oldest" really is at tail.
FIFOInv ==
    \A i, j \in 0 .. LiveCount - 1 :
        i < j => entries[Slot(i)].data < entries[Slot(j)].data

\* currentBytes, kept up to date by increments in Append, evictOldestLocked and
\* evictExpired, is the total size of what the ring holds.
BytesInv == currentBytes = SizeAt(0 .. LiveCount - 1)

\* Outside Append the retained bytes respect the budget, except that a single
\* payload larger than the whole budget is kept (the loop stops at an empty
\* ring and the entry is stored regardless).
BudgetInv ==
    wr.pc = "idle" /\ MaxBytes > 0 =>
        currentBytes <= MaxBytes \/ LiveCount = 1

\* What Get promises, stated on the set of entries and not on the scan: the
\* oldest limit entries of the channel that are newer than since and have not
\* expired, oldest first, however the ring is rotated and whatever full says.
Wanted(ch, since) ==
    {e \in {entries[i] : i \in Slots} :
        e.channel = ch /\ e.timestamp > since /\ ~entryExpired(e)}

GetInv ==
    wr.pc = "idle" =>
        \A ch \in Channels, since \in 0 .. now, limit \in 0 .. MaxSize :
            LET got == Get(ch, since, limit)
                want == {e.data : e \in Wanted(ch, since)}
            IN  /\ \A i, j \in DOMAIN got : i < j => got[i] < got[j]
                /\ {got[i] : i \in DOMAIN got} \subseteq want
                /\ Len(got) = IF limit > 0 /\ limit < Cardinality(want)
                              THEN limit ELSE Cardinality(want)
                /\ \A d \in want :
                     d \in {got[i] : i \in DOMAIN got}
                       \/ \A i \in DOMAIN got : got[i] < d

\* An expired entry does not stay: the cleanup pass (or an eviction) removes it,
\* unless its channel is given a longer TTL first (startCleanup, evictExpired).
ExpiredIsRemoved ==
    \A d \in Payloads :
        (\E i \in Slots : entries[i].data = d /\ entryExpired(entries[i]))
          ~> ~(\E i \in Slots : entries[i].data = d /\ entryExpired(entries[i]))

\* The ring implements the bounded log: its contents are the entries from tail
\* on, and every step of Append, evictExpired and SetChannelTTL is a step of the
\* log or leaves it alone.
Log == INSTANCE RetainedLog
         WITH log <- [i \in 1 .. LiveCount |-> entries[Slot(i - 1)]],
              stored <- IF wr.pc = "idle" THEN appended ELSE appended - 1

ImplementsRetainedLog == Log!LogSpec

\* The comment on Append says it evicts oldest entries "to satisfy the size and
\* byte budgets" (buffer.go:84).  At the test of rb.full that follows the byte
\* loop, an eviction serves the size budget only if every slot is taken.
FullMeansFull ==
    wr.pc = "bytes" /\ ~OverBudget /\ full => LiveCount = MaxSize
===============================================================================
