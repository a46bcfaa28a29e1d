------------------------------ MODULE RetainedLog ------------------------------
(***************************************************************************)
(* What the ring buffer promises its callers: a log of recent webhooks,    *)
(* bounded by count, bytes and age, from which entries leave only at the   *)
(* old end or because they expired.  No entry is reordered, changed or     *)
(* brought back.  RingBuffer is shown to implement this specification.     *)
(*                                                                         *)
(* The eviction of the oldest entry is not tied to pressure on a budget:   *)
(* the code may evict one entry more than a budget asks for (see           *)
(* RingBuffer!FullMeansFull), and the promise is the one it keeps.         *)
(***************************************************************************)
EXTENDS Integers, Sequences, FiniteSets, FiniteSetsExt

CONSTANTS Channels, Sizes, TTLs, MaxSize, MaxBytes, MaxAge, MaxAppends, MaxClock

VARIABLES
    log,          \* retained entries, oldest first
    channelTTLs,  \* age limit per channel, 0 = none
    now,
    stored        \* identity of the last payload stored

logVars == <<log, channelTTLs, now, stored>>

\* Total size of a sequence of entries.
Bytes(s) ==
    LET sum[k \in 0 .. Len(s)] == IF k = 0 THEN 0 ELSE sum[k - 1] + s[k].size
    IN  sum[Len(s)]

\* The elements of s at the positions in P, in order.
Picked(s, P) ==
    LET front[k \in 0 .. Len(s)] ==
          IF k = 0 THEN <<>>
          ELSE IF k \in P THEN Append(front[k - 1], s[k])
          ELSE front[k - 1]
    IN  front[Len(s)]

AgeLimit(ch) ==
    LET own == channelTTLs[ch] IN
    IF own > 0 /\ MaxAge > 0 THEN Min({own, MaxAge}) ELSE Max({own, MaxAge})

Alive(e) == AgeLimit(e.channel) > 0 => e.timestamp + AgeLimit(e.channel) > now

LogInit ==
    /\ log = <<>>
    /\ channelTTLs = [ch \in Channels |-> 0]
    /\ now = 1
    /\ stored = 0

DropOldest ==
    /\ log # <<>>
    /\ log' = Tail(log)
    /\ UNCHANGED <<channelTTLs, now, stored>>

\* A payload enters at the young end, with the current time, once there is
\* room for it; one that exceeds the byte budget alone is kept alone.
Store(ch, d, sz) ==
    /\ stored < d
    /\ Len(log) < MaxSize
    /\ MaxBytes = 0 \/ log = <<>> \/ Bytes(log) + sz <= MaxBytes
    /\ log' = Append(log, [channel |-> ch, data |-> d, size |-> sz, timestamp |-> now])
    /\ stored' = d
    /\ UNCHANGED <<channelTTLs, now>>

Expire ==
    /\ log' = Picked(log, {i \in DOMAIN log : Alive(log[i])})
    /\ UNCHANGED <<channelTTLs, now, stored>>

SetTTL(ch, ttl) ==
    /\ channelTTLs' = [channelTTLs EXCEPT ![ch] = ttl]
    /\ UNCHANGED <<log, now, stored>>

LogTick ==
    /\ now' = now + 1
    /\ UNCHANGED <<log, channelTTLs, stored>>

LogNext ==
    \/ DropOldest
    \/ \E ch \in Channels, d \in 1 .. MaxAppends, sz \in Sizes : Store(ch, d, sz)
    \/ Expire
    \/ \E ch \in Channels, ttl \in TTLs : SetTTL(ch, ttl)
    \/ LogTick

LogSpec == LogInit /\ [][LogNext]_logVars
===============================================================================
