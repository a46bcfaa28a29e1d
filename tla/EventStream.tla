------------------------------ MODULE EventStream ------------------------------
(***************************************************************************)
(* Delivery of webhooks to event streams on one node: the broker's NATS    *)
(* callback and fan-out (pkg/nats/broker.go), the ring buffer it feeds     *)
(* (RingBuffer), and the GET /events/{channel} handler that drains the     *)
(* ring, follows the live queue and remembers the client's position        *)
(* (internal/handler/events.go).                                           *)
(*                                                                         *)
(* Actors: the callback goroutine of the NATS subscription (one message at *)
(* a time), the ring's cleanup goroutine, one handler goroutine per open   *)
(* stream, and the clients, which may go away at any time.  A step is what *)
(* a goroutine does between two points where another one can be observed:  *)
(* a lock, a channel operation, a write to the client.                     *)
(*                                                                         *)
(* Streams are connection slots; slot s serves client ClientOf[s] (the     *)
(* client_id query parameter), so two slots may serve the same client.     *)
(***************************************************************************)
EXTENDS Integers, Sequences, FiniteSets

CONSTANTS
    Channels, NoChannel, Sizes, TTLs, MaxSize, MaxBytes, MaxAge,
    MaxAppends, MaxClock,       \* see RingBuffer
    Streams,      \* connection slots
    Clients,      \* client ids
    NoClient,     \* a request without client_id
    ClientOf,     \* [Streams -> Clients \cup {NoClient}]
    MaxConns,     \* --max-connections of the event endpoint
    DrainLimit,   \* the 100 of broker.Subscribe(channel, since, 100)
    QueueDepth,   \* subQueueDepth
    QueueBytes,   \* subQueueBytes, 0 = unbounded
    MsTicks       \* clock ticks per millisecond

ASSUME StreamAssumption ==
    /\ IsFiniteSet(Streams)
    /\ NoClient \notin Clients
    /\ ClientOf \in [Streams -> Clients \cup {NoClient}]
    /\ MaxConns \in Nat \ {0}
    /\ DrainLimit \in Nat \ {0}
    /\ QueueDepth \in Nat \ {0}
    /\ QueueBytes \in Nat
    /\ MsTicks \in Nat \ {0}

VARIABLES
    entries, head, tail, full, currentBytes, channelTTLs, now, wr, appended,
    zeroed,       \* the ring, see RingBuffer
    fan,          \* the callback goroutine: position, message, subscribers left
    subs,         \* b.subs: registered subscribers of each channel
    pc,           \* position of each stream's handler goroutine
    chan,         \* the channel each stream asked for
    opened,       \* streams whose queue sub.C exists and is not closed
    conn,         \* the other state of each handler and its subscriber
    inUse,        \* occupied places of sseConnLimiter.sem
    cursor,       \* LastTimestampMs of each client and channel, 0 = none
    shown,        \* payloads written to each slot's client, over all sessions
    mangled       \* <<stream, payload>>: written after its bytes were zeroed

Ring == INSTANCE RingBuffer

ASSUME RingParameters == Ring!RingAssumption

ringVars == <<entries, head, tail, full, currentBytes, channelTTLs, now, wr,
              appended, zeroed>>
handlerVars == <<pc, chan, opened, conn>>
streamVars == <<fan, subs, handlerVars, inUse, cursor, shown, mangled>>
vars == <<ringVars, streamVars>>

Payloads == 1 .. MaxAppends
Message == [data : Payloads, size : Sizes, channel : Channels]

\* Go's zero time.Time, which no clock returns.
ZeroTime == -1

\* Conversion of a time to Unix milliseconds, which truncates, and back.  The
\* clock starts in millisecond 1: 0 stands for "no cursor".
UnixMilli(t) == 1 + t \div MsTicks
FromMilli(ms) == (ms - 1) * MsTicks

\* A handler's locals (gone is its request's context) and its Subscriber: queue
\* and bytes, the messages it dropped, the last one taken from the queue.
Fresh == [gone |-> FALSE, since |-> ZeroTime, hist |-> <<>>, cut |-> FALSE,
          queue |-> <<>>, bytes |-> 0, inhand |-> <<>>, lost |-> {},
          lastLive |-> 0, lastMsgTs |-> 0]

NoFan == [pc |-> "idle", msg |-> <<>>, todo |-> {}]

Init ==
    /\ Ring!Init
    /\ fan = NoFan
    /\ subs = [ch \in Channels |-> {}]
    /\ pc = [s \in Streams |-> "idle"]
    /\ chan = [s \in Streams |-> NoChannel]
    /\ opened = {}
    /\ conn = [s \in Streams |-> Fresh]
    /\ inUse = 0
    /\ cursor = [c \in Clients |-> [ch \in Channels |-> 0]]
    /\ shown = [s \in Streams |-> {}]
    /\ mangled = {}
-----------------------------------------------------------------------------
(* The NATS callback: Append, then fanout under b.mu.RLock.                *)

\* NATS delivers the next message of webhook.> to the callback, which starts
\* Append with it.
Deliver(ch, sz) ==
    /\ fan.pc = "idle"
    /\ Ring!AppendLock(ch, sz)
    /\ fan' = [pc |-> "append", todo |-> {},
               msg |-> <<[data |-> appended + 1, size |-> sz, channel |-> ch]>>]
    /\ UNCHANGED <<subs, handlerVars, inUse, cursor, shown, mangled>>

DeliverEvict ==
    /\ Ring!AppendEvictForBytes \/ Ring!AppendEvictWhenFull
    /\ UNCHANGED streamVars

DeliverStore ==
    /\ Ring!AppendStore
    /\ fan' = [fan EXCEPT !.pc = "stored"]
    /\ UNCHANGED <<subs, handlerVars, inUse, cursor, shown, mangled>>

\* fanout takes the read lock and ranges over the channel's subscribers.
FanoutLock ==
    LET targets == subs[fan.msg[1].channel] IN
    /\ fan.pc = "stored"
    /\ fan' = IF targets = {} THEN NoFan
              ELSE [fan EXCEPT !.pc = "send", !.todo = targets]
    /\ UNCHANGED <<ringVars, subs, handlerVars, inUse, cursor, shown, mangled>>

\* trySend: the byte budget, then the queue's capacity.
trySend(c, m) ==
    IF (QueueBytes > 0 /\ c.bytes + m.size > QueueBytes) \/ Len(c.queue) >= QueueDepth
    THEN [c EXCEPT !.lost = @ \cup {m.data}]
    ELSE [c EXCEPT !.queue = Append(@, m), !.bytes = @ + m.size]

\* Variant with a fault: a served subscriber is not crossed off.
FanoutSendAgain(s) ==
    /\ fan.pc = "send"
    /\ s \in fan.todo
    /\ conn' = [conn EXCEPT ![s] = trySend(@, fan.msg[1])]
    /\ fan' \in {fan, NoFan}
    /\ UNCHANGED <<ringVars, subs, pc, chan, opened, inUse, cursor, shown, mangled>>

FanoutSend(s) ==
    LET left == fan.todo \ {s} IN
    /\ fan.pc = "send"
    /\ s \in fan.todo
    /\ conn' = [conn EXCEPT ![s] = trySend(@, fan.msg[1])]
    /\ fan' = IF left = {} THEN NoFan ELSE [fan EXCEPT !.todo = left]
    /\ UNCHANGED <<ringVars, subs, pc, chan, opened, inUse, cursor, shown, mangled>>

\* b.mu can be write-locked: fanout does not hold it.
BrokerUnlocked == fan.pc # "send"
-----------------------------------------------------------------------------
(* One handler goroutine per stream (HandleEventsGet).                     *)

\* The handler of stream s moves from one position to another; nothing it shares
\* with the callback or with other handlers changes but what the step names.
Goto(s, from, to) == pc[s] = from /\ pc' = [pc EXCEPT ![s] = to]

\* A write of a payload to the client: it carries zeros if the backing array
\* has been overwritten by then.
Show(s, d) ==
    /\ shown' = [shown EXCEPT ![s] = @ \cup {d}]
    /\ mangled' = IF d \in zeroed THEN mangled \cup {<<s, d>>} ELSE mangled

\* The request arrives and gets a place in the limiter; without one it is
\* refused with 503 and changes nothing.
Open(s, ch) ==
    /\ Goto(s, "idle", "greet")
    /\ inUse < MaxConns
    /\ inUse' = inUse + 1
    /\ chan' = [chan EXCEPT ![s] = ch]
    /\ UNCHANGED <<ringVars, fan, subs, opened, conn, cursor, shown, mangled>>

\* Variant with a fault: the early return skips the limiter's release.
GreetLeak(s) ==
    /\ \/ Goto(s, "greet", "cursor") /\ UNCHANGED chan
       \/ Goto(s, "greet", "idle") /\ chan' = [chan EXCEPT ![s] = NoChannel]
    /\ UNCHANGED <<ringVars, fan, subs, opened, conn, inUse, cursor, shown, mangled>>

\* The "connected" and "ready" frames; a failed write ends the handler, which
\* has not subscribed yet.
Greet(s) ==
    /\ \E to \in {"cursor", "release"} : Goto(s, "greet", to)
    /\ UNCHANGED <<ringVars, fan, subs, chan, opened, conn, inUse, cursor, shown, mangled>>

\* The client's cursor; a read of the store that fails is taken for no cursor.
ReadCursor(s) ==
    LET c == ClientOf[s]
        saved == IF c = NoClient THEN 0 ELSE cursor[c][chan[s]]
    IN  /\ Goto(s, "cursor", "subscribe")
        /\ \E ms \in {saved, 0} :
             conn' = [conn EXCEPT ![s].since = IF ms > 0 THEN FromMilli(ms) ELSE ZeroTime]
        /\ UNCHANGED <<ringVars, fan, subs, chan, opened, inUse, cursor, shown, mangled>>

\* Subscribe, first half: the new subscriber is registered under b.mu.Lock.
Register(s) ==
    /\ Goto(s, "subscribe", "drain")
    /\ BrokerUnlocked
    /\ subs' = [subs EXCEPT ![chan[s]] = @ \cup {s}]
    /\ opened' = opened \cup {s}
    /\ UNCHANGED <<ringVars, fan, chan, conn, inUse, cursor, shown, mangled>>

\* Subscribe, second half: the retained messages newer than since, under
\* rb.mu.RLock.
Drain(s) ==
    LET from == IF conn[s].since = ZeroTime THEN now - MaxAge ELSE conn[s].since
        all == Ring!Get(chan[s], from, 0)
        hist == Ring!Get(chan[s], from, DrainLimit)
    IN  /\ Goto(s, "drain", IF hist = <<>> THEN "loop" ELSE "history")
        /\ wr.pc = "idle"
        /\ conn' = [conn EXCEPT ![s].since = from,
                                ![s].hist = hist,
                                ![s].cut = (Len(hist) < Len(all))]
        /\ UNCHANGED <<ringVars, fan, subs, chan, opened, inUse, cursor, shown, mangled>>

\* Variant with a fault: the live queue is emptied when the history is done.
WriteHistoryFlush(s) ==
    LET rest == Tail(conn[s].hist) IN
    /\ \/ /\ Goto(s, "history", IF rest = <<>> THEN "loop" ELSE "history")
          /\ Show(s, Head(conn[s].hist))
          /\ conn' = [conn EXCEPT ![s].hist = rest, ![s].queue = <<>>, ![s].bytes = 0]
       \/ /\ Goto(s, "history", "unsubscribe")
          /\ UNCHANGED <<conn, shown, mangled>>
    /\ UNCHANGED <<ringVars, fan, subs, chan, opened, inUse, cursor>>

\* Variant with a fault: the early return skips Unsubscribe.
WriteHistoryLeak(s) ==
    LET rest == Tail(conn[s].hist) IN
    /\ \/ /\ Goto(s, "history", IF rest = <<>> THEN "loop" ELSE "history")
          /\ Show(s, Head(conn[s].hist))
          /\ conn' = [conn EXCEPT ![s].hist = rest]
       \/ /\ Goto(s, "history", "release")
          /\ UNCHANGED <<conn, shown, mangled>>
    /\ UNCHANGED <<ringVars, fan, subs, chan, opened, inUse, cursor>>

\* One historical frame; if the write fails the handler returns without saving
\* the cursor.
WriteHistory(s) ==
    LET rest == Tail(conn[s].hist) IN
    /\ \/ /\ Goto(s, "history", IF rest = <<>> THEN "loop" ELSE "history")
          /\ Show(s, Head(conn[s].hist))
          /\ conn' = [conn EXCEPT ![s].hist = rest]
       \/ /\ Goto(s, "history", "unsubscribe")
          /\ UNCHANGED <<conn, shown, mangled>>
    /\ UNCHANGED <<ringVars, fan, subs, chan, opened, inUse, cursor>>

\* Variant with a fault: a lone message is left in the queue.
ReceiveLate(s) ==
    /\ Goto(s, "loop", "ack")
    /\ Len(conn[s].queue) > 1
    /\ conn' = [conn EXCEPT ![s].inhand = <<Head(conn[s].queue)>>,
                            ![s].queue = Tail(@)]
    /\ UNCHANGED <<ringVars, fan, subs, chan, opened, inUse, cursor, shown, mangled>>

\* sseLoop, the data case: receive from the queue, ...
Receive(s) ==
    /\ Goto(s, "loop", "ack")
    /\ conn[s].queue # <<>>
    /\ conn' = [conn EXCEPT ![s].inhand = <<Head(conn[s].queue)>>,
                            ![s].queue = Tail(@)]
    /\ UNCHANGED <<ringVars, fan, subs, chan, opened, inUse, cursor, shown, mangled>>

\* Variant with a fault: the budget is never released.
AckForgotten(s) ==
    /\ Goto(s, "ack", "write")
    /\ UNCHANGED <<ringVars, fan, subs, chan, opened, conn, inUse, cursor, shown, mangled>>

\* ... release the byte budget, ...
Ack(s) ==
    LET left == conn[s].bytes - conn[s].inhand[1].size IN
    /\ Goto(s, "ack", "write")
    /\ conn' = [conn EXCEPT ![s].bytes = IF left < 0 THEN 0 ELSE left]
    /\ UNCHANGED <<ringVars, fan, subs, chan, opened, inUse, cursor, shown, mangled>>

\* ... and write the frame, remembering when.  A failed write ends the loop.
WriteLive(s) ==
    LET d == conn[s].inhand[1].data IN
    /\ \/ /\ Goto(s, "write", "loop")
          /\ Show(s, d)
          /\ conn' = [conn EXCEPT ![s].inhand = <<>>, ![s].lastLive = d,
                                  ![s].lastMsgTs = UnixMilli(now)]
       \/ /\ Goto(s, "write", "save")
          /\ conn' = [conn EXCEPT ![s].inhand = <<>>, ![s].lastLive = d]
          /\ UNCHANGED <<shown, mangled>>
    /\ UNCHANGED <<ringVars, fan, subs, chan, opened, inUse, cursor>>

\* Variant with a fault: the context is looked at only when data is queued.
ClientGoneOnData(s) ==
    /\ Goto(s, "loop", "save")
    /\ conn[s].gone
    /\ conn[s].queue # <<>>
    /\ UNCHANGED <<ringVars, fan, subs, chan, opened, conn, inUse, cursor, shown, mangled>>

\* sseLoop, the other cases: the client is gone, or a keepalive cannot be
\* written.  select picks any ready case, queued data or not.
ClientGone(s) ==
    /\ Goto(s, "loop", "save")
    /\ conn[s].gone
    /\ UNCHANGED <<ringVars, fan, subs, chan, opened, conn, inUse, cursor, shown, mangled>>

KeepaliveFails(s) ==
    /\ Goto(s, "loop", "save")
    /\ UNCHANGED <<ringVars, fan, subs, chan, opened, conn, inUse, cursor, shown, mangled>>

\* The position is stored: the time of the last live write, or now.  The write
\* goes through Raft and is refused on a node that is not the leader; a
\* failure is only logged.
SaveCursor(s) ==
    LET c == ClientOf[s]
        ts == IF conn[s].lastMsgTs = 0 THEN UnixMilli(now) ELSE conn[s].lastMsgTs
    IN  /\ Goto(s, "save", "unsubscribe")
        /\ \/ c # NoClient /\ cursor' = [cursor EXCEPT ![c][chan[s]] = ts]
           \/ UNCHANGED cursor
        /\ UNCHANGED <<ringVars, fan, subs, chan, opened, conn, inUse, shown, mangled>>

\* Variant with a fault: the queue is closed without the broker's lock.
UnsubscribeUnlocked(s) ==
    /\ Goto(s, "unsubscribe", "release")
    /\ subs' = [subs EXCEPT ![chan[s]] = @ \ {s}]
    /\ opened' = opened \ {s}
    /\ UNCHANGED <<ringVars, fan, chan, conn, inUse, cursor, shown, mangled>>

\* The deferred Unsubscribe closes the queue under b.mu.Lock.
Unsubscribe(s) ==
    /\ Goto(s, "unsubscribe", "release")
    /\ BrokerUnlocked
    /\ subs' = [subs EXCEPT ![chan[s]] = @ \ {s}]
    /\ opened' = opened \ {s}
    /\ UNCHANGED <<ringVars, fan, chan, conn, inUse, cursor, shown, mangled>>

\* The deferred release of the limiter's place; the handler's state goes away.
Release(s) ==
    /\ Goto(s, "release", "idle")
    /\ inUse' = inUse - 1
    /\ chan' = [chan EXCEPT ![s] = NoChannel]
    /\ conn' = [conn EXCEPT ![s] = Fresh]
    /\ UNCHANGED <<ringVars, fan, subs, opened, cursor, shown, mangled>>
-----------------------------------------------------------------------------
(* The environment.                                                        *)

\* The client closes the connection: the request's context is cancelled.
Disconnect(s) ==
    /\ pc[s] # "idle"
    /\ ~conn[s].gone
    /\ conn' = [conn EXCEPT ![s].gone = TRUE]
    /\ UNCHANGED <<ringVars, fan, subs, pc, chan, opened, inUse, cursor, shown, mangled>>

Cleanup == Ring!evictExpired /\ UNCHANGED streamVars

Tick == Ring!Tick /\ UNCHANGED streamVars

Callback == DeliverEvict \/ DeliverStore \/ FanoutLock \/ \E s \in Streams : FanoutSend(s)

HandlerSteps(s) ==
    \/ Greet(s)
    \/ ReadCursor(s)
    \/ Register(s)
    \/ Drain(s)
    \/ WriteHistory(s)
    \/ Receive(s)
    \/ Ack(s)
    \/ WriteLive(s)
    \/ ClientGone(s)
    \/ SaveCursor(s)
    \/ Unsubscribe(s)
    \/ Release(s)

Handler(s) == HandlerSteps(s) \/ KeepaliveFails(s)

Next ==
    \/ \E ch \in Channels, sz \in Sizes : Deliver(ch, sz)
    \/ Callback
    \/ \E s \in Streams, ch \in Channels : Open(s, ch)
    \/ \E s \in Streams : Handler(s)
    \/ \E s \in Streams : Disconnect(s)
    \/ Cleanup
    \/ Tick

Spec == Init /\ [][Next]_vars

\* The callback and every handler keep running: a write ends within its
\* deadline, locks are released by every holder.  A goroutine waiting for b.mu
\* to write-lock it is not starved by readers (sync.RWMutex), and select picks
\* a ready case with equal probability, so a cancelled context is noticed.
\* Nothing makes a keepalive fail.
FairSpec ==
    /\ Spec
    /\ WF_vars(Callback)
    /\ \A s \in Streams :
         /\ WF_vars(HandlerSteps(s))
         /\ SF_vars(Register(s))
         /\ SF_vars(Unsubscribe(s))
         /\ SF_vars(ClientGone(s))
-----------------------------------------------------------------------------
ConnPc == {"idle", "greet", "cursor", "subscribe", "drain", "history", "loop",
           "ack", "write", "save", "unsubscribe", "release"}

\* The types of the broker's and the handlers' state.
StreamTypeOK ==
    /\ fan.pc \in {"idle", "append", "stored", "send"}
    /\ fan.msg \in {<<>>} \cup {<<m>> : m \in Message}
    /\ fan.todo \subseteq Streams
    /\ subs \in [Channels -> SUBSET Streams]
    /\ pc \in [Streams -> ConnPc]
    /\ chan \in [Streams -> Channels \cup {NoChannel}]
    /\ opened \subseteq Streams
    /\ \A s \in Streams :
         /\ conn[s].gone \in BOOLEAN
         /\ conn[s].bytes \in Nat
         /\ conn[s].since \in Int
         /\ conn[s].lost \subseteq Payloads
         /\ conn[s].lastMsgTs \in Nat
    /\ inUse \in Nat
    /\ cursor \in [Clients -> [Channels -> Nat]]
    /\ shown \in [Streams -> SUBSET Payloads]
    /\ mangled \subseteq Streams \X Payloads

\* Between the moment fanout reads b.subs and the moment it sends, no handler
\* closes its queue: trySend never sends on a closed channel (a panic that would
\* take the node down), nor to a subscriber of another channel.
NoSendOnClosed ==
    \A s \in fan.todo :
        s \in opened /\ fan.pc = "send" /\ chan[s] = fan.msg[1].channel

\* b.subs lists a stream exactly while its queue is open, and only under its own
\* channel: no subscriber outlives its handler, on any exit path.
SubsMatchStreams ==
    \A s \in Streams, ch \in Channels :
        s \in subs[ch] <=> s \in opened /\ chan[s] = ch

\* Total size of the messages in a queue.
QueuedBytes(q) ==
    LET sum[i \in 0 .. Len(q)] == IF i = 0 THEN 0 ELSE sum[i - 1] + q[i].size
    IN  sum[Len(q)]

\* The bytes charged to a subscriber are those queued and those received but
\* not acknowledged, and stay within the budget: Ack never has to clamp.
QueueBytesExact ==
    \A s \in Streams :
        LET c == conn[s] IN
        /\ c.bytes = QueuedBytes(c.queue) + IF pc[s] = "ack" THEN c.inhand[1].size ELSE 0
        /\ QueueBytes > 0 => c.bytes <= QueueBytes

\* A place in the limiter is held exactly by the handlers that run, so early
\* returns give it back and the bound on event streams holds.
LimiterExact ==
    /\ inUse = Cardinality({s \in Streams : pc[s] # "idle"})
    /\ inUse <= MaxConns

\* Messages of a stream accounted for: written, waiting, in hand or dropped
\* because a bound was reached; or about to be sent to it by the fan-out.
Accounted(s) ==
    LET c == conn[s] IN
    shown[s] \cup c.lost
      \cup {c.hist[i] : i \in DOMAIN c.hist}
      \cup {c.queue[i].data : i \in DOMAIN c.queue}
      \cup {c.inhand[i].data : i \in DOMAIN c.inhand}
      \cup {fan.msg[i].data : i \in IF fan.pc = "stored" \/ s \in fan.todo
                                    THEN DOMAIN fan.msg ELSE {}}

\* No gap between history and live: once a stream has drained the ring, every
\* retained message of its channel newer than its starting point has reached it
\* or is on its way, wherever Append, fanout, Subscribe and Get interleaved.
\* (A history cut at the drain limit promises nothing.)
NoGap ==
    \A s \in Streams :
        pc[s] \in {"history", "loop", "ack", "write"} /\ ~conn[s].cut =>
            \A i \in Ring!Slots :
                LET e == entries[i] IN
                e.channel = chan[s] /\ e.timestamp > conn[s].since
                  /\ ~Ring!entryExpired(e)
                    => e.data \in Accounted(s)

\* The live queue keeps the order of arrival and repeats nothing: what was
\* written, what is in hand and what is queued form an increasing sequence.
LiveInOrder ==
    \A s \in Streams :
        LET c == conn[s]
            line == <<c.lastLive>> \o [i \in DOMAIN c.inhand |-> c.inhand[i].data]
                      \o [i \in DOMAIN c.queue |-> c.queue[i].data]
        IN  \A i, j \in DOMAIN line : i < j => line[i] < line[j]

\* A queued message is taken from the queue: written, or abandoned with a stream
\* that ends.
QueueIsServed ==
    \A s \in Streams, d \in Payloads :
        (\E i \in DOMAIN conn[s].queue : conn[s].queue[i].data = d)
          ~> ~(\E i \in DOMAIN conn[s].queue : conn[s].queue[i].data = d)

\* When the client goes away its handler ends, its subscriber is removed and its
\* place in the limiter is given back (design.md: "No resource leak").
StreamIsReleased ==
    \A s \in Streams : conn[s].gone ~> (pc[s] = "idle")

\* The --resume flag promises to "Resume from last seen position on reconnect"
\* (internal/app/flags.go:156): no message still retained lies at or before the
\* stored position unless the client has been sent it.
ResumeFromLastSeen ==
    \A c \in Clients, ch \in Channels : cursor[c][ch] > 0 =>
        \A i \in Ring!Slots :
            entries[i].channel = ch /\ entries[i].timestamp <= FromMilli(cursor[c][ch])
              => \E s \in Streams : ClientOf[s] = c /\ entries[i].data \in shown[s] \cup conn[s].lost

\* The client command "will relay all payloads received" (README.md:277): what is
\* written to a client is the payload, not its overwritten array.
PayloadsIntact == mangled = {}
===============================================================================
