--------------------------- MODULE EventStreamProofs ---------------------------
(***************************************************************************)
(* Proofs about EventStream for every number of streams, channels and      *)
(* messages: the fan-out never sends on a closed queue, b.subs lists       *)
(* exactly the open queues, and the connection limiter is exact (from      *)
(* SInv); a drained stream misses no retained message, live messages stay  *)
(* in order, and the bytes charged to a queue are exact (from DInv).       *)
(***************************************************************************)
EXTENDS EventStream, FiniteSetTheorems, SequenceTheorems, WellFoundedInduction, TLAPS

\* Positions between Register and Unsubscribe.
OpenPc == {"drain", "history", "loop", "ack", "write", "save", "unsubscribe"}

FanType == [pc : {"idle", "append", "stored", "send"},
            msg : {<<>>} \cup {<<m>> : m \in Message},
            todo : SUBSET Streams]

WriterType == [pc : {"idle", "bytes", "store"}, channel : Channels \cup {NoChannel},
               data : Nat, size : Sizes \cup {0}]

TypeInv ==
    /\ pc \in [Streams -> ConnPc]
    /\ chan \in [Streams -> Channels \cup {NoChannel}]
    /\ opened \subseteq Streams
    /\ subs \in [Channels -> SUBSET Streams]
    /\ fan \in FanType
    /\ appended \in Nat
    /\ wr \in WriterType

\* A handler that runs has a channel, and its queue is open from Register to
\* Unsubscribe.
HandlerInv ==
    \A s \in Streams :
        /\ pc[s] # "idle" => chan[s] \in Channels
        /\ s \in opened <=> pc[s] \in OpenPc

\* The callback carries a message from Append on, and while it sends, what is
\* left to serve is a subset of what is registered: the read lock keeps Register
\* and Unsubscribe out.  Only the callback appends to the ring.
FanInv ==
    /\ wr.pc # "idle" <=> fan.pc = "append"
    /\ fan.pc # "idle" => fan.msg # <<>>
    /\ fan.pc # "send" => fan.todo = {}
    /\ fan.pc = "send" => fan.todo \subseteq subs[fan.msg[1].channel]

Active == {s \in Streams : pc[s] # "idle"}

LimiterInv ==
    /\ inUse = Cardinality(Active)
    /\ inUse <= MaxConns

SInv == TypeInv /\ HandlerInv /\ SubsMatchStreams /\ FanInv /\ LimiterInv
-----------------------------------------------------------------------------
LEMMA ActiveFinite == IsFiniteSet(Active) /\ Cardinality(Active) \in Nat
  BY StreamAssumption, FS_Subset, FS_CardinalityType DEF Active

LEMMA InitSInv == Init => SInv
  <1> SUFFICES ASSUME Init PROVE SInv
    OBVIOUS
  <1> USE StreamAssumption
  <1>1. TypeInv
    BY DEF Init, Ring!Init, Ring!NoWriter, TypeInv, ConnPc, FanType, NoFan, WriterType
  <1>2. HandlerInv
    BY DEF Init, HandlerInv, OpenPc
  <1>3. SubsMatchStreams
    BY DEF Init, SubsMatchStreams
  <1>4. FanInv
    BY DEF Init, Ring!Init, Ring!NoWriter, FanInv, NoFan
  <1>5. LimiterInv
    <2>1. Active = {}
      BY DEF Init, Active
    <2> QED
      BY <2>1, FS_EmptySet DEF Init, LimiterInv
  <1> QED
    BY <1>1, <1>2, <1>3, <1>4, <1>5 DEF SInv

\* Most handler steps only move the handler, inside or outside the interval in
\* which its queue is open.
LEMMA Moves ==
    ASSUME SInv, NEW s \in Streams,
           NEW from \in ConnPc \ {"idle"}, NEW to \in ConnPc \ {"idle"},
           from \in OpenPc <=> to \in OpenPc,
           Goto(s, from, to),
           UNCHANGED <<chan, opened, subs, fan, inUse, appended, wr>>
    PROVE  SInv'
  <1>1. TypeInv /\ HandlerInv /\ SubsMatchStreams /\ FanInv /\ LimiterInv
    BY DEF SInv
  <1>2. pc' = [pc EXCEPT ![s] = to] /\ pc[s] = from
    BY DEF Goto
  <1>3. TypeInv'
    BY <1>1, <1>2 DEF TypeInv
  <1>4. HandlerInv'
    BY <1>1, <1>2 DEF HandlerInv, TypeInv
  <1>5. SubsMatchStreams'
    BY <1>1 DEF SubsMatchStreams
  <1>6. FanInv'
    BY <1>1 DEF FanInv
  <1>7. Active' = Active
    BY <1>1, <1>2 DEF Active, TypeInv
  <1>8. LimiterInv'
    BY <1>1, <1>7 DEF LimiterInv
  <1> QED
    BY <1>3, <1>4, <1>5, <1>6, <1>8 DEF SInv

\* The steps of one handler.
LEMMA HandlerStep ==
    ASSUME SInv, NEW s \in Streams, Handler(s)
    PROVE  SInv'
  <1> USE DEF ConnPc, OpenPc
  <1>1. TypeInv /\ HandlerInv /\ SubsMatchStreams /\ FanInv /\ LimiterInv
    BY DEF SInv
  <1>2. CASE Greet(s)
    BY <1>2, Moves DEF Greet, ringVars
  <1>3. CASE ReadCursor(s)
    BY <1>3, Moves DEF ReadCursor, ringVars
  <1>4. CASE Register(s)
    <2>1. /\ pc' = [pc EXCEPT ![s] = "drain"] /\ pc[s] = "subscribe"
          /\ fan.pc # "send" /\ opened' = opened \cup {s}
          /\ subs' = [subs EXCEPT ![chan[s]] = @ \cup {s}]
          /\ UNCHANGED <<chan, fan, inUse, appended, wr>>
      BY <1>4 DEF Register, Goto, BrokerUnlocked, ringVars
    <2>2. chan[s] \in Channels
      BY <1>1, <2>1 DEF HandlerInv
    <2>3. TypeInv'
      BY <1>1, <2>1, <2>2 DEF TypeInv
    <2>4. HandlerInv'
      BY <1>1, <2>1 DEF HandlerInv, TypeInv
    <2>5. SubsMatchStreams'
      BY <1>1, <2>1, <2>2 DEF SubsMatchStreams, TypeInv
    <2>6. FanInv'
      BY <1>1, <2>1 DEF FanInv
    <2>7. Active' = Active
      BY <1>1, <2>1 DEF Active, TypeInv
    <2> QED
      BY <1>1, <2>1, <2>3, <2>4, <2>5, <2>6, <2>7 DEF SInv, LimiterInv
  <1>5. CASE Drain(s)
    BY <1>5, Moves DEF Drain, ringVars
  <1>6. CASE WriteHistory(s)
    BY <1>6, Moves DEF WriteHistory, ringVars
  <1>7. CASE Receive(s)
    BY <1>7, Moves DEF Receive, ringVars
  <1>8. CASE Ack(s)
    BY <1>8, Moves DEF Ack, ringVars
  <1>9. CASE WriteLive(s)
    BY <1>9, Moves DEF WriteLive, ringVars
  <1>10. CASE ClientGone(s)
    BY <1>10, Moves DEF ClientGone, ringVars
  <1>11. CASE KeepaliveFails(s)
    BY <1>11, Moves DEF KeepaliveFails, ringVars
  <1>12. CASE SaveCursor(s)
    BY <1>12, Moves DEF SaveCursor, ringVars
  <1>13. CASE Unsubscribe(s)
    <2>1. /\ pc' = [pc EXCEPT ![s] = "release"] /\ pc[s] = "unsubscribe"
          /\ fan.pc # "send" /\ opened' = opened \ {s}
          /\ subs' = [subs EXCEPT ![chan[s]] = @ \ {s}]
          /\ UNCHANGED <<chan, fan, inUse, appended, wr>>
      BY <1>13 DEF Unsubscribe, Goto, BrokerUnlocked, ringVars
    <2>2. chan[s] \in Channels
      BY <1>1, <2>1 DEF HandlerInv
    <2>3. TypeInv'
      BY <1>1, <2>1, <2>2 DEF TypeInv
    <2>4. HandlerInv'
      BY <1>1, <2>1 DEF HandlerInv, TypeInv
    <2>5. SubsMatchStreams'
      BY <1>1, <2>1, <2>2 DEF SubsMatchStreams, TypeInv
    <2>6. FanInv'
      BY <1>1, <2>1 DEF FanInv
    <2>7. Active' = Active
      BY <1>1, <2>1 DEF Active, TypeInv
    <2> QED
      BY <1>1, <2>1, <2>3, <2>4, <2>5, <2>6, <2>7 DEF SInv, LimiterInv
  <1>14. CASE Release(s)
    <2>1. /\ pc' = [pc EXCEPT ![s] = "idle"] /\ pc[s] = "release"
          /\ chan' = [chan EXCEPT ![s] = NoChannel] /\ inUse' = inUse - 1
          /\ UNCHANGED <<opened, subs, fan, appended, wr>>
      BY <1>14 DEF Release, Goto, ringVars
    <2>2. TypeInv'
      BY <1>1, <2>1 DEF TypeInv
    <2>3. HandlerInv'
      BY <1>1, <2>1 DEF HandlerInv, TypeInv
    <2>4. SubsMatchStreams'
      <3>1. s \notin opened
        BY <1>1, <2>1 DEF HandlerInv
      <3> QED
        BY <1>1, <2>1, <3>1 DEF SubsMatchStreams, TypeInv
    <2>5. FanInv'
      BY <1>1, <2>1 DEF FanInv
    <2>6. s \in Active /\ Active' = Active \ {s}
      BY <1>1, <2>1 DEF Active, TypeInv
    <2>7. Cardinality(Active') = Cardinality(Active) - 1
      BY <2>6, ActiveFinite, FS_RemoveElement
    <2>8. LimiterInv'
      BY <1>1, <2>1, <2>7, ActiveFinite, StreamAssumption DEF LimiterInv
    <2> QED
      BY <2>2, <2>3, <2>4, <2>5, <2>8 DEF SInv
  <1> QED
    BY <1>2, <1>3, <1>4, <1>5, <1>6, <1>7, <1>8, <1>9, <1>10, <1>11, <1>12,
       <1>13, <1>14 DEF Handler, HandlerSteps

\* A request that gets a place in the limiter.
LEMMA OpenStep ==
    ASSUME SInv, NEW s \in Streams, NEW ch \in Channels, Open(s, ch)
    PROVE  SInv'
  <1> USE DEF ConnPc, OpenPc
  <1>1. TypeInv /\ HandlerInv /\ SubsMatchStreams /\ FanInv /\ LimiterInv
    BY DEF SInv
  <1>2. /\ pc' = [pc EXCEPT ![s] = "greet"] /\ pc[s] = "idle"
        /\ chan' = [chan EXCEPT ![s] = ch] /\ inUse' = inUse + 1 /\ inUse < MaxConns
        /\ UNCHANGED <<opened, subs, fan, appended, wr>>
    BY DEF Open, Goto, ringVars
  <1>3. TypeInv'
    BY <1>1, <1>2 DEF TypeInv
  <1>4. HandlerInv'
    BY <1>1, <1>2 DEF HandlerInv, TypeInv
  <1>5. SubsMatchStreams'
    <2>1. s \notin opened
      BY <1>1, <1>2 DEF HandlerInv
    <2> QED
      BY <1>1, <1>2, <2>1 DEF SubsMatchStreams, TypeInv
  <1>6. FanInv'
    BY <1>1, <1>2 DEF FanInv
  <1>7. s \notin Active /\ Active' = Active \cup {s}
    BY <1>1, <1>2 DEF Active, TypeInv
  <1>8. Cardinality(Active') = Cardinality(Active) + 1
    BY <1>7, ActiveFinite, FS_AddElement
  <1>9. LimiterInv'
    BY <1>1, <1>2, <1>8, ActiveFinite, StreamAssumption DEF LimiterInv
  <1> QED
    BY <1>3, <1>4, <1>5, <1>6, <1>9 DEF SInv

\* Steps that leave the handlers' positions and the registrations alone.
LEMMA Elsewhere ==
    ASSUME SInv, UNCHANGED <<pc, chan, opened, subs, inUse>>,
           fan' \in FanType, FanInv', appended' \in Nat, wr' \in WriterType
    PROVE  SInv'
  BY DEF SInv, TypeInv, HandlerInv, SubsMatchStreams, LimiterInv, Active

\* The steps of the callback goroutine.
LEMMA CallbackStep ==
    ASSUME SInv,
           Callback \/ \E ch \in Channels, sz \in Sizes : Deliver(ch, sz)
    PROVE  SInv'
  <1>1. TypeInv /\ FanInv /\ fan \in FanType /\ appended \in Nat /\ wr \in WriterType
    BY DEF SInv, TypeInv
  <1>2. ASSUME NEW ch \in Channels, NEW sz \in Sizes, Deliver(ch, sz) PROVE SInv'
    <2> DEFINE m == [data |-> appended + 1, size |-> sz, channel |-> ch]
    <2>1. /\ fan' = [pc |-> "append", todo |-> {}, msg |-> <<m>>]
          /\ appended' = appended + 1 /\ appended < MaxAppends
          /\ wr' = [pc |-> "bytes", channel |-> ch, data |-> appended + 1, size |-> sz]
          /\ UNCHANGED <<pc, chan, opened, subs, inUse>>
      BY <1>2 DEF Deliver, Ring!AppendLock, handlerVars
    <2>2. m \in Message
      <3>1. MaxAppends \in Nat
        BY RingParameters DEF Ring!RingAssumption
      <3> QED
        BY <1>1, <2>1, <3>1 DEF Message, Payloads
    <2>3. fan' \in FanType
      BY <2>1, <2>2 DEF FanType
    <2>4. FanInv'
      BY <2>1 DEF FanInv
    <2>5. wr' \in WriterType
      BY <1>1, <2>1 DEF WriterType
    <2> QED
      BY <1>1, <2>1, <2>3, <2>4, <2>5, Elsewhere
  <1>3. CASE DeliverEvict
    <2>1. /\ UNCHANGED <<pc, chan, opened, subs, inUse, fan, appended>>
          /\ wr.pc = "bytes"
          /\ wr' = wr \/ wr' = [wr EXCEPT !.pc = "store"]
      BY <1>3 DEF DeliverEvict, streamVars, handlerVars, Ring!AppendEvictForBytes,
                  Ring!AppendEvictWhenFull
    <2>2. wr' \in WriterType /\ wr'.pc # "idle"
      BY <1>1, <2>1 DEF WriterType
    <2> QED
      BY <1>1, <2>1, <2>2, Elsewhere DEF FanInv
  <1>4. CASE DeliverStore
    <2>1. /\ fan' = [fan EXCEPT !.pc = "stored"]
          /\ wr.pc # "idle" /\ wr' = Ring!NoWriter
          /\ UNCHANGED <<pc, chan, opened, subs, inUse, appended>>
      BY <1>4 DEF DeliverStore, handlerVars, Ring!AppendStore
    <2>2. fan' \in FanType
      BY <1>1, <2>1 DEF FanType
    <2>3. FanInv'
      BY <1>1, <2>1 DEF FanInv, FanType, Ring!NoWriter
    <2>4. wr' \in WriterType
      BY <2>1 DEF WriterType, Ring!NoWriter
    <2> QED
      BY <1>1, <2>1, <2>2, <2>3, <2>4, Elsewhere
  <1>5. CASE FanoutLock
    <2> DEFINE targets == subs[fan.msg[1].channel]
    <2>1. /\ fan' = IF targets = {} THEN NoFan
                    ELSE [fan EXCEPT !.pc = "send", !.todo = targets]
          /\ fan.pc = "stored"
          /\ UNCHANGED <<pc, chan, opened, subs, inUse, appended, wr>>
      BY <1>5 DEF FanoutLock, handlerVars, ringVars
    <2>2. fan.msg # <<>> /\ fan.msg[1].channel \in Channels
      BY <1>1, <2>1 DEF FanInv, FanType, Message
    <2>3. targets \subseteq Streams
      BY <1>1, <2>2 DEF TypeInv
    <2>4. fan' \in FanType
      BY <1>1, <2>1, <2>3 DEF FanType, NoFan
    <2>5. FanInv'
      BY <1>1, <2>1, <2>2 DEF FanInv, NoFan, FanType
    <2> QED
      BY <1>1, <2>1, <2>4, <2>5, Elsewhere
  <1>6. ASSUME NEW s \in Streams, FanoutSend(s) PROVE SInv'
    <2> DEFINE left == fan.todo \ {s}
    <2>1. /\ fan' = IF left = {} THEN NoFan ELSE [fan EXCEPT !.todo = left]
          /\ fan.pc = "send"
          /\ UNCHANGED <<pc, chan, opened, subs, inUse, appended, wr>>
      BY <1>6 DEF FanoutSend, ringVars
    <2>2. fan' \in FanType
      BY <1>1, <2>1 DEF FanType, NoFan
    <2>3. FanInv'
      BY <1>1, <2>1 DEF FanInv, NoFan, FanType
    <2> QED
      BY <1>1, <2>1, <2>2, <2>3, Elsewhere
  <1> QED
    BY <1>2, <1>3, <1>4, <1>5, <1>6 DEF Callback

LEMMA NextSInv == SInv /\ [Next]_vars => SInv'
  <1> SUFFICES ASSUME SInv, [Next]_vars PROVE SInv'
    OBVIOUS
  <1>1. TypeInv /\ FanInv /\ fan \in FanType /\ appended \in Nat /\ wr \in WriterType
    BY DEF SInv, TypeInv
  <1>2. CASE \E s \in Streams : Disconnect(s)
    <2>1. UNCHANGED <<pc, chan, opened, subs, inUse, fan, appended, wr>>
      BY <1>2 DEF Disconnect, ringVars
    <2> QED
      BY <1>1, <2>1, Elsewhere DEF FanInv
  <1>3. CASE Cleanup \/ Tick \/ UNCHANGED vars
    <2>1. UNCHANGED <<pc, chan, opened, subs, inUse, fan, appended, wr>>
      BY <1>3 DEF Cleanup, Tick, vars, streamVars, handlerVars, ringVars,
                  Ring!evictExpired, Ring!Tick
    <2> QED
      BY <1>1, <2>1, Elsewhere DEF FanInv
  <1> QED
    BY <1>2, <1>3, HandlerStep, OpenStep, CallbackStep DEF Next

LEMMA Inductive == Spec => []SInv
  BY InitSInv, NextSInv, PTL DEF Spec

\* However many streams come and go while messages arrive, fanout sends only to
\* queues that are open and of the message's channel.
THEOREM NeverSendsOnClosed == Spec => []NoSendOnClosed
  <1>1. SInv => NoSendOnClosed
    BY DEF SInv, NoSendOnClosed, FanInv, SubsMatchStreams, TypeInv, FanType, Message
  <1> QED
    BY <1>1, Inductive, PTL

\* The broker's table and the handlers agree on which queues exist.
THEOREM SubsCorrect == Spec => []SubsMatchStreams
  <1>1. SInv => SubsMatchStreams
    BY DEF SInv
  <1> QED
    BY <1>1, Inductive, PTL

\* Every exit path of the handler gives its place back exactly once.
THEOREM LimiterCorrect == Spec => []LimiterExact
  <1>1. SInv => LimiterExact
    BY DEF SInv, LimiterInv, LimiterExact, Active
  <1> QED
    BY <1>1, Inductive, PTL

-----------------------------------------------------------------------------
(* Induction over the numbers                                              *)

LEMMA Least ==
    ASSUME NEW T \in SUBSET Nat, T # {}
    PROVE  \E n \in T : \A m \in T : n <= m
  <1> DEFINE R == OpToRel(<, Nat)
  <1>1. \E x \in T : \A y \in T : ~(<<y, x>> \in R)
    BY NatLessThanWellFounded, WFMin
  <1>2. \A x, y \in Nat : <<y, x>> \in R <=> y < x
    BY DEF OpToRel
  <1> HIDE DEF R
  <1>3. PICK n \in T : \A m \in T : ~(<<m, n>> \in R)
    BY <1>1
  <1>4. \A m \in T : ~(m < n)
    BY <1>2, <1>3
  <1> QED
    BY <1>4

LEMMA Induct ==
    ASSUME NEW T \in SUBSET Nat, 0 \in T, \A n \in T : n + 1 \in T
    PROVE  T = Nat
  <1> SUFFICES ASSUME Nat \ T # {} PROVE FALSE
    OBVIOUS
  <1>1. PICK n \in Nat \ T : \A m \in Nat \ T : n <= m
    BY Least
  <1>2. n # 0 /\ n - 1 \in Nat
    OBVIOUS
  <1>3. n - 1 \in T
    BY <1>1, <1>2
  <1> QED
    BY <1>2, <1>3

-----------------------------------------------------------------------------
(* The scan of Get                                                         *)

LEMMA SameCardinality == \A S : Ring!Cardinality(S) = Cardinality(S)
  BY Zenon DEF Ring!Cardinality, Cardinality

\* A finite set of scan positions can be listed in order.
LEMMA Listed ==
    ASSUME NEW S \in SUBSET Nat, IsFiniteSet(S)
    PROVE  Ring!InOrder(S) # {}
  <1> DEFINE P(U) == \E f \in [1 .. Cardinality(U) -> U] :
                       \A i, j \in 1 .. Cardinality(U) : i < j => f[i] < f[j]
             T == {n \in Nat : \A U \in SUBSET Nat :
                                 IsFiniteSet(U) /\ Cardinality(U) = n => P(U)}
  <1>1. 0 \in T
    <2>1. ASSUME NEW U \in SUBSET Nat, IsFiniteSet(U), Cardinality(U) = 0 PROVE P(U)
      <3> DEFINE f == [i \in 1 .. 0 |-> 0]
      <3>1. f \in [1 .. Cardinality(U) -> U]
        BY <2>1
      <3>2. \A i, j \in 1 .. Cardinality(U) : i < j => f[i] < f[j]
        BY <2>1
      <3> QED
        BY <3>1, <3>2
    <2> QED
      BY <2>1
  <1>2. ASSUME NEW n \in T PROVE n + 1 \in T
    <2>1. ASSUME NEW U \in SUBSET Nat, IsFiniteSet(U), Cardinality(U) = n + 1 PROVE P(U)
      <3>1. U # {}
        BY <2>1, FS_EmptySet
      <3>2. PICK m \in U : \A k \in U : m <= k
        BY <3>1, Least
      <3> DEFINE V == U \ {m}
      <3>3. IsFiniteSet(V) /\ Cardinality(V) = n
        BY <2>1, FS_RemoveElement
      <3>4. P(V)
        BY <3>3
      <3>5. PICK f \in [1 .. n -> V] : \A i, j \in 1 .. n : i < j => f[i] < f[j]
        BY <3>3, <3>4
      <3> DEFINE g == [i \in 1 .. n + 1 |-> IF i = 1 THEN m ELSE f[i - 1]]
      <3>6. g \in [1 .. n + 1 -> U]
        BY <3>5
      <3>7. ASSUME NEW i \in 1 .. n + 1, NEW j \in 1 .. n + 1, i < j
            PROVE  g[i] < g[j]
        <4>1. j - 1 \in 1 .. n /\ g[j] = f[j - 1] /\ f[j - 1] \in V
          BY <3>5, <3>7
        <4>2. CASE i = 1
          <5>1. m \in Nat /\ f[j - 1] \in Nat /\ f[j - 1] # m /\ m <= f[j - 1] /\ g[i] = m
            BY <3>2, <4>1, <4>2
          <5> QED
            BY <4>1, <5>1
        <4>3. CASE i # 1
          BY <3>5, <3>7, <4>1, <4>3
        <4> QED
          BY <4>2, <4>3
      <3> HIDE DEF g
      <3> QED
        BY <2>1, <3>6, <3>7
    <2> QED
      BY <2>1
  <1> HIDE DEF T
  <1>3. T = Nat
    BY <1>1, <1>2, Induct DEF T
  <1>4. Cardinality(S) \in Nat
    BY FS_CardinalityType
  <1>5. P(S)
    BY <1>3, <1>4 DEF T
  <1> QED
    BY <1>5, SameCardinality DEF Ring!InOrder

\* Such a list leaves nothing out.
LEMMA ListsAll ==
    ASSUME NEW S \in SUBSET Nat, IsFiniteSet(S), NEW f \in Ring!InOrder(S), NEW k \in S
    PROVE  \E i \in 1 .. Cardinality(S) : f[i] = k
  <1> DEFINE n == Cardinality(S)
  <1>1. n \in Nat
    BY FS_CardinalityType
  <1>2. f \in [1 .. n -> S] /\ \A i, j \in 1 .. n : i < j => f[i] < f[j]
    BY SameCardinality DEF Ring!InOrder
  <1> HIDE DEF n
  <1>3. \A i \in 1 .. n : f[i] \in Nat
    BY <1>2
  <1>4. \A i, j \in 1 .. n : f[i] = f[j] => i = j
    <2> SUFFICES ASSUME NEW i \in 1 .. n, NEW j \in 1 .. n, f[i] = f[j], i # j
                 PROVE  FALSE
      OBVIOUS
    <2>1. i < j \/ j < i
      BY <1>1
    <2> QED
      BY <1>2, <1>3, <2>1
  <1>5. f \in Injection(1 .. n, S)
    BY <1>2, <1>4 DEF Injection, IsInjective
  <1>6. Cardinality(1 .. n) = n
    BY <1>1, FS_Interval
  <1>7. f \in Surjection(1 .. n, S)
    BY <1>5, <1>6, FS_Injection DEF n
  <1> QED
    BY <1>7 DEF Surjection, n

\* Where the scan loops read: inside the array.
LEMMA ScanSlot ==
    ASSUME Ring!TypeOK, NEW k \in 0 .. MaxSize - 1
    PROVE  /\ Ring!Slot(k) \in Ring!Slots
           /\ Ring!Slot(k) = IF tail + k < MaxSize THEN tail + k ELSE tail + k - MaxSize
  <1>1. MaxSize \in Nat \ {0} /\ tail \in 0 .. MaxSize - 1
    BY RingParameters DEF Ring!RingAssumption, Ring!TypeOK, Ring!Slots
  <1>2. (tail + k) % MaxSize = IF tail + k < MaxSize THEN tail + k ELSE tail + k - MaxSize
    BY <1>1
  <1> QED
    BY <1>1, <1>2 DEF Ring!Slot, Ring!Slots

LEMMA LenBound == Ring!TypeOK => Ring!lenLocked \in 0 .. MaxSize
  BY RingParameters DEF Ring!RingAssumption, Ring!TypeOK, Ring!lenLocked, Ring!Slots

\* A slot is cleared or holds an entry.
LEMMA SlotTypes ==
    ASSUME Ring!TypeOK, NEW i \in Ring!Slots
    PROVE  /\ entries[i].data \in 0 .. MaxAppends
           /\ entries[i].timestamp \in Nat
           /\ entries[i].timestamp # 0 =>
                entries[i] \in Ring!Entry /\ entries[i].data \in Payloads
           /\ entries[i] = Ring!EmptyEntry <=> entries[i].timestamp = 0
  <1> USE RingParameters DEF Ring!RingAssumption
  <1>1. entries[i] \in Ring!Entry \cup {Ring!EmptyEntry}
    BY DEF Ring!TypeOK
  <1>2. CASE entries[i] = Ring!EmptyEntry
    <2>1. entries[i].timestamp = 0 /\ entries[i].data = 0
      BY <1>2 DEF Ring!EmptyEntry
    <2> QED
      BY <1>2, <2>1
  <1>3. CASE entries[i] \in Ring!Entry
    <2>1. entries[i].data \in 1 .. MaxAppends /\ entries[i].timestamp \in 1 .. MaxClock
      BY <1>3 DEF Ring!Entry, Ring!Payloads
    <2>2. Ring!EmptyEntry.timestamp = 0
      BY DEF Ring!EmptyEntry
    <2>3. entries[i] # Ring!EmptyEntry
      BY <2>1, <2>2
    <2> QED
      BY <1>3, <2>1, <2>3 DEF Payloads
  <1> QED
    BY <1>1, <1>2, <1>3

LEMMA MatchFacts ==
    ASSUME Ring!TypeOK, NEW ch, NEW since, NEW M, M = Ring!Matching(ch, since)
    PROVE  /\ M \in SUBSET Nat /\ IsFiniteSet(M) /\ Cardinality(M) \in Nat
           /\ \A k \in M : /\ Ring!Slot(k) \in Ring!Slots
                           /\ entries[Ring!Slot(k)].data \in Payloads
  <1>1. Ring!lenLocked \in 0 .. MaxSize /\ MaxSize \in Nat
    BY LenBound, RingParameters DEF Ring!RingAssumption
  <1>2. IsFiniteSet(0 .. Ring!lenLocked - 1)
    BY <1>1, FS_Interval
  <1>3. M \subseteq 0 .. Ring!lenLocked - 1
    BY DEF Ring!Matching
  <1>4. IsFiniteSet(M) /\ Cardinality(M) \in Nat
    BY <1>2, <1>3, FS_Subset, FS_CardinalityType
  <1>5. ASSUME NEW k \in M
        PROVE  Ring!Slot(k) \in Ring!Slots /\ entries[Ring!Slot(k)].data \in Payloads
    <2>1. k \in 0 .. MaxSize - 1
      BY <1>1, <1>3
    <2>2. Ring!Slot(k) \in Ring!Slots
      BY <2>1, ScanSlot
    <2>3. entries[Ring!Slot(k)].timestamp # 0
      BY DEF Ring!Matching, Ring!entryExpired
    <2> QED
      BY <2>2, <2>3, SlotTypes
  <1> QED
    BY <1>1, <1>3, <1>4, <1>5

\* Get returns payloads that match; all of them when it returns as many.
LEMMA Got ==
    ASSUME Ring!TypeOK, NEW ch, NEW since, NEW limit \in Nat,
           NEW M, M = Ring!Matching(ch, since),
           NEW got, got = Ring!Get(ch, since, limit)
    PROVE  /\ got \in Seq(Payloads) /\ Len(got) <= Cardinality(M)
           /\ limit = 0 => Len(got) = Cardinality(M)
           /\ Len(got) = Cardinality(M) =>
                \A k \in M : \E i \in 1 .. Len(got) : got[i] = entries[Ring!Slot(k)].data
  <1>1. /\ M \in SUBSET Nat /\ IsFiniteSet(M) /\ Cardinality(M) \in Nat
        /\ \A k \in M : /\ Ring!Slot(k) \in Ring!Slots
                        /\ entries[Ring!Slot(k)].data \in Payloads
    BY MatchFacts
  <1> DEFINE found == CHOOSE f \in Ring!InOrder(M) : TRUE
             n == IF limit > 0 /\ limit < Len(found) THEN limit ELSE Len(found)
  <1>2. found \in Ring!InOrder(M)
    BY <1>1, Listed, Zenon
  <1>3. got = [i \in 1 .. n |-> entries[Ring!Slot(found[i])].data]
    BY DEF Ring!Get
  <1> HIDE DEF found
  <1>4. found \in [1 .. Cardinality(M) -> M]
    BY <1>2, SameCardinality DEF Ring!InOrder
  <1>5. Len(found) = Cardinality(M)
    BY <1>1, <1>4
  <1>6. n \in 0 .. Cardinality(M) /\ (limit = 0 => n = Cardinality(M))
    BY <1>1, <1>5
  <1> HIDE DEF n
  <1>7. \A i \in 1 .. n : found[i] \in M
    BY <1>1, <1>4, <1>6
  <1>8. got \in [1 .. n -> Payloads]
    BY <1>1, <1>3, <1>7
  <1>9. got \in Seq(Payloads) /\ Len(got) = n
    BY <1>6, <1>8
  <1>10. ASSUME n = Cardinality(M), NEW k \in M
         PROVE  \E i \in 1 .. n : got[i] = entries[Ring!Slot(k)].data
    <2>1. PICK i \in 1 .. n : found[i] = k
      BY <1>1, <1>2, <1>10, ListsAll
    <2> QED
      BY <1>3, <2>1
  <1> QED
    BY <1>6, <1>9, <1>10

-----------------------------------------------------------------------------
(* The bytes of a queue                                                    *)

\* The recursion of QueuedBytes over the first n messages, with values in f.
Adds(f, q, n) == /\ DOMAIN f = 0 .. n /\ f[0] = 0
                 /\ \A i \in 1 .. n : f[i] = f[i - 1] + q[i].size

LEMMA AddsExists ==
    ASSUME NEW q \in Seq(Message)
    PROVE  \A n \in Nat : \E f : Adds(f, q, n) /\ f = [i \in 0 .. n |-> f[i]]
  <1> DEFINE P(f, n) == Adds(f, q, n) /\ f = [i \in 0 .. n |-> f[i]]
             T == {n \in Nat : \E f : P(f, n)}
  <1>1. 0 \in T
    <2> DEFINE f == [i \in 0 .. 0 |-> 0]
    <2>1. P(f, 0)
      BY DEF Adds
    <2> QED
      BY <2>1
  <1>2. ASSUME NEW n \in T PROVE n + 1 \in T
    <2>1. PICK f : Adds(f, q, n)
      BY <1>2
    <2> DEFINE g == [i \in 0 .. n + 1 |-> IF i = n + 1 THEN f[n] + q[i].size ELSE f[i]]
    <2>2. ASSUME NEW i \in 1 .. n + 1 PROVE g[i] = g[i - 1] + q[i].size
      <3>1. CASE i = n + 1
        BY <3>1
      <3>2. CASE i \in 1 .. n
        <4>1. f[i] = f[i - 1] + q[i].size
          BY <2>1, <3>2 DEF Adds
        <4> QED
          BY <3>2, <4>1
      <3> QED
        BY <3>1, <3>2
    <2>3. P(g, n + 1)
      BY <2>1, <2>2 DEF Adds
    <2> HIDE DEF g, P
    <2>4. \E h : P(h, n + 1)
      BY <2>3
    <2> QED
      BY <2>4
  <1> HIDE DEF T
  <1>3. T = Nat
    BY <1>1, <1>2, Induct DEF T
  <1> QED
    BY <1>3 DEF T

LEMMA QueuedAdds ==
    ASSUME NEW q \in Seq(Message)
    PROVE  \E f : Adds(f, q, Len(q)) /\ QueuedBytes(q) = f[Len(q)]
  <1> DEFINE H(f) == [i \in 0 .. Len(q) |-> IF i = 0 THEN 0 ELSE f[i - 1] + q[i].size]
             g == CHOOSE f : f = H(f)
  <1>1. PICK f : Adds(f, q, Len(q)) /\ f = [i \in 0 .. Len(q) |-> f[i]]
    BY AddsExists
  <1>2. \A h : DOMAIN H(h) = 0 .. Len(q) /\ H(h)[0] = 0
    OBVIOUS
  <1>3. \A h : \A i \in 1 .. Len(q) : H(h)[i] = h[i - 1] + q[i].size
    OBVIOUS
  <1>4. H(f) = [i \in 0 .. Len(q) |-> H(f)[i]]
    OBVIOUS
  <1>5. QueuedBytes(q) = g[Len(q)]
    BY Zenon DEF QueuedBytes
  <1>6. (\E h : h = H(h)) => g = H(g)
    BY Zenon
  <1> HIDE DEF g, H
  <1>7. ASSUME NEW i \in 0 .. Len(q) PROVE H(f)[i] = f[i]
    <2>1. i = 0 \/ i \in 1 .. Len(q)
      OBVIOUS
    <2> QED
      BY <1>1, <1>2, <1>3, <2>1 DEF Adds
  <1>8. f = H(f)
    BY <1>1, <1>4, <1>7
  <1>9. g = H(g)
    BY <1>6, <1>8
  <1>10. Adds(g, q, Len(q))
    <2>1. DOMAIN H(g) = 0 .. Len(q) /\ H(g)[0] = 0
      BY <1>2
    <2>2. \A i \in 1 .. Len(q) : H(g)[i] = g[i - 1] + q[i].size
      BY <1>3
    <2> QED
      BY <1>9, <2>1, <2>2, Zenon DEF Adds
  <1> QED
    BY <1>5, <1>10

LEMMA MessageSize == ASSUME NEW m \in Message PROVE m.size \in Nat
  BY RingParameters DEF Ring!RingAssumption, Message

LEMMA AddsNat ==
    ASSUME NEW q \in Seq(Message), NEW f, Adds(f, q, Len(q))
    PROVE  \A n \in 0 .. Len(q) : f[n] \in Nat
  <1> DEFINE T == {n \in Nat : n <= Len(q) => f[n] \in Nat}
  <1>1. 0 \in T
    BY DEF Adds
  <1>2. ASSUME NEW n \in T PROVE n + 1 \in T
    <2> SUFFICES ASSUME n + 1 <= Len(q) PROVE f[n + 1] \in Nat
      OBVIOUS
    <2>1. n + 1 \in 1 .. Len(q) /\ f[n] \in Nat
      OBVIOUS
    <2>2. f[n + 1] = f[n] + q[n + 1].size
      BY <2>1 DEF Adds
    <2>3. q[n + 1].size \in Nat
      BY <2>1, MessageSize
    <2> QED
      BY <2>1, <2>2, <2>3
  <1> HIDE DEF T
  <1>3. T = Nat
    BY <1>1, <1>2, Induct DEF T
  <1> QED
    BY <1>3 DEF T

LEMMA QueuedNat == ASSUME NEW q \in Seq(Message) PROVE QueuedBytes(q) \in Nat
  <1>1. PICK f : Adds(f, q, Len(q)) /\ QueuedBytes(q) = f[Len(q)]
    BY QueuedAdds
  <1> QED
    BY <1>1, AddsNat

LEMMA QueuedNone == QueuedBytes(<<>>) = 0
  <1>1. <<>> \in Seq(Message) /\ Len(<<>>) = 0
    OBVIOUS
  <1>2. PICK f : Adds(f, <<>>, 0) /\ QueuedBytes(<<>>) = f[0]
    BY <1>1, QueuedAdds
  <1> QED
    BY <1>2 DEF Adds

\* A message sent to the queue.
LEMMA QueuedAppend ==
    ASSUME NEW q \in Seq(Message), NEW m \in Message
    PROVE  QueuedBytes(Append(q, m)) = QueuedBytes(q) + m.size
  <1> DEFINE r == Append(q, m)
  <1>1. /\ r \in Seq(Message) /\ Len(r) = Len(q) + 1 /\ r[Len(r)] = m
        /\ \A i \in 1 .. Len(q) : r[i] = q[i]
    OBVIOUS
  <1> HIDE DEF r
  <1>2. PICK f : Adds(f, q, Len(q)) /\ QueuedBytes(q) = f[Len(q)]
    BY QueuedAdds
  <1>3. PICK g : Adds(g, r, Len(r)) /\ QueuedBytes(r) = g[Len(r)]
    BY <1>1, QueuedAdds
  <1> DEFINE T == {n \in Nat : n <= Len(q) => g[n] = f[n]}
  <1>4. 0 \in T
    BY <1>2, <1>3 DEF Adds
  <1>5. ASSUME NEW n \in T PROVE n + 1 \in T
    <2> SUFFICES ASSUME n + 1 <= Len(q) PROVE g[n + 1] = f[n + 1]
      OBVIOUS
    <2>1. n + 1 \in 1 .. Len(q) /\ r[n + 1] = q[n + 1] /\ g[n] = f[n]
      BY <1>1
    <2>2. f[n + 1] = f[n] + q[n + 1].size
      BY <1>2, <2>1 DEF Adds
    <2>3. g[n + 1] = g[n] + r[n + 1].size
      BY <1>1, <1>3, <2>1 DEF Adds
    <2> QED
      BY <2>1, <2>2, <2>3
  <1>6. g[Len(q)] = f[Len(q)]
    <2> HIDE DEF T
    <2>1. T = Nat
      BY <1>4, <1>5, Induct DEF T
    <2> QED
      BY <2>1 DEF T
  <1>7. g[Len(r)] = g[Len(q)] + m.size
    BY <1>1, <1>3 DEF Adds
  <1> QED
    BY <1>2, <1>3, <1>6, <1>7 DEF r

\* A message received from the queue.
LEMMA QueuedTail ==
    ASSUME NEW q \in Seq(Message), q # <<>>
    PROVE  QueuedBytes(q) = Head(q).size + QueuedBytes(Tail(q))
  <1> DEFINE r == Tail(q)
  <1>1. /\ r \in Seq(Message) /\ Len(q) = Len(r) + 1 /\ Len(r) \in Nat /\ Head(q) = q[1]
        /\ \A i \in 1 .. Len(r) : r[i] = q[i + 1]
    OBVIOUS
  <1> HIDE DEF r
  <1>2. PICK f : Adds(f, q, Len(q)) /\ QueuedBytes(q) = f[Len(q)]
    BY QueuedAdds
  <1>3. PICK g : Adds(g, r, Len(r)) /\ QueuedBytes(r) = g[Len(r)]
    BY <1>1, QueuedAdds
  <1>4. q[1].size \in Nat /\ (\A n \in 0 .. Len(r) : g[n] \in Nat)
    <2>1. q[1] \in Message
      BY <1>1
    <2> QED
      BY <1>1, <1>3, <2>1, MessageSize, AddsNat
  <1> DEFINE T == {n \in Nat : n <= Len(r) => f[n + 1] = q[1].size + g[n]}
  <1>5. 0 \in T
    <2>1. f[1] = f[0] + q[1].size /\ f[0] = 0 /\ g[0] = 0
      BY <1>1, <1>2, <1>3 DEF Adds
    <2> QED
      BY <1>4, <2>1
  <1>6. ASSUME NEW n \in T PROVE n + 1 \in T
    <2> SUFFICES ASSUME n + 1 <= Len(r) PROVE f[n + 2] = q[1].size + g[n + 1]
      OBVIOUS
    <2>1. n + 1 \in 1 .. Len(r) /\ r[n + 1] = q[n + 2] /\ f[n + 1] = q[1].size + g[n]
      BY <1>1
    <2>2. f[n + 2] = f[n + 1] + q[n + 2].size
      <3>1. n + 2 \in 1 .. Len(q) /\ (n + 2) - 1 = n + 1
        BY <1>1, <2>1
      <3> QED
        BY <1>2, <3>1 DEF Adds
    <2>3. g[n + 1] = g[n] + r[n + 1].size
      BY <1>3, <2>1 DEF Adds
    <2>4. r[n + 1].size \in Nat /\ g[n] \in Nat
      <3>1. r[n + 1] \in Message /\ n \in 0 .. Len(r)
        BY <1>1, <2>1
      <3> QED
        BY <1>4, <3>1, MessageSize
    <2> QED
      BY <1>4, <2>1, <2>2, <2>3, <2>4
  <1>7. f[Len(q)] = q[1].size + g[Len(r)]
    <2> HIDE DEF T
    <2>1. T = Nat
      BY <1>5, <1>6, Induct DEF T
    <2> QED
      BY <1>1, <2>1 DEF T
  <1> QED
    BY <1>1, <1>2, <1>3, <1>7 DEF r

-----------------------------------------------------------------------------
(* What a stream has received                                              *)

\* A slot that holds an entry is one the scan of Get reaches, and the slot an
\* Append is about to write is free.
ScanInv ==
    /\ Ring!TypeOK
    /\ \A i \in Ring!Slots : entries[i] # Ring!EmptyEntry => Ring!Occupied(i)
    /\ wr.pc = "store" => ~(full /\ head = tail)

\* The callback carries the youngest message; once it is stored, the entry with
\* its number is of its channel.
MsgInv ==
    /\ wr.pc # "idle" => wr.data = appended /\ wr.channel = fan.msg[1].channel
    /\ fan.pc # "idle" => fan.msg[1].data = appended
    /\ \A i \in Ring!Slots : entries[i].data <= appended
    /\ fan.pc = "append" => \A i \in Ring!Slots : entries[i].data < appended
    /\ fan.pc \in {"stored", "send"} =>
         \A i \in Ring!Slots : entries[i].data = appended
                                 => entries[i].channel = fan.msg[1].channel

Conn == [gone : BOOLEAN, since : Int, hist : Seq(Payloads), cut : BOOLEAN,
         queue : Seq(Message), bytes : Nat,
         inhand : {<<>>} \cup {<<m>> : m \in Message},
         lost : SUBSET Payloads, lastLive : Nat, lastMsgTs : Nat]

RecordInv ==
    /\ conn \in [Streams -> Conn]
    /\ cursor \in [Clients -> [Channels -> Nat]]
    /\ shown \in [Streams -> SUBSET Payloads]
    /\ mangled \subseteq Streams \X Payloads

\* A handler has a message in hand between Receive and the end of the write.
HandOK(c, p) == /\ c.inhand # <<>> <=> p \in {"ack", "write"}
                /\ p = "history" => c.hist # <<>>

\* The callback has the last message still to send to s.
Pending(s) == fan.pc \in {"append", "stored"} \/ s \in fan.todo

\* What was taken from the queue, what is in hand and what is queued are in
\* order, and a message still to be sent is younger than all of it.
LineOK(c, pending, n) ==
    LET Below(d) == d <= n /\ (pending => d < n) IN
    /\ Below(c.lastLive)
    /\ \A i \in 1 .. Len(c.queue) : Below(c.queue[i].data) /\ c.lastLive < c.queue[i].data
    /\ \A i, j \in 1 .. Len(c.queue) : i < j => c.queue[i].data < c.queue[j].data
    /\ c.inhand # <<>> =>
         /\ Below(c.inhand[1].data) /\ c.lastLive < c.inhand[1].data
         /\ \A i \in 1 .. Len(c.queue) : c.inhand[1].data < c.queue[i].data

BytesOK(c, p) ==
    /\ c.bytes = QueuedBytes(c.queue) + (IF p = "ack" THEN c.inhand[1].size ELSE 0)
    /\ QueueBytes > 0 => c.bytes <= QueueBytes

\* The two halves of Accounted: what has reached the stream, and what the
\* callback is about to send to it.
Received(c, written) ==
    written \cup c.lost
      \cup {c.hist[i] : i \in DOMAIN c.hist}
      \cup {c.queue[i].data : i \in DOMAIN c.queue}
      \cup {c.inhand[i].data : i \in DOMAIN c.inhand}

Due(s) == {fan.msg[i].data : i \in IF fan.pc = "stored" \/ s \in fan.todo
                                   THEN DOMAIN fan.msg ELSE {}}

ReadPc == {"history", "loop", "ack", "write"}

Wanted(e, ch, since) ==
    e.channel = ch /\ e.timestamp > since /\ ~Ring!entryExpired(e)

Kept(ch, since) ==
    {entries[i].data : i \in {j \in Ring!Slots : Wanted(entries[j], ch, since)}}

GapOK(c, p, kept, has) == p \in ReadPc /\ ~c.cut => kept \subseteq has

StreamOK(s) ==
    /\ HandOK(conn[s], pc[s])
    /\ LineOK(conn[s], Pending(s), appended)
    /\ BytesOK(conn[s], pc[s])
    /\ GapOK(conn[s], pc[s], Kept(chan[s], conn[s].since),
             Received(conn[s], shown[s]) \cup Due(s))

DInv == /\ SInv /\ ScanInv /\ MsgInv /\ RecordInv
        /\ \A s \in Streams : StreamOK(s)

-----------------------------------------------------------------------------
(* The steps of the ring                                                   *)

\* Steps that clear entries or leave the ring alone.
LEMMA EvictScan ==
    ASSUME ScanInv, Ring!evictOldestLocked, UNCHANGED <<channelTTLs, now, appended>>,
           wr' \in Ring!Writer
    PROVE  /\ ScanInv'
           /\ \A i \in Ring!Slots : entries'[i] = Ring!EmptyEntry \/ entries'[i] = entries[i]
  <1> USE RingParameters DEF Ring!RingAssumption
  <1>1. Ring!TypeOK /\ head' = head /\ Ring!lenLocked # 0
    BY DEF ScanInv, Ring!evictOldestLocked
  <1>2. MaxSize \in Nat \ {0} /\ head \in 0 .. MaxSize - 1 /\ tail \in 0 .. MaxSize - 1
    BY <1>1 DEF Ring!TypeOK, Ring!Slots
  <1>3. tail' = IF tail + 1 = MaxSize THEN 0 ELSE tail + 1
    <2>1. tail' = (tail + 1) % MaxSize
      BY DEF Ring!evictOldestLocked
    <2> QED
      BY <1>2, <2>1
  <1>4. full' <=> (full /\ tail' # head)
    BY DEF Ring!evictOldestLocked
  <1>5. /\ entries' = [entries EXCEPT ![tail] = Ring!EmptyEntry]
        /\ full' \in BOOLEAN /\ zeroed' = zeroed \cup {entries[tail].data}
    BY DEF Ring!evictOldestLocked
  <1>6. /\ \A i \in Ring!Slots : i # tail => entries'[i] = entries[i]
        /\ entries'[tail] = Ring!EmptyEntry
        /\ entries' \in [Ring!Slots -> Ring!Entry \cup {Ring!EmptyEntry}]
    BY <1>1, <1>5 DEF Ring!TypeOK
  <1>7. \A i \in Ring!Slots : Ring!Occupied(i) /\ i # tail => Ring!Occupied(i)'
    BY <1>1, <1>2, <1>3, <1>4 DEF Ring!Occupied, Ring!Slots
  <1>8. \A i \in Ring!Slots : entries'[i] # Ring!EmptyEntry => Ring!Occupied(i)'
    BY <1>6, <1>7 DEF ScanInv
  <1>9. zeroed' \subseteq 0 .. MaxAppends
    <2>1. entries[tail].data \in 0 .. MaxAppends
      BY <1>1, SlotTypes DEF Ring!TypeOK
    <2> QED
      BY <1>1, <1>5, <2>1, Zenon DEF Ring!TypeOK
  <1>10. Ring!TypeOK'
    <2>1. tail' \in Ring!Slots /\ head' \in Ring!Slots
      BY <1>1, <1>2, <1>3 DEF Ring!Slots
    <2> QED
      BY <1>1, <1>5, <1>6, <1>9, <2>1 DEF Ring!TypeOK
  <1>11. ~(full' /\ head' = tail')
    BY <1>1, <1>4
  <1> QED
    BY <1>6, <1>8, <1>10, <1>11 DEF ScanInv

LEMMA StoreScan ==
    ASSUME ScanInv, Ring!AppendStore
    PROVE  /\ ScanInv'
           /\ \A i \in Ring!Slots : i # head => entries'[i] = entries[i]
           /\ entries'[head].data = wr.data /\ entries'[head].channel = wr.channel
           /\ head \in Ring!Slots
  <1> USE RingParameters DEF Ring!RingAssumption
  <1> DEFINE new == [channel |-> wr.channel, data |-> wr.data, size |-> wr.size,
                     timestamp |-> now]
  <1>1. /\ Ring!TypeOK /\ tail' = tail /\ zeroed' = zeroed /\ channelTTLs' = channelTTLs
        /\ now' = now /\ appended' = appended /\ wr' = Ring!NoWriter
        /\ full' = (full \/ head' = tail) /\ head' = (head + 1) % MaxSize
        /\ entries' = [entries EXCEPT ![head] = new]
    BY DEF ScanInv, Ring!AppendStore
  <1>2. MaxSize \in Nat \ {0} /\ head \in 0 .. MaxSize - 1 /\ tail \in 0 .. MaxSize - 1
    BY <1>1 DEF Ring!TypeOK, Ring!Slots
  <1>3. wr \in Ring!Writer /\ ~(full /\ head = tail)
    BY <1>1 DEF Ring!TypeOK, Ring!AppendStore, ScanInv, Ring!NoWriter
  <1>4. new \in Ring!Entry
    BY <1>1, <1>3 DEF Ring!Entry, Ring!TypeOK, Ring!Writer
  <1>5. head' = IF head + 1 = MaxSize THEN 0 ELSE head + 1
    BY <1>1, <1>2
  <1>6. /\ \A i \in Ring!Slots : i # head => entries'[i] = entries[i]
        /\ head \in Ring!Slots /\ entries'[head] = new
        /\ entries' \in [Ring!Slots -> Ring!Entry \cup {Ring!EmptyEntry}]
    BY <1>1, <1>4 DEF Ring!TypeOK
  <1>7. \A i \in Ring!Slots : Ring!Occupied(i) \/ i = head => Ring!Occupied(i)'
    <2>1. full' <=> (full \/ head' = tail)
      BY <1>1
    <2>2. tail' = tail
      BY <1>1
    <2> QED
      BY <1>2, <1>3, <1>5, <2>1, <2>2 DEF Ring!Occupied, Ring!Slots
  <1>8. \A i \in Ring!Slots : entries'[i] # Ring!EmptyEntry => Ring!Occupied(i)'
    BY <1>6, <1>7 DEF ScanInv
  <1>9. Ring!TypeOK'
    <2>1. head' \in Ring!Slots /\ full' \in BOOLEAN
      BY <1>1, <1>2, <1>5 DEF Ring!Slots
    <2> QED
      BY <1>1, <1>6, <2>1 DEF Ring!TypeOK
  <1>10. wr'.pc # "store"
    BY <1>1 DEF Ring!NoWriter
  <1> QED
    BY <1>6, <1>8, <1>9, <1>10 DEF ScanInv

LEMMA ExpireScan ==
    ASSUME ScanInv, Ring!evictExpired
    PROVE  /\ ScanInv'
           /\ \A i \in Ring!Slots : \/ entries'[i] = Ring!EmptyEntry
                                    \/ \E j \in Ring!Slots : entries'[i] = entries[j]
           /\ UNCHANGED <<channelTTLs, now, wr, appended>>
  <1> USE RingParameters DEF Ring!RingAssumption
  <1> DEFINE scan == 0 .. Ring!lenLocked - 1
             dead == {i \in scan : Ring!entryExpired(entries[Ring!Slot(i)])}
             live == scan \ dead
             n == Cardinality(live)
  <1>1. Ring!TypeOK /\ Ring!lenLocked \in 0 .. MaxSize /\ MaxSize \in Nat \ {0}
    BY LenBound DEF ScanInv
  <1>2. n \in 0 .. MaxSize
    <2>1. IsFiniteSet(scan) /\ Cardinality(scan) = Ring!lenLocked
      BY <1>1, FS_Interval
    <2>2. Cardinality(live) \in Nat /\ Cardinality(live) <= Ring!lenLocked
      BY <2>1, FS_Subset, FS_CardinalityType
    <2> QED
      BY <1>1, <2>2
  <1>3. Ring!Cardinality(live) = n
    BY SameCardinality
  <1> HIDE DEF n
  <1>4. /\ tail' = 0 /\ full' = (n = MaxSize) /\ head' = n % MaxSize
        /\ zeroed' = zeroed /\ channelTTLs' = channelTTLs /\ now' = now
        /\ wr' = wr /\ appended' = appended /\ wr.pc = "idle"
    BY <1>3 DEF Ring!evictExpired
  <1>5. PICK kept \in Ring!InOrder(live) :
          entries' = [j \in Ring!Slots |-> IF j < n THEN entries[Ring!Slot(kept[j + 1])]
                                           ELSE Ring!EmptyEntry]
    BY <1>3 DEF Ring!evictExpired
  <1>6. kept \in [1 .. n -> live]
    BY <1>3, <1>5 DEF Ring!InOrder
  <1>7. ASSUME NEW i \in Ring!Slots, i < n
        PROVE  \E j \in Ring!Slots : entries'[i] = entries[j]
    <2>1. i + 1 \in 1 .. n
      BY <1>1, <1>2, <1>7 DEF Ring!Slots
    <2>2. kept[i + 1] \in 0 .. MaxSize - 1
      BY <1>1, <1>6, <2>1
    <2>3. Ring!Slot(kept[i + 1]) \in Ring!Slots
      BY <1>1, <2>2, ScanSlot
    <2> QED
      BY <1>5, <1>7, <2>3
  <1>8. \A i \in Ring!Slots : ~(i < n) => entries'[i] = Ring!EmptyEntry
    BY <1>5
  <1>9. head' = IF n = MaxSize THEN 0 ELSE n
    BY <1>1, <1>2, <1>4
  <1>10. \A i \in Ring!Slots : i < n => Ring!Occupied(i)'
    <2>1. full' <=> (n = MaxSize)
      BY <1>4
    <2> QED
      BY <1>1, <1>2, <1>4, <1>9, <2>1 DEF Ring!Occupied, Ring!Slots
  <1>11. \A i \in Ring!Slots : entries'[i] \in Ring!Entry \cup {Ring!EmptyEntry}
    BY <1>1, <1>7, <1>8 DEF Ring!TypeOK
  <1>12. Ring!TypeOK'
    <2>1. head' \in Ring!Slots /\ tail' \in Ring!Slots /\ full' \in BOOLEAN
      BY <1>1, <1>2, <1>4, <1>9 DEF Ring!Slots
    <2>2. entries' \in [Ring!Slots -> Ring!Entry \cup {Ring!EmptyEntry}]
      BY <1>5, <1>11
    <2> QED
      BY <1>1, <1>4, <2>1, <2>2 DEF Ring!TypeOK
  <1>13. ScanInv'
    BY <1>4, <1>8, <1>10, <1>12 DEF ScanInv
  <1> QED
    BY <1>4, <1>7, <1>8, <1>13

\* What Get would return for a channel only shrinks, until the next Append.
LEMMA KeptShrinks ==
    ASSUME Ring!TypeOK, now' \in {now, now + 1}, channelTTLs' = channelTTLs,
           \A i \in Ring!Slots : \/ entries'[i] = Ring!EmptyEntry
                                 \/ \E j \in Ring!Slots : entries'[i] = entries[j]
    PROVE  \A ch, since : Kept(ch, since)' \subseteq Kept(ch, since)
  <1> USE RingParameters DEF Ring!RingAssumption
  <1> SUFFICES ASSUME NEW ch, NEW since, NEW i \in Ring!Slots,
                      Wanted(entries[i], ch, since)'
               PROVE  entries'[i].data \in Kept(ch, since)
    BY DEF Kept
  <1>1. /\ entries'[i].channel = ch /\ entries'[i].timestamp > since
        /\ ~Ring!entryExpired(entries[i])'
    BY DEF Wanted
  <1>2. entries'[i].timestamp # 0
    BY <1>1 DEF Ring!entryExpired
  <1>3. entries'[i] # Ring!EmptyEntry
    BY <1>2 DEF Ring!EmptyEntry
  <1>4. PICK j \in Ring!Slots : entries'[i] = entries[j]
    BY <1>3
  <1>5. entries[j] \in Ring!Entry /\ entries[j].timestamp \in Nat
    BY <1>2, <1>4, SlotTypes
  <1>6. entries[j].channel \in Channels /\ now \in Nat
    BY <1>5 DEF Ring!Entry, Ring!TypeOK
  <1>7. \A a : Ring!EffectiveAge(a)' = Ring!EffectiveAge(a)
    BY DEF Ring!EffectiveAge
  <1>8. Ring!EffectiveAge(entries[j].channel) \in Nat
    BY <1>6 DEF Ring!EffectiveAge, Ring!TypeOK
  <1>9. ~Ring!entryExpired(entries[j])
    <2>1. ~(/\ Ring!EffectiveAge(entries[j].channel) > 0
            /\ entries[j].timestamp <= now' - Ring!EffectiveAge(entries[j].channel))
      BY <1>1, <1>4, <1>7 DEF Ring!entryExpired
    <2> QED
      BY <1>2, <1>4, <1>5, <1>6, <1>8, <2>1 DEF Ring!entryExpired
  <1>10. Wanted(entries[j], ch, since)
    BY <1>1, <1>4, <1>9 DEF Wanted
  <1> QED
    BY <1>4, <1>10 DEF Kept

LEMMA KeptSame ==
    ASSUME UNCHANGED <<entries, now, channelTTLs>>
    PROVE  \A ch, since : Kept(ch, since)' = Kept(ch, since)
  BY DEF Kept, Wanted, Ring!entryExpired, Ring!EffectiveAge

\* A stored message is the only one that comes new.
LEMMA KeptStored ==
    ASSUME ScanInv, Ring!AppendStore, wr.data = appended
    PROVE  \A ch, since : Kept(ch, since)' \subseteq Kept(ch, since) \cup {appended}
  <1>1. /\ \A i \in Ring!Slots : i # head => entries'[i] = entries[i]
        /\ entries'[head].data = appended
    BY StoreScan
  <1>2. UNCHANGED <<now, channelTTLs>>
    BY DEF Ring!AppendStore
  <1>3. \A e : Ring!entryExpired(e)' <=> Ring!entryExpired(e)
    BY <1>2 DEF Ring!entryExpired, Ring!EffectiveAge
  <1> SUFFICES ASSUME NEW ch, NEW since, NEW i \in Ring!Slots,
                      Wanted(entries[i], ch, since)', i # head
               PROVE  entries'[i].data \in Kept(ch, since)
    BY <1>1 DEF Kept
  <1>4. entries'[i] = entries[i]
    BY <1>1
  <1>5. Wanted(entries[i], ch, since)
    BY <1>3, <1>4 DEF Wanted
  <1> QED
    BY <1>4, <1>5 DEF Kept

\* What the callback is about to send to a stream is its message.
LEMMA DueIs ==
    ASSUME SInv, MsgInv, NEW s \in Streams
    PROVE  Due(s) = IF fan.pc = "stored" \/ s \in fan.todo THEN {appended} ELSE {}
  <1>1. fan \in FanType /\ FanInv
    BY DEF SInv, TypeInv
  <1>2. ASSUME fan.pc = "stored" \/ s \in fan.todo PROVE Due(s) = {appended}
    <2>1. fan.pc # "idle"
      BY <1>1, <1>2 DEF FanInv
    <2>2. fan.msg # <<>> /\ fan.msg[1].data = appended
      BY <1>1, <2>1 DEF FanInv, MsgInv
    <2>3. PICK m \in Message : fan.msg = <<m>>
      BY <1>1, <2>2 DEF FanType
    <2>4. DOMAIN fan.msg = {1}
      BY <2>3
    <2> QED
      BY <1>2, <2>2, <2>4 DEF Due
  <1>3. ASSUME ~(fan.pc = "stored" \/ s \in fan.todo) PROVE Due(s) = {}
    BY <1>3 DEF Due
  <1> QED
    BY <1>2, <1>3

-----------------------------------------------------------------------------
(* Facts about one stream                                                  *)

LEMMA ReceivedIs ==
    ASSUME NEW c \in Conn, NEW w
    PROVE  \A d : d \in Received(c, w) <=>
             \/ d \in w \/ d \in c.lost
             \/ \E i \in 1 .. Len(c.hist) : c.hist[i] = d
             \/ \E i \in 1 .. Len(c.queue) : c.queue[i].data = d
             \/ c.inhand # <<>> /\ c.inhand[1].data = d
  <1>1. /\ DOMAIN c.hist = 1 .. Len(c.hist) /\ DOMAIN c.queue = 1 .. Len(c.queue)
        /\ DOMAIN c.inhand = IF c.inhand # <<>> THEN {1} ELSE {}
    BY DEF Conn
  <1> QED
    BY <1>1 DEF Received

LEMMA LineWeaker ==
    ASSUME NEW c, NEW pending, NEW n, LineOK(c, pending, n)
    PROVE  LineOK(c, FALSE, n)
  BY DEF LineOK

\* Only some fields matter.
Alike(c, d) == /\ c.queue = d.queue /\ c.inhand = d.inhand /\ c.bytes = d.bytes
               /\ c.lastLive = d.lastLive /\ c.hist = d.hist /\ c.lost = d.lost

LEMMA AlikeFacts ==
    ASSUME NEW c, NEW d, Alike(c, d)
    PROVE  /\ \A pending, n : LineOK(c, pending, n) => LineOK(d, pending, n)
           /\ \A p, q : BytesOK(c, p) /\ (p = "ack" <=> q = "ack") => BytesOK(d, q)
           /\ \A w : Received(c, w) = Received(d, w)
  <1>1. \A pending, n : LineOK(c, pending, n) => LineOK(d, pending, n)
    BY DEF Alike, LineOK
  <1>2. \A p, q : BytesOK(c, p) /\ (p = "ack" <=> q = "ack") => BytesOK(d, q)
    BY DEF Alike, BytesOK
  <1>3. \A w : Received(c, w) = Received(d, w)
    BY DEF Alike, Received
  <1> QED
    BY <1>1, <1>2, <1>3

-----------------------------------------------------------------------------
(* The steps of a handler                                                  *)

\* Another stream's handler leaves a stream alone.
LEMMA OthersKept ==
    ASSUME DInv, NEW t \in Streams, UNCHANGED <<ringVars, fan>>,
           conn'[t] = conn[t], pc'[t] = pc[t], chan'[t] = chan[t], shown'[t] = shown[t]
    PROVE  StreamOK(t)'
  <1>1. \A ch, since : Kept(ch, since)' = Kept(ch, since)
    BY KeptSame DEF ringVars
  <1>2. Due(t)' = Due(t) /\ (Pending(t)' <=> Pending(t)) /\ appended' = appended
    BY DEF Due, Pending, ringVars
  <1>3. StreamOK(t)
    BY DEF DInv
  <1>4. HandOK(conn[t], pc[t])' /\ BytesOK(conn[t], pc[t])'
    BY <1>3 DEF StreamOK
  <1>5. LineOK(conn[t], Pending(t), appended)'
    BY <1>2, <1>3 DEF StreamOK, LineOK
  <1>6. GapOK(conn[t], pc[t], Kept(chan[t], conn[t].since),
              Received(conn[t], shown[t]) \cup Due(t))'
    BY <1>1, <1>2, <1>3 DEF StreamOK, GapOK
  <1> QED
    BY <1>4, <1>5, <1>6 DEF StreamOK

LEMMA OneHandler ==
    ASSUME DInv, SInv', NEW s \in Streams, UNCHANGED <<ringVars, fan>>, RecordInv',
           \A t \in Streams : t # s => /\ conn'[t] = conn[t] /\ pc'[t] = pc[t]
                                       /\ chan'[t] = chan[t] /\ shown'[t] = shown[t],
           HandOK(conn'[s], pc'[s]), BytesOK(conn'[s], pc'[s]),
           LineOK(conn'[s], Pending(s), appended),
           GapOK(conn'[s], pc'[s], Kept(chan'[s], conn'[s].since),
                 Received(conn'[s], shown'[s]) \cup Due(s))
    PROVE  DInv'
  <1>1. \A ch, since : Kept(ch, since)' = Kept(ch, since)
    BY KeptSame DEF ringVars
  <1>2. Due(s)' = Due(s) /\ (Pending(s)' <=> Pending(s)) /\ appended' = appended
    BY DEF Due, Pending, ringVars
  <1>3. LineOK(conn[s], Pending(s), appended)'
    BY <1>2 DEF LineOK
  <1>4. GapOK(conn[s], pc[s], Kept(chan[s], conn[s].since),
              Received(conn[s], shown[s]) \cup Due(s))'
    BY <1>1, <1>2 DEF GapOK
  <1>5. StreamOK(s)'
    BY <1>3, <1>4 DEF StreamOK
  <1>6. \A t \in Streams : StreamOK(t)'
    BY <1>5, OthersKept
  <1>7. ScanInv'
    BY DEF DInv, ScanInv, ringVars, Ring!TypeOK, Ring!Occupied
  <1>8. MsgInv'
    BY DEF DInv, MsgInv, ringVars
  <1> QED
    BY <1>6, <1>7, <1>8 DEF DInv

\* Steps that change nothing a stream has received and enter neither the
\* history nor the loop.
LEMMA Aside ==
    ASSUME DInv, SInv', NEW s \in Streams, UNCHANGED <<ringVars, fan, shown>>, RecordInv',
           \A t \in Streams : t # s => /\ conn'[t] = conn[t] /\ pc'[t] = pc[t]
                                       /\ chan'[t] = chan[t],
           Alike(conn[s], conn'[s]),
           pc'[s] = pc[s] \/ ({pc[s], pc'[s]} \cap {"history", "ack", "write"} = {}),
           pc'[s] \in ReadPc => /\ pc[s] \in ReadPc /\ chan'[s] = chan[s]
                                /\ conn'[s].since = conn[s].since
                                /\ conn'[s].cut = conn[s].cut
    PROVE  DInv'
  <1>1. StreamOK(s)
    BY DEF DInv
  <1>2. HandOK(conn'[s], pc'[s])
    BY <1>1 DEF StreamOK, HandOK, Alike
  <1>3. BytesOK(conn'[s], pc'[s])
    BY <1>1, AlikeFacts DEF StreamOK
  <1>4. LineOK(conn'[s], Pending(s), appended)
    BY <1>1, AlikeFacts DEF StreamOK
  <1>5. Received(conn'[s], shown'[s]) = Received(conn[s], shown[s])
    BY AlikeFacts
  <1>6. GapOK(conn'[s], pc'[s], Kept(chan'[s], conn'[s].since),
              Received(conn'[s], shown'[s]) \cup Due(s))
    BY <1>1, <1>5 DEF StreamOK, GapOK
  <1> QED
    BY <1>2, <1>3, <1>4, <1>6, OneHandler

LEMMA MillisType ==
    /\ \A t \in Nat : UnixMilli(t) \in Nat
    /\ \A ms \in Nat : FromMilli(ms) \in Int
  <1>1. \A t \in Nat : t \div MsTicks \in Nat
    BY StreamAssumption
  <1> QED
    BY <1>1, StreamAssumption DEF UnixMilli, FromMilli

LEMMA AsideSteps ==
    ASSUME DInv, SInv', NEW s \in Streams,
           \/ Greet(s) \/ ReadCursor(s) \/ Register(s) \/ ClientGone(s)
           \/ KeepaliveFails(s) \/ SaveCursor(s) \/ Unsubscribe(s) \/ Disconnect(s)
           \/ \E ch \in Channels : Open(s, ch)
    PROVE  DInv'
  <1> USE DEF ReadPc, Goto
  <1>1. /\ conn \in [Streams -> Conn] /\ pc \in [Streams -> ConnPc] /\ RecordInv
        /\ chan \in [Streams -> Channels \cup {NoChannel}]
        /\ (pc[s] # "idle" => chan[s] \in Channels)
    BY DEF DInv, RecordInv, SInv, TypeInv, HandlerInv
  <1>2. conn[s] \in Conn /\ Alike(conn[s], conn[s])
    BY <1>1 DEF Alike
  <1>3. now \in Nat
    BY RingParameters DEF DInv, ScanInv, Ring!TypeOK, Ring!RingAssumption
  <1>4. CASE Greet(s)
    <2>1. UNCHANGED <<ringVars, fan, shown, conn, chan, cursor, mangled>>
      BY <1>4 DEF Greet
    <2>2. RecordInv'
      BY <1>1, <2>1 DEF RecordInv
    <2> QED
      BY <1>1, <1>2, <1>4, <2>1, <2>2, Aside DEF Greet
  <1>5. CASE ReadCursor(s)
    <2> DEFINE c == ClientOf[s]
               saved == IF c = NoClient THEN 0 ELSE cursor[c][chan[s]]
    <2>0. PICK ms \in {saved, 0} :
            conn' = [conn EXCEPT ![s].since = IF ms > 0 THEN FromMilli(ms) ELSE ZeroTime]
      BY <1>5 DEF ReadCursor
    <2> DEFINE since == IF ms > 0 THEN FromMilli(ms) ELSE ZeroTime
    <2>1. /\ UNCHANGED <<ringVars, fan, shown, chan, cursor, mangled>>
          /\ pc[s] = "cursor" /\ pc' = [pc EXCEPT ![s] = "subscribe"]
          /\ conn' = [conn EXCEPT ![s].since = since]
      BY <1>5, <2>0 DEF ReadCursor
    <2>2. ms \in Nat
      <3>1. /\ c \in Clients \cup {NoClient} /\ cursor \in [Clients -> [Channels -> Nat]]
            /\ chan[s] \in Channels
        BY <1>1, <2>1, StreamAssumption DEF RecordInv
      <3> HIDE DEF c
      <3> QED
        BY <3>1
    <2>3. since \in Int
      BY <2>2, MillisType DEF ZeroTime
    <2> HIDE DEF since
    <2>4. /\ conn'[s] = [conn[s] EXCEPT !.since = since]
          /\ conn' \in [Streams -> Conn]
          /\ \A t \in Streams : t # s => conn'[t] = conn[t]
      BY <1>1, <1>2, <2>1, <2>3 DEF Conn
    <2>5. Alike(conn[s], conn'[s])
      BY <1>2, <2>4 DEF Alike, Conn
    <2>6. RecordInv'
      BY <1>1, <2>1, <2>4 DEF RecordInv
    <2>7. pc'[s] = "subscribe" /\ \A t \in Streams : t # s => pc'[t] = pc[t]
      BY <1>1, <2>1
    <2> QED
      BY <2>1, <2>4, <2>5, <2>6, <2>7, Aside
  <1>6. CASE Register(s) \/ ClientGone(s) \/ KeepaliveFails(s) \/ Unsubscribe(s)
    <2>1. UNCHANGED <<ringVars, fan, shown, conn, chan, cursor, mangled>>
      BY <1>6 DEF Register, ClientGone, KeepaliveFails, Unsubscribe
    <2>2. RecordInv'
      BY <1>1, <2>1 DEF RecordInv
    <2>3. \/ pc[s] = "subscribe" /\ pc' = [pc EXCEPT ![s] = "drain"]
          \/ pc[s] = "loop" /\ pc' = [pc EXCEPT ![s] = "save"]
          \/ pc[s] = "unsubscribe" /\ pc' = [pc EXCEPT ![s] = "release"]
      BY <1>6 DEF Register, ClientGone, KeepaliveFails, Unsubscribe
    <2> QED
      BY <1>1, <1>2, <2>1, <2>2, <2>3, Aside
  <1>7. CASE SaveCursor(s)
    <2> DEFINE c == ClientOf[s]
               ts == IF conn[s].lastMsgTs = 0 THEN UnixMilli(now) ELSE conn[s].lastMsgTs
    <2>1. /\ UNCHANGED <<ringVars, fan, shown, conn, chan, mangled>>
          /\ pc[s] = "save" /\ pc' = [pc EXCEPT ![s] = "unsubscribe"]
          /\ \/ c # NoClient /\ cursor' = [cursor EXCEPT ![c][chan[s]] = ts]
             \/ cursor' = cursor
      BY <1>7 DEF SaveCursor
    <2>2. ts \in Nat
      BY <1>2, <1>3, MillisType DEF Conn
    <2> HIDE DEF ts
    <2>3. cursor' \in [Clients -> [Channels -> Nat]]
      <3>1. c \in Clients \cup {NoClient} /\ cursor \in [Clients -> [Channels -> Nat]]
        BY <1>1, StreamAssumption DEF RecordInv
      <3> HIDE DEF c
      <3> QED
        BY <1>1, <2>1, <2>2, <3>1
    <2>4. RecordInv'
      BY <1>1, <2>1, <2>3 DEF RecordInv
    <2> QED
      BY <1>1, <1>2, <2>1, <2>4, Aside
  <1>8. CASE Disconnect(s)
    <2>1. /\ UNCHANGED <<ringVars, fan, shown, chan, cursor, mangled, pc>>
          /\ conn' = [conn EXCEPT ![s].gone = TRUE]
      BY <1>8 DEF Disconnect
    <2>2. /\ conn'[s] = [conn[s] EXCEPT !.gone = TRUE]
          /\ conn' \in [Streams -> Conn]
          /\ \A t \in Streams : t # s => conn'[t] = conn[t]
      BY <1>1, <1>2, <2>1 DEF Conn
    <2>3. /\ Alike(conn[s], conn'[s])
          /\ conn'[s].since = conn[s].since /\ conn'[s].cut = conn[s].cut
      BY <1>2, <2>2 DEF Alike, Conn
    <2>4. RecordInv'
      BY <1>1, <2>1, <2>2 DEF RecordInv
    <2> QED
      BY <2>1, <2>2, <2>3, <2>4, Aside
  <1>9. ASSUME NEW ch \in Channels, Open(s, ch) PROVE DInv'
    <2>1. /\ UNCHANGED <<ringVars, fan, shown, conn, cursor, mangled>>
          /\ pc[s] = "idle" /\ pc' = [pc EXCEPT ![s] = "greet"]
          /\ chan' = [chan EXCEPT ![s] = ch]
      BY <1>9 DEF Open
    <2>2. RecordInv'
      BY <1>1, <2>1 DEF RecordInv
    <2> QED
      BY <1>1, <1>2, <2>1, <2>2, Aside
  <1> QED
    BY <1>4, <1>5, <1>6, <1>7, <1>8, <1>9

\* Subscribe takes the retained messages.
LEMMA DrainStep ==
    ASSUME DInv, SInv', NEW s \in Streams, Drain(s)
    PROVE  DInv'
  <1> DEFINE from == IF conn[s].since = ZeroTime THEN now - MaxAge ELSE conn[s].since
             all == Ring!Get(chan[s], from, 0)
             hist == Ring!Get(chan[s], from, DrainLimit)
             to == IF hist = <<>> THEN "loop" ELSE "history"
             M == Ring!Matching(chan[s], from)
             cut == Len(hist) < Len(all)
  <1>1. /\ conn \in [Streams -> Conn] /\ conn[s] \in Conn /\ pc \in [Streams -> ConnPc]
        /\ RecordInv /\ Ring!TypeOK /\ ScanInv /\ StreamOK(s)
    BY DEF DInv, RecordInv, SInv, TypeInv, ScanInv
  <1>2. /\ UNCHANGED <<ringVars, fan, shown, chan, cursor, mangled>>
        /\ pc[s] = "drain" /\ pc' = [pc EXCEPT ![s] = to]
        /\ conn' = [conn EXCEPT ![s].since = from, ![s].hist = hist, ![s].cut = cut]
    BY DEF Drain, Goto
  <1>3. from \in Int
    <2>1. now \in Nat /\ MaxAge \in Nat
      BY <1>1, RingParameters DEF Ring!TypeOK, Ring!RingAssumption
    <2> QED
      BY <1>1, <2>1 DEF Conn
  <1> HIDE DEF from
  <1>4. /\ hist \in Seq(Payloads) /\ all \in Seq(Payloads)
        /\ Len(hist) <= Cardinality(M) /\ Len(all) = Cardinality(M)
        /\ Len(hist) = Cardinality(M) =>
             \A k \in M : \E i \in 1 .. Len(hist) : hist[i] = entries[Ring!Slot(k)].data
    BY <1>1, Got, StreamAssumption
  <1>5. cut \in BOOLEAN
    OBVIOUS
  <1>6. ~cut => \A k \in M : \E i \in 1 .. Len(hist) : hist[i] = entries[Ring!Slot(k)].data
    BY <1>4
  <1> HIDE DEF hist, all, cut
  <1>7. /\ conn'[s] = [conn[s] EXCEPT !.since = from, !.hist = hist, !.cut = cut]
        /\ conn' \in [Streams -> Conn]
        /\ \A t \in Streams : t # s => conn'[t] = conn[t]
    BY <1>1, <1>2, <1>3, <1>4, <1>5 DEF Conn
  <1>8. /\ conn'[s].since = from /\ conn'[s].hist = hist /\ conn'[s].cut = cut
        /\ conn'[s].queue = conn[s].queue /\ conn'[s].inhand = conn[s].inhand
        /\ conn'[s].bytes = conn[s].bytes /\ conn'[s].lastLive = conn[s].lastLive
        /\ conn'[s] \in Conn
    BY <1>1, <1>7 DEF Conn
  <1>9. pc'[s] = to /\ \A t \in Streams : t # s => pc'[t] = pc[t]
    BY <1>1, <1>2
  <1>10. HandOK(conn'[s], pc'[s])
    BY <1>1, <1>2, <1>8, <1>9 DEF StreamOK, HandOK
  <1>11. BytesOK(conn'[s], pc'[s])
    BY <1>1, <1>2, <1>8, <1>9 DEF StreamOK, BytesOK
  <1>12. LineOK(conn'[s], Pending(s), appended)
    BY <1>1, <1>8 DEF StreamOK, LineOK
  <1>13. ASSUME ~cut, NEW d \in Kept(chan[s], from)
         PROVE  d \in Received(conn'[s], shown'[s])
    <2>1. PICK i \in Ring!Slots : Wanted(entries[i], chan[s], from) /\ entries[i].data = d
      BY <1>13 DEF Kept
    <2>2. entries[i].timestamp # 0
      BY <2>1 DEF Wanted, Ring!entryExpired
    <2>3. Ring!Occupied(i)
      BY <1>1, <2>2, SlotTypes DEF ScanInv
    <2>4. \E k \in 0 .. Ring!lenLocked - 1 : Ring!Slot(k) = i
      <3> DEFINE k == IF i >= tail THEN i - tail ELSE i - tail + MaxSize
      <3>1. /\ MaxSize \in Nat \ {0} /\ head \in 0 .. MaxSize - 1 /\ tail \in 0 .. MaxSize - 1
            /\ i \in 0 .. MaxSize - 1
        BY <1>1, RingParameters DEF Ring!TypeOK, Ring!Slots, Ring!RingAssumption
      <3>2. k \in 0 .. MaxSize - 1 /\ k \in 0 .. Ring!lenLocked - 1
        BY <2>3, <3>1 DEF Ring!Occupied, Ring!lenLocked
      <3>3. Ring!Slot(k) = IF tail + k < MaxSize THEN tail + k ELSE tail + k - MaxSize
        BY <1>1, <3>2, ScanSlot
      <3>4. Ring!Slot(k) = i
        BY <3>1, <3>3
      <3> QED
        BY <3>2, <3>4
    <2>5. PICK k \in M : Ring!Slot(k) = i
      BY <2>1, <2>4 DEF Wanted, Ring!Matching
    <2>6. PICK j \in 1 .. Len(hist) : hist[j] = d
      BY <1>6, <1>13, <2>1, <2>5
    <2> QED
      BY <1>8, <2>6, ReceivedIs
  <1>14. GapOK(conn'[s], pc'[s], Kept(chan'[s], conn'[s].since),
               Received(conn'[s], shown'[s]) \cup Due(s))
    BY <1>2, <1>8, <1>13 DEF GapOK
  <1>15. RecordInv'
    BY <1>1, <1>2, <1>7 DEF RecordInv
  <1> QED
    BY <1>2, <1>7, <1>9, <1>10, <1>11, <1>12, <1>14, <1>15, OneHandler

\* A payload written is one more shown, and perhaps one more mangled.
LEMMA ShowType ==
    ASSUME RecordInv, NEW s \in Streams, NEW d \in Payloads, Show(s, d)
    PROVE  /\ shown' \in [Streams -> SUBSET Payloads]
           /\ mangled' \subseteq Streams \X Payloads
           /\ shown'[s] = shown[s] \cup {d}
           /\ \A t \in Streams : t # s => shown'[t] = shown[t]
  BY DEF RecordInv, Show

LEMMA HistoryStep ==
    ASSUME DInv, SInv', NEW s \in Streams, WriteHistory(s)
    PROVE  DInv'
  <1>1. /\ conn \in [Streams -> Conn] /\ conn[s] \in Conn /\ pc \in [Streams -> ConnPc]
        /\ RecordInv /\ StreamOK(s)
    BY DEF DInv, RecordInv, SInv, TypeInv
  <1>2. /\ UNCHANGED <<ringVars, fan, chan, cursor>> /\ pc[s] = "history"
    BY DEF WriteHistory, Goto
  <1> DEFINE h == conn[s].hist
             rest == Tail(h)
             to == IF rest = <<>> THEN "loop" ELSE "history"
  <1>3. /\ h \in Seq(Payloads) /\ h # <<>> /\ Head(h) \in Payloads /\ Head(h) = h[1]
        /\ rest \in Seq(Payloads) /\ Len(rest) = Len(h) - 1
        /\ \A i \in 2 .. Len(h) : i - 1 \in 1 .. Len(rest) /\ rest[i - 1] = h[i]
    <2>1. h \in Seq(Payloads) /\ h # <<>>
      BY <1>1, <1>2 DEF Conn, StreamOK, HandOK
    <2> HIDE DEF h
    <2> QED
      BY <2>1
  <1>4. CASE /\ pc' = [pc EXCEPT ![s] = to] /\ Show(s, Head(h))
             /\ conn' = [conn EXCEPT ![s].hist = rest]
    <2>1. /\ shown' \in [Streams -> SUBSET Payloads] /\ mangled' \subseteq Streams \X Payloads
          /\ shown'[s] = shown[s] \cup {Head(h)}
          /\ \A t \in Streams : t # s => shown'[t] = shown[t]
      BY <1>1, <1>3, <1>4, ShowType
    <2>2. /\ conn'[s] = [conn[s] EXCEPT !.hist = rest] /\ conn' \in [Streams -> Conn]
          /\ \A t \in Streams : t # s => conn'[t] = conn[t]
      BY <1>1, <1>3, <1>4 DEF Conn
    <2>3. /\ conn'[s].since = conn[s].since /\ conn'[s].hist = rest
          /\ conn'[s].cut = conn[s].cut /\ conn'[s].lost = conn[s].lost
          /\ conn'[s].queue = conn[s].queue /\ conn'[s].inhand = conn[s].inhand
          /\ conn'[s].bytes = conn[s].bytes /\ conn'[s].lastLive = conn[s].lastLive
          /\ conn'[s] \in Conn
      BY <1>1, <2>2 DEF Conn
    <2>4. pc'[s] = to /\ \A t \in Streams : t # s => pc'[t] = pc[t]
      BY <1>1, <1>4
    <2>5. HandOK(conn'[s], pc'[s])
      BY <1>1, <1>2, <2>3, <2>4 DEF StreamOK, HandOK
    <2>6. BytesOK(conn'[s], pc'[s])
      BY <1>1, <1>2, <2>3, <2>4 DEF StreamOK, BytesOK
    <2>7. LineOK(conn'[s], Pending(s), appended)
      BY <1>1, <2>3 DEF StreamOK, LineOK
    <2>8. Received(conn[s], shown[s]) \subseteq Received(conn'[s], shown'[s])
      <3> SUFFICES ASSUME NEW d \in Received(conn[s], shown[s])
                   PROVE  d \in Received(conn'[s], shown'[s])
        OBVIOUS
      <3>1. ASSUME NEW i \in 1 .. Len(h), h[i] = d PROVE d \in Received(conn'[s], shown'[s])
        <4>1. CASE i = 1
          BY <1>3, <2>1, <2>3, <3>1, <4>1, ReceivedIs
        <4>2. CASE i # 1
          <5>1. i \in 2 .. Len(h)
            BY <4>2
          <5>2. i - 1 \in 1 .. Len(rest) /\ rest[i - 1] = d
            BY <1>3, <3>1, <5>1
          <5> HIDE DEF rest
          <5> QED
            BY <2>3, <5>2, ReceivedIs
        <4> QED
          BY <4>1, <4>2
      <3> HIDE DEF rest
      <3> QED
        BY <1>1, <2>1, <2>3, <3>1, ReceivedIs
    <2>9. GapOK(conn'[s], pc'[s], Kept(chan'[s], conn'[s].since),
                Received(conn'[s], shown'[s]) \cup Due(s))
      BY <1>1, <1>2, <2>3, <2>8 DEF StreamOK, GapOK, ReadPc
    <2>10. RecordInv'
      BY <1>1, <1>2, <2>1, <2>2 DEF RecordInv
    <2> QED
      BY <1>2, <2>1, <2>2, <2>4, <2>5, <2>6, <2>7, <2>9, <2>10, OneHandler
  <1>5. CASE pc' = [pc EXCEPT ![s] = "unsubscribe"] /\ UNCHANGED <<conn, shown, mangled>>
    <2>1. RecordInv'
      BY <1>1, <1>2, <1>5 DEF RecordInv
    <2>2. HandOK(conn'[s], pc'[s])
      BY <1>1, <1>2, <1>5 DEF StreamOK, HandOK
    <2>3. BytesOK(conn'[s], pc'[s])
      BY <1>1, <1>2, <1>5 DEF StreamOK, BytesOK
    <2>4. LineOK(conn'[s], Pending(s), appended)
      BY <1>1, <1>5 DEF StreamOK
    <2>5. GapOK(conn'[s], pc'[s], Kept(chan'[s], conn'[s].since),
                Received(conn'[s], shown'[s]) \cup Due(s))
      BY <1>1, <1>5 DEF GapOK, ReadPc
    <2> QED
      BY <1>1, <1>2, <1>5, <2>1, <2>2, <2>3, <2>4, <2>5, OneHandler
  <1> QED
    BY <1>4, <1>5 DEF WriteHistory, Goto

LEMMA ReceiveStep ==
    ASSUME DInv, SInv', NEW s \in Streams, Receive(s)
    PROVE  DInv'
  <1> DEFINE q == conn[s].queue
             m == Head(q)
             rest == Tail(q)
  <1>1. /\ conn \in [Streams -> Conn] /\ conn[s] \in Conn /\ pc \in [Streams -> ConnPc]
        /\ RecordInv /\ StreamOK(s)
    BY DEF DInv, RecordInv, SInv, TypeInv
  <1>2. /\ UNCHANGED <<ringVars, fan, chan, cursor, shown, mangled>>
        /\ pc[s] = "loop" /\ pc' = [pc EXCEPT ![s] = "ack"] /\ q # <<>>
        /\ conn' = [conn EXCEPT ![s].inhand = <<m>>, ![s].queue = rest]
    BY DEF Receive, Goto
  <1>3. /\ q \in Seq(Message) /\ m \in Message /\ m = q[1] /\ Len(q) \in Nat \ {0}
        /\ rest \in Seq(Message) /\ Len(rest) = Len(q) - 1
        /\ \A i \in 1 .. Len(rest) : i + 1 \in 2 .. Len(q) /\ rest[i] = q[i + 1]
        /\ \A i \in 2 .. Len(q) : i - 1 \in 1 .. Len(rest) /\ rest[i - 1] = q[i]
        /\ QueuedBytes(q) = m.size + QueuedBytes(rest)
    <2>1. q \in Seq(Message) /\ q # <<>>
      BY <1>1, <1>2 DEF Conn
    <2> HIDE DEF q
    <2> QED
      BY <2>1, QueuedTail
  <1> HIDE DEF m, rest
  <1>4. /\ conn'[s] = [conn[s] EXCEPT !.inhand = <<m>>, !.queue = rest]
        /\ conn' \in [Streams -> Conn]
        /\ \A t \in Streams : t # s => conn'[t] = conn[t]
    BY <1>1, <1>2, <1>3 DEF Conn
  <1>5. /\ conn'[s].since = conn[s].since /\ conn'[s].hist = conn[s].hist
        /\ conn'[s].cut = conn[s].cut /\ conn'[s].lost = conn[s].lost
        /\ conn'[s].queue = rest /\ conn'[s].inhand = <<m>>
        /\ conn'[s].bytes = conn[s].bytes /\ conn'[s].lastLive = conn[s].lastLive
        /\ conn'[s] \in Conn
    BY <1>1, <1>4 DEF Conn
  <1>6. pc'[s] = "ack" /\ \A t \in Streams : t # s => pc'[t] = pc[t]
    BY <1>1, <1>2
  <1>7. HandOK(conn'[s], pc'[s])
    BY <1>5, <1>6 DEF HandOK
  <1>8. BytesOK(conn'[s], pc'[s])
    <2>1. QueuedBytes(rest) \in Nat /\ m.size \in Nat
      BY <1>3, QueuedNat, MessageSize
    <2>2. /\ conn[s].bytes = QueuedBytes(q) + 0
          /\ QueueBytes > 0 => conn[s].bytes <= QueueBytes
      BY <1>1, <1>2 DEF StreamOK, BytesOK
    <2>3. conn[s].bytes = QueuedBytes(rest) + m.size
      BY <1>3, <2>1, <2>2
    <2> QED
      BY <1>5, <1>6, <2>2, <2>3 DEF BytesOK
  <1>9. LineOK(conn'[s], Pending(s), appended)
    <2>1. LineOK(conn[s], Pending(s), appended)
      BY <1>1 DEF StreamOK
    <2>2. \A i \in 1 .. Len(rest) : m.data < rest[i].data
      <3> SUFFICES ASSUME NEW i \in 1 .. Len(rest) PROVE q[1].data < q[i + 1].data
        BY <1>3
      <3>1. i + 1 \in 1 .. Len(q) /\ 1 \in 1 .. Len(q) /\ 1 < i + 1
        BY <1>3
      <3> QED
        BY <2>1, <3>1 DEF LineOK
    <2>3. \A i, j \in 1 .. Len(rest) : i < j => rest[i].data < rest[j].data
      <3> SUFFICES ASSUME NEW i \in 1 .. Len(rest), NEW j \in 1 .. Len(rest), i < j
                   PROVE  q[i + 1].data < q[j + 1].data
        BY <1>3
      <3>1. i + 1 \in 1 .. Len(q) /\ j + 1 \in 1 .. Len(q) /\ i + 1 < j + 1
        BY <1>3
      <3> QED
        BY <2>1, <3>1 DEF LineOK
    <2>4. \A i \in 1 .. Len(rest) : i + 1 \in 1 .. Len(q) /\ rest[i] = q[i + 1]
      BY <1>3
    <2>5. 1 \in 1 .. Len(q) /\ m = q[1]
      BY <1>3
    <2> QED
      <3> DEFINE Below(d) == d <= appended /\ (Pending(s) => d < appended)
      <3>1. Below(conn[s].lastLive)
        BY <2>1 DEF LineOK
      <3>2. \A i \in 1 .. Len(q) : Below(q[i].data) /\ conn[s].lastLive < q[i].data
        BY <2>1 DEF LineOK
      <3> HIDE DEF q
      <3>3. Below(m.data) /\ conn[s].lastLive < m.data
        BY <2>5, <3>2
      <3>4. \A i \in 1 .. Len(rest) : Below(rest[i].data) /\ conn[s].lastLive < rest[i].data
        BY <2>4, <3>2
      <3> QED
        BY <1>5, <2>2, <2>3, <3>1, <3>3, <3>4 DEF LineOK
  <1>10. Received(conn[s], shown[s]) \subseteq Received(conn'[s], shown'[s])
    <2> SUFFICES ASSUME NEW d \in Received(conn[s], shown[s])
                 PROVE  d \in Received(conn'[s], shown'[s])
      OBVIOUS
    <2>1. ASSUME NEW i \in 1 .. Len(q), q[i].data = d PROVE d \in Received(conn'[s], shown'[s])
      <3>1. CASE i = 1
        <4>1. conn'[s].inhand # <<>> /\ conn'[s].inhand[1].data = d
          BY <1>3, <1>5, <2>1, <3>1
        <4> QED
          BY <1>5, <4>1, ReceivedIs
      <3>2. CASE i # 1
        <4>1. i \in 2 .. Len(q)
          BY <3>2
        <4>2. i - 1 \in 1 .. Len(rest) /\ rest[i - 1].data = d
          BY <1>3, <2>1, <4>1
        <4> QED
          BY <1>5, <4>2, ReceivedIs
      <3> QED
        BY <3>1, <3>2
    <2>2. conn[s].inhand = <<>>
      BY <1>1, <1>2 DEF StreamOK, HandOK
    <2> QED
      <3>1. \/ d \in shown[s] \/ d \in conn[s].lost
            \/ \E i \in 1 .. Len(conn[s].hist) : conn[s].hist[i] = d
            \/ \E i \in 1 .. Len(q) : q[i].data = d
        BY <1>1, <2>2, ReceivedIs
      <3> HIDE DEF q
      <3>2. CASE \/ d \in shown[s] \/ d \in conn[s].lost
                 \/ \E i \in 1 .. Len(conn[s].hist) : conn[s].hist[i] = d
        <4>1. /\ shown' = shown /\ conn'[s].lost = conn[s].lost
              /\ conn'[s].hist = conn[s].hist /\ conn'[s] \in Conn
          BY <1>2, <1>5
        <4>2. \/ d \in shown'[s] \/ d \in conn'[s].lost
              \/ \E i \in 1 .. Len(conn'[s].hist) : conn'[s].hist[i] = d
          BY <3>2, <4>1
        <4> QED
          BY <4>1, <4>2, ReceivedIs
      <3> QED
        BY <2>1, <3>1, <3>2
  <1>11. GapOK(conn'[s], pc'[s], Kept(chan'[s], conn'[s].since),
               Received(conn'[s], shown'[s]) \cup Due(s))
    BY <1>1, <1>2, <1>5, <1>10 DEF StreamOK, GapOK, ReadPc
  <1>12. RecordInv'
    BY <1>1, <1>2, <1>4 DEF RecordInv
  <1> QED
    BY <1>2, <1>4, <1>6, <1>7, <1>8, <1>9, <1>11, <1>12, OneHandler

LEMMA AckStep ==
    ASSUME DInv, SInv', NEW s \in Streams, Ack(s)
    PROVE  DInv'
  <1> DEFINE left == conn[s].bytes - conn[s].inhand[1].size
             b == IF left < 0 THEN 0 ELSE left
  <1>1. /\ conn \in [Streams -> Conn] /\ conn[s] \in Conn /\ pc \in [Streams -> ConnPc]
        /\ RecordInv /\ StreamOK(s)
    BY DEF DInv, RecordInv, SInv, TypeInv
  <1>2. /\ UNCHANGED <<ringVars, fan, chan, cursor, shown, mangled>>
        /\ pc[s] = "ack" /\ pc' = [pc EXCEPT ![s] = "write"]
        /\ conn' = [conn EXCEPT ![s].bytes = b]
    BY DEF Ack, Goto
  <1>3. /\ conn[s].bytes = QueuedBytes(conn[s].queue) + conn[s].inhand[1].size
        /\ QueueBytes > 0 => conn[s].bytes <= QueueBytes
        /\ conn[s].inhand # <<>>
    BY <1>1, <1>2 DEF StreamOK, BytesOK, HandOK
  <1>4. /\ QueuedBytes(conn[s].queue) \in Nat /\ conn[s].inhand[1].size \in Nat
        /\ conn[s].bytes \in Nat
    <2>1. conn[s].queue \in Seq(Message) /\ conn[s].inhand[1] \in Message
      BY <1>1, <1>3 DEF Conn
    <2> QED
      BY <1>1, <2>1, QueuedNat, MessageSize DEF Conn
  <1>5. b = QueuedBytes(conn[s].queue) /\ b \in Nat /\ b <= conn[s].bytes
    BY <1>3, <1>4
  <1> HIDE DEF b
  <1>6. /\ conn'[s] = [conn[s] EXCEPT !.bytes = b] /\ conn' \in [Streams -> Conn]
        /\ \A t \in Streams : t # s => conn'[t] = conn[t]
    BY <1>1, <1>2, <1>5 DEF Conn
  <1>7. /\ conn'[s].since = conn[s].since /\ conn'[s].hist = conn[s].hist
        /\ conn'[s].cut = conn[s].cut /\ conn'[s].lost = conn[s].lost
        /\ conn'[s].queue = conn[s].queue /\ conn'[s].inhand = conn[s].inhand
        /\ conn'[s].bytes = b /\ conn'[s].lastLive = conn[s].lastLive
    BY <1>1, <1>6 DEF Conn
  <1>8. pc'[s] = "write" /\ \A t \in Streams : t # s => pc'[t] = pc[t]
    BY <1>1, <1>2
  <1>9. HandOK(conn'[s], pc'[s])
    BY <1>3, <1>7, <1>8 DEF HandOK
  <1>10. BytesOK(conn'[s], pc'[s])
    <2>1. QueueBytes > 0 => b <= QueueBytes
      BY <1>3, <1>4, <1>5, StreamAssumption
    <2>2. b = QueuedBytes(conn[s].queue) + 0
      BY <1>4, <1>5
    <2> QED
      BY <1>7, <1>8, <2>1, <2>2 DEF BytesOK
  <1>11. LineOK(conn'[s], Pending(s), appended)
    BY <1>1, <1>7 DEF StreamOK, LineOK
  <1>12. Received(conn[s], shown[s]) = Received(conn'[s], shown'[s])
    BY <1>2, <1>7 DEF Received
  <1>13. GapOK(conn'[s], pc'[s], Kept(chan'[s], conn'[s].since),
               Received(conn'[s], shown'[s]) \cup Due(s))
    BY <1>1, <1>2, <1>7, <1>12 DEF StreamOK, GapOK, ReadPc
  <1>14. RecordInv'
    BY <1>1, <1>2, <1>6 DEF RecordInv
  <1> QED
    BY <1>2, <1>6, <1>8, <1>9, <1>10, <1>11, <1>13, <1>14, OneHandler

LEMMA WriteStep ==
    ASSUME DInv, SInv', NEW s \in Streams, WriteLive(s)
    PROVE  DInv'
  <1> DEFINE d == conn[s].inhand[1].data
  <1>1. /\ conn \in [Streams -> Conn] /\ conn[s] \in Conn /\ pc \in [Streams -> ConnPc]
        /\ RecordInv /\ StreamOK(s)
    BY DEF DInv, RecordInv, SInv, TypeInv
  <1>2. now \in Nat
    BY RingParameters DEF DInv, ScanInv, Ring!TypeOK, Ring!RingAssumption
  <1>3. UNCHANGED <<ringVars, fan, chan, cursor>> /\ pc[s] = "write"
    BY DEF WriteLive, Goto
  <1>4. conn[s].inhand # <<>> /\ d \in Payloads /\ d \in Nat
    <2>1. conn[s].inhand # <<>>
      BY <1>1, <1>3 DEF StreamOK, HandOK
    <2>2. conn[s].inhand[1] \in Message
      BY <1>1, <2>1 DEF Conn
    <2> QED
      BY <2>1, <2>2, RingParameters DEF Message, Payloads, Ring!RingAssumption
  <1> DEFINE Done(ts, to) ==
               /\ pc' = [pc EXCEPT ![s] = to]
               /\ conn' = [conn EXCEPT ![s].inhand = <<>>, ![s].lastLive = d,
                                       ![s].lastMsgTs = ts]
  <1>5. \E ts \in Nat :
          \/ Done(ts, "loop") /\ Show(s, d)
          \/ Done(ts, "save") /\ UNCHANGED <<shown, mangled>>
    <2>1. CASE /\ pc' = [pc EXCEPT ![s] = "loop"] /\ Show(s, d)
               /\ conn' = [conn EXCEPT ![s].inhand = <<>>, ![s].lastLive = d,
                                       ![s].lastMsgTs = UnixMilli(now)]
      <3>1. UnixMilli(now) \in Nat
        BY <1>2, MillisType
      <3> QED
        BY <2>1, <3>1
    <2>2. CASE /\ pc' = [pc EXCEPT ![s] = "save"] /\ UNCHANGED <<shown, mangled>>
               /\ conn' = [conn EXCEPT ![s].inhand = <<>>, ![s].lastLive = d]
      <3>1. conn[s].lastMsgTs \in Nat
        BY <1>1 DEF Conn
      <3>2. [conn[s] EXCEPT !.inhand = <<>>, !.lastLive = d]
              = [conn[s] EXCEPT !.inhand = <<>>, !.lastLive = d, !.lastMsgTs = conn[s].lastMsgTs]
        BY <1>1 DEF Conn
      <3>3. conn' = [conn EXCEPT ![s] = [conn[s] EXCEPT !.inhand = <<>>, !.lastLive = d]]
        BY <2>2
      <3>4. conn' = [conn EXCEPT ![s].inhand = <<>>, ![s].lastLive = d,
                                 ![s].lastMsgTs = conn[s].lastMsgTs]
        BY <3>2, <3>3
      <3> QED
        BY <2>2, <3>1, <3>4
    <2> QED
      BY <2>1, <2>2 DEF WriteLive, Goto
  <1>6. PICK ts \in Nat :
          \/ Done(ts, "loop") /\ Show(s, d)
          \/ Done(ts, "save") /\ UNCHANGED <<shown, mangled>>
    BY <1>5
  <1> HIDE DEF d
  <1>7. /\ conn'[s] = [conn[s] EXCEPT !.inhand = <<>>, !.lastLive = d, !.lastMsgTs = ts]
        /\ conn' \in [Streams -> Conn]
        /\ \A t \in Streams : t # s => conn'[t] = conn[t]
    <2> DEFINE new == [conn[s] EXCEPT !.inhand = <<>>, !.lastLive = d, !.lastMsgTs = ts]
    <2>1. conn' = [conn EXCEPT ![s] = new]
      BY <1>6
    <2>2. new \in Conn
      BY <1>1, <1>4 DEF Conn
    <2> HIDE DEF new
    <2>3. conn'[s] = new /\ conn' \in [Streams -> Conn]
          /\ \A t \in Streams : t # s => conn'[t] = conn[t]
      BY <1>1, <2>1, <2>2
    <2> QED
      BY <2>3 DEF new
  <1>8. /\ conn'[s].since = conn[s].since /\ conn'[s].hist = conn[s].hist
        /\ conn'[s].cut = conn[s].cut /\ conn'[s].lost = conn[s].lost
        /\ conn'[s].queue = conn[s].queue /\ conn'[s].inhand = <<>>
        /\ conn'[s].bytes = conn[s].bytes /\ conn'[s].lastLive = d
        /\ conn'[s] \in Conn
    BY <1>1, <1>7 DEF Conn
  <1>9. pc'[s] \in {"loop", "save"} /\ \A t \in Streams : t # s => pc'[t] = pc[t]
    BY <1>1, <1>6
  <1>10. /\ shown' \in [Streams -> SUBSET Payloads] /\ mangled' \subseteq Streams \X Payloads
         /\ pc'[s] = "loop" => shown'[s] = shown[s] \cup {d}
         /\ \A t \in Streams : t # s => shown'[t] = shown[t]
    <2>1. CASE Done(ts, "loop") /\ Show(s, d)
      BY <1>1, <1>4, <2>1, ShowType
    <2>2. CASE Done(ts, "save") /\ UNCHANGED <<shown, mangled>>
      BY <1>1, <2>2 DEF RecordInv
    <2> QED
      BY <1>6, <2>1, <2>2
  <1>11. HandOK(conn'[s], pc'[s])
    BY <1>8, <1>9 DEF HandOK
  <1>12. BytesOK(conn'[s], pc'[s])
    BY <1>1, <1>3, <1>8, <1>9 DEF StreamOK, BytesOK
  <1>13. LineOK(conn'[s], Pending(s), appended)
    BY <1>1, <1>4, <1>8 DEF StreamOK, LineOK, d
  <1>14. ASSUME pc'[s] = "loop"
         PROVE  Received(conn[s], shown[s]) \subseteq Received(conn'[s], shown'[s])
    <2>1. shown'[s] = shown[s] \cup {d}
      BY <1>10, <1>14
    <2> QED
      BY <1>1, <1>8, <2>1, ReceivedIs DEF d
  <1>15. GapOK(conn'[s], pc'[s], Kept(chan'[s], conn'[s].since),
               Received(conn'[s], shown'[s]) \cup Due(s))
    <2>1. CASE pc'[s] = "loop"
      BY <1>1, <1>3, <1>8, <1>14, <2>1 DEF StreamOK, GapOK, ReadPc
    <2>2. CASE pc'[s] = "save"
      BY <2>2 DEF GapOK, ReadPc
    <2> QED
      BY <1>9, <2>1, <2>2
  <1>16. RecordInv'
    BY <1>1, <1>3, <1>7, <1>10 DEF RecordInv
  <1> QED
    BY <1>3, <1>7, <1>9, <1>10, <1>11, <1>12, <1>13, <1>15, <1>16, OneHandler

LEMMA ReleaseStep ==
    ASSUME DInv, SInv', NEW s \in Streams, Release(s)
    PROVE  DInv'
  <1>1. /\ conn \in [Streams -> Conn] /\ pc \in [Streams -> ConnPc]
        /\ chan \in [Streams -> Channels \cup {NoChannel}]
        /\ RecordInv /\ StreamOK(s)
    BY DEF DInv, RecordInv, SInv, TypeInv
  <1>2. /\ UNCHANGED <<ringVars, fan, cursor, shown, mangled>>
        /\ pc[s] = "release" /\ pc' = [pc EXCEPT ![s] = "idle"]
        /\ conn' = [conn EXCEPT ![s] = Fresh]
        /\ chan' = [chan EXCEPT ![s] = NoChannel]
    BY DEF Release, Goto
  <1>3. Fresh \in Conn
    BY DEF Fresh, Conn, ZeroTime
  <1>4. /\ conn'[s] = Fresh /\ conn' \in [Streams -> Conn] /\ pc'[s] = "idle"
        /\ \A t \in Streams : t # s => /\ conn'[t] = conn[t] /\ pc'[t] = pc[t]
                                       /\ chan'[t] = chan[t] /\ shown'[t] = shown[t]
    BY <1>1, <1>2, <1>3
  <1>5. HandOK(conn'[s], pc'[s])
    BY <1>4 DEF HandOK, Fresh
  <1>6. BytesOK(conn'[s], pc'[s])
    BY <1>4, QueuedNone, StreamAssumption DEF BytesOK, Fresh
  <1>7. LineOK(conn'[s], Pending(s), appended)
    <2>1. LineOK(conn[s], Pending(s), appended) /\ conn[s].lastLive \in Nat /\ appended \in Nat
      BY <1>1 DEF StreamOK, Conn, DInv, SInv, TypeInv
    <2>2. 0 <= appended /\ (Pending(s) => 0 < appended)
      BY <2>1 DEF LineOK
    <2> QED
      BY <1>4, <2>2 DEF LineOK, Fresh
  <1>8. GapOK(conn'[s], pc'[s], Kept(chan'[s], conn'[s].since),
              Received(conn'[s], shown'[s]) \cup Due(s))
    BY <1>4 DEF GapOK, ReadPc
  <1>9. RecordInv'
    BY <1>1, <1>2, <1>4 DEF RecordInv
  <1> QED
    BY <1>2, <1>4, <1>5, <1>6, <1>7, <1>8, <1>9, OneHandler

-----------------------------------------------------------------------------
(* The steps of the callback, of the cleanup and of the clock              *)

\* A stream whose handler and subscriber a step leaves alone.
LEMMA Bystander ==
    ASSUME DInv, NEW t \in Streams,
           conn'[t] = conn[t], pc'[t] = pc[t], chan'[t] = chan[t], shown'[t] = shown[t],
           LineOK(conn[t], Pending(t)', appended'),
           pc[t] \in ReadPc /\ ~conn[t].cut =>
             Kept(chan[t], conn[t].since)' \subseteq Received(conn[t], shown[t]) \cup Due(t)'
    PROVE  StreamOK(t)'
  <1>1. StreamOK(t)
    BY DEF DInv
  <1>2. HandOK(conn[t], pc[t])' /\ BytesOK(conn[t], pc[t])'
    BY <1>1 DEF StreamOK
  <1>3. LineOK(conn[t], Pending(t), appended)'
    BY DEF LineOK
  <1>4. GapOK(conn[t], pc[t], Kept(chan[t], conn[t].since),
              Received(conn[t], shown[t]) \cup Due(t))'
    BY DEF GapOK
  <1> QED
    BY <1>2, <1>3, <1>4 DEF StreamOK

\* What GapOK and LineOK say before the step.
LEMMA Before ==
    ASSUME DInv, NEW t \in Streams
    PROVE  /\ pc[t] \in ReadPc /\ ~conn[t].cut =>
                Kept(chan[t], conn[t].since) \subseteq Received(conn[t], shown[t]) \cup Due(t)
           /\ LineOK(conn[t], Pending(t), appended)
           /\ conn[t] \in Conn
  BY DEF DInv, StreamOK, GapOK, RecordInv

\* A message about to be sent to all is younger than everything.
LEMMA LineLater ==
    ASSUME NEW c \in Conn, NEW pending, NEW after, NEW n \in Nat, LineOK(c, pending, n)
    PROVE  LineOK(c, after, n + 1)
  <1>1. c.lastLive \in Nat /\ c.queue \in Seq(Message)
    BY DEF Conn
  <1>2. \A i \in 1 .. Len(c.queue) : c.queue[i].data \in Nat
    <2>1. \A m \in Message : m.data \in Nat
      BY RingParameters DEF Message, Payloads, Ring!RingAssumption
    <2> QED
      BY <1>1, <2>1
  <1>3. c.inhand # <<>> => c.inhand[1].data \in Nat
    <2> SUFFICES ASSUME c.inhand # <<>> PROVE c.inhand[1].data \in Nat
      OBVIOUS
    <2>1. PICK m \in Message : c.inhand = <<m>>
      BY DEF Conn
    <2> QED
      BY <2>1, RingParameters DEF Message, Payloads, Ring!RingAssumption
  <1> DEFINE Below(d) == d <= n + 1 /\ (after => d < n + 1)
  <1>4. \A d \in Nat : d <= n => Below(d)
    OBVIOUS
  <1> HIDE DEF Below
  <1>5. Below(c.lastLive)
    BY <1>1, <1>4 DEF LineOK
  <1>6. \A i \in 1 .. Len(c.queue) : Below(c.queue[i].data)
    BY <1>2, <1>4 DEF LineOK
  <1>7. c.inhand # <<>> => Below(c.inhand[1].data)
    BY <1>3, <1>4 DEF LineOK
  <1> QED
    BY <1>5, <1>6, <1>7 DEF LineOK, Below

\* Steps of the ring that leave its subscribers alone.
LEMMA RingOnly ==
    ASSUME DInv, SInv', ScanInv', MsgInv', UNCHANGED streamVars, appended' = appended,
           \A ch, since : Kept(ch, since)' \subseteq Kept(ch, since)
    PROVE  DInv'
  <1>1. UNCHANGED <<fan, pc, chan, conn, cursor, shown, mangled>>
    BY DEF streamVars, handlerVars
  <1>2. ASSUME NEW t \in Streams PROVE StreamOK(t)'
    <2>1. Due(t)' = Due(t) /\ (Pending(t)' <=> Pending(t))
      BY <1>1 DEF Due, Pending
    <2>2. LineOK(conn[t], Pending(t)', appended')
      BY <2>1, Before DEF LineOK
    <2>3. pc[t] \in ReadPc /\ ~conn[t].cut =>
            Kept(chan[t], conn[t].since)' \subseteq Received(conn[t], shown[t]) \cup Due(t)'
      BY <1>1, <2>1, Before
    <2> QED
      BY <1>1, <2>2, <2>3, Bystander
  <1>3. RecordInv'
    BY <1>1 DEF DInv, RecordInv
  <1> QED
    BY <1>2, <1>3 DEF DInv

LEMMA TickStep == ASSUME DInv, SInv', Tick PROVE DInv'
  <1>1. /\ now < MaxClock /\ now' = now + 1
        /\ UNCHANGED <<entries, head, tail, full, zeroed, channelTTLs, wr, appended>>
        /\ UNCHANGED streamVars
    BY DEF Tick, Ring!Tick, Ring!ring
  <1>2. Ring!TypeOK /\ ScanInv /\ MsgInv
    BY DEF DInv, ScanInv
  <1>3. \A i \in Ring!Slots : \E j \in Ring!Slots : entries'[i] = entries[j]
    BY <1>1
  <1>4. \A ch, since : Kept(ch, since)' \subseteq Kept(ch, since)
    BY <1>1, <1>2, <1>3, KeptShrinks
  <1>5. Ring!TypeOK'
    BY <1>1, <1>2, RingParameters DEF Ring!TypeOK, Ring!RingAssumption
  <1>6. ScanInv'
    BY <1>1, <1>2, <1>5 DEF ScanInv, Ring!Occupied
  <1>7. MsgInv'
    BY <1>1, <1>2 DEF MsgInv, streamVars
  <1> QED
    BY <1>1, <1>4, <1>6, <1>7, RingOnly

LEMMA CleanupStep == ASSUME DInv, SInv', Cleanup PROVE DInv'
  <1>1. Ring!TypeOK /\ ScanInv /\ MsgInv /\ SInv
    BY DEF DInv, ScanInv
  <1>2. Ring!evictExpired /\ UNCHANGED streamVars /\ wr.pc = "idle"
    BY DEF Cleanup, Ring!evictExpired
  <1>3. /\ ScanInv' /\ UNCHANGED <<channelTTLs, now, wr, appended>>
        /\ \A i \in Ring!Slots : \/ entries'[i] = Ring!EmptyEntry
                                 \/ \E j \in Ring!Slots : entries'[i] = entries[j]
    BY <1>1, <1>2, ExpireScan
  <1>4. \A ch, since : Kept(ch, since)' \subseteq Kept(ch, since)
    BY <1>1, <1>3, KeptShrinks
  <1>5. MsgInv'
    <2>1. fan' = fan /\ fan.pc # "append"
      BY <1>1, <1>2 DEF streamVars, SInv, FanInv
    <2>2. fan.pc # "idle" => appended # 0
      <3>1. fan.pc # "idle" => fan.msg # <<>> /\ fan.msg[1].data = appended
        BY <1>1 DEF SInv, FanInv, MsgInv
      <3>2. fan.msg # <<>> => fan.msg[1].data \in Payloads
        BY <1>1 DEF SInv, TypeInv, FanType, Message
      <3> QED
        BY <3>1, <3>2, RingParameters DEF Payloads, Ring!RingAssumption
    <2>3. \A i \in Ring!Slots : entries'[i].data <= appended
      BY <1>1, <1>3 DEF MsgInv, Ring!EmptyEntry, SInv, TypeInv
    <2>4. fan.pc \in {"stored", "send"} =>
            \A i \in Ring!Slots : entries'[i].data = appended
                                    => entries'[i].channel = fan.msg[1].channel
      BY <1>1, <1>3, <2>2 DEF MsgInv, Ring!EmptyEntry
    <2> QED
      BY <1>1, <1>2, <1>3, <2>1, <2>3, <2>4 DEF MsgInv
  <1> QED
    BY <1>2, <1>3, <1>4, <1>5, RingOnly

LEMMA EvictStep == ASSUME DInv, SInv', DeliverEvict PROVE DInv'
  <1>1. Ring!TypeOK /\ ScanInv /\ MsgInv /\ SInv
    BY DEF DInv, ScanInv
  <1>2. /\ Ring!evictOldestLocked /\ UNCHANGED streamVars /\ wr.pc = "bytes"
        /\ UNCHANGED <<channelTTLs, now, appended>>
        /\ wr' = wr \/ wr' = [wr EXCEPT !.pc = "store"]
    BY DEF DeliverEvict, Ring!AppendEvictForBytes, Ring!AppendEvictWhenFull
  <1>3. wr \in Ring!Writer
    BY <1>1, <1>2 DEF Ring!TypeOK, Ring!NoWriter
  <1>4. /\ wr' \in Ring!Writer /\ wr'.data = wr.data /\ wr'.channel = wr.channel
        /\ wr.data \in Nat \ {0}
    BY <1>2, <1>3, RingParameters DEF Ring!Writer, Ring!Payloads, Ring!RingAssumption
  <1>5. /\ ScanInv'
        /\ \A i \in Ring!Slots : entries'[i] = Ring!EmptyEntry \/ entries'[i] = entries[i]
    BY <1>1, <1>2, <1>4, EvictScan
  <1>6. \A ch, since : Kept(ch, since)' \subseteq Kept(ch, since)
    BY <1>1, <1>2, <1>5, KeptShrinks
  <1>7. MsgInv'
    <2>1. fan' = fan /\ fan.pc = "append" /\ wr.data = appended
      BY <1>1, <1>2 DEF streamVars, SInv, FanInv, MsgInv
    <2>2. \A i \in Ring!Slots : entries'[i].data < appended /\ entries'[i].data <= appended
      BY <1>1, <1>4, <1>5, <2>1 DEF MsgInv, Ring!EmptyEntry
    <2> QED
      BY <1>1, <1>2, <1>4, <2>1, <2>2 DEF MsgInv
  <1> QED
    BY <1>2, <1>5, <1>6, <1>7, RingOnly

LEMMA DeliverStep ==
    ASSUME DInv, SInv', NEW ch \in Channels, NEW sz \in Sizes, Deliver(ch, sz)
    PROVE  DInv'
  <1> DEFINE m == [data |-> appended + 1, size |-> sz, channel |-> ch]
  <1>1. Ring!TypeOK /\ ScanInv /\ MsgInv /\ SInv /\ appended \in Nat /\ MaxAppends \in Nat
    BY RingParameters DEF DInv, ScanInv, SInv, TypeInv, Ring!RingAssumption
  <1>2. /\ fan.pc = "idle" /\ fan' = [pc |-> "append", todo |-> {}, msg |-> <<m>>]
        /\ appended' = appended + 1 /\ appended < MaxAppends
        /\ wr' = [pc |-> "bytes", channel |-> ch, data |-> appended + 1, size |-> sz]
        /\ UNCHANGED <<entries, head, tail, full, zeroed, channelTTLs, now>>
        /\ UNCHANGED <<pc, chan, conn, cursor, shown, mangled>>
    BY DEF Deliver, Ring!AppendLock, Ring!ring, handlerVars
  <1>3. ASSUME NEW t \in Streams PROVE StreamOK(t)'
    <2>1. LineOK(conn[t], Pending(t)', appended')
      BY <1>1, <1>2, Before, LineLater
    <2>2. Due(t) = {} /\ Due(t)' = {}
      <3>1. fan.todo = {}
        BY <1>1, <1>2 DEF SInv, FanInv
      <3> QED
        BY <1>2, <3>1 DEF Due
    <2>3. Kept(chan[t], conn[t].since)' = Kept(chan[t], conn[t].since)
      BY <1>2, KeptSame
    <2> QED
      BY <1>2, <2>1, <2>2, <2>3, Before, Bystander
  <1>4. ScanInv'
    <2>1. wr' \in Ring!Writer /\ appended' \in 0 .. MaxAppends
      BY <1>1, <1>2 DEF Ring!Writer, Ring!Payloads
    <2>2. Ring!TypeOK'
      BY <1>1, <1>2, <2>1 DEF Ring!TypeOK
    <2> QED
      BY <1>1, <1>2, <2>2 DEF ScanInv, Ring!Occupied
  <1>5. MsgInv'
    <2>1. fan'.pc = "append" /\ fan'.msg[1] = m /\ m.data = appended' /\ m.channel = ch
      BY <1>2
    <2>2. wr'.data = appended' /\ wr'.channel = ch
      BY <1>2
    <2>3. \A i \in Ring!Slots : entries'[i].data \in Nat /\ entries'[i].data < appended'
      <3>1. \A i \in Ring!Slots : entries[i].data \in Nat
        BY <1>1, SlotTypes
      <3> QED
        BY <1>1, <1>2, <3>1 DEF MsgInv
    <2> HIDE DEF m
    <2> QED
      BY <1>1, <1>2, <2>1, <2>2, <2>3 DEF MsgInv
  <1>6. RecordInv'
    BY <1>2 DEF DInv, RecordInv
  <1> QED
    BY <1>3, <1>4, <1>5, <1>6 DEF DInv

LEMMA StoreStep == ASSUME DInv, SInv', DeliverStore PROVE DInv'
  <1>1. Ring!TypeOK /\ ScanInv /\ MsgInv /\ SInv /\ appended \in Nat /\ fan \in FanType
    BY DEF DInv, ScanInv, SInv, TypeInv
  <1>2. /\ Ring!AppendStore /\ fan' = [fan EXCEPT !.pc = "stored"]
        /\ UNCHANGED <<pc, chan, conn, cursor, shown, mangled>>
        /\ appended' = appended /\ wr.pc # "idle" /\ wr' = Ring!NoWriter
    BY DEF DeliverStore, handlerVars, Ring!AppendStore
  <1>3. /\ fan.pc = "append" /\ fan.msg # <<>> /\ wr.data = appended
        /\ wr.channel = fan.msg[1].channel /\ fan.msg[1].data = appended
        /\ \A i \in Ring!Slots : entries[i].data < appended
    BY <1>1, <1>2 DEF SInv, FanInv, MsgInv
  <1>4. /\ fan'.pc = "stored" /\ fan'.msg = fan.msg /\ fan'.todo = fan.todo
    BY <1>1, <1>2 DEF FanType
  <1>5. /\ ScanInv'
        /\ \A i \in Ring!Slots : i # head => entries'[i] = entries[i]
        /\ entries'[head].data = wr.data /\ entries'[head].channel = wr.channel
        /\ head \in Ring!Slots
    BY <1>1, <1>2, StoreScan
  <1>6. \A ch, since : Kept(ch, since)' \subseteq Kept(ch, since) \cup {appended}
    BY <1>1, <1>2, <1>3, KeptStored
  <1>7. ASSUME NEW t \in Streams PROVE StreamOK(t)'
    <2>1. LineOK(conn[t], Pending(t)', appended')
      <3>1. Pending(t)
        BY <1>3 DEF Pending
      <3> QED
        BY <1>2, <3>1, Before DEF LineOK
    <2>2. Due(t)' = {appended}
      <3>1. PICK m \in Message : fan.msg = <<m>>
        BY <1>1, <1>3 DEF FanType
      <3>2. DOMAIN fan'.msg = {1} /\ fan'.msg[1].data = appended
        BY <1>3, <1>4, <3>1
      <3> QED
        BY <1>4, <3>2 DEF Due
    <2>3. Due(t) = {}
      <3>1. fan.todo = {}
        BY <1>1, <1>3 DEF SInv, FanInv
      <3> QED
        BY <1>3, <3>1 DEF Due
    <2>4. Kept(chan[t], conn[t].since)' \subseteq Kept(chan[t], conn[t].since) \cup {appended}
      BY <1>2, <1>6
    <2> QED
      BY <1>2, <2>1, <2>2, <2>3, <2>4, Before, Bystander
  <1>8. MsgInv'
    <2>1. \A i \in Ring!Slots : entries'[i].data <= appended
      BY <1>1, <1>3, <1>5 DEF MsgInv
    <2>2. \A i \in Ring!Slots : entries'[i].data = appended
                                  => entries'[i].channel = fan.msg[1].channel
      BY <1>1, <1>3, <1>5
    <2>3. wr'.pc = "idle"
      BY <1>2 DEF Ring!NoWriter
    <2> QED
      BY <1>2, <1>3, <1>4, <2>1, <2>2, <2>3 DEF MsgInv
  <1>9. RecordInv'
    BY <1>2 DEF DInv, RecordInv
  <1> QED
    BY <1>5, <1>7, <1>8, <1>9 DEF DInv

\* fanout takes the subscribers: a reader that has not received the stored
\* message is one of them.
LEMMA LockStep == ASSUME DInv, SInv', FanoutLock PROVE DInv'
  <1> DEFINE targets == subs[fan.msg[1].channel]
  <1>1. Ring!TypeOK /\ ScanInv /\ MsgInv /\ SInv /\ fan \in FanType /\ HandlerInv
    BY DEF DInv, ScanInv, SInv, TypeInv
  <1>2. /\ fan.pc = "stored"
        /\ fan' = IF targets = {} THEN NoFan
                  ELSE [fan EXCEPT !.pc = "send", !.todo = targets]
        /\ UNCHANGED ringVars /\ UNCHANGED <<pc, chan, conn, cursor, shown, mangled>>
    BY DEF FanoutLock, handlerVars
  <1>3. /\ fan.msg # <<>> /\ fan.msg[1].data = appended
        /\ \A i \in Ring!Slots : entries[i].data = appended
                                  => entries[i].channel = fan.msg[1].channel
    BY <1>1, <1>2 DEF SInv, FanInv, MsgInv
  <1>4. PICK m \in Message : fan.msg = <<m>>
    BY <1>1, <1>3 DEF FanType
  <1>5. /\ fan.msg[1].channel \in Channels /\ DOMAIN fan.msg = {1}
    BY <1>4 DEF Message
  <1>6. /\ fan'.todo = targets
        /\ \/ targets = {} /\ fan'.pc = "idle"
           \/ targets # {} /\ fan'.pc = "send" /\ fan'.msg = fan.msg
    BY <1>1, <1>2 DEF FanType, NoFan
  <1>7. ASSUME NEW t \in Streams PROVE StreamOK(t)'
    <2>1. LineOK(conn[t], Pending(t)', appended')
      <3>1. Pending(t) /\ appended' = appended
        BY <1>2 DEF Pending, ringVars
      <3> QED
        BY <3>1, Before DEF LineOK
    <2>2. Due(t) = {appended}
      BY <1>1, <1>2, DueIs
    <2>3. t \in targets => Due(t)' = {appended}
      BY <1>3, <1>5, <1>6 DEF Due
    <2>4. Kept(chan[t], conn[t].since)' = Kept(chan[t], conn[t].since)
      BY <1>2, KeptSame DEF ringVars
    <2>5. ASSUME pc[t] \in ReadPc, appended \in Kept(chan[t], conn[t].since)
          PROVE  t \in targets
      <3>1. PICK i \in Ring!Slots : entries[i].data = appended /\ entries[i].channel = chan[t]
        BY <2>5 DEF Kept, Wanted
      <3>2. chan[t] = fan.msg[1].channel
        BY <1>3, <3>1
      <3>3. t \in opened
        BY <1>1, <2>5 DEF HandlerInv, ReadPc, OpenPc
      <3> QED
        BY <1>1, <1>5, <3>2, <3>3 DEF SInv, SubsMatchStreams
    <2> HIDE DEF targets
    <2>6. pc[t] \in ReadPc /\ ~conn[t].cut =>
            Kept(chan[t], conn[t].since)' \subseteq Received(conn[t], shown[t]) \cup Due(t)'
      BY <2>2, <2>3, <2>4, <2>5, Before
    <2> QED
      BY <1>2, <2>1, <2>6, Bystander
  <1>8. ScanInv'
    BY <1>1, <1>2 DEF ScanInv, ringVars, Ring!TypeOK, Ring!Occupied
  <1>9. MsgInv'
    BY <1>1, <1>2, <1>3, <1>6 DEF MsgInv, ringVars, SInv, FanInv
  <1>10. RecordInv'
    BY <1>2 DEF DInv, RecordInv
  <1> QED
    BY <1>7, <1>8, <1>9, <1>10 DEF DInv

\* trySend queues the message or counts it as lost.
LEMMA Tried ==
    ASSUME NEW c \in Conn, NEW m \in Message, NEW n \in Nat, m.data = n,
           NEW p, HandOK(c, p), BytesOK(c, p), LineOK(c, TRUE, n)
    PROVE  LET d == trySend(c, m) IN
           /\ d \in Conn /\ d.since = c.since /\ d.cut = c.cut
           /\ HandOK(d, p) /\ BytesOK(d, p) /\ LineOK(d, FALSE, n)
           /\ \A w : Received(c, w) \cup {n} \subseteq Received(d, w)
  <1> DEFINE d == trySend(c, m)
  <1>1. m.size \in Nat /\ m.data \in Payloads
    BY MessageSize DEF Message
  <1>2. /\ c.queue \in Seq(Message) /\ c.bytes \in Nat /\ c.lastLive \in Nat
        /\ c.lost \subseteq Payloads
    BY DEF Conn
  <1>3. CASE d = [c EXCEPT !.lost = @ \cup {m.data}]
    <2>1. /\ d.since = c.since /\ d.cut = c.cut /\ d.hist = c.hist /\ d.queue = c.queue
          /\ d.inhand = c.inhand /\ d.bytes = c.bytes /\ d.lastLive = c.lastLive
          /\ d.lost = c.lost \cup {n} /\ d \in Conn
      <3> HIDE DEF d
      <3> QED
        BY <1>1, <1>2, <1>3 DEF Conn
    <2> HIDE DEF d
    <2>2. HandOK(d, p) /\ BytesOK(d, p)
      BY <2>1 DEF HandOK, BytesOK
    <2>3. LineOK(d, FALSE, n)
      BY <2>1 DEF LineOK
    <2>4. \A w : Received(c, w) \cup {n} \subseteq Received(d, w)
      BY <2>1 DEF Received
    <2> QED
      BY <2>1, <2>2, <2>3, <2>4 DEF d
  <1>4. CASE /\ d = [c EXCEPT !.queue = Append(@, m), !.bytes = @ + m.size]
             /\ ~(QueueBytes > 0 /\ c.bytes + m.size > QueueBytes)
    <2> DEFINE q == c.queue
               r == Append(q, m)
    <2>1. /\ r \in Seq(Message) /\ Len(r) = Len(q) + 1 /\ r[Len(r)] = m /\ Len(q) \in Nat
          /\ \A i \in 1 .. Len(q) : r[i] = q[i]
          /\ QueuedBytes(r) = QueuedBytes(q) + m.size /\ QueuedBytes(q) \in Nat
      <3> HIDE DEF q
      <3>1. q \in Seq(Message)
        BY <1>2 DEF q
      <3> QED
        BY <3>1, QueuedAppend, QueuedNat
    <2> HIDE DEF r
    <2>2. /\ d.since = c.since /\ d.cut = c.cut /\ d.hist = c.hist /\ d.queue = r
          /\ d.inhand = c.inhand /\ d.bytes = c.bytes + m.size /\ d.lastLive = c.lastLive
          /\ d.lost = c.lost /\ d \in Conn
      <3>1. d = [c EXCEPT !.queue = r, !.bytes = c.bytes + m.size]
        BY <1>4 DEF r
      <3>2. c.bytes + m.size \in Nat
        BY <1>1, <1>2
      <3> HIDE DEF d
      <3> QED
        BY <2>1, <3>1, <3>2 DEF Conn
    <2> HIDE DEF d, q
    <2>3. HandOK(d, p)
      BY <2>2 DEF HandOK
    <2>4. BytesOK(d, p)
      <3> DEFINE held == IF p = "ack" THEN c.inhand[1].size ELSE 0
      <3>1. held \in Nat
        <4>1. CASE p = "ack"
          <5>1. PICK h \in Message : c.inhand = <<h>>
            BY <4>1 DEF Conn, HandOK
          <5> QED
            BY <4>1, <5>1, MessageSize
        <4> QED
          BY <4>1
      <3>2. c.bytes = QueuedBytes(q) + held
        BY DEF BytesOK, q
      <3>3. d.bytes = QueuedBytes(r) + held
        <4> HIDE DEF held
        <4> QED
          BY <1>1, <1>2, <2>1, <2>2, <3>1, <3>2
      <3>4. QueueBytes > 0 => d.bytes <= QueueBytes
        BY <1>1, <1>2, <1>4, <2>2, StreamAssumption
      <3> QED
        BY <2>2, <3>3, <3>4 DEF BytesOK
    <2>5. LineOK(d, FALSE, n)
      <3>1. /\ c.lastLive < n
            /\ \A i \in 1 .. Len(q) : q[i].data < n /\ q[i].data <= n /\ c.lastLive < q[i].data
            /\ \A i, j \in 1 .. Len(q) : i < j => q[i].data < q[j].data
            /\ c.inhand # <<>> =>
                 /\ c.inhand[1].data < n /\ c.inhand[1].data <= n
                 /\ c.lastLive < c.inhand[1].data
                 /\ \A i \in 1 .. Len(q) : c.inhand[1].data < q[i].data
        BY DEF LineOK, q
      <3>2. ASSUME NEW i \in 1 .. Len(r)
            PROVE  (i \in 1 .. Len(q) /\ r[i] = q[i]) \/ (i = Len(r) /\ r[i].data = n)
        <4>1. CASE i = Len(r)
          BY <2>1, <4>1
        <4>2. CASE i # Len(r)
          <5>1. i \in 1 .. Len(q)
            BY <2>1, <4>2
          <5> QED
            BY <2>1, <5>1
        <4> QED
          BY <4>1, <4>2
      <3>3. \A i \in 1 .. Len(r) : r[i].data <= n /\ c.lastLive < r[i].data
        BY <3>1, <3>2
      <3>4. \A i, j \in 1 .. Len(r) : i < j => r[i].data < r[j].data
        <4> SUFFICES ASSUME NEW i \in 1 .. Len(r), NEW j \in 1 .. Len(r), i < j
                     PROVE  r[i].data < r[j].data
          OBVIOUS
        <4>1. i \in 1 .. Len(q) /\ r[i] = q[i]
          BY <2>1, <3>2
        <4> QED
          BY <3>1, <3>2, <4>1
      <3>5. c.inhand # <<>> => \A i \in 1 .. Len(r) : c.inhand[1].data < r[i].data
        BY <3>1, <3>2
      <3>6. c.lastLive <= n
        BY <1>2, <3>1
      <3> QED
        BY <2>2, <3>1, <3>3, <3>4, <3>5, <3>6 DEF LineOK
    <2>6. ASSUME NEW w PROVE Received(c, w) \cup {n} \subseteq Received(d, w)
      <3>1. n \in Received(d, w)
        <4>1. Len(r) \in 1 .. Len(r) /\ r[Len(r)].data = n
          BY <2>1
        <4> QED
          BY <2>2, <4>1, ReceivedIs
      <3>2. ASSUME NEW e \in Received(c, w) PROVE e \in Received(d, w)
        <4>1. ASSUME NEW i \in 1 .. Len(q), q[i].data = e PROVE e \in Received(d, w)
          <5>1. i \in 1 .. Len(r) /\ r[i].data = e
            BY <2>1, <4>1
          <5> QED
            BY <2>2, <5>1, ReceivedIs
        <4>2. \/ e \in w \/ e \in c.lost
              \/ \E i \in 1 .. Len(c.hist) : c.hist[i] = e
              \/ \E i \in 1 .. Len(q) : q[i].data = e
              \/ c.inhand # <<>> /\ c.inhand[1].data = e
          BY ReceivedIs DEF q
        <4>3. CASE \/ e \in w \/ e \in c.lost
                   \/ \E i \in 1 .. Len(c.hist) : c.hist[i] = e
                   \/ c.inhand # <<>> /\ c.inhand[1].data = e
          <5>1. \/ e \in w \/ e \in d.lost
                \/ \E i \in 1 .. Len(d.hist) : d.hist[i] = e
                \/ d.inhand # <<>> /\ d.inhand[1].data = e
            BY <2>2, <4>3
          <5> QED
            BY <2>2, <5>1, ReceivedIs
        <4> QED
          BY <4>1, <4>2, <4>3
      <3> QED
        BY <3>1, <3>2
    <2> QED
      BY <2>2, <2>3, <2>4, <2>5, <2>6 DEF d
  <1> QED
    BY <1>3, <1>4 DEF trySend

LEMMA SendStep == ASSUME DInv, SInv', NEW s \in Streams, FanoutSend(s) PROVE DInv'
  <1> DEFINE left == fan.todo \ {s}
             m == fan.msg[1]
             new == trySend(conn[s], m)
  <1>1. /\ Ring!TypeOK /\ ScanInv /\ MsgInv /\ SInv /\ fan \in FanType /\ RecordInv
        /\ conn \in [Streams -> Conn] /\ appended \in Nat /\ StreamOK(s)
    BY DEF DInv, ScanInv, SInv, TypeInv, RecordInv
  <1>2. /\ fan.pc = "send" /\ s \in fan.todo
        /\ fan' = IF left = {} THEN NoFan ELSE [fan EXCEPT !.todo = left]
        /\ conn' = [conn EXCEPT ![s] = new]
        /\ UNCHANGED ringVars /\ UNCHANGED <<pc, chan, cursor, shown, mangled>>
    BY DEF FanoutSend
  <1>3. /\ fan.msg # <<>> /\ m.data = appended
    BY <1>1, <1>2 DEF SInv, FanInv, MsgInv
  <1>4. m \in Message
    <2>1. PICK h \in Message : fan.msg = <<h>>
      BY <1>1, <1>3 DEF FanType
    <2> QED
      BY <2>1
  <1>5. /\ fan'.todo = left
        /\ fan'.pc = "idle" \/ (fan'.pc = "send" /\ fan'.msg = fan.msg)
    <2>1. CASE left = {}
      <3>1. fan' = NoFan
        BY <1>2, <2>1
      <3> HIDE DEF left
      <3> QED
        BY <2>1, <3>1 DEF NoFan
    <2>2. CASE left # {}
      <3>1. fan' = [fan EXCEPT !.todo = left]
        BY <1>2, <2>2
      <3> HIDE DEF left
      <3> QED
        BY <1>1, <1>2, <3>1 DEF FanType
    <2> QED
      BY <2>1, <2>2
  <1>6. /\ HandOK(conn[s], pc[s]) /\ BytesOK(conn[s], pc[s]) /\ conn[s] \in Conn
        /\ LineOK(conn[s], TRUE, appended) /\ Due(s) = {appended}
    <2>1. Pending(s)
      BY <1>2 DEF Pending
    <2>2. LineOK(conn[s], TRUE, appended)
      BY <1>1, <2>1 DEF StreamOK, LineOK
    <2>3. Due(s) = {appended}
      BY <1>1, <1>2, DueIs
    <2> QED
      BY <1>1, <2>2, <2>3 DEF StreamOK
  <1>7. /\ new \in Conn /\ new.since = conn[s].since /\ new.cut = conn[s].cut
        /\ HandOK(new, pc[s]) /\ BytesOK(new, pc[s]) /\ LineOK(new, FALSE, appended)
        /\ Received(conn[s], shown[s]) \cup {appended} \subseteq Received(new, shown[s])
    <2> HIDE DEF m
    <2> QED
      BY <1>1, <1>3, <1>4, <1>6, Tried
  <1> HIDE DEF new
  <1>8. /\ conn'[s] = new /\ conn' \in [Streams -> Conn]
        /\ \A t \in Streams : t # s => conn'[t] = conn[t]
    BY <1>1, <1>2, <1>7
  <1>9. \A ch, since : Kept(ch, since)' = Kept(ch, since)
    BY <1>2, KeptSame DEF ringVars
  <1>10. ASSUME NEW t \in Streams, t # s PROVE StreamOK(t)'
    <2>1. t \in fan'.todo <=> t \in fan.todo
      BY <1>5, <1>10
    <2>2. Pending(t)' <=> Pending(t)
      BY <1>2, <1>5, <2>1 DEF Pending
    <2>3. Due(t)' = Due(t)
      <3>1. CASE t \in fan.todo
        <4>1. fan'.pc = "send" /\ fan'.msg = fan.msg
          <5>1. left # {}
            BY <1>10, <3>1
          <5> QED
            BY <1>1, <1>2, <5>1 DEF FanType
        <4> QED
          BY <1>2, <2>1, <4>1 DEF Due
      <3>2. CASE t \notin fan.todo
        BY <1>2, <1>5, <2>1, <3>2 DEF Due
      <3> QED
        BY <3>1, <3>2
    <2>4. LineOK(conn[t], Pending(t)', appended')
      BY <1>2, <2>2, Before DEF LineOK, ringVars
    <2>5. pc[t] \in ReadPc /\ ~conn[t].cut =>
            Kept(chan[t], conn[t].since)' \subseteq Received(conn[t], shown[t]) \cup Due(t)'
      BY <1>2, <1>8, <1>9, <1>10, <2>3, Before
    <2> QED
      BY <1>2, <1>8, <1>10, <2>4, <2>5, Bystander
  <1>11. StreamOK(s)'
    <2>1. (Pending(s)' <=> FALSE) /\ appended' = appended
      BY <1>2, <1>5 DEF Pending, ringVars
    <2>2. HandOK(conn[s], pc[s])' /\ BytesOK(conn[s], pc[s])'
      BY <1>2, <1>7, <1>8
    <2>3. LineOK(conn[s], Pending(s), appended)'
      BY <1>7, <1>8, <2>1 DEF LineOK
    <2>4. ASSUME pc[s] \in ReadPc, ~conn[s].cut
          PROVE  Kept(chan[s], conn[s].since) \subseteq Received(new, shown[s])
      BY <1>6, <1>7, <2>4, Before
    <2>5. GapOK(conn[s], pc[s], Kept(chan[s], conn[s].since),
                Received(conn[s], shown[s]) \cup Due(s))'
      BY <1>2, <1>7, <1>8, <1>9, <2>4 DEF GapOK
    <2> QED
      BY <2>2, <2>3, <2>5 DEF StreamOK
  <1>12. ScanInv'
    BY <1>1, <1>2 DEF ScanInv, ringVars, Ring!TypeOK, Ring!Occupied
  <1>13. MsgInv'
    BY <1>1, <1>2, <1>3, <1>5 DEF MsgInv, ringVars, SInv, FanInv
  <1>14. RecordInv'
    BY <1>1, <1>2, <1>8 DEF RecordInv
  <1> QED
    BY <1>10, <1>11, <1>12, <1>13, <1>14 DEF DInv

-----------------------------------------------------------------------------
(* The theorems on delivery                                                *)

LEMMA InitDInv == Init => DInv
  <1> SUFFICES ASSUME Init PROVE DInv
    OBVIOUS
  <1> USE RingParameters DEF Ring!RingAssumption
  <1>1. SInv
    BY InitSInv
  <1>2. ScanInv
    <2>1. /\ entries = [i \in Ring!Slots |-> Ring!EmptyEntry] /\ head = 0 /\ tail = 0
          /\ full = FALSE /\ channelTTLs = [ch \in Channels |-> 0] /\ now = 1
          /\ wr = Ring!NoWriter /\ appended = 0 /\ zeroed = {}
      BY DEF Init, Ring!Init
    <2>2. Ring!TypeOK
      <3>1. 0 \in Ring!Slots /\ now \in 1 .. MaxClock
        BY <2>1 DEF Ring!Slots
      <3>2. entries \in [Ring!Slots -> Ring!Entry \cup {Ring!EmptyEntry}]
        BY <2>1
      <3> QED
        <4>1. full \in BOOLEAN /\ wr \in Ring!Writer \cup {Ring!NoWriter}
          BY <2>1, Zenon
        <4>2. channelTTLs \in [Channels -> Nat] /\ appended \in 0 .. MaxAppends
          BY <2>1
        <4>3. zeroed \subseteq 0 .. MaxAppends /\ head \in Ring!Slots /\ tail \in Ring!Slots
          BY <2>1, <3>1
        <4> QED
          BY <3>1, <3>2, <4>1, <4>2, <4>3 DEF Ring!TypeOK
    <2> QED
      BY <2>1, <2>2 DEF ScanInv, Ring!NoWriter
  <1>3. MsgInv
    BY DEF Init, Ring!Init, Ring!NoWriter, Ring!EmptyEntry, NoFan, MsgInv
  <1>4. Fresh \in Conn
    BY DEF Fresh, Conn, ZeroTime
  <1>5. RecordInv
    BY <1>4 DEF Init, RecordInv
  <1>6. ASSUME NEW s \in Streams PROVE StreamOK(s)
    <2>1. /\ conn[s] = Fresh /\ pc[s] = "idle" /\ appended = 0
          /\ fan.pc = "idle" /\ fan.todo = {}
      BY DEF Init, Ring!Init, NoFan
    <2>2. HandOK(conn[s], pc[s])
      BY <2>1 DEF HandOK, Fresh
    <2>3. BytesOK(conn[s], pc[s])
      BY <2>1, QueuedNone, StreamAssumption DEF BytesOK, Fresh
    <2>4. LineOK(conn[s], Pending(s), appended)
      <3>1. ~Pending(s)
        BY <2>1 DEF Pending
      <3> QED
        BY <2>1, <3>1 DEF LineOK, Fresh
    <2> QED
      BY <2>1, <2>2, <2>3, <2>4 DEF StreamOK, GapOK, ReadPc
  <1> QED
    BY <1>1, <1>2, <1>3, <1>5, <1>6 DEF DInv

LEMMA NextDInv == DInv /\ [Next]_vars => DInv'
  <1> SUFFICES ASSUME DInv, [Next]_vars PROVE DInv'
    OBVIOUS
  <1>1. SInv'
    BY NextSInv DEF DInv
  <1>2. ASSUME NEW s \in Streams, Handler(s) PROVE DInv'
    BY <1>1, <1>2, AsideSteps, DrainStep, HistoryStep, ReceiveStep, AckStep, WriteStep,
       ReleaseStep DEF Handler, HandlerSteps
  <1>3. ASSUME NEW s \in Streams, Disconnect(s) \/ \E ch \in Channels : Open(s, ch)
        PROVE  DInv'
    BY <1>1, <1>3, AsideSteps
  <1>4. ASSUME Callback PROVE DInv'
    BY <1>1, <1>4, EvictStep, StoreStep, LockStep, SendStep DEF Callback
  <1>5. ASSUME UNCHANGED vars PROVE DInv'
    <2>1. UNCHANGED <<entries, head, tail, full, zeroed, channelTTLs, now, wr, appended>>
      BY <1>5 DEF vars, ringVars
    <2>2. UNCHANGED streamVars /\ fan' = fan
      BY <1>5 DEF vars, streamVars
    <2>3. ScanInv'
      BY <2>1 DEF DInv, ScanInv, Ring!TypeOK, Ring!Occupied
    <2>4. MsgInv'
      BY <2>1, <2>2 DEF DInv, MsgInv
    <2>5. \A ch, since : Kept(ch, since)' = Kept(ch, since)
      BY <2>1, KeptSame
    <2> QED
      BY <1>1, <2>1, <2>2, <2>3, <2>4, <2>5, RingOnly
  <1> QED
    BY <1>1, <1>2, <1>3, <1>4, <1>5, DeliverStep, CleanupStep, TickStep DEF Next

LEMMA Delivered == Spec => []DInv
  BY InitDInv, NextDInv, PTL DEF Spec

\* The broker's and the handlers' state keeps its types: in particular what is
\* charged to a queue stays a natural number, and every payload shown, lost or
\* mangled is one the broker was given.
THEOREM StreamTypeCorrect == Spec => []StreamTypeOK
  <1>1. DInv => StreamTypeOK
    <2> SUFFICES ASSUME DInv PROVE StreamTypeOK
      OBVIOUS
    <2>1. TypeInv /\ LimiterInv /\ RecordInv
      BY DEF DInv, SInv
    <2>2. \A s \in Streams : conn[s] \in Conn
      BY <2>1 DEF RecordInv
    <2>3. \A s \in Streams :
             /\ conn[s].gone \in BOOLEAN /\ conn[s].bytes \in Nat /\ conn[s].since \in Int
             /\ conn[s].lost \subseteq Payloads /\ conn[s].lastMsgTs \in Nat
      BY <2>2 DEF Conn
    <2>4. inUse \in Nat
      BY <2>1, ActiveFinite DEF LimiterInv
    <2>5. /\ fan.pc \in {"idle", "append", "stored", "send"} /\ fan.todo \subseteq Streams
          /\ fan.msg \in {<<>>} \cup {<<m>> : m \in Message}
      BY <2>1 DEF TypeInv, FanType
    <2> QED
      BY <2>1, <2>3, <2>4, <2>5 DEF StreamTypeOK, TypeInv, RecordInv
  <1> QED
    BY <1>1, Delivered, PTL

\* trySend and Ack keep a subscriber's byte count equal to what is queued or in
\* hand, whatever the budget, the sizes and the interleaving, and within budget.
THEOREM BytesCorrect == Spec => []QueueBytesExact
  <1>1. DInv => QueueBytesExact
    BY DEF DInv, StreamOK, BytesOK, QueueBytesExact
  <1> QED
    BY <1>1, Delivered, PTL

\* A stream's live messages leave its queue in the order the callback appended
\* them, each once, for any queue depth and any number of streams.
THEOREM LiveOrder == Spec => []LiveInOrder
  <1>1. DInv => LiveInOrder
    <2> SUFFICES ASSUME DInv, NEW s \in Streams
                 PROVE  LET c == conn[s]
                            line == <<c.lastLive>> \o [i \in DOMAIN c.inhand |-> c.inhand[i].data]
                                      \o [i \in DOMAIN c.queue |-> c.queue[i].data]
                        IN  \A i, j \in DOMAIN line : i < j => line[i] < line[j]
      BY DEF LiveInOrder
    <2> DEFINE c == conn[s]
               hand == [i \in DOMAIN c.inhand |-> c.inhand[i].data]
               queue == [i \in DOMAIN c.queue |-> c.queue[i].data]
               taken == <<c.lastLive>> \o hand
               line == taken \o queue
    <2>1. c \in Conn /\ LineOK(c, Pending(s), appended)
      BY DEF DInv, StreamOK, RecordInv
    <2> HIDE DEF c
    <2>2. c.queue \in Seq(Message) /\ c.lastLive \in Nat
      BY <2>1 DEF Conn
    <2>3. /\ queue \in Seq(Nat) /\ Len(queue) = Len(c.queue)
          /\ \A i \in 1 .. Len(queue) : queue[i] = c.queue[i].data
      <3>1. \A m \in Message : m.data \in Nat
        BY RingParameters DEF Message, Payloads, Ring!RingAssumption
      <3>2. DOMAIN c.queue = 1 .. Len(c.queue) /\ Len(c.queue) \in Nat
        BY <2>2
      <3>3. \A i \in 1 .. Len(c.queue) : c.queue[i] \in Message
        BY <2>2
      <3> QED
        BY <3>1, <3>2, <3>3
    <2>4. /\ taken \in Seq(Nat) /\ Len(taken) \in Nat
          /\ \A i, j \in 1 .. Len(taken) : i < j => taken[i] < taken[j]
          /\ \A i \in 1 .. Len(taken), j \in 1 .. Len(queue) : taken[i] < queue[j]
      <3>1. /\ hand \in Seq(Nat) /\ Len(hand) = IF c.inhand = <<>> THEN 0 ELSE 1
            /\ c.inhand # <<>> => hand[1] = c.inhand[1].data
        <4>1. CASE c.inhand = <<>>
          <5>1. hand = <<>>
            BY <4>1
          <5> HIDE DEF hand
          <5> QED
            BY <4>1, <5>1
        <4>2. CASE c.inhand # <<>>
          <5>1. PICK m \in Message : c.inhand = <<m>>
            BY <2>1, <4>2 DEF Conn
          <5>2. m.data \in Nat
            BY RingParameters DEF Message, Payloads, Ring!RingAssumption
          <5>3. hand = <<m.data>>
            BY <5>1
          <5> HIDE DEF hand
          <5> QED
            BY <4>2, <5>1, <5>2, <5>3
        <4> QED
          BY <4>1, <4>2
      <3> DEFINE first == <<c.lastLive>>
      <3>2. first \in Seq(Nat) /\ Len(first) = 1 /\ first[1] = c.lastLive
        BY <2>2
      <3> HIDE DEF hand, first
      <3>3. /\ first \o hand \in Seq(Nat) /\ Len(first \o hand) = Len(first) + Len(hand)
            /\ \A i \in 1 .. Len(first) + Len(hand) :
                 (first \o hand)[i] = IF i <= Len(first) THEN first[i] ELSE hand[i - Len(first)]
        BY <3>1, <3>2, ConcatProperties
      <3>4. /\ taken \in Seq(Nat) /\ Len(taken) = IF c.inhand = <<>> THEN 1 ELSE 2
            /\ taken[1] = c.lastLive
            /\ c.inhand # <<>> => taken[2] = c.inhand[1].data
        <4>1. taken = first \o hand
          BY DEF first
        <4> HIDE DEF taken
        <4> QED
          BY <3>1, <3>2, <3>3, <4>1
      <3> HIDE DEF taken, queue
      <3>5. /\ \A j \in 1 .. Len(queue) : c.lastLive < queue[j]
            /\ c.inhand # <<>> => /\ c.lastLive < c.inhand[1].data
                                  /\ \A j \in 1 .. Len(queue) : c.inhand[1].data < queue[j]
        BY <2>1, <2>3 DEF LineOK
      <3>6. CASE c.inhand = <<>>
        <4>1. Len(taken) = 1
          BY <3>4, <3>6
        <4> QED
          BY <3>4, <3>5, <4>1
      <3>7. CASE c.inhand # <<>>
        <4> DEFINE h == c.inhand[1].data
        <4>1. Len(taken) = 2 /\ taken[1] = c.lastLive /\ taken[2] = h /\ c.lastLive < h
          BY <3>4, <3>5, <3>7
        <4>2. \A j \in 1 .. Len(queue) : c.lastLive < queue[j] /\ h < queue[j]
          BY <3>5, <3>7
        <4> HIDE DEF h
        <4>3. \A i \in 1 .. Len(taken) : i = 1 \/ i = 2
          BY <4>1
        <4> QED
          BY <3>4, <4>1, <4>2, <4>3
      <3> QED
        BY <3>6, <3>7
    <2>5. \A i, j \in 1 .. Len(queue) : i < j => queue[i] < queue[j]
      BY <2>1, <2>3 DEF LineOK
    <2> HIDE DEF queue, taken
    <2>6. /\ DOMAIN line = 1 .. (Len(taken) + Len(queue))
          /\ \A i \in 1 .. Len(taken) : line[i] = taken[i]
          /\ \A i \in 1 .. Len(queue) : line[Len(taken) + i] = queue[i]
      <3>1. /\ line \in Seq(Nat) /\ Len(line) = Len(taken) + Len(queue)
            /\ \A i \in 1 .. Len(taken) + Len(queue) :
                 line[i] = IF i <= Len(taken) THEN taken[i] ELSE queue[i - Len(taken)]
        BY <2>3, <2>4, ConcatProperties
      <3> HIDE DEF line
      <3>2. DOMAIN line = 1 .. Len(line) /\ Len(queue) \in Nat
        BY <2>3, <3>1
      <3>3. ASSUME NEW i \in 1 .. Len(queue) PROVE line[Len(taken) + i] = queue[i]
        <4>1. /\ Len(taken) + i \in 1 .. Len(taken) + Len(queue)
              /\ ~(Len(taken) + i <= Len(taken)) /\ (Len(taken) + i) - Len(taken) = i
          BY <2>4, <3>2
        <4> QED
          BY <3>1, <4>1
      <3>4. ASSUME NEW i \in 1 .. Len(taken) PROVE line[i] = taken[i]
        <4>1. i \in 1 .. Len(taken) + Len(queue) /\ i <= Len(taken)
          BY <2>4, <3>2
        <4> QED
          BY <3>1, <4>1
      <3> QED
        BY <3>1, <3>2, <3>3, <3>4
    <2>7. ASSUME NEW i \in DOMAIN line, NEW j \in DOMAIN line, i < j PROVE line[i] < line[j]
      <3> HIDE DEF line
      <3>1. CASE j <= Len(taken)
        BY <2>3, <2>4, <2>6, <2>7, <3>1
      <3>2. CASE j > Len(taken) /\ i <= Len(taken)
        <4>1. j - Len(taken) \in 1 .. Len(queue) /\ i \in 1 .. Len(taken)
          BY <2>3, <2>4, <2>6, <3>2
        <4>2. line[j] = queue[j - Len(taken)]
          BY <2>4, <2>6, <4>1
        <4> QED
          BY <2>4, <2>6, <4>1, <4>2
      <3>3. CASE i > Len(taken)
        <4>1. /\ i - Len(taken) \in 1 .. Len(queue) /\ j - Len(taken) \in 1 .. Len(queue)
              /\ i - Len(taken) < j - Len(taken)
          BY <2>3, <2>4, <2>6, <2>7, <3>3
        <4>2. line[i] = queue[i - Len(taken)] /\ line[j] = queue[j - Len(taken)]
          BY <2>4, <2>6, <4>1
        <4> QED
          BY <2>5, <4>1, <4>2
      <3> QED
        BY <2>3, <2>4, <2>6, <3>1, <3>2, <3>3
    <2> QED
      BY <2>7 DEF taken, queue, c
  <1> QED
    BY <1>1, Delivered, PTL

\* Between Register and Get the ring may change and the callback may send: a
\* drained stream misses no retained message of its channel all the same.
THEOREM NothingMissed == Spec => []NoGap
  <1>1. DInv => NoGap
    <2> SUFFICES ASSUME DInv, NEW s \in Streams, pc[s] \in ReadPc, ~conn[s].cut,
                        NEW i \in Ring!Slots, Wanted(entries[i], chan[s], conn[s].since)
                 PROVE  entries[i].data \in Accounted(s)
      BY DEF NoGap, ReadPc, Wanted
    <2>1. entries[i].data \in Kept(chan[s], conn[s].since)
      BY DEF Kept
    <2>2. entries[i].data \in Received(conn[s], shown[s]) \cup Due(s)
      BY <2>1, Before
    <2> QED
      BY <2>2 DEF Accounted, Received, Due
  <1> QED
    BY <1>1, Delivered, PTL

===============================================================================
