--------------------------- MODULE RingBufferProofs ---------------------------
(***************************************************************************)
(* Proofs about RingBuffer for every buffer size, byte budget, age and     *)
(* channel set.                                                            *)
(***************************************************************************)
EXTENDS RingBuffer, FiniteSetTheorems, WellFoundedInduction, TLAPS

\* Index arithmetic of the ring: the successor of a slot wraps at MaxSize.
LEMMA SuccSlot ==
    ASSUME NEW i \in Slots
    PROVE  (i + 1) % MaxSize = IF i + 1 = MaxSize THEN 0 ELSE i + 1
  BY RingAssumption DEF Slots

\* Adding less than one turn to a slot wraps at most once.
LEMMA AddSlot ==
    ASSUME NEW i \in Slots, NEW k \in 0 .. MaxSize - 1
    PROVE  (i + k) % MaxSize = IF i + k < MaxSize THEN i + k ELSE i + k - MaxSize
  BY RingAssumption DEF Slots
-----------------------------------------------------------------------------
\* Distance of a slot from tail: its place in the scan.
Pos(i) == IF i >= tail THEN i - tail ELSE i - tail + MaxSize

\* The slot Append is about to write is free, and the payload it carries is the
\* youngest of all.
WriterInv ==
    /\ wr.pc = "store" => ~(full /\ head = tail)
    /\ wr.pc # "idle" => wr.data = appended

\* Payloads in the ring are older than the one being written.
DataInv ==
    \A i \in Slots : entries[i].data <= IF wr.pc = "idle" THEN appended
                                        ELSE appended - 1

\* FIFOInv in terms of slots.
OrderInv ==
    \A i, j \in Slots :
        Occupied(i) /\ Occupied(j) /\ Pos(i) < Pos(j)
          => entries[i].data < entries[j].data

IInv == TypeOK /\ RingInv /\ WriterInv /\ DataInv /\ OrderInv
-----------------------------------------------------------------------------
\* The scan loops of Get and evictExpired stay inside the array.
LEMMA LenBound == TypeOK => lenLocked \in 0 .. MaxSize
  BY RingAssumption DEF TypeOK, lenLocked, Slots

\* A slot is cleared or holds an entry, and the two are told apart.
LEMMA SlotTypes ==
    ASSUME TypeOK, NEW i \in Slots
    PROVE  /\ entries[i].data \in 0 .. MaxAppends
           /\ entries[i] # EmptyEntry =>
                entries[i] \in Entry /\ entries[i].timestamp # 0
           /\ entries[i] = EmptyEntry => entries[i].data = 0
  <1>1. entries[i] \in Entry \cup {EmptyEntry}
    BY DEF TypeOK
  <1>2. CASE entries[i] = EmptyEntry
    BY <1>2, RingAssumption DEF EmptyEntry
  <1>3. CASE entries[i] \in Entry
    <2>1. /\ entries[i].data \in 1 .. MaxAppends
          /\ entries[i].timestamp \in 1 .. MaxClock
      BY <1>3, RingAssumption DEF Entry, Payloads
    <2>2. EmptyEntry.timestamp = 0
      BY DEF EmptyEntry
    <2>3. entries[i] # EmptyEntry
      BY <2>1, <2>2, RingAssumption
    <2> QED
      BY <1>3, <2>1, <2>3, RingAssumption
  <1> QED
    BY <1>1, <1>2, <1>3

LEMMA InitIInv == Init => IInv
  <1> SUFFICES ASSUME Init PROVE IInv
    OBVIOUS
  <1>1. TypeOK
    <2>1. head \in Slots /\ tail \in Slots /\ now \in 1 .. MaxClock
      BY RingAssumption DEF Init, Slots
    <2>2. appended \in 0 .. MaxAppends
      BY RingAssumption DEF Init
    <2>3. /\ entries \in [Slots -> Entry \cup {EmptyEntry}]
          /\ channelTTLs \in [Channels -> Nat]
          /\ full \in BOOLEAN
          /\ wr \in Writer \cup {NoWriter}
          /\ zeroed \subseteq 0 .. MaxAppends
      BY DEF Init
    <2> QED
      BY <2>1, <2>2, <2>3 DEF TypeOK
  <1>2. RingInv
    BY <1>1 DEF Init, RingInv, Occupied, TypeOK
  <1>3. WriterInv
    BY DEF Init, WriterInv, NoWriter
  <1>4. DataInv
    BY DEF Init, DataInv, EmptyEntry, NoWriter
  <1>5. OrderInv
    BY <1>1 DEF Init, OrderInv, Occupied
  <1> QED
    BY <1>1, <1>2, <1>3, <1>4, <1>5 DEF IInv

\* The oldest slot of a non-empty ring is occupied, whatever full says.
LEMMA TailOccupied ==
    ASSUME TypeOK, lenLocked # 0
    PROVE  Occupied(tail)
  BY RingAssumption DEF TypeOK, lenLocked, Occupied, Slots

\* Clearing the oldest slot keeps the ring well formed.
LEMMA EvictOldest ==
    ASSUME IInv, evictOldestLocked
    PROVE  /\ entries' \in [Slots -> Entry \cup {EmptyEntry}]
           /\ tail' \in Slots
           /\ full' \in BOOLEAN
           /\ zeroed' \subseteq 0 .. MaxAppends
           /\ head' = head
           /\ tail' = head' => ~full'
           /\ RingInv'
           /\ OrderInv'
           /\ \A i \in Slots : /\ entries'[i].data \in Nat
                               /\ entries'[i].data <= entries[i].data
  <1> USE RingAssumption
  <1>1. TypeOK /\ RingInv /\ OrderInv /\ Occupied(tail) /\ head' = head
    BY TailOccupied DEF IInv, evictOldestLocked
  <1>2. entries[tail].data \in 0 .. MaxAppends
    BY <1>1, SlotTypes DEF TypeOK
  <1>3. tail' = IF tail + 1 = MaxSize THEN 0 ELSE tail + 1
    BY <1>1, SuccSlot DEF TypeOK, evictOldestLocked
  <1>4. /\ entries' \in [Slots -> Entry \cup {EmptyEntry}]
        /\ tail' \in Slots
        /\ full' \in BOOLEAN
        /\ zeroed' \subseteq 0 .. MaxAppends
        /\ tail' = head' => ~full'
    <2>1. entries' \in [Slots -> Entry \cup {EmptyEntry}]
      BY <1>1 DEF TypeOK, evictOldestLocked
    <2>2. tail' \in Slots
      BY <1>1, <1>3 DEF TypeOK, Slots
    <2>3. full' \in BOOLEAN /\ (tail' = head' => ~full')
      BY <1>1 DEF TypeOK, evictOldestLocked
    <2>4. zeroed' \subseteq 0 .. MaxAppends
      BY <1>1, <1>2, Zenon DEF TypeOK, evictOldestLocked
    <2> QED
      BY <2>1, <2>2, <2>3, <2>4
  <1>5. \A i \in Slots : i # tail => entries'[i] = entries[i]
    BY <1>1 DEF TypeOK, evictOldestLocked
  <1>6. entries'[tail] = EmptyEntry
    BY <1>1 DEF TypeOK, evictOldestLocked
  <1>7. \A i \in Slots : Occupied(i)' <=> (Occupied(i) /\ i # tail)
    <2>1. full' <=> (full /\ tail' # head)
      BY DEF evictOldestLocked
    <2>2. head \in Slots /\ tail \in Slots
      BY <1>1 DEF TypeOK
    <2> QED
      BY <1>1, <1>3, <2>1, <2>2 DEF Occupied, Slots
  <1>8. RingInv'
    BY <1>1, <1>5, <1>6, <1>7 DEF RingInv
  <1>9. \A i, j \in Slots : i # tail /\ j # tail /\ Pos(i)' < Pos(j)' => Pos(i) < Pos(j)
    BY <1>1, <1>3 DEF TypeOK, Pos, Slots
  <1>10. OrderInv'
    BY <1>1, <1>5, <1>7, <1>9 DEF OrderInv
  <1>11. \A i \in Slots : /\ entries'[i].data \in Nat
                          /\ entries'[i].data <= entries[i].data
    <2> SUFFICES ASSUME NEW i \in Slots
                 PROVE  entries'[i].data \in Nat /\ entries'[i].data <= entries[i].data
      OBVIOUS
    <2>1. entries[i].data \in 0 .. MaxAppends
      BY <1>1, SlotTypes
    <2>2. entries'[i].data = entries[i].data \/ entries'[i].data = 0
      BY <1>5, <1>6 DEF EmptyEntry
    <2> QED
      BY <2>1, <2>2
  <1> QED
    BY <1>1, <1>4, <1>8, <1>10, <1>11

\* Writing a free head slot keeps the ring well formed.
LEMMA StoreStep == IInv /\ AppendStore => IInv'
  <1> SUFFICES ASSUME IInv, AppendStore PROVE IInv'
    OBVIOUS
  <1> USE RingAssumption
  <1>1. TypeOK /\ RingInv /\ WriterInv /\ DataInv /\ OrderInv
    BY DEF IInv
  <1> DEFINE new == [channel |-> wr.channel, data |-> wr.data, size |-> wr.size,
                     timestamp |-> now]
  <1>2. /\ wr \in Writer
        /\ wr.data = appended
        /\ wr.pc # "idle"
        /\ ~(full /\ head = tail)
    BY <1>1 DEF TypeOK, AppendStore, WriterInv, NoWriter
  <1>3. /\ head \in Slots /\ tail \in Slots /\ full \in BOOLEAN
        /\ wr.data \in Payloads /\ wr.channel \in Channels
    BY <1>1, <1>2 DEF TypeOK, Writer
  <1>4. new \in Entry /\ new # EmptyEntry /\ new.data = appended
    <2>1. new \in Entry /\ new.data = appended
      BY <1>1, <1>2 DEF Entry, TypeOK, Writer
    <2>2. new.timestamp \in 1 .. MaxClock /\ EmptyEntry.timestamp = 0
      BY <1>1 DEF TypeOK, EmptyEntry
    <2> QED
      BY <2>1, <2>2
  <1>5. head' = IF head + 1 = MaxSize THEN 0 ELSE head + 1
    BY <1>3, SuccSlot DEF AppendStore
  <1>6. /\ tail' = tail /\ zeroed' = zeroed /\ channelTTLs' = channelTTLs
        /\ now' = now /\ appended' = appended /\ wr' = NoWriter
        /\ full' = (full \/ head' = tail)
        /\ entries' = [entries EXCEPT ![head] = new]
    BY DEF AppendStore
  <1>7. TypeOK'
    <2>1. head' \in Slots
      BY <1>3, <1>5 DEF Slots
    <2>2. entries' \in [Slots -> Entry \cup {EmptyEntry}]
      BY <1>1, <1>4, <1>6 DEF TypeOK
    <2>3. full' \in BOOLEAN /\ wr' \in Writer \cup {NoWriter}
      BY <1>6
    <2> QED
      BY <1>1, <1>6, <2>1, <2>2, <2>3 DEF TypeOK
  <1>8. /\ entries'[head] = new
        /\ \A i \in Slots : i # head => entries'[i] = entries[i]
    BY <1>1, <1>3, <1>6 DEF TypeOK
  <1>9. \A i \in Slots : Occupied(i)' <=> (Occupied(i) \/ i = head)
    <2>1. full' <=> (full \/ head' = tail)
      BY <1>6
    <2>2. tail' = tail
      BY <1>6
    <2> QED
      BY <1>2, <1>3, <1>5, <2>1, <2>2 DEF Occupied, Slots
  <1>10. RingInv'
    BY <1>1, <1>4, <1>8, <1>9 DEF RingInv
  <1>11. WriterInv'
    BY <1>6 DEF WriterInv, NoWriter
  <1>12. \A i \in Slots : entries[i].data < appended
    <2> SUFFICES ASSUME NEW i \in Slots PROVE entries[i].data < appended
      OBVIOUS
    <2>1. entries[i].data <= appended - 1
      BY <1>1, <1>2 DEF DataInv
    <2>2. entries[i].data \in 0 .. MaxAppends /\ appended \in 0 .. MaxAppends
      BY <1>1, SlotTypes DEF TypeOK
    <2> QED
      BY <2>1, <2>2
  <1>13. DataInv'
    <2> SUFFICES ASSUME NEW i \in Slots PROVE entries'[i].data <= appended
      BY <1>6 DEF DataInv, NoWriter
    <2>1. entries[i].data \in 0 .. MaxAppends /\ appended \in 0 .. MaxAppends
      BY <1>1, SlotTypes DEF TypeOK
    <2> QED
      BY <1>4, <1>8, <1>12, <2>1
  <1>14. OrderInv'
    <2> SUFFICES ASSUME NEW i \in Slots, NEW j \in Slots,
                        Occupied(i)', Occupied(j)', Pos(i)' < Pos(j)'
                 PROVE  entries'[i].data < entries'[j].data
      BY DEF OrderInv
    <2>1. Pos(i) < Pos(j)
      BY <1>6 DEF Pos
    <2>2. i # head
      <3>1. \A k \in Slots : Occupied(k) => Pos(k) < Pos(head)
        BY <1>2, <1>3 DEF Occupied, Pos, Slots
      <3> QED
        BY <1>3, <1>9, <2>1, <3>1 DEF Pos, Slots
    <2>3. CASE j = head
      BY <1>4, <1>8, <1>12, <2>2, <2>3
    <2>4. CASE j # head
      BY <1>1, <1>8, <1>9, <2>1, <2>2, <2>4 DEF OrderInv
    <2> QED
      BY <2>3, <2>4
  <1> QED
    BY <1>7, <1>10, <1>11, <1>13, <1>14 DEF IInv

\* The evictions of Append keep the ring well formed.
LEMMA EvictSteps == IInv /\ (AppendEvictForBytes \/ AppendEvictWhenFull) => IInv'
  <1> SUFFICES ASSUME IInv, AppendEvictForBytes \/ AppendEvictWhenFull PROVE IInv'
    OBVIOUS
  <1> USE RingAssumption
  <1>1. TypeOK /\ WriterInv /\ DataInv
    BY DEF IInv
  <1>2. /\ evictOldestLocked
        /\ channelTTLs' = channelTTLs /\ now' = now /\ appended' = appended
        /\ wr.pc = "bytes"
        /\ wr' = wr \/ wr' = [wr EXCEPT !.pc = "store"]
    BY DEF AppendEvictForBytes, AppendEvictWhenFull
  <1>3. wr \in Writer
    BY <1>1, <1>2 DEF TypeOK, NoWriter
  <1>4. wr' \in Writer /\ wr'.pc # "idle" /\ wr'.data = wr.data
    BY <1>2, <1>3 DEF Writer
  <1>5. TypeOK'
    BY <1>1, <1>2, <1>4, EvictOldest DEF TypeOK
  <1>6. RingInv' /\ OrderInv'
    BY <1>2, EvictOldest
  <1>7. WriterInv'
    BY <1>1, <1>2, <1>4, EvictOldest DEF WriterInv
  <1>8. DataInv'
    <2> SUFFICES ASSUME NEW i \in Slots PROVE entries'[i].data <= appended - 1
      BY <1>2, <1>4 DEF DataInv
    <2>1. entries[i].data <= appended - 1
      BY <1>1, <1>2 DEF DataInv
    <2>2. entries'[i].data \in Nat /\ entries'[i].data <= entries[i].data
      BY <1>2, EvictOldest
    <2>3. /\ entries[i].data \in 0 .. MaxAppends /\ appended \in 0 .. MaxAppends
      BY <1>1, SlotTypes DEF TypeOK
    <2> QED
      BY <2>1, <2>2, <2>3
  <1> QED
    BY <1>5, <1>6, <1>7, <1>8 DEF IInv

\* A scan position is a slot, and the slot's distance from tail is the position.
LEMMA ScanSlot ==
    ASSUME TypeOK, NEW i \in 0 .. MaxSize - 1
    PROVE  Slot(i) \in Slots /\ Pos(Slot(i)) = i
  <1>1. Slot(i) = IF tail + i < MaxSize THEN tail + i ELSE tail + i - MaxSize
    BY AddSlot DEF TypeOK, Slot
  <1> QED
    BY <1>1, RingAssumption DEF TypeOK, Slots, Pos

\* Rebuilding the ring from the entries that have not expired keeps it well
\* formed and in order.
LEMMA ExpireStep == IInv /\ evictExpired => IInv'
  <1> SUFFICES ASSUME IInv, evictExpired PROVE IInv'
    OBVIOUS
  <1> USE RingAssumption
  <1> DEFINE scan == 0 .. lenLocked - 1
             dead == {i \in scan : entryExpired(entries[Slot(i)])}
             live == scan \ dead
             n == Cardinality(live)
  <1>1. TypeOK /\ RingInv /\ WriterInv /\ DataInv /\ OrderInv
    BY DEF IInv
  <1>2. lenLocked \in 0 .. MaxSize
    BY <1>1, LenBound
  <1>3. n \in 0 .. MaxSize
    <2>1. IsFiniteSet(scan) /\ Cardinality(scan) = lenLocked
      BY <1>2, FS_Interval
    <2>2. Cardinality(live) \in Nat /\ Cardinality(live) <= lenLocked
      BY <2>1, FS_Subset, FS_CardinalityType
    <2> QED
      BY <1>2, <2>2
  <1> HIDE DEF n
  <1>4. /\ tail' = 0 /\ full' = (n = MaxSize) /\ head' = n % MaxSize
        /\ zeroed' = zeroed /\ channelTTLs' = channelTTLs /\ now' = now
        /\ wr' = wr /\ appended' = appended /\ wr.pc = "idle"
    BY DEF evictExpired, n
  <1>5. PICK kept \in InOrder(live) :
          entries' = [j \in Slots |-> IF j < n THEN entries[Slot(kept[j + 1])]
                                               ELSE EmptyEntry]
    BY DEF evictExpired, n
  <1>6. /\ kept \in [1 .. n -> live]
        /\ \A i, j \in 1 .. n : i < j => kept[i] < kept[j]
    BY <1>5 DEF InOrder, n
  <1>7. \A i \in Slots : i < n =>
          /\ kept[i + 1] \in 0 .. MaxSize - 1
          /\ Slot(kept[i + 1]) \in Slots
          /\ Pos(Slot(kept[i + 1])) = kept[i + 1]
          /\ entries'[i] = entries[Slot(kept[i + 1])]
          /\ entries'[i] # EmptyEntry
          /\ entries'[i] \in Entry
    <2> SUFFICES ASSUME NEW i \in Slots, i < n
                 PROVE  /\ kept[i + 1] \in 0 .. MaxSize - 1
                        /\ Slot(kept[i + 1]) \in Slots
                        /\ Pos(Slot(kept[i + 1])) = kept[i + 1]
                        /\ entries'[i] = entries[Slot(kept[i + 1])]
                        /\ entries'[i] # EmptyEntry
                        /\ entries'[i] \in Entry
      OBVIOUS
    <2>1. i + 1 \in 1 .. n
      BY <1>3 DEF Slots
    <2>2. kept[i + 1] \in live
      BY <1>6, <2>1
    <2>3. kept[i + 1] \in 0 .. MaxSize - 1
      BY <1>2, <2>2
    <2>4. ~entryExpired(entries[Slot(kept[i + 1])])
      BY <2>2
    <2>5. entries'[i] = entries[Slot(kept[i + 1])]
      BY <1>5
    <2>6. entries[Slot(kept[i + 1])] # EmptyEntry
      BY <2>4 DEF entryExpired, EmptyEntry
    <2>7. Slot(kept[i + 1]) \in Slots /\ Pos(Slot(kept[i + 1])) = kept[i + 1]
      BY <1>1, <2>3, ScanSlot
    <2> QED
      BY <1>1, <2>3, <2>5, <2>6, <2>7, SlotTypes
  <1>8. \A i \in Slots : ~(i < n) => entries'[i] = EmptyEntry
    BY <1>5
  <1>9. head' = IF n = MaxSize THEN 0 ELSE n
    BY <1>3, <1>4
  <1>10. \A i \in Slots : Occupied(i)' <=> i < n
    <2>1. full' <=> (n = MaxSize)
      BY <1>4
    <2> QED
      BY <1>3, <1>4, <1>9, <2>1 DEF Occupied, Slots
  <1>11. RingInv'
    BY <1>7, <1>8, <1>10 DEF RingInv
  <1>12. OrderInv'
    <2> SUFFICES ASSUME NEW i \in Slots, NEW j \in Slots,
                        Occupied(i)', Occupied(j)', Pos(i)' < Pos(j)'
                 PROVE  entries'[i].data < entries'[j].data
      BY DEF OrderInv
    <2>1. i < n /\ j < n
      BY <1>10
    <2>2. i < j
      BY <1>4 DEF Pos, Slots
    <2>3. kept[i + 1] < kept[j + 1]
      BY <1>3, <1>6, <2>1, <2>2 DEF Slots
    <2>4. Occupied(Slot(kept[i + 1])) /\ Occupied(Slot(kept[j + 1]))
      BY <1>1, <1>7, <2>1 DEF RingInv
    <2> QED
      BY <1>1, <1>7, <2>1, <2>3, <2>4 DEF OrderInv
  <1>13. DataInv'
    <2> SUFFICES ASSUME NEW i \in Slots PROVE entries'[i].data <= appended
      BY <1>4 DEF DataInv
    <2>1. CASE i < n
      BY <1>1, <1>4, <1>7, <2>1 DEF DataInv
    <2>2. CASE ~(i < n)
      BY <1>1, <1>8, <2>2 DEF EmptyEntry, TypeOK
    <2> QED
      BY <2>1, <2>2
  <1>14. WriterInv'
    BY <1>4 DEF WriterInv
  <1>15. TypeOK'
    <2>1. head' \in Slots /\ tail' \in Slots
      BY <1>3, <1>4, <1>9 DEF Slots
    <2>2. entries' \in [Slots -> Entry \cup {EmptyEntry}]
      BY <1>5, <1>7, <1>8
    <2>3. full' \in BOOLEAN
      BY <1>4
    <2> QED
      BY <1>1, <1>4, <2>1, <2>2, <2>3 DEF TypeOK
  <1> QED
    BY <1>11, <1>12, <1>13, <1>14, <1>15 DEF IInv

\* Taking the mutex, changing a TTL and the passage of time leave the ring alone.
LEMMA QuietSteps ==
    ASSUME IInv,
           \/ \E ch \in Channels, sz \in Sizes : AppendLock(ch, sz)
           \/ \E ch \in Channels, ttl \in TTLs : SetChannelTTL(ch, ttl)
           \/ Tick
           \/ UNCHANGED ringVars
    PROVE  IInv'
  <1> USE RingAssumption
  <1>1. TypeOK /\ RingInv /\ WriterInv /\ DataInv /\ OrderInv
    BY DEF IInv
  <1>2. UNCHANGED ring
    BY DEF AppendLock, SetChannelTTL, Tick, ringVars
  <1>3. RingInv' /\ OrderInv'
    BY <1>1, <1>2 DEF ring, RingInv, OrderInv, Occupied, Pos
  <1>4. ASSUME NEW ch \in Channels, NEW sz \in Sizes, AppendLock(ch, sz)
        PROVE  TypeOK' /\ WriterInv' /\ DataInv'
    <2>1. /\ wr' = [pc |-> "bytes", channel |-> ch, data |-> appended + 1, size |-> sz]
          /\ appended' = appended + 1 /\ wr.pc = "idle"
          /\ channelTTLs' = channelTTLs /\ now' = now
          /\ appended' \in Payloads
      BY <1>1, <1>4 DEF AppendLock, TypeOK, Payloads
    <2>2. wr' \in Writer
      BY <2>1 DEF Writer
    <2>3. TypeOK'
      BY <1>1, <1>2, <2>1, <2>2 DEF TypeOK, ring, Payloads
    <2>4. WriterInv'
      BY <2>1 DEF WriterInv
    <2>5. DataInv'
      <3>1. wr'.pc # "idle" /\ entries' = entries /\ appended' - 1 = appended
        BY <1>1, <1>2, <2>1 DEF ring, TypeOK
      <3>2. \A i \in Slots : entries[i].data <= appended
        BY <1>1, <2>1 DEF DataInv
      <3> QED
        BY <3>1, <3>2 DEF DataInv
    <2> QED
      BY <2>3, <2>4, <2>5
  <1>5. ASSUME NEW ch \in Channels, NEW ttl \in TTLs, SetChannelTTL(ch, ttl)
        PROVE  TypeOK' /\ WriterInv' /\ DataInv'
    <2>1. now' = now /\ wr' = wr /\ appended' = appended
      BY <1>5 DEF SetChannelTTL
    <2>2. channelTTLs' \in [Channels -> Nat]
      BY <1>1, <1>5 DEF SetChannelTTL, TypeOK
    <2> QED
      BY <1>1, <1>2, <2>1, <2>2 DEF TypeOK, WriterInv, DataInv, ring
  <1>6. ASSUME Tick PROVE TypeOK' /\ WriterInv' /\ DataInv'
    <2>1. now' \in 1 .. MaxClock
      BY <1>1, <1>6 DEF Tick, TypeOK
    <2> QED
      BY <1>1, <1>2, <1>6, <2>1 DEF Tick, TypeOK, WriterInv, DataInv, ring
  <1>7. ASSUME UNCHANGED ringVars PROVE TypeOK' /\ WriterInv' /\ DataInv'
    BY <1>1, <1>7 DEF ringVars, ring, TypeOK, WriterInv, DataInv
  <1> QED
    BY <1>3, <1>4, <1>5, <1>6, <1>7 DEF IInv

LEMMA NextIInv == IInv /\ [Next]_ringVars => IInv'
  BY StoreStep, EvictSteps, ExpireStep, QuietSteps DEF Next

LEMMA Inductive == Spec => []IInv
  BY InitIInv, NextIInv, PTL DEF Spec

\* The ring's state stays well typed.
THEOREM TypeCorrect == Spec => []TypeOK
  <1>1. IInv => TypeOK
    BY DEF IInv
  <1> QED
    BY <1>1, Inductive, PTL

\* For every size, byte budget and age limit, a slot of the array holds an entry
\* exactly when it lies between tail and head: no entry is stranded outside the
\* scanned interval and none is overwritten, even while full is stale.
THEOREM RingWellFormed == Spec => []RingInv
  <1>1. IInv => RingInv
    BY DEF IInv
  <1> QED
    BY <1>1, Inductive, PTL

\* From tail onwards the entries are in the order they were appended, so the
\* evictions of evictOldestLocked are oldest first (design.md, "FIFO").
THEOREM OldestFirst == Spec => []FIFOInv
  <1>1. IInv => FIFOInv
    <2> SUFFICES ASSUME IInv,
                        NEW i \in 0 .. LiveCount - 1, NEW j \in 0 .. LiveCount - 1,
                        i < j
                 PROVE  entries[Slot(i)].data < entries[Slot(j)].data
      BY DEF FIFOInv
    <2> USE RingAssumption
    <2>1. TypeOK /\ OrderInv
      BY DEF IInv
    <2>2. LiveCount \in 0 .. MaxSize
      BY <2>1 DEF TypeOK, LiveCount, Slots
    <2>3. i \in 0 .. MaxSize - 1 /\ j \in 0 .. MaxSize - 1
      BY <2>2
    <2>4. /\ Slot(i) \in Slots /\ Pos(Slot(i)) = i
          /\ Slot(j) \in Slots /\ Pos(Slot(j)) = j
      BY <2>1, <2>3, ScanSlot
    <2>5. \A s \in Slots : Pos(s) < LiveCount => Occupied(s)
      BY <2>1 DEF TypeOK, LiveCount, Slots, Pos, Occupied
    <2> QED
      BY <2>1, <2>2, <2>4, <2>5 DEF OrderInv
  <1> QED
    BY <1>1, Inductive, PTL

-----------------------------------------------------------------------------
(* Get                                                                     *)

\* Induction over the numbers, from the least element of a set of them.
LEMMA Least ==
    ASSUME NEW T \in SUBSET Nat, T # {}
    PROVE  \E n \in T : \A m \in T : n <= m
  <1> DEFINE R == OpToRel(<, Nat)
  <1>1. \E x \in T : \A y \in T : ~(<<y, x>> \in R)
    BY NatLessThanWellFounded, WFMin
  <1>2. \A x, y \in Nat : <<y, x>> \in R <=> y < x
    BY DEF OpToRel
  <1> HIDE DEF R
  <1>3. PICK n \in T : \A m \in T : ~(<<m, n>> \in R)
    BY <1>1
  <1>4. \A m \in T : ~(m < n)
    BY <1>2, <1>3
  <1> QED
    BY <1>4

LEMMA Induct ==
    ASSUME NEW T \in SUBSET Nat, 0 \in T, \A n \in T : n + 1 \in T
    PROVE  T = Nat
  <1> SUFFICES ASSUME Nat \ T # {} PROVE FALSE
    OBVIOUS
  <1>1. PICK n \in Nat \ T : \A m \in Nat \ T : n <= m
    BY Least
  <1>2. n # 0 /\ n - 1 \in Nat
    OBVIOUS
  <1>3. n - 1 \in T
    BY <1>1, <1>2
  <1> QED
    BY <1>2, <1>3

\* A finite set of scan positions can be listed in order.
LEMMA Listed ==
    ASSUME NEW S \in SUBSET Nat, IsFiniteSet(S)
    PROVE  InOrder(S) # {}
  <1> DEFINE P(U) == \E f \in [1 .. Cardinality(U) -> U] :
                       \A i, j \in 1 .. Cardinality(U) : i < j => f[i] < f[j]
             T == {n \in Nat : \A U \in SUBSET Nat :
                                 IsFiniteSet(U) /\ Cardinality(U) = n => P(U)}
  <1>1. 0 \in T
    <2>1. ASSUME NEW U \in SUBSET Nat, IsFiniteSet(U), Cardinality(U) = 0 PROVE P(U)
      <3> DEFINE f == [i \in 1 .. 0 |-> 0]
      <3>1. f \in [1 .. Cardinality(U) -> U]
        BY <2>1
      <3>2. \A i, j \in 1 .. Cardinality(U) : i < j => f[i] < f[j]
        BY <2>1
      <3> QED
        BY <3>1, <3>2
    <2> QED
      BY <2>1
  <1>2. ASSUME NEW n \in T PROVE n + 1 \in T
    <2>1. ASSUME NEW U \in SUBSET Nat, IsFiniteSet(U), Cardinality(U) = n + 1 PROVE P(U)
      <3>1. U # {}
        BY <2>1, FS_EmptySet
      <3>2. PICK m \in U : \A k \in U : m <= k
        BY <3>1, Least
      <3> DEFINE V == U \ {m}
      <3>3. IsFiniteSet(V) /\ Cardinality(V) = n
        BY <2>1, FS_RemoveElement
      <3>4. P(V)
        BY <3>3
      <3>5. PICK f \in [1 .. n -> V] : \A i, j \in 1 .. n : i < j => f[i] < f[j]
        BY <3>3, <3>4
      <3> DEFINE g == [i \in 1 .. n + 1 |-> IF i = 1 THEN m ELSE f[i - 1]]
      <3>6. g \in [1 .. n + 1 -> U]
        BY <3>5
      <3>7. ASSUME NEW i \in 1 .. n + 1, NEW j \in 1 .. n + 1, i < j
            PROVE  g[i] < g[j]
        <4>1. j - 1 \in 1 .. n /\ g[j] = f[j - 1] /\ f[j - 1] \in V
          BY <3>5, <3>7
        <4>2. CASE i = 1
          <5>1. m \in Nat /\ f[j - 1] \in Nat /\ f[j - 1] # m /\ m <= f[j - 1] /\ g[i] = m
            BY <3>2, <4>1, <4>2
          <5> QED
            BY <4>1, <5>1
        <4>3. CASE i # 1
          BY <3>5, <3>7, <4>1, <4>3
        <4> QED
          BY <4>2, <4>3
      <3> HIDE DEF g
      <3> QED
        BY <2>1, <3>6, <3>7
    <2> QED
      BY <2>1
  <1> HIDE DEF T
  <1>3. T = Nat
    BY <1>1, <1>2, Induct DEF T
  <1>4. Cardinality(S) \in Nat
    BY FS_CardinalityType
  <1>5. P(S)
    BY <1>3, <1>4 DEF T
  <1> QED
    BY <1>5 DEF InOrder

\* Such a list leaves nothing out.
LEMMA ListsAll ==
    ASSUME NEW S \in SUBSET Nat, IsFiniteSet(S), NEW f \in InOrder(S), NEW k \in S
    PROVE  \E i \in 1 .. Cardinality(S) : f[i] = k
  <1> DEFINE n == Cardinality(S)
  <1>1. n \in Nat
    BY FS_CardinalityType
  <1>2. f \in [1 .. n -> S] /\ \A i, j \in 1 .. n : i < j => f[i] < f[j]
    BY DEF InOrder, n
  <1> HIDE DEF n
  <1>3. \A i \in 1 .. n : f[i] \in Nat
    BY <1>2
  <1>4. \A i, j \in 1 .. n : f[i] = f[j] => i = j
    <2> SUFFICES ASSUME NEW i \in 1 .. n, NEW j \in 1 .. n, f[i] = f[j], i # j
                 PROVE  FALSE
      OBVIOUS
    <2>1. i < j \/ j < i
      BY <1>1
    <2> QED
      BY <1>2, <1>3, <2>1
  <1>5. f \in Injection(1 .. n, S)
    BY <1>2, <1>4 DEF Injection, IsInjective
  <1>6. Cardinality(1 .. n) = n
    BY <1>1, FS_Interval
  <1>7. f \in Surjection(1 .. n, S)
    BY <1>5, <1>6, FS_Injection DEF n
  <1> QED
    BY <1>7 DEF Surjection, n

\* The scan positions that match are those of the entries Get promises, and
\* along the scan the payloads increase.
LEMMA Scanned ==
    ASSUME IInv, NEW ch, NEW since, NEW M, M = Matching(ch, since)
    PROVE  /\ M \in SUBSET Nat /\ IsFiniteSet(M) /\ Cardinality(M) \in Nat
           /\ \A k \in M : /\ entries[Slot(k)].data \in Nat
                           /\ entries[Slot(k)] \in Wanted(ch, since)
           /\ \A e \in Wanted(ch, since) : \E k \in M : entries[Slot(k)] = e
           /\ \A k, l \in M : k < l => entries[Slot(k)].data < entries[Slot(l)].data
  <1> USE RingAssumption
  <1>1. TypeOK /\ RingInv /\ OrderInv /\ lenLocked \in 0 .. MaxSize
    BY LenBound DEF IInv
  <1>2. M \subseteq 0 .. lenLocked - 1
    BY DEF Matching
  <1>3. M \in SUBSET Nat /\ IsFiniteSet(M) /\ Cardinality(M) \in Nat
    <2>1. IsFiniteSet(0 .. lenLocked - 1)
      BY <1>1, FS_Interval
    <2> QED
      BY <1>1, <1>2, <2>1, FS_Subset, FS_CardinalityType
  <1>4. ASSUME NEW k \in M
        PROVE  /\ k \in 0 .. MaxSize - 1 /\ Slot(k) \in Slots /\ Pos(Slot(k)) = k
               /\ Occupied(Slot(k)) /\ entries[Slot(k)].data \in Nat
               /\ entries[Slot(k)] \in Wanted(ch, since)
    <2>1. k \in 0 .. MaxSize - 1
      BY <1>1, <1>2
    <2>2. Slot(k) \in Slots /\ Pos(Slot(k)) = k
      BY <1>1, <2>1, ScanSlot
    <2>3. /\ entries[Slot(k)].channel = ch /\ entries[Slot(k)].timestamp > since
          /\ ~entryExpired(entries[Slot(k)])
      BY DEF Matching
    <2>4. entries[Slot(k)].timestamp # 0
      BY <2>3 DEF entryExpired
    <2>5. entries[Slot(k)] # EmptyEntry
      BY <2>4 DEF EmptyEntry
    <2>6. Occupied(Slot(k))
      BY <1>1, <2>2, <2>5 DEF RingInv
    <2>7. entries[Slot(k)].data \in Nat
      BY <1>1, <2>2, SlotTypes
    <2>8. entries[Slot(k)] \in Wanted(ch, since)
      BY <2>2, <2>3 DEF Wanted
    <2> QED
      BY <2>1, <2>2, <2>6, <2>7, <2>8
  <1>5. ASSUME NEW e \in Wanted(ch, since) PROVE \E k \in M : entries[Slot(k)] = e
    <2>1. PICK i \in Slots : /\ entries[i] = e /\ e.channel = ch /\ e.timestamp > since
                             /\ ~entryExpired(e)
      BY <1>5 DEF Wanted
    <2>2. e.timestamp # 0
      BY <2>1 DEF entryExpired
    <2>3. entries[i] # EmptyEntry
      BY <2>1, <2>2 DEF EmptyEntry
    <2>4. Occupied(i)
      BY <1>1, <2>3 DEF RingInv
    <2>5. /\ MaxSize \in Nat \ {0} /\ head \in 0 .. MaxSize - 1 /\ tail \in 0 .. MaxSize - 1
          /\ i \in 0 .. MaxSize - 1
      BY <1>1 DEF TypeOK, Slots
    <2>6. Pos(i) \in 0 .. MaxSize - 1 /\ Pos(i) \in 0 .. lenLocked - 1
      BY <2>4, <2>5 DEF Pos, Occupied, lenLocked
    <2>7. Slot(Pos(i)) = i
      <3>1. Slot(Pos(i)) = IF tail + Pos(i) < MaxSize THEN tail + Pos(i)
                           ELSE tail + Pos(i) - MaxSize
        BY <1>1, <2>6, AddSlot DEF TypeOK, Slot
      <3> QED
        BY <2>5, <3>1 DEF Pos
    <2>8. Pos(i) \in M
      BY <2>1, <2>6, <2>7 DEF Matching
    <2> QED
      BY <2>1, <2>7, <2>8
  <1>6. ASSUME NEW k \in M, NEW l \in M, k < l
        PROVE  entries[Slot(k)].data < entries[Slot(l)].data
    BY <1>1, <1>4, <1>6 DEF OrderInv
  <1> QED
    BY <1>3, <1>4, <1>5, <1>6

\* Whatever the rotation of the array, the stale flag and the expired entries
\* in between, Get returns the oldest matches, each once and in order, as many
\* as the limit lets through.
THEOREM GetCorrect == Spec => []GetInv
  <1>1. IInv => GetInv
    <2> SUFFICES ASSUME IInv, NEW ch \in Channels, NEW since \in 0 .. now,
                        NEW limit \in 0 .. MaxSize
                 PROVE  LET got == Get(ch, since, limit)
                            want == {e.data : e \in Wanted(ch, since)}
                        IN  /\ \A i, j \in DOMAIN got : i < j => got[i] < got[j]
                            /\ {got[i] : i \in DOMAIN got} \subseteq want
                            /\ Len(got) = IF limit > 0 /\ limit < Cardinality(want)
                                          THEN limit ELSE Cardinality(want)
                            /\ \A d \in want :
                                 d \in {got[i] : i \in DOMAIN got}
                                   \/ \A i \in DOMAIN got : got[i] < d
      BY DEF GetInv
    <2> DEFINE M == Matching(ch, since)
               D(k) == entries[Slot(k)].data
               want == {e.data : e \in Wanted(ch, since)}
               got == Get(ch, since, limit)
               found == CHOOSE f \in InOrder(M) : TRUE
               n == IF limit > 0 /\ limit < Len(found) THEN limit ELSE Len(found)
    <2>1. /\ M \in SUBSET Nat /\ IsFiniteSet(M) /\ Cardinality(M) \in Nat
          /\ \A k \in M : D(k) \in Nat /\ entries[Slot(k)] \in Wanted(ch, since)
          /\ \A e \in Wanted(ch, since) : \E k \in M : entries[Slot(k)] = e
          /\ \A k, l \in M : k < l => D(k) < D(l)
      BY Scanned
    <2>2. got = [i \in 1 .. n |-> D(found[i])]
      BY DEF Get
    <2> HIDE DEF M, got
    <2>3. found \in InOrder(M)
      BY <2>1, Listed, Zenon
    <2> HIDE DEF found
    <2>4. /\ found \in [1 .. Cardinality(M) -> M]
          /\ \A i, j \in 1 .. Cardinality(M) : i < j => found[i] < found[j]
      BY <2>3 DEF InOrder
    <2>5. Len(found) = Cardinality(M)
      BY <2>1, <2>4
    <2>6. /\ n \in 0 .. Cardinality(M)
          /\ n = IF limit > 0 /\ limit < Cardinality(M) THEN limit ELSE Cardinality(M)
      BY <2>1, <2>5, RingAssumption
    <2> HIDE DEF n
    <2>7. \A k \in M : D(k) \in want
      BY <2>1
    <2>8. \A d \in want : \E k \in M : D(k) = d
      BY <2>1
    <2> HIDE DEF want, D
    <2>9. Cardinality(want) = Cardinality(M)
      <3> DEFINE f == [k \in M |-> D(k)]
      <3>1. f \in [M -> want]
        BY <2>7
      <3>2. \A k, l \in M : f[k] = f[l] => k = l
        <4> SUFFICES ASSUME NEW k \in M, NEW l \in M, D(k) = D(l), k # l PROVE FALSE
          OBVIOUS
        <4>1. k < l \/ l < k
          BY <2>1
        <4> QED
          BY <2>1, <4>1
      <3>3. \A d \in want : \E k \in M : f[k] = d
        BY <2>8
      <3> HIDE DEF f
      <3>4. f \in Injection(M, want) /\ f \in Surjection(M, want)
        BY <3>1, <3>2, <3>3 DEF Injection, IsInjective, Surjection
      <3> QED
        BY <2>1, <3>4, FS_Surjection
    <2>10. /\ DOMAIN got = 1 .. n /\ Len(got) = n
           /\ \A i \in 1 .. n : got[i] = D(found[i]) /\ found[i] \in M
      <3>1. \A i \in 1 .. n : i \in 1 .. Cardinality(M)
        BY <2>1, <2>6
      <3>2. DOMAIN got = 1 .. n /\ \A i \in 1 .. n : got[i] = D(found[i]) /\ found[i] \in M
        BY <2>2, <2>4, <3>1
      <3>3. Len(got) = n
        BY <2>2, <2>6
      <3> QED
        BY <3>2, <3>3
    <2>11. ASSUME NEW i \in 1 .. n, NEW j \in 1 .. n, i < j PROVE got[i] < got[j]
      <3>1. found[i] < found[j]
        BY <2>1, <2>4, <2>6, <2>11
      <3> QED
        BY <2>1, <2>10, <3>1
    <2>12. ASSUME NEW d \in want
           PROVE  d \in {got[i] : i \in DOMAIN got} \/ \A i \in DOMAIN got : got[i] < d
      <3>1. PICK k \in M : D(k) = d
        BY <2>8
      <3>2. PICK j \in 1 .. Cardinality(M) : found[j] = k
        BY <2>1, <2>3, ListsAll
      <3>3. CASE j <= n
        <4>1. j \in 1 .. n
          BY <2>6, <3>3
        <4> QED
          BY <2>10, <3>1, <3>2, <4>1
      <3>4. CASE ~(j <= n)
        <4> SUFFICES ASSUME NEW i \in 1 .. n PROVE got[i] < d
          BY <2>10
        <4>1. i \in 1 .. Cardinality(M) /\ i < j
          BY <2>1, <2>6, <3>4
        <4>2. found[i] < k
          BY <2>4, <3>2, <4>1
        <4> QED
          BY <2>1, <2>10, <3>1, <4>2
      <3> QED
        BY <3>3, <3>4
    <2>13. {got[i] : i \in DOMAIN got} \subseteq want
      BY <2>7, <2>10
    <2>14. \A i, j \in DOMAIN got : i < j => got[i] < got[j]
      BY <2>10, <2>11
    <2>15. Len(got) = IF limit > 0 /\ limit < Cardinality(want) THEN limit ELSE Cardinality(want)
      BY <2>6, <2>9, <2>10
    <2> QED
      BY <2>12, <2>13, <2>14, <2>15 DEF got, want
  <1> QED
    BY <1>1, Inductive, PTL

-----------------------------------------------------------------------------
(* The byte count                                                          *)

Weights == [0 .. MaxSize - 1 -> Nat]

\* a holds the partial sums of the first n weights.
Adds(a, w, n) == /\ a \in [0 .. n -> Nat] /\ a[0] = 0
                 /\ \A i \in 1 .. n : a[i] = a[i - 1] + w[i - 1]

LEMMA AddsExist ==
    ASSUME NEW w \in Weights
    PROVE  \E a : Adds(a, w, MaxSize)
  <1> USE RingAssumption
  <1> DEFINE T == {n \in Nat : n <= MaxSize => \E a : Adds(a, w, n)}
  <1>1. 0 \in T
    <2> DEFINE a == [i \in 0 .. 0 |-> 0]
    <2>1. Adds(a, w, 0)
      BY DEF Adds
    <2> QED
      BY <2>1
  <1>2. ASSUME NEW n \in T PROVE n + 1 \in T
    <2> SUFFICES ASSUME n + 1 <= MaxSize PROVE \E a : Adds(a, w, n + 1)
      OBVIOUS
    <2>1. PICK a : Adds(a, w, n)
      BY <1>2
    <2>2. w[n] \in Nat /\ a \in [0 .. n -> Nat] /\ a[n] \in Nat
      BY <2>1 DEF Weights, Adds
    <2> DEFINE b == [i \in 0 .. n + 1 |-> IF i = n + 1 THEN a[n] + w[n] ELSE a[i]]
    <2>3. b \in [0 .. n + 1 -> Nat] /\ b[0] = 0
      BY <2>1, <2>2 DEF Adds
    <2>4. ASSUME NEW i \in 1 .. n + 1 PROVE b[i] = b[i - 1] + w[i - 1]
      <3>1. CASE i = n + 1
        BY <3>1
      <3>2. CASE i \in 1 .. n
        <4>1. a[i] = a[i - 1] + w[i - 1]
          BY <2>1, <3>2 DEF Adds
        <4> QED
          BY <3>2, <4>1
      <3> QED
        BY <3>1, <3>2
    <2> HIDE DEF b
    <2> QED
      BY <2>3, <2>4 DEF Adds
  <1> HIDE DEF T
  <1>3. T = Nat
    BY <1>1, <1>2, Induct DEF T
  <1> QED
    BY <1>3 DEF T

LEMMA TotalIs ==
    ASSUME NEW w \in Weights
    PROVE  \E a : Adds(a, w, MaxSize) /\ Total(w) = a[MaxSize]
  <1> USE RingAssumption
  <1> DEFINE H(f) == [k \in 0 .. MaxSize |-> IF k = 0 THEN 0 ELSE f[k - 1] + w[k - 1]]
             g == CHOOSE f : f = H(f)
  <1>1. PICK f : Adds(f, w, MaxSize)
    BY AddsExist
  <1>2. \A h : DOMAIN H(h) = 0 .. MaxSize /\ H(h)[0] = 0
    OBVIOUS
  <1>3. \A h : \A i \in 1 .. MaxSize : H(h)[i] = h[i - 1] + w[i - 1]
    OBVIOUS
  <1>4. H(f) = [i \in 0 .. MaxSize |-> H(f)[i]]
    OBVIOUS
  <1>5. Total(w) = g[MaxSize]
    BY Zenon DEF Total
  <1>6. (\E h : h = H(h)) => g = H(g)
    BY Zenon
  <1> HIDE DEF g, H
  <1>7. ASSUME NEW i \in 0 .. MaxSize PROVE H(f)[i] = f[i]
    <2>1. i = 0 \/ i \in 1 .. MaxSize
      OBVIOUS
    <2> QED
      BY <1>1, <1>2, <1>3, <2>1 DEF Adds
  <1>8. f = [i \in 0 .. MaxSize |-> f[i]]
    BY <1>1 DEF Adds
  <1>9. f = H(f)
    BY <1>4, <1>7, <1>8
  <1>10. g = H(g)
    BY <1>6, <1>9
  <1>11. g[0] = 0 /\ \A i \in 1 .. MaxSize : g[i] = g[i - 1] + w[i - 1]
    BY <1>2, <1>3, <1>10
  <1> DEFINE T == {n \in Nat : n <= MaxSize => g[n] = f[n]}
  <1>12. 0 \in T
    BY <1>1, <1>11 DEF Adds
  <1>13. ASSUME NEW n \in T PROVE n + 1 \in T
    <2> SUFFICES ASSUME n + 1 <= MaxSize PROVE g[n + 1] = f[n + 1]
      OBVIOUS
    <2>1. n + 1 \in 1 .. MaxSize /\ (n + 1) - 1 = n /\ g[n] = f[n]
      OBVIOUS
    <2> QED
      BY <1>1, <1>11, <2>1 DEF Adds
  <1> HIDE DEF T
  <1>14. T = Nat
    BY <1>12, <1>13, Induct DEF T
  <1>15. g[MaxSize] = f[MaxSize]
    BY <1>14 DEF T
  <1> QED
    BY <1>1, <1>5, <1>15

LEMMA TotalNat == ASSUME NEW w \in Weights PROVE Total(w) \in Nat
  <1>1. PICK a : Adds(a, w, MaxSize) /\ Total(w) = a[MaxSize]
    BY TotalIs
  <1> QED
    BY <1>1, RingAssumption DEF Adds

\* Sums of sums.
LEMMA TotalSplit ==
    ASSUME NEW u \in Weights, NEW v \in Weights, NEW w \in Weights,
           \A k \in 0 .. MaxSize - 1 : w[k] = u[k] + v[k]
    PROVE  Total(w) = Total(u) + Total(v)
  <1> USE RingAssumption
  <1>1. PICK a : Adds(a, u, MaxSize) /\ Total(u) = a[MaxSize]
    BY TotalIs
  <1>2. PICK b : Adds(b, v, MaxSize) /\ Total(v) = b[MaxSize]
    BY TotalIs
  <1>3. PICK c : Adds(c, w, MaxSize) /\ Total(w) = c[MaxSize]
    BY TotalIs
  <1> DEFINE T == {n \in Nat : n <= MaxSize => c[n] = a[n] + b[n]}
  <1>4. 0 \in T
    BY <1>1, <1>2, <1>3 DEF Adds
  <1>5. ASSUME NEW n \in T PROVE n + 1 \in T
    <2> SUFFICES ASSUME n + 1 <= MaxSize PROVE c[n + 1] = a[n + 1] + b[n + 1]
      OBVIOUS
    <2>1. /\ n + 1 \in 1 .. MaxSize /\ (n + 1) - 1 = n /\ c[n] = a[n] + b[n]
          /\ n \in 0 .. MaxSize - 1 /\ n \in 0 .. MaxSize
      OBVIOUS
    <2>2. c[n + 1] = c[n] + w[n] /\ a[n + 1] = a[n] + u[n] /\ b[n + 1] = b[n] + v[n]
      BY <1>1, <1>2, <1>3, <2>1 DEF Adds
    <2>3. a[n] \in Nat /\ b[n] \in Nat /\ u[n] \in Nat /\ v[n] \in Nat /\ w[n] = u[n] + v[n]
      BY <1>1, <1>2, <2>1 DEF Adds, Weights
    <2> QED
      BY <2>1, <2>2, <2>3
  <1> HIDE DEF T
  <1>6. T = Nat
    BY <1>4, <1>5, Induct DEF T
  <1>7. c[MaxSize] = a[MaxSize] + b[MaxSize]
    BY <1>6 DEF T
  <1> QED
    BY <1>1, <1>2, <1>3, <1>7

\* One weight alone.
LEMMA TotalOne ==
    ASSUME NEW w \in Weights, NEW j \in 0 .. MaxSize - 1,
           \A k \in 0 .. MaxSize - 1 : k # j => w[k] = 0
    PROVE  Total(w) = w[j]
  <1> USE RingAssumption
  <1>1. PICK a : Adds(a, w, MaxSize) /\ Total(w) = a[MaxSize]
    BY TotalIs
  <1>2. w[j] \in Nat
    BY DEF Weights
  <1> DEFINE T == {n \in Nat : n <= MaxSize => a[n] = IF n <= j THEN 0 ELSE w[j]}
  <1>3. 0 \in T
    BY <1>1 DEF Adds
  <1>4. ASSUME NEW n \in T PROVE n + 1 \in T
    <2> SUFFICES ASSUME n + 1 <= MaxSize PROVE a[n + 1] = IF n + 1 <= j THEN 0 ELSE w[j]
      OBVIOUS
    <2>1. /\ n + 1 \in 1 .. MaxSize /\ (n + 1) - 1 = n /\ n \in 0 .. MaxSize - 1
          /\ a[n] = IF n <= j THEN 0 ELSE w[j]
      OBVIOUS
    <2>2. a[n + 1] = a[n] + w[n]
      BY <1>1, <2>1 DEF Adds
    <2>3. CASE n = j
      BY <1>2, <2>1, <2>2, <2>3
    <2>4. CASE n # j
      <3>1. w[n] = 0
        BY <2>1, <2>4
      <3> QED
        BY <1>2, <2>1, <2>2, <2>4, <3>1
    <2> QED
      BY <2>3, <2>4
  <1> HIDE DEF T
  <1>5. T = Nat
    BY <1>3, <1>4, Induct DEF T
  <1>6. a[MaxSize] = w[j]
    BY <1>5 DEF T
  <1> QED
    BY <1>1, <1>6

\* The weights move one position down.
LEMMA TotalShift ==
    ASSUME NEW w \in Weights, NEW v \in Weights, v[MaxSize - 1] = 0,
           \A k \in 0 .. MaxSize - 2 : v[k] = w[k + 1]
    PROVE  Total(w) = w[0] + Total(v)
  <1> USE RingAssumption
  <1>1. PICK a : Adds(a, w, MaxSize) /\ Total(w) = a[MaxSize]
    BY TotalIs
  <1>2. PICK b : Adds(b, v, MaxSize) /\ Total(v) = b[MaxSize]
    BY TotalIs
  <1>3. w[0] \in Nat
    BY DEF Weights
  <1> DEFINE T == {n \in Nat : n <= MaxSize - 1 => a[n + 1] = w[0] + b[n]}
  <1>4. 0 \in T
    <2>1. a[1] = a[0] + w[0] /\ a[0] = 0 /\ b[0] = 0
      BY <1>1, <1>2 DEF Adds
    <2> QED
      BY <1>3, <2>1
  <1>5. ASSUME NEW n \in T PROVE n + 1 \in T
    <2> SUFFICES ASSUME n + 1 <= MaxSize - 1 PROVE a[n + 2] = w[0] + b[n + 1]
      OBVIOUS
    <2>1. /\ n + 1 \in 1 .. MaxSize /\ (n + 1) - 1 = n /\ n + 2 \in 1 .. MaxSize
          /\ (n + 2) - 1 = n + 1 /\ n \in 0 .. MaxSize - 2 /\ n \in 0 .. MaxSize
          /\ n + 1 \in 0 .. MaxSize - 1 /\ a[n + 1] = w[0] + b[n]
      OBVIOUS
    <2>2. a[n + 2] = a[n + 1] + w[n + 1] /\ b[n + 1] = b[n] + v[n] /\ v[n] = w[n + 1]
      BY <1>1, <1>2, <2>1 DEF Adds
    <2>3. b[n] \in Nat /\ w[n + 1] \in Nat
      BY <1>2, <2>1 DEF Adds, Weights
    <2> QED
      BY <1>3, <2>1, <2>2, <2>3
  <1> HIDE DEF T
  <1>6. T = Nat
    BY <1>4, <1>5, Induct DEF T
  <1>7. a[MaxSize] = w[0] + b[MaxSize - 1]
    <2>1. MaxSize - 1 \in T
      BY <1>6
    <2> QED
      BY <2>1 DEF T
  <1>8. b[MaxSize] = b[MaxSize - 1]
    <2>1. /\ MaxSize \in 1 .. MaxSize /\ b[MaxSize - 1] \in Nat
      BY <1>2 DEF Adds
    <2>2. b[MaxSize] = b[MaxSize - 1] + v[MaxSize - 1]
      BY <1>2, <2>1 DEF Adds
    <2> QED
      BY <2>1, <2>2
  <1> QED
    BY <1>1, <1>2, <1>7, <1>8

\* The weights that are not zero move together.
LEMMA TotalKept ==
    ASSUME NEW n \in 0 .. MaxSize, NEW kept \in [1 .. n -> 0 .. MaxSize - 1],
           \A i, j \in 1 .. n : i < j => kept[i] < kept[j],
           NEW w \in Weights, NEW v \in Weights,
           \A k \in 0 .. MaxSize - 1 : (\A i \in 1 .. n : kept[i] # k) => w[k] = 0,
           \A j \in 1 .. n : v[j - 1] = w[kept[j]],
           \A j \in 0 .. MaxSize - 1 : j >= n => v[j] = 0
    PROVE  Total(v) = Total(w)
  <1> USE RingAssumption
  <1>1. PICK a : Adds(a, w, MaxSize) /\ Total(w) = a[MaxSize]
    BY TotalIs
  <1>2. PICK b : Adds(b, v, MaxSize) /\ Total(v) = b[MaxSize]
    BY TotalIs
  <1> DEFINE At(k, j) == /\ \A i \in 1 .. n : i <= j <=> kept[i] < k
                         /\ a[k] = b[j]
             T == {k \in Nat : k <= MaxSize => \E j \in 0 .. n : At(k, j)}
  <1>3. 0 \in T
    <2>1. At(0, 0)
      BY <1>1, <1>2 DEF Adds
    <2> QED
      BY <2>1
  <1>4. ASSUME NEW k \in T PROVE k + 1 \in T
    <2> SUFFICES ASSUME k + 1 <= MaxSize PROVE \E j \in 0 .. n : At(k + 1, j)
      OBVIOUS
    <2>1. PICK j \in 0 .. n : At(k, j)
      OBVIOUS
    <2>2. k + 1 \in 1 .. MaxSize /\ (k + 1) - 1 = k /\ k \in 0 .. MaxSize - 1 /\ k \in 0 .. MaxSize
      OBVIOUS
    <2>3. a[k + 1] = a[k] + w[k] /\ a[k] \in Nat /\ w[k] \in Nat
      BY <1>1, <2>2 DEF Adds, Weights
    <2>4. CASE \E i \in 1 .. n : kept[i] = k
      <3>1. PICK i \in 1 .. n : kept[i] = k
        BY <2>4
      <3>2. i > j
        BY <2>1, <3>1
      <3>3. i = j + 1
        <4>1. j + 1 \in 1 .. n /\ ~(kept[j + 1] < k)
          BY <2>1, <3>2
        <4>2. ~(j + 1 < i)
          BY <3>1, <4>1
        <4> QED
          BY <3>2, <4>2
      <3>4. \A l \in 1 .. n : l <= j + 1 <=> kept[l] < k + 1
        <4> SUFFICES ASSUME NEW l \in 1 .. n PROVE l <= j + 1 <=> kept[l] < k + 1
          OBVIOUS
        <4>1. l < i => kept[l] < k
          BY <3>1
        <4>2. l > i => k < kept[l]
          BY <3>1
        <4>3. l = i => kept[l] = k
          BY <3>1
        <4>4. kept[l] \in 0 .. MaxSize - 1
          OBVIOUS
        <4> QED
          BY <2>2, <3>3, <4>1, <4>2, <4>3, <4>4
      <3>5. b[j + 1] = b[j] + v[j] /\ v[j] = w[k]
        <4>1. j + 1 \in 1 .. MaxSize /\ (j + 1) - 1 = j /\ j + 1 \in 1 .. n
          BY <3>3
        <4> QED
          BY <1>2, <3>1, <3>3, <4>1 DEF Adds
      <3>6. At(k + 1, j + 1) /\ j + 1 \in 0 .. n
        BY <2>1, <2>3, <3>3, <3>4, <3>5
      <3> QED
        BY <3>6
    <2>5. CASE ~\E i \in 1 .. n : kept[i] = k
      <3>1. w[k] = 0
        BY <2>2, <2>5
      <3>2. \A l \in 1 .. n : kept[l] < k <=> kept[l] < k + 1
        <4> SUFFICES ASSUME NEW l \in 1 .. n PROVE kept[l] < k <=> kept[l] < k + 1
          OBVIOUS
        <4>1. kept[l] \in 0 .. MaxSize - 1 /\ kept[l] # k
          BY <2>5
        <4> QED
          BY <2>2, <4>1
      <3>3. At(k + 1, j)
        BY <2>1, <2>3, <3>1, <3>2
      <3> QED
        BY <3>3
    <2> QED
      BY <2>4, <2>5
  <1> HIDE DEF T
  <1>5. T = Nat
    BY <1>3, <1>4, Induct DEF T
  <1>6. MaxSize \in T /\ MaxSize <= MaxSize
    BY <1>5
  <1>7. \E j \in 0 .. n : At(MaxSize, j)
    BY ONLY <1>6 DEF T
  <1>8. PICK j \in 0 .. n : At(MaxSize, j)
    BY <1>7
  <1>9. j = n
    <2>1. n \in 1 .. n => n <= j
      BY <1>8
    <2> QED
      BY <2>1
  <1>10. a[MaxSize] = b[n]
    BY <1>8, <1>9
  <1> DEFINE U == {m \in Nat : n + m <= MaxSize => b[n + m] = b[n]}
  <1>11. 0 \in U
    OBVIOUS
  <1>12. ASSUME NEW m \in U PROVE m + 1 \in U
    <2> SUFFICES ASSUME n + (m + 1) <= MaxSize PROVE b[n + (m + 1)] = b[n]
      OBVIOUS
    <2>1. /\ n + (m + 1) \in 1 .. MaxSize /\ (n + (m + 1)) - 1 = n + m
          /\ n + m \in 0 .. MaxSize - 1 /\ n + m >= n /\ n \in 0 .. MaxSize
          /\ b[n + m] = b[n]
      OBVIOUS
    <2>2. b[n + (m + 1)] = b[n + m] + v[n + m] /\ v[n + m] = 0 /\ b[n] \in Nat
      BY <1>2, <2>1 DEF Adds
    <2> QED
      BY <2>1, <2>2
  <1>13. b[MaxSize] = b[n]
    <2> HIDE DEF U
    <2>1. U = Nat
      BY <1>11, <1>12, Induct DEF U
    <2>2. MaxSize - n \in U /\ n + (MaxSize - n) = MaxSize
      BY <2>1
    <2> QED
      BY <2>2 DEF U
  <1> QED
    BY <1>1, <1>2, <1>10, <1>13

-----------------------------------------------------------------------------
LEMMA AddRange ==
    ASSUME NEW t \in Slots, NEW k \in 0 .. MaxSize - 1
    PROVE  (IF t + k < MaxSize THEN t + k ELSE t + k - MaxSize) \in Slots
  BY RingAssumption DEF Slots

LEMMA CountRange ==
    ASSUME NEW t \in Slots, NEW h \in Slots, NEW c \in {0, MaxSize}
    PROVE  (IF t < h THEN h - t ELSE IF h < t THEN MaxSize - t + h ELSE c) \in 0 .. MaxSize
  BY RingAssumption DEF Slots

\* The sizes of the entries in the ring, by scan position.
Held == [k \in 0 .. MaxSize - 1 |-> IF k < LiveCount THEN entries[Slot(k)].size ELSE 0]

LEMMA HeldNow ==
    ASSUME TypeOK
    PROVE  /\ LiveCount \in 0 .. MaxSize
           /\ \A i \in Slots : entries[i].size \in Nat
           /\ \A k \in 0 .. MaxSize - 1 :
                Slot(k) = IF tail + k < MaxSize THEN tail + k ELSE tail + k - MaxSize
           /\ \A k \in 0 .. MaxSize - 1 : Slot(k) \in Slots
           /\ Held \in Weights
           /\ SizeAt(0 .. LiveCount - 1) = Total(Held)
  <1> USE RingAssumption
  <1>1. LiveCount \in 0 .. MaxSize
    BY DEF TypeOK, LiveCount, Slots
  <1>2. ASSUME NEW i \in Slots PROVE entries[i].size \in Nat
    <2>1. entries[i] \in Entry \/ entries[i] = EmptyEntry
      BY DEF TypeOK
    <2>2. CASE entries[i] \in Entry
      BY <2>2 DEF Entry
    <2>3. CASE entries[i] = EmptyEntry
      BY <2>3 DEF EmptyEntry
    <2> QED
      BY <2>1, <2>2, <2>3
  <1>3. ASSUME NEW k \in 0 .. MaxSize - 1
        PROVE  Slot(k) = IF tail + k < MaxSize THEN tail + k ELSE tail + k - MaxSize
    BY AddSlot DEF TypeOK, Slot
  <1>4. ASSUME NEW k \in 0 .. MaxSize - 1 PROVE Slot(k) \in Slots
    BY <1>3 DEF TypeOK, Slots
  <1>5. Held \in Weights
    BY <1>2, <1>4 DEF Held, Weights
  <1>6. Held = [k \in 0 .. MaxSize - 1 |->
                  IF k \in 0 .. LiveCount - 1 THEN entries[Slot(k)].size ELSE 0]
    BY <1>1 DEF Held
  <1> QED
    BY <1>1, <1>2, <1>3, <1>4, <1>5, <1>6 DEF SizeAt

LEMMA HeldNext ==
    ASSUME TypeOK'
    PROVE  /\ LiveCount' \in 0 .. MaxSize
           /\ \A k \in 0 .. MaxSize - 1 :
                Slot(k)' = IF tail' + k < MaxSize THEN tail' + k ELSE tail' + k - MaxSize
           /\ \A k \in 0 .. MaxSize - 1 : Slot(k)' \in Slots
           /\ Held' \in Weights
           /\ SizeAt(0 .. LiveCount - 1)' = Total(Held')
  <1> USE RingAssumption
  <1>1. /\ head' \in Slots /\ tail' \in Slots
        /\ entries' \in [Slots -> Entry \cup {EmptyEntry}]
    BY DEF TypeOK
  <1>2. LiveCount' \in 0 .. MaxSize
    <2>1. (IF full' THEN MaxSize ELSE 0) \in {0, MaxSize}
      BY Zenon
    <2> QED
      BY <1>1, <2>1, CountRange, Zenon DEF LiveCount
  <1>3. ASSUME NEW i \in Slots PROVE entries'[i].size \in Nat
    <2>1. entries'[i] \in Entry \/ entries'[i] = EmptyEntry
      BY <1>1
    <2>2. CASE entries'[i] \in Entry
      BY <2>2 DEF Entry
    <2>3. CASE entries'[i] = EmptyEntry
      BY <2>3 DEF EmptyEntry
    <2> QED
      BY <2>1, <2>2, <2>3
  <1>4. ASSUME NEW k \in 0 .. MaxSize - 1
        PROVE  Slot(k)' = IF tail' + k < MaxSize THEN tail' + k ELSE tail' + k - MaxSize
    BY <1>1, AddSlot DEF Slot
  <1>5. ASSUME NEW k \in 0 .. MaxSize - 1 PROVE Slot(k)' \in Slots
    BY <1>1, <1>4, AddRange, Zenon
  <1>6. Held' \in Weights
    BY <1>3, <1>5 DEF Held, Weights
  <1>7. \A n \in 0 .. MaxSize : \A k \in 0 .. MaxSize - 1 : k < n <=> k \in 0 .. n - 1
    OBVIOUS
  <1>8. Held' = [k \in 0 .. MaxSize - 1 |->
                  IF k \in 0 .. LiveCount' - 1 THEN entries'[Slot(k)'].size ELSE 0]
    BY <1>2, <1>7 DEF Held
  <1> QED
    BY <1>2, <1>4, <1>5, <1>6, <1>8 DEF SizeAt

\* evictOldestLocked gives back exactly what its entry weighed.
LEMMA EvictBytes ==
    ASSUME IInv, evictOldestLocked, TypeOK'
    PROVE  /\ LiveCount >= 1 /\ LiveCount' = LiveCount - 1
           /\ entries[tail].size \in Nat
           /\ Total(Held) = entries[tail].size + Total(Held')
  <1> USE RingAssumption
  <1>1. TypeOK /\ tail \in Slots /\ head \in Slots /\ full \in BOOLEAN
    BY DEF IInv, TypeOK
  <1>2. tail' = IF tail + 1 = MaxSize THEN 0 ELSE tail + 1
    BY <1>1, SuccSlot DEF evictOldestLocked
  <1>3. head' = head /\ (full' <=> (full /\ tail' # head)) /\ lenLocked # 0
    BY DEF evictOldestLocked
  <1>4. LiveCount >= 1 /\ LiveCount' = LiveCount - 1
    BY <1>1, <1>2, <1>3 DEF LiveCount, lenLocked, Slots
  <1>5. LiveCount \in 0 .. MaxSize /\ Held \in Weights /\ Held' \in Weights
    BY <1>1, HeldNow, HeldNext
  <1>6. Held[0] = entries[tail].size
    <2>1. Slot(0) = tail
      BY <1>1, HeldNow DEF Slots
    <2> QED
      BY <1>4, <1>5, <2>1 DEF Held
  <1>7. Held'[MaxSize - 1] = 0
    BY <1>4, <1>5 DEF Held
  <1>8. ASSUME NEW k \in 0 .. MaxSize - 2 PROVE Held'[k] = Held[k + 1]
    <2>1. k \in 0 .. MaxSize - 1 /\ k + 1 \in 0 .. MaxSize - 1
      OBVIOUS
    <2>2. /\ Slot(k)' = IF tail' + k < MaxSize THEN tail' + k ELSE tail' + k - MaxSize
          /\ Slot(k + 1) = IF tail + (k + 1) < MaxSize THEN tail + (k + 1)
                           ELSE tail + (k + 1) - MaxSize
          /\ Slot(k + 1) \in Slots
      BY <1>1, <2>1, HeldNow, HeldNext
    <2>3. Slot(k)' = Slot(k + 1) /\ Slot(k + 1) # tail
      BY <1>1, <1>2, <2>2 DEF Slots
    <2>4. entries'[Slot(k + 1)] = entries[Slot(k + 1)]
      BY <1>1, <2>2, <2>3 DEF TypeOK, evictOldestLocked
    <2>5. Held'[k] = IF k < LiveCount' THEN entries'[Slot(k)'].size ELSE 0
      BY <2>1 DEF Held
    <2>6. Held[k + 1] = IF k + 1 < LiveCount THEN entries[Slot(k + 1)].size ELSE 0
      BY <2>1 DEF Held
    <2> QED
      BY <1>4, <1>5, <2>3, <2>4, <2>5, <2>6
  <1>9. Total(Held) = Held[0] + Total(Held')
    BY <1>5, <1>7, <1>8, TotalShift
  <1>10. Held[0] \in Nat
    BY <1>5 DEF Weights
  <1> QED
    BY <1>4, <1>6, <1>9, <1>10

\* Append adds exactly what its entry weighs.
LEMMA StoreBytes ==
    ASSUME IInv, AppendStore, TypeOK'
    PROVE  /\ LiveCount' = LiveCount + 1
           /\ wr.size \in Nat
           /\ Total(Held') = Total(Held) + wr.size
  <1> USE RingAssumption
  <1>1. /\ TypeOK /\ tail \in Slots /\ head \in Slots /\ full \in BOOLEAN
        /\ wr \in Writer /\ ~(full /\ head = tail)
    BY DEF IInv, TypeOK, AppendStore, WriterInv, NoWriter
  <1>2. wr.size \in Nat
    BY <1>1 DEF Writer
  <1>3. head' = IF head + 1 = MaxSize THEN 0 ELSE head + 1
    BY <1>1, SuccSlot DEF AppendStore
  <1>4. /\ tail' = tail /\ (full' <=> (full \/ head' = tail))
        /\ entries' = [entries EXCEPT ![head] =
                         [channel |-> wr.channel, data |-> wr.data, size |-> wr.size,
                          timestamp |-> now]]
    BY DEF AppendStore
  <1>5. LiveCount' = LiveCount + 1 /\ LiveCount \in 0 .. MaxSize - 1
    BY <1>1, <1>3, <1>4 DEF LiveCount, Slots
  <1>6. Held \in Weights /\ Held' \in Weights
    BY <1>1, HeldNow, HeldNext
  <1> DEFINE new == [k \in 0 .. MaxSize - 1 |-> IF k = LiveCount THEN wr.size ELSE 0]
  <1>7. new \in Weights /\ Total(new) = wr.size
    <2>1. new \in Weights
      BY <1>2 DEF Weights
    <2>2. \A k \in 0 .. MaxSize - 1 : k # LiveCount => new[k] = 0
      OBVIOUS
    <2>3. new[LiveCount] = wr.size
      BY <1>5
    <2> HIDE DEF new
    <2> QED
      BY <1>5, <2>1, <2>2, <2>3, TotalOne
  <1>8. ASSUME NEW k \in 0 .. MaxSize - 1 PROVE Held'[k] = Held[k] + new[k]
    <2>1. /\ Slot(k)' = Slot(k)
          /\ Slot(k) = IF tail + k < MaxSize THEN tail + k ELSE tail + k - MaxSize
          /\ Slot(k) \in Slots
      BY <1>1, <1>4, HeldNow DEF Slot
    <2>2. /\ Held'[k] = IF k < LiveCount' THEN entries'[Slot(k)].size ELSE 0
          /\ Held[k] = IF k < LiveCount THEN entries[Slot(k)].size ELSE 0
          /\ Held[k] \in Nat
      BY <1>6, <2>1 DEF Held, Weights
    <2>3. k <= LiveCount => (Slot(k) = head <=> k = LiveCount)
      BY <1>1, <2>1 DEF LiveCount, Slots
    <2>4. CASE k < LiveCount
      <3>1. entries'[Slot(k)] = entries[Slot(k)]
        BY <1>1, <1>4, <1>5, <2>1, <2>3, <2>4 DEF TypeOK
      <3> QED
        BY <1>5, <2>2, <2>4, <3>1
    <2>5. CASE k = LiveCount
      <3>1. entries'[Slot(k)].size = wr.size
        BY <1>1, <1>4, <1>5, <2>3, <2>5 DEF TypeOK
      <3> QED
        BY <1>2, <1>5, <2>2, <2>5, <3>1
    <2>6. CASE k > LiveCount
      BY <1>5, <2>2, <2>6
    <2> QED
      BY <1>5, <2>4, <2>5, <2>6
  <1> HIDE DEF new
  <1> QED
    BY <1>2, <1>5, <1>6, <1>7, <1>8, TotalSplit

\* evictExpired gives back exactly what the expired entries weighed; the empty
\* slots a stale full makes it scan weigh nothing.
LEMMA ExpireBytes ==
    ASSUME IInv, evictExpired, TypeOK'
    PROVE  /\ LiveCount' <= LiveCount
           /\ \E given \in Nat : /\ currentBytes' = currentBytes - given
                                 /\ Total(Held) = Total(Held') + given
  <1> USE RingAssumption
  <1> DEFINE scan == 0 .. lenLocked - 1
             dead == {i \in scan : entryExpired(entries[Slot(i)])}
             live == scan \ dead
             n == Cardinality(live)
             W(S) == [k \in 0 .. MaxSize - 1 |-> IF k \in S THEN entries[Slot(k)].size ELSE 0]
  <1>1. TypeOK /\ RingInv /\ lenLocked \in 0 .. MaxSize
    BY LenBound DEF IInv
  <1>2. tail \in Slots /\ head \in Slots /\ full \in BOOLEAN
    BY <1>1 DEF TypeOK
  <1>3. LiveCount \in 0 .. MaxSize /\ LiveCount <= lenLocked
    BY <1>1, <1>2, HeldNow DEF LiveCount, lenLocked, Slots
  <1>4. ASSUME NEW k \in 0 .. MaxSize - 1, ~(k < LiveCount)
        PROVE  Slot(k) \in Slots /\ entries[Slot(k)] = EmptyEntry
    <2>1. Slot(k) = (IF tail + k < MaxSize THEN tail + k ELSE tail + k - MaxSize)
      BY <1>1, HeldNow
    <2>2. Slot(k) \in Slots
      BY <1>1, HeldNow
    <2>3. ~Occupied(Slot(k))
      BY <1>2, <1>4, <2>1 DEF LiveCount, Occupied, Slots
    <2> QED
      BY <1>1, <2>2, <2>3 DEF RingInv
  <1>5. live \subseteq 0 .. LiveCount - 1
    <2> SUFFICES ASSUME NEW k \in scan, ~(k < LiveCount) PROVE k \in dead
      BY <1>1, <1>3
    <2>1. k \in 0 .. MaxSize - 1
      BY <1>1
    <2>2. entries[Slot(k)].timestamp = 0
      BY <1>4, <2>1 DEF EmptyEntry
    <2> QED
      BY <2>2 DEF entryExpired
  <1>6. live \in SUBSET Nat /\ IsFiniteSet(live) /\ n \in Nat /\ n <= LiveCount
    <2>1. IsFiniteSet(0 .. LiveCount - 1) /\ Cardinality(0 .. LiveCount - 1) = LiveCount
      <3>1. LiveCount \in Nat /\ 0 \in Int /\ LiveCount - 1 \in Int
        BY <1>3
      <3> QED
        BY ONLY <3>1, FS_Interval
    <2> QED
      BY <1>3, <1>5, <2>1, FS_Subset, FS_CardinalityType
  <1>7. /\ tail' = 0 /\ full' = (n = MaxSize) /\ head' = n % MaxSize
        /\ currentBytes' = currentBytes - SizeAt(dead)
    BY DEF evictExpired
  <1>8. PICK kept \in InOrder(live) :
          entries' = [j \in Slots |-> IF j < n THEN entries[Slot(kept[j + 1])]
                                               ELSE EmptyEntry]
    BY DEF evictExpired
  <1>9. /\ kept \in [1 .. n -> live]
        /\ \A i, j \in 1 .. n : i < j => kept[i] < kept[j]
    BY <1>8 DEF InOrder
  <1>10. \A k \in live : \E i \in 1 .. n : kept[i] = k
    BY <1>6, ListsAll
  <1> HIDE DEF n
  <1>11. head' = IF n = MaxSize THEN 0 ELSE n
    BY <1>3, <1>6, <1>7
  <1>12. LiveCount' = n
    <2>1. full' <=> (n = MaxSize)
      BY <1>7
    <2> QED
      BY <1>3, <1>6, <1>7, <1>11, <2>1 DEF LiveCount
  <1>13. W(live) \in Weights /\ W(dead) \in Weights /\ Held \in Weights /\ Held' \in Weights
    BY <1>1, HeldNow, HeldNext DEF Weights
  <1>14. ASSUME NEW k \in 0 .. MaxSize - 1
         PROVE  Held[k] = W(live)[k] + W(dead)[k]
    <2>1. /\ W(live)[k] = IF k \in live THEN entries[Slot(k)].size ELSE 0
          /\ W(dead)[k] = IF k \in dead THEN entries[Slot(k)].size ELSE 0
      OBVIOUS
    <2>2. Held[k] = IF k < LiveCount THEN entries[Slot(k)].size ELSE 0
      BY DEF Held
    <2>3. entries[Slot(k)].size \in Nat
      BY <1>1, HeldNow
    <2>4. CASE k < LiveCount
      <3>1. k \in scan
        BY <1>1, <1>3, <2>4
      <3>2. (k \in live /\ k \notin dead) \/ (k \notin live /\ k \in dead)
        BY <3>1
      <3> HIDE DEF live, dead, W
      <3> QED
        BY <2>1, <2>2, <2>3, <2>4, <3>2
    <2>5. CASE ~(k < LiveCount)
      <3>1. entries[Slot(k)].size = 0
        BY <1>4, <2>5 DEF EmptyEntry
      <3> HIDE DEF live, dead, W
      <3> QED
        BY <2>1, <2>2, <2>5, <3>1
    <2> QED
      BY <2>4, <2>5
  <1>15. SizeAt(dead) = Total(W(dead)) /\ Total(W(dead)) \in Nat
    <2>1. SizeAt(dead) = Total(W(dead))
      BY Zenon DEF SizeAt
    <2> HIDE DEF W, dead
    <2> QED
      BY <1>13, <2>1, TotalNat
  <1>16. Total(Held) = Total(W(live)) + Total(W(dead))
    <2> HIDE DEF W, live, dead
    <2> QED
      BY <1>13, <1>14, TotalSplit
  <1>17. Total(Held') = Total(W(live))
    <2>1. n \in 0 .. MaxSize /\ kept \in [1 .. n -> 0 .. MaxSize - 1]
      BY <1>1, <1>3, <1>6, <1>9
    <2>2. \A k \in 0 .. MaxSize - 1 : (\A i \in 1 .. n : kept[i] # k) => W(live)[k] = 0
      BY <1>10
    <2>3. ASSUME NEW j \in 1 .. n PROVE Held'[j - 1] = W(live)[kept[j]]
      <3>1. /\ j - 1 \in 0 .. MaxSize - 1 /\ j - 1 < n /\ (j - 1) + 1 = j
            /\ j - 1 \in Slots
        BY <2>1 DEF Slots
      <3>2. kept[j] \in live /\ kept[j] \in 0 .. MaxSize - 1
        BY <1>9, <2>1
      <3>3. Slot(j - 1)' = j - 1
        <4>1. Slot(j - 1)' = (0 + (j - 1)) % MaxSize
          BY <1>7 DEF Slot
        <4> QED
          BY <3>1, <4>1
      <3>4. entries'[j - 1] = entries[Slot(kept[j])]
        BY <1>8, <3>1
      <3>5. Held'[j - 1] = IF j - 1 < LiveCount' THEN entries'[Slot(j - 1)'].size ELSE 0
        BY <3>1 DEF Held
      <3>6. W(live)[kept[j]] = entries[Slot(kept[j])].size
        BY <3>2
      <3> QED
        BY <1>12, <3>1, <3>3, <3>4, <3>5, <3>6
    <2>4. ASSUME NEW j \in 0 .. MaxSize - 1, j >= n PROVE Held'[j] = 0
      BY <1>6, <1>12, <2>4 DEF Held
    <2>5. \A i, j \in 1 .. n : i < j => kept[i] < kept[j]
      BY <1>9
    <2>6. \A j \in 1 .. n : Held'[j - 1] = W(live)[kept[j]]
      BY <2>3
    <2>7. \A j \in 0 .. MaxSize - 1 : j >= n => Held'[j] = 0
      BY <2>4
    <2>8. W(live) \in Weights /\ Held' \in Weights
      BY <1>13
    <2> HIDE DEF W, live, dead
    <2> QED
      BY ONLY <2>1, <2>2, <2>5, <2>6, <2>7, <2>8, TotalKept
  <1> HIDE DEF W, live, dead
  <1> QED
    BY <1>6, <1>7, <1>12, <1>15, <1>16, <1>17

-----------------------------------------------------------------------------
\* Past the budget loop, what Append is about to write fits.
FitsInv == wr.pc = "store" /\ MaxBytes > 0 => currentBytes + wr.size <= MaxBytes

BInv == IInv /\ BytesInv /\ BudgetInv /\ FitsInv

LEMMA InitBInv == Init => BInv
  <1> SUFFICES ASSUME Init PROVE BInv
    OBVIOUS
  <1> USE RingAssumption
  <1>1. IInv /\ TypeOK
    BY InitIInv DEF IInv
  <1>2. currentBytes = 0 /\ LiveCount = 0 /\ wr.pc = "idle"
    BY DEF Init, LiveCount, NoWriter
  <1>3. Held \in Weights /\ SizeAt(0 .. LiveCount - 1) = Total(Held)
    BY <1>1, HeldNow
  <1>4. \A k \in 0 .. MaxSize - 1 : Held[k] = 0
    BY <1>2 DEF Held
  <1>5. Total(Held) = 0
    BY <1>3, <1>4, TotalOne
  <1> QED
    BY <1>1, <1>2, <1>3, <1>5 DEF BInv, BytesInv, BudgetInv, FitsInv

LEMMA NextBInv == BInv /\ [Next]_ringVars => BInv'
  <1> SUFFICES ASSUME BInv, [Next]_ringVars PROVE BInv'
    OBVIOUS
  <1> USE RingAssumption
  <1>1. IInv /\ TypeOK /\ BytesInv /\ BudgetInv /\ FitsInv
    BY DEF BInv, IInv
  <1>2. IInv' /\ TypeOK'
    <2>1. IInv'
      BY <1>1, NextIInv
    <2> QED
      BY <2>1 DEF IInv
  <1>3. /\ LiveCount \in 0 .. MaxSize /\ LiveCount' \in 0 .. MaxSize
        /\ Total(Held) \in Nat /\ Total(Held') \in Nat
        /\ currentBytes = Total(Held)
    BY <1>1, <1>2, HeldNow, HeldNext, TotalNat DEF BytesInv
  <1>4. currentBytes' = Total(Held') => BytesInv'
    BY <1>2, HeldNext DEF BytesInv
  <1>5. ASSUME AppendEvictForBytes PROVE BInv'
    <2>1. /\ evictOldestLocked /\ wr' = wr /\ wr.pc = "bytes"
          /\ currentBytes' = currentBytes - entries[tail].size
      BY <1>5 DEF AppendEvictForBytes, evictOldestLocked
    <2>2. currentBytes' = Total(Held')
      BY <1>1, <1>2, <1>3, <2>1, EvictBytes
    <2> QED
      BY <1>2, <1>4, <2>1, <2>2 DEF BInv, BudgetInv, FitsInv
  <1>6. ASSUME AppendEvictWhenFull PROVE BInv'
    <2>1. /\ evictOldestLocked /\ wr' = [wr EXCEPT !.pc = "store"] /\ wr.pc = "bytes"
          /\ currentBytes' = currentBytes - entries[tail].size
          /\ lenLocked # 0 /\ ~OverBudget
      BY <1>6 DEF AppendEvictWhenFull, evictOldestLocked
    <2>2. /\ currentBytes' = Total(Held') /\ entries[tail].size \in Nat
      BY <1>1, <1>2, <1>3, <2>1, EvictBytes
    <2>3. wr \in Writer
      BY <1>1, <2>1 DEF TypeOK, NoWriter
    <2>4. wr'.pc = "store" /\ wr'.size = wr.size /\ wr.size \in Nat
      BY <2>1, <2>3 DEF Writer
    <2>5. MaxBytes > 0 => currentBytes + wr.size <= MaxBytes
      <3>1. lenLocked > 0
        BY <1>1, <2>1, LenBound
      <3> QED
        BY <1>3, <2>1, <2>4, <3>1 DEF OverBudget
    <2>6. FitsInv'
      BY <1>3, <2>1, <2>2, <2>4, <2>5 DEF FitsInv
    <2>7. BudgetInv'
      BY <2>4 DEF BudgetInv
    <2> QED
      BY <1>2, <1>4, <2>2, <2>6, <2>7 DEF BInv
  <1>7. ASSUME AppendStore PROVE BInv'
    <2>1. /\ currentBytes' = currentBytes + wr.size /\ wr' = NoWriter
          /\ (wr.pc = "bytes" /\ ~OverBudget /\ ~full) \/ wr.pc = "store"
      BY <1>7 DEF AppendStore
    <2>2. LiveCount' = LiveCount + 1 /\ wr.size \in Nat /\ currentBytes' = Total(Held')
      BY <1>1, <1>2, <1>3, <1>7, <2>1, StoreBytes
    <2>3. ASSUME wr.pc = "bytes", ~OverBudget, ~full, MaxBytes > 0
          PROVE  currentBytes + wr.size <= MaxBytes \/ LiveCount = 0
      <3>1. lenLocked \in 0 .. MaxSize
        BY <1>1, LenBound
      <3>2. CASE lenLocked = 0
        BY <1>1, <3>2 DEF lenLocked, LiveCount, TypeOK, Slots
      <3>3. CASE lenLocked # 0
        BY <1>3, <2>2, <2>3, <3>1, <3>3 DEF OverBudget
      <3> QED
        BY <3>2, <3>3
    <2>4. MaxBytes > 0 => currentBytes' <= MaxBytes \/ LiveCount' = 1
      BY <1>1, <1>3, <2>1, <2>2, <2>3 DEF FitsInv
    <2> QED
      BY <1>2, <1>4, <2>1, <2>2, <2>4 DEF BInv, BudgetInv, FitsInv, NoWriter
  <1>8. ASSUME evictExpired PROVE BInv'
    <2>1. wr' = wr /\ wr.pc = "idle"
      BY <1>8 DEF evictExpired
    <2>2. PICK given \in Nat : /\ currentBytes' = currentBytes - given
                               /\ Total(Held) = Total(Held') + given
      BY <1>1, <1>2, <1>8, ExpireBytes
    <2>3. LiveCount' <= LiveCount
      BY <1>1, <1>2, <1>8, ExpireBytes
    <2>4. currentBytes' = Total(Held') /\ currentBytes' <= currentBytes
      BY <1>3, <2>2
    <2>5. LiveCount' = 0 => Total(Held') = 0
      <3> SUFFICES ASSUME LiveCount' = 0 PROVE Total(Held') = 0
        OBVIOUS
      <3>1. \A k \in 0 .. MaxSize - 1 : Held'[k] = 0
        BY DEF Held
      <3>2. Held' \in Weights
        BY <1>2, HeldNext
      <3> QED
        BY <3>1, <3>2, TotalOne
    <2>6. MaxBytes > 0 => currentBytes' <= MaxBytes \/ LiveCount' = 1
      BY <1>1, <1>3, <2>1, <2>3, <2>4, <2>5 DEF BudgetInv
    <2> QED
      BY <1>2, <1>4, <2>1, <2>4, <2>6 DEF BInv, BudgetInv, FitsInv
  <1>9. ASSUME \/ \E ch \in Channels, sz \in Sizes : AppendLock(ch, sz)
               \/ \E ch \in Channels, ttl \in TTLs : SetChannelTTL(ch, ttl)
               \/ Tick
               \/ UNCHANGED ringVars
        PROVE  BInv'
    <2>1. entries' = entries /\ tail' = tail /\ head' = head /\ (full' = full)
          /\ currentBytes' = currentBytes
      BY <1>9 DEF AppendLock, SetChannelTTL, Tick, ringVars, ring
    <2>2. wr'.pc = "bytes" \/ wr' = wr
      BY <1>9 DEF AppendLock, SetChannelTTL, Tick, ringVars
    <2>3. LiveCount' = LiveCount /\ SizeAt(0 .. LiveCount - 1)' = SizeAt(0 .. LiveCount - 1)
      BY <2>1, Zenon DEF LiveCount, SizeAt, Slot
    <2> QED
      BY <1>1, <1>2, <2>1, <2>2, <2>3 DEF BInv, BytesInv, BudgetInv, FitsInv
  <1> QED
    BY <1>5, <1>6, <1>7, <1>8, <1>9 DEF Next

LEMMA BytesInductive == Spec => []BInv
  BY InitBInv, NextBInv, PTL DEF Spec

\* currentBytes never drifts: the increments of Append and the decrements of
\* evictOldestLocked and of evictExpired, which also scans the empty slots of a
\* ring whose full flag is stale, keep it equal to the bytes really held.
THEOREM BytesCorrect == Spec => []BytesInv
  <1>1. BInv => BytesInv
    BY DEF BInv
  <1> QED
    BY <1>1, BytesInductive, PTL

\* Whenever the mutex is free the payload bytes respect rb.maxBytes, unless the
\* ring holds nothing but one payload larger than the budget (Append).
THEOREM BudgetCorrect == Spec => []BudgetInv
  <1>1. BInv => BudgetInv
    BY DEF BInv
  <1> QED
    BY <1>1, BytesInductive, PTL

-----------------------------------------------------------------------------
(* The ring implements the bounded log.                                    *)

\* What the log says of its bytes is the ring's sum.
LEMMA LogBytes ==
    ASSUME NEW w \in Weights, NEW m \in 0 .. MaxSize, NEW s, Len(s) = m,
           \A k \in 1 .. m : s[k].size = w[k - 1],
           \A k \in 0 .. MaxSize - 1 : k >= m => w[k] = 0
    PROVE  Log!Bytes(s) = Total(w)
  <1> USE RingAssumption
  <1> DEFINE H(h) == [k \in 0 .. Len(s) |-> IF k = 0 THEN 0 ELSE h[k - 1] + s[k].size]
             g == CHOOSE h : h = H(h)
  <1>1. PICK a : Adds(a, w, MaxSize) /\ Total(w) = a[MaxSize]
    BY TotalIs
  <1> DEFINE f == [k \in 0 .. m |-> a[k]]
  <1>2. \A h : DOMAIN H(h) = 0 .. m /\ H(h)[0] = 0
    OBVIOUS
  <1>3. \A h : \A i \in 1 .. m : H(h)[i] = h[i - 1] + s[i].size
    OBVIOUS
  <1>4. H(f) = [i \in 0 .. m |-> H(f)[i]]
    OBVIOUS
  <1>5. Log!Bytes(s) = g[Len(s)]
    BY Zenon DEF Log!Bytes
  <1>6. (\E h : h = H(h)) => g = H(g)
    BY Zenon
  <1> HIDE DEF g, H
  <1>7. ASSUME NEW i \in 0 .. m PROVE H(f)[i] = f[i]
    <2>1. CASE i = 0
      BY <1>1, <1>2, <2>1 DEF Adds
    <2>2. CASE i \in 1 .. m
      <3>1. H(f)[i] = f[i - 1] + s[i].size /\ f[i - 1] = a[i - 1] /\ s[i].size = w[i - 1]
        BY <1>3, <2>2
      <3>2. a[i] = a[i - 1] + w[i - 1]
        BY <1>1, <2>2 DEF Adds
      <3> QED
        BY <3>1, <3>2
    <2> QED
      BY <2>1, <2>2
  <1>8. f = H(f)
    BY <1>4, <1>7
  <1> HIDE DEF f
  <1>9. g = H(g)
    BY <1>6, <1>8
  <1>10. g[0] = 0 /\ \A i \in 1 .. m : g[i] = g[i - 1] + w[i - 1]
    BY <1>2, <1>3, <1>9
  <1> DEFINE T == {n \in Nat : n <= m => g[n] = a[n]}
  <1>11. 0 \in T
    BY <1>1, <1>10 DEF Adds
  <1>12. ASSUME NEW n \in T PROVE n + 1 \in T
    <2> SUFFICES ASSUME n + 1 <= m PROVE g[n + 1] = a[n + 1]
      OBVIOUS
    <2>1. n + 1 \in 1 .. m /\ n + 1 \in 1 .. MaxSize /\ (n + 1) - 1 = n /\ g[n] = a[n]
      OBVIOUS
    <2> QED
      BY <1>1, <1>10, <2>1 DEF Adds
  <1> HIDE DEF T
  <1>13. T = Nat
    BY <1>11, <1>12, Induct DEF T
  <1>14. g[m] = a[m]
    BY <1>13 DEF T
  <1> DEFINE U == {n \in Nat : m + n <= MaxSize => a[m + n] = a[m]}
  <1>15. 0 \in U
    OBVIOUS
  <1>16. ASSUME NEW n \in U PROVE n + 1 \in U
    <2> SUFFICES ASSUME m + (n + 1) <= MaxSize PROVE a[m + (n + 1)] = a[m]
      OBVIOUS
    <2>1. /\ m + (n + 1) \in 1 .. MaxSize /\ (m + (n + 1)) - 1 = m + n
          /\ m + n \in 0 .. MaxSize - 1 /\ m + n >= m /\ m \in 0 .. MaxSize
          /\ a[m + n] = a[m]
      OBVIOUS
    <2>2. a[m + (n + 1)] = a[m + n] + w[m + n] /\ w[m + n] = 0 /\ a[m] \in Nat
      BY <1>1, <2>1 DEF Adds
    <2> QED
      BY <2>1, <2>2
  <1> HIDE DEF U
  <1>17. U = Nat
    BY <1>15, <1>16, Induct DEF U
  <1>18. MaxSize - m \in U /\ m + (MaxSize - m) = MaxSize
    BY <1>17
  <1>19. a[MaxSize] = a[m]
    BY <1>18 DEF U
  <1> QED
    BY <1>1, <1>5, <1>14, <1>19

SlotValue == Entry \cup {EmptyEntry}

\* kept lists, in order, the positions of s that are in P, and r what is there.
Picks(s, P, m, n, kept, r) ==
    /\ m \in Nat /\ Len(s) = m
    /\ n \in Nat /\ kept \in [1 .. n -> 1 .. m]
    /\ \A i, j \in 1 .. n : i < j => kept[i] < kept[j]
    /\ \A k \in 1 .. m : k \in P <=> \E i \in 1 .. n : kept[i] = k
    /\ r \in [1 .. n -> SlotValue]
    /\ \A i \in 1 .. n : r[i] = s[kept[i]]

\* What the log keeps when entries expire, by position.
LEMMA LogPicked ==
    ASSUME NEW s, NEW P, NEW m, NEW n, NEW kept, NEW r, Picks(s, P, m, n, kept, r)
    PROVE  Log!Picked(s, P) = r
  <1> USE DEF Picks
  <1> DEFINE H(h) == [k \in 0 .. Len(s) |->
                        IF k = 0 THEN <<>>
                        ELSE IF k \in P THEN Append(h[k - 1], s[k])
                        ELSE h[k - 1]]
             g == CHOOSE h : h = H(h)
             Cut(k, j) == \A i \in 1 .. n : i <= j <=> kept[i] <= k
             F(j) == [i \in 1 .. j |-> s[kept[i]]]
             f == [k \in 0 .. m |-> F(CHOOSE j \in 0 .. n : Cut(k, j))]
  <1>1. \A h : DOMAIN H(h) = 0 .. m /\ H(h)[0] = <<>>
    OBVIOUS
  <1>2. \A h : \A k \in 1 .. m : H(h)[k] = IF k \in P THEN Append(h[k - 1], s[k]) ELSE h[k - 1]
    OBVIOUS
  <1>3. \A h : H(h) = [i \in 0 .. m |-> H(h)[i]]
    OBVIOUS
  <1>4. Log!Picked(s, P) = g[Len(s)]
    BY Zenon DEF Log!Picked
  <1>5. (\E h : h = H(h)) => g = H(g)
    BY Zenon
  <1> HIDE DEF g, H
  \* How the cut moves along the sequence.
  <1>6. Cut(0, 0)
    OBVIOUS
  <1>7. ASSUME NEW k \in 1 .. m, NEW j \in 0 .. n, Cut(k - 1, j), k \in P
        PROVE  j + 1 \in 1 .. n /\ kept[j + 1] = k /\ Cut(k, j + 1)
    <2>1. PICK i \in 1 .. n : kept[i] = k
      BY <1>7
    <2>2. i > j
      BY <1>7, <2>1
    <2>3. i = j + 1
      <3>1. j + 1 \in 1 .. n /\ ~(kept[j + 1] <= k - 1) /\ kept[j + 1] \in 1 .. m
        BY <1>7, <2>2
      <3>2. ~(j + 1 < i)
        BY <2>1, <3>1
      <3> QED
        BY <2>2, <3>2
    <2>4. ASSUME NEW l \in 1 .. n PROVE l <= j + 1 <=> kept[l] <= k
      <3>1. (l < i => kept[l] < k) /\ (l > i => k < kept[l]) /\ (l = i => kept[l] = k)
        BY <2>1
      <3>2. kept[l] \in 1 .. m
        OBVIOUS
      <3> QED
        BY <2>3, <3>1, <3>2
    <2> QED
      BY <2>1, <2>3, <2>4
  <1>8. ASSUME NEW k \in 1 .. m, NEW j \in 0 .. n, Cut(k - 1, j), k \notin P
        PROVE  Cut(k, j)
    <2> SUFFICES ASSUME NEW l \in 1 .. n PROVE l <= j <=> kept[l] <= k
      OBVIOUS
    <2>1. kept[l] \in 1 .. m /\ kept[l] # k /\ (l <= j <=> kept[l] <= k - 1)
      BY <1>8
    <2> QED
      BY <2>1
  <1>9. \A k \in 0 .. m : \E j \in 0 .. n : Cut(k, j)
    <2> DEFINE T == {k \in Nat : k <= m => \E j \in 0 .. n : Cut(k, j)}
    <2>1. 0 \in T
      <3>1. 0 \in 0 .. n /\ 0 \in Nat
        OBVIOUS
      <3> HIDE DEF Cut
      <3> QED
        BY <1>6, <3>1
    <2>2. ASSUME NEW k \in T PROVE k + 1 \in T
      <3> SUFFICES ASSUME k + 1 <= m PROVE \E j \in 0 .. n : Cut(k + 1, j)
        OBVIOUS
      <3>1. PICK j \in 0 .. n : Cut(k, j)
        OBVIOUS
      <3>2. k + 1 \in 1 .. m /\ (k + 1) - 1 = k
        OBVIOUS
      <3> HIDE DEF Cut
      <3>3. CASE k + 1 \in P
        BY <1>7, <3>1, <3>2, <3>3
      <3>4. CASE k + 1 \notin P
        BY <1>8, <3>1, <3>2, <3>4
      <3> QED
        BY <3>3, <3>4
    <2> HIDE DEF T, Cut
    <2>3. T = Nat
      BY <2>1, <2>2, Induct DEF T
    <2>4. \A k \in 0 .. m : k \in Nat /\ k <= m
      OBVIOUS
    <2> QED
      BY ONLY <2>3, <2>4 DEF T
  <1>10. \A k \in 0 .. m, i, j \in 0 .. n : Cut(k, i) /\ Cut(k, j) => i = j
    <2> SUFFICES ASSUME NEW k \in 0 .. m, NEW i \in 0 .. n, NEW j \in 0 .. n,
                        Cut(k, i), Cut(k, j), i < j
                 PROVE  FALSE
      <3>1. \A i, j \in 0 .. n : i < j \/ j < i \/ i = j
        OBVIOUS
      <3> HIDE DEF Cut
      <3> QED
        BY <3>1
    <2>1. j \in 1 .. n /\ ~(j <= i) /\ j <= j
      OBVIOUS
    <2> QED
      BY <2>1
  <1>11. ASSUME NEW k \in 0 .. m, NEW j \in 0 .. n, Cut(k, j) PROVE f[k] = F(j)
    <2> HIDE DEF Cut, F
    <2>1. (CHOOSE i \in 0 .. n : Cut(k, i)) = j
      BY <1>10, <1>11
    <2> QED
      BY <2>1
  <1>12. f = [k \in 0 .. m |-> f[k]]
    OBVIOUS
  <1> HIDE DEF f
  <1>13. ASSUME NEW j \in 0 .. n - 1, NEW x, x = s[kept[j + 1]]
         PROVE  Append(F(j), x) = F(j + 1)
    BY <1>13
  <1>14. F(0) = <<>>
    OBVIOUS
  <1> HIDE DEF F
  <1>15. ASSUME NEW k \in 0 .. m PROVE H(f)[k] = f[k]
    <2>1. CASE k = 0
      <3>1. f[k] = F(0)
        BY <1>6, <1>11, <2>1
      <3> QED
        BY <1>1, <1>14, <2>1, <3>1
    <2>2. CASE k \in 1 .. m
      <3>1. k - 1 \in 0 .. m
        BY <2>2
      <3>2. PICK j \in 0 .. n : Cut(k - 1, j)
        BY <1>9, <3>1
      <3> HIDE DEF Cut
      <3>3. f[k - 1] = F(j)
        BY <1>11, <3>1, <3>2
      <3>4. CASE k \in P
        <4>1. j + 1 \in 1 .. n /\ kept[j + 1] = k /\ Cut(k, j + 1)
          BY <1>7, <2>2, <3>2, <3>4
        <4>2. j + 1 \in 0 .. n /\ j \in 0 .. n - 1
          BY <4>1
        <4>3. f[k] = F(j + 1)
          BY <1>11, <4>1, <4>2
        <4>4. Append(F(j), s[k]) = F(j + 1)
          BY <1>13, <4>1, <4>2
        <4>5. H(f)[k] = Append(f[k - 1], s[k])
          BY <1>2, <2>2, <3>4
        <4> QED
          BY <3>3, <4>3, <4>4, <4>5, Zenon
      <3>5. CASE k \notin P
        <4>1. Cut(k, j)
          BY <1>8, <2>2, <3>2, <3>5
        <4>2. f[k] = F(j)
          BY <1>11, <4>1
        <4> QED
          BY <1>2, <2>2, <3>3, <3>5, <4>2
      <3> QED
        BY <3>4, <3>5
    <2> QED
      BY <2>1, <2>2
  <1>16. f = H(f)
    BY <1>3, <1>12, <1>15
  <1>17. g = H(g)
    BY <1>5, <1>16
  <1> DEFINE T == {k \in Nat : k <= m => g[k] = f[k]}
  <1>18. 0 \in T
    <2>1. g[0] = <<>> /\ f[0] = <<>>
      BY <1>1, <1>16, <1>17
    <2> QED
      BY <2>1
  <1>19. ASSUME NEW k \in T PROVE k + 1 \in T
    <2> SUFFICES ASSUME k + 1 <= m PROVE g[k + 1] = f[k + 1]
      OBVIOUS
    <2>1. k + 1 \in 1 .. m /\ (k + 1) - 1 = k /\ g[k] = f[k]
      OBVIOUS
    <2>2. /\ H(g)[k + 1] = IF k + 1 \in P THEN Append(g[k], s[k + 1]) ELSE g[k]
          /\ H(f)[k + 1] = IF k + 1 \in P THEN Append(f[k], s[k + 1]) ELSE f[k]
      BY <1>2, <2>1
    <2> QED
      BY <1>16, <1>17, <2>1, <2>2, Zenon
  <1> HIDE DEF T
  <1>20. T = Nat
    BY <1>18, <1>19, Induct DEF T
  <1>21. g[m] = f[m]
    BY <1>20 DEF T
  <1>22. Cut(m, n)
    <2> SUFFICES ASSUME NEW i \in 1 .. n PROVE i <= n <=> kept[i] <= m
      OBVIOUS
    <2> QED
      OBVIOUS
  <1>23. f[m] = F(n)
    BY <1>11, <1>22
  <1> QED
    <2>1. r = F(n)
      BY DEF F
    <2> QED
      BY <1>4, <1>21, <1>23, <2>1

\* The mapped variables of the log: the entries from tail on, and the last
\* payload whose Append has written it.
LogMap == [i \in 1 .. LiveCount |-> entries[Slot(i - 1)]]
StoredMap == IF wr.pc = "idle" THEN appended ELSE appended - 1

LEMMA FunSeq ==
    ASSUME NEW S, NEW n \in Nat, NEW f \in [1 .. n -> S]
    PROVE  f \in Seq(S) /\ Len(f) = n /\ DOMAIN f = 1 .. n
  OBVIOUS

LEMMA LogNow ==
    ASSUME TypeOK
    PROVE  /\ LogMap \in Seq(SlotValue) /\ Len(LogMap) = LiveCount
           /\ DOMAIN LogMap = 1 .. LiveCount
           /\ \A i \in 1 .. LiveCount : LogMap[i] = entries[Slot(i - 1)]
  <1> USE RingAssumption
  <1>1. /\ LiveCount \in 0 .. MaxSize
        /\ \A k \in 0 .. MaxSize - 1 : Slot(k) \in Slots
    BY HeldNow
  <1>2. entries \in [Slots -> SlotValue]
    BY DEF TypeOK, SlotValue
  <1>3. \A i \in 1 .. LiveCount : Slot(i - 1) \in Slots
    BY <1>1
  <1>4. LogMap \in [1 .. LiveCount -> SlotValue] /\ LiveCount \in Nat
    BY <1>1, <1>2, <1>3 DEF LogMap
  <1>5. \A i \in 1 .. LiveCount : LogMap[i] = entries[Slot(i - 1)]
    BY DEF LogMap
  <1> QED
    BY <1>4, <1>5, FunSeq

LEMMA LogNext ==
    ASSUME TypeOK'
    PROVE  /\ LogMap' \in Seq(SlotValue) /\ Len(LogMap') = LiveCount'
           /\ DOMAIN LogMap' = 1 .. LiveCount'
           /\ \A i \in 1 .. LiveCount' : LogMap'[i] = entries'[Slot(i - 1)']
  <1> USE RingAssumption
  <1>1. /\ LiveCount' \in 0 .. MaxSize
        /\ \A k \in 0 .. MaxSize - 1 : Slot(k)' \in Slots
    BY HeldNext
  <1>2. entries' \in [Slots -> SlotValue]
    BY DEF TypeOK, SlotValue
  <1>3. \A i \in 1 .. LiveCount' : Slot(i - 1)' \in Slots
    BY <1>1
  <1>4. LogMap' \in [1 .. LiveCount' -> SlotValue] /\ LiveCount' \in Nat
    BY <1>1, <1>2, <1>3 DEF LogMap
  <1>5. \A i \in 1 .. LiveCount' : LogMap'[i] = entries'[Slot(i - 1)']
    BY DEF LogMap
  <1> QED
    BY <1>4, <1>5, FunSeq

LEMMA RefineInit == Init => Log!LogInit
  <1> SUFFICES ASSUME Init PROVE Log!LogInit
    OBVIOUS
  <1>1. LiveCount = 0
    BY DEF Init, LiveCount
  <1>2. LogMap = <<>>
    BY <1>1 DEF LogMap
  <1>3. StoredMap = 0
    BY DEF Init, StoredMap, NoWriter
  <1> QED
    BY <1>2, <1>3 DEF Log!LogInit, LogMap, StoredMap, Init

LEMMA RefineEvict ==
    ASSUME BInv, BInv', AppendEvictForBytes \/ AppendEvictWhenFull
    PROVE  Log!DropOldest
  <1> USE RingAssumption
  <1>1. IInv /\ TypeOK /\ TypeOK'
    BY DEF BInv, IInv
  <1>2. /\ evictOldestLocked /\ wr.pc = "bytes"
        /\ wr' = wr \/ wr' = [wr EXCEPT !.pc = "store"]
        /\ channelTTLs' = channelTTLs /\ now' = now /\ appended' = appended
    BY DEF AppendEvictForBytes, AppendEvictWhenFull
  <1>3. StoredMap' = StoredMap
    <2>1. wr \in Writer
      BY <1>1, <1>2 DEF TypeOK, NoWriter
    <2>2. wr'.pc # "idle"
      BY <1>2, <2>1 DEF Writer
    <2> QED
      BY <1>2, <2>2 DEF StoredMap
  <1>4. LiveCount >= 1 /\ LiveCount' = LiveCount - 1 /\ LiveCount \in 0 .. MaxSize
    BY <1>1, <1>2, EvictBytes, HeldNow
  <1>5. ASSUME NEW i \in 1 .. LiveCount' PROVE LogMap'[i] = LogMap[i + 1]
    <2>1. i + 1 \in 1 .. LiveCount /\ i - 1 \in 0 .. MaxSize - 1 /\ (i + 1) - 1 = i
          /\ i \in 0 .. MaxSize - 1
      BY <1>4
    <2>2. LogMap'[i] = entries'[Slot(i - 1)'] /\ LogMap[i + 1] = entries[Slot(i)]
      BY <1>1, <2>1, LogNow, LogNext
    <2>3. Slot(i - 1)' = Slot(i) /\ Slot(i) # tail /\ Slot(i) \in Slots
      <3>1. tail \in Slots /\ tail' = IF tail + 1 = MaxSize THEN 0 ELSE tail + 1
        BY <1>1, <1>2, SuccSlot DEF TypeOK, evictOldestLocked
      <3>2. /\ Slot(i - 1)' = IF tail' + (i - 1) < MaxSize THEN tail' + (i - 1)
                              ELSE tail' + (i - 1) - MaxSize
            /\ Slot(i) = IF tail + i < MaxSize THEN tail + i ELSE tail + i - MaxSize
            /\ Slot(i) \in Slots
        BY <1>1, <2>1, HeldNow, HeldNext
      <3> QED
        BY <2>1, <3>1, <3>2 DEF Slots
    <2>4. entries'[Slot(i)] = entries[Slot(i)]
      BY <1>1, <1>2, <2>3 DEF TypeOK, evictOldestLocked
    <2> QED
      BY <2>2, <2>3, <2>4
  <1>6. LogMap # <<>> /\ LogMap' = Tail(LogMap)
    <2>1. LogMap \in Seq(SlotValue) /\ Len(LogMap) = LiveCount
      BY <1>1, LogNow
    <2>2. LogMap' \in Seq(SlotValue) /\ Len(LogMap') = LiveCount - 1
      BY <1>1, <1>4, LogNext
    <2>3. \A i \in 1 .. LiveCount - 1 : LogMap'[i] = LogMap[i + 1]
      BY <1>4, <1>5
    <2>4. \A s, t \in Seq(SlotValue) :
            Len(s) >= 1 /\ Len(t) = Len(s) - 1 /\ (\A i \in 1 .. Len(s) - 1 : t[i] = s[i + 1])
              => s # <<>> /\ t = Tail(s)
      OBVIOUS
    <2> QED
      BY <1>4, <2>1, <2>2, <2>3, <2>4
  <1> QED
    BY <1>2, <1>3, <1>6 DEF Log!DropOldest, LogMap, StoredMap

LEMMA RefineStore ==
    ASSUME BInv, BInv', AppendStore
    PROVE  Log!Store(wr.channel, wr.data, wr.size) /\ wr \in Writer
  <1> USE RingAssumption
  <1> DEFINE new == [channel |-> wr.channel, data |-> wr.data, size |-> wr.size,
                     timestamp |-> now]
  <1>1. IInv /\ TypeOK /\ TypeOK' /\ BytesInv /\ FitsInv /\ WriterInv
    BY DEF BInv, IInv
  <1>2. /\ entries' = [entries EXCEPT ![head] = new] /\ wr' = NoWriter /\ tail' = tail
        /\ channelTTLs' = channelTTLs /\ now' = now /\ appended' = appended
        /\ (wr.pc = "bytes" /\ ~OverBudget /\ ~full) \/ wr.pc = "store"
    BY DEF AppendStore
  <1>3. wr \in Writer /\ wr.data = appended /\ wr.pc # "idle" /\ appended \in Nat
    BY <1>1, <1>2 DEF TypeOK, WriterInv, NoWriter
  <1>4. /\ LiveCount' = LiveCount + 1 /\ wr.size \in Nat
        /\ LiveCount \in 0 .. MaxSize /\ LiveCount' \in 0 .. MaxSize
    BY <1>1, StoreBytes, HeldNow, HeldNext
  <1>5. StoredMap = appended - 1 /\ StoredMap' = appended
    BY <1>2, <1>3 DEF StoredMap, NoWriter
  <1>6. Log!Bytes(LogMap) = currentBytes /\ currentBytes \in Nat
    <2>1. /\ Held \in Weights /\ currentBytes = Total(Held)
      BY <1>1, HeldNow DEF BytesInv
    <2>2. Len(LogMap) = LiveCount
      BY <1>1, LogNow
    <2>3. ASSUME NEW k \in 1 .. LiveCount PROVE LogMap[k].size = Held[k - 1]
      <3>1. k - 1 \in 0 .. MaxSize - 1 /\ k - 1 < LiveCount
        BY <1>4
      <3> QED
        BY <1>1, <3>1, LogNow DEF Held
    <2>4. ASSUME NEW k \in 0 .. MaxSize - 1, k >= LiveCount PROVE Held[k] = 0
      BY <1>4, <2>4 DEF Held
    <2>5. Log!Bytes(LogMap) = Total(Held)
      BY <1>4, <2>1, <2>2, <2>3, <2>4, LogBytes
    <2> QED
      BY <2>1, <2>5, TotalNat
  <1>7. MaxBytes = 0 \/ LogMap = <<>> \/ Log!Bytes(LogMap) + wr.size <= MaxBytes
    <2>1. CASE wr.pc = "store"
      BY <1>1, <1>4, <1>6, <2>1 DEF FitsInv
    <2>2. CASE wr.pc = "bytes" /\ ~OverBudget /\ ~full
      <3>1. lenLocked \in 0 .. MaxSize
        BY <1>1, LenBound
      <3>2. CASE lenLocked = 0
        <4>1. LiveCount = 0
          BY <1>1, <2>2, <3>2 DEF lenLocked, LiveCount, TypeOK, Slots
        <4> QED
          BY <4>1 DEF LogMap
      <3>3. CASE lenLocked # 0
        BY <1>4, <1>6, <2>2, <3>1, <3>3 DEF OverBudget
      <3> QED
        BY <3>2, <3>3
    <2> QED
      BY <1>2, <2>1, <2>2
  <1>8. ASSUME NEW i \in 1 .. LiveCount' PROVE LogMap'[i] = IF i <= LiveCount THEN LogMap[i] ELSE new
    <2>1. i - 1 \in 0 .. MaxSize - 1
      BY <1>4
    <2>2. LogMap'[i] = entries'[Slot(i - 1)]
      BY <1>1, <1>2, LogNext DEF Slot
    <2>3. /\ Slot(i - 1) = IF tail + (i - 1) < MaxSize THEN tail + (i - 1)
                           ELSE tail + (i - 1) - MaxSize
          /\ Slot(i - 1) \in Slots
      BY <1>1, <2>1, HeldNow
    <2>4. tail \in Slots /\ head \in Slots /\ full \in BOOLEAN
      BY <1>1 DEF TypeOK
    <2>5. ~(full /\ head = tail)
      BY <1>1, <1>2 DEF WriterInv
    <2>6. Slot(i - 1) = head <=> i - 1 = LiveCount
      BY <1>4, <2>3, <2>4, <2>5 DEF LiveCount, Slots
    <2>7. CASE i <= LiveCount
      <3>1. LogMap[i] = entries[Slot(i - 1)] /\ Slot(i - 1) # head
        BY <1>1, <1>4, <2>6, <2>7, LogNow
      <3> QED
        BY <1>1, <1>2, <2>2, <2>3, <2>7, <3>1 DEF TypeOK
    <2>8. CASE ~(i <= LiveCount)
      <3>1. Slot(i - 1) = head
        BY <1>4, <2>6, <2>8
      <3> QED
        BY <1>1, <1>2, <2>2, <2>4, <2>8, <3>1 DEF TypeOK
    <2> QED
      BY <2>7, <2>8
  <1>9. LogMap' = Append(LogMap, new)
    <2>1. LogMap \in Seq(SlotValue) /\ Len(LogMap) = LiveCount
      BY <1>1, LogNow
    <2>2. LogMap' \in Seq(SlotValue) /\ Len(LogMap') = LiveCount + 1
      BY <1>1, <1>4, LogNext
    <2>3. \A i \in 1 .. LiveCount + 1 : LogMap'[i] = IF i <= LiveCount THEN LogMap[i] ELSE new
      BY <1>4, <1>8
    <2> HIDE DEF new
    <2>4. \A s, t \in Seq(SlotValue) :
            Len(t) = Len(s) + 1 /\ (\A i \in 1 .. Len(s) + 1 : t[i] = IF i <= Len(s) THEN s[i] ELSE new)
              => t = Append(s, new)
      OBVIOUS
    <2> QED
      BY <2>1, <2>2, <2>3, <2>4
  <1>10. StoredMap < wr.data /\ Len(LogMap) < MaxSize /\ StoredMap' = wr.data
    BY <1>1, <1>3, <1>4, <1>5, LogNow
  <1> QED
    BY <1>2, <1>3, <1>7, <1>9, <1>10 DEF Log!Store, LogMap, StoredMap

\* The code's age limit is the log's: the smaller of the two that are set.
LEMMA SameAge ==
    ASSUME TypeOK, NEW ch \in Channels
    PROVE  Log!AgeLimit(ch) = EffectiveAge(ch) /\ EffectiveAge(ch) \in Nat
  <1> USE RingAssumption
  <1>1. channelTTLs[ch] \in Nat
    BY DEF TypeOK
  <1>2. \A a, b \in Nat : /\ Log!Min({a, b}) = IF a < b THEN a ELSE b
                          /\ Log!Max({a, b}) = IF a < b THEN b ELSE a
    <2> SUFFICES ASSUME NEW a \in Nat, NEW b \in Nat
                 PROVE  /\ Log!Min({a, b}) = IF a < b THEN a ELSE b
                        /\ Log!Max({a, b}) = IF a < b THEN b ELSE a
      OBVIOUS
    <2>1. /\ \A x \in {a, b} : (\A y \in {a, b} : x <= y) <=> x = (IF a < b THEN a ELSE b)
          /\ \A x \in {a, b} : (\A y \in {a, b} : x >= y) <=> x = (IF a < b THEN b ELSE a)
      OBVIOUS
    <2>2. (IF a < b THEN a ELSE b) \in {a, b} /\ (IF a < b THEN b ELSE a) \in {a, b}
      OBVIOUS
    <2> QED
      BY <2>1, <2>2 DEF Log!Min, Log!Max
  <1> QED
    BY <1>1, <1>2 DEF Log!AgeLimit, EffectiveAge

LEMMA RefineExpire ==
    ASSUME BInv, BInv', evictExpired
    PROVE  Log!Expire
  <1> USE RingAssumption
  <1> DEFINE scan == 0 .. lenLocked - 1
             dead == {i \in scan : entryExpired(entries[Slot(i)])}
             live == scan \ dead
             n == Cardinality(live)
             P == {i \in DOMAIN LogMap : Log!Alive(LogMap[i])}
  <1>1. IInv /\ TypeOK /\ TypeOK' /\ RingInv /\ lenLocked \in 0 .. MaxSize
    BY LenBound DEF BInv, IInv
  <1>2. /\ tail \in Slots /\ head \in Slots /\ full \in BOOLEAN
        /\ LiveCount \in 0 .. MaxSize /\ LiveCount <= lenLocked
    <2>1. tail \in Slots /\ head \in Slots /\ full \in BOOLEAN /\ LiveCount \in 0 .. MaxSize
      BY <1>1, HeldNow DEF TypeOK
    <2>2. LiveCount <= lenLocked
      BY <2>1 DEF LiveCount, lenLocked, Slots
    <2> QED
      BY <2>1, <2>2
  <1>3. ASSUME NEW k \in 0 .. MaxSize - 1
        PROVE  /\ Slot(k) \in Slots
               /\ entries[Slot(k)] # EmptyEntry <=> k < LiveCount
    <2>1. Slot(k) = (IF tail + k < MaxSize THEN tail + k ELSE tail + k - MaxSize)
      BY <1>1, HeldNow
    <2>2. Slot(k) \in Slots
      BY <1>1, HeldNow
    <2>3. Occupied(Slot(k)) <=> k < LiveCount
      BY <1>2, <2>1 DEF LiveCount, Occupied, Slots
    <2> QED
      BY <1>1, <2>2, <2>3 DEF RingInv
  <1>4. ASSUME NEW k \in 0 .. LiveCount - 1
        PROVE  Log!Alive(entries[Slot(k)]) <=> ~entryExpired(entries[Slot(k)])
    <2> DEFINE e == entries[Slot(k)]
    <2>1. k \in 0 .. MaxSize - 1 /\ k < LiveCount
      BY <1>2
    <2>2. e \in Entry /\ e.timestamp # 0
      BY <1>1, <1>3, <2>1, SlotTypes
    <2>3. e.channel \in Channels /\ e.timestamp \in Nat /\ now \in Nat
      BY <1>1, <2>2 DEF Entry, TypeOK
    <2> HIDE DEF e
    <2>4. Log!AgeLimit(e.channel) = EffectiveAge(e.channel) /\ EffectiveAge(e.channel) \in Nat
      BY <1>1, <2>3, SameAge
    <2>5. Log!Alive(e) <=> ~entryExpired(e)
      BY <2>2, <2>3, <2>4 DEF Log!Alive, entryExpired
    <2> QED
      BY <2>5 DEF e
  <1>5. live = {k \in 0 .. LiveCount - 1 : ~entryExpired(entries[Slot(k)])}
    <2>1. ASSUME NEW k \in scan, ~(k < LiveCount) PROVE entryExpired(entries[Slot(k)])
      <3>1. k \in 0 .. MaxSize - 1
        BY <1>1
      <3>2. entries[Slot(k)].timestamp = 0
        BY <1>3, <2>1, <3>1 DEF EmptyEntry
      <3> QED
        BY <3>2 DEF entryExpired
    <2>2. \A k \in 0 .. LiveCount - 1 : k \in scan /\ k < LiveCount
      BY <1>1, <1>2
    <2>3. \A k \in scan : k < LiveCount => k \in 0 .. LiveCount - 1
      BY <1>1, <1>2
    <2> HIDE DEF scan
    <2> QED
      BY <2>1, <2>2, <2>3
  <1>6. live \in SUBSET Nat /\ IsFiniteSet(live) /\ n \in Nat
    <2>1. IsFiniteSet(scan) /\ scan \subseteq Nat
      BY <1>1, FS_Interval
    <2> QED
      BY <2>1, FS_Subset, FS_CardinalityType
  <1>7. PICK kept \in InOrder(live) :
          entries' = [j \in Slots |-> IF j < n THEN entries[Slot(kept[j + 1])]
                                               ELSE EmptyEntry]
    BY DEF evictExpired
  <1>8. /\ kept \in [1 .. n -> live]
        /\ \A i, j \in 1 .. n : i < j => kept[i] < kept[j]
    BY <1>7 DEF InOrder
  <1>9. \A k \in live : \E i \in 1 .. n : kept[i] = k
    BY <1>6, ListsAll
  <1>10. /\ tail' = 0 /\ full' = (n = MaxSize) /\ head' = n % MaxSize
         /\ channelTTLs' = channelTTLs /\ now' = now /\ wr' = wr /\ appended' = appended
    BY DEF evictExpired
  <1> HIDE DEF n, live
  <1>11. LiveCount' = n
    <2>1. n <= MaxSize
      <3>1. live \subseteq 0 .. LiveCount - 1
        BY <1>5
      <3>2. LiveCount \in Nat /\ 0 \in Int /\ LiveCount - 1 \in Int
        BY <1>2
      <3>3. IsFiniteSet(0 .. LiveCount - 1) /\ Cardinality(0 .. LiveCount - 1) = LiveCount
        BY ONLY <3>2, FS_Interval
      <3>4. Cardinality(live) <= Cardinality(0 .. LiveCount - 1)
        BY ONLY <3>1, <3>3, FS_Subset
      <3> QED
        BY <1>2, <1>6, <3>3, <3>4 DEF n
    <2>2. head' = IF n = MaxSize THEN 0 ELSE n
      BY <1>6, <1>10, <2>1
    <2>3. full' <=> (n = MaxSize)
      BY <1>10
    <2> QED
      BY <1>6, <1>10, <2>1, <2>2, <2>3 DEF LiveCount
  <1> DEFINE up == [i \in 1 .. n |-> kept[i] + 1]
  <1>12. /\ up \in [1 .. n -> 1 .. LiveCount]
         /\ \A i, j \in 1 .. n : i < j => up[i] < up[j]
    <2>1. \A k \in live : k \in 0 .. LiveCount - 1 /\ k + 1 \in 1 .. LiveCount
      BY <1>2, <1>5
    <2>2. \A i \in 1 .. n : kept[i] \in Nat /\ kept[i] + 1 \in 1 .. LiveCount
      BY <1>2, <1>8, <2>1
    <2> QED
      BY <1>8, <2>2
  <1>13. ASSUME NEW k \in 1 .. LiveCount PROVE k \in P <=> \E i \in 1 .. n : up[i] = k
    <2>1. k - 1 \in 0 .. LiveCount - 1 /\ LogMap[k] = entries[Slot(k - 1)] /\ k \in DOMAIN LogMap
      BY <1>1, <1>2, LogNow
    <2>2. k \in P <=> k - 1 \in live
      BY <1>4, <1>5, <2>1
    <2>3. k - 1 \in live <=> \E i \in 1 .. n : kept[i] = k - 1
      BY <1>8, <1>9
    <2>4. \A i \in 1 .. n : kept[i] = k - 1 <=> up[i] = k
      <3> SUFFICES ASSUME NEW i \in 1 .. n PROVE kept[i] = k - 1 <=> up[i] = k
        OBVIOUS
      <3>1. kept[i] \in Nat /\ up[i] = kept[i] + 1
        BY <1>6, <1>8
      <3> QED
        BY <3>1
    <2> HIDE DEF P, up
    <2> QED
      BY <2>2, <2>3, <2>4
  <1>14. ASSUME NEW i \in 1 .. n PROVE LogMap'[i] = LogMap[up[i]]
    <2>1. LogMap'[i] = entries'[Slot(i - 1)']
      BY <1>1, <1>11, LogNext
    <2>2. i - 1 \in 0 .. MaxSize - 1 /\ i - 1 \in Slots /\ i - 1 < n /\ (i - 1) + 1 = i
      <3>1. LiveCount' \in 0 .. MaxSize
        BY <1>1, HeldNext
      <3> QED
        BY <1>6, <1>11, <3>1 DEF Slots
    <2>3. Slot(i - 1)' = i - 1
      <3>1. Slot(i - 1)' = (0 + (i - 1)) % MaxSize
        BY <1>10 DEF Slot
      <3> QED
        BY <2>2, <3>1
    <2>4. entries'[i - 1] = entries[Slot(kept[i])]
      BY <1>7, <2>2
    <2>5. kept[i] \in Nat /\ up[i] = kept[i] + 1 /\ up[i] \in 1 .. LiveCount /\ up[i] - 1 = kept[i]
      <3>1. kept[i] \in Nat /\ up[i] = kept[i] + 1
        BY <1>6, <1>8
      <3> HIDE DEF up
      <3>2. up[i] \in 1 .. LiveCount
        BY <1>12
      <3> QED
        BY <3>1, <3>2
    <2>6. LogMap[up[i]] = entries[Slot(kept[i])]
      BY <1>1, <2>5, LogNow
    <2> QED
      BY <2>1, <2>3, <2>4, <2>6
  <1>15. LogMap' \in [1 .. n -> SlotValue]
    <2>1. LogMap' \in Seq(SlotValue) /\ Len(LogMap') = n
      BY <1>1, <1>11, LogNext
    <2> QED
      BY <2>1
  <1>16. LogMap' = Log!Picked(LogMap, P)
    <2>1. Len(LogMap) = LiveCount /\ LiveCount \in Nat /\ n \in Nat
      BY <1>1, <1>2, <1>6, LogNow
    <2>2. \A k \in 1 .. LiveCount : k \in P <=> \E i \in 1 .. n : up[i] = k
      BY <1>13
    <2>3. \A i \in 1 .. n : LogMap'[i] = LogMap[up[i]]
      BY <1>14
    <2> HIDE DEF P, up
    <2> QED
      <3>1. Picks(LogMap, P, LiveCount, n, up, LogMap')
        BY ONLY <1>12, <1>15, <2>1, <2>2, <2>3 DEF Picks
      <3> QED
        BY <3>1, LogPicked
  <1>17. StoredMap' = StoredMap
    BY <1>10 DEF StoredMap
  <1> QED
    BY <1>10, <1>16, <1>17 DEF Log!Expire, LogMap, StoredMap

LEMMA RefineQuiet ==
    ASSUME BInv, UNCHANGED ring
    PROVE  LogMap' = LogMap
  <1>1. entries' = entries /\ head' = head /\ tail' = tail /\ full' = full
    BY DEF ring
  <1>2. LiveCount' = LiveCount
    BY <1>1, Zenon DEF LiveCount
  <1> QED
    BY <1>1, <1>2, Zenon DEF LogMap, Slot

LEMMA RefineNext == BInv /\ BInv' /\ [Next]_ringVars => [Log!LogNext]_(Log!logVars)
  <1> SUFFICES ASSUME BInv, BInv', [Next]_ringVars
               PROVE  Log!LogNext \/ UNCHANGED Log!logVars
    OBVIOUS
  <1> USE RingAssumption
  <1>1. TypeOK
    BY DEF BInv, IInv
  <1>2. ASSUME NEW ch \in Channels, NEW sz \in Sizes, AppendLock(ch, sz)
        PROVE  UNCHANGED Log!logVars
    <2>1. LogMap' = LogMap
      BY <1>2, RefineQuiet DEF AppendLock
    <2>2. StoredMap' = StoredMap /\ channelTTLs' = channelTTLs /\ now' = now
      BY <1>1, <1>2 DEF AppendLock, StoredMap, TypeOK
    <2> QED
      BY <2>1, <2>2 DEF Log!logVars, LogMap, StoredMap
  <1>3. ASSUME AppendEvictForBytes \/ AppendEvictWhenFull PROVE Log!LogNext
    BY <1>3, RefineEvict DEF Log!LogNext
  <1>4. ASSUME AppendStore PROVE Log!LogNext
    <2>1. Log!Store(wr.channel, wr.data, wr.size)
      BY <1>4, RefineStore
    <2>2. wr.channel \in Channels /\ wr.data \in 1 .. MaxAppends /\ wr.size \in Sizes
      BY <1>4, RefineStore DEF Writer, Payloads
    <2> QED
      BY <2>1, <2>2 DEF Log!LogNext
  <1>5. ASSUME NEW ch \in Channels, NEW ttl \in TTLs, SetChannelTTL(ch, ttl)
        PROVE  Log!SetTTL(ch, ttl)
    <2>1. LogMap' = LogMap
      BY <1>5, RefineQuiet DEF SetChannelTTL
    <2> QED
      BY <1>5, <2>1 DEF SetChannelTTL, Log!SetTTL, LogMap
  <1>6. ASSUME evictExpired PROVE Log!LogNext
    BY <1>6, RefineExpire DEF Log!LogNext
  <1>7. ASSUME Tick PROVE Log!LogTick
    <2>1. LogMap' = LogMap
      BY <1>7, RefineQuiet DEF Tick
    <2> QED
      BY <1>7, <2>1 DEF Tick, Log!LogTick, LogMap
  <1>8. ASSUME UNCHANGED ringVars PROVE UNCHANGED Log!logVars
    <2>1. LogMap' = LogMap
      BY <1>8, RefineQuiet DEF ringVars
    <2> QED
      BY <1>8, <2>1 DEF ringVars, Log!logVars, LogMap
  <1> QED
    BY <1>2, <1>3, <1>4, <1>5, <1>6, <1>7, <1>8 DEF Next, Log!LogNext

\* For every capacity, byte budget, age limit and set of channels the ring is a
\* bounded log: entries enter at the young end, once there is room, and leave at
\* the old end or because they expired; Append, evictOldestLocked, evictExpired
\* and SetChannelTTL never reorder, alter or bring back an entry.
THEOREM ImplementsLog == Spec => ImplementsRetainedLog
  <1>1. Spec => Log!LogInit
    BY RefineInit DEF Spec
  <1>2. Spec => [][Log!LogNext]_(Log!logVars)
    BY BytesInductive, RefineNext, PTL DEF Spec
  <1> QED
    BY <1>1, <1>2 DEF ImplementsRetainedLog, Log!LogSpec

===============================================================================
