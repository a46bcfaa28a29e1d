----------------------------- MODULE ThrottleProofs -----------------------------
(***************************************************************************)
(* Proofs about Throttle for every number of addresses, accounts and       *)
(* requests and every sequence of configurations.                          *)
(***************************************************************************)
EXTENDS Throttle, FiniteSetTheorems, WellFoundedInduction, TLAPS

--------------------------------------------------------------------------------
(* Induction, from the well-foundedness of < on Nat                         *)

LEMMA Least ==
  ASSUME NEW T \in SUBSET Nat, T # {}
  PROVE  \E n \in T : \A m \in T : n <= m
  <1> DEFINE R == OpToRel(<, Nat)
  <1>1. IsWellFoundedOn(R, Nat)
    BY NatLessThanWellFounded
  <1>2. \E x \in T : \A y \in T : ~(<<y, x>> \in R)
    BY <1>1, WFMin
  <1>3. \A x, y \in Nat : <<y, x>> \in R <=> y < x
    BY DEF OpToRel
  <1> HIDE DEF R
  <1>4. PICK n \in T : \A m \in T : ~(<<m, n>> \in R)
    BY <1>2
  <1>5. ASSUME NEW m \in T PROVE n <= m
    <2>1. ~(m < n)
      BY <1>3, <1>4
    <2> QED
      BY <2>1
  <1> QED
    BY <1>5

LEMMA Induct ==
  ASSUME NEW T \in SUBSET Nat, 0 \in T, \A n \in T : n + 1 \in T
  PROVE  T = Nat
  <1> SUFFICES ASSUME Nat \ T # {} PROVE FALSE
    OBVIOUS
  <1>1. PICK n \in Nat \ T : \A m \in Nat \ T : n <= m
    BY Least
  <1>2. n # 0 /\ n - 1 \in Nat
    OBVIOUS
  <1>3. n - 1 \in T
    BY <1>1, <1>2
  <1> QED
    BY <1>2, <1>3

\* A sequence that is not empty is a shorter one and a last element.
LEMMA Split ==
  ASSUME NEW s \in Seq(Int), NEW n \in Nat, Len(s) = n + 1
  PROVE  \E f \in Seq(Int), x \in Int : Len(f) = n /\ s = Append(f, x)
  <1> DEFINE f == [i \in 1 .. n |-> s[i]]
  <1>1. f \in Seq(Int) /\ Len(f) = n /\ s[n + 1] \in Int
    OBVIOUS
  <1>2. s = Append(f, s[n + 1])
    OBVIOUS
  <1> HIDE DEF f
  <1> QED
    BY <1>1, <1>2

--------------------------------------------------------------------------------
(* The filter of time stamps                                                *)

\* One round of the loop.
Pick(s, x, t) == IF x > t THEN Append(s, x) ELSE s

\* The recursion of After over the first n time stamps, with values in f.
Picks(f, ts, t, n) == /\ DOMAIN f = 0 .. n /\ f[0] = <<>>
                      /\ \A i \in 1 .. n : f[i] = Pick(f[i - 1], ts[i], t)

LEMMA PicksExists ==
  ASSUME NEW ts \in Seq(Int), NEW t \in Int
  PROVE  \A n \in Nat : \E f : Picks(f, ts, t, n) /\ f = [i \in 0 .. n |-> f[i]]
  <1> DEFINE P(f, n) == Picks(f, ts, t, n) /\ f = [i \in 0 .. n |-> f[i]]
             T == {n \in Nat : \E f : P(f, n)}
  <1>1. 0 \in T
    <2> DEFINE f == [i \in 0 .. 0 |-> <<>>]
    <2>1. P(f, 0)
      BY DEF Picks
    <2> QED
      BY <2>1
  <1>2. ASSUME NEW n \in T PROVE n + 1 \in T
    <2>1. PICK f : Picks(f, ts, t, n)
      BY <1>2
    <2> DEFINE g == [i \in 0 .. n + 1 |-> IF i = n + 1 THEN Pick(f[n], ts[i], t) ELSE f[i]]
    <2>2. ASSUME NEW i \in 1 .. n + 1 PROVE g[i] = Pick(g[i - 1], ts[i], t)
      <3>1. CASE i = n + 1
        BY <3>1
      <3>2. CASE i \in 1 .. n
        <4>1. f[i] = Pick(f[i - 1], ts[i], t)
          BY <2>1, <3>2 DEF Picks
        <4> QED
          BY <3>2, <4>1
      <3> QED
        BY <3>1, <3>2
    <2>3. P(g, n + 1)
      BY <2>1, <2>2 DEF Picks
    <2> HIDE DEF g, P
    <2>4. \E h : P(h, n + 1)
      BY <2>3
    <2> QED
      BY <2>4
  <1> HIDE DEF T
  <1>3. T = Nat
    BY <1>1, <1>2, Induct DEF T
  <1> QED
    BY <1>3 DEF T

LEMMA AfterPicks ==
  ASSUME NEW ts \in Seq(Int), NEW t \in Int
  PROVE  \E f : Picks(f, ts, t, Len(ts)) /\ After(ts, t) = f[Len(ts)]
  <1> DEFINE H(f) == [i \in 0 .. Len(ts) |->
                        IF i = 0 THEN <<>>
                        ELSE IF ts[i] > t THEN Append(f[i - 1], ts[i]) ELSE f[i - 1]]
             g == CHOOSE f : f = H(f)
  <1>a. Len(ts) \in Nat
    OBVIOUS
  <1>1. PICK f : Picks(f, ts, t, Len(ts)) /\ f = [i \in 0 .. Len(ts) |-> f[i]]
    BY <1>a, PicksExists, Zenon
  <1>0. 0 \in 0 .. Len(ts)
    OBVIOUS
  <1>2. \A h : DOMAIN H(h) = 0 .. Len(ts) /\ H(h)[0] = <<>>
    BY <1>0, Zenon
  <1>3. \A h : \A i \in 1 .. Len(ts) : H(h)[i] = Pick(h[i - 1], ts[i], t)
    BY DEF Pick
  <1>4. H(f) = [i \in 0 .. Len(ts) |-> H(f)[i]]
    OBVIOUS
  <1>5. After(ts, t) = g[Len(ts)]
    BY Zenon DEF After
  <1>6. (\E h : h = H(h)) => g = H(g)
    BY Zenon
  <1> HIDE DEF g, H
  <1>7. ASSUME NEW i \in 0 .. Len(ts) PROVE H(f)[i] = f[i]
    <2>1. Picks(f, ts, t, Len(ts))
      BY <1>1
    <2>2. i = 0 \/ i \in 1 .. Len(ts)
      OBVIOUS
    <2> QED
      BY <1>2, <1>3, <2>1, <2>2 DEF Picks
  <1>8. f = H(f)
    BY <1>1, <1>4, <1>7
  <1>9. g = H(g)
    BY <1>6, <1>8
  <1>10. Picks(g, ts, t, Len(ts))
    <2>1. DOMAIN H(g) = 0 .. Len(ts) /\ H(g)[0] = <<>>
      BY <1>2
    <2>2. \A i \in 1 .. Len(ts) : H(g)[i] = Pick(g[i - 1], ts[i], t)
      BY <1>3
    <2> QED
      BY <1>9, <2>1, <2>2, Zenon DEF Picks
  <1> QED
    BY <1>5, <1>10

LEMMA AfterEmpty ==
  ASSUME NEW t \in Int
  PROVE  After(<<>>, t) = <<>>
  <1>1. <<>> \in Seq(Int) /\ Len(<<>>) = 0
    OBVIOUS
  <1>2. PICK f : Picks(f, <<>>, t, 0) /\ After(<<>>, t) = f[0]
    BY <1>1, AfterPicks
  <1> QED
    BY <1>2 DEF Picks

\* One more time stamp is taken or left.
LEMMA AfterAppend ==
  ASSUME NEW ts \in Seq(Int), NEW x \in Int, NEW t \in Int
  PROVE  After(Append(ts, x), t) = Pick(After(ts, t), x, t)
  <1> DEFINE us == Append(ts, x)
  <1>1. /\ us \in Seq(Int) /\ Len(us) = Len(ts) + 1 /\ us[Len(us)] = x
        /\ \A i \in 1 .. Len(ts) : us[i] = ts[i]
    OBVIOUS
  <1> HIDE DEF us
  <1>2. PICK f : Picks(f, ts, t, Len(ts)) /\ After(ts, t) = f[Len(ts)]
    BY AfterPicks
  <1>3. PICK g : Picks(g, us, t, Len(us)) /\ After(us, t) = g[Len(us)]
    BY <1>1, AfterPicks
  <1> DEFINE T == {n \in Nat : n <= Len(ts) => g[n] = f[n]}
  <1>4. 0 \in T
    BY <1>1, <1>2, <1>3 DEF Picks
  <1>5. ASSUME NEW n \in T PROVE n + 1 \in T
    <2> SUFFICES ASSUME n + 1 <= Len(ts) PROVE g[n + 1] = f[n + 1]
      OBVIOUS
    <2>1. n + 1 \in 1 .. Len(ts) /\ us[n + 1] = ts[n + 1] /\ g[n] = f[n]
      BY <1>1
    <2>2. f[n + 1] = Pick(f[n], ts[n + 1], t)
      BY <1>2, <2>1 DEF Picks
    <2>3. g[n + 1] = Pick(g[n], us[n + 1], t)
      BY <1>1, <1>3, <2>1 DEF Picks
    <2> QED
      BY <2>1, <2>2, <2>3
  <1>6. g[Len(ts)] = f[Len(ts)]
    <2> HIDE DEF T
    <2>1. T = Nat
      BY <1>4, <1>5, Induct DEF T
    <2> QED
      BY <2>1 DEF T
  <1>7. g[Len(us)] = Pick(g[Len(ts)], x, t)
    BY <1>1, <1>3 DEF Picks
  <1> QED
    BY <1>2, <1>3, <1>6, <1>7 DEF us

AtMost(s, m) == \A k \in 1 .. Len(s) : s[k] <= m

\* The filter returns time stamps, no more than there were and none beyond
\* what bounds them; none at all when the bound is the threshold.
LEMMA AfterType ==
  ASSUME NEW t \in Int
  PROVE  \A s \in Seq(Int) : /\ After(s, t) \in Seq(Int) /\ Len(After(s, t)) <= Len(s)
                             /\ \A m \in Int : AtMost(s, m) => AtMost(After(s, t), m)
                             /\ AtMost(s, t) => After(s, t) = <<>>
  <1> DEFINE P(s) == /\ After(s, t) \in Seq(Int) /\ Len(After(s, t)) <= Len(s)
                     /\ \A m \in Int : AtMost(s, m) => AtMost(After(s, t), m)
                     /\ AtMost(s, t) => After(s, t) = <<>>
             T == {n \in Nat : \A s \in Seq(Int) : Len(s) = n => P(s)}
  <1>1. 0 \in T
    <2>1. ASSUME NEW s \in Seq(Int), Len(s) = 0 PROVE P(s)
      <3>1. s = <<>>
        BY <2>1
      <3>2. After(s, t) = s
        BY <3>1, AfterEmpty
      <3>3. After(s, t) \in Seq(Int) /\ Len(After(s, t)) <= Len(s)
        BY <3>2
      <3>4. \A m \in Int : AtMost(s, m) => AtMost(After(s, t), m)
        BY <3>2, Zenon
      <3> QED
        BY <3>1, <3>2, <3>3, <3>4
    <2> QED
      BY <2>1
  <1>2. ASSUME NEW n \in T PROVE n + 1 \in T
    <2>1. ASSUME NEW s \in Seq(Int), Len(s) = n + 1 PROVE P(s)
      <3>1. PICK f \in Seq(Int), x \in Int : Len(f) = n /\ s = Append(f, x)
        BY <2>1, Split
      <3>2. P(f)
        BY <3>1
      <3>3. After(s, t) = Pick(After(f, t), x, t)
        BY <3>1, AfterAppend
      <3>4. s[n + 1] = x /\ \A k \in 1 .. n : s[k] = f[k]
        BY <3>1
      <3>5. After(s, t) \in Seq(Int) /\ Len(After(s, t)) <= Len(s)
        BY <3>1, <3>2, <3>3 DEF Pick
      <3>6. ASSUME NEW m \in Int, AtMost(s, m) PROVE AtMost(After(s, t), m)
        <4>1. x <= m /\ AtMost(f, m)
          BY <3>1, <3>4, <3>6 DEF AtMost
        <4>2. AtMost(After(f, t), m) /\ After(f, t) \in Seq(Int)
          BY <3>2, <4>1
        <4> QED
          BY <3>3, <4>1, <4>2 DEF AtMost, Pick
      <3>7. ASSUME AtMost(s, t) PROVE After(s, t) = <<>>
        <4>1. x <= t /\ AtMost(f, t)
          BY <3>1, <3>4, <3>7 DEF AtMost
        <4> QED
          BY <3>2, <3>3, <4>1 DEF Pick
      <3> QED
        BY <3>5, <3>6, <3>7
    <2> HIDE DEF P
    <2> QED
      BY <2>1
  <1> HIDE DEF T, P
  <1>3. T = Nat
    BY <1>1, <1>2, Induct DEF T
  <1>4. \A s \in Seq(Int) : P(s)
    BY <1>3 DEF T
  <1> QED
    BY <1>4 DEF P

\* Filtering twice is filtering with the later threshold.
LEMMA AfterAfter ==
  ASSUME NEW a \in Int, NEW b \in Int, a <= b
  PROVE  \A s \in Seq(Int) : After(After(s, a), b) = After(s, b)
  <1> DEFINE P(s) == After(After(s, a), b) = After(s, b)
             T == {n \in Nat : \A s \in Seq(Int) : Len(s) = n => P(s)}
  <1>1. 0 \in T
    <2>1. ASSUME NEW s \in Seq(Int), Len(s) = 0 PROVE P(s)
      <3>1. s = <<>>
        BY <2>1
      <3> QED
        BY <3>1, AfterEmpty
    <2> QED
      BY <2>1
  <1>2. ASSUME NEW n \in T PROVE n + 1 \in T
    <2>1. ASSUME NEW s \in Seq(Int), Len(s) = n + 1 PROVE P(s)
      <3>1. PICK f \in Seq(Int), x \in Int : Len(f) = n /\ s = Append(f, x)
        BY <2>1, Split
      <3>2. P(f)
        BY <3>1
      <3>3. After(s, a) = Pick(After(f, a), x, a) /\ After(s, b) = Pick(After(f, b), x, b)
        BY <3>1, AfterAppend
      <3>4. After(f, a) \in Seq(Int)
        BY AfterType
      <3>5. CASE x > a
        <4>1. After(After(s, a), b) = Pick(After(After(f, a), b), x, b)
          BY <3>3, <3>4, <3>5, AfterAppend DEF Pick
        <4> QED
          BY <3>2, <3>3, <4>1
      <3>6. CASE ~(x > a)
        BY <3>2, <3>3, <3>6 DEF Pick
      <3> QED
        BY <3>5, <3>6
    <2> HIDE DEF P
    <2> QED
      BY <2>1
  <1> HIDE DEF T, P
  <1>3. T = Nat
    BY <1>1, <1>2, Induct DEF T
  <1>4. \A s \in Seq(Int) : P(s)
    BY <1>3 DEF T
  <1> QED
    BY <1>4 DEF P

\* Where the last time stamp is the greatest, it is so after filtering.
LastIsMax(s) == s # <<>> => AtMost(s, s[Len(s)])

LEMMA AfterLast ==
  ASSUME NEW s \in Seq(Int), NEW t \in Int, LastIsMax(s)
  PROVE  LastIsMax(After(s, t))
  <1>1. CASE s = <<>>
    BY <1>1, AfterEmpty DEF LastIsMax
  <1>2. CASE s # <<>>
    <2>1. PICK n \in Nat : Len(s) = n + 1
      <3>1. Len(s) \in Nat /\ Len(s) # 0
        BY <1>2
      <3>2. Len(s) - 1 \in Nat /\ Len(s) = (Len(s) - 1) + 1
        BY <3>1
      <3> QED
        BY <3>2
    <2>2. PICK f \in Seq(Int), x \in Int : Len(f) = n /\ s = Append(f, x)
      BY <2>1, Split
    <2>3. AtMost(s, x)
      BY <1>2, <2>2 DEF LastIsMax
    <2>4. CASE x > t
      <3>1. After(s, t) = Append(After(f, t), x) /\ After(f, t) \in Seq(Int)
        BY <2>2, <2>4, AfterAppend, AfterType DEF Pick
      <3>2. AtMost(After(s, t), x)
        BY <2>3, AfterType
      <3>3. After(s, t)[Len(After(s, t))] = x
        BY <3>1
      <3> QED
        BY <3>2, <3>3 DEF LastIsMax
    <2>5. CASE x <= t
      <3>1. AtMost(s, t)
        BY <2>2, <2>3, <2>5 DEF AtMost
      <3>2. After(s, t) = <<>>
        BY <3>1, AfterType
      <3> QED
        BY <3>2 DEF LastIsMax
    <2> QED
      BY <2>4, <2>5
  <1> QED
    BY <1>1, <1>2

--------------------------------------------------------------------------------
(* The invariant                                                            *)

Entry == [account : Accounts, at : Int]
Flight == [at : {"rate", "login", "verify"}, ip : IPs, account : Accounts, seen : SUBSET Configs]
Limiter == [entries : [IPs -> Seq(Int)], lastSweep : Int]
Tracker == [failures : [IPs -> SUBSET Entry], banned : [IPs -> Int], lastSweep : Int]
History == [let : [IPs -> Seq(Int)], failed : [IPs -> SUBSET Entry],
            tried : [Accounts -> Seq(Int)], span : Int]

TypeInv ==
  /\ now \in 0 .. MaxTime /\ cfg \in Configs
  /\ limiter \in Limiter /\ tracker \in Tracker /\ throttle \in [Accounts -> Seq(Int)]
  /\ req \in [Slots -> {Idle} \cup Flight]
  /\ hist \in History

\* The window a step may use is no shorter than the one the history counts in, and
\* the last entry of an address is its newest.
LimiterInv ==
  /\ \A c \in {cfg} \cup InUse : c.limit => hist.span <= c.window
  /\ \A i \in IPs : AtMost(limiter.entries[i], now) /\ LastIsMax(limiter.entries[i])
  /\ WindowExact

\* The tracker counts nothing that did not fail.
TrackerInv ==
  \A i \in IPs : /\ tracker.failures[i] \subseteq hist.failed[i]
                 /\ IsFiniteSet(hist.failed[i])

\* The throttle forgets no attempt of the cooldown, whatever later moment it is
\* counted from.
ThrottleInv ==
  /\ \A a \in Accounts : \A t \in Int :
       t >= now - cooldown => Len(After(hist.tried[a], t)) <= Len(After(throttle[a], t))
  /\ GuessBound

TInv == TypeInv /\ LimiterInv /\ TrackerInv /\ ThrottleInv
--------------------------------------------------------------------------------
LEMMA ConfigType ==
  ASSUME NEW c \in Configs
  PROVE  /\ c.window \in Int /\ c.requests \in Int /\ c.banWindow \in Int /\ c.failures \in Int
         /\ c.duration \in Nat /\ c.attempts \in Nat /\ c.cooldown \in Nat
         /\ clampWindow(c.window) \in Int /\ clampWindow(c.window) >= c.window
         /\ clampWindow(c.banWindow) \in Int
  BY ThrottleAssumption DEF clampWindow

LEMMA InitTInv == Init => TInv
  <1> SUFFICES ASSUME Init PROVE TInv
    OBVIOUS
  <1>1. TypeInv
    <2>1. cfg.window \in Int /\ MaxTime \in Nat
      BY ConfigType, ThrottleAssumption DEF Init
    <2>2. hist \in History
      BY <2>1 DEF Init, History
    <2>3. limiter \in Limiter /\ tracker \in Tracker
      BY DEF Init, Limiter, Tracker, None
    <2> QED
      BY <2>1, <2>2, <2>3 DEF Init, TypeInv
  <1>2. LimiterInv
    <2>1. InUse = {}
      BY DEF Init, InUse
    <2>2. cfg.limit => hist.span <= cfg.window
      BY <1>1, ConfigType DEF Init, TypeInv
    <2>3. \A i \in IPs : limiter.entries[i] = <<>> /\ hist.let[i] = <<>>
      BY DEF Init
    <2> QED
      BY <2>1, <2>2, <2>3 DEF LimiterInv, WindowExact, AtMost, LastIsMax
  <1>3. TrackerInv
    BY FS_EmptySet DEF Init, TrackerInv
  <1>4. ThrottleInv
    <2>1. \A a \in Accounts : hist.tried[a] = <<>> /\ throttle[a] = <<>>
      BY DEF Init
    <2>2. GuessBound
      <3>1. now - cooldown \in Int /\ cfg.attempts \in Nat
        BY <1>1, ConfigType, ThrottleAssumption DEF cooldown, cooldownOf, TypeInv
      <3>2. After(<<>>, now - cooldown) = <<>>
        BY <3>1, AfterEmpty
      <3> QED
        BY <2>1, <3>1, <3>2 DEF GuessBound
    <2>3. \A a \in Accounts, t \in Int : Len(After(hist.tried[a], t)) <= Len(After(throttle[a], t))
      BY <2>1, AfterEmpty
    <2> QED
      BY <2>2, <2>3 DEF ThrottleInv
  <1> QED
    BY <1>1, <1>2, <1>3, <1>4 DEF TInv

LEMMA LimiterKept ==
  ASSUME LimiterInv, UNCHANGED <<now, cfg, limiter>>, hist'.let = hist.let,
         hist'.span = hist.span, InUse' \subseteq InUse \cup {cfg}
  PROVE  LimiterInv'
  BY DEF LimiterInv, WindowExact

LEMMA TrackerKept ==
  ASSUME TrackerInv, \A i \in IPs : tracker'.failures[i] \subseteq tracker.failures[i],
         hist'.failed = hist.failed
  PROVE  TrackerInv'
  BY DEF TrackerInv

LEMMA ThrottleKept ==
  ASSUME ThrottleInv, UNCHANGED <<now, cfg, throttle>>, hist'.tried = hist.tried
  PROVE  ThrottleInv'
  BY DEF ThrottleInv, GuessBound, cooldown, cooldownOf

LEMMA TrackerOps ==
  ASSUME NEW bt \in Tracker, NEW w \in Int, NEW S, now \in Int
  PROVE  /\ BanSweep(bt, w) \in Tracker /\ Expire(bt, S) \in Tracker
         /\ \A i \in IPs : BanSweep(bt, w).failures[i] \subseteq bt.failures[i]
         /\ Expire(bt, S).failures = bt.failures
         /\ \A i \in IPs : bt.banned[i] > now => /\ BanSweep(bt, w).banned[i] = bt.banned[i]
                                                  /\ Expire(bt, S).banned[i] = bt.banned[i]
         /\ \A i \in IPs : /\ BanSweep(bt, w).banned[i] \in {bt.banned[i], None}
                           /\ Expire(bt, S).banned[i] \in {bt.banned[i], None}
  <1>1. /\ BanSweep(bt, w).failures = [i \in IPs |-> {e \in bt.failures[i] : e.at > now - w}]
        /\ BanSweep(bt, w).banned = [i \in IPs |-> IF bt.banned[i] <= now THEN None
                                                   ELSE bt.banned[i]]
        /\ BanSweep(bt, w).lastSweep = now
    BY DEF BanSweep
  <1>2. /\ Expire(bt, S).banned = [i \in IPs |-> IF i \in S /\ bt.banned[i] <= now
                                                 THEN None ELSE bt.banned[i]]
        /\ Expire(bt, S).failures = bt.failures
    BY DEF Expire, Tracker
  <1>3. BanSweep(bt, w) \in Tracker
    BY DEF BanSweep, Tracker, None
  <1>4. Expire(bt, S) \in Tracker
    BY DEF Expire, Tracker, None
  <1> QED
    BY <1>1, <1>2, <1>3, <1>4 DEF Tracker

\* A request in flight uses configurations of its own; a step leaves the others
\* theirs.
LEMMA UsedIs ==
  ASSUME NEW s \in Slots, req[s] # Idle
  PROVE  req[s].seen \subseteq InUse
  BY DEF InUse

LEMMA UsedNext ==
  ASSUME NEW s \in Slots, NEW r, req \in [Slots -> {Idle} \cup Flight],
         req' = [req EXCEPT ![s] = r], r = Idle \/ r.seen = {cfg}
  PROVE  InUse' \subseteq InUse \cup {cfg}
  <1> SUFFICES ASSUME NEW t \in Slots, req'[t] # Idle
               PROVE  req'[t].seen \subseteq InUse \cup {cfg}
    BY DEF InUse
  <1>1. CASE t = s
    <2>1. req'[t] = r
      BY <1>1
    <2> QED
      BY <2>1
  <1>2. CASE t # s
    <2>1. req'[t] = req[t]
      BY <1>2
    <2> QED
      BY <2>1, UsedIs
  <1> QED
    BY <1>1, <1>2

\* A request at its next step.
LEMMA AtIs ==
  ASSUME NEW r \in Flight, NEW at \in {"rate", "login", "verify"}, cfg \in Configs
  PROVE  At(r, at) \in Flight /\ At(r, at).seen = {cfg}
  BY DEF At, Flight

\* Steps that touch only the tracker, the requests and the bounds.
LEMMA Elsewhere ==
  ASSUME TInv, UNCHANGED <<now, cfg, limiter, throttle, hist>>,
         tracker' \in Tracker, \A i \in IPs : tracker'.failures[i] \subseteq tracker.failures[i],
         req' \in [Slots -> {Idle} \cup Flight], InUse' \subseteq InUse \cup {cfg}
  PROVE  TInv'
  <1>1. TypeInv'
    BY DEF TInv, TypeInv
  <1> QED
    BY <1>1, LimiterKept, TrackerKept, ThrottleKept DEF TInv

LEMMA ArriveStep ==
  ASSUME TInv, NEW s \in Slots, NEW ip \in IPs, NEW a \in Accounts, Arrive(s, ip, a)
  PROVE  TInv'
  <1> DEFINE r == [at |-> "rate", ip |-> ip, account |-> a, seen |-> {cfg}]
  <1>1. tracker \in Tracker /\ now \in Int /\ req \in [Slots -> {Idle} \cup Flight] /\ cfg \in Configs
    BY DEF TInv, TypeInv
  <1>2. r \in Flight /\ r.seen = {cfg}
    BY <1>1 DEF Flight
  <1>3. req' = req \/ req' = [req EXCEPT ![s] = r]
    BY DEF Arrive
  <1> HIDE DEF r
  <1>4. req' \in [Slots -> {Idle} \cup Flight]
    BY <1>1, <1>2, <1>3
  <1>5. InUse' \subseteq InUse \cup {cfg}
    <2>1. CASE req' = req
      BY <2>1 DEF InUse
    <2>2. CASE req' = [req EXCEPT ![s] = r]
      BY <1>1, <1>2, <2>2, UsedNext
    <2> QED
      BY <1>3, <2>1, <2>2
  <1>6. tracker' = tracker \/ tracker' = Expire(tracker, {ip})
    BY DEF Arrive
  <1>7. /\ Expire(tracker, {ip}) \in Tracker
        /\ Expire(tracker, {ip}).failures = tracker.failures
    BY <1>1, TrackerOps
  <1>8. UNCHANGED <<now, cfg, limiter, throttle, hist>>
    BY DEF Arrive
  <1> QED
    BY <1>1, <1>4, <1>5, <1>6, <1>7, <1>8, Elsewhere

LEMMA AdminSteps ==
  ASSUME TInv, ListBans \/ \E ip \in IPs : Unban(ip)
  PROVE  TInv'
  <1>1. tracker \in Tracker /\ now \in Int /\ req \in [Slots -> {Idle} \cup Flight]
    BY DEF TInv, TypeInv
  <1>2. req' = req
    BY DEF ListBans, Unban
  <1>3. InUse' \subseteq InUse \cup {cfg}
    BY <1>2 DEF InUse
  <1>4. CASE ListBans
    <2>1. /\ Expire(tracker, IPs) \in Tracker
          /\ Expire(tracker, IPs).failures = tracker.failures
      BY <1>1, TrackerOps
    <2> QED
      BY <1>1, <1>3, <1>4, <2>1, Elsewhere DEF ListBans
  <1>5. ASSUME NEW ip \in IPs, Unban(ip) PROVE TInv'
    <2>1. tracker' = [tracker EXCEPT !.banned[ip] = None]
      BY <1>5 DEF Unban
    <2>2. tracker' \in Tracker /\ tracker'.failures = tracker.failures
      BY <1>1, <2>1 DEF Tracker, None
    <2> QED
      BY <1>1, <1>3, <1>5, <2>2, Elsewhere DEF Unban
  <1> QED
    BY <1>4, <1>5

\* What a sweep, a count and the recording of a request leave of an address.
LEMMA AllowKeeps ==
  ASSUME TInv, NEW c \in Configs, c.limit, hist.span <= c.window, NEW ip \in IPs
  PROVE  LET res == Allow(limiter, ip, c)
         IN  /\ res.rl \in Limiter
             /\ \A i \in IPs :
                  /\ AtMost(res.rl.entries[i], now) /\ LastIsMax(res.rl.entries[i])
                  /\ After(res.rl.entries[i], now - hist.span)
                       = IF i = ip /\ res.ok
                         THEN Pick(After(limiter.entries[i], now - hist.span), now, now - hist.span)
                         ELSE After(limiter.entries[i], now - hist.span)
  <1> DEFINE t == now - hist.span
             w == clampWindow(c.window)
             swept == RateMaybeSweep(limiter, w)
             valid == After(swept.entries[ip], now - c.window)
             ok == Len(valid) < c.requests
             new == IF ok THEN Append(valid, now) ELSE valid
  <1>1. /\ limiter \in Limiter /\ now \in Int /\ hist.span \in Int /\ c.window \in Int
        /\ w \in Int /\ w >= c.window /\ hist.span <= c.window /\ t \in Int
        /\ now - w <= now - c.window /\ now - c.window <= t /\ now - c.window \in Int
    BY ConfigType DEF TInv, TypeInv, LimiterInv, History
  <1>2. ASSUME NEW i \in IPs
        PROVE  /\ limiter.entries[i] \in Seq(Int)
               /\ AtMost(limiter.entries[i], now) /\ LastIsMax(limiter.entries[i])
    BY <1>1 DEF TInv, LimiterInv, Limiter
  <1>3. swept \in Limiter
    <2> DEFINE E == [i \in IPs |->
                       IF limiter.entries[i] # <<>> /\ Last(limiter.entries[i]) < now - w
                       THEN <<>> ELSE limiter.entries[i]]
    <2>1. E \in [IPs -> Seq(Int)]
      BY <1>2
    <2>2. swept = limiter \/ swept = [limiter EXCEPT !.lastSweep = now, !.entries = E]
      BY DEF RateMaybeSweep, RateSweep
    <2> HIDE DEF E
    <2> QED
      BY <1>1, <2>1, <2>2 DEF Limiter
  <1>4. ASSUME NEW i \in IPs
        PROVE  \/ swept.entries[i] = limiter.entries[i]
               \/ /\ swept.entries[i] = <<>> /\ limiter.entries[i] # <<>>
                  /\ limiter.entries[i][Len(limiter.entries[i])] < now - w
    BY <1>1 DEF RateMaybeSweep, RateSweep, Limiter, Last
  <1> HIDE DEF swept, w, t
  <1>5. ASSUME NEW i \in IPs
        PROVE  /\ swept.entries[i] \in Seq(Int)
               /\ AtMost(swept.entries[i], now) /\ LastIsMax(swept.entries[i])
               /\ After(swept.entries[i], t) = After(limiter.entries[i], t)
    <2>1. CASE swept.entries[i] = limiter.entries[i]
      BY <1>2, <2>1
    <2>2. CASE /\ swept.entries[i] = <<>> /\ limiter.entries[i] # <<>>
               /\ limiter.entries[i][Len(limiter.entries[i])] < now - w
      <3>1. AtMost(limiter.entries[i], t)
        <4> SUFFICES ASSUME NEW k \in 1 .. Len(limiter.entries[i])
                     PROVE  limiter.entries[i][k] <= t
          BY DEF AtMost
        <4>1. /\ limiter.entries[i][k] \in Int
              /\ limiter.entries[i][Len(limiter.entries[i])] \in Int
          BY <1>2, <2>2
        <4>2. limiter.entries[i][k] <= limiter.entries[i][Len(limiter.entries[i])]
          BY <1>2, <2>2 DEF AtMost, LastIsMax
        <4>3. now - w \in Int /\ now - w <= t
          BY <1>1
        <4> QED
          BY <1>1, <2>2, <4>1, <4>2, <4>3
      <3>2. After(limiter.entries[i], t) = <<>> /\ After(<<>>, t) = <<>>
        BY <1>1, <1>2, <3>1, AfterType, AfterEmpty
      <3>3. AtMost(<<>>, now) /\ LastIsMax(<<>>)
        BY DEF AtMost, LastIsMax
      <3> QED
        BY <2>2, <3>2, <3>3
    <2> QED
      BY <1>4, <2>1, <2>2
  <1>6. /\ valid \in Seq(Int) /\ AtMost(valid, now) /\ LastIsMax(valid)
        /\ After(valid, t) = After(swept.entries[ip], t)
    <2>1. /\ swept.entries[ip] \in Seq(Int) /\ AtMost(swept.entries[ip], now)
          /\ LastIsMax(swept.entries[ip])
      BY <1>5
    <2>2. now - c.window \in Int /\ t \in Int /\ now \in Int /\ now - c.window <= t
      BY <1>1
    <2>3. valid = After(swept.entries[ip], now - c.window)
      OBVIOUS
    <2>4. valid \in Seq(Int) /\ AtMost(valid, now)
      BY <2>1, <2>2, <2>3, AfterType
    <2>5. LastIsMax(valid)
      BY <2>1, <2>2, <2>3, AfterLast
    <2>6. After(valid, t) = After(swept.entries[ip], t)
      BY <2>1, <2>2, <2>3, AfterAfter
    <2> QED
      BY <2>4, <2>5, <2>6
  <1> HIDE DEF valid
  <1>7. /\ new \in Seq(Int) /\ AtMost(new, now) /\ LastIsMax(new)
        /\ After(new, t) = IF ok THEN Pick(After(valid, t), now, t) ELSE After(valid, t)
    <2>1. CASE ok
      <3>1. Append(valid, now) \in Seq(Int) /\ AtMost(Append(valid, now), now)
        BY <1>1, <1>6 DEF AtMost
      <3>2. LastIsMax(Append(valid, now))
        BY <1>1, <1>6, <3>1 DEF LastIsMax
      <3>3. After(Append(valid, now), t) = Pick(After(valid, t), now, t)
        BY <1>1, <1>6, AfterAppend
      <3> QED
        BY <2>1, <3>1, <3>2, <3>3
    <2>2. CASE ~ok
      BY <1>6, <2>2
    <2> QED
      BY <2>1, <2>2
  <1>8. /\ Allow(limiter, ip, c).ok = ok
        /\ Allow(limiter, ip, c).rl = [swept EXCEPT !.entries[ip] = new]
    BY DEF Allow, swept, w, valid
  <1> HIDE DEF new, ok
  <1>9. /\ Allow(limiter, ip, c).rl \in Limiter
        /\ \A i \in IPs : Allow(limiter, ip, c).rl.entries[i]
                            = IF i = ip THEN new ELSE swept.entries[i]
    <2>1. swept.entries \in [IPs -> Seq(Int)] /\ new \in Seq(Int)
      BY <1>3, <1>7 DEF Limiter
    <2>2. /\ [swept EXCEPT !.entries[ip] = new].entries = [swept.entries EXCEPT ![ip] = new]
          /\ [swept EXCEPT !.entries[ip] = new] = [swept EXCEPT !.entries = [swept.entries EXCEPT ![ip] = new]]
      BY <1>3 DEF Limiter
    <2>3. [swept.entries EXCEPT ![ip] = new] \in [IPs -> Seq(Int)]
      BY <2>1
    <2>4. [swept EXCEPT !.entries = [swept.entries EXCEPT ![ip] = new]] \in Limiter
      BY <1>3, <2>3 DEF Limiter
    <2>5. \A i \in IPs : [swept.entries EXCEPT ![ip] = new][i] = IF i = ip THEN new ELSE swept.entries[i]
      BY <2>1
    <2> QED
      BY <1>8, <2>2, <2>4, <2>5
  <1>10. ASSUME NEW i \in IPs
         PROVE  LET res == Allow(limiter, ip, c)
                IN  /\ AtMost(res.rl.entries[i], now) /\ LastIsMax(res.rl.entries[i])
                    /\ After(res.rl.entries[i], t)
                         = IF i = ip /\ res.ok
                           THEN Pick(After(limiter.entries[i], t), now, t)
                           ELSE After(limiter.entries[i], t)
    <2>1. CASE i = ip
      BY <1>5, <1>6, <1>7, <1>8, <1>9, <2>1
    <2>2. CASE i # ip
      BY <1>5, <1>9, <2>2
    <2> QED
      BY <2>1, <2>2
  <1> QED
    BY <1>9, <1>10 DEF t

LEMMA RateLimitStep ==
  ASSUME TInv, NEW s \in Slots, RateLimit(s)
  PROVE  TInv'
  <1>1. req[s] \in Flight /\ req[s] # Idle /\ req \in [Slots -> {Idle} \cup Flight] /\ cfg \in Configs
    BY DEF RateLimit, TInv, TypeInv, Idle
  <1> DEFINE ip == req[s].ip
             next == At(req[s], "login")
  <1>2. UNCHANGED <<now, cfg, tracker, throttle>> /\ ip \in IPs
    BY <1>1 DEF RateLimit, Flight
  <1>3. PICK c \in req[s].seen :
          LET res == Allow(limiter, ip, c)
          IN  IF c.limit
              THEN /\ limiter' = res.rl
                   /\ req' = [req EXCEPT ![s] = IF res.ok THEN next ELSE Idle]
                   /\ hist' = IF res.ok THEN [hist EXCEPT !.let[ip] = Append(@, now)] ELSE hist
              ELSE /\ req' = [req EXCEPT ![s] = next]
                   /\ UNCHANGED <<limiter, hist>>
    BY DEF RateLimit
  <1>4. c \in Configs /\ c \in InUse
    BY <1>1, UsedIs DEF Flight
  <1>5. next \in Flight /\ next.seen = {cfg}
    BY <1>1, AtIs
  <1> DEFINE res == Allow(limiter, ip, c)
  <1> HIDE DEF next, ip
  <1>6. /\ req' \in [Slots -> {Idle} \cup Flight]
        /\ InUse' \subseteq InUse \cup {cfg}
    <2>1. PICK r : r \in {next, Idle} /\ req' = [req EXCEPT ![s] = r]
      BY <1>3
    <2> QED
      BY <1>1, <1>5, <2>1, UsedNext
  <1>7. CASE ~c.limit
    <2>1. UNCHANGED <<limiter, hist>>
      BY <1>3, <1>7
    <2> QED
      BY <1>2, <1>6, <2>1, Elsewhere DEF TInv, TypeInv
  <1>8. CASE c.limit
    <2>1. /\ limiter' = res.rl
          /\ hist' = IF res.ok THEN [hist EXCEPT !.let[ip] = Append(@, now)] ELSE hist
      BY <1>3, <1>8
    <2>2. /\ res.rl \in Limiter
          /\ \A i \in IPs :
               /\ AtMost(res.rl.entries[i], now) /\ LastIsMax(res.rl.entries[i])
               /\ After(res.rl.entries[i], now - hist.span)
                    = IF i = ip /\ res.ok
                      THEN Pick(After(limiter.entries[i], now - hist.span), now, now - hist.span)
                      ELSE After(limiter.entries[i], now - hist.span)
      <3>1. hist.span <= c.window
        BY <1>4, <1>8 DEF TInv, LimiterInv
      <3> QED
        BY <1>2, <1>4, <1>8, <3>1, AllowKeeps
    <2> HIDE DEF res
    <2>3. hist \in History /\ now \in Int
      BY DEF TInv, TypeInv
    <2>4. /\ hist' \in History /\ hist'.span = hist.span
          /\ hist'.failed = hist.failed /\ hist'.tried = hist.tried
          /\ \A i \in IPs : hist'.let[i] = IF i = ip /\ res.ok THEN Append(hist.let[i], now)
                                           ELSE hist.let[i]
      <3>1. CASE res.ok
        <4>1. hist' = [hist EXCEPT !.let[ip] = Append(@, now)]
          BY <2>1, <3>1
        <4>2. Append(hist.let[ip], now) \in Seq(Int)
          BY <1>2, <2>3 DEF History
        <4> QED
          BY <1>2, <2>3, <3>1, <4>1, <4>2 DEF History
      <3>2. CASE ~res.ok
        BY <2>1, <2>3, <3>2
      <3> QED
        BY <3>1, <3>2
    <2>5. TypeInv'
      BY <1>2, <1>6, <2>1, <2>2, <2>4 DEF TInv, TypeInv
    <2>6. LimiterInv'
      <3>1. ASSUME NEW i \in IPs
            PROVE  After(limiter.entries[i], now - hist.span)'
                     = After(hist.let[i], now - hist.span)'
        <4>1. hist.let[i] \in Seq(Int) /\ now - hist.span \in Int
          BY <2>3 DEF History
        <4>2. After(Append(hist.let[i], now), now - hist.span)
                = Pick(After(hist.let[i], now - hist.span), now, now - hist.span)
          BY <2>3, <4>1, AfterAppend
        <4>3. After(limiter.entries[i], now - hist.span) = After(hist.let[i], now - hist.span)
          BY DEF TInv, LimiterInv, WindowExact
        <4> QED
          BY <1>2, <2>1, <2>2, <2>4, <4>2, <4>3
      <3>2. \A d \in {cfg'} \cup InUse' : d.limit => hist'.span <= d.window
        BY <1>2, <1>6, <2>4 DEF TInv, LimiterInv
      <3> QED
        BY <1>2, <2>1, <2>2, <2>4, <3>1, <3>2 DEF LimiterInv, WindowExact
    <2> QED
      BY <1>2, <2>4, <2>5, <2>6, TrackerKept, ThrottleKept DEF TInv
  <1> QED
    BY <1>7, <1>8

LEMMA CooldownType ==
  ASSUME TypeInv
  PROVE  cooldown \in Nat /\ now \in Int /\ now - cooldown \in Int /\ cfg.attempts \in Nat
  BY ConfigType, ThrottleAssumption DEF cooldown, cooldownOf, TypeInv

LEMMA PickLen ==
  ASSUME NEW u \in Seq(Int), NEW v \in Seq(Int), NEW x \in Int, NEW t \in Int,
         Len(u) <= Len(v)
  PROVE  Len(Pick(u, x, t)) <= Len(Pick(v, x, t))
  BY DEF Pick

LEMMA ThrottleAllowStep ==
  ASSUME TInv, NEW s \in Slots, ThrottleAllow(s)
  PROVE  TInv'
  <1>1. req[s] \in Flight /\ req[s] # Idle /\ req \in [Slots -> {Idle} \cup Flight] /\ cfg \in Configs
    BY DEF ThrottleAllow, TInv, TypeInv, Idle
  <1> DEFINE a == req[s].account
             next == At(req[s], "verify")
  <1>2. UNCHANGED <<now, cfg, limiter, tracker>> /\ a \in Accounts
    BY <1>1 DEF ThrottleAllow, Flight
  <1>3. PICK c \in req[s].seen :
          LET valid == After(throttle[a], now - cooldownOf(c))
              ok    == Len(valid) < attempts(c)
          IN  /\ throttle' = [throttle EXCEPT ![a] = IF ok THEN Append(valid, now) ELSE valid]
              /\ req' = [req EXCEPT ![s] = IF ok THEN next ELSE Idle]
              /\ hist' = [hist EXCEPT !.tried[a] = IF c # cfg THEN <<>>
                                                   ELSE IF ok THEN Append(@, now) ELSE @]
    BY DEF ThrottleAllow
  <1> DEFINE valid == After(throttle[a], now - cooldownOf(c))
             ok == Len(valid) < attempts(c)
             new == IF ok THEN Append(valid, now) ELSE valid
             tried == IF c # cfg THEN <<>>
                      ELSE IF ok THEN Append(hist.tried[a], now) ELSE hist.tried[a]
  <1>4. /\ cooldown \in Nat /\ now \in Int /\ now - cooldown \in Int /\ cfg.attempts \in Nat
        /\ now - cooldownOf(c) \in Int
    <2>1. c \in Configs
      BY <1>1 DEF Flight
    <2>2. cooldownOf(c) \in Nat
      BY <2>1, ConfigType, ThrottleAssumption DEF cooldownOf
    <2> QED
      BY <2>2, CooldownType DEF TInv
  <1>5. throttle \in [Accounts -> Seq(Int)] /\ hist \in History
    BY DEF TInv, TypeInv
  <1>6. valid \in Seq(Int) /\ (c = cfg => \A t \in Int : t >= now - cooldown =>
                                  After(valid, t) = After(throttle[a], t))
    <2>1. throttle[a] \in Seq(Int)
      BY <1>2, <1>5
    <2>2. valid \in Seq(Int)
      BY <1>4, <2>1, AfterType
    <2>3. c = cfg => valid = After(throttle[a], now - cooldown)
      BY DEF cooldown
    <2>4. ASSUME NEW t \in Int, t >= now - cooldown
          PROVE  After(After(throttle[a], now - cooldown), t) = After(throttle[a], t)
      BY <1>4, <2>1, <2>4, AfterAfter
    <2> QED
      BY <2>2, <2>3, <2>4
  <1>7. c = cfg /\ cfg.attempts > 0 => (ok => Len(valid) + 1 <= cfg.attempts)
    <2>1. c = cfg /\ cfg.attempts > 0 => (ok => Len(valid) < cfg.attempts)
      BY DEF attempts
    <2>2. Len(valid) \in Nat
      BY <1>6
    <2> HIDE DEF valid
    <2> QED
      BY <1>4, <2>1, <2>2
  <1>8. /\ throttle' = [throttle EXCEPT ![a] = new]
        /\ req' = [req EXCEPT ![s] = IF ok THEN next ELSE Idle]
        /\ hist' = [hist EXCEPT !.tried[a] = tried]
    BY <1>3
  <1>9. valid = After(throttle[a], now - cooldownOf(c))
    OBVIOUS
  <1>10. next \in Flight /\ next.seen = {cfg}
    BY <1>1, AtIs
  <1> HIDE DEF valid, ok, a, next
  <1>11. new \in Seq(Int) /\ (c = cfg => \A t \in Int : t >= now - cooldown =>
          After(new, t) = IF ok THEN Pick(After(throttle[a], t), now, t) ELSE After(throttle[a], t))
    <2>1. CASE ok
      <3>1. Append(valid, now) \in Seq(Int)
        BY <1>4, <1>6
      <3>2. \A t \in Int : After(Append(valid, now), t) = Pick(After(valid, t), now, t)
        BY <1>4, <1>6, AfterAppend
      <3> QED
        BY <1>6, <2>1, <3>1, <3>2
    <2>2. CASE ~ok
      BY <1>6, <2>2
    <2> QED
      BY <2>1, <2>2
  <1>12. /\ tried \in Seq(Int)
         /\ c # cfg => tried = <<>>
         /\ c = cfg => tried = IF ok THEN Append(hist.tried[a], now) ELSE hist.tried[a]
    BY <1>2, <1>4, <1>5 DEF History
  <1> HIDE DEF new, tried
  <1>13. /\ hist' \in History /\ hist'.span = hist.span
         /\ hist'.failed = hist.failed /\ hist'.let = hist.let
         /\ \A b \in Accounts : hist'.tried[b] = IF b = a THEN tried ELSE hist.tried[b]
    BY <1>2, <1>5, <1>8, <1>12 DEF History
  <1>14. InUse' \subseteq InUse \cup {cfg}
    <2>1. PICK r : r \in {next, Idle} /\ req' = [req EXCEPT ![s] = r]
      BY <1>8
    <2> QED
      BY <1>1, <1>10, <2>1, UsedNext
  <1>15. TypeInv'
    <2>1. req' \in [Slots -> {Idle} \cup Flight]
      BY <1>1, <1>8, <1>10
    <2>2. throttle' \in [Accounts -> Seq(Int)]
      BY <1>2, <1>5, <1>8, <1>11
    <2> QED
      BY <1>2, <1>13, <2>1, <2>2 DEF TInv, TypeInv
  <1>16. ASSUME NEW b \in Accounts, NEW t \in Int, t >= now - cooldown
         PROVE  Len(After(hist'.tried[b], t)) <= Len(After(throttle'[b], t))
    <2>1. /\ hist.tried[b] \in Seq(Int) /\ throttle[b] \in Seq(Int)
          /\ Len(After(hist.tried[b], t)) <= Len(After(throttle[b], t))
      BY <1>5, <1>16 DEF TInv, ThrottleInv, History
    <2>2. After(hist.tried[b], t) \in Seq(Int) /\ After(throttle[b], t) \in Seq(Int)
      BY <2>1, AfterType
    <2>3. CASE b # a
      BY <1>2, <1>5, <1>8, <1>13, <2>1, <2>3
    <2>4. CASE b = a /\ c = cfg /\ ok
      <3>1. After(Append(hist.tried[b], now), t) = Pick(After(hist.tried[b], t), now, t)
        BY <1>4, <2>1, AfterAppend
      <3>2. After(throttle'[b], t) = Pick(After(throttle[b], t), now, t)
        BY <1>2, <1>5, <1>8, <1>11, <1>16, <2>4
      <3>3. hist'.tried[b] = Append(hist.tried[b], now)
        BY <1>12, <1>13, <2>4
      <3>4. Len(Pick(After(hist.tried[b], t), now, t)) <= Len(Pick(After(throttle[b], t), now, t))
        BY <1>4, <2>1, <2>2, PickLen
      <3> QED
        BY <3>1, <3>2, <3>3, <3>4
    <2>5. CASE b = a /\ c = cfg /\ ~ok
      BY <1>2, <1>5, <1>8, <1>11, <1>12, <1>13, <1>16, <2>1, <2>5
    <2>6. CASE b = a /\ c # cfg
      <3>1. hist'.tried[b] = <<>> /\ After(<<>>, t) = <<>>
        BY <1>12, <1>13, <2>6, AfterEmpty
      <3>2. throttle'[b] = new
        BY <1>2, <1>5, <1>8, <2>6
      <3>3. After(throttle'[b], t) \in Seq(Int)
        BY <1>11, <3>2, AfterType
      <3>4. Len(<<>>) = 0 /\ Len(After(throttle'[b], t)) \in Nat
        BY <3>3
      <3>5. Len(After(hist'.tried[b], t)) = 0
        BY <3>1, <3>4, Zenon
      <3> QED
        BY <3>4, <3>5
    <2> QED
      BY <2>3, <2>4, <2>5, <2>6
  <1>17. ASSUME NEW b \in Accounts, cfg.attempts > 0
         PROVE  Len(After(hist'.tried[b], now - cooldown)) <= cfg.attempts
    <2>1. /\ hist.tried[b] \in Seq(Int) /\ throttle[b] \in Seq(Int)
          /\ Len(After(hist.tried[b], now - cooldown)) <= cfg.attempts
          /\ Len(After(hist.tried[b], now - cooldown)) <= Len(After(throttle[b], now - cooldown))
      <3>1. now - cooldown >= now - cooldown
        BY <1>4
      <3>2. hist.tried[b] \in Seq(Int) /\ throttle[b] \in Seq(Int)
        BY <1>5 DEF History
      <3>3. Len(After(hist.tried[b], now - cooldown)) <= cfg.attempts
        BY <1>17, Zenon DEF TInv, ThrottleInv, GuessBound
      <3>4. Len(After(hist.tried[b], now - cooldown)) <= Len(After(throttle[b], now - cooldown))
        BY <1>4, <3>1, Zenon DEF TInv, ThrottleInv
      <3> QED
        BY <3>2, <3>3, <3>4
    <2>2. CASE b # a \/ (c = cfg /\ ~ok)
      BY <1>12, <1>13, <2>1, <2>2
    <2>3. CASE b = a /\ c # cfg
      <3>1. hist'.tried[b] = <<>> /\ After(<<>>, now - cooldown) = <<>>
        BY <1>4, <1>12, <1>13, <2>3, AfterEmpty
      <3> QED
        BY <1>4, <3>1
    <2>4. CASE b = a /\ c = cfg /\ ok
      <3>1. After(Append(hist.tried[b], now), now - cooldown)
              = Pick(After(hist.tried[b], now - cooldown), now, now - cooldown)
        BY <1>4, <2>1, AfterAppend
      <3>2. After(hist.tried[b], now - cooldown) \in Seq(Int)
        BY <1>4, <2>1, AfterType
      <3>3. Len(Pick(After(hist.tried[b], now - cooldown), now, now - cooldown))
              <= Len(After(hist.tried[b], now - cooldown)) + 1
        BY <1>4, <3>2 DEF Pick
      <3>4. Len(After(hist.tried[b], now - cooldown)) <= Len(valid)
        <4>1. valid = After(throttle[b], now - cooldown)
          BY <1>9, <2>4 DEF cooldown
        <4> QED
          BY <2>1, <4>1
      <3>5. Len(valid) + 1 <= cfg.attempts
        BY <1>7, <1>17, <2>4
      <3>6. hist'.tried[b] = Append(hist.tried[b], now)
        BY <1>12, <1>13, <2>4
      <3>7. Len(After(hist.tried[b], now - cooldown)) \in Nat /\ Len(valid) \in Nat
            /\ Len(Pick(After(hist.tried[b], now - cooldown), now, now - cooldown)) \in Nat
        BY <1>4, <1>6, <3>2 DEF Pick
      <3> QED
        BY <1>4, <3>1, <3>3, <3>4, <3>5, <3>6, <3>7
    <2> QED
      BY <2>2, <2>3, <2>4
  <1>18. ThrottleInv'
    <2>1. cooldown' = cooldown
      BY <1>2 DEF cooldown, cooldownOf
    <2> QED
      BY <1>2, <1>16, <1>17, <2>1 DEF ThrottleInv, GuessBound
  <1> QED
    BY <1>2, <1>15, <1>18, <1>13, <1>14, LimiterKept, TrackerKept DEF TInv

\* What the recording of a failure leaves in the tracker.
LEMMA RecordKeeps ==
  ASSUME TInv, NEW ip \in IPs, NEW a \in Accounts, NEW c \in Configs
  PROVE  LET new == recordAndBan(tracker, ip, a, c)
             w == clampWindow(c.banWindow)
         IN  /\ new \in Tracker
             /\ \A i \in IPs : new.failures[i] \subseteq
                  tracker.failures[i] \cup (IF i = ip THEN {[account |-> a, at |-> now]} ELSE {})
             /\ \A i \in IPs : tracker.banned[i] > now /\ new.banned[i] # tracker.banned[i]
                  => new.banned[i] = now + c.duration
             /\ \A i \in IPs : new.banned[i] \notin {tracker.banned[i], None} =>
                  i = ip /\ Cardinality({e.account : e \in {f \in new.failures[i] :
                                           now - f.at <= w}}) >= c.failures
  <1> DEFINE w == clampWindow(c.banWindow)
             e == [account |-> a, at |-> now]
             swept == IF DueForSweep(tracker.lastSweep, w) THEN BanSweep(tracker, w) ELSE tracker
             recent == {f \in swept.failures[ip] : f.at > now - w}
             noted == recordFailure(swept, ip, a, w)
             valid == {f \in noted.failures[ip] : now - f.at <= w}
             kept == [noted EXCEPT !.failures[ip] = valid]
             many == Cardinality({f.account : f \in valid}) >= c.failures
             new == recordAndBan(tracker, ip, a, c)
  <1>1. tracker \in Tracker /\ now \in Int /\ c.duration \in Int /\ w \in Int /\ e \in Entry
    BY ConfigType DEF TInv, TypeInv, Entry
  <1>2. /\ swept \in Tracker
        /\ \A i \in IPs : /\ swept.failures[i] \subseteq tracker.failures[i]
                          /\ tracker.banned[i] > now => swept.banned[i] = tracker.banned[i]
                          /\ swept.banned[i] \in {tracker.banned[i], None}
    BY <1>1, TrackerOps
  <1>3. \/ noted = swept
        \/ noted = [swept EXCEPT !.failures[ip] = recent \cup {e}]
    BY DEF recordFailure
  <1>4. new = IF many THEN [kept EXCEPT !.banned[ip] = now + c.duration] ELSE kept
    BY DEF recordAndBan, banIfSuspicious
  <1> HIDE DEF swept, noted, new, e, w
  <1>5. /\ noted \in Tracker /\ noted.banned = swept.banned
        /\ \A i \in IPs : noted.failures[i] \subseteq
             tracker.failures[i] \cup (IF i = ip THEN {e} ELSE {})
    <2>1. CASE noted = swept
      BY <1>2, <2>1
    <2>2. CASE noted = [swept EXCEPT !.failures[ip] = recent \cup {e}]
      <3>1. recent \cup {e} \in SUBSET Entry /\ recent \subseteq swept.failures[ip]
        BY <1>1, <1>2 DEF Tracker
      <3> HIDE DEF recent
      <3> QED
        BY <1>2, <2>2, <3>1 DEF Tracker
    <2> QED
      BY <1>3, <2>1, <2>2
  <1>6. valid \in SUBSET Entry /\ valid \subseteq noted.failures[ip]
        /\ valid = {f \in valid : now - f.at <= w}
    BY <1>5 DEF Tracker
  <1> HIDE DEF valid, many
  <1>7. /\ kept \in Tracker /\ kept.banned = swept.banned
        /\ \A i \in IPs : kept.failures[i] = IF i = ip THEN valid ELSE noted.failures[i]
    BY <1>5, <1>6 DEF Tracker
  <1> HIDE DEF kept
  <1>8. /\ new \in Tracker /\ new.failures = kept.failures
        /\ \A i \in IPs : new.banned[i] = IF i = ip /\ many THEN now + c.duration
                                          ELSE swept.banned[i]
    <2>1. CASE many
      <3>1. new = [kept EXCEPT !.banned[ip] = now + c.duration] /\ now + c.duration \in Int
        BY <1>1, <1>4, <2>1
      <3> QED
        BY <1>7, <2>1, <3>1 DEF Tracker
    <2>2. CASE ~many
      BY <1>4, <1>7, <2>2
    <2> QED
      BY <2>1, <2>2
  <1>9. ASSUME NEW i \in IPs
        PROVE  new.failures[i] \subseteq tracker.failures[i] \cup (IF i = ip THEN {e} ELSE {})
    BY <1>5, <1>6, <1>7, <1>8
  <1>10. ASSUME NEW i \in IPs, tracker.banned[i] > now, new.banned[i] # tracker.banned[i]
         PROVE  new.banned[i] = now + c.duration
    BY <1>2, <1>8, <1>10
  <1>11. ASSUME NEW i \in IPs, new.banned[i] \notin {tracker.banned[i], None}
         PROVE  i = ip /\ Cardinality({f.account : f \in {g \in new.failures[i] :
                                         now - g.at <= w}}) >= c.failures
    <2>1. i = ip /\ many
      BY <1>2, <1>8, <1>11
    <2>2. new.failures[i] = valid
      BY <1>7, <1>8, <2>1
    <2>3. {g \in new.failures[i] : now - g.at <= w} = valid
      BY <1>6, <2>2
    <2> QED
      BY <2>1, <2>3 DEF many
  <1> QED
    BY <1>8, <1>9, <1>10, <1>11 DEF e, new, w

LEMMA LoginFailsStep ==
  ASSUME TInv, NEW s \in Slots, LoginFails(s)
  PROVE  TInv'
  <1>1. req[s] \in Flight /\ req \in [Slots -> {Idle} \cup Flight]
    BY DEF LoginFails, TInv, TypeInv, Idle
  <1> DEFINE ip == req[s].ip
             a == req[s].account
             e == [account |-> a, at |-> now]
  <1>2. /\ UNCHANGED <<now, cfg, limiter, throttle>> /\ ip \in IPs /\ a \in Accounts
        /\ now \in Int /\ hist \in History /\ tracker \in Tracker
    BY <1>1 DEF LoginFails, Flight, TInv, TypeInv
  <1>3. /\ req' \in [Slots -> {Idle} \cup Flight]
        /\ InUse' \subseteq InUse \cup {cfg}
    <2>1. req' = [req EXCEPT ![s] = Idle]
      BY DEF LoginFails
    <2> QED
      BY <1>1, <2>1, UsedNext
  <1>4. PICK c \in req[s].seen :
          IF c.ban THEN /\ tracker' = recordAndBan(tracker, ip, a, c)
                        /\ hist' = [hist EXCEPT !.failed[ip] = @ \cup {e}]
                   ELSE UNCHANGED <<tracker, hist>>
    BY DEF LoginFails
  <1>5. c \in Configs
    BY <1>1 DEF Flight
  <1>6. CASE ~c.ban
    BY <1>2, <1>3, <1>4, <1>6, Elsewhere
  <1>7. CASE c.ban
    <2>1. /\ tracker' = recordAndBan(tracker, ip, a, c)
          /\ hist' = [hist EXCEPT !.failed[ip] = @ \cup {e}]
      BY <1>4, <1>7
    <2>2. /\ tracker' \in Tracker
          /\ \A i \in IPs : tracker'.failures[i] \subseteq
               tracker.failures[i] \cup (IF i = ip THEN {e} ELSE {})
      BY <1>2, <1>5, <2>1, RecordKeeps
    <2>3. /\ hist' \in History /\ hist'.span = hist.span
          /\ hist'.let = hist.let /\ hist'.tried = hist.tried
          /\ \A i \in IPs : hist'.failed[i] = hist.failed[i] \cup (IF i = ip THEN {e} ELSE {})
      <3>1. hist.failed[ip] \cup {e} \in SUBSET Entry
        BY <1>2 DEF History, Entry
      <3> HIDE DEF e
      <3> QED
        BY <1>2, <2>1, <3>1 DEF History
    <2>4. TypeInv'
      BY <1>2, <1>3, <2>2, <2>3 DEF TInv, TypeInv
    <2>5. TrackerInv'
      <3> SUFFICES ASSUME NEW i \in IPs
                   PROVE  /\ tracker'.failures[i] \subseteq hist'.failed[i]
                          /\ IsFiniteSet(hist'.failed[i])
        BY DEF TrackerInv
      <3>1. tracker.failures[i] \subseteq hist.failed[i] /\ IsFiniteSet(hist.failed[i])
        BY DEF TInv, TrackerInv
      <3>2. IsFiniteSet(hist.failed[i] \cup {e})
        BY <3>1, FS_AddElement
      <3>3. CASE i = ip
        <4>1. hist'.failed[i] = hist.failed[i] \cup {e}
          BY <2>3, <3>3
        <4>2. tracker'.failures[i] \subseteq tracker.failures[i] \cup {e}
          BY <2>2, <3>3
        <4> HIDE DEF e
        <4> QED
          BY <3>1, <3>2, <4>1, <4>2
      <3>4. CASE i # ip
        <4>1. hist'.failed[i] = hist.failed[i] /\ tracker'.failures[i] \subseteq tracker.failures[i]
          <5> HIDE DEF e, ip
          <5> QED
            BY <2>2, <2>3, <3>4
        <4> QED
          BY <3>1, <4>1
      <3> QED
        BY <3>3, <3>4
    <2> QED
      BY <1>2, <1>3, <2>3, <2>4, <2>5, LimiterKept, ThrottleKept DEF TInv
  <1> QED
    BY <1>6, <1>7

LEMMA LoginSucceedsStep ==
  ASSUME TInv, NEW s \in Slots, LoginSucceeds(s)
  PROVE  TInv'
  <1> DEFINE a == req[s].account
  <1>1. req[s] \in Flight
    BY DEF LoginSucceeds, TInv, TypeInv, Idle
  <1>2. /\ UNCHANGED <<now, cfg, limiter, tracker>> /\ a \in Accounts
        /\ hist \in History /\ throttle \in [Accounts -> Seq(Int)] /\ cooldown' = cooldown
        /\ throttle' = [throttle EXCEPT ![a] = <<>>]
        /\ hist' = [hist EXCEPT !.tried[a] = <<>>]
    BY <1>1 DEF LoginSucceeds, Clear, Flight, TInv, TypeInv, cooldown, cooldownOf
  <1>3. /\ hist' \in History /\ hist'.let = hist.let /\ hist'.failed = hist.failed
        /\ hist'.span = hist.span
        /\ \A b \in Accounts : hist'.tried[b] = IF b = a THEN <<>> ELSE hist.tried[b]
    <2>1. PICK q \in Seq(Int) : q = <<>>
      <3>1. <<>> \in Seq(Int)
        OBVIOUS
      <3> QED
        BY <3>1, Zenon
    <2>2. hist' = [hist EXCEPT !.tried[a] = q]
      BY <1>2, <2>1
    <2> HIDE DEF a
    <2>3. LET m == [hist EXCEPT !.tried[a] = q]
          IN  /\ m \in History /\ m.let = hist.let /\ m.failed = hist.failed
              /\ m.span = hist.span
              /\ \A b \in Accounts : m.tried[b] = IF b = a THEN q ELSE hist.tried[b]
      BY <1>2 DEF History
    <2> QED
      BY <2>1, <2>2, <2>3
  <1>4. TypeInv'
    BY <1>2, <1>3 DEF LoginSucceeds, TInv, TypeInv
  <1>5. cooldown \in Nat /\ now \in Int /\ now - cooldown \in Int /\ cfg.attempts \in Nat
    BY CooldownType DEF TInv
  <1>6. ThrottleInv'
    <2>1. ASSUME NEW b \in Accounts, NEW t \in Int, t >= now - cooldown
          PROVE  Len(After(hist'.tried[b], t)) <= Len(After(throttle'[b], t))
      <3>1. CASE b = a
        <4>1. hist'.tried[b] = <<>> /\ throttle'[b] = <<>> /\ After(<<>>, t) = <<>>
          BY <1>2, <1>3, <3>1, AfterEmpty
        <4> QED
          BY <4>1
      <3>2. CASE b # a
        <4>1. hist'.tried[b] = hist.tried[b] /\ throttle'[b] = throttle[b]
          BY <1>2, <1>3, <3>2
        <4> QED
          BY <2>1, <4>1 DEF TInv, ThrottleInv
      <3> QED
        BY <3>1, <3>2
    <2>2. ASSUME NEW b \in Accounts, cfg.attempts > 0
          PROVE  Len(After(hist'.tried[b], now - cooldown)) <= cfg.attempts
      <3>1. CASE b = a
        <4>1. hist'.tried[b] = <<>> /\ After(<<>>, now - cooldown) = <<>>
          BY <1>3, <1>5, <3>1, AfterEmpty
        <4> QED
          BY <1>5, <2>2, <4>1
      <3>2. CASE b # a
        <4>1. hist'.tried[b] = hist.tried[b]
          BY <1>3, <3>2
        <4> QED
          BY <2>2, <4>1, Zenon DEF TInv, ThrottleInv, GuessBound
      <3> QED
        BY <3>1, <3>2
    <2> QED
      BY <1>2, <2>1, <2>2 DEF ThrottleInv, GuessBound
  <1>7. InUse' \subseteq InUse \cup {cfg}
    <2>1. req' = [req EXCEPT ![s] = Idle] /\ req \in [Slots -> {Idle} \cup Flight]
      BY DEF LoginSucceeds, TInv, TypeInv
    <2> QED
      BY <2>1, UsedNext
  <1> QED
    BY <1>2, <1>3, <1>4, <1>6, <1>7, LimiterKept, TrackerKept DEF TInv

\* Where the window is seen from a later start, it is still exact.
LEMMA LaterWindow ==
  ASSUME TInv, NEW t \in Int, t >= now - hist.span, NEW i \in IPs
  PROVE  After(limiter.entries[i], t) = After(hist.let[i], t)
  <1>1. /\ limiter.entries[i] \in Seq(Int) /\ hist.let[i] \in Seq(Int)
        /\ now - hist.span \in Int
        /\ After(limiter.entries[i], now - hist.span) = After(hist.let[i], now - hist.span)
    BY DEF TInv, TypeInv, Limiter, History, LimiterInv, WindowExact
  <1>2. /\ After(After(limiter.entries[i], now - hist.span), t) = After(limiter.entries[i], t)
        /\ After(After(hist.let[i], now - hist.span), t) = After(hist.let[i], t)
    BY <1>1, AfterAfter
  <1> QED
    BY <1>1, <1>2

LEMMA UpdateConfigStep ==
  ASSUME TInv, UpdateConfig
  PROVE  TInv'
  <1>1. /\ UNCHANGED <<now, limiter, tracker, throttle>> /\ cfg' \in Configs
        /\ hist' = [hist EXCEPT !.tried = [a \in Accounts |-> <<>>],
                      !.span = IF cfg'.limit /\ cfg'.window < @ THEN cfg'.window ELSE @]
    BY DEF UpdateConfig
  <1>2. now \in Int /\ hist \in History /\ cfg'.window \in Int
    BY <1>1, ConfigType DEF TInv, TypeInv
  <1>3. /\ hist'.let = hist.let /\ hist'.failed = hist.failed
        /\ hist'.tried = [a \in Accounts |-> <<>>]
        /\ hist'.span \in Int /\ hist'.span <= hist.span
        /\ cfg'.limit => hist'.span <= cfg'.window
        /\ hist' \in History
    <2>1. [a \in Accounts |-> <<>>] \in [Accounts -> Seq(Int)]
      OBVIOUS
    <2> DEFINE f == [a \in Accounts |-> <<>>]
               n == IF cfg'.limit /\ cfg'.window < hist.span THEN cfg'.window ELSE hist.span
    <2>2. n \in Int /\ n <= hist.span /\ (cfg'.limit => n <= cfg'.window)
      BY <1>2 DEF History
    <2>3. hist' = [hist EXCEPT !.tried = f, !.span = n]
      BY <1>1
    <2> HIDE DEF f, n
    <2>4. /\ hist' \in History /\ hist'.let = hist.let /\ hist'.failed = hist.failed
          /\ hist'.tried = f /\ hist'.span = n
      BY <1>2, <2>1, <2>2, <2>3 DEF History, f
    <2> QED
      BY <2>2, <2>4 DEF f
  <1> DEFINE r(s) == [req[s] EXCEPT !.seen = @ \cup {cfg'}]
  <1>4. /\ req \in [Slots -> {Idle} \cup Flight]
        /\ req' = [s \in Slots |-> IF req[s] = Idle THEN Idle ELSE r(s)]
    BY DEF UpdateConfig, TInv, TypeInv
  <1>5. ASSUME NEW s \in Slots, req[s] # Idle
        PROVE  r(s) \in Flight /\ r(s).seen = req[s].seen \cup {cfg'}
    BY <1>1, <1>4, <1>5 DEF Flight
  <1> HIDE DEF r
  <1>6. InUse' \subseteq InUse \cup {cfg'}
    <2> SUFFICES ASSUME NEW s \in Slots, req'[s] # Idle
                 PROVE  req'[s].seen \subseteq InUse \cup {cfg'}
      BY DEF InUse
    <2>1. req[s] # Idle /\ req'[s] = r(s)
      BY <1>4
    <2> QED
      BY <1>5, <2>1, UsedIs
  <1>7. TypeInv'
    <2>1. req' \in [Slots -> {Idle} \cup Flight]
      BY <1>4, <1>5
    <2> QED
      BY <1>1, <1>3, <2>1 DEF TInv, TypeInv
  <1>8. WindowExact'
    <2>1. now - hist'.span \in Int /\ now - hist'.span >= now - hist.span
      BY <1>2, <1>3 DEF History
    <2> QED
      BY <1>1, <1>3, <2>1, LaterWindow DEF WindowExact
  <1>9. LimiterInv'
    <2>1. ASSUME NEW c \in {cfg'} \cup InUse', c.limit PROVE hist'.span <= c.window
      <3>1. CASE c = cfg'
        BY <1>3, <2>1, <3>1
      <3>2. CASE c \in InUse
        <4>1. hist.span <= c.window
          BY <2>1, <3>2 DEF TInv, LimiterInv
        <4>2. c \in Configs
          BY <1>4, <3>2 DEF InUse, Flight
        <4>3. c.window \in Int /\ hist.span \in Int
          BY <1>2, <4>2, ConfigType DEF History
        <4> QED
          BY <1>3, <4>1, <4>3
      <3> QED
        BY <1>6, <2>1, <3>1, <3>2
    <2> QED
      BY <1>1, <1>8, <2>1 DEF TInv, LimiterInv
  <1>10. ThrottleInv'
    <2>1. cooldown' \in Int /\ now' - cooldown' \in Int /\ cfg'.attempts \in Nat
      BY <1>1, <1>2, ConfigType, ThrottleAssumption DEF cooldown, cooldownOf
    <2>2. ASSUME NEW b \in Accounts, NEW t \in Int
          PROVE  /\ After(hist'.tried[b], t) = <<>>
                 /\ After(throttle'[b], t) \in Seq(Int)
      BY <1>1, <1>3, AfterEmpty, AfterType DEF TInv, TypeInv
    <2>3. GuessBound'
      BY <2>1, <2>2 DEF GuessBound
    <2>4. \A b \in Accounts : \A t \in Int :
            Len(After(hist'.tried[b], t)) <= Len(After(throttle'[b], t))
      <3> TAKE b \in Accounts
      <3> TAKE t \in Int
      <3>1. Len(<<>>) = 0
        OBVIOUS
      <3>2. Len(After(hist'.tried[b], t)) = 0
        BY <2>2, <3>1, Zenon
      <3>3. After(throttle'[b], t) \in Seq(Int)
        BY <2>2, Zenon
      <3>4. Len(After(throttle'[b], t)) \in Nat
        BY <3>3
      <3> QED
        BY <3>2, <3>4
    <2> QED
      BY <2>3, <2>4 DEF ThrottleInv
  <1> QED
    BY <1>1, <1>3, <1>7, <1>9, <1>10, TrackerKept DEF TInv

LEMMA TickStep ==
  ASSUME TInv, Tick
  PROVE  TInv'
  <1>1. /\ UNCHANGED <<cfg, limiter, tracker, throttle, req, hist>> /\ cooldown' = cooldown
        /\ now' = now + 1 /\ now < MaxTime
    BY DEF Tick, cooldown, cooldownOf
  <1>2. /\ now \in 0 .. MaxTime /\ now' \in Int /\ hist \in History /\ limiter \in Limiter
        /\ now' \in 0 .. MaxTime
    BY <1>1, ThrottleAssumption DEF TInv, TypeInv
  <1>3. TypeInv'
    BY <1>1, <1>2 DEF TInv, TypeInv
  <1>4. LimiterInv'
    <2>1. WindowExact'
      <3>1. now' - hist.span \in Int /\ now' - hist.span >= now - hist.span
        BY <1>1, <1>2 DEF History
      <3> QED
        BY <1>1, <3>1, LaterWindow DEF WindowExact
    <2>2. ASSUME NEW i \in IPs PROVE AtMost(limiter.entries[i], now')
      <3>1. AtMost(limiter.entries[i], now) /\ limiter.entries[i] \in Seq(Int)
        BY <1>2 DEF TInv, LimiterInv, Limiter
      <3> SUFFICES ASSUME NEW k \in 1 .. Len(limiter.entries[i])
                   PROVE  limiter.entries[i][k] <= now + 1
        BY <1>1 DEF AtMost
      <3>2. limiter.entries[i][k] \in Int /\ limiter.entries[i][k] <= now /\ now \in Int
        BY <1>2, <3>1 DEF AtMost
      <3> QED
        BY <3>2
    <2> QED
      BY <1>1, <2>1, <2>2 DEF TInv, LimiterInv, InUse
  <1>5. cooldown \in Nat /\ now \in Int /\ now - cooldown \in Int /\ cfg.attempts \in Nat
    BY CooldownType DEF TInv
  <1>6. now' - cooldown \in Int /\ now - cooldown <= now' - cooldown
    BY <1>1, <1>5
  <1>7. GuessBound'
    <2> SUFFICES ASSUME NEW a \in Accounts, cfg.attempts > 0
                 PROVE  Len(After(hist.tried[a], now' - cooldown)) <= cfg.attempts
      BY <1>1 DEF GuessBound
    <2> DEFINE u == After(hist.tried[a], now - cooldown)
               v == After(hist.tried[a], now' - cooldown)
    <2>1. Len(u) <= cfg.attempts
      BY Zenon DEF TInv, ThrottleInv, GuessBound
    <2>2. hist.tried[a] \in Seq(Int)
      BY <1>2 DEF History
    <2>3. u \in Seq(Int) /\ v \in Seq(Int)
      BY <1>5, <1>6, <2>2, AfterType
    <2>4. After(u, now' - cooldown) = v
      BY <1>5, <1>6, <2>2, AfterAfter
    <2>5. Len(After(u, now' - cooldown)) <= Len(u)
      BY <1>6, <2>3, AfterType
    <2> HIDE DEF u, v
    <2>6. Len(v) <= Len(u) /\ Len(v) \in Nat /\ Len(u) \in Nat
      BY <2>3, <2>4, <2>5
    <2>7. Len(v) <= cfg.attempts
      BY <1>5, <2>1, <2>6
    <2> QED
      BY <2>7 DEF v
  <1>8. ThrottleInv'
    <2> SUFFICES ASSUME NEW a \in Accounts, NEW t \in Int, t >= now' - cooldown
                 PROVE  Len(After(hist.tried[a], t)) <= Len(After(throttle[a], t))
      BY <1>1, <1>7 DEF ThrottleInv
    <2>1. t >= now - cooldown
      BY <1>5, <1>6
    <2> QED
      BY <2>1, Zenon DEF TInv, ThrottleInv
  <1> QED
    BY <1>1, <1>3, <1>4, <1>8, TrackerKept DEF TInv

LEMMA NextTInv == TInv /\ [Next]_vars => TInv'
  <1> SUFFICES ASSUME TInv, [Next]_vars PROVE TInv'
    OBVIOUS
  <1>1. CASE UNCHANGED vars
    <2>1. TypeInv'
      BY <1>1 DEF vars, TInv, TypeInv
    <2>2. InUse' \subseteq InUse \cup {cfg}
      BY <1>1 DEF vars, InUse
    <2> QED
      BY <1>1, <2>1, <2>2, LimiterKept, TrackerKept, ThrottleKept DEF vars, TInv
  <1>2. CASE Next
    BY <1>2, ArriveStep, AdminSteps, RateLimitStep, ThrottleAllowStep, LoginFailsStep,
       LoginSucceedsStep, UpdateConfigStep, TickStep, Zenon DEF Next, Step
  <1> QED
    BY <1>1, <1>2

LEMMA Inductive == Spec => []TInv
  BY InitTInv, NextTInv, PTL DEF Spec

--------------------------------------------------------------------------------
(* Theorems                                                                 *)

\* Every reachable state of the limiter, the tracker and the throttle is typed:
\* Allow, recordAndBan and the throttle store time stamps and known accounts.
THEOREM ThrottleTypeCorrect == Spec => []TypeInv
  <1>1. TInv => TypeInv
    BY DEF TInv
  <1> QED
    BY <1>1, Inductive, PTL

\* The limiter's entries are, within the shortest window in force so far, the
\* requests RateLimiter.Allow let through, for every number of addresses and
\* every order of sweeps and changes of the configuration.
THEOREM LimiterExact == Spec => []WindowExact
  <1>1. TInv => WindowExact
    BY DEF TInv, LimiterInv
  <1> QED
    BY <1>1, Inductive, PTL

\* LoginThrottle.Allow never lets more passwords of one account be compared in
\* a cooldown than configured, from however many addresses and requests.
THEOREM GuessesBounded == Spec => []GuessBound
  <1>1. TInv => GuessBound
    BY DEF TInv, ThrottleInv
  <1> QED
    BY <1>1, Inductive, PTL

\* What a step may do to the bans.
LEMMA BanStep ==
  ASSUME TInv, [Next]_vars, tracker'.banned # tracker.banned
  PROVE  \/ \E ip \in IPs : Unban(ip)
         \/ ListBans /\ tracker' = Expire(tracker, IPs)
         \/ \E ip \in IPs : tracker' = Expire(tracker, {ip})
         \/ \E s \in Slots : LoginFails(s)
  <1>1. CASE UNCHANGED vars
    BY <1>1 DEF vars
  <1>2. CASE \E s \in Slots, ip \in IPs, a \in Accounts : Arrive(s, ip, a)
    BY <1>2 DEF Arrive
  <1>3. CASE \E s \in Slots : Step(s)
    BY <1>3 DEF Step, RateLimit, ThrottleAllow, LoginFails, LoginSucceeds
  <1>4. CASE UpdateConfig \/ ListBans \/ Tick \/ \E ip \in IPs : Unban(ip)
    BY <1>4 DEF UpdateConfig, ListBans, Tick
  <1> QED
    BY <1>1, <1>2, <1>3, <1>4 DEF Next

LEMMA FailsRecords ==
  ASSUME TInv, NEW s \in Slots, LoginFails(s), tracker' # tracker
  PROVE  \E c \in InUse \cap Configs :
           /\ \A i \in IPs : tracker.banned[i] > now /\ tracker'.banned[i] # tracker.banned[i]
                => tracker'.banned[i] = now + c.duration
           /\ \A i \in IPs : tracker'.banned[i] \notin {tracker.banned[i], None} =>
                Cardinality({e.account : e \in {f \in tracker'.failures[i] :
                               now - f.at <= clampWindow(c.banWindow)}}) >= c.failures
  <1> DEFINE ip == req[s].ip
             a == req[s].account
  <1>1. req[s] \in Flight /\ req[s] # Idle
    BY DEF LoginFails, TInv, TypeInv, Idle
  <1>2. PICK c \in req[s].seen : tracker' = recordAndBan(tracker, ip, a, c)
    BY DEF LoginFails
  <1>3. ip \in IPs /\ a \in Accounts /\ c \in Configs /\ c \in InUse
    BY <1>1, <1>2, UsedIs DEF Flight
  <1> HIDE DEF ip, a
  <1>4. /\ \A i \in IPs : tracker.banned[i] > now /\ tracker'.banned[i] # tracker.banned[i]
             => tracker'.banned[i] = now + c.duration
        /\ \A i \in IPs : tracker'.banned[i] \notin {tracker.banned[i], None} =>
             Cardinality({e.account : e \in {f \in tracker'.failures[i] :
                            now - f.at <= clampWindow(c.banWindow)}}) >= c.failures
    BY <1>2, <1>3, RecordKeeps
  <1> QED
    BY <1>3, <1>4

LEMMA NeverRaised ==
  ASSUME TInv, NEW i \in IPs, Bans(i),
         \/ \E ip \in IPs : Unban(ip)
         \/ \E S \in SUBSET IPs : tracker' = Expire(tracker, S)
  PROVE  FALSE
  <1>1. tracker \in Tracker /\ now \in Int
    BY DEF TInv, TypeInv
  <1>2. CASE \E ip \in IPs : Unban(ip)
    <2>1. PICK ip \in IPs : tracker' = [tracker EXCEPT !.banned[ip] = None]
      BY <1>2 DEF Unban
    <2> QED
      BY <1>1, <2>1 DEF Tracker, Bans
  <1>3. ASSUME NEW S \in SUBSET IPs, tracker' = Expire(tracker, S) PROVE FALSE
    <2>1. Expire(tracker, S).banned[i] \in {tracker.banned[i], None}
      BY <1>1, TrackerOps
    <2> QED
      BY <1>3, <2>1 DEF Bans
  <1> QED
    BY <1>2, <1>3

\* An address is banned only when the configured number of accounts failed
\* from it within the window, whatever BanSweep and recordFailure forgot.
THEOREM BansAreSound == Spec => BanSound
  <1> DEFINE A(i) ==
        Bans(i) => \E c \in InUse :
                     Cardinality({f.account : f \in {e \in hist'.failed[i] :
                                    now - e.at <= clampWindow(c.banWindow)}})
                       >= c.failures
  <1>1. ASSUME TInv, TInv', [Next]_vars, NEW i \in IPs, Bans(i)
        PROVE  \E c \in InUse :
                 Cardinality({f.account : f \in {e \in hist'.failed[i] :
                                now - e.at <= clampWindow(c.banWindow)}})
                   >= c.failures
    <2>1. tracker'.banned # tracker.banned
      BY <1>1 DEF Bans
    <2>2. PICK s \in Slots : LoginFails(s)
      BY <1>1, <2>1, BanStep, NeverRaised
    <2>3. PICK c \in InUse \cap Configs :
            \A j \in IPs : tracker'.banned[j] \notin {tracker.banned[j], None} =>
              Cardinality({e.account : e \in {f \in tracker'.failures[j] :
                             now - f.at <= clampWindow(c.banWindow)}}) >= c.failures
      BY <1>1, <2>1, <2>2, FailsRecords
    <2> DEFINE w == clampWindow(c.banWindow)
               T == {e \in tracker'.failures[i] : now - e.at <= w}
               H == {e \in hist'.failed[i] : now - e.at <= w}
    <2>4. Cardinality({e.account : e \in T}) >= c.failures
      BY <1>1, <2>3 DEF Bans
    <2>5. tracker'.failures[i] \subseteq hist'.failed[i] /\ IsFiniteSet(hist'.failed[i])
      BY <1>1 DEF TInv, TrackerInv
    <2>6. T \subseteq H /\ IsFiniteSet(H)
      BY <2>5, FS_Subset
    <2> HIDE DEF T, H
    <2>7. IsFiniteSet({e.account : e \in H})
      <3> DEFINE g == [e \in H |-> e.account]
      <3>1. g \in Surjection(H, {e.account : e \in H})
        BY DEF Surjection
      <3> HIDE DEF g
      <3> QED
        BY <2>6, <3>1, FS_Surjection
    <2>8. {e.account : e \in T} \subseteq {e.account : e \in H}
      BY <2>6
    <2>9. /\ IsFiniteSet({e.account : e \in T})
          /\ Cardinality({e.account : e \in T}) <= Cardinality({e.account : e \in H})
      BY <2>7, <2>8, FS_Subset
    <2>10. /\ Cardinality({e.account : e \in T}) \in Nat
          /\ Cardinality({e.account : e \in H}) \in Nat /\ c.failures \in Int
      BY <1>1, <2>7, <2>9, FS_CardinalityType, ConfigType DEF TInv, TypeInv
    <2>11. Cardinality({f.account : f \in H}) >= c.failures
      BY <2>4, <2>9, <2>10
    <2> QED
      BY <2>11, Zenon DEF H, w
  <1>2. TInv /\ TInv' /\ [Next]_vars => [\A i \in IPs : A(i)]_vars
    BY <1>1
  <1> QED
    BY <1>2, Inductive, PTL DEF Spec, BanSound

\* A running ban is cut short only by the administrator's Unban or by a new ban
\* of the configured duration; IsBanned, ListBans and the sweeps leave it.
THEOREM BansHold == Spec => BanHolds
  <1> DEFINE A(i) == now < tracker.banned[i] /\ tracker'.banned[i] < tracker.banned[i]
                       => \/ Unban(i)
                          \/ \E c \in InUse : tracker'.banned[i] = now + c.duration
  <1>1. ASSUME TInv, [Next]_vars, NEW i \in IPs,
               now < tracker.banned[i], tracker'.banned[i] < tracker.banned[i]
        PROVE  Unban(i) \/ \E c \in InUse : tracker'.banned[i] = now + c.duration
    <2>1. tracker \in Tracker /\ now \in Int /\ tracker.banned[i] \in Int
      BY <1>1 DEF TInv, TypeInv, Tracker
    <2>2. tracker'.banned[i] # tracker.banned[i] /\ tracker.banned[i] > now
      BY <1>1, <2>1
    <2>3. CASE \E ip \in IPs : Unban(ip)
      <3>1. PICK ip \in IPs : Unban(ip)
        BY <2>3
      <3>2. ip = i
        BY <2>1, <2>2, <3>1 DEF Unban, Tracker
      <3> QED
        BY <3>1, <3>2
    <2>4. ASSUME NEW S \in SUBSET IPs, tracker' = Expire(tracker, S) PROVE FALSE
      <3>1. Expire(tracker, S).banned[i] = tracker.banned[i]
        BY <2>1, <2>2, TrackerOps
      <3> QED
        BY <2>2, <2>4, <3>1
    <2>5. CASE \E s \in Slots : LoginFails(s)
      <3>1. tracker' # tracker
        BY <2>2
      <3> QED
        BY <1>1, <2>2, <2>5, <3>1, FailsRecords
    <2>6. tracker'.banned # tracker.banned
      BY <2>2
    <2> QED
      BY <1>1, <2>3, <2>4, <2>5, <2>6, BanStep
  <1>2. TInv /\ [Next]_vars => [\A i \in IPs : A(i)]_vars
    BY <1>1
  <1> QED
    BY <1>2, Inductive, PTL DEF Spec, BanHolds

================================================================================
