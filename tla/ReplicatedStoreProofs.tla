------------------------- MODULE ReplicatedStoreProofs -------------------------
(***************************************************************************)
(* Proofs about ReplicatedStore for every number of servers, records,      *)
(* commands, crashes and snapshots: what a bucket is worth while old       *)
(* commands are applied to it again.  Only the configuration and the       *)
(* channel records are covered; user records are left to TLC.              *)
(***************************************************************************)
EXTENDS ReplicatedStore, WellFoundedInduction, TLAPS

--------------------------------------------------------------------------------
(* Buckets and commands                                                     *)

\* The keys of the configuration and of the channels.
K == {ConfigKey, DefaultsKey} \cup {ChannelKey(c) : c \in Channels}

\* The name a user record had need not be one of Names for the proof.
AllKeys == Keys \cup {IndexKey(n) : n \in Nat}

Buckets == [Keys -> Nat]
Entries == UNION {[D -> Nat] : D \in SUBSET AllKeys}

Overwriting == {"set", "delete", "set-multi"}
Ops == {"noop", "create-channel", "create-user", "bootstrap"} \cup Overwriting

\* What the proof uses of a command: a new channel has contents, a new user
\* is no channel, a bootstrap file removes nothing, and nothing removes the
\* configuration.
Sound(c) ==
  /\ c.op = "noop" => DOMAIN c.entries = {}
  /\ c.op = "create-channel" => DOMAIN c.entries = {c.key} /\ c.entries[c.key] # Absent
  /\ c.op = "create-user" => DOMAIN c.entries \cap K = {}
  /\ c.op = "bootstrap" => \A k \in DOMAIN c.entries : c.entries[k] # Absent
  /\ ConfigKey \in DOMAIN c.entries => c.entries[ConfigKey] # Absent

Cmd == {c \in [op : Ops, key : Keys, entries : Entries] : Sound(c)}

LEMMA KeyFacts ==
  /\ ConfigKey \in K /\ DefaultsKey \in K /\ ConfigKey # DefaultsKey
  /\ K \subseteq Keys /\ Keys \subseteq AllKeys
  /\ \A c \in Channels : ChannelKey(c) \in K /\ ChannelKey(c) # ConfigKey
  /\ \A n : UserKey(n) \notin K /\ IndexKey(n) \notin K
  /\ \A n \in Names : UserKey(n) \in Keys /\ IndexKey(n) \in Keys
  BY DEF K, Keys, AllKeys, ConfigKey, DefaultsKey, ChannelKey, UserKey, IndexKey

LEMMA EmptyFacts == Empty \in Buckets /\ \A k \in Keys : Empty[k] = Absent
  BY DEF Empty, Buckets, Absent

LEMMA SingleType ==
  ASSUME NEW k \in AllKeys, NEW v \in Nat
  PROVE  Single(k, v) \in Entries /\ DOMAIN Single(k, v) = {k} /\ Single(k, v)[k] = v
  <1>1. Single(k, v) \in [{k} -> Nat] /\ Single(k, v)[k] = v
    BY DEF Single
  <1> QED
    BY <1>1 DEF Entries

LEMMA NoopCmd == Noop \in Cmd /\ Noop.op = "noop" /\ DOMAIN Noop.entries = {}
  <1>1. <<>> \in [{} -> Nat] /\ DOMAIN <<>> = {}
    OBVIOUS
  <1>2. <<>> \in Entries
    BY <1>1 DEF Entries
  <1> QED
    BY <1>1, <1>2, KeyFacts DEF Noop, Cmd, Sound, Ops

LEMMA ChannelCmds ==
  ASSUME NEW c \in Channels, NEW v \in Nat \ {0}
  PROVE  CreateChannel(c, v) \in Cmd /\ UpdateChannel(c, v) \in Cmd /\ DeleteChannel(c) \in Cmd
  <1> DEFINE k == ChannelKey(c)
  <1>1. k \in K /\ k \in Keys /\ k \in AllKeys /\ k # ConfigKey
    BY KeyFacts
  <1>2. v \in Nat /\ v # Absent /\ Absent \in Nat
    BY DEF Absent
  <1> HIDE DEF k
  <1>3. /\ Single(k, v) \in Entries /\ DOMAIN Single(k, v) = {k} /\ Single(k, v)[k] = v
        /\ Single(k, Absent) \in Entries /\ DOMAIN Single(k, Absent) = {k}
    BY <1>1, <1>2, SingleType
  <1>4. [op |-> "create-channel", key |-> k, entries |-> Single(k, v)] \in Cmd
    BY <1>1, <1>2, <1>3 DEF Cmd, Sound, Ops
  <1>5. [op |-> "set", key |-> k, entries |-> Single(k, v)] \in Cmd
    BY <1>1, <1>2, <1>3 DEF Cmd, Sound, Ops, Overwriting
  <1>6. [op |-> "delete", key |-> k, entries |-> Single(k, Absent)] \in Cmd
    BY <1>1, <1>2, <1>3 DEF Cmd, Sound, Ops, Overwriting
  <1> QED
    BY <1>4, <1>5, <1>6 DEF k, CreateChannel, UpdateChannel, DeleteChannel

LEMMA UserCmds ==
  ASSUME NEW s \in Buckets, NEW id \in Names, NEW name \in Names
  PROVE  CreateUser(id) \in Cmd /\ UpdateUser(s, id, name) \in Cmd /\ DeleteUser(s, id) \in Cmd
  <1>1. /\ id \in Nat /\ name \in Nat /\ Absent \in Nat
        /\ UserKey(id) \in Keys /\ IndexKey(id) \in Keys /\ IndexKey(name) \in Keys
    BY StoreAssumption, KeyFacts DEF Absent
  <1>2. s[UserKey(id)] \in Nat
    BY <1>1 DEF Buckets
  <1> DEFINE i == IndexKey(s[UserKey(id)])
             u == UserKey(id)
             x == IndexKey(name)
  <1>3. i \in AllKeys /\ u \in AllKeys /\ x \in AllKeys /\ i \notin K /\ u \notin K /\ x \notin K
    BY <1>1, <1>2, KeyFacts DEF AllKeys
  <1>4. CreateUser(id) \in Cmd
    <2> DEFINE D == {UserKey(id), IndexKey(id)}
               e == [k \in D |-> id]
    <2>1. e \in [D -> Nat] /\ D \in SUBSET AllKeys /\ D \cap K = {}
      BY <1>1, KeyFacts
    <2> HIDE DEF e, D
    <2>2. e \in Entries /\ DOMAIN e \cap K = {}
      BY <2>1 DEF Entries
    <2>3. [op |-> "create-user", key |-> UserKey(id), entries |-> e] \in Cmd
      BY <1>1, <2>2, KeyFacts DEF Cmd, Sound, Ops
    <2> QED
      BY <2>3 DEF CreateUser, e, D
  <1>5. UpdateUser(s, id, name) \in Cmd
    <2> DEFINE D == {u, x} \cup ({i} \ {x})
               e == [k \in D |-> CASE k = u -> name [] k = x -> id [] OTHER -> Absent]
    <2>1. e \in [D -> Nat] /\ D \in SUBSET AllKeys /\ D \cap K = {}
      <3> HIDE DEF u, x, i
      <3>1. \A k \in D : (CASE k = u -> name [] k = x -> id [] OTHER -> Absent) \in Nat
        BY <1>1
      <3> QED
        BY <1>3, <3>1
    <2>2. UpdateUser(s, id, name) = [op |-> "set-multi", key |-> UserKey(id), entries |-> e]
      BY DEF UpdateUser
    <2> HIDE DEF e, D
    <2>3. e \in Entries /\ DOMAIN e \cap K = {}
      BY <2>1 DEF Entries
    <2> QED
      BY <1>1, <2>2, <2>3, KeyFacts DEF Cmd, Sound, Ops, Overwriting
  <1>6. DeleteUser(s, id) \in Cmd
    <2> DEFINE D == {u, i}
               e == [k \in D |-> Absent]
    <2>1. e \in [D -> Nat] /\ D \in SUBSET AllKeys /\ D \cap K = {}
      BY <1>1, <1>3
    <2>2. DeleteUser(s, id) = [op |-> "set-multi", key |-> UserKey(id), entries |-> e]
      BY DEF DeleteUser
    <2> HIDE DEF e, D
    <2>3. e \in Entries /\ DOMAIN e \cap K = {}
      BY <2>1 DEF Entries
    <2> QED
      BY <1>1, <2>2, <2>3, KeyFacts DEF Cmd, Sound, Ops, Overwriting
  <1> QED
    BY <1>4, <1>5, <1>6

\* The two records of the configuration.
LEMMA ConfigCmds ==
  ASSUME NEW s \in Buckets, NEW i \in Nat \ {0}
  PROVE  UpdateGlobalConfig(s, i) \in Cmd /\ SetSessionSecret(s, i) \in Cmd
  <1> DEFINE D == {ConfigKey, DefaultsKey}
             e == [k \in D |-> IF k = DefaultsKey THEN i
                               ELSE IF s[k] = Absent THEN Default ELSE s[k]]
             g == [k \in D |-> IF k = ConfigKey THEN i
                               ELSE IF s[k] = Absent THEN Default ELSE s[k]]
  <1>1. /\ D \in SUBSET AllKeys /\ ConfigKey \in Keys
        /\ \A k \in D : s[k] \in Nat
    BY KeyFacts DEF Buckets
  <1>2. e \in [D -> Nat \ {0}] /\ g \in [D -> Nat \ {0}]
    BY <1>1 DEF Absent, Default
  <1>3. /\ UpdateGlobalConfig(s, i) = [op |-> "set-multi", key |-> ConfigKey, entries |-> e]
        /\ SetSessionSecret(s, i) = [op |-> "set-multi", key |-> ConfigKey, entries |-> g]
    BY DEF UpdateGlobalConfig, SetSessionSecret
  <1> HIDE DEF e, g
  <1>4. ASSUME NEW x \in [D -> Nat \ {0}]
        PROVE  [op |-> "set-multi", key |-> ConfigKey, entries |-> x] \in Cmd
    <2>1. x \in [D -> Nat] /\ x[ConfigKey] # Absent /\ DOMAIN x = D
      BY DEF Absent
    <2>2. x \in Entries
      BY <1>1, <2>1 DEF Entries
    <2> QED
      BY <1>1, <2>1, <2>2 DEF Cmd, Sound, Ops, Overwriting
  <1> QED
    BY <1>2, <1>3, <1>4

LEMMA FileCmd ==
  ASSUME NEW file \in BootstrapFiles
  PROVE  ApplyBootstrap(file) \in Cmd
  <1>1. PICK D \in SUBSET Keys : file \in [D -> Nat \ {0}]
    BY FileAssumption
  <1>2. file \in [D -> Nat] /\ D \in SUBSET AllKeys /\ DOMAIN file = D
        /\ \A k \in D : file[k] # Absent
    BY <1>1, KeyFacts DEF Absent
  <1>3. file \in Entries /\ ConfigKey \in Keys
    BY <1>2, KeyFacts DEF Entries
  <1> QED
    BY <1>1, <1>2, <1>3 DEF ApplyBootstrap, Cmd, Sound, Ops

LEMMA ProposalTypes == \A s \in Buckets, i \in Nat \ {0} : Proposals(s, i) \subseteq Cmd
  <1> SUFFICES ASSUME NEW s \in Buckets, NEW i \in Nat \ {0}, NEW p \in Proposals(s, i)
               PROVE  p \in Cmd
    OBVIOUS
  <1>1. \/ \E c \in Channels : p \in {CreateChannel(c, i), UpdateChannel(c, i), DeleteChannel(c)}
        \/ p = UpdateGlobalConfig(s, i)
        \/ \E n \in Names : p = CreateUser(n)
        \/ \E id \in Names, n \in Names : p = UpdateUser(s, id, n)
        \/ \E id \in Names : p = DeleteUser(s, id)
    <2> DEFINE A == {CreateChannel(c, i) : c \in Channels}
               B == {UpdateChannel(c, i) : c \in {d \in Channels : s[ChannelKey(d)] # Absent}}
               C == {DeleteChannel(c) : c \in Channels}
               D == {CreateUser(n) : n \in Names}
               F == {UpdateUser(s, id, n) : id \in {m \in Names : s[UserKey(m)] # Absent},
                                            n \in Names}
               G == {DeleteUser(s, id) : id \in {m \in Names : s[UserKey(m)] # Absent}}
    <2>0. Proposals(s, i) = A \cup B \cup C \cup {UpdateGlobalConfig(s, i)} \cup D \cup F \cup G
      BY DEF Proposals
    <2>2. p \in A => \E c \in Channels : p = CreateChannel(c, i)
      BY Zenon
    <2>3. p \in B => \E c \in Channels : p = UpdateChannel(c, i)
      BY Zenon
    <2>4. p \in C => \E c \in Channels : p = DeleteChannel(c)
      BY Zenon
    <2>5. p \in D => \E n \in Names : p = CreateUser(n)
      BY Zenon
    <2>6. p \in F => \E id \in Names, n \in Names : p = UpdateUser(s, id, n)
      OBVIOUS
    <2>7. p \in G => \E id \in Names : p = DeleteUser(s, id)
      BY Zenon
    <2> HIDE DEF A, B, C, D, F, G
    <2>1. p \in A \/ p \in B \/ p \in C \/ p = UpdateGlobalConfig(s, i) \/ p \in D \/ p \in F \/ p \in G
      BY <2>0
    <2> QED
      BY <2>1, <2>2, <2>3, <2>4, <2>5, <2>6, <2>7, Zenon
  <1>2. ASSUME NEW n \in Names PROVE CreateUser(n) \in Cmd /\ DeleteUser(s, n) \in Cmd
    BY UserCmds
  <1>3. ASSUME NEW id \in Names, NEW n \in Names PROVE UpdateUser(s, id, n) \in Cmd
    BY UserCmds
  <1> QED
    BY <1>1, <1>2, <1>3, ChannelCmds, ConfigCmds

--------------------------------------------------------------------------------
(* What a command does to one key                                           *)

LEMMA ApplyType ==
  ASSUME NEW s \in Buckets, NEW c \in Cmd
  PROVE  /\ Apply(s, c) \in Buckets
         /\ Refused(s, c) => Apply(s, c) = s
         /\ ~Refused(s, c) => \A k \in Keys :
              Apply(s, c)[k] = IF k \in DOMAIN c.entries THEN c.entries[k] ELSE s[k]
  <1>1. CASE Refused(s, c)
    BY <1>1 DEF Apply
  <1>2. CASE ~Refused(s, c)
    <2>1. PICK D \in SUBSET AllKeys : c.entries \in [D -> Nat]
      BY DEF Cmd, Entries
    <2>2. Apply(s, c) = [k \in Keys |-> IF k \in DOMAIN c.entries THEN c.entries[k] ELSE s[k]]
      BY <1>2 DEF Apply, Put
    <2>3. \A k \in Keys : (IF k \in DOMAIN c.entries THEN c.entries[k] ELSE s[k]) \in Nat
      BY <2>1 DEF Buckets
    <2> QED
      BY <1>2, <2>2, <2>3 DEF Buckets
  <1> QED
    BY <1>1, <1>2

Overwritten(c, k) == c.op \in Overwriting /\ k \in DOMAIN c.entries

\* An unconditional write determines the key; a creation gives it contents if
\* it had none; a bootstrap file does so if the whole bucket was empty.
LEMMA OneKey ==
  ASSUME NEW s \in Buckets, NEW c \in Cmd, NEW k \in K
  PROVE  /\ Overwritten(c, k) => Apply(s, c)[k] = c.entries[k]
         /\ ~Overwritten(c, k) /\ s[k] # Absent => Apply(s, c)[k] = s[k]
         /\ c.op = "create-channel" /\ k = c.key /\ s[k] = Absent =>
              Apply(s, c)[k] = c.entries[k] /\ c.entries[k] # Absent
         /\ ~Overwritten(c, k) /\ ~(c.op = "create-channel" /\ k = c.key) /\ c.op # "bootstrap"
              => Apply(s, c)[k] = s[k]
         /\ k \notin DOMAIN c.entries => Apply(s, c)[k] = s[k]
         /\ c.op = "bootstrap" /\ s = Empty /\ k \in DOMAIN c.entries => Apply(s, c)[k] # Absent
         /\ c.op = "bootstrap" /\ s # Empty => Apply(s, c) = s
  <1>1. k \in Keys /\ Sound(c) /\ c.op \in Ops
    BY KeyFacts DEF Cmd
  <1>2. /\ Refused(s, c) => Apply(s, c) = s
        /\ ~Refused(s, c) =>
             Apply(s, c)[k] = IF k \in DOMAIN c.entries THEN c.entries[k] ELSE s[k]
    BY <1>1, ApplyType
  <1>3. CASE c.op \in Overwriting
    BY <1>1, <1>2, <1>3 DEF Overwritten, Overwriting, Refused
  <1>4. CASE c.op \in {"noop", "create-user"}
    BY <1>1, <1>2, <1>4 DEF Overwritten, Overwriting, Sound
  <1>5. CASE c.op = "create-channel"
    BY <1>1, <1>2, <1>5 DEF Overwritten, Overwriting, Sound, Refused
  <1>6. CASE c.op = "bootstrap"
    <2>1. s[k] # Absent => s # Empty
      BY <1>1, EmptyFacts
    <2> QED
      BY <1>1, <1>2, <1>6, <2>1 DEF Overwritten, Overwriting, Sound, Refused
  <1> QED
    BY <1>1, <1>3, <1>4, <1>5, <1>6 DEF Ops

\* The configuration never goes away again.
LEMMA ConfigStays ==
  ASSUME NEW s \in Buckets, NEW c \in Cmd, s[ConfigKey] # Absent
  PROVE  Apply(s, c)[ConfigKey] # Absent
  <1>1. ConfigKey \in K /\ Sound(c)
    BY KeyFacts DEF Cmd
  <1> QED
    BY <1>1, OneKey DEF Overwritten, Sound

--------------------------------------------------------------------------------
(* A log lg, and the buckets d it defines                                   *)

LogOK(lg, d) ==
  /\ lg \in Seq(Cmd) /\ Len(lg) >= 1 /\ lg[1] = Noop
  /\ d \in Seq(Buckets) /\ Len(d) = Len(lg) + 1 /\ d[1] = Empty
  /\ \A i \in 1 .. Len(lg) : d[i + 1] = Apply(d[i], lg[i])

X(d, i) == d[i + 1]

LEMMA LogFacts ==
  ASSUME NEW lg, NEW d, LogOK(lg, d)
  PROVE  /\ \A i \in 0 .. Len(lg) : X(d, i) \in Buckets
         /\ \A i \in 1 .. Len(lg) : lg[i] \in Cmd /\ X(d, i) = Apply(X(d, i - 1), lg[i])
         /\ Len(lg) \in Nat /\ X(d, 0) = Empty /\ X(d, 1) = Empty
  <1>1. Len(lg) \in Nat /\ \A i \in 0 .. Len(lg) : i + 1 \in 1 .. Len(d)
    BY DEF LogOK
  <1>2. \A i \in 0 .. Len(lg) : X(d, i) \in Buckets
    BY <1>1 DEF LogOK, X
  <1>3. \A i \in 1 .. Len(lg) : lg[i] \in Cmd /\ X(d, i) = Apply(X(d, i - 1), lg[i])
    BY <1>1 DEF LogOK, X
  <1>4. X(d, 0) = Empty
    BY DEF LogOK, X
  <1>5. X(d, 1) = Empty
    <2>1. X(d, 1) = Apply(Empty, Noop)
      BY <1>1, <1>3, <1>4 DEF LogOK
    <2>2. /\ Apply(Empty, Noop) \in Buckets
          /\ \A k \in Keys : Apply(Empty, Noop)[k] = Empty[k]
      BY ApplyType, EmptyFacts, NoopCmd
    <2> QED
      BY <2>1, <2>2, EmptyFacts DEF Buckets
  <1> QED
    BY <1>1, <1>2, <1>3, <1>4, <1>5

LEMMA Least ==
  ASSUME NEW T \in SUBSET Nat, T # {}
  PROVE  \E n \in T : \A m \in T : n <= m
  <1> DEFINE R == OpToRel(<, Nat)
  <1>1. \E x \in T : \A y \in T : ~(<<y, x>> \in R)
    BY NatLessThanWellFounded, WFMin
  <1>2. \A x, y \in Nat : <<y, x>> \in R <=> y < x
    BY DEF OpToRel
  <1> HIDE DEF R
  <1>3. PICK n \in T : \A m \in T : ~(<<m, n>> \in R)
    BY <1>1
  <1>4. \A m \in T : ~(m < n)
    BY <1>2, <1>3
  <1> QED
    BY <1>4

\* Induction upwards from m.
LEMMA Induct ==
  ASSUME NEW m \in Nat, NEW T \in SUBSET Nat, m \in T,
         \A n \in T : n >= m => n + 1 \in T
  PROVE  \A n \in Nat : n >= m => n \in T
  <1> DEFINE U == {n \in Nat : n >= m /\ n \notin T}
  <1> SUFFICES ASSUME U # {} PROVE FALSE
    OBVIOUS
  <1>1. PICK n \in U : \A l \in U : n <= l
    BY Least
  <1>2. n # m /\ n - 1 \in Nat /\ n - 1 >= m
    OBVIOUS
  <1>3. n - 1 \in T
    BY <1>1, <1>2
  <1>4. (n - 1) + 1 \in T
    BY <1>2, <1>3
  <1> QED
    BY <1>4

\* A key is overwritten by an entry after the first i and up to h.
Later(lg, k, i, h) == \E j \in i + 1 .. h : Overwritten(lg[j], k)

\* Contents last until they are overwritten.
LEMMA PresentStays ==
  ASSUME NEW lg, NEW d, LogOK(lg, d), NEW k \in K, NEW i \in Nat, X(d, i)[k] # Absent
  PROVE  \A h \in i .. Len(lg) : ~Later(lg, k, i, h) => X(d, h)[k] = X(d, i)[k]
  <1> DEFINE T == {h \in Nat : h \in i .. Len(lg) /\ ~Later(lg, k, i, h) => X(d, h)[k] = X(d, i)[k]}
  <1>1. i \in T
    OBVIOUS
  <1>2. ASSUME NEW n \in T, n >= i PROVE n + 1 \in T
    <2> SUFFICES ASSUME n + 1 \in i .. Len(lg), ~Later(lg, k, i, n + 1)
                 PROVE  X(d, n + 1)[k] = X(d, i)[k]
      OBVIOUS
    <2>1. Len(lg) \in Nat
      BY LogFacts
    <2>2. n \in i .. Len(lg) /\ n + 1 \in 1 .. Len(lg) /\ n \in 0 .. Len(lg)
      BY <1>2, <2>1
    <2>3. ~Later(lg, k, i, n) /\ ~Overwritten(lg[n + 1], k)
      BY <1>2, <2>2 DEF Later
    <2>4. X(d, n)[k] = X(d, i)[k]
      BY <2>2, <2>3
    <2>5. X(d, n) \in Buckets /\ lg[n + 1] \in Cmd /\ X(d, n + 1) = Apply(X(d, n), lg[n + 1])
      BY <2>2, LogFacts
    <2> QED
      BY <2>3, <2>4, <2>5, OneKey
  <1> HIDE DEF T
  <1>3. \A n \in Nat : n >= i => n \in T
    BY <1>1, <1>2, Induct DEF T
  <1> QED
    BY <1>3 DEF T

LEMMA ConfigGrows ==
  ASSUME NEW lg, NEW d, LogOK(lg, d), NEW i \in Nat, X(d, i)[ConfigKey] # Absent
  PROVE  \A h \in i .. Len(lg) : X(d, h)[ConfigKey] # Absent
  <1> DEFINE T == {h \in Nat : h \in i .. Len(lg) => X(d, h)[ConfigKey] # Absent}
  <1>1. i \in T
    OBVIOUS
  <1>2. ASSUME NEW n \in T, n >= i PROVE n + 1 \in T
    <2> SUFFICES ASSUME n + 1 \in i .. Len(lg) PROVE X(d, n + 1)[ConfigKey] # Absent
      OBVIOUS
    <2>1. Len(lg) \in Nat
      BY LogFacts
    <2>2. n \in i .. Len(lg) /\ n + 1 \in 1 .. Len(lg) /\ n \in 0 .. Len(lg) /\ (n + 1) - 1 = n
      BY <1>2, <2>1
    <2>3. X(d, n) \in Buckets /\ lg[n + 1] \in Cmd /\ X(d, n + 1) = Apply(X(d, n), lg[n + 1])
      BY <2>2, LogFacts
    <2> QED
      BY <2>2, <2>3, ConfigStays
  <1> HIDE DEF T
  <1>3. \A n \in Nat : n >= i => n \in T
    BY <1>1, <1>2, Induct DEF T
  <1> QED
    BY <1>3 DEF T

\* The bootstrap file is the first command, and it fills key k.
Filled(lg, k) == Len(lg) >= 2 /\ lg[2].op = "bootstrap" /\ k \in DOMAIN lg[2].entries

First(lg) == \A i \in DOMAIN lg : lg[i].op = "bootstrap" =>
               lg[2].op = "bootstrap" /\ (i = 2 \/ ConfigKey \in DOMAIN lg[2].entries)

LEMMA FilledFacts ==
  ASSUME NEW lg, NEW d, LogOK(lg, d), NEW k \in K, Filled(lg, k)
  PROVE  /\ X(d, 2)[k] # Absent
         /\ ~Overwritten(lg[1], k) /\ ~Overwritten(lg[2], k)
  <1>1. Len(lg) \in Nat /\ 2 \in 1 .. Len(lg) /\ 1 \in 0 .. Len(lg) /\ X(d, 1) = Empty
    BY LogFacts DEF Filled
  <1>2. lg[2] \in Cmd /\ X(d, 2) = Apply(X(d, 1), lg[2]) /\ X(d, 1) \in Buckets
    BY <1>1, LogFacts
  <1>3. X(d, 2)[k] # Absent
    BY <1>1, <1>2, OneKey DEF Filled
  <1>4. ~Overwritten(lg[1], k) /\ ~Overwritten(lg[2], k)
    BY NoopCmd DEF LogOK, Filled, Overwritten, Overwriting
  <1> QED
    BY <1>3, <1>4

\* A configuration from the file stays.
LEMMA BootFacts ==
  ASSUME NEW lg, NEW d, LogOK(lg, d), Filled(lg, ConfigKey)
  PROVE  \A h \in 2 .. Len(lg) : X(d, h)[ConfigKey] # Absent /\ X(d, h) # Empty
  <1>1. X(d, 2)[ConfigKey] # Absent
    BY FilledFacts, KeyFacts
  <1>2. \A h \in 2 .. Len(lg) : X(d, h)[ConfigKey] # Absent
    BY <1>1, ConfigGrows
  <1> QED
    BY <1>2, KeyFacts, EmptyFacts

\* A bootstrap command is not the configuration entry of the library, and one
\* that is not the first finds a configuration.
LEMMA FirstBoots ==
  ASSUME NEW lg, NEW d, LogOK(lg, d), First(lg), NEW i \in 1 .. Len(lg), lg[i].op = "bootstrap"
  PROVE  i >= 2 /\ (i > 2 => Filled(lg, ConfigKey))
  <1>1. i # 1
    BY NoopCmd DEF LogOK
  <1>2. lg[2].op = "bootstrap" /\ (i = 2 \/ ConfigKey \in DOMAIN lg[2].entries)
    BY DEF First, LogOK
  <1> QED
    BY <1>1, <1>2, LogFacts DEF Filled

--------------------------------------------------------------------------------
(***************************************************************************)
(* A bucket s that holds the effects of the first h entries, and to which  *)
(* the entries after the first i are applied again.  Every key that none   *)
(* of them overwrites has the contents it has in the end, or those it had  *)
(* after i entries.  The second is excluded for what a bootstrap file      *)
(* created: on a bucket with anything in it it creates nothing again.      *)
(***************************************************************************)
KeyGood(lg, d, s, i, h, k) ==
  \/ Later(lg, k, i, h)
  \/ s[k] = X(d, h)[k]
  \/ s[k] = X(d, i)[k] /\ ~(Filled(lg, k) /\ i < 2 /\ 2 <= h)

Good(lg, d, s, i, h) ==
  /\ s \in Buckets /\ i \in Nat /\ h \in Nat /\ i <= h /\ h <= Len(lg)
  /\ h < 2 => s = Empty
  /\ Filled(lg, ConfigKey) /\ 2 <= h => s[ConfigKey] # Absent
  /\ First(lg) => \A k \in K : KeyGood(lg, d, s, i, h, k)

\* A bucket can be replayed from any earlier entry as well: a restart, or a
\* snapshot that is read late.
LEMMA Lower ==
  ASSUME NEW lg, NEW d, LogOK(lg, d), NEW s, NEW i, NEW h, Good(lg, d, s, i, h),
         NEW p \in Nat, p <= i
  PROVE  Good(lg, d, s, p, h)
  <1>1. i \in Nat /\ h \in Nat /\ i <= h /\ h <= Len(lg) /\ Len(lg) \in Nat
    BY LogFacts DEF Good
  <1> SUFFICES ASSUME First(lg), NEW k \in K, ~Later(lg, k, p, h)
               PROVE  \/ s[k] = X(d, h)[k]
                      \/ s[k] = X(d, p)[k] /\ ~(Filled(lg, k) /\ p < 2 /\ 2 <= h)
    BY <1>1 DEF Good, KeyGood
  <1>2. ~Later(lg, k, i, h) /\ ~Later(lg, k, p, i)
    BY <1>1 DEF Later
  <1>3. \/ s[k] = X(d, h)[k]
        \/ s[k] = X(d, i)[k] /\ ~(Filled(lg, k) /\ i < 2 /\ 2 <= h)
    BY <1>2 DEF Good, KeyGood
  <1>4. h \in i .. Len(lg) /\ i \in p .. Len(lg)
    BY <1>1
  <1>5. X(d, i)[k] # Absent => X(d, h)[k] = X(d, i)[k]
    BY <1>1, <1>2, <1>4, PresentStays
  <1>6. X(d, i)[k] = Absent => X(d, p)[k] = Absent
    BY <1>2, <1>4, PresentStays
  <1>7. Filled(lg, k) /\ i >= 2 /\ p < 2 => X(d, i)[k] # Absent
    <2> SUFFICES ASSUME Filled(lg, k), i >= 2, p < 2 PROVE X(d, i)[k] # Absent
      OBVIOUS
    <2>1. ~Later(lg, k, 2, i) /\ i \in 2 .. Len(lg)
      BY <1>1, <1>2 DEF Later
    <2>2. X(d, 2)[k] # Absent
      BY FilledFacts
    <2> QED
      BY <2>1, <2>2, PresentStays
  <1>8. CASE X(d, i)[k] # Absent
    BY <1>3, <1>5, <1>8
  <1>9. CASE X(d, i)[k] = Absent
    BY <1>1, <1>3, <1>6, <1>7, <1>9
  <1> QED
    BY <1>8, <1>9

\* Applying the next entry, whether its effect is in the bucket already or not.
LEMMA AgainKey ==
  ASSUME NEW lg, NEW d, LogOK(lg, d), NEW s, NEW i, NEW h, Good(lg, d, s, i, h), i < h,
         First(lg), NEW k \in K
  PROVE  KeyGood(lg, d, Apply(s, lg[i + 1]), i + 1, h, k)
  <1> DEFINE c == lg[i + 1]
             t == Apply(s, c)
  <1>1. i \in Nat /\ h \in Nat /\ h <= Len(lg) /\ Len(lg) \in Nat /\ s \in Buckets
    BY LogFacts DEF Good
  <1>2. i + 1 \in 1 .. Len(lg) /\ i \in 0 .. Len(lg) /\ (i + 1) - 1 = i /\ h \in i + 1 .. Len(lg)
        /\ h \in i .. Len(lg)
    BY <1>1
  <1>3. /\ c \in Cmd /\ X(d, i) \in Buckets /\ X(d, i + 1) \in Buckets
        /\ X(d, i + 1) = Apply(X(d, i), c)
    BY <1>2, LogFacts
  <1> SUFFICES ASSUME ~Later(lg, k, i + 1, h)
               PROVE  \/ t[k] = X(d, h)[k]
                      \/ t[k] = X(d, i + 1)[k] /\ ~(Filled(lg, k) /\ i + 1 < 2 /\ 2 <= h)
    BY DEF KeyGood
  <1>4. Filled(lg, k) => ~Overwritten(lg[1], k) /\ X(d, 2)[k] # Absent
    BY FilledFacts
  <1>5. CASE Overwritten(c, k)
    <2>1. t[k] = X(d, i + 1)[k]
      BY <1>1, <1>3, <1>5, OneKey
    <2>2. ~(Filled(lg, k) /\ i + 1 < 2)
      BY <1>1, <1>4, <1>5
    <2> QED
      BY <2>1, <2>2
  <1>6. CASE ~Overwritten(c, k)
    <2>1. ~Later(lg, k, i, h)
      <3> SUFFICES ASSUME NEW j \in i + 1 .. h, Overwritten(lg[j], k) PROVE FALSE
        BY DEF Later
      <3>1. j # i + 1
        BY <1>6
      <3>2. j \in (i + 1) + 1 .. h
        BY <1>1, <3>1
      <3> QED
        BY <3>2 DEF Later
    <2>2. \/ s[k] = X(d, h)[k]
          \/ s[k] = X(d, i)[k] /\ ~(Filled(lg, k) /\ i < 2 /\ 2 <= h)
      BY <2>1 DEF Good, KeyGood
    <2>3. X(d, i)[k] # Absent => X(d, h)[k] = X(d, i)[k]
      BY <1>1, <1>2, <2>1, PresentStays
    <2>4. X(d, i + 1)[k] # Absent => X(d, h)[k] = X(d, i + 1)[k]
      BY <1>1, <1>2, PresentStays
    <2>5. CASE s[k] # Absent
      <3>1. t[k] = s[k]
        BY <1>1, <1>3, <1>6, <2>5, OneKey
      <3> QED
        BY <2>2, <2>3, <2>5, <3>1
    <2>6. CASE s[k] = Absent /\ c.op = "create-channel" /\ k = c.key
      <3>1. t[k] = c.entries[k] /\ c.entries[k] # Absent
        BY <1>1, <1>3, <2>6, OneKey
      <3>2. X(d, i)[k] = Absent
        BY <2>2, <2>3, <2>6
      <3>3. X(d, i + 1)[k] = c.entries[k]
        BY <1>3, <2>6, <3>2, OneKey
      <3> QED
        BY <2>4, <3>1, <3>3
    <2>7. CASE s[k] = Absent /\ c.op = "bootstrap"
      <3>1. i >= 1 /\ (i > 1 => Filled(lg, ConfigKey))
        BY <1>1, <1>2, <2>7, FirstBoots
      <3>2. CASE i = 1
        <4>1. CASE Filled(lg, k)
          <5>1. s[k] = X(d, h)[k]
            BY <1>1, <1>2, <2>2, <3>2, <4>1
          <5>2. X(d, i + 1)[k] # Absent
            BY <1>4, <3>2, <4>1
          <5> QED
            BY <2>4, <2>7, <5>1, <5>2
        <4>2. CASE ~Filled(lg, k)
          <5>1. k \notin DOMAIN c.entries
            BY <1>1, <1>2, <2>7, <3>2, <4>2 DEF Filled
          <5>2. t[k] = s[k] /\ X(d, i + 1)[k] = X(d, i)[k]
            BY <1>1, <1>3, <5>1, OneKey
          <5> QED
            BY <2>2, <4>2, <5>2
        <4> QED
          BY <4>1, <4>2
      <3>3. CASE i > 1
        <4>1. Filled(lg, ConfigKey) /\ s[ConfigKey] # Absent /\ i >= 2
          BY <1>1, <1>2, <3>1, <3>3 DEF Good
        <4>2. s # Empty
          BY <4>1, KeyFacts, EmptyFacts
        <4>3. X(d, i) # Empty
          BY <1>1, <1>2, <4>1, BootFacts
        <4>4. t = s /\ X(d, i + 1) = X(d, i)
          BY <1>1, <1>3, <2>7, <4>2, <4>3, OneKey
        <4> QED
          BY <1>1, <2>2, <4>1, <4>4
      <3> QED
        BY <1>1, <3>1, <3>2, <3>3
    <2>8. CASE s[k] = Absent /\ ~(c.op = "create-channel" /\ k = c.key) /\ c.op # "bootstrap"
      <3>1. t[k] = s[k] /\ X(d, i + 1)[k] = X(d, i)[k]
        BY <1>1, <1>3, <1>6, <2>8, OneKey
      <3> QED
        BY <1>1, <2>2, <3>1
    <2> QED
      BY <2>5, <2>6, <2>7, <2>8
  <1> QED
    BY <1>5, <1>6

LEMMA AnewKey ==
  ASSUME NEW lg, NEW d, LogOK(lg, d), NEW s, NEW i, Good(lg, d, s, i, i), i < Len(lg),
         First(lg), NEW k \in K
  PROVE  Apply(s, lg[i + 1])[k] = X(d, i + 1)[k]
  <1> DEFINE c == lg[i + 1]
  <1>1. i \in Nat /\ Len(lg) \in Nat /\ s \in Buckets
    BY LogFacts DEF Good
  <1>2. i + 1 \in 1 .. Len(lg) /\ i \in 0 .. Len(lg) /\ (i + 1) - 1 = i
    BY <1>1
  <1>3. c \in Cmd /\ X(d, i) \in Buckets /\ X(d, i + 1) = Apply(X(d, i), c)
    BY <1>2, LogFacts
  <1>4. s[k] = X(d, i)[k]
    BY <1>1 DEF Good, KeyGood, Later
  <1>5. CASE c.op = "bootstrap"
    <2>1. i >= 1 /\ (i > 1 => Filled(lg, ConfigKey))
      BY <1>1, <1>2, <1>5, FirstBoots
    <2>2. CASE i < 2
      <3>1. i = 1 /\ s = Empty /\ X(d, i) = Empty
        BY <1>1, <2>1, <2>2, LogFacts DEF Good
      <3> QED
        BY <1>3, <3>1
    <2>3. CASE i >= 2
      <3>1. X(d, i) # Empty /\ s[ConfigKey] # Absent
        BY <1>1, <1>2, <2>1, <2>3, BootFacts DEF Good
      <3>2. s # Empty
        BY <3>1, KeyFacts, EmptyFacts
      <3>3. Apply(s, c) = s /\ Apply(X(d, i), c) = X(d, i)
        BY <1>1, <1>3, <1>5, <3>1, <3>2, OneKey
      <3> QED
        BY <1>3, <1>4, <3>3
    <2> QED
      BY <1>1, <2>2, <2>3
  <1>6. CASE c.op # "bootstrap"
    <2>1. CASE Overwritten(c, k)
      BY <1>1, <1>3, <2>1, OneKey
    <2>2. CASE ~Overwritten(c, k) /\ s[k] # Absent
      BY <1>1, <1>3, <1>4, <2>2, OneKey
    <2>3. CASE ~Overwritten(c, k) /\ s[k] = Absent /\ c.op = "create-channel" /\ k = c.key
      <3>1. Apply(s, c)[k] = c.entries[k]
        BY <1>1, <1>3, <2>3, OneKey
      <3>2. Apply(X(d, i), c)[k] = c.entries[k]
        BY <1>3, <1>4, <2>3, OneKey
      <3> QED
        BY <1>3, <3>1, <3>2
    <2>4. CASE ~Overwritten(c, k) /\ ~(c.op = "create-channel" /\ k = c.key)
      BY <1>1, <1>3, <1>4, <1>6, <2>4, OneKey
    <2> QED
      BY <2>1, <2>2, <2>3, <2>4
  <1> QED
    BY <1>5, <1>6

Larger(a, b) == IF a >= b THEN a ELSE b

LEMMA StepGood ==
  ASSUME NEW lg, NEW d, LogOK(lg, d), NEW s, NEW i, NEW h, Good(lg, d, s, i, h), i < Len(lg)
  PROVE  Good(lg, d, Apply(s, lg[i + 1]), i + 1, Larger(h, i + 1))
  <1> DEFINE c == lg[i + 1]
             t == Apply(s, c)
             g == Larger(h, i + 1)
  <1>1. i \in Nat /\ h \in Nat /\ i <= h /\ h <= Len(lg) /\ Len(lg) \in Nat /\ s \in Buckets
    BY LogFacts DEF Good
  <1>2. i + 1 \in 1 .. Len(lg) /\ i \in 0 .. Len(lg) /\ (i + 1) - 1 = i
    BY <1>1
  <1>3. c \in Cmd /\ X(d, i) \in Buckets /\ X(d, i + 1) = Apply(X(d, i), c)
    BY <1>2, LogFacts
  <1>4. t \in Buckets
    BY <1>1, <1>3, ApplyType
  <1>5. /\ g \in Nat /\ i + 1 <= g /\ g <= Len(lg)
        /\ i < h => g = h
        /\ i = h => g = i + 1
    BY <1>1 DEF Larger
  <1>6. g < 2 => t = Empty
    <2> SUFFICES ASSUME g < 2 PROVE t = Empty
      OBVIOUS
    <2>1. i = 0 /\ h < 2
      BY <1>1, <1>5
    <2>2. s = X(d, 0) /\ X(d, 1) = Empty
      BY <2>1, LogFacts DEF Good
    <2> QED
      BY <1>3, <2>1, <2>2
  <1>7. Filled(lg, ConfigKey) /\ 2 <= g => t[ConfigKey] # Absent
    <2> SUFFICES ASSUME Filled(lg, ConfigKey), 2 <= g PROVE t[ConfigKey] # Absent
      OBVIOUS
    <2>1. CASE 2 <= h
      BY <1>1, <1>3, <2>1, ConfigStays DEF Good
    <2>2. CASE h < 2
      <3>1. i = 1 /\ s = Empty
        BY <1>1, <1>5, <2>2 DEF Good
      <3>2. c.op = "bootstrap" /\ ConfigKey \in K /\ ConfigKey \in DOMAIN c.entries
        BY <3>1, KeyFacts DEF Filled
      <3> QED
        BY <1>1, <1>3, <3>1, <3>2, OneKey
    <2> QED
      BY <1>1, <2>1, <2>2
  <1>8. ASSUME First(lg), NEW k \in K PROVE KeyGood(lg, d, t, i + 1, g, k)
    <2>1. CASE i < h
      BY <1>5, <1>8, <2>1, AgainKey
    <2>2. CASE i = h
      <3>1. t[k] = X(d, i + 1)[k]
        BY <1>8, <2>2, AnewKey
      <3> QED
        BY <1>5, <2>2, <3>1 DEF KeyGood
    <2> QED
      BY <1>1, <2>1, <2>2
  <1> HIDE DEF t, g, c
  <1>9. Good(lg, d, t, i + 1, g)
    BY <1>1, <1>4, <1>5, <1>6, <1>7, <1>8 DEF Good
  <1> QED
    BY <1>9 DEF t, g, c

--------------------------------------------------------------------------------
(* Applying the rest of the log at once                                     *)

\* The recursion of Replayed from bucket s after i entries, with values in f.
Runs(f, lg, s, i, n) == /\ DOMAIN f = i .. n /\ f[i] = s
                        /\ \A k \in i + 1 .. n : f[k] = Apply(f[k - 1], lg[k])

Tabled(f, lg, s, i, n) == Runs(f, lg, s, i, n) /\ f = [k \in i .. n |-> f[k]]

LEMMA RunsExists ==
  ASSUME NEW lg, NEW s, NEW i \in Nat
  PROVE  \A n \in Nat : n >= i => \E f : Tabled(f, lg, s, i, n)
  <1> DEFINE P(f, n) == Tabled(f, lg, s, i, n)
             T == {n \in Nat : \E f : P(f, n)}
  <1>1. i \in T
    <2> DEFINE f == [k \in i .. i |-> s]
    <2>1. P(f, i)
      BY DEF Runs, Tabled
    <2> QED
      BY <2>1
  <1>2. ASSUME NEW n \in T, n >= i PROVE n + 1 \in T
    <2>1. PICK f : Runs(f, lg, s, i, n)
      BY <1>2 DEF Tabled
    <2> DEFINE g == [k \in i .. n + 1 |-> IF k = n + 1 THEN Apply(f[n], lg[k]) ELSE f[k]]
    <2>2. ASSUME NEW k \in i + 1 .. n + 1 PROVE g[k] = Apply(g[k - 1], lg[k])
      <3>1. CASE k = n + 1
        BY <1>2, <3>1
      <3>2. CASE k \in i + 1 .. n
        <4>1. f[k] = Apply(f[k - 1], lg[k])
          BY <2>1, <3>2 DEF Runs
        <4> QED
          BY <1>2, <3>2, <4>1
      <3> QED
        BY <3>1, <3>2
    <2>3. P(g, n + 1)
      BY <1>2, <2>1, <2>2 DEF Runs, Tabled
    <2> HIDE DEF g, P
    <2>4. \E f2 : P(f2, n + 1)
      BY <2>3
    <2> QED
      BY <2>4
  <1> HIDE DEF T
  <1>3. \A n \in Nat : n >= i => n \in T
    BY <1>1, <1>2, Induct DEF T
  <1> QED
    BY <1>3 DEF T

LEMMA ReplayedRuns ==
  ASSUME NEW s, NEW i \in Nat, NEW n \in Nat, n >= i
  PROVE  \E f : Runs(f, log, s, i, n) /\ Replayed(s, i + 1, n) = f[n]
  <1> DEFINE H(f) == [k \in (i + 1) - 1 .. n |->
                        IF k = (i + 1) - 1 THEN s ELSE Apply(f[k - 1], log[k])]
             g == CHOOSE f : f = H(f)
  <1>1. PICK f : Runs(f, log, s, i, n) /\ f = [k \in i .. n |-> f[k]]
    <2>1. \E f : Tabled(f, log, s, i, n)
      BY RunsExists
    <2> QED
      BY <2>1 DEF Tabled
  <1>2. \A h : DOMAIN H(h) = i .. n /\ H(h)[i] = s
    OBVIOUS
  <1>3. \A h : \A k \in i + 1 .. n : H(h)[k] = Apply(h[k - 1], log[k])
    OBVIOUS
  <1>4. H(f) = [k \in i .. n |-> H(f)[k]]
    OBVIOUS
  <1>5. Replayed(s, i + 1, n) = g[n]
    BY Zenon DEF Replayed
  <1>6. (\E h : h = H(h)) => g = H(g)
    BY Zenon
  <1> HIDE DEF g, H
  <1>7. ASSUME NEW k \in i .. n PROVE H(f)[k] = f[k]
    <2>1. k = i \/ k \in i + 1 .. n
      OBVIOUS
    <2> QED
      BY <1>1, <1>2, <1>3, <2>1 DEF Runs
  <1>8. f = H(f)
    BY <1>1, <1>4, <1>7
  <1>9. g = H(g)
    BY <1>6, <1>8
  <1>10. Runs(g, log, s, i, n)
    <2>1. DOMAIN H(g) = i .. n /\ H(g)[i] = s
      BY <1>2
    <2>2. \A k \in i + 1 .. n : H(g)[k] = Apply(g[k - 1], log[k])
      BY <1>3
    <2> QED
      BY <1>9, <2>1, <2>2, Zenon DEF Runs
  <1> QED
    BY <1>5, <1>10

\* What RecoverCluster leaves is as good as a bucket that saw the log once.
LEMMA ReplayedGood ==
  ASSUME NEW s, NEW i, NEW h, LogOK(log, ideal), Good(log, ideal, s, i, h)
  PROVE  Good(log, ideal, Replayed(s, i + 1, Len(log)), Len(log), Len(log))
  <1>1. i \in Nat /\ h \in Nat /\ i <= h /\ h <= Len(log) /\ Len(log) \in Nat
    BY LogFacts DEF Good
  <1>2. PICK f : Runs(f, log, s, i, Len(log)) /\ Replayed(s, i + 1, Len(log)) = f[Len(log)]
    <2>1. i \in Nat /\ Len(log) \in Nat /\ Len(log) >= i
      BY <1>1
    <2> QED
      BY <2>1, ReplayedRuns, Zenon
  <1> DEFINE G(n) == Good(log, ideal, f[n], n, Larger(h, n))
             T == {n \in Nat : n <= Len(log) => G(n)}
  <1>3. i \in T
    <2>1. f[i] = s /\ Larger(h, i) = h
      BY <1>1, <1>2 DEF Runs, Larger
    <2> QED
      BY <1>1, <2>1
  <1>4. ASSUME NEW n \in T, n >= i PROVE n + 1 \in T
    <2> SUFFICES ASSUME n + 1 <= Len(log) PROVE G(n + 1)
      OBVIOUS
    <2>1. n < Len(log) /\ n + 1 \in i + 1 .. Len(log) /\ (n + 1) - 1 = n /\ n \in Nat
      BY <1>1, <1>4
    <2>2. G(n)
      BY <2>1
    <2>3. f[n + 1] = Apply(f[n], log[n + 1])
      BY <1>2, <2>1 DEF Runs
    <2>4. Larger(Larger(h, n), n + 1) = Larger(h, n + 1)
      BY <1>1, <2>1 DEF Larger
    <2>5. Good(log, ideal, Apply(f[n], log[n + 1]), n + 1, Larger(Larger(h, n), n + 1))
      BY <2>1, <2>2, StepGood
    <2> QED
      BY <2>3, <2>4, <2>5
  <1> HIDE DEF T
  <1>5. \A n \in Nat : n >= i => n \in T
    BY <1>1, <1>3, <1>4, Induct DEF T
  <1>6. G(Len(log)) /\ Larger(h, Len(log)) = Len(log)
    BY <1>1, <1>5 DEF T, Larger
  <1> QED
    BY <1>2, <1>6

--------------------------------------------------------------------------------
(* A log that grows                                                         *)

LEMMA LogGrows ==
  ASSUME NEW lg, NEW d, LogOK(lg, d), NEW c \in Cmd, NEW l2, NEW d2,
         l2 = Append(lg, c), d2 = Append(d, Apply(d[Len(d)], c))
  PROVE  LogOK(l2, d2) /\ Len(l2) = Len(lg) + 1
  <1>1. lg \in Seq(Cmd) /\ d \in Seq(Buckets) /\ Len(d) = Len(lg) + 1 /\ Len(lg) \in Nat
    BY DEF LogOK
  <1>2. d[Len(d)] \in Buckets
    BY <1>1
  <1>3. Apply(d[Len(d)], c) \in Buckets
    BY <1>2, ApplyType
  <1>4. /\ l2 \in Seq(Cmd) /\ Len(l2) = Len(lg) + 1 /\ l2[Len(l2)] = c
        /\ \A i \in 1 .. Len(lg) : l2[i] = lg[i]
    BY <1>1
  <1>5. /\ d2 \in Seq(Buckets) /\ Len(d2) = Len(d) + 1 /\ d2[Len(d2)] = Apply(d[Len(d)], c)
        /\ \A i \in 1 .. Len(d) : d2[i] = d[i]
    BY <1>1, <1>3
  <1>6. ASSUME NEW i \in 1 .. Len(l2) PROVE d2[i + 1] = Apply(d2[i], l2[i])
    <2>1. CASE i \in 1 .. Len(lg)
      <3>1. d[i + 1] = Apply(d[i], lg[i])
        BY <2>1 DEF LogOK
      <3> QED
        BY <1>1, <1>4, <1>5, <2>1, <3>1
    <2>2. CASE i = Len(l2)
      BY <1>1, <1>4, <1>5, <2>2
    <2> QED
      BY <1>1, <1>4, <2>1, <2>2
  <1> QED
    BY <1>1, <1>4, <1>5, <1>6 DEF LogOK

LEMMA GoodGrows ==
  ASSUME NEW lg, NEW d, LogOK(lg, d), NEW c \in Cmd, NEW s, NEW i, NEW h, Good(lg, d, s, i, h)
  PROVE  Good(Append(lg, c), Append(d, Apply(d[Len(d)], c)), s, i, h)
  <1> DEFINE l2 == Append(lg, c)
             d2 == Append(d, Apply(d[Len(d)], c))
  <1>1. /\ lg \in Seq(Cmd) /\ d \in Seq(Buckets) /\ Len(d) = Len(lg) + 1 /\ Len(lg) \in Nat
        /\ Len(lg) >= 1
    BY DEF LogOK
  <1>2. d[Len(d)] \in Buckets
    BY <1>1
  <1>3. Apply(d[Len(d)], c) \in Buckets
    BY <1>2, ApplyType
  <1>4. Len(l2) = Len(lg) + 1 /\ DOMAIN l2 = 1 .. Len(l2) /\ \A j \in 1 .. Len(lg) : l2[j] = lg[j]
    BY <1>1
  <1>5. \A j \in 1 .. Len(d) : d2[j] = d[j]
    BY <1>1, <1>3
  <1> HIDE DEF l2, d2
  <1>6. s \in Buckets /\ i \in Nat /\ h \in Nat /\ i <= h /\ h <= Len(lg)
    BY DEF Good
  <1>7. X(d2, i) = X(d, i) /\ X(d2, h) = X(d, h)
    BY <1>1, <1>5, <1>6 DEF X
  <1>8. \A k : Later(l2, k, i, h) <=> Later(lg, k, i, h)
    BY <1>1, <1>4, <1>6 DEF Later
  <1>9. 2 <= h => \A k : Filled(l2, k) <=> Filled(lg, k)
    BY <1>1, <1>4, <1>6 DEF Filled
  <1>10. First(l2) => First(lg)
    <2> SUFFICES ASSUME First(l2), NEW j \in DOMAIN lg, lg[j].op = "bootstrap"
                 PROVE  lg[2].op = "bootstrap" /\ (j = 2 \/ ConfigKey \in DOMAIN lg[2].entries)
      BY DEF First
    <2>1. j \in 1 .. Len(lg) /\ j # 1
      BY <1>1, NoopCmd DEF LogOK
    <2>2. 2 \in 1 .. Len(lg) /\ j \in DOMAIN l2
      BY <1>1, <1>4, <2>1
    <2> QED
      BY <1>4, <2>1, <2>2 DEF First
  <1>11. First(l2) => \A k \in K : KeyGood(l2, d2, s, i, h, k)
    BY <1>7, <1>8, <1>9, <1>10 DEF Good, KeyGood
  <1>12. Good(l2, d2, s, i, h)
    BY <1>1, <1>4, <1>6, <1>9, <1>11 DEF Good
  <1> QED
    BY <1>12 DEF l2, d2

--------------------------------------------------------------------------------
(* The invariant                                                            *)

Statuses == {"down", "waiting", "ready", "loading", "bootstrapping", "booted", "unsigned", "signing",
             "polling", "serving"}

Node == [status : Statuses, last : Nat, commit : Nat, applied : Nat, store : Buckets, high : Nat]
Snap == [index : Nat, data : Buckets, upto : Nat]

NodeOK(lg, d, r) == /\ r.commit <= r.last /\ r.applied <= r.last /\ r.last <= Len(lg)
                    /\ Good(lg, d, r.store, r.applied, r.high)

SnapOK(lg, d, p) == Good(lg, d, p.data, p.index, p.upto)

TypeInv == /\ leader \in Nodes \cup {NoNode} /\ node \in [Nodes -> Node]
           /\ snap \in [Nodes -> Snap] /\ pend \in [Nodes -> Nat]

\* The leader runs and holds the whole log.
LeaderInv == leader # NoNode => node[leader].last = Len(log) /\ node[leader].status # "down"

\* Buckets and snapshots can be replayed from what they count as applied, and
\* a snapshot from what its server counts as applied.
FilesInv ==
  \A n \in Nodes : /\ NodeOK(log, ideal, node[n]) /\ SnapOK(log, ideal, snap[n])
                   /\ snap[n].index <= node[n].applied /\ pend[n] <= node[n].applied
                   /\ node[n].status = "down" => pend[n] = 0

SInv == LogOK(log, ideal) /\ TypeInv /\ LeaderInv /\ FilesInv

LEMMA MaxTwo == \A a, b \in Nat : Max({a, b}) = Larger(a, b)
  <1> SUFFICES ASSUME NEW a \in Nat, NEW b \in Nat PROVE Max({a, b}) = Larger(a, b)
    OBVIOUS
  <1>1. \E x \in {a, b} : \A y \in {a, b} : x >= y
    OBVIOUS
  <1>2. Max({a, b}) \in {a, b} /\ \A y \in {a, b} : Max({a, b}) >= y
    BY <1>1 DEF Max
  <1> QED
    BY <1>2 DEF Larger

LEMMA MinTwo == \A a, b \in Nat : Min({a, b}) \in Nat /\ Min({a, b}) <= b
  <1> SUFFICES ASSUME NEW a \in Nat, NEW b \in Nat
               PROVE  Min({a, b}) \in Nat /\ Min({a, b}) <= b
    OBVIOUS
  <1>1. \E x \in {a, b} : \A y \in {a, b} : x <= y
    OBVIOUS
  <1>2. Min({a, b}) \in {a, b} /\ \A y \in {a, b} : Min({a, b}) <= y
    BY <1>1 DEF Min
  <1> QED
    BY <1>2

LEMMA EmptyGood ==
  ASSUME NEW lg, NEW d, LogOK(lg, d), NEW i \in Nat, i <= 1
  PROVE  Good(lg, d, Empty, i, i)
  <1>1. Len(lg) \in Nat /\ Len(lg) >= 1
    BY LogFacts DEF LogOK
  <1>2. X(d, i) = Empty
    BY LogFacts
  <1> QED
    BY <1>1, <1>2, EmptyFacts DEF Good, KeyGood

LEMMA NewFiles ==
  ASSUME NEW lg, NEW d, LogOK(lg, d)
  PROVE  /\ Fresh \in Node /\ NodeOK(lg, d, Fresh) /\ Fresh.applied = 0 /\ Fresh.last = 0
         /\ NoSnapshot \in Snap /\ SnapOK(lg, d, NoSnapshot) /\ NoSnapshot.index = 0
  <1>1. Good(lg, d, Empty, 0, 0) /\ Len(lg) \in Nat
    BY EmptyGood, LogFacts
  <1>2. Fresh \in Node /\ NoSnapshot \in Snap
    BY EmptyFacts DEF Fresh, NoSnapshot, Node, Snap, Statuses
  <1>3. NodeOK(lg, d, Fresh) /\ SnapOK(lg, d, NoSnapshot)
    BY <1>1 DEF NodeOK, SnapOK, Fresh, NoSnapshot
  <1> QED
    BY <1>2, <1>3 DEF Fresh, NoSnapshot

LEMMA InitSInv == Init => SInv
  <1> SUFFICES ASSUME Init PROVE SInv
    OBVIOUS
  <1>1. LogOK(log, ideal)
    <2>1. /\ log \in Seq(Cmd) /\ Len(log) = 1 /\ log[1] = Noop
          /\ ideal \in Seq(Buckets) /\ Len(ideal) = 2 /\ ideal[1] = Empty /\ ideal[2] = Empty
      BY NoopCmd, EmptyFacts DEF Init
    <2>2. Apply(Empty, Noop) = Empty
      <3>1. /\ Apply(Empty, Noop) \in Buckets
            /\ \A k \in Keys : Apply(Empty, Noop)[k] = Empty[k]
        BY ApplyType, EmptyFacts, NoopCmd
      <3> QED
        BY <3>1, EmptyFacts DEF Buckets
    <2> QED
      BY <2>1, <2>2 DEF LogOK
  <1>2. Len(log) = 1
    BY DEF Init
  <1> DEFINE A == [Fresh EXCEPT !.last = 1]
             B == [Fresh EXCEPT !.status = "down"]
  <1>3. Fresh \in Node /\ NodeOK(log, ideal, Fresh) /\ Fresh.applied = 0
    BY <1>1, NewFiles
  <1>4. A \in Node /\ NodeOK(log, ideal, A) /\ A.applied = 0
    BY <1>2, <1>3 DEF Node, NodeOK, Fresh
  <1>5. B \in Node /\ NodeOK(log, ideal, B) /\ B.applied = 0
    BY <1>2, <1>3 DEF Node, NodeOK, Fresh, Statuses
  <1> HIDE DEF A, B
  <1>6. node \in [Nodes -> {Fresh, A, B}]
    BY DEF Init, A, B
  <1>7. \A n \in Nodes : snap[n] = NoSnapshot /\ pend[n] = 0
    BY DEF Init
  <1>8. TypeInv
    BY <1>1, <1>3, <1>4, <1>5, <1>6, NewFiles DEF Init, TypeInv
  <1>9. FilesInv
    BY <1>1, <1>3, <1>4, <1>5, <1>6, <1>7, NewFiles DEF FilesInv
  <1>10. LeaderInv
    BY DEF Init, LeaderInv
  <1> QED
    BY <1>1, <1>8, <1>9, <1>10 DEF SInv

--------------------------------------------------------------------------------
(* One server changes and the log stays                                     *)

LEMMA LocalStep ==
  ASSUME SInv, NEW n \in Nodes, NEW r \in Node, NEW p \in Snap, NEW q \in Nat,
         node' = [node EXCEPT ![n] = r], snap' = [snap EXCEPT ![n] = p],
         pend' = [pend EXCEPT ![n] = q], UNCHANGED <<log, ideal>>,
         leader' = leader \/ leader' = NoNode,
         leader' = n /\ n # NoNode => r.last = Len(log) /\ r.status # "down",
         NodeOK(log, ideal, r), SnapOK(log, ideal, p), p.index <= r.applied, q <= r.applied,
         r.status = "down" => q = 0
  PROVE  SInv'
  <1>1. node \in [Nodes -> Node] /\ snap \in [Nodes -> Snap] /\ pend \in [Nodes -> Nat]
        /\ leader \in Nodes \cup {NoNode}
    BY DEF SInv, TypeInv
  <1>2. \A m \in Nodes : /\ node'[m] = IF m = n THEN r ELSE node[m]
                         /\ snap'[m] = IF m = n THEN p ELSE snap[m]
                         /\ pend'[m] = IF m = n THEN q ELSE pend[m]
    BY <1>1
  <1>3. TypeInv'
    BY <1>1 DEF TypeInv
  <1>4. LeaderInv'
    BY <1>1, <1>2 DEF SInv, LeaderInv
  <1>5. FilesInv'
    BY <1>2 DEF SInv, FilesInv
  <1>6. LogOK(log, ideal)'
    BY DEF SInv
  <1> QED
    BY <1>3, <1>4, <1>5, <1>6 DEF SInv

LEMMA NodeFacts ==
  ASSUME SInv, NEW n \in Nodes
  PROVE  /\ node[n] \in Node /\ snap[n] \in Snap /\ pend[n] \in Nat
         /\ node[n].last \in Nat /\ node[n].commit \in Nat /\ node[n].applied \in Nat
         /\ node[n].high \in Nat /\ node[n].store \in Buckets /\ node[n].status \in Statuses
         /\ snap[n].index \in Nat /\ snap[n].upto \in Nat /\ snap[n].data \in Buckets
         /\ node[n].commit <= node[n].last /\ node[n].last <= Len(log) /\ Len(log) \in Nat
         /\ node[n].applied <= node[n].last
         /\ Good(log, ideal, node[n].store, node[n].applied, node[n].high)
         /\ Good(log, ideal, snap[n].data, snap[n].index, snap[n].upto)
         /\ snap[n].index <= node[n].applied /\ pend[n] <= node[n].applied
         /\ node[n].status = "down" => pend[n] = 0
         /\ LogOK(log, ideal)
  <1>1. node[n] \in Node /\ snap[n] \in Snap /\ pend[n] \in Nat
    BY DEF SInv, TypeInv
  <1>2. LogOK(log, ideal) /\ Len(log) \in Nat
    BY LogFacts DEF SInv
  <1> QED
    BY <1>1, <1>2 DEF SInv, FilesInv, NodeOK, SnapOK, Node, Snap

\* The bucket of n, its applied index and its snapshot stay as they are.
LEMMA KeptStep ==
  ASSUME SInv, NEW n \in Nodes, NEW r \in Node, NEW q \in Nat,
         node' = [node EXCEPT ![n] = r], pend' = [pend EXCEPT ![n] = q],
         UNCHANGED <<log, ideal, snap>>,
         leader' = leader \/ leader' = NoNode,
         leader' = n /\ n # NoNode => r.last = Len(log) /\ r.status # "down",
         r.store = node[n].store, r.applied = node[n].applied, r.high = node[n].high,
         r.commit <= r.last, r.applied <= r.last, r.last <= Len(log), q <= node[n].applied,
         r.status = "down" => q = 0
  PROVE  SInv'
  <1>1. snap' = [snap EXCEPT ![n] = snap[n]]
    BY DEF SInv, TypeInv
  <1>2. snap[n] \in Snap /\ SnapOK(log, ideal, snap[n]) /\ snap[n].index <= r.applied
    BY NodeFacts DEF SnapOK
  <1>3. NodeOK(log, ideal, r)
    BY NodeFacts DEF NodeOK
  <1> QED
    BY <1>1, <1>2, <1>3, LocalStep

LEMMA ServerOnly ==
  ASSUME SInv, NEW n \in Nodes, NEW r \in Node, node' = [node EXCEPT ![n] = r],
         UNCHANGED <<log, ideal, leader, snap, pend>>,
         leader = n /\ n # NoNode => r.last = Len(log) /\ r.status # "down",
         r.store = node[n].store, r.applied = node[n].applied, r.high = node[n].high,
         r.commit <= r.last, r.applied <= r.last, r.last <= Len(log),
         r.status = "down" => node[n].status = "down"
  PROVE  SInv'
  <1>1. pend' = [pend EXCEPT ![n] = pend[n]]
    BY DEF SInv, TypeInv
  <1>2. pend[n] \in Nat /\ pend[n] <= node[n].applied /\ (r.status = "down" => pend[n] = 0)
    BY NodeFacts
  <1> QED
    BY <1>1, <1>2, KeptStep

\* A step of the startup that leaves everything but the status alone.
LEMMA StatusOnly ==
  ASSUME SInv, NEW n \in Nodes, NEW st \in Statuses \ {"down"}, node[n].status # "down",
         node' = [node EXCEPT ![n].status = st],
         UNCHANGED <<log, ideal, leader, snap, pend>>
  PROVE  SInv'
  <1> DEFINE r == [node[n] EXCEPT !.status = st]
  <1>1. node[n] \in Node
    BY NodeFacts
  <1>2. /\ r \in Node /\ r.store = node[n].store /\ r.applied = node[n].applied
        /\ r.high = node[n].high /\ r.commit = node[n].commit /\ r.last = node[n].last
        /\ r.status = st
    BY <1>1 DEF Node
  <1>3. node' = [node EXCEPT ![n] = r]
    OBVIOUS
  <1> HIDE DEF r
  <1>4. leader = n /\ n # NoNode => r.last = Len(log) /\ r.status # "down"
    BY <1>2 DEF SInv, LeaderInv
  <1> QED
    BY <1>2, <1>3, <1>4, NodeFacts, ServerOnly

--------------------------------------------------------------------------------
(* One lemma per action                                                     *)

LEMMA ElectStep == \A n \in Nodes : SInv /\ Elect(n) => SInv'
  <1> SUFFICES ASSUME NEW n \in Nodes, SInv, Elect(n) PROVE SInv'
    OBVIOUS
  <1>1. /\ node[n].status # "down" /\ node[n].last = Len(log) /\ leader' = n
        /\ UNCHANGED <<log, ideal, node, snap, pend>>
    BY DEF Elect, Up
  <1>2. LeaderInv'
    BY <1>1 DEF LeaderInv
  <1>3. TypeInv'
    BY <1>1 DEF SInv, TypeInv
  <1>4. LogOK(log, ideal)' /\ FilesInv'
    BY <1>1 DEF SInv, FilesInv
  <1> QED
    BY <1>2, <1>3, <1>4 DEF SInv

LEMMA CommitSteps == \A n \in Nodes : SInv /\ (LeaderCommits(n) \/ AppendEntries(n)) => SInv'
  <1> SUFFICES ASSUME NEW n \in Nodes, SInv, LeaderCommits(n) \/ AppendEntries(n) PROVE SInv'
    OBVIOUS
  <1>1. /\ node[n] \in Node /\ node[n].last \in Nat /\ node[n].commit \in Nat /\ Len(log) \in Nat
        /\ node[n].commit <= node[n].last /\ node[n].last <= Len(log)
        /\ node[n].applied \in Nat /\ node[n].applied <= node[n].last
    BY NodeFacts
  <1>2. ASSUME NEW l \in Nat, NEW c \in Nat, c <= l, node[n].last <= l, l <= Len(log),
               leader = n /\ n # NoNode => l = Len(log) /\ node[n].status # "down",
               node' = [node EXCEPT ![n].last = l, ![n].commit = c],
               UNCHANGED <<log, ideal, leader, snap, pend>>
        PROVE  SInv'
    <2> DEFINE r == [node[n] EXCEPT !.last = l, !.commit = c]
    <2>1. /\ r \in Node /\ r.store = node[n].store /\ r.applied = node[n].applied
          /\ r.high = node[n].high /\ r.commit = c /\ r.last = l
          /\ r.status = node[n].status
      BY <1>1 DEF Node
    <2>2. node' = [node EXCEPT ![n] = r]
      BY <1>2 DEF SInv, TypeInv
    <2> HIDE DEF r
    <2>3. r.applied <= r.last
      BY <1>1, <1>2, <2>1
    <2> QED
      BY <1>2, <2>1, <2>2, <2>3, ServerOnly
  <1>3. CASE LeaderCommits(n)
    <2>1. /\ leader = n /\ node' = [node EXCEPT ![n].commit = Len(log)]
          /\ UNCHANGED <<log, ideal, leader, snap, pend>>
      BY <1>3 DEF LeaderCommits
    <2>2. node[n].last = Len(log) /\ node[n].status # "down"
      BY <2>1, StoreAssumption DEF SInv, LeaderInv
    <2> DEFINE r == [node[n] EXCEPT !.commit = Len(log)]
    <2>3. /\ r \in Node /\ r.store = node[n].store /\ r.applied = node[n].applied
          /\ r.high = node[n].high /\ r.commit = Len(log) /\ r.last = Len(log)
          /\ r.status = node[n].status
      BY <1>1, <2>2 DEF Node
    <2>4. node' = [node EXCEPT ![n] = r]
      BY <2>1 DEF SInv, TypeInv
    <2> HIDE DEF r
    <2>5. /\ r.commit <= r.last /\ r.applied <= r.last /\ r.last <= Len(log)
          /\ leader = n /\ n # NoNode => r.last = Len(log) /\ r.status # "down"
          /\ UNCHANGED <<log, ideal, leader, snap, pend>>
      BY <1>1, <2>1, <2>2, <2>3
    <2> QED
      BY <2>3, <2>4, <2>5, ServerOnly
  <1>4. CASE AppendEntries(n)
    <2>1. PICK i \in node[n].last .. Len(log) :
            node' = [node EXCEPT ![n].last = i,
                                 ![n].commit = Max({@, Min({node[leader].commit, i})})]
      BY <1>4 DEF AppendEntries
    <2>2. leader \in Nodes /\ leader # n /\ UNCHANGED <<log, ideal, leader, snap, pend>>
      BY <1>4 DEF AppendEntries, SInv, TypeInv
    <2>3. i \in Nat /\ node[n].last <= i /\ i <= Len(log)
      BY <1>1
    <2>4. node[leader].commit \in Nat
      BY <2>2, NodeFacts
    <2> DEFINE m == Min({node[leader].commit, i})
               c == Max({node[n].commit, m})
    <2>5. m \in Nat /\ m <= i
      BY <2>3, <2>4, MinTwo
    <2> HIDE DEF m
    <2>6. c \in Nat /\ c <= i
      BY <1>1, <2>3, <2>5, MaxTwo DEF Larger
    <2>7. node' = [node EXCEPT ![n].last = i, ![n].commit = c]
      BY <2>1 DEF m
    <2> HIDE DEF c
    <2> QED
      BY <1>2, <2>2, <2>3, <2>6, <2>7
  <1> QED
    BY <1>3, <1>4

\* The leader's log grows by a command, at once committed.
LEMMA AppendStep ==
  ASSUME SInv, NEW n \in Nodes, leader = n, NEW c \in Cmd, NEW st \in Statuses \ {"down"},
         Append1(n, c, st), UNCHANGED <<leader, snap, pend>>
  PROVE  SInv'
  <1>1. /\ log' = Append(log, c) /\ ideal' = Append(ideal, Apply(ideal[Len(ideal)], c))
        /\ node' = [node EXCEPT ![n].last = @ + 1, ![n].commit = Len(log) + 1, ![n].status = st]
    BY DEF Append1
  <1>2. LogOK(log, ideal) /\ node[n] \in Node /\ Len(log) \in Nat /\ node[n].last = Len(log)
    BY NodeFacts, StoreAssumption DEF SInv, LeaderInv
  <1>3. LogOK(log', ideal') /\ Len(log') = Len(log) + 1
    BY <1>1, <1>2, LogGrows
  <1> DEFINE r == [node[n] EXCEPT !.last = @ + 1, !.commit = Len(log) + 1, !.status = st]
  <1>4. /\ r \in Node /\ r.store = node[n].store /\ r.applied = node[n].applied
        /\ r.high = node[n].high /\ r.commit = Len(log) + 1 /\ r.last = Len(log) + 1
        /\ r.status = st
    <2>1. Len(log) + 1 \in Nat /\ node[n].last + 1 = Len(log) + 1 /\ st \in Statuses
      BY <1>2
    <2> QED
      BY <1>2, <2>1 DEF Node
  <1>5. node' = [node EXCEPT ![n] = r] /\ node \in [Nodes -> Node]
    BY <1>1 DEF SInv, TypeInv
  <1> HIDE DEF r
  <1>6. \A m \in Nodes : node'[m] = IF m = n THEN r ELSE node[m]
    BY <1>5
  <1>7. TypeInv'
    BY <1>4, <1>5 DEF SInv, TypeInv
  <1>8. LeaderInv'
    BY <1>3, <1>4, <1>6 DEF LeaderInv
  <1>9. FilesInv'
    <2> SUFFICES ASSUME NEW m \in Nodes
                 PROVE  /\ NodeOK(log', ideal', node'[m]) /\ SnapOK(log', ideal', snap[m])
                        /\ snap[m].index <= node'[m].applied /\ pend[m] <= node'[m].applied
                        /\ node'[m].status = "down" => pend[m] = 0
      BY DEF FilesInv
    <2>1. /\ Good(log, ideal, node[m].store, node[m].applied, node[m].high)
          /\ Good(log, ideal, snap[m].data, snap[m].index, snap[m].upto)
          /\ node[m].commit <= node[m].last /\ node[m].last <= Len(log)
          /\ node[m].applied <= node[m].last /\ node[m].last \in Nat /\ node[m].applied \in Nat
          /\ snap[m].index <= node[m].applied /\ pend[m] <= node[m].applied
          /\ node[m].status = "down" => pend[m] = 0
      BY NodeFacts
    <2>2. /\ Good(log', ideal', node[m].store, node[m].applied, node[m].high)
          /\ Good(log', ideal', snap[m].data, snap[m].index, snap[m].upto)
      <3>1. log' = Append(log, c) /\ ideal' = Append(ideal, Apply(ideal[Len(ideal)], c))
        BY <1>1
      <3>2. \A s, i, h : Good(log, ideal, s, i, h) => Good(log', ideal', s, i, h)
        BY <1>2, <3>1, GoodGrows, Zenon
      <3> QED
        BY <2>1, <3>2
    <2>3. NodeOK(log', ideal', node'[m])
      BY <1>2, <1>3, <1>4, <1>6, <2>1, <2>2 DEF NodeOK
    <2> QED
      BY <1>4, <1>6, <2>1, <2>2, <2>3 DEF SnapOK
  <1> QED
    BY <1>3, <1>7, <1>8, <1>9 DEF SInv

LEMMA ProposeStep == \A n \in Nodes : SInv /\ Propose(n) => SInv'
  <1> SUFFICES ASSUME NEW n \in Nodes, SInv, Propose(n) PROVE SInv'
    OBVIOUS
  <1>1. PICK c \in Proposals(node[n].store, Len(log) + 1) : Append1(n, c, "serving")
    BY DEF Propose
  <1>2. node[n].store \in Buckets /\ Len(log) + 1 \in Nat \ {0}
    BY NodeFacts DEF Node
  <1>5. c \in Cmd
    BY <1>2, ProposalTypes
  <1>3. leader = n /\ UNCHANGED <<leader, snap, pend>>
    BY DEF Propose
  <1>4. "serving" \in Statuses \ {"down"}
    BY DEF Statuses
  <1> QED
    BY <1>1, <1>3, <1>4, <1>5, AppendStep

LEMMA ApplyStep == \A n \in Nodes : SInv /\ ApplyNext(n) => SInv'
  <1> SUFFICES ASSUME NEW n \in Nodes, SInv, ApplyNext(n) PROVE SInv'
    OBVIOUS
  <1> DEFINE i == node[n].applied + 1
             s == Apply(node[n].store, log[i])
             h == Max({node[n].high, i})
  <1>1. /\ node' = [node EXCEPT ![n].store = s, ![n].applied = i, ![n].high = h]
        /\ UNCHANGED <<log, ideal, leader, snap, pend>> /\ node[n].applied < node[n].commit
        /\ node[n].status # "down"
    BY DEF ApplyNext, Up
  <1>2. /\ node[n] \in Node /\ snap[n] \in Snap /\ pend[n] \in Nat
        /\ node[n].last \in Nat /\ node[n].commit \in Nat /\ node[n].applied \in Nat
        /\ node[n].high \in Nat /\ Len(log) \in Nat /\ snap[n].index \in Nat
        /\ node[n].commit <= node[n].last /\ node[n].last <= Len(log)
        /\ snap[n].index <= node[n].applied /\ pend[n] <= node[n].applied
        /\ SnapOK(log, ideal, snap[n])
    BY NodeFacts DEF SnapOK
  <1>3. LogOK(log, ideal) /\ Good(log, ideal, node[n].store, node[n].applied, node[n].high)
    BY NodeFacts
  <1>4. i \in Nat /\ i <= node[n].last /\ node[n].applied < Len(log) /\ node[n].applied <= i
    BY <1>1, <1>2
  <1>5. h = Larger(node[n].high, i)
    BY <1>2, <1>4, MaxTwo
  <1>6. Good(log, ideal, s, i, h)
    BY <1>3, <1>4, <1>5, StepGood
  <1> HIDE DEF s, i, h
  <1> DEFINE r == [node[n] EXCEPT !.store = s, !.applied = i, !.high = h]
  <1>7. s \in Buckets /\ h \in Nat
    BY <1>6 DEF Good
  <1>8. /\ r \in Node /\ r.store = s /\ r.applied = i /\ r.high = h
        /\ r.commit = node[n].commit /\ r.last = node[n].last /\ r.status = node[n].status
    BY <1>2, <1>4, <1>7 DEF Node
  <1>9. /\ node' = [node EXCEPT ![n] = r] /\ snap' = [snap EXCEPT ![n] = snap[n]]
        /\ pend' = [pend EXCEPT ![n] = pend[n]]
    BY <1>1 DEF SInv, TypeInv
  <1> HIDE DEF r
  <1>10. NodeOK(log, ideal, r) /\ snap[n].index <= r.applied /\ pend[n] <= r.applied
    BY <1>2, <1>4, <1>6, <1>8 DEF NodeOK
  <1>11. leader' = n /\ n # NoNode => r.last = Len(log) /\ r.status # "down"
    BY <1>1, <1>8 DEF SInv, LeaderInv
  <1> QED
    BY <1>1, <1>2, <1>8, <1>9, <1>10, <1>11, LocalStep

LEMMA SnapshotStep == \A n \in Nodes : SInv /\ SnapshotStart(n) => SInv'
  <1> SUFFICES ASSUME NEW n \in Nodes, SInv, SnapshotStart(n) PROVE SInv'
    OBVIOUS
  <1> DEFINE r == node[n]
             q == node[n].applied
  <1>1. /\ pend' = [pend EXCEPT ![n] = q] /\ UNCHANGED <<log, ideal, leader, node, snap>>
        /\ r.status # "down"
    BY DEF SnapshotStart, Up
  <1>2. node' = [node EXCEPT ![n] = r]
    BY <1>1 DEF SInv, TypeInv
  <1>3. /\ r \in Node /\ q \in Nat /\ r.commit <= r.last /\ r.applied <= r.last
        /\ r.last <= Len(log) /\ r.store = node[n].store /\ r.applied = node[n].applied
        /\ r.high = node[n].high /\ q <= node[n].applied
    BY NodeFacts
  <1>4. leader' = n /\ n # NoNode => r.last = Len(log) /\ r.status # "down"
    BY <1>1 DEF SInv, LeaderInv
  <1>5. /\ UNCHANGED <<log, ideal, snap>> /\ leader' = leader /\ pend' = [pend EXCEPT ![n] = q]
        /\ r.status # "down"
    BY <1>1
  <1> HIDE DEF r, q
  <1> QED
    BY <1>2, <1>3, <1>4, <1>5, KeptStep

\* The snapshot is labelled with an entry that may be long past.
LEMMA PersistStep == \A n \in Nodes : SInv /\ Persist(n) => SInv'
  <1> SUFFICES ASSUME NEW n \in Nodes, SInv, Persist(n) PROVE SInv'
    OBVIOUS
  <1> DEFINE p == [index |-> pend[n], data |-> node[n].store, upto |-> node[n].high]
             o == snap[n]
             r == node[n]
  <1>1. /\ pend' = [pend EXCEPT ![n] = 0] /\ UNCHANGED <<log, ideal, leader, node>>
        /\ snap' = IF pend[n] <= snap[n].index THEN snap ELSE [snap EXCEPT ![n] = p]
    BY DEF Persist
  <1>2. node' = [node EXCEPT ![n] = r] /\ snap = [snap EXCEPT ![n] = o]
    BY <1>1 DEF SInv, TypeInv
  <1>3. /\ r \in Node /\ NodeOK(log, ideal, r) /\ r.applied \in Nat
        /\ pend[n] \in Nat /\ pend[n] <= r.applied /\ r.store \in Buckets
        /\ r.high \in Nat /\ o \in Snap /\ SnapOK(log, ideal, o) /\ o.index <= r.applied
    BY NodeFacts DEF SnapOK, NodeOK
  <1>4. Good(log, ideal, node[n].store, pend[n], node[n].high)
    BY <1>3, NodeFacts, Lower
  <1>5. leader' = n /\ n # NoNode => r.last = Len(log) /\ r.status # "down"
    BY <1>1 DEF SInv, LeaderInv
  <1>6. p \in Snap /\ SnapOK(log, ideal, p) /\ p.index <= r.applied
    BY <1>3, <1>4 DEF Snap, SnapOK
  <1>7. UNCHANGED <<log, ideal>> /\ leader' = leader /\ pend' = [pend EXCEPT ![n] = 0]
        /\ 0 \in Nat /\ 0 <= r.applied
    BY <1>1, <1>3
  <1>8. PICK x \in {o, p} : snap' = [snap EXCEPT ![n] = x]
    <2> HIDE DEF p, o
    <2> QED
      BY <1>1, <1>2
  <1>9. x \in Snap /\ SnapOK(log, ideal, x) /\ x.index <= r.applied
    <2> HIDE DEF p, o, r
    <2> QED
      BY <1>3, <1>6
  <1> HIDE DEF r, p, o
  <1> QED
    BY <1>2, <1>3, <1>5, <1>7, <1>8, <1>9, LocalStep

\* What FSM.Restore makes of a server and a snapshot.
LEMMA RestoreType ==
  ASSUME NEW r \in Node, NEW p \in Snap
  PROVE  /\ Restore(r, p) \in Node /\ Restore(r, p).store = p.data
         /\ Restore(r, p).applied = p.index /\ Restore(r, p).high = p.upto
         /\ Restore(r, p).last = r.last /\ Restore(r, p).commit = r.commit
         /\ Restore(r, p).status = r.status
  BY DEF Restore, Node, Snap

LEMMA InstallStep == \A n \in Nodes : SInv /\ InstallSnapshot(n) => SInv'
  <1> SUFFICES ASSUME NEW n \in Nodes, SInv, InstallSnapshot(n) PROVE SInv'
    OBVIOUS
  <1> DEFINE p == snap[leader]
             b == Restore(node[n], p)
             r == [b EXCEPT !.last = p.index]
  <1>1. /\ leader \in Nodes /\ leader # n /\ p.index > node[n].last
        /\ UNCHANGED <<log, ideal, leader, pend>> /\ node[n].status # "down"
    BY DEF InstallSnapshot, SInv, TypeInv, Up
  <1>2. node' = [node EXCEPT ![n] = r] /\ snap' = [snap EXCEPT ![n] = p]
    BY DEF InstallSnapshot, SInv, TypeInv
  <1>3. pend' = [pend EXCEPT ![n] = pend[n]]
    BY <1>1 DEF SInv, TypeInv
  <1>4. /\ p \in Snap /\ p.index \in Nat /\ Good(log, ideal, p.data, p.index, p.upto)
        /\ Len(log) \in Nat
    BY <1>1, NodeFacts
  <1>5. p.index <= Len(log)
    BY <1>4 DEF Good
  <1>6. /\ node[n] \in Node /\ node[n].applied \in Nat /\ node[n].commit <= node[n].last
        /\ node[n].applied <= node[n].last /\ pend[n] \in Nat /\ pend[n] <= node[n].applied
        /\ node[n].commit \in Nat /\ node[n].last \in Nat
    BY NodeFacts
  <1>7. /\ b \in Node /\ b.store = p.data /\ b.applied = p.index /\ b.high = p.upto
        /\ b.commit = node[n].commit /\ b.status = node[n].status
    BY <1>4, <1>6, RestoreType
  <1> HIDE DEF p, b
  <1>8. /\ r \in Node /\ r.store = p.data /\ r.applied = p.index /\ r.high = p.upto
        /\ r.commit = node[n].commit /\ r.last = p.index /\ r.status = node[n].status
    BY <1>4, <1>7 DEF Node
  <1> HIDE DEF r
  <1>9. NodeOK(log, ideal, r) /\ SnapOK(log, ideal, p) /\ p.index <= r.applied /\ pend[n] <= r.applied
    BY <1>1, <1>4, <1>5, <1>6, <1>8 DEF NodeOK, SnapOK
  <1> QED
    BY <1>1, <1>2, <1>3, <1>4, <1>6, <1>8, <1>9, LocalStep

LEMMA StopStep ==
  ASSUME SInv, NEW n \in Nodes, Stop(n), UNCHANGED <<log, ideal, snap>>
  PROVE  SInv'
  <1> DEFINE r == [node[n] EXCEPT !.status = "down", !.commit = 0]
  <1>1. /\ node' = [node EXCEPT ![n] = r] /\ pend' = [pend EXCEPT ![n] = 0]
        /\ leader' = IF leader = n THEN NoNode ELSE leader
    BY DEF Stop, SInv, TypeInv
  <1>2. /\ node[n] \in Node /\ node[n].applied \in Nat /\ node[n].last \in Nat
        /\ node[n].applied <= node[n].last /\ node[n].last <= Len(log)
    BY NodeFacts
  <1>3. /\ r \in Node /\ r.store = node[n].store /\ r.applied = node[n].applied
        /\ r.high = node[n].high /\ r.commit = 0 /\ r.last = node[n].last
    BY <1>2 DEF Node, Statuses
  <1> HIDE DEF r
  <1>4. leader' = n /\ n # NoNode => FALSE
    BY <1>1
  <1>5. /\ r.commit <= r.last /\ r.applied <= r.last /\ r.last <= Len(log)
        /\ 0 \in Nat /\ 0 <= node[n].applied
    BY <1>2, <1>3
  <1>6. leader' = leader \/ leader' = NoNode
    BY <1>1
  <1> QED
    BY <1>1, <1>3, <1>4, <1>5, <1>6, KeptStep

LEMMA StartupSteps ==
  \A n \in Nodes : SInv /\ (\/ WaitForCleanState(n) \/ CheckBootstrap(n)
                           \/ ReadSecret(n) \/ CommandApplied(n)) => SInv'
  <1> SUFFICES ASSUME NEW n \in Nodes, SInv,
                      WaitForCleanState(n) \/ CheckBootstrap(n) \/ ReadSecret(n) \/ CommandApplied(n)
               PROVE  SInv'
    OBVIOUS
  <1>1. {"ready", "loading", "serving", "unsigned", "booted"} \subseteq Statuses \ {"down"}
    BY DEF Statuses
  <1>2. PICK st \in {"ready", "loading", "serving", "unsigned", "booted"} :
          node' = [node EXCEPT ![n].status = st]
    BY DEF WaitForCleanState, CheckBootstrap, ReadSecret, CommandApplied
  <1>3. node[n].status # "down" /\ UNCHANGED <<log, ideal, leader, snap, pend>>
    BY DEF WaitForCleanState, CheckBootstrap, ReadSecret, CommandApplied
  <1> QED
    BY <1>1, <1>2, <1>3, StatusOnly

LEMMA BootstrapStep == \A n \in Nodes : SInv /\ ApplyBootstrapOnce(n) => SInv'
  <1> SUFFICES ASSUME NEW n \in Nodes, SInv, ApplyBootstrapOnce(n) PROVE SInv'
    OBVIOUS
  <1>1. "bootstrapping" \in Statuses \ {"down"} /\ node[n].status # "down" /\ leader = n
    BY DEF Statuses, ApplyBootstrapOnce
  <1>2. CASE Stop(n) /\ UNCHANGED <<log, ideal, snap>>
    BY <1>2, StopStep
  <1>3. CASE /\ UNCHANGED <<leader, snap, pend>>
             /\ \E file \in BootstrapFiles : Append1(n, ApplyBootstrap(file), "bootstrapping")
    <2>1. PICK file \in BootstrapFiles : Append1(n, ApplyBootstrap(file), "bootstrapping")
      BY <1>3
    <2>2. ApplyBootstrap(file) \in Cmd
      BY FileCmd
    <2> QED
      BY <1>1, <1>3, <2>1, <2>2, AppendStep
  <1> QED
    BY <1>2, <1>3 DEF ApplyBootstrapOnce

LEMMA SecretStep == \A n \in Nodes : SInv /\ GenerateSecret(n) => SInv'
  <1> SUFFICES ASSUME NEW n \in Nodes, SInv, GenerateSecret(n) PROVE SInv'
    OBVIOUS
  <1>1. {"signing", "polling"} \subseteq Statuses \ {"down"}
    BY DEF Statuses
  <1>2. Len(log) + 1 \in Nat \ {0} /\ node[n].store \in Buckets
    BY NodeFacts DEF Node
  <1>3. SetSessionSecret(node[n].store, Len(log) + 1) \in Cmd
    BY <1>2, ConfigCmds
  <1>4. UNCHANGED <<leader, snap, pend>> /\ node[n].status # "down"
    BY DEF GenerateSecret
  <1>5. \/ leader = n /\ Append1(n, SetSessionSecret(node[n].store, Len(log) + 1), "signing")
        \/ node' = [node EXCEPT ![n].status = "polling"] /\ UNCHANGED <<log, ideal>>
    BY DEF GenerateSecret
  <1>6. CASE leader = n /\ Append1(n, SetSessionSecret(node[n].store, Len(log) + 1), "signing")
    BY <1>1, <1>3, <1>4, <1>6, AppendStep
  <1>7. CASE node' = [node EXCEPT ![n].status = "polling"] /\ UNCHANGED <<log, ideal>>
    BY <1>1, <1>4, <1>7, StatusOnly
  <1> QED
    BY <1>5, <1>6, <1>7

LEMMA EndSteps == \A n \in Nodes : SInv /\ (PollSecret(n) \/ Crash(n)) => SInv'
  <1> SUFFICES ASSUME NEW n \in Nodes, SInv, PollSecret(n) \/ Crash(n) PROVE SInv'
    OBVIOUS
  <1>1. CASE Crash(n)
    BY <1>1, StopStep DEF Crash
  <1>2. CASE PollSecret(n) /\ Stop(n)
    BY <1>2, StopStep DEF PollSecret
  <1>3. CASE /\ PollSecret(n) /\ node' = [node EXCEPT ![n].status = "serving"]
             /\ UNCHANGED <<leader, pend>>
    <2>1. /\ "serving" \in Statuses \ {"down"} /\ node[n].status # "down"
          /\ UNCHANGED <<log, ideal, leader, snap, pend>>
      BY <1>3 DEF PollSecret, Statuses
    <2> QED
      BY <1>3, <2>1, StatusOnly
  <1> QED
    BY <1>1, <1>2, <1>3 DEF PollSecret

\* What NewRaft finds on disk can be replayed from what it counts as applied.
LEMMA ReopenedOK ==
  ASSUME SInv, NEW n \in Nodes, NEW no \in BOOLEAN
  PROVE  /\ Reopened(n, no) \in Node
         /\ Good(log, ideal, Reopened(n, no).store, Reopened(n, no).applied, Reopened(n, no).high)
         /\ Reopened(n, no).applied = snap[n].index
         /\ Reopened(n, no).last = node[n].last /\ Reopened(n, no).commit = node[n].commit
  <1>1. /\ node[n] \in Node /\ snap[n] \in Snap /\ snap[n].index \in Nat
        /\ LogOK(log, ideal) /\ snap[n].index <= node[n].applied
        /\ Good(log, ideal, node[n].store, node[n].applied, node[n].high)
        /\ Good(log, ideal, snap[n].data, snap[n].index, snap[n].upto)
    BY NodeFacts
  <1>2. CASE snap[n].index = 0 \/ no
    <2> DEFINE r == [node[n] EXCEPT !.applied = snap[n].index]
    <2>1. Reopened(n, no) = r
      BY <1>2 DEF Reopened
    <2>2. /\ r \in Node /\ r.store = node[n].store /\ r.applied = snap[n].index
          /\ r.high = node[n].high /\ r.commit = node[n].commit /\ r.last = node[n].last
      BY <1>1 DEF Node
    <2>3. Good(log, ideal, node[n].store, snap[n].index, node[n].high)
      BY <1>1, Lower
    <2> HIDE DEF r
    <2> QED
      BY <2>1, <2>2, <2>3
  <1>3. CASE ~(snap[n].index = 0 \/ no)
    <2>1. Reopened(n, no) = Restore(node[n], snap[n])
      BY <1>3 DEF Reopened
    <2> QED
      BY <1>1, <2>1, RestoreType
  <1> QED
    BY <1>2, <1>3

LEMMA RestartStep == \A n \in Nodes : SInv /\ Restart(n) => SInv'
  <1> SUFFICES ASSUME NEW n \in Nodes, SInv, Restart(n) PROVE SInv'
    OBVIOUS
  <1>1. PICK no \in NoSnapshotRestore :
          node' = [node EXCEPT ![n] = [Reopened(n, no) EXCEPT !.status = "waiting"]]
    BY DEF Restart
  <1>2. no \in BOOLEAN
    BY StoreAssumption
  <1> DEFINE b == Reopened(n, no)
             r == [b EXCEPT !.status = "waiting"]
             p == snap[n]
  <1>3. /\ b \in Node /\ Good(log, ideal, b.store, b.applied, b.high) /\ b.applied = p.index
        /\ b.last = node[n].last /\ b.commit = node[n].commit
    BY <1>2, ReopenedOK
  <1>4. node[n].status = "down" /\ UNCHANGED <<log, ideal, leader, snap, pend>>
    BY DEF Restart, Up
  <1>5. /\ p \in Snap /\ SnapOK(log, ideal, p) /\ p.index \in Nat /\ pend[n] = 0
        /\ p.index <= node[n].applied /\ node[n].applied <= node[n].last
        /\ node[n].commit <= node[n].last /\ node[n].last <= Len(log)
        /\ node[n].applied \in Nat /\ node[n].last \in Nat
    BY <1>4, NodeFacts DEF SnapOK
  <1>6. node' = [node EXCEPT ![n] = r]
    BY <1>1
  <1>7. snap' = [snap EXCEPT ![n] = p] /\ pend' = [pend EXCEPT ![n] = 0]
    BY <1>4, <1>5 DEF SInv, TypeInv
  <1> HIDE DEF b
  <1>8. /\ r \in Node /\ r.store = b.store /\ r.applied = b.applied /\ r.high = b.high
        /\ r.last = b.last /\ r.commit = b.commit /\ r.status = "waiting"
    BY <1>3 DEF Node, Statuses
  <1> HIDE DEF r, p
  <1>9. /\ NodeOK(log, ideal, r) /\ p.index <= r.applied /\ 0 \in Nat /\ 0 <= r.applied
        /\ r.status # "down"
    BY <1>3, <1>5, <1>8 DEF NodeOK
  <1>10. /\ UNCHANGED <<log, ideal>> /\ leader' = leader
         /\ leader' = n /\ n # NoNode => FALSE
    BY <1>4 DEF SInv, LeaderInv
  <1> QED
    BY <1>5, <1>6, <1>7, <1>8, <1>9, <1>10, LocalStep

LEMMA RecoverStep == \A n \in Nodes : SInv /\ Recover(n) => SInv'
  <1> SUFFICES ASSUME NEW n \in Nodes, SInv, Recover(n) PROVE SInv'
    OBVIOUS
  <1> DEFINE b == Reopened(n, FALSE)
             s == Replayed(b.store, b.applied + 1, Len(log))
             r == [b EXCEPT !.status = "waiting", !.store = s, !.applied = Len(log),
                            !.high = Len(log)]
             p == [index |-> Len(log), data |-> s, upto |-> Len(log)]
  <1>1. /\ node' = [node EXCEPT ![n] = r] /\ snap' = [snap EXCEPT ![n] = p]
        /\ node[n].status = "down" /\ node[n].last = Len(log)
        /\ UNCHANGED <<log, ideal, leader, pend>>
    BY DEF Recover, Up
  <1>2. /\ b \in Node /\ Good(log, ideal, b.store, b.applied, b.high)
        /\ b.last = node[n].last /\ b.commit = node[n].commit
    BY ReopenedOK
  <1>3. /\ LogOK(log, ideal) /\ Len(log) \in Nat /\ pend[n] = 0 /\ node[n].commit <= node[n].last
    BY <1>1, NodeFacts
  <1> HIDE DEF b
  <1>4. Good(log, ideal, s, Len(log), Len(log))
    BY <1>2, <1>3, ReplayedGood
  <1> HIDE DEF s
  <1>5. s \in Buckets
    BY <1>4 DEF Good
  <1>6. /\ r \in Node /\ r.store = s /\ r.applied = Len(log) /\ r.high = Len(log)
        /\ r.last = b.last /\ r.commit = b.commit /\ r.status = "waiting"
    BY <1>2, <1>3, <1>5 DEF Node, Statuses
  <1>7. p \in Snap /\ SnapOK(log, ideal, p) /\ p.index = Len(log)
    BY <1>3, <1>4, <1>5 DEF Snap, SnapOK
  <1>8. pend' = [pend EXCEPT ![n] = 0]
    BY <1>1, <1>3 DEF SInv, TypeInv
  <1> HIDE DEF r, p
  <1>9. /\ NodeOK(log, ideal, r) /\ p.index <= r.applied /\ 0 \in Nat /\ 0 <= r.applied
        /\ r.status # "down"
    BY <1>1, <1>2, <1>3, <1>4, <1>6, <1>7 DEF NodeOK
  <1>10. /\ UNCHANGED <<log, ideal>> /\ leader' = leader
         /\ leader' = n /\ n # NoNode => FALSE
    BY <1>1 DEF SInv, LeaderInv
  <1> QED
    BY <1>1, <1>6, <1>7, <1>8, <1>9, <1>10, LocalStep

LEMMA ClearStep == \A n \in Nodes : SInv /\ ClearAndRestart(n) => SInv'
  <1> SUFFICES ASSUME NEW n \in Nodes, SInv, ClearAndRestart(n) PROVE SInv'
    OBVIOUS
  <1>1. /\ node' = [node EXCEPT ![n] = Fresh] /\ snap' = [snap EXCEPT ![n] = NoSnapshot]
        /\ node[n].status = "down" /\ UNCHANGED <<log, ideal, leader, pend>>
    BY DEF ClearAndRestart, Up
  <1>2. LogOK(log, ideal) /\ pend[n] = 0
    BY <1>1, NodeFacts
  <1>3. pend' = [pend EXCEPT ![n] = 0]
    BY <1>1, <1>2 DEF SInv, TypeInv
  <1>4. /\ Fresh \in Node /\ NodeOK(log, ideal, Fresh) /\ Fresh.applied = 0
        /\ NoSnapshot \in Snap /\ SnapOK(log, ideal, NoSnapshot) /\ NoSnapshot.index = 0
    BY <1>2, NewFiles
  <1>5. 0 \in Nat /\ NoSnapshot.index <= Fresh.applied /\ 0 <= Fresh.applied
    BY <1>4
  <1>6. /\ UNCHANGED <<log, ideal>> /\ leader' = leader
        /\ leader' = n /\ n # NoNode => FALSE
    BY <1>1 DEF SInv, LeaderInv
  <1> QED
    BY <1>1, <1>3, <1>4, <1>5, <1>6, LocalStep

--------------------------------------------------------------------------------
(* The theorems                                                             *)

LEMMA NextSInv == SInv /\ [Next]_vars => SInv'
  <1> SUFFICES ASSUME SInv, [Next]_vars PROVE SInv'
    OBVIOUS
  <1>1. ASSUME NEW n \in Nodes, ServerStep(n) PROVE SInv'
    BY <1>1, ElectStep, CommitSteps, ApplyStep, SnapshotStep, PersistStep, InstallStep,
       StartupSteps, BootstrapStep, SecretStep, EndSteps, RestartStep DEF ServerStep
  <1>2. ASSUME NEW n \in Nodes, Propose(n) \/ Crash(n) \/ Recover(n) \/ ClearAndRestart(n)
        PROVE  SInv'
    BY <1>2, ProposeStep, EndSteps, RecoverStep, ClearStep
  <1>3. CASE UNCHANGED vars
    BY <1>3 DEF vars, SInv, TypeInv, LeaderInv, FilesInv
  <1> QED
    BY <1>1, <1>2, <1>3 DEF Next

LEMMA Inductive == Spec => []SInv
  BY InitSInv, NextSInv, PTL DEF Spec

(***************************************************************************)
(* Crash recovery loses and invents nothing, for every number of servers,  *)
(* crashes and snapshots: a server whose FSM has applied as much as its    *)
(* bucket ever held has the configuration and the channels of the log,     *)
(* unless a bootstrap file followed other commands.                        *)
(***************************************************************************)
THEOREM RecoveryIsExact == Spec => []Recovered
  <1>1. SInv => Recovered
    <2> SUFFICES ASSUME SInv, NEW n \in Nodes, BootstrapFirst, CaughtUp(n)
                 PROVE  \A k \in K : node[n].store[k] = ideal[node[n].applied + 1][k]
      BY KeyFacts DEF Recovered
    <2>1. /\ Good(log, ideal, node[n].store, node[n].applied, node[n].high)
          /\ node[n].applied \in Nat /\ node[n].high \in Nat
      BY NodeFacts
    <2>2. node[n].applied = node[n].high /\ First(log)
      BY <2>1 DEF Good, CaughtUp, BootstrapFirst, First
    <2> SUFFICES ASSUME NEW k \in K
                 PROVE  node[n].store[k] = ideal[node[n].applied + 1][k]
      OBVIOUS
    <2>3. ~Later(log, k, node[n].applied, node[n].high)
      BY <2>1, <2>2 DEF Later
    <2> QED
      BY <2>1, <2>2, <2>3 DEF Good, KeyGood, X
  <1> QED
    BY <1>1, Inductive, PTL

(***************************************************************************)
(* A bootstrap file takes effect at most once, however many leaders find   *)
(* their own bucket empty and replicate it: one with a configuration       *)
(* leaves that, and no command removes it.                                 *)
(***************************************************************************)
THEOREM BootstrapsOnce == Spec => []BootstrapOnce
  <1>1. SInv => BootstrapOnce
    <2> SUFFICES ASSUME SInv, NEW i \in DOMAIN log, NEW j \in DOMAIN log, i < j,
                        Effective(i), Effective(j), ConfigKey \in DOMAIN log[i].entries
                 PROVE  FALSE
      BY DEF BootstrapOnce
    <2>1. LogOK(log, ideal) /\ DOMAIN log = 1 .. Len(log) /\ Len(log) \in Nat
      BY LogFacts DEF SInv, LogOK
    <2>2. ASSUME NEW m \in DOMAIN log, Effective(m)
          PROVE  /\ m \in 1 .. Len(log) /\ X(ideal, m - 1) = Empty /\ log[m].op = "bootstrap"
                 /\ log[m] \in Cmd /\ X(ideal, m - 1) \in Buckets
                 /\ X(ideal, m) = Apply(X(ideal, m - 1), log[m])
      <3>1. m \in 1 .. Len(log) /\ m - 1 \in 0 .. Len(log) /\ log[m].op = "bootstrap"
        BY <2>1, <2>2 DEF Effective
      <3>2. /\ log[m] \in Cmd /\ X(ideal, m - 1) \in Buckets
            /\ X(ideal, m) = Apply(X(ideal, m - 1), log[m])
        BY <2>1, <3>1, LogFacts
      <3>3. X(ideal, m) # X(ideal, m - 1)
        BY <2>1, <2>2, <3>1 DEF Effective, X
      <3>4. X(ideal, m - 1) = Empty
        BY <3>1, <3>2, <3>3, KeyFacts, OneKey
      <3> QED
        BY <3>1, <3>2, <3>4
    <2>3. X(ideal, i)[ConfigKey] # Absent
      BY <2>2, KeyFacts, OneKey
    <2>4. i \in Nat /\ j - 1 \in i .. Len(log) /\ X(ideal, j - 1) = Empty
      BY <2>1, <2>2
    <2>5. X(ideal, j - 1)[ConfigKey] # Absent
      BY <2>1, <2>3, <2>4, ConfigGrows
    <2> QED
      BY <2>4, <2>5, KeyFacts, EmptyFacts
  <1> QED
    BY <1>1, Inductive, PTL

================================================================================
