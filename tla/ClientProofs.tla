----------------------------- MODULE ClientProofs -----------------------------
(***************************************************************************)
(* Proofs about Client for any number of messages, breaks and seconds, any *)
(* page size, and whatever the messages and the options are.               *)
(***************************************************************************)
EXTENDS Client, FiniteSetTheorems, TLAPS

Stages == {"save", "forward", "exec"}
Sent == [msg : Messages, time : Nat]
Effect == [stage : Stages, id : Nat, conn : Nat, ok : BOOLEAN]

TypeInv ==
  /\ cmd \in Commands /\ opts \in Options
  /\ log \in Seq(Sent) /\ now \in Nat /\ since \in Nat
  /\ proc \in {"up", "down"}
  /\ link \in [up : BOOLEAN, conn : Nat, first : Nat, pos : Nat, held : Nat, lost : SUBSET Nat]
  /\ batch \in [todo : Seq(Nat), last : Nat]
  /\ job \in [id : Nat, at : {"idle", "fetch", "run"}, try : Nat, todo : Seq(Stages)]
  /\ did \in Seq(Effect)

\* Deliveries are listed in the order of their times.
LogInv ==
  /\ \A i, j \in Ids : i <= j => log[i].time <= log[j].time
  /\ \A i \in Ids : log[i].time <= now

\* The steps left are in the order of the pipeline.
Rising(c, s) == \A a, b \in DOMAIN s : a < b => Rank(c, s[a]) < Rank(c, s[b])

JobInv ==
  /\ job.id \in 0 .. Len(log)
  /\ job.at = "idle" <=> job = Idle
  /\ job.at # "idle" => job.id # 0
  /\ job.at = "run" => job.todo # <<>> /\ Rising(cmd, job.todo)
  /\ job.at = "fetch" => cmd = "replay"

\* What has been done comes before the message in hand, or is an earlier step of
\* it; nothing is ahead of the connection.
DidInv ==
  \A k \in DOMAIN did :
    /\ did[k].conn <= link.conn
    /\ did[k].id \in 1 .. Len(log)
    /\ did[k].conn = link.conn /\ job.at = "fetch" => did[k].id < job.id
    /\ did[k].conn = link.conn /\ job.at = "run" =>
         did[k].id < job.id
           \/ (did[k].id = job.id /\ Rank(cmd, did[k].stage) < Rank(cmd, job.todo[1]))

\* The first message of the connection that the callback has not been given.
Ahead == IF link.held # 0 THEN link.held ELSE link.pos

LinkInv ==
  /\ link.pos <= Len(log) + 1 /\ link.pos >= 1 /\ link.first >= 1
  /\ link.held # 0 => link.pos = link.held + 1
  /\ cmd = "client" /\ (link.up \/ ~Quiet) =>
       /\ \A k \in DOMAIN did : did[k].conn = link.conn => did[k].id < Ahead
       /\ job.id < Ahead
  /\ cmd = "replay" => link = NoLink
  /\ proc = "down" => ~link.up /\ Quiet

\* A poll under way: the deliveries still to come are later than all that was
\* done, and what the poll goes back to is not yet behind since.
BatchInv ==
  cmd = "replay" /\ proc = "up" =>
    /\ batch.last = 0 => batch = NoBatch /\ job = Idle
    /\ batch.last # 0 => /\ batch.last \in Ids /\ since <= log[batch.last].time
                         /\ job.id <= batch.last
    /\ \A a \in DOMAIN batch.todo :
         /\ batch.todo[a] \in 1 .. batch.last
         /\ job.id < batch.todo[a]
         /\ \A b \in DOMAIN batch.todo : a < b => batch.todo[a] < batch.todo[b]
         /\ \A k \in DOMAIN did : did[k].id < batch.todo[a]
    /\ \A k \in DOMAIN did : did[k].id <= batch.last \/ log[did[k].id].time < since

IInv == TypeInv /\ LogInv /\ JobInv /\ DidInv /\ LinkInv /\ BatchInv /\ InOrder

\* What polling has gone past, or is about to.
PollInv ==
  /\ PollsMeet
  /\ cmd = "replay" /\ since > 1 => \E j \in Ids : log[j].time = since - 1
  /\ cmd = "replay" /\ proc = "up" /\ batch.last # 0 =>
       \A i \in 1 .. batch.last :
         \/ log[i].time < since
         \/ \E a \in DOMAIN batch.todo : batch.todo[a] = i
         \/ i = job.id \/ Handled(i) \/ Crowded(i)

\* FailuresIsolated for one message.
Foreign(m, o) ==
  \E s \in {m.wrap, m.seal} :
    s # NoSeal /\ KeyFor(s.alg, o) # None
      /\ (s.key # KeyFor(s.alg, o) \/ s.ctx \notin {Channel, None})
DoneBy(i) == {did[k].stage : k \in Effects(i)}
Isolated(i) ==
  /\ Foreign(log[i].msg, opts) => DoneBy(i) = {}
  /\ Accepted(log[i].msg, opts) /\ (\A k \in Effects(i) : did[k].ok)
       => DoneBy(i) = ToSet(Pipeline(cmd, log[i].msg, opts))
  /\ (\E k \in Effects(i) : ~did[k].ok) => "exec" \notin DoneBy(i)

\* The message in hand: done and left together are what it needs.  A client that
\* is down has forgotten its connection.
HandInv ==
  /\ proc = "down" => link.pos = 1
  /\ cmd = "client" /\ job.at = "run" =>
       /\ Accepted(log[job.id].msg, opts)
       /\ \A k \in Effects(job.id) : did[k].ok
       /\ DoneBy(job.id) \cup ToSet(job.todo) = ToSet(Pipeline(cmd, log[job.id].msg, opts))

-----------------------------------------------------------------------------
(* Sequences and the pipeline.                                             *)

LEMMA AppendIs ==
  ASSUME NEW S, NEW s \in Seq(S), NEW e \in S
  PROVE  /\ Append(s, e) \in Seq(S) /\ Len(s) \in Nat
         /\ Len(Append(s, e)) = Len(s) + 1
         /\ DOMAIN s = 1 .. Len(s) /\ DOMAIN Append(s, e) = 1 .. Len(s) + 1
         /\ \A i \in 1 .. Len(s) : Append(s, e)[i] = s[i]
         /\ Append(s, e)[Len(s) + 1] = e
  OBVIOUS

LEMMA TailIs ==
  ASSUME NEW S, NEW s \in Seq(S), s # <<>>
  PROVE  /\ Tail(s) \in Seq(S) /\ Len(s) \in Nat /\ Len(s) >= 1
         /\ Len(Tail(s)) = Len(s) - 1
         /\ DOMAIN s = 1 .. Len(s) /\ DOMAIN Tail(s) = 1 .. Len(s) - 1
         /\ \A i \in 1 .. Len(s) - 1 : Tail(s)[i] = s[i + 1]
         /\ Head(s) = s[1] /\ s[1] \in S
  OBVIOUS

LEMMA RankIs ==
  /\ Rank("client", "save") = 1 /\ Rank("client", "forward") = 2 /\ Rank("client", "exec") = 3
  /\ Rank("replay", "forward") = 1 /\ Rank("replay", "save") = 2 /\ Rank("replay", "exec") = 3
  <1> DEFINE A == <<"save", "forward", "exec">>
             B == <<"forward", "save", "exec">>
  <1>1. \A k \in 1 .. 3 : /\ A[k] = "save" <=> k = 1
                          /\ A[k] = "forward" <=> k = 2
                          /\ A[k] = "exec" <=> k = 3
                          /\ B[k] = "forward" <=> k = 1
                          /\ B[k] = "save" <=> k = 2
                          /\ B[k] = "exec" <=> k = 3
    OBVIOUS
  <1>2. 1 \in 1 .. 3 /\ 2 \in 1 .. 3 /\ 3 \in 1 .. 3
    OBVIOUS
  <1> HIDE DEF A, B
  <1>3. \A x : Rank("client", x) = CHOOSE k \in 1 .. 3 : A[k] = x
    BY DEF Rank, A
  <1>4. \A x : Rank("replay", x) = CHOOSE k \in 1 .. 3 : B[k] = x
    BY DEF Rank, B
  <1>5. /\ (CHOOSE k \in 1 .. 3 : A[k] = "save") = 1
        /\ (CHOOSE k \in 1 .. 3 : A[k] = "forward") = 2
        /\ (CHOOSE k \in 1 .. 3 : A[k] = "exec") = 3
    <2>1. (CHOOSE k \in 1 .. 3 : A[k] = "save") = 1
      BY <1>1, <1>2
    <2>2. (CHOOSE k \in 1 .. 3 : A[k] = "forward") = 2
      BY <1>1, <1>2
    <2>3. (CHOOSE k \in 1 .. 3 : A[k] = "exec") = 3
      BY <1>1, <1>2
    <2> QED
      BY <2>1, <2>2, <2>3
  <1>6. /\ (CHOOSE k \in 1 .. 3 : B[k] = "forward") = 1
        /\ (CHOOSE k \in 1 .. 3 : B[k] = "save") = 2
        /\ (CHOOSE k \in 1 .. 3 : B[k] = "exec") = 3
    <2>1. (CHOOSE k \in 1 .. 3 : B[k] = "forward") = 1
      BY <1>1, <1>2
    <2>2. (CHOOSE k \in 1 .. 3 : B[k] = "save") = 2
      BY <1>1, <1>2
    <2>3. (CHOOSE k \in 1 .. 3 : B[k] = "exec") = 3
      BY <1>1, <1>2
    <2> QED
      BY <2>1, <2>2, <2>3
  <1>7. /\ Rank("client", "save") = 1 /\ Rank("client", "forward") = 2
        /\ Rank("client", "exec") = 3
    BY <1>3, <1>5, Zenon
  <1>8. /\ Rank("replay", "forward") = 1 /\ Rank("replay", "save") = 2
        /\ Rank("replay", "exec") = 3
    BY <1>4, <1>6, Zenon
  <1> QED
    BY <1>7, <1>8, Zenon

LEMMA RankRange ==
  ASSUME NEW c \in {"client", "replay"}, NEW x \in Stages
  PROVE  Rank(c, x) \in 1 .. 3 /\ (Rank(c, x) = 3 <=> x = "exec")
  BY RankIs DEF Stages

LEMMA Joined ==
  ASSUME NEW c, NEW x \in Seq(Stages), NEW y \in Seq(Stages), Rising(c, x), Rising(c, y),
         \A i \in DOMAIN x, j \in DOMAIN y : Rank(c, x[i]) < Rank(c, y[j])
  PROVE  /\ x \o y \in Seq(Stages) /\ Rising(c, x \o y)
         /\ \A k \in DOMAIN (x \o y) : \/ \E i \in DOMAIN x : (x \o y)[k] = x[i]
                                       \/ \E i \in DOMAIN y : (x \o y)[k] = y[i]
         /\ x # <<>> => x \o y # <<>>
  <1> DEFINE z == x \o y
             n == Len(x)
             l == Len(y)
  <1>1. /\ n \in Nat /\ l \in Nat /\ z \in Seq(Stages) /\ Len(z) = n + l
        /\ DOMAIN z = 1 .. n + l /\ DOMAIN x = 1 .. n /\ DOMAIN y = 1 .. l
    OBVIOUS
  <1>2. \A i \in 1 .. n : z[i] = x[i]
    OBVIOUS
  <1>3. \A i \in n + 1 .. n + l : z[i] = y[i - n] /\ i - n \in 1 .. l
    OBVIOUS
  <1>4. x # <<>> => z # <<>>
    OBVIOUS
  <1> HIDE DEF z, n, l
  <1>5. \A i \in 1 .. n + l : i \in 1 .. n \/ i \in n + 1 .. n + l
    BY <1>1
  <1>6. Rising(c, z)
    <2> SUFFICES ASSUME NEW i \in 1 .. n + l, NEW j \in 1 .. n + l, i < j
                 PROVE  Rank(c, z[i]) < Rank(c, z[j])
      BY <1>1 DEF Rising
    <2>1. CASE j \in 1 .. n
      <3>1. i \in 1 .. n
        BY <1>1, <2>1
      <3> QED
        BY <1>1, <1>2, <2>1, <3>1 DEF Rising
    <2>2. CASE i \in 1 .. n /\ j \in n + 1 .. n + l
      BY <1>1, <1>2, <1>3, <2>2
    <2>3. CASE i \in n + 1 .. n + l /\ j \in n + 1 .. n + l
      <3>1. i - n \in 1 .. l /\ j - n \in 1 .. l /\ i - n < j - n
        BY <1>1, <1>3, <2>3
      <3> QED
        BY <1>1, <1>3, <2>3, <3>1 DEF Rising
    <2>4. i \in n + 1 .. n + l => j \in n + 1 .. n + l
      BY <1>1
    <2> QED
      BY <1>5, <2>1, <2>2, <2>3, <2>4
  <1>7. ASSUME NEW k \in DOMAIN z
        PROVE  (\E i \in DOMAIN x : z[k] = x[i]) \/ (\E i \in DOMAIN y : z[k] = y[i])
    BY <1>1, <1>2, <1>3, <1>5
  <1> QED
    BY <1>1, <1>4, <1>6, <1>7 DEF z

\* At most one step.
Single(x, A) == x \in Seq(Stages) /\ \A i, j \in DOMAIN x : i = j /\ x[i] = A

LEMMA InSteps ==
  ASSUME NEW c, NEW A \in Stages, NEW B \in Stages, NEW C \in Stages,
         Rank(c, A) < Rank(c, B), Rank(c, B) < Rank(c, C), Rank(c, A) < Rank(c, C),
         NEW x, NEW y, NEW z, Single(x, A), Single(y, B), Single(z, C)
  PROVE  /\ x \o y \o z \in Seq(Stages) /\ Rising(c, x \o y \o z)
         /\ x # <<>> => x \o y \o z # <<>>
  <1>1. x \in Seq(Stages) /\ y \in Seq(Stages) /\ z \in Seq(Stages)
    BY DEF Single
  <1>2. /\ \A i \in DOMAIN x : x[i] = A
        /\ \A i \in DOMAIN y : y[i] = B
        /\ \A i \in DOMAIN z : z[i] = C
    BY DEF Single
  <1>3. Rising(c, x) /\ Rising(c, y) /\ Rising(c, z)
    <2>1. \A u \in Seq(Stages) : \A D : Single(u, D) => \A i, j \in DOMAIN u : ~(i < j)
      <3> SUFFICES ASSUME NEW u \in Seq(Stages), NEW D, Single(u, D),
                          NEW i \in DOMAIN u, NEW j \in DOMAIN u, i < j
                   PROVE  FALSE
        OBVIOUS
      <3>1. i = j /\ i \in Nat
        BY DEF Single
      <3> QED
        BY <3>1
    <2> QED
      BY <1>1, <2>1 DEF Rising
  <1> DEFINE w == x \o y
  <1>4. /\ w \in Seq(Stages) /\ Rising(c, w) /\ (x # <<>> => w # <<>>)
        /\ \A k \in DOMAIN w : w[k] = A \/ w[k] = B
    BY <1>1, <1>2, <1>3, Joined
  <1> HIDE DEF w
  <1>5. /\ w \o z \in Seq(Stages) /\ Rising(c, w \o z) /\ (w # <<>> => w \o z # <<>>)
    BY <1>1, <1>2, <1>3, <1>4, Joined
  <1> QED
    BY <1>4, <1>5 DEF w

\* The pipeline runs each step at most once, in the order of Rank.
LEMMA PipelineOK ==
  ASSUME NEW c \in {"client", "replay"}, NEW m, NEW o
  PROVE  /\ Pipeline(c, m, o) \in Seq(Stages)
         /\ Rising(c, Pipeline(c, m, o))
         /\ c = "replay" => Pipeline(c, m, o) # <<>>
  <1> DEFINE s == IF o.save THEN <<"save">> ELSE <<>>
             f == IF o.forward \/ c = "replay" THEN <<"forward">> ELSE <<>>
             e == IF ExecWanted(m, o) THEN <<"exec">> ELSE <<>>
             p == Pipeline(c, m, o)
  <1>1. p = IF c = "client" THEN s \o f \o e ELSE f \o s \o e
    BY Zenon DEF Pipeline
  <1>2. /\ s \in {<<"save">>, <<>>} /\ e \in {<<"exec">>, <<>>}
        /\ f \in {<<"forward">>, <<>>} /\ (c = "replay" => f = <<"forward">>)
    BY Zenon
  <1>3. "save" \in Stages /\ "forward" \in Stages /\ "exec" \in Stages
    BY DEF Stages
  <1>4. \A A \in Stages : Single(<<A>>, A) /\ Single(<<>>, A) /\ <<A>> # <<>>
    BY DEF Single
  <1> HIDE DEF s, f, e, p
  <1>5. Single(s, "save") /\ Single(f, "forward") /\ Single(e, "exec") /\ (c = "replay" => f # <<>>)
    BY <1>2, <1>3, <1>4
  <1>6. CASE c = "client"
    <2>1. p = s \o f \o e
      BY <1>1, <1>6
    <2>2. s \o f \o e \in Seq(Stages) /\ Rising("client", s \o f \o e)
      <3>1. /\ Rank("client", "save") < Rank("client", "forward") /\ Rank("client", "forward") < Rank("client", "exec")
            /\ Rank("client", "save") < Rank("client", "exec")
        BY RankIs
      <3>2. Single(s, "save") /\ Single(f, "forward") /\ Single(e, "exec")
        BY <1>5
      <3> QED
        BY ONLY <1>3, <3>1, <3>2, InSteps
    <2> QED
      BY <1>6, <2>1, <2>2 DEF p
  <1>7. CASE c = "replay"
    <2>1. p = f \o s \o e
      BY <1>1, <1>7
    <2>2. /\ f \o s \o e \in Seq(Stages) /\ Rising("replay", f \o s \o e)
          /\ f \o s \o e # <<>>
      <3>1. /\ Rank("replay", "forward") < Rank("replay", "save") /\ Rank("replay", "save") < Rank("replay", "exec")
            /\ Rank("replay", "forward") < Rank("replay", "exec")
        BY RankIs
      <3>2. Single(f, "forward") /\ Single(s, "save") /\ Single(e, "exec") /\ f # <<>>
        BY <1>5, <1>7
      <3> QED
        BY ONLY <1>3, <3>1, <3>2, InSteps
    <2> QED
      BY <1>7, <2>1, <2>2 DEF p
  <1> QED
    BY <1>6, <1>7

-----------------------------------------------------------------------------
(* The order of the effects.                                               *)

\* The fields of the records, and the kinds of jobs.
LEMMA Fields ==
  ASSUME TypeInv
  PROVE  /\ cmd \in {"client", "replay"}
         /\ Len(log) \in Nat /\ DOMAIN log = 1 .. Len(log) /\ DOMAIN did = 1 .. Len(did)
         /\ Len(did) \in Nat
         /\ \A i \in Ids : log[i] \in Sent /\ log[i].time \in Nat
         /\ link.up \in BOOLEAN /\ link.conn \in Nat /\ link.first \in Nat
         /\ link.pos \in Nat /\ link.held \in Nat
         /\ batch.todo \in Seq(Nat) /\ batch.last \in Nat
         /\ job.id \in Nat /\ job.at \in {"idle", "fetch", "run"} /\ job.try \in Nat
         /\ job.todo \in Seq(Stages)
         /\ \A k \in DOMAIN did : /\ did[k] \in Effect /\ did[k].stage \in Stages
                                  /\ did[k].id \in Nat /\ did[k].conn \in Nat
  <1>1. cmd \in {"client", "replay"}
    BY ClientAssumption DEF TypeInv
  <1>2. Len(log) \in Nat /\ DOMAIN log = 1 .. Len(log) /\ Len(did) \in Nat /\ DOMAIN did = 1 .. Len(did)
    BY DEF TypeInv
  <1>3. \A i \in Ids : log[i] \in Sent /\ log[i].time \in Nat
    <2>1. \A i \in Ids : log[i] \in Sent
      BY DEF TypeInv, Ids
    <2> QED
      BY <2>1 DEF Sent
  <1>4. \A k \in DOMAIN did : did[k] \in Effect
    BY DEF TypeInv
  <1>5. \A k \in DOMAIN did : /\ did[k].stage \in Stages
                              /\ did[k].id \in Nat /\ did[k].conn \in Nat
    BY <1>4 DEF Effect
  <1>6. /\ link.up \in BOOLEAN /\ link.conn \in Nat /\ link.first \in Nat
        /\ link.pos \in Nat /\ link.held \in Nat
    BY DEF TypeInv
  <1>7. /\ batch.todo \in Seq(Nat) /\ batch.last \in Nat
    BY DEF TypeInv
  <1>8. /\ job.id \in Nat /\ job.at \in {"idle", "fetch", "run"} /\ job.try \in Nat
        /\ job.todo \in Seq(Stages)
    BY DEF TypeInv
  <1> QED
    BY <1>1, <1>2, <1>3, <1>4, <1>5, <1>6, <1>7, <1>8

LEMMA IdleIs ==
  /\ Idle \in [id : Nat, at : {"idle", "fetch", "run"}, try : Nat, todo : Seq(Stages)]
  /\ Idle.id = 0 /\ Idle.at = "idle"
  /\ NoBatch \in [todo : Seq(Nat), last : Nat] /\ NoBatch.last = 0 /\ NoBatch.todo = <<>>
  /\ NoLink \in [up : BOOLEAN, conn : Nat, first : Nat, pos : Nat, held : Nat, lost : SUBSET Nat]
  /\ NoLink.up = FALSE /\ NoLink.conn = 0 /\ NoLink.first = 1 /\ NoLink.pos = 1 /\ NoLink.held = 0
  BY DEF Idle, NoBatch, NoLink

LEMMA InitIInv == Init => IInv
  <1> SUFFICES ASSUME Init PROVE IInv
    OBVIOUS
  <1>1. /\ cmd \in Commands /\ opts \in Options /\ log = <<>> /\ now = 0 /\ proc = "up"
        /\ link = NoLink /\ since \in {0, 1} /\ batch = NoBatch /\ job = Idle /\ did = <<>>
    BY DEF Init
  <1>2. TypeInv
    BY <1>1, IdleIs DEF TypeInv
  <1>3. Ids = {} /\ Len(log) = 0 /\ DOMAIN did = {} /\ DOMAIN batch.todo = {}
    BY <1>1, IdleIs DEF Ids
  <1>4. LogInv /\ DidInv /\ InOrder
    BY <1>3 DEF LogInv, DidInv, InOrder
  <1>5. JobInv
    BY <1>1, <1>3, IdleIs DEF JobInv
  <1>6. LinkInv
    BY <1>1, <1>3, IdleIs DEF LinkInv, Quiet
  <1>7. BatchInv
    BY <1>1, <1>3, IdleIs DEF BatchInv
  <1> QED
    BY <1>2, <1>4, <1>5, <1>6, <1>7 DEF IInv

\* A message is published.
LEMMA PublishStep ==
  ASSUME IInv, NEW m \in Messages, Publish(m)
  PROVE  IInv'
  <1>1. TypeInv /\ LogInv /\ JobInv /\ DidInv /\ LinkInv /\ BatchInv /\ InOrder
    BY DEF IInv
  <1> DEFINE e == [msg |-> m, time |-> now]
             n == Len(log)
  <1>2. /\ log' = Append(log, e)
        /\ cmd' = cmd /\ opts' = opts /\ now' = now /\ proc' = proc /\ link' = link
        /\ since' = since /\ batch' = batch /\ job' = job /\ did' = did
    BY DEF Publish
  <1>3. e \in Sent /\ e.time = now /\ now \in Nat
    BY <1>1 DEF Sent, TypeInv
  <1> HIDE DEF e
  <1>4. /\ log' \in Seq(Sent) /\ n \in Nat /\ Len(log') = n + 1
        /\ \A i \in 1 .. n : log'[i] = log[i]
        /\ log'[n + 1] = e
    BY <1>1, <1>2, <1>3, AppendIs DEF TypeInv
  <1>5. TypeInv'
    BY <1>1, <1>2, <1>4 DEF TypeInv
  <1>6. LogInv'
    <2>1. \A i \in 1 .. n : log[i].time \in Nat /\ log[i].time <= now
      BY <1>1, Fields DEF LogInv, Ids
    <2>2. \A i, j \in 1 .. n : i <= j => log[i].time <= log[j].time
      BY <1>1 DEF LogInv, Ids
    <2>3. \A i \in 1 .. n + 1 : i \in 1 .. n \/ i = n + 1
      BY <1>4
    <2>4. \A i \in 1 .. n + 1 : log'[i].time <= now
      BY <1>3, <1>4, <2>1, <2>3
    <2>5. ASSUME NEW i \in 1 .. n + 1, NEW j \in 1 .. n + 1, i <= j
          PROVE  log'[i].time <= log'[j].time
      <3>1. CASE j = n + 1
        BY <1>3, <1>4, <2>4, <3>1
      <3>2. CASE j \in 1 .. n
        <4>1. i \in 1 .. n
          BY <1>4, <2>5, <3>2
        <4> QED
          BY <1>4, <2>2, <2>5, <3>2, <4>1
      <3> QED
        BY <2>3, <3>1, <3>2
    <2> QED
      BY <1>2, <1>4, <2>4, <2>5 DEF LogInv, Ids
  <1>7. JobInv'
    BY <1>1, <1>2, <1>4 DEF JobInv
  <1>8. DidInv'
    <2>1. \A x \in 1 .. n : x \in 1 .. n + 1
      BY <1>4
    <2>2. \A k \in DOMAIN did : did[k].id \in 1 .. Len(log')
      BY <1>1, <1>4, <2>1 DEF DidInv
    <2> QED
      BY <1>1, <1>2, <2>2 DEF DidInv
  <1>9. LinkInv'
    <2>1. Quiet' = Quiet /\ Ahead' = Ahead
      BY <1>2 DEF Quiet, Ahead
    <2>2. link.pos \in Nat
      BY <1>1, Fields
    <2> QED
      BY <1>1, <1>2, <1>4, <2>1, <2>2 DEF LinkInv
  <1>10. BatchInv'
    <2> SUFFICES ASSUME cmd = "replay", proc = "up" PROVE BatchInv'
      BY <1>2 DEF BatchInv
    <2>1. batch.last \in Ids => batch.last \in Ids' /\ log'[batch.last] = log[batch.last]
      BY <1>4 DEF Ids
    <2>2. \A k \in DOMAIN did : log'[did[k].id] = log[did[k].id]
      BY <1>1, <1>4 DEF DidInv
    <2> QED
      BY <1>1, <1>2, <2>1, <2>2 DEF BatchInv
  <1>11. InOrder'
    BY <1>1, <1>2 DEF InOrder
  <1> QED
    BY <1>5, <1>6, <1>7, <1>8, <1>9, <1>10, <1>11 DEF IInv

\* Time passes, the connection breaks, a client is started again.
LEMMA QuietStep ==
  ASSUME IInv, Tick \/ Break \/ Restart \/ UNCHANGED vars
  PROVE  IInv'
  <1>1. TypeInv /\ LogInv /\ JobInv /\ DidInv /\ LinkInv /\ BatchInv /\ InOrder
    BY DEF IInv
  <1>2. /\ cmd' = cmd /\ opts' = opts /\ log' = log /\ since' = since /\ batch' = batch
        /\ job' = job /\ did' = did
    BY DEF Tick, Break, Restart, vars
  <1>3. now' \in Nat /\ now' >= now
    BY <1>1 DEF Tick, Break, Restart, vars, TypeInv
  <1>4. link' = link \/ (link' = [link EXCEPT !.up = FALSE] /\ proc' = proc)
    BY DEF Tick, Break, Restart, vars
  <1>5. /\ link'.conn = link.conn /\ link'.first = link.first /\ link'.pos = link.pos
        /\ link'.held = link.held /\ (link'.up => link.up)
        /\ link' \in [up : BOOLEAN, conn : Nat, first : Nat, pos : Nat, held : Nat, lost : SUBSET Nat]
    BY <1>1, <1>4 DEF TypeInv
  <1>6. proc' = proc \/ (proc' = "up" /\ cmd = "client" /\ link' = link)
    BY DEF Tick, Break, Restart, vars
  <1>7. TypeInv'
    BY <1>1, <1>2, <1>3, <1>5, <1>6 DEF TypeInv
  <1>8. LogInv'
    <2>1. \A i \in Ids : log[i].time \in Nat
      BY <1>1, Fields
    <2> QED
      BY <1>1, <1>2, <1>3, <2>1 DEF LogInv, Ids, TypeInv
  <1>9. JobInv' /\ DidInv' /\ InOrder'
    BY <1>1, <1>2, <1>5 DEF JobInv, DidInv, InOrder
  <1>10. LinkInv'
    <2>1. Quiet' = Quiet /\ Ahead' = Ahead
      BY <1>2, <1>5 DEF Quiet, Ahead
    <2>2. cmd = "replay" => link' = link
      BY <1>1, <1>4, IdleIs DEF LinkInv, Break, Tick, Restart, vars
    <2> QED
      BY <1>1, <1>2, <1>5, <1>6, <2>1, <2>2 DEF LinkInv
  <1>11. BatchInv'
    BY <1>1, <1>2, <1>6 DEF BatchInv, Ids
  <1> QED
    BY <1>7, <1>8, <1>9, <1>10, <1>11 DEF IInv

\* A command ends.
LEMMA EndStep ==
  ASSUME IInv, Exit \/ GitHubFails
  PROVE  IInv'
  <1>1. TypeInv /\ LogInv /\ JobInv /\ DidInv /\ LinkInv /\ BatchInv /\ InOrder
    BY DEF IInv
  <1>2. /\ cmd' = cmd /\ opts' = opts /\ log' = log /\ now' = now /\ since' = since
        /\ batch' = batch /\ did' = did /\ job' = Idle /\ proc' = "down"
    BY DEF Exit, GitHubFails
  <1>3. \/ (cmd = "client" /\ link' = [NoLink EXCEPT !.conn = link.conn])
        \/ (cmd = "replay" /\ link' = link)
    BY DEF Exit, GitHubFails, Running
  <1>4. link.conn \in Nat /\ link \in [up : BOOLEAN, conn : Nat, first : Nat, pos : Nat, held : Nat, lost : SUBSET Nat]
    BY <1>1, Fields DEF TypeInv
  <1>5. /\ link'.conn = link.conn /\ link'.first = 1 /\ link'.pos = 1 /\ link'.held = 0
        /\ link'.up = FALSE /\ (cmd = "replay" => link' = NoLink)
        /\ link' \in [up : BOOLEAN, conn : Nat, first : Nat, pos : Nat, held : Nat, lost : SUBSET Nat]
    <2>1. CASE cmd = "client" /\ link' = [NoLink EXCEPT !.conn = link.conn]
      <3>1. link' = [up |-> FALSE, conn |-> link.conn, first |-> 1, pos |-> 1, held |-> 0, lost |-> {}]
        BY <2>1 DEF NoLink
      <3>2. link.conn \in Nat /\ cmd # "replay"
        BY <1>4, <2>1
      <3> QED
        BY ONLY <3>1, <3>2
    <2>2. CASE cmd = "replay" /\ link' = link
      BY <1>1, <2>2, IdleIs DEF LinkInv
    <2> QED
      BY <1>3, <2>1, <2>2
  <1>6. TypeInv'
    BY <1>1, <1>2, <1>5, IdleIs DEF TypeInv
  <1>7. LogInv' /\ InOrder'
    BY <1>1, <1>2 DEF LogInv, Ids, InOrder
  <1>8. JobInv'
    BY <1>1, <1>2, IdleIs, Fields DEF JobInv
  <1>9. DidInv'
    BY <1>1, <1>2, <1>5, IdleIs DEF DidInv
  <1>10. LinkInv'
    <2>1. Quiet'
      BY <1>2, <1>5 DEF Quiet
    <2>2. Len(log) \in Nat
      BY <1>1, Fields
    <2> QED
      BY <1>2, <1>5, <2>1, <2>2 DEF LinkInv
  <1>11. BatchInv'
    BY <1>2 DEF BatchInv
  <1> QED
    BY <1>6, <1>7, <1>8, <1>9, <1>10, <1>11 DEF IInv

\* A new connection has a number of its own.
LEMMA ConnectStep ==
  ASSUME IInv, Connect
  PROVE  IInv'
  <1>1. TypeInv /\ LogInv /\ JobInv /\ DidInv /\ LinkInv /\ BatchInv /\ InOrder
    BY DEF IInv
  <1>2. /\ cmd' = cmd /\ opts' = opts /\ log' = log /\ now' = now /\ since' = since
        /\ batch' = batch /\ did' = did /\ job' = job /\ proc' = proc
        /\ cmd = "client" /\ proc = "up" /\ job = Idle
    BY DEF Connect, Running, Quiet
  <1>3. Len(log) \in Nat /\ link.conn \in Nat
    BY <1>1, Fields
  <1>4. PICK i \in 1 .. Len(log) + 1 :
          link' = [up |-> TRUE, conn |-> link.conn + 1, first |-> i, pos |-> i, held |-> 0, lost |-> {}]
    <2> DEFINE L(i) == [up |-> TRUE, conn |-> link.conn + 1, first |-> i, pos |-> i, held |-> 0, lost |-> {}]
    <2>1. \E i \in IF opts.resume THEN 1 .. Len(log) + 1 ELSE {1} : link' = L(i)
      BY DEF Connect
    <2> HIDE DEF L
    <2>2. 1 \in 1 .. Len(log) + 1
      BY <1>3
    <2>3. \E i \in 1 .. Len(log) + 1 : link' = L(i)
      BY <2>1, <2>2
    <2> QED
      BY <2>3 DEF L
  <1>5. /\ link'.conn = link.conn + 1 /\ link'.first = i /\ link'.pos = i /\ link'.held = 0
        /\ link' \in [up : BOOLEAN, conn : Nat, first : Nat, pos : Nat, held : Nat, lost : SUBSET Nat]
        /\ i \in Nat
    BY <1>3, <1>4
  <1>6. \A k \in DOMAIN did : did[k].conn \in Nat /\ did[k].conn <= link.conn
    BY <1>1, Fields DEF DidInv
  <1>7. \A k \in DOMAIN did : did[k].conn < link'.conn
    BY <1>3, <1>5, <1>6
  <1>8. TypeInv' /\ LogInv' /\ InOrder' /\ JobInv'
    BY <1>1, <1>2, <1>5 DEF TypeInv, LogInv, Ids, InOrder, JobInv
  <1>9. DidInv'
    BY <1>1, <1>2, <1>3, <1>5, <1>6, <1>7 DEF DidInv
  <1>10. LinkInv'
    <2>1. Ahead' = i
      BY <1>5 DEF Ahead
    <2>2. \A k \in DOMAIN did : did[k].conn # link'.conn
      BY <1>3, <1>5, <1>6
    <2> QED
      BY <1>2, <1>3, <1>5, <2>1, <2>2, IdleIs DEF LinkInv
  <1>11. BatchInv'
    BY <1>2 DEF BatchInv
  <1> QED
    BY <1>8, <1>9, <1>10, <1>11 DEF IInv

\* The reader takes the next message.
LEMMA ReadStep ==
  ASSUME IInv, Read
  PROVE  IInv'
  <1>1. TypeInv /\ LogInv /\ JobInv /\ DidInv /\ LinkInv /\ BatchInv /\ InOrder
    BY DEF IInv
  <1>2. /\ cmd' = cmd /\ opts' = opts /\ log' = log /\ now' = now /\ since' = since
        /\ batch' = batch /\ did' = did /\ job' = job /\ proc' = proc
        /\ cmd = "client" /\ proc = "up" /\ link.up /\ link.held = 0 /\ link.pos <= Len(log)
        /\ link' = [link EXCEPT !.held = link.pos, !.pos = @ + 1]
    BY DEF Read, Running
  <1>3. /\ link \in [up : BOOLEAN, conn : Nat, first : Nat, pos : Nat, held : Nat, lost : SUBSET Nat]
        /\ link.pos \in Nat /\ Len(log) \in Nat
    BY <1>1, Fields DEF TypeInv
  <1>4. /\ link'.conn = link.conn /\ link'.first = link.first /\ link'.pos = link.pos + 1
        /\ link'.held = link.pos /\ link'.up = link.up
        /\ link' \in [up : BOOLEAN, conn : Nat, first : Nat, pos : Nat, held : Nat, lost : SUBSET Nat]
    <2>1. link' = [up |-> link.up, conn |-> link.conn, first |-> link.first,
                   pos |-> link.pos + 1, held |-> link.pos, lost |-> link.lost]
      BY <1>2, <1>3
    <2> QED
      BY <1>3, <2>1
  <1>5. TypeInv' /\ LogInv' /\ InOrder' /\ JobInv'
    BY <1>1, <1>2, <1>4 DEF TypeInv, LogInv, Ids, InOrder, JobInv
  <1>6. DidInv'
    BY <1>1, <1>2, <1>4 DEF DidInv
  <1>7. LinkInv'
    <2>1. Ahead' = link.pos /\ Ahead = link.pos
      BY <1>1, <1>2, <1>3, <1>4 DEF Ahead, LinkInv
    <2> QED
      BY <1>1, <1>2, <1>3, <1>4, <2>1 DEF LinkInv
  <1>8. BatchInv'
    BY <1>2 DEF BatchInv
  <1> QED
    BY <1>5, <1>6, <1>7, <1>8 DEF IInv

\* The server does not send the next message.
LEMMA LoseStep ==
  ASSUME IInv, Lose
  PROVE  IInv'
  <1>1. TypeInv /\ LogInv /\ JobInv /\ DidInv /\ LinkInv /\ BatchInv /\ InOrder
    BY DEF IInv
  <1>2. /\ cmd' = cmd /\ opts' = opts /\ log' = log /\ now' = now /\ since' = since
        /\ batch' = batch /\ did' = did /\ job' = job /\ proc' = proc
        /\ cmd = "client" /\ proc = "up" /\ link.up /\ link.held = 0 /\ link.pos <= Len(log)
        /\ link' = [link EXCEPT !.pos = @ + 1, !.lost = @ \cup {link.pos}]
    BY DEF Lose, Running
  <1>3. /\ link \in [up : BOOLEAN, conn : Nat, first : Nat, pos : Nat, held : Nat, lost : SUBSET Nat]
        /\ link.pos \in Nat /\ Len(log) \in Nat
    BY <1>1, Fields DEF TypeInv
  <1>4. /\ link'.conn = link.conn /\ link'.first = link.first /\ link'.pos = link.pos + 1
        /\ link'.held = 0 /\ link'.up = link.up
        /\ link' \in [up : BOOLEAN, conn : Nat, first : Nat, pos : Nat, held : Nat, lost : SUBSET Nat]
    <2>1. link' = [up |-> link.up, conn |-> link.conn, first |-> link.first,
                   pos |-> link.pos + 1, held |-> 0, lost |-> link.lost \cup {link.pos}]
      BY <1>2, <1>3
    <2>2. link.lost \cup {link.pos} \in SUBSET Nat
      BY <1>3
    <2> QED
      BY <1>3, <2>1, <2>2
  <1>5. TypeInv' /\ LogInv' /\ InOrder' /\ JobInv'
    BY <1>1, <1>2, <1>4 DEF TypeInv, LogInv, Ids, InOrder, JobInv
  <1>6. DidInv'
    BY <1>1, <1>2, <1>4 DEF DidInv
  <1>7. LinkInv'
    <2>1. Ahead' = link.pos + 1 /\ Ahead = link.pos
      BY <1>1, <1>2, <1>3, <1>4 DEF Ahead, LinkInv
    <2>2. job.id < link.pos + 1
      BY <1>1, <1>2, <1>3, <2>1, Fields DEF LinkInv
    <2>3. \A k \in DOMAIN did : did[k].conn = link.conn => did[k].id < link.pos + 1
      BY <1>1, <1>2, <1>3, <2>1, Fields DEF LinkInv
    <2> QED
      BY <1>1, <1>2, <1>3, <1>4, <2>1, <2>2, <2>3 DEF LinkInv
  <1>8. BatchInv'
    BY <1>2 DEF BatchInv
  <1> QED
    BY <1>5, <1>6, <1>7, <1>8 DEF IInv

\* What Begin makes of a message.
LEMMA BeginIs ==
  ASSUME cmd \in {"client", "replay"}, NEW i \in Nat \ {0}
  PROVE  /\ Begin(i) \in [id : Nat, at : {"idle", "fetch", "run"}, try : Nat, todo : Seq(Stages)]
         /\ \/ Begin(i) = Idle /\ cmd = "client" /\ Pipeline(cmd, log[i].msg, opts) = <<>>
            \/ /\ Begin(i).id = i /\ Begin(i).at = "run" /\ Begin(i).todo # <<>>
               /\ Begin(i).todo = Pipeline(cmd, log[i].msg, opts)
               /\ Rising(cmd, Begin(i).todo)
  <1> DEFINE p == Pipeline(cmd, log[i].msg, opts)
  <1>1. p \in Seq(Stages) /\ Rising(cmd, p) /\ (cmd = "replay" => p # <<>>)
    BY PipelineOK
  <1>2. Begin(i) = IF p = <<>> THEN Idle ELSE [id |-> i, at |-> "run", try |-> 0, todo |-> p]
    BY DEF Begin
  <1> HIDE DEF p
  <1>3. CASE p = <<>>
    BY <1>1, <1>2, <1>3, IdleIs DEF p
  <1>4. CASE p # <<>>
    <2>1. Begin(i) = [id |-> i, at |-> "run", try |-> 0, todo |-> p]
      BY <1>2, <1>4
    <2> QED
      BY <1>1, <1>4, <2>1 DEF p
  <1> QED
    BY <1>3, <1>4

\* The callback is given a message.
LEMMA HandleStep ==
  ASSUME IInv, Handle
  PROVE  IInv'
  <1>1. TypeInv /\ LogInv /\ JobInv /\ DidInv /\ LinkInv /\ BatchInv /\ InOrder
    BY DEF IInv
  <1> DEFINE h == link.held
  <1>2. /\ cmd' = cmd /\ opts' = opts /\ log' = log /\ now' = now /\ since' = since
        /\ batch' = batch /\ did' = did /\ proc' = proc
        /\ cmd = "client" /\ proc = "up" /\ job = Idle /\ h # 0
        /\ link' = [link EXCEPT !.held = 0]
        /\ job' = Idle \/ job' = Begin(h)
    BY DEF Handle, Running
  <1>3. /\ link \in [up : BOOLEAN, conn : Nat, first : Nat, pos : Nat, held : Nat, lost : SUBSET Nat]
        /\ link.pos \in Nat /\ h \in Nat /\ Len(log) \in Nat /\ cmd \in {"client", "replay"}
    BY <1>1, Fields DEF TypeInv
  <1>4. /\ link'.conn = link.conn /\ link'.first = link.first /\ link'.pos = link.pos
        /\ link'.held = 0 /\ link'.up = link.up
        /\ link' \in [up : BOOLEAN, conn : Nat, first : Nat, pos : Nat, held : Nat, lost : SUBSET Nat]
    BY <1>2, <1>3
  <1>5. h \in 1 .. Len(log) /\ link.pos = h + 1 /\ Ahead = h /\ Ahead' = h + 1
    BY <1>1, <1>2, <1>3, <1>4 DEF LinkInv, Ahead
  <1>6. \A k \in DOMAIN did : did[k].conn = link.conn => did[k].id < h
    BY <1>1, <1>2, <1>5 DEF LinkInv, Quiet
  <1>7. /\ job' \in [id : Nat, at : {"idle", "fetch", "run"}, try : Nat, todo : Seq(Stages)]
        /\ \/ job' = Idle
           \/ job'.id = h /\ job'.at = "run" /\ job'.todo # <<>> /\ Rising(cmd, job'.todo)
    BY <1>2, <1>3, <1>5, BeginIs, IdleIs
  <1> HIDE DEF h
  <1>8. TypeInv' /\ LogInv' /\ InOrder'
    <2>1. TypeInv'
      BY <1>1, <1>2, <1>4, <1>7 DEF TypeInv
    <2>2. LogInv' /\ InOrder'
      BY <1>1, <1>2 DEF LogInv, Ids, InOrder
    <2> QED
      BY <2>1, <2>2
  <1>9. JobInv'
    BY <1>2, <1>3, <1>5, <1>7, IdleIs DEF JobInv
  <1>10. DidInv'
    BY <1>1, <1>2, <1>4, <1>6, <1>7, IdleIs DEF DidInv
  <1>11. LinkInv'
    <2>1. job'.id < h + 1
      BY <1>3, <1>5, <1>7, IdleIs
    <2>2. \A k \in DOMAIN did : did[k].conn = link.conn => did[k].id < h + 1
      BY <1>1, <1>3, <1>6, Fields
    <2> QED
      BY <1>1, <1>2, <1>3, <1>4, <1>5, <2>1, <2>2 DEF LinkInv
  <1>12. BatchInv'
    BY <1>2 DEF BatchInv
  <1> QED
    BY <1>8, <1>9, <1>10, <1>11, <1>12 DEF IInv

\* A step of the pipeline, with what it leaves to do.
LEMMA RunIs ==
  ASSUME IInv, NEW stage \in Stages, Run(stage)
  PROVE  /\ cmd' = cmd /\ opts' = opts /\ log' = log /\ now' = now /\ since' = since
         /\ batch' = batch /\ proc' = proc /\ link' = link
         /\ proc = "up" /\ job.at = "run" /\ job.todo # <<>> /\ job.todo[1] = stage
         /\ job.id \in 1 .. Len(log)
         /\ \E ok \in BOOLEAN :
              /\ did' = Append(did, [stage |-> stage, id |-> job.id, conn |-> link.conn,
                                     ok |-> ok \/ stage = "exec"])
              /\ \/ job' = Idle /\ (ok \/ stage = "exec" => Len(job.todo) = 1)
                 \/ /\ ok \/ stage = "exec"
                    /\ Len(job.todo) > 1 /\ job' = [job EXCEPT !.todo = Tail(job.todo)]
  <1>1. TypeInv /\ JobInv
    BY DEF IInv
  <1>2. /\ job.todo \in Seq(Stages) /\ Len(log) \in Nat /\ job.id \in Nat
    BY <1>1, Fields
  <1>3. proc = "up" /\ job.at = "run" /\ Head(job.todo) = stage
    BY DEF Run
  <1>4. job.todo # <<>> /\ job.id \in 1 .. Len(log)
    BY <1>1, <1>2, <1>3 DEF JobInv
  <1>5. job.todo[1] = stage /\ Len(job.todo) \in Nat /\ Len(job.todo) >= 1
    BY <1>2, <1>3, <1>4, TailIs
  <1>6. PICK ok \in BOOLEAN :
          /\ did' = Append(did, [stage |-> stage, id |-> job.id, conn |-> link.conn,
                                 ok |-> ok \/ stage = "exec"])
          /\ job' = After(stage, ok)
    BY Zenon DEF Run
  <1> DEFINE Step(o) ==
        /\ did' = Append(did, [stage |-> stage, id |-> job.id, conn |-> link.conn,
                               ok |-> o \/ stage = "exec"])
        /\ \/ job' = Idle /\ (o \/ stage = "exec" => Len(job.todo) = 1)
           \/ /\ o \/ stage = "exec"
              /\ Len(job.todo) > 1 /\ job' = [job EXCEPT !.todo = Tail(job.todo)]
  <1>7. ASSUME (ok \/ stage = "exec") /\ Len(job.todo) > 1 PROVE Step(ok)
    BY <1>6, <1>7, Zenon DEF After
  <1>8. ASSUME ~((ok \/ stage = "exec") /\ Len(job.todo) > 1) PROVE Step(ok)
    <2>1. job' = Idle
      BY <1>6, <1>8, Zenon DEF After
    <2>2. Len(job.todo) = 1 \/ Len(job.todo) > 1
      <3>1. \A l \in Nat : l >= 1 => l = 1 \/ l > 1
        OBVIOUS
      <3> QED
        BY <1>5, <3>1, Zenon
    <2> QED
      BY <1>6, <1>8, <2>1, <2>2, Zenon
  <1>9. /\ cmd' = cmd /\ opts' = opts /\ log' = log /\ now' = now /\ since' = since
        /\ batch' = batch /\ proc' = proc /\ link' = link
    BY DEF Run
  <1>10. \E o \in BOOLEAN : Step(o)
    BY <1>7, <1>8, Zenon
  <1> QED
    BY <1>3, <1>4, <1>5, <1>9, <1>10, Zenon

\* A step of the pipeline is taken.
LEMMA RunStep ==
  ASSUME IInv, NEW stage \in Stages, Run(stage)
  PROVE  IInv'
  <1>1. TypeInv /\ LogInv /\ JobInv /\ DidInv /\ LinkInv /\ BatchInv /\ InOrder
    BY DEF IInv
  <1>2. /\ cmd' = cmd /\ opts' = opts /\ log' = log /\ now' = now /\ since' = since
        /\ batch' = batch /\ proc' = proc /\ link' = link
        /\ proc = "up" /\ job.at = "run" /\ job.todo # <<>> /\ job.todo[1] = stage
        /\ job.id \in 1 .. Len(log)
    BY RunIs
  <1>3. PICK e \in Effect : /\ did' = Append(did, e) /\ e.stage = stage
                            /\ e.id = job.id /\ e.conn = link.conn
    <2>1. PICK ok \in BOOLEAN :
            did' = Append(did, [stage |-> stage, id |-> job.id, conn |-> link.conn,
                                ok |-> ok \/ stage = "exec"])
      BY RunIs
    <2> DEFINE e == [stage |-> stage, id |-> job.id, conn |-> link.conn, ok |-> ok \/ stage = "exec"]
    <2>2. job.id \in Nat /\ link.conn \in Nat /\ (ok \/ stage = "exec") \in BOOLEAN
      BY <1>1, Fields
    <2>3. e \in Effect /\ e.stage = stage /\ e.id = job.id /\ e.conn = link.conn
      BY <2>2 DEF Effect
    <2> QED
      BY <2>1, <2>3
  <1>4. \/ job' = Idle
        \/ Len(job.todo) > 1 /\ job' = [job EXCEPT !.todo = Tail(job.todo)]
    BY RunIs
  <1> DEFINE n == Len(did)
             s == job.todo
  <1>5. /\ did' \in Seq(Effect) /\ n \in Nat /\ DOMAIN did = 1 .. n /\ DOMAIN did' = 1 .. n + 1
        /\ \A i \in 1 .. n : did'[i] = did[i]
        /\ did'[n + 1] = e
    BY <1>1, <1>3, AppendIs DEF TypeInv
  <1>6. \A i \in 1 .. n + 1 : i \in 1 .. n \/ i = n + 1
    BY <1>5
  <1>7. /\ s \in Seq(Stages) /\ Len(s) \in Nat /\ job.id \in Nat /\ Len(log) \in Nat
        /\ cmd \in {"client", "replay"} /\ link.conn \in Nat
        /\ job \in [id : Nat, at : {"idle", "fetch", "run"}, try : Nat, todo : Seq(Stages)]
    BY <1>1, Fields DEF TypeInv
  <1>8. /\ Tail(s) \in Seq(Stages) /\ DOMAIN s = 1 .. Len(s) /\ DOMAIN Tail(s) = 1 .. Len(s) - 1
        /\ Len(Tail(s)) = Len(s) - 1
        /\ \A i \in 1 .. Len(s) - 1 : Tail(s)[i] = s[i + 1]
    BY <1>2, <1>7, TailIs
  <1>9. Rising(cmd, s)
    BY <1>1, <1>2 DEF JobInv
  <1>10. /\ job' \in [id : Nat, at : {"idle", "fetch", "run"}, try : Nat, todo : Seq(Stages)]
         /\ \/ job' = Idle
            \/ Len(s) > 1 /\ job'.id = job.id /\ job'.at = "run" /\ job'.todo = Tail(s)
    <2>1. CASE job' = Idle
      BY <2>1, IdleIs
    <2>2. CASE Len(s) > 1 /\ job' = [job EXCEPT !.todo = Tail(s)]
      BY <1>2, <1>7, <1>8, <2>2
    <2> QED
      BY <1>4, <2>1, <2>2
  <1> HIDE DEF n, s
  <1>11. Len(s) > 1 => /\ Tail(s) # <<>> /\ Rising(cmd, Tail(s)) /\ Tail(s)[1] = s[2]
                       /\ Rank(cmd, s[1]) < Rank(cmd, s[2])
    <2> SUFFICES ASSUME Len(s) > 1
                 PROVE  /\ Tail(s) # <<>> /\ Rising(cmd, Tail(s)) /\ Tail(s)[1] = s[2]
                        /\ Rank(cmd, s[1]) < Rank(cmd, s[2])
      OBVIOUS
    <2>1. Tail(s) # <<>>
      <3>1. \A l \in Nat : l > 1 => l - 1 # 0
        OBVIOUS
      <3>2. Len(Tail(s)) # 0
        BY <1>7, <1>8, <3>1, Zenon
      <3>3. Len(<<>>) = 0
        OBVIOUS
      <3> QED
        BY <3>2, <3>3, Zenon
    <2>2. 1 \in DOMAIN s /\ 2 \in DOMAIN s /\ 1 \in 1 .. Len(s) - 1
      BY <1>7, <1>8
    <2>3. Tail(s)[1] = s[2] /\ Rank(cmd, s[1]) < Rank(cmd, s[2])
      BY <1>8, <1>9, <2>2 DEF Rising
    <2>4. ASSUME NEW a \in DOMAIN Tail(s), NEW b \in DOMAIN Tail(s), a < b
          PROVE  Rank(cmd, Tail(s)[a]) < Rank(cmd, Tail(s)[b])
      <3>1. a + 1 \in DOMAIN s /\ b + 1 \in DOMAIN s /\ a + 1 < b + 1
        BY <1>7, <1>8, <2>4
      <3>2. Tail(s)[a] = s[a + 1] /\ Tail(s)[b] = s[b + 1]
        BY <1>8
      <3> QED
        BY <1>9, <3>1, <3>2 DEF Rising
    <2> QED
      BY <2>1, <2>3, <2>4 DEF Rising
  <1>12. TypeInv' /\ LogInv'
    BY <1>1, <1>2, <1>5, <1>10 DEF TypeInv, LogInv, Ids
  <1>13. JobInv'
    <2>1. CASE job' = Idle
      BY <1>2, <1>7, <2>1, IdleIs DEF JobInv
    <2>2. CASE Len(s) > 1 /\ job'.id = job.id /\ job'.at = "run" /\ job'.todo = Tail(s)
      <3>1. job'.id \in 0 .. Len(log) /\ job'.id # 0
        BY <1>2, <1>7, <2>2
      <3>2. job' # Idle
        BY <2>2, IdleIs
      <3>3. job'.todo # <<>> /\ Rising(cmd, job'.todo)
        BY <1>11, <2>2
      <3> QED
        BY <1>2, <2>2, <3>1, <3>2, <3>3 DEF JobInv
    <2> QED
      BY <1>10, <2>1, <2>2
  \* What is done is not after the step just taken.
  <1>14. \A k \in 1 .. n : did[k].conn = link.conn =>
           did[k].id < job.id \/ (did[k].id = job.id /\ Rank(cmd, did[k].stage) < Rank(cmd, e.stage))
    BY <1>1, <1>2, <1>3, <1>5 DEF DidInv, s
  <1>15. \A x \in Stages : Rank(cmd, x) \in Nat
    BY <1>7, RankRange
  <1>16. DidInv'
    <2> SUFFICES ASSUME NEW k \in 1 .. n + 1
                 PROVE  (/\ did[k].conn <= link.conn
                         /\ did[k].id \in 1 .. Len(log)
                         /\ did[k].conn = link.conn /\ job.at = "fetch" => did[k].id < job.id
                         /\ did[k].conn = link.conn /\ job.at = "run" =>
                              did[k].id < job.id
                              \/ (did[k].id = job.id /\ Rank(cmd, did[k].stage) < Rank(cmd, job.todo[1])))'
      BY <1>5 DEF DidInv
    <2>1. did'[k].conn <= link.conn /\ did'[k].id \in 1 .. Len(log) /\ did'[k].stage \in Stages
      BY <1>1, <1>2, <1>3, <1>5, <1>6, <1>7, Fields DEF DidInv
    <2>2. job'.at # "fetch"
      BY <1>10, IdleIs
    <2>3. ASSUME did'[k].conn = link.conn, job'.at = "run"
          PROVE  did'[k].id < job.id
                   \/ (did'[k].id = job.id /\ Rank(cmd, did'[k].stage) < Rank(cmd, s[2]))
      <3>1. Rank(cmd, stage) < Rank(cmd, s[2]) /\ s[2] \in Stages
        <4>1. Len(s) > 1
          BY <1>10, <2>3, IdleIs
        <4>2. s[2] \in Stages
          BY <1>7, <4>1
        <4> QED
          BY <1>2, <1>11, <4>1, <4>2 DEF s
      <3>2. CASE k \in 1 .. n
        <4>1. \/ did'[k].id < job.id
              \/ did'[k].id = job.id /\ Rank(cmd, did'[k].stage) < Rank(cmd, stage)
          BY <1>3, <1>5, <1>14, <2>3, <3>2
        <4>2. Rank(cmd, did'[k].stage) \in Nat /\ Rank(cmd, stage) \in Nat /\ Rank(cmd, s[2]) \in Nat
          BY <1>15, <2>1, <3>1
        <4> QED
          BY <3>1, <4>1, <4>2
      <3>3. CASE k = n + 1
        BY <1>3, <1>5, <3>1, <3>3
      <3> QED
        BY <1>6, <3>2, <3>3
    <2>4. job'.at = "run" => job'.id = job.id /\ job'.todo[1] = s[2]
      BY <1>10, <1>11, IdleIs
    <2> QED
      BY <1>2, <2>1, <2>2, <2>3, <2>4
  <1>17. LinkInv'
    <2>1. Ahead' = Ahead /\ ~Quiet
      BY <1>1, <1>2 DEF Ahead, Quiet, JobInv
    <2>2. cmd = "client" => job.id < Ahead /\ \A k \in 1 .. n + 1 : did'[k].conn = link.conn => did'[k].id < Ahead
      BY <1>1, <1>3, <1>5, <1>6, <2>1 DEF LinkInv
    <2>3. cmd = "client" => job'.id < Ahead
      <3>1. Ahead \in Nat
        BY <1>1, Fields DEF Ahead
      <3> QED
        BY <1>7, <1>10, <2>2, <3>1, IdleIs
    <2> QED
      BY <1>1, <1>2, <1>5, <2>1, <2>2, <2>3 DEF LinkInv
  <1>18. BatchInv'
    <2> SUFFICES ASSUME cmd = "replay" PROVE BatchInv'
      BY <1>2 DEF BatchInv
    <2>1. batch.last # 0 /\ job.id <= batch.last /\ batch.last \in Nat
      BY <1>1, <1>2, Fields DEF BatchInv, JobInv
    <2>2. job'.id \in Nat /\ job'.id <= job.id
      BY <1>7, <1>10, IdleIs
    <2>3. job'.id <= batch.last
      BY <1>7, <2>1, <2>2
    <2>4. \A a \in DOMAIN batch.todo : batch.todo[a] \in Nat /\ job.id < batch.todo[a]
      <3>1. \A a \in DOMAIN batch.todo : batch.todo[a] \in 1 .. batch.last /\ job.id < batch.todo[a]
        BY <1>1, <1>2 DEF BatchInv
      <3> QED
        BY <2>1, <3>1
    <2>5. \A a \in DOMAIN batch.todo : job'.id < batch.todo[a]
      BY <1>7, <2>2, <2>4
    <2>6. \A k \in 1 .. n + 1 : did'[k].id <= batch.last \/ log[did'[k].id].time < since
      BY <1>1, <1>2, <1>3, <1>5, <1>6, <2>1 DEF BatchInv
    <2>7. \A k \in 1 .. n + 1 : \A a \in DOMAIN batch.todo : did'[k].id < batch.todo[a]
      BY <1>1, <1>2, <1>3, <1>5, <1>6, <2>4 DEF BatchInv
    <2> QED
      BY <1>1, <1>2, <1>5, <2>1, <2>3, <2>5, <2>6, <2>7 DEF BatchInv, Ids
  <1>19. InOrder'
    <2> SUFFICES ASSUME NEW i \in 1 .. n + 1, NEW j \in 1 .. n + 1, i < j, did'[i].conn = did'[j].conn
                 PROVE  \/ did'[i].id < did'[j].id
                        \/ did'[i].id = did'[j].id /\ Rank(cmd, did'[i].stage) < Rank(cmd, did'[j].stage)
      BY <1>2, <1>5 DEF InOrder
    <2>1. CASE j \in 1 .. n
      <3>1. i \in 1 .. n
        BY <1>5, <2>1
      <3> QED
        BY <1>1, <1>5, <2>1, <3>1 DEF InOrder
    <2>2. CASE j = n + 1
      <3>1. i \in 1 .. n
        BY <1>5, <2>2
      <3> QED
        BY <1>3, <1>5, <1>14, <2>2, <3>1
    <2> QED
      BY <1>6, <2>1, <2>2
  <1> QED
    BY <1>12, <1>13, <1>16, <1>17, <1>18, <1>19 DEF IInv

LEMMA Listed ==
  ASSUME NEW c \in Nat, NEW R \in SUBSET Nat, NEW f \in [1 .. c -> R]
  PROVE  f \in Seq(Nat) /\ Len(f) = c /\ DOMAIN f = 1 .. c
  <1>1. DOMAIN f = 1 .. c /\ \A i \in 1 .. c : f[i] \in Nat
    OBVIOUS
  <1>2. f \in [1 .. c -> Nat]
    BY <1>1
  <1>3. f \in Seq(Nat)
    BY <1>2
  <1> QED
    BY <1>1, <1>3

\* What a poll has to do: each recent delivery of the page once, in order.
LEMMA Listing ==
  ASSUME TypeInv, NEW f \in chooseDeliveries(Page, since), f # <<>>
  PROVE  /\ f \in Seq(Nat) /\ Len(f) \in Nat /\ Len(f) >= 1 /\ DOMAIN f = 1 .. Len(f)
         /\ \A a \in DOMAIN f : /\ f[a] \in Page /\ f[a] \in Ids /\ f[a] \in Recent(Page, since)
                                /\ log[f[a]].time >= since
         /\ \A a, b \in DOMAIN f : a < b => f[a] < f[b]
         /\ \A i \in Recent(Page, since) : \E a \in DOMAIN f : f[a] = i
  <1> DEFINE R == Recent(Page, since)
             c == Cardinality(R)
  <1>1. Len(log) \in Nat /\ PerPage \in Nat
    BY Fields, ClientAssumption
  <1>2. Ids \in SUBSET Nat /\ IsFiniteSet(Ids) /\ R \subseteq Page /\ Page \subseteq Ids
    <2>1. Ids \in SUBSET Nat
      BY <1>1 DEF Ids
    <2>2. IsFiniteSet(1 .. Len(log))
      BY <1>1, FS_Interval
    <2>3. R \subseteq Page /\ Page \subseteq Ids
      BY DEF Recent, Page, Ids
    <2> QED
      BY <2>1, <2>2, <2>3 DEF Ids
  <1>3. IsFiniteSet(R) /\ c \in Nat
    BY <1>2, FS_Subset, FS_CardinalityType
  <1>4. f \in [1 .. c -> R] /\ \A a, b \in DOMAIN f : a < b => f[a] < f[b]
    BY DEF chooseDeliveries
  <1>5. \A i \in R : log[i].time >= since
    <2>1. \A i \in R : i >= i
      <3>1. \A i \in R : i \in Nat
        BY <1>2, Zenon
      <3> QED
        BY <3>1 DEF R
    <2> QED
      BY <1>2, <2>1 DEF Recent
  <1> HIDE DEF R, c
  <1>6. f \in Seq(Nat) /\ Len(f) = c /\ DOMAIN f = 1 .. c
    <2>1. R \in SUBSET Nat
      BY <1>2
    <2> QED
      BY <1>3, <1>4, <2>1, Listed
  <1>7. c >= 1
    <2>1. CASE c = 0
      <3>1. Len(f) = 0
        BY <1>6, <2>1
      <3>2. f = <<>>
        BY <1>6, <3>1
      <3> QED
        BY <3>2
    <2> QED
      BY <1>3, <2>1
  <1>8. \A a, b \in 1 .. c : a # b => f[a] # f[b]
    <2> SUFFICES ASSUME NEW a \in 1 .. c, NEW b \in 1 .. c, a # b, f[a] = f[b] PROVE FALSE
      OBVIOUS
    <2>1. f[a] \in Nat /\ f[b] \in Nat
      BY <1>2, <1>4
    <2>2. a < b \/ b < a
      BY <1>3
    <2> QED
      BY <1>4, <2>1, <2>2
  <1>9. \A i \in R : \E a \in 1 .. c : f[a] = i
    <2>1. IsFiniteSet(1 .. c) /\ Cardinality(1 .. c) = c
      BY <1>3, FS_Interval
    <2>2. f \in Injection(1 .. c, R)
      BY <1>4, <1>8 DEF Injection, IsInjective
    <2>3. f \in Surjection(1 .. c, R)
      BY <1>3, <2>1, <2>2, FS_Injection DEF c
    <2> QED
      BY <2>3 DEF Surjection
  <1> QED
    BY <1>2, <1>3, <1>4, <1>5, <1>6, <1>7, <1>9 DEF R

\* A poll begins.
LEMMA ListStep ==
  ASSUME IInv, List
  PROVE  IInv'
  <1>1. TypeInv /\ LogInv /\ JobInv /\ DidInv /\ LinkInv /\ BatchInv /\ InOrder
    BY DEF IInv
  <1>2. /\ cmd' = cmd /\ opts' = opts /\ log' = log /\ now' = now /\ since' = since
        /\ did' = did /\ job' = job /\ proc' = proc /\ link' = link
        /\ cmd = "replay" /\ proc = "up" /\ job = Idle /\ batch = NoBatch
    BY DEF List, Running
  <1>3. PICK f \in chooseDeliveries(Page, since) :
          f # <<>> /\ batch' = [todo |-> f, last |-> f[Len(f)]]
    BY DEF List
  <1>4. /\ f \in Seq(Nat) /\ Len(f) \in Nat /\ Len(f) >= 1 /\ DOMAIN f = 1 .. Len(f)
        /\ \A a \in DOMAIN f : f[a] \in Ids /\ log[f[a]].time >= since
        /\ \A a, b \in DOMAIN f : a < b => f[a] < f[b]
    BY <1>1, <1>3, Listing
  <1> DEFINE l == f[Len(f)]
  <1>5. Len(f) \in DOMAIN f /\ l \in Nat /\ l \in Ids /\ l # 0
    BY <1>4 DEF Ids
  <1>6. \A a \in DOMAIN f : f[a] \in 1 .. l
    <2> TAKE a \in DOMAIN f
    <2>1. f[a] \in Nat /\ f[a] >= 1
      BY <1>4 DEF Ids
    <2>2. a = Len(f) \/ a < Len(f)
      BY <1>4
    <2> QED
      BY <1>4, <1>5, <2>1, <2>2
  <1> HIDE DEF l
  <1>7. batch' \in [todo : Seq(Nat), last : Nat] /\ batch'.todo = f /\ batch'.last = l
    BY <1>3, <1>4, <1>5 DEF l
  <1>8. TypeInv' /\ LogInv' /\ InOrder' /\ JobInv' /\ DidInv'
    <2>1. TypeInv'
      BY <1>1, <1>2, <1>7 DEF TypeInv
    <2> QED
      BY <1>1, <1>2, <2>1 DEF LogInv, Ids, InOrder, JobInv, DidInv
  <1>9. LinkInv'
    <2>1. Quiet' = Quiet /\ Ahead' = Ahead
      BY <1>2 DEF Quiet, Ahead
    <2> QED
      BY <1>1, <1>2, <2>1 DEF LinkInv
  <1>10. BatchInv'
    <2>1. since <= log[l].time /\ job.id = 0
      BY <1>1, <1>2, <1>4, <1>5, IdleIs, Fields DEF l, TypeInv
    <2>2. \A k \in DOMAIN did : did[k].id \in Ids /\ log[did[k].id].time < since
      <3>1. \A k \in DOMAIN did : did[k].id \in Ids /\ did[k].id \in Nat /\ ~(did[k].id <= 0)
        BY <1>1, Fields DEF DidInv, Ids
      <3> QED
        BY <1>1, <1>2, <3>1, IdleIs DEF BatchInv
    <2>3. ASSUME NEW k \in DOMAIN did, NEW a \in DOMAIN f
          PROVE  did[k].id < f[a]
      <3>1. /\ log[did[k].id].time \in Nat /\ log[f[a]].time \in Nat /\ since \in Nat
            /\ did[k].id \in Nat /\ f[a] \in Nat
        <4>1. did[k].id \in Ids /\ f[a] \in Ids
          BY <1>4, <2>2
        <4>2. /\ log[did[k].id].time \in Nat /\ log[f[a]].time \in Nat /\ since \in Nat
          BY <1>1, <4>1, Fields DEF TypeInv
        <4> QED
          BY <4>1, <4>2 DEF Ids
      <3>2. log[did[k].id].time < log[f[a]].time
        BY <1>4, <2>2, <3>1
      <3>3. f[a] <= did[k].id => log[f[a]].time <= log[did[k].id].time
        BY <1>1, <1>4, <2>2 DEF LogInv
      <3> QED
        BY <3>1, <3>2, <3>3
    <2>4. \A a \in DOMAIN f : 0 < f[a]
      BY <1>4, <1>6
    <2> QED
      BY <1>2, <1>4, <1>5, <1>6, <1>7, <2>1, <2>2, <2>3, <2>4 DEF BatchInv, Ids
  <1> QED
    BY <1>8, <1>9, <1>10 DEF IInv

\* The next delivery of the poll.
LEMMA NextDeliveryStep ==
  ASSUME IInv, NextDelivery
  PROVE  /\ IInv'
         /\ batch'.last = batch.last /\ batch.last # 0 /\ job'.id = batch.todo[1]
         /\ batch'.todo = Tail(batch.todo)
  <1>1. TypeInv /\ LogInv /\ JobInv /\ DidInv /\ LinkInv /\ BatchInv /\ InOrder
    BY DEF IInv
  <1> DEFINE t == batch.todo
  <1>2. /\ cmd' = cmd /\ opts' = opts /\ log' = log /\ now' = now /\ since' = since
        /\ did' = did /\ proc' = proc /\ link' = link
        /\ cmd = "replay" /\ proc = "up" /\ job = Idle /\ t # <<>>
        /\ job' = [id |-> Head(t), at |-> "fetch", try |-> 1, todo |-> <<>>]
        /\ batch' = [batch EXCEPT !.todo = Tail(t)]
    BY DEF NextDelivery, Running
  <1>3. t \in Seq(Nat) /\ batch \in [todo : Seq(Nat), last : Nat] /\ batch.last \in Nat
        /\ Len(log) \in Nat
    BY <1>1, Fields DEF TypeInv
  <1>4. batch.last # 0 /\ batch.last \in 1 .. Len(log)
    BY <1>1, <1>2, IdleIs DEF BatchInv, Ids
  <1> HIDE DEF t
  <1>5. /\ Tail(t) \in Seq(Nat) /\ Len(t) \in Nat /\ Len(t) >= 1
        /\ DOMAIN t = 1 .. Len(t) /\ DOMAIN Tail(t) = 1 .. Len(t) - 1
        /\ \A i \in 1 .. Len(t) - 1 : Tail(t)[i] = t[i + 1]
        /\ Head(t) = t[1] /\ t[1] \in Nat
    BY <1>2, <1>3, TailIs
  <1>6. 1 \in DOMAIN t /\ \A i \in DOMAIN Tail(t) : i + 1 \in DOMAIN t /\ 1 < i + 1
    BY <1>5
  <1>7. \A a \in DOMAIN t : /\ t[a] \in 1 .. batch.last
                            /\ \A b \in DOMAIN t : a < b => t[a] < t[b]
                            /\ \A k \in DOMAIN did : did[k].id < t[a]
    BY <1>1, <1>2 DEF BatchInv, t
  <1>8. /\ job' \in [id : Nat, at : {"idle", "fetch", "run"}, try : Nat, todo : Seq(Stages)]
        /\ job'.id = t[1] /\ job'.at = "fetch"
    <2>1. job' = [id |-> t[1], at |-> "fetch", try |-> 1, todo |-> <<>>]
      BY <1>2, <1>5
    <2>2. t[1] \in Nat
      BY <1>5
    <2> QED
      BY ONLY <2>1, <2>2
  <1>9. /\ batch' \in [todo : Seq(Nat), last : Nat]
        /\ batch'.todo = Tail(t) /\ batch'.last = batch.last
    BY <1>2, <1>3, <1>5
  <1>10. t[1] \in 1 .. Len(log) /\ t[1] <= batch.last
    BY <1>3, <1>4, <1>6, <1>7
  <1>11. TypeInv' /\ LogInv' /\ InOrder'
    BY <1>1, <1>2, <1>8, <1>9 DEF TypeInv, LogInv, Ids, InOrder
  <1>12. JobInv'
    BY <1>2, <1>3, <1>8, <1>10, IdleIs DEF JobInv
  <1>13. DidInv'
    BY <1>1, <1>2, <1>6, <1>7, <1>8 DEF DidInv
  <1>14. LinkInv'
    BY <1>1, <1>2 DEF LinkInv
  <1>15. BatchInv'
    <2>1. ASSUME NEW a \in DOMAIN Tail(t)
          PROVE  /\ Tail(t)[a] \in 1 .. batch.last /\ t[1] < Tail(t)[a]
                 /\ \A b \in DOMAIN Tail(t) : a < b => Tail(t)[a] < Tail(t)[b]
                 /\ \A k \in DOMAIN did : did[k].id < Tail(t)[a]
      <3>1. Tail(t)[a] = t[a + 1] /\ a + 1 \in DOMAIN t /\ 1 < a + 1 /\ a \in Nat
        BY <1>5, <1>6
      <3>2. ASSUME NEW b \in DOMAIN Tail(t), a < b PROVE Tail(t)[a] < Tail(t)[b]
        <4>1. Tail(t)[b] = t[b + 1] /\ b + 1 \in DOMAIN t /\ a + 1 < b + 1
          BY <1>5, <1>6, <3>1, <3>2
        <4> QED
          BY <1>7, <3>1, <4>1
      <3> QED
        BY <1>6, <1>7, <3>1, <3>2
    <2> QED
      BY <1>1, <1>2, <1>4, <1>8, <1>9, <1>10, <2>1 DEF BatchInv, Ids
  <1> QED
    BY <1>4, <1>8, <1>9, <1>11, <1>12, <1>13, <1>14, <1>15 DEF IInv, t

\* A delivery is fetched, and handled after the last try.
LEMMA FetchStep ==
  ASSUME IInv, GetHookDelivery
  PROVE  IInv' /\ job'.id = job.id
  <1>1. TypeInv /\ LogInv /\ JobInv /\ DidInv /\ LinkInv /\ BatchInv /\ InOrder
    BY DEF IInv
  <1>2. /\ cmd' = cmd /\ opts' = opts /\ log' = log /\ now' = now /\ since' = since
        /\ did' = did /\ proc' = proc /\ link' = link /\ batch' = batch
        /\ cmd = "replay" /\ proc = "up" /\ job.at = "fetch"
        /\ job' = [job EXCEPT !.try = @ + 1] \/ job' = Begin(job.id)
    BY DEF GetHookDelivery, Running
  <1>3. /\ job \in [id : Nat, at : {"idle", "fetch", "run"}, try : Nat, todo : Seq(Stages)]
        /\ Len(log) \in Nat /\ cmd \in {"client", "replay"} /\ job.id \in Nat
    BY <1>1, Fields DEF TypeInv
  <1>4. job.id \in 1 .. Len(log)
    BY <1>1, <1>2, <1>3 DEF JobInv
  <1>5. /\ job' \in [id : Nat, at : {"idle", "fetch", "run"}, try : Nat, todo : Seq(Stages)]
        /\ job'.id = job.id
        /\ \/ job'.at = "fetch"
           \/ job'.at = "run" /\ job'.todo # <<>> /\ Rising(cmd, job'.todo)
    <2>1. CASE job' = [job EXCEPT !.try = @ + 1]
      BY <1>2, <1>3, <2>1
    <2>2. CASE job' = Begin(job.id)
      <3>1. job.id \in Nat \ {0} /\ cmd # "client"
        BY <1>2, <1>4
      <3> QED
        BY <1>3, <2>2, <3>1, BeginIs
    <2> QED
      BY <1>2, <2>1, <2>2
  <1>6. job' # Idle
    BY <1>5, IdleIs
  <1>7. TypeInv' /\ LogInv' /\ InOrder'
    BY <1>1, <1>2, <1>5 DEF TypeInv, LogInv, Ids, InOrder
  <1>8. JobInv'
    BY <1>2, <1>3, <1>4, <1>5, <1>6 DEF JobInv
  <1>9. DidInv'
    BY <1>1, <1>2, <1>5 DEF DidInv
  <1>10. LinkInv'
    BY <1>1, <1>2 DEF LinkInv
  <1>11. BatchInv'
    <2>1. batch.last # 0
      BY <1>1, <1>2, IdleIs DEF BatchInv
    <2> QED
      BY <1>1, <1>2, <1>5, <2>1 DEF BatchInv, Ids
  <1> QED
    BY <1>5, <1>7, <1>8, <1>9, <1>10, <1>11 DEF IInv

\* A poll is over.
LEMMA AdvanceStep ==
  ASSUME IInv, Advance
  PROVE  /\ IInv'
         /\ batch.last \in Ids /\ since' = log[batch.last].time + 1 /\ batch.todo = <<>>
         /\ since <= log[batch.last].time
  <1>1. TypeInv /\ LogInv /\ JobInv /\ DidInv /\ LinkInv /\ BatchInv /\ InOrder
    BY DEF IInv
  <1>2. /\ cmd' = cmd /\ opts' = opts /\ log' = log /\ now' = now
        /\ did' = did /\ proc' = proc /\ link' = link /\ job' = job /\ batch' = NoBatch
        /\ cmd = "replay" /\ proc = "up" /\ job = Idle /\ batch # NoBatch /\ batch.todo = <<>>
        /\ since' = log[batch.last].time + 1
    BY DEF Advance, Running, SinceAfter
  <1>3. batch.last \in Ids /\ since <= log[batch.last].time
    BY <1>1, <1>2 DEF BatchInv
  <1>4. /\ \A i \in Ids : log[i].time \in Nat
        /\ log[batch.last].time \in Nat /\ since \in Nat /\ Len(log) \in Nat
    BY <1>1, <1>3, Fields DEF TypeInv
  <1>5. since' \in Nat /\ since' > log[batch.last].time
    BY <1>2, <1>4
  <1>6. TypeInv' /\ LogInv' /\ InOrder' /\ JobInv' /\ DidInv'
    BY <1>1, <1>2, <1>5, IdleIs DEF TypeInv, LogInv, Ids, InOrder, JobInv, DidInv
  <1>7. LinkInv'
    BY <1>1, <1>2 DEF LinkInv
  <1>8. ASSUME NEW k \in DOMAIN did PROVE log[did[k].id].time < since'
    <2>1. did[k].id \in Ids
      BY <1>1 DEF DidInv, Ids
    <2>2. log[did[k].id].time <= log[batch.last].time \/ log[did[k].id].time < since
      BY <1>1, <1>2, <1>3, <2>1 DEF BatchInv, LogInv
    <2>3. log[did[k].id].time \in Nat
      BY <1>4, <2>1
    <2> QED
      BY <1>3, <1>4, <1>5, <2>2, <2>3
  <1>9. BatchInv'
    <2>1. DOMAIN <<>> = {}
      OBVIOUS
    <2> QED
      BY <1>2, <1>8, <2>1, IdleIs DEF BatchInv
  <1> QED
    BY <1>2, <1>3, <1>6, <1>7, <1>9 DEF IInv

LEMMA NextIInv == IInv /\ [Next]_vars => IInv'
  <1> SUFFICES ASSUME IInv, [Next]_vars PROVE IInv'
    OBVIOUS
  <1>1. ASSUME NEW m \in Messages, Publish(m) PROVE IInv'
    BY <1>1, PublishStep
  <1>2. CASE Tick \/ Break \/ Restart \/ UNCHANGED vars
    BY <1>2, QuietStep
  <1>3. CASE Exit \/ GitHubFails
    BY <1>3, EndStep
  <1>4. CASE Connect
    BY <1>4, ConnectStep
  <1>5. CASE Read
    BY <1>5, ReadStep
  <1>6. CASE Handle
    BY <1>6, HandleStep
  <1>7. CASE saveData \/ replayData \/ runExecCommand
    <2>1. "save" \in Stages /\ "forward" \in Stages /\ "exec" \in Stages
      BY DEF Stages
    <2> QED
      BY <1>7, <2>1, RunStep DEF saveData, replayData, runExecCommand
  <1>8. CASE List
    BY <1>8, ListStep
  <1>9. CASE NextDelivery
    BY <1>9, NextDeliveryStep
  <1>10. CASE GetHookDelivery
    BY <1>10, FetchStep
  <1>11. CASE Advance
    BY <1>11, AdvanceStep
  <1>12. CASE Lose
    BY <1>12, LoseStep
  <1> QED
    BY <1>1, <1>2, <1>3, <1>4, <1>5, <1>6, <1>7, <1>8, <1>9, <1>10, <1>11, <1>12 DEF Next, Own

LEMMA Inductive == Spec => []IInv
  BY InitIInv, NextIInv, PTL DEF Spec

\* Whatever breaks, fails or is read again after a reconnection, the effects of a
\* connection of the client (clientSetup), and those of all polls of replay
\* (replayHooks), come in the order of publication, none twice, and the steps of
\* a message in the order of its pipeline.
THEOREM EffectsInOrder == Spec => []InOrder
  <1>1. IInv => InOrder
    BY DEF IInv
  <1> QED
    BY <1>1, Inductive, PTL

-----------------------------------------------------------------------------
(* The polls of replay.                                                    *)

\* A message is published: it is not behind the polls, or shares the second of
\* one that is.
LEMMA PublishPoll ==
  ASSUME IInv, PollInv, cmd = "replay", NEW m \in Messages, Publish(m)
  PROVE  PollInv'
  <1>1. TypeInv /\ LogInv /\ BatchInv
    BY DEF IInv
  <1> DEFINE e == [msg |-> m, time |-> now]
             n == Len(log)
  <1>2. /\ log' = Append(log, e)
        /\ cmd' = cmd /\ proc' = proc /\ since' = since /\ batch' = batch /\ job' = job /\ did' = did
    BY DEF Publish
  <1>3. e \in Sent /\ e.time = now /\ now \in Nat /\ since \in Nat
    BY <1>1 DEF Sent, TypeInv
  <1>4. /\ n \in Nat /\ Len(log') = n + 1
        /\ \A i \in 1 .. n : log'[i] = log[i]
        /\ log'[n + 1] = e
    BY <1>1, <1>2, <1>3, AppendIs DEF TypeInv
  <1> HIDE DEF e, n
  <1>5. Ids = 1 .. n /\ Ids' = 1 .. n + 1 /\ PerPage \in Nat
    BY <1>4, ClientAssumption DEF Ids, n
  <1>6. \A i \in 1 .. n : i \in 1 .. n + 1 /\ i \in Nat
    BY <1>4
  <1>7. ASSUME NEW i \in 1 .. n, Crowded(i) PROVE Crowded(i)'
    <2>1. CASE \E j \in Ids : j < i /\ log[j].time = log[i].time
      BY <1>4, <1>5, <1>6, <2>1 DEF Crowded
    <2>2. CASE Len(log) - i >= PerPage
      <3>1. Len(log') - i >= PerPage
        BY <1>4, <1>5, <1>6, <2>2 DEF n
      <3> QED
        BY <3>1 DEF Crowded
    <2> QED
      BY <1>7, <2>1, <2>2 DEF Crowded
  <1>8. \A i : Handled(i)' <=> Handled(i)
    BY <1>2 DEF Handled
  <1>9. ASSUME now >= 1, now < since, NEW i, i = n + 1 PROVE Crowded(i)'
    <2>1. PICK j \in 1 .. n : log[j].time = since - 1
      BY <1>3, <1>5, <1>9 DEF PollInv
    <2>2. log[j].time <= now /\ log[j].time \in Nat
      BY <1>1, <1>5, Fields DEF LogInv
    <2>3. log'[j].time = log'[i].time /\ j < i
      BY <1>3, <1>4, <1>9, <2>1, <2>2
    <2>4. j \in Ids'
      BY <1>5, <1>6
    <2> QED
      BY <2>3, <2>4 DEF Crowded
  <1>10. PollsMeet'
    <2> SUFFICES ASSUME NEW i \in 1 .. n + 1, log'[i].time >= 1, log'[i].time < since
                 PROVE  Handled(i)' \/ Crowded(i)'
      BY <1>2, <1>5 DEF PollsMeet
    <2>1. CASE i \in 1 .. n
      BY <1>4, <1>5, <1>7, <1>8, <2>1 DEF PollInv, PollsMeet
    <2>2. CASE i = n + 1
      BY <1>3, <1>4, <1>9, <2>2
    <2> QED
      BY <1>4, <2>1, <2>2
  <1>11. since > 1 => \E j \in Ids' : log'[j].time = since - 1
    BY <1>4, <1>5, <1>6 DEF PollInv
  <1>12. ASSUME proc = "up", batch.last # 0, NEW i \in 1 .. batch.last
         PROVE  \/ log'[i].time < since
                \/ \E a \in DOMAIN batch.todo : batch.todo[a] = i
                \/ i = job.id \/ Handled(i)' \/ Crowded(i)'
    <2>1. i \in 1 .. n
      BY <1>1, <1>4, <1>5, <1>12 DEF BatchInv
    <2> QED
      BY <1>4, <1>7, <1>8, <1>12, <2>1 DEF PollInv
  <1> QED
    BY <1>2, <1>10, <1>11, <1>12 DEF PollInv

\* Steps that neither publish nor move the poll keep what has been handled.
LEMMA KeepPoll ==
  ASSUME IInv, PollInv, cmd = "replay",
         cmd' = cmd, log' = log, since' = since, batch' = batch,
         \A i : Handled(i) => Handled(i)',
         proc' = "up" => proc = "up" /\ (job'.id = job.id \/ \A i : i = job.id => Handled(i)')
  PROVE  PollInv'
  <1>1. Ids' = Ids /\ \A i : Crowded(i)' <=> Crowded(i)
    BY DEF Ids, Crowded
  <1>2. PollsMeet'
    BY <1>1 DEF PollInv, PollsMeet
  <1>3. ASSUME proc' = "up", batch.last # 0, NEW i \in 1 .. batch.last
        PROVE  \/ log[i].time < since
               \/ \E a \in DOMAIN batch.todo : batch.todo[a] = i
               \/ i = job'.id \/ Handled(i)' \/ Crowded(i)
    BY <1>3 DEF PollInv
  <1> QED
    BY <1>1, <1>2, <1>3 DEF PollInv

\* A poll begins: what it leaves out is too old or did not fit on the page.
LEMMA ListPoll ==
  ASSUME IInv, PollInv, cmd = "replay", List
  PROVE  PollInv'
  <1>1. TypeInv /\ LogInv
    BY DEF IInv
  <1>2. cmd' = cmd /\ log' = log /\ since' = since /\ did' = did /\ job' = job /\ proc' = proc
    BY DEF List
  <1>3. PICK f \in chooseDeliveries(Page, since) :
          f # <<>> /\ batch' = [todo |-> f, last |-> f[Len(f)]]
    BY DEF List
  <1>4. /\ Len(f) \in Nat /\ Len(f) >= 1 /\ DOMAIN f = 1 .. Len(f)
        /\ \A a \in DOMAIN f : f[a] \in Ids
        /\ \A i \in Recent(Page, since) : \E a \in DOMAIN f : f[a] = i
    BY <1>1, <1>3, Listing
  <1>5. batch'.todo = f /\ batch'.last \in Ids
    <2>1. Len(f) \in DOMAIN f
      BY <1>4
    <2> QED
      BY <1>3, <1>4, <2>1
  <1>6. /\ Len(log) \in Nat /\ PerPage \in Nat /\ since \in Nat
        /\ \A i \in Ids : log[i].time \in Nat
    BY <1>1, Fields, ClientAssumption DEF TypeInv
  <1>7. ASSUME NEW i \in 1 .. batch'.last
        PROVE  \/ log[i].time < since
               \/ \E a \in DOMAIN f : f[a] = i
               \/ Crowded(i)
    <2>1. i \in Ids /\ i \in Nat
      BY <1>5, <1>6 DEF Ids
    <2>2. CASE i \notin Page
      <3>1. Len(log) - i >= PerPage
        BY <1>6, <2>1, <2>2 DEF Page, Ids
      <3> QED
        BY <3>1 DEF Crowded
    <2>3. CASE i \in Recent(Page, since)
      BY <1>4, <2>3
    <2>4. CASE i \in Page /\ i \notin Recent(Page, since)
      <3>1. PICK j \in Page : j >= i /\ ~(log[j].time >= since)
        BY <2>4 DEF Recent
      <3>2. j \in Ids /\ j \in Nat
        BY <1>6 DEF Page, Ids
      <3>3. log[i].time <= log[j].time
        BY <1>1, <2>1, <3>1, <3>2 DEF LogInv
      <3>4. log[i].time \in Nat /\ log[j].time \in Nat
        BY <1>6, <2>1, <3>2
      <3> QED
        BY <1>6, <3>1, <3>3, <3>4
    <2> QED
      BY <2>2, <2>3, <2>4
  <1>8. Ids' = Ids /\ (\A i : Crowded(i)' <=> Crowded(i)) /\ (\A i : Handled(i)' <=> Handled(i))
    BY <1>2 DEF Ids, Crowded, Handled
  <1>9. PollsMeet'
    BY <1>2, <1>8 DEF PollInv, PollsMeet
  <1> QED
    BY <1>2, <1>5, <1>7, <1>8, <1>9 DEF PollInv

\* The next delivery comes from what is left.
LEMMA NextDeliveryPoll ==
  ASSUME IInv, PollInv, cmd = "replay", NextDelivery
  PROVE  PollInv'
  <1>1. TypeInv
    BY DEF IInv
  <1>2. cmd' = cmd /\ log' = log /\ since' = since /\ did' = did /\ proc' = proc
        /\ job = Idle /\ batch.todo # <<>>
    BY DEF NextDelivery
  <1> DEFINE t == batch.todo
  <1>3. batch'.last = batch.last /\ job'.id = t[1] /\ batch'.todo = Tail(t)
    BY NextDeliveryStep
  <1>4. t \in Seq(Nat)
    BY <1>1, Fields
  <1>5. /\ Len(t) \in Nat /\ Len(t) >= 1
        /\ DOMAIN t = 1 .. Len(t) /\ DOMAIN Tail(t) = 1 .. Len(t) - 1
        /\ \A i \in 1 .. Len(t) - 1 : Tail(t)[i] = t[i + 1]
    BY <1>2, <1>4, TailIs
  <1> HIDE DEF t
  <1>6. ASSUME NEW a \in DOMAIN t, a # 1 PROVE a - 1 \in DOMAIN Tail(t) /\ Tail(t)[a - 1] = t[a]
    <2>1. a - 1 \in 1 .. Len(t) - 1 /\ (a - 1) + 1 = a
      BY <1>5, <1>6
    <2> QED
      BY <1>5, <2>1
  <1>7. Ids' = Ids /\ (\A i : Crowded(i)' <=> Crowded(i)) /\ (\A i : Handled(i)' <=> Handled(i))
    BY <1>2 DEF Ids, Crowded, Handled
  <1>8. PollsMeet'
    BY <1>2, <1>7 DEF PollInv, PollsMeet
  <1>9. ASSUME proc = "up", batch.last # 0, NEW i \in 1 .. batch.last
        PROVE  \/ log[i].time < since
               \/ \E a \in DOMAIN Tail(t) : Tail(t)[a] = i
               \/ i = t[1] \/ Handled(i) \/ Crowded(i)
    <2>1. i # job.id
      BY <1>2, IdleIs
    <2>2. \/ log[i].time < since
          \/ \E a \in DOMAIN t : t[a] = i
          \/ i = job.id \/ Handled(i) \/ Crowded(i)
      BY <1>9 DEF PollInv, t
    <2> QED
      BY <1>6, <2>1, <2>2
  <1> QED
    BY <1>2, <1>3, <1>7, <1>8, <1>9 DEF PollInv

\* A poll is over: all of it was handled, and what came meanwhile is later or
\* shares the second of the last.
LEMMA AdvancePoll ==
  ASSUME IInv, PollInv, cmd = "replay", Advance
  PROVE  PollInv'
  <1>1. TypeInv /\ LogInv
    BY DEF IInv
  <1> DEFINE l == batch.last
  <1>2. /\ cmd' = cmd /\ log' = log /\ did' = did /\ proc' = proc /\ job' = job
        /\ batch' = NoBatch /\ proc = "up" /\ job = Idle
    BY DEF Advance, Running
  <1>3. l \in Ids /\ since' = log[l].time + 1 /\ since <= log[l].time /\ batch.todo = <<>>
    BY AdvanceStep
  <1>4. /\ \A i \in Ids : log[i].time \in Nat
        /\ log[l].time \in Nat /\ since \in Nat /\ Len(log) \in Nat /\ l \in Nat /\ l # 0
    <2>1. (\A i \in Ids : log[i].time \in Nat) /\ since \in Nat /\ Len(log) \in Nat
      BY <1>1, Fields DEF TypeInv
    <2>2. l \in Nat /\ l # 0
      BY <1>3, <2>1 DEF Ids
    <2> QED
      BY <1>3, <2>1, <2>2
  <1>5. Ids' = Ids /\ (\A i : Crowded(i)' <=> Crowded(i)) /\ (\A i : Handled(i)' <=> Handled(i))
    BY <1>2 DEF Ids, Crowded, Handled
  <1>6. ASSUME NEW i \in Ids, log[i].time >= 1, log[i].time < since'
        PROVE  Handled(i) \/ Crowded(i)
    <2>1. log[i].time \in Nat /\ i \in Nat /\ i >= 1
      BY <1>4 DEF Ids
    <2>2. CASE log[i].time < since
      BY <1>6, <2>2 DEF PollInv, PollsMeet
    <2>3. CASE ~(log[i].time < since) /\ i <= l
      <3>1. i \in 1 .. l /\ DOMAIN batch.todo = {} /\ i # job.id
        BY <1>2, <1>3, <1>4, <2>1, <2>3, IdleIs
      <3> QED
        BY <1>2, <1>4, <2>3, <3>1 DEF PollInv
    <2>4. CASE i > l
      <3>1. log[l].time <= log[i].time
        BY <1>1, <1>3, <1>4, <2>1, <2>4 DEF LogInv
      <3>2. log[l].time = log[i].time /\ l < i
        BY <1>3, <1>4, <1>6, <2>1, <2>4, <3>1
      <3> QED
        BY <1>3, <3>2 DEF Crowded
    <2> QED
      BY <1>4, <2>1, <2>2, <2>3, <2>4
  <1>7. PollsMeet'
    BY <1>2, <1>5, <1>6 DEF PollsMeet
  <1>8. log[l].time = since' - 1
    BY <1>3, <1>4
  <1>9. batch'.last = 0
    BY <1>2, IdleIs
  <1> QED
    BY <1>2, <1>3, <1>5, <1>7, <1>8, <1>9 DEF PollInv

LEMMA InitPoll == Init => PollInv
  <1> SUFFICES ASSUME Init PROVE PollInv
    OBVIOUS
  <1>1. Ids = {} /\ batch.last = 0 /\ ~(since > 1)
    BY IdleIs DEF Init, Ids
  <1> QED
    BY <1>1 DEF PollInv, PollsMeet

LEMMA NextPoll == IInv /\ PollInv /\ [Next]_vars => PollInv'
  <1> SUFFICES ASSUME IInv, PollInv, [Next]_vars PROVE PollInv'
    OBVIOUS
  <1>1. cmd' = cmd
    BY DEF Next, Own, Publish, Tick, Break, Lose, Exit, Restart, GitHubFails, Connect, Read, Handle,
           saveData, replayData, runExecCommand, Run, List, NextDelivery, GetHookDelivery, Advance, vars
  <1>2. CASE cmd # "replay"
    BY <1>1, <1>2 DEF PollInv, PollsMeet
  <1>3. CASE cmd = "replay"
    <2>1. ASSUME NEW m \in Messages, Publish(m) PROVE PollInv'
      BY <1>3, <2>1, PublishPoll
    <2>2. CASE Tick \/ Break \/ UNCHANGED vars
      <3>1. log' = log /\ since' = since /\ batch' = batch /\ did' = did /\ proc' = proc /\ job' = job
        BY <2>2 DEF Tick, Break, vars
      <3>2. \A i : Handled(i)' <=> Handled(i)
        BY <3>1 DEF Handled
      <3> QED
        BY <1>1, <1>3, <3>1, <3>2, KeepPoll
    <2>3. CASE Lose \/ Exit \/ Restart \/ Connect \/ Read \/ Handle
      BY <1>3, <2>3 DEF Lose, Exit, Restart, Connect, Read, Handle, Running
    <2>4. CASE GitHubFails
      <3>1. log' = log /\ since' = since /\ batch' = batch /\ did' = did /\ proc' = "down"
        BY <2>4 DEF GitHubFails
      <3>2. \A i : Handled(i)' <=> Handled(i)
        BY <3>1 DEF Handled
      <3> QED
        BY <1>1, <1>3, <3>1, <3>2, KeepPoll
    <2>5. ASSUME NEW stage \in Stages, Run(stage) PROVE PollInv'
      <3>1. TypeInv
        BY DEF IInv
      <3>2. log' = log /\ since' = since /\ batch' = batch /\ proc' = proc
        BY <2>5, RunIs
      <3>3. PICK e \in Effect : did' = Append(did, e) /\ e.id = job.id
        <4>1. PICK ok \in BOOLEAN :
                did' = Append(did, [stage |-> stage, id |-> job.id, conn |-> link.conn,
                                    ok |-> ok \/ stage = "exec"])
          BY <2>5, RunIs
        <4> DEFINE e == [stage |-> stage, id |-> job.id, conn |-> link.conn, ok |-> ok \/ stage = "exec"]
        <4>2. job.id \in Nat /\ link.conn \in Nat /\ (ok \/ stage = "exec") \in BOOLEAN
          BY <3>1, Fields
        <4>3. e \in Effect /\ e.id = job.id
          BY <4>2 DEF Effect
        <4> QED
          BY <4>1, <4>3
      <3>4. /\ Len(did) \in Nat /\ DOMAIN did = 1 .. Len(did) /\ DOMAIN did' = 1 .. Len(did) + 1
            /\ \A i \in 1 .. Len(did) : did'[i] = did[i]
            /\ did'[Len(did) + 1] = e
        BY <3>1, <3>3, AppendIs DEF TypeInv
      <3>5. /\ Len(did) + 1 \in DOMAIN did'
            /\ \A k \in DOMAIN did : k \in DOMAIN did' /\ did'[k] = did[k]
        BY <3>4
      <3>6. (\A i : Handled(i) => Handled(i)') /\ \A i : i = job.id => Handled(i)'
        BY <3>3, <3>4, <3>5 DEF Handled
      <3> QED
        BY <1>1, <1>3, <3>2, <3>6, KeepPoll
    <2>6. CASE saveData \/ replayData \/ runExecCommand
      <3>1. "save" \in Stages /\ "forward" \in Stages /\ "exec" \in Stages
        BY DEF Stages
      <3> QED
        BY <2>5, <2>6, <3>1 DEF saveData, replayData, runExecCommand
    <2>7. CASE List
      BY <1>3, <2>7, ListPoll
    <2>8. CASE NextDelivery
      BY <1>3, <2>8, NextDeliveryPoll
    <2>9. CASE GetHookDelivery
      <3>1. log' = log /\ since' = since /\ batch' = batch /\ did' = did /\ proc' = proc
        BY <2>9 DEF GetHookDelivery
      <3>2. job'.id = job.id
        BY <2>9, FetchStep
      <3>3. \A i : Handled(i)' <=> Handled(i)
        BY <3>1 DEF Handled
      <3> QED
        BY <1>1, <1>3, <3>1, <3>2, <3>3, KeepPoll
    <2>10. CASE Advance
      BY <1>3, <2>10, AdvancePoll
    <2> QED
      BY <2>1, <2>2, <2>3, <2>4, <2>6, <2>7, <2>8, <2>9, <2>10 DEF Next, Own
  <1> QED
    BY <1>2, <1>3

\* However deliveries arrive between and during the polls of replay (replayHooks),
\* none that polling has gone past was skipped, unless an earlier one has the same
\* second or the page was full.
THEOREM PollsFit == Spec => []PollsMeet
  <1>1. PollInv => PollsMeet
    BY DEF PollInv
  <1> QED
    BY <1>1, Inductive, InitPoll, NextPoll, PTL DEF Spec

-----------------------------------------------------------------------------
(* The messages of a connection.                                           *)

LEMMA IsolatedIs == FailuresIsolated <=> \A i \in Done : Isolated(i)
  BY Zenon DEF FailuresIsolated, Isolated, DoneBy, Foreign

LEMMA IsolatedNext == (FailuresIsolated <=> \A i \in Done : Isolated(i))'
  BY Zenon DEF FailuresIsolated, Isolated, DoneBy, Foreign

\* What is sealed with another key or for another channel is not accepted.
LEMMA ForeignRefused ==
  ASSUME NEW m, NEW o, Foreign(m, o)
  PROVE  ~Accepted(m, o)
  <1>1. PICK s \in {m.wrap, m.seal} :
          /\ s # NoSeal /\ KeyFor(s.alg, o) # None
          /\ s.key # KeyFor(s.alg, o) \/ s.ctx \notin {Channel, None}
    BY DEF Foreign
  <1>2. ~Opens(s, KeyFor(s.alg, o))
    BY <1>1 DEF Opens
  <1>3. Unsealed(s, o) = "error"
    BY <1>1, <1>2 DEF Unsealed
  <1>4. "error" # "open"
    OBVIOUS
  <1>5. CASE s = m.wrap
    BY <1>1, <1>3, <1>4, <1>5 DEF Accepted
  <1>6. CASE s = m.seal
    BY <1>3, <1>6 DEF Accepted
  <1> QED
    BY <1>1, <1>5, <1>6

\* The effects of a message that a step does not touch.
LEMMA SameIsolated ==
  ASSUME NEW i, Isolated(i), log'[i] = log[i], opts' = opts, cmd' = cmd,
         Effects(i)' = Effects(i), \A k \in Effects(i) : did'[k] = did[k]
  PROVE  Isolated(i)'
  <1>1. DoneBy(i)' = DoneBy(i)
    BY DEF DoneBy
  <1> QED
    BY <1>1 DEF Isolated

\* Steps with no effect that end no message.
LEMMA KeepHand ==
  ASSUME IInv, HandInv, FailuresIsolated,
         cmd' = cmd, opts' = opts, did' = did, job' = job, link'.conn = link.conn,
         \A i \in Ids : log'[i] = log[i],
         Done' \subseteq Done, proc' = "down" => link'.pos = 1
  PROVE  HandInv' /\ FailuresIsolated'
  <1>1. \A i : Effects(i)' = Effects(i)
    BY DEF Effects
  <1>2. Done \subseteq Ids
    BY DEF Done
  <1>3. \A i \in Done' : Isolated(i)'
    BY <1>1, <1>2, IsolatedIs, SameIsolated
  <1>4. FailuresIsolated'
    BY <1>3, IsolatedNext
  <1>5. HandInv'
    <2> SUFFICES ASSUME cmd = "client", job.at = "run"
                 PROVE  (/\ Accepted(log[job.id].msg, opts)
                         /\ \A k \in Effects(job.id) : did[k].ok
                         /\ DoneBy(job.id) \cup ToSet(job.todo)
                              = ToSet(Pipeline(cmd, log[job.id].msg, opts)))'
      BY DEF HandInv
    <2>1. job.id \in Ids
      BY Fields DEF IInv, JobInv, Ids
    <2>2. Effects(job.id)' = Effects(job.id) /\ DoneBy(job.id)' = DoneBy(job.id)
      BY DEF Effects, DoneBy
    <2> QED
      BY <2>1, <2>2 DEF HandInv
  <1> QED
    BY <1>4, <1>5

\* Steps after which no message is done or in hand.
LEMMA NoneHand ==
  ASSUME job' = Idle, Done' = {}, proc' = "down" => link'.pos = 1
  PROVE  HandInv' /\ FailuresIsolated'
  <1>1. job'.at # "run"
    BY IdleIs
  <1>2. HandInv'
    BY <1>1 DEF HandInv
  <1>3. FailuresIsolated'
    BY DEF FailuresIsolated
  <1> QED
    BY <1>2, <1>3

\* The callback is given a message.
LEMMA HandleHand ==
  ASSUME IInv, HandInv, FailuresIsolated, Handle
  PROVE  HandInv' /\ FailuresIsolated'
  <1>1. TypeInv /\ LinkInv
    BY DEF IInv
  <1>2. PICK h : h = link.held
    OBVIOUS
  <1>3. /\ cmd' = cmd /\ opts' = opts /\ log' = log /\ did' = did /\ proc' = proc
        /\ cmd = "client" /\ proc = "up" /\ job = Idle /\ h # 0
        /\ link' = [link EXCEPT !.held = 0]
        /\ job' = IF Accepted(log[h].msg, opts) THEN Begin(h) ELSE Idle
    BY <1>2 DEF Handle, Running
  <1>4. /\ link \in [up : BOOLEAN, conn : Nat, first : Nat, pos : Nat, held : Nat, lost : SUBSET Nat]
        /\ link.pos \in Nat /\ h \in Nat /\ Len(log) \in Nat /\ cmd \in {"client", "replay"}
    BY <1>1, <1>2, Fields DEF TypeInv
  <1>5. /\ link'.conn = link.conn /\ link'.first = link.first /\ link'.pos = link.pos
        /\ link'.held = 0
    BY <1>3, <1>4
  <1>6. \A i : Effects(i)' = Effects(i)
    BY <1>3, <1>5 DEF Effects
  <1>7. Effects(h) = {}
    <2>1. Ahead = h /\ ~Quiet
      BY <1>2, <1>3 DEF Ahead, Quiet
    <2>2. \A k \in DOMAIN did : did[k].conn = link.conn => did[k].id < h
      BY <1>1, <1>3, <2>1 DEF LinkInv
    <2>3. \A k \in DOMAIN did : ~(did[k].id = h /\ did[k].conn = link.conn)
      BY <1>4, <2>2
    <2> QED
      BY <2>3 DEF Effects
  <1>8. DoneBy(h)' = {}
    BY <1>6, <1>7 DEF DoneBy
  <1>9. \/ job' = Idle /\ (Accepted(log[h].msg, opts) => Pipeline(cmd, log[h].msg, opts) = <<>>)
        \/ /\ Accepted(log[h].msg, opts) /\ job'.id = h /\ job'.at = "run"
           /\ job'.todo = Pipeline(cmd, log[h].msg, opts)
    <2>1. h \in Nat \ {0}
      BY <1>3, <1>4
    <2> QED
      BY <1>3, <1>4, <2>1, BeginIs
  <1>10. ToSet(<<>>) = {}
    BY DEF ToSet
  <1>11. HandInv'
    <2>1. job'.at = "run" => /\ Accepted(log[h].msg, opts) /\ job'.id = h
                             /\ job'.todo = Pipeline(cmd, log[h].msg, opts)
      BY <1>9, IdleIs
    <2>2. proc' # "down"
      BY <1>3
    <2>3. Effects(h)' = {}
      BY <1>6, <1>7
    <2>4. job'.at = "run" => Effects(job.id)' = {} /\ DoneBy(job.id)' = {}
      BY <1>8, <2>1, <2>3 DEF Effects, DoneBy
    <2> QED
      BY <1>3, <2>1, <2>2, <2>4 DEF HandInv
  <1>12. ASSUME NEW i \in Done' PROVE Isolated(i)'
    <2>1. i \in Ids /\ link.first <= i /\ i < link.pos /\ i # 0 /\ i # job'.id
      BY <1>3, <1>5, <1>12 DEF Done, Ids
    <2>2. CASE i = h
      <3>1. job' = Idle
        BY <1>9, <2>1, <2>2
      <3>2. job'.at # "run"
        BY <3>1, IdleIs
      <3>3. Accepted(log[h].msg, opts) => Pipeline(cmd, log[h].msg, opts) = <<>>
        BY <1>9, <3>2
      <3>4. DoneBy(i)' = {} /\ Effects(i)' = {}
        BY <1>6, <1>7, <1>8, <2>2
      <3> QED
        BY <1>3, <1>10, <2>2, <3>3, <3>4 DEF Isolated
    <2>3. CASE i # h
      <3>1. i \in Done
        BY <1>2, <1>3, <2>1, <2>3, IdleIs DEF Done
      <3>2. Isolated(i)
        BY <3>1, IsolatedIs
      <3> QED
        BY <1>3, <1>6, <3>2, SameIsolated
    <2> QED
      BY <2>2, <2>3
  <1>13. FailuresIsolated'
    BY <1>12, IsolatedNext
  <1> QED
    BY <1>11, <1>13

\* The effect of a step, and whether the message goes on.
LEMMA RunEffect ==
  ASSUME IInv, NEW stage \in Stages, Run(stage)
  PROVE  \E e \in Effect :
           /\ did' = Append(did, e) /\ e.stage = stage /\ e.id = job.id /\ e.conn = link.conn
           /\ ~e.ok => stage # "exec"
           /\ \/ job' = Idle /\ (e.ok => Len(job.todo) = 1)
              \/ e.ok /\ job' = [job EXCEPT !.todo = Tail(job.todo)]
  <1>1. PICK ok \in BOOLEAN :
          /\ did' = Append(did, [stage |-> stage, id |-> job.id, conn |-> link.conn,
                                 ok |-> ok \/ stage = "exec"])
          /\ \/ job' = Idle /\ (ok \/ stage = "exec" => Len(job.todo) = 1)
             \/ /\ ok \/ stage = "exec"
                /\ Len(job.todo) > 1 /\ job' = [job EXCEPT !.todo = Tail(job.todo)]
    BY RunIs, Zenon
  <1>2. PICK b \in BOOLEAN : b = (ok \/ stage = "exec")
    OBVIOUS
  <1> DEFINE e == [stage |-> stage, id |-> job.id, conn |-> link.conn, ok |-> b]
  <1>3. did' = Append(did, e)
    BY <1>1, <1>2, Zenon
  <1>4. job.id \in Nat /\ link.conn \in Nat
    BY Fields DEF IInv
  <1>5. e \in Effect /\ e.stage = stage /\ e.id = job.id /\ e.conn = link.conn /\ e.ok = b
    BY <1>4 DEF Effect
  <1> HIDE DEF e
  <1>6. ~b => stage # "exec"
    BY <1>2, Zenon
  <1>7. \/ job' = Idle /\ (b => Len(job.todo) = 1)
        \/ b /\ job' = [job EXCEPT !.todo = Tail(job.todo)]
    BY <1>1, <1>2, Zenon
  <1> QED
    BY <1>3, <1>5, <1>6, <1>7, Zenon

\* A step of the pipeline is taken.
LEMMA RunHand ==
  ASSUME IInv, HandInv, FailuresIsolated, cmd = "client", NEW stage \in Stages, Run(stage)
  PROVE  HandInv' /\ FailuresIsolated'
  <1>1. TypeInv /\ JobInv /\ DidInv
    BY DEF IInv
  <1>2. /\ cmd' = cmd /\ opts' = opts /\ log' = log /\ proc' = proc /\ link' = link
        /\ proc = "up" /\ job.at = "run" /\ job.todo # <<>> /\ job.todo[1] = stage
        /\ job.id \in 1 .. Len(log)
    BY RunIs
  <1>3. PICK e \in Effect :
          /\ did' = Append(did, e) /\ e.stage = stage /\ e.id = job.id /\ e.conn = link.conn
          /\ ~e.ok => stage # "exec"
          /\ \/ job' = Idle /\ (e.ok => Len(job.todo) = 1)
             \/ e.ok /\ job' = [job EXCEPT !.todo = Tail(job.todo)]
    BY RunEffect
  <1>4. PICK n \in Nat : n = Len(did)
    BY <1>1, Fields
  <1>5. PICK h \in Nat : h = job.id
    BY <1>1, Fields
  <1>6. PICK s \in Seq(Stages) : s = job.todo
    BY <1>1, Fields
  <1>7. /\ DOMAIN did = 1 .. n /\ DOMAIN did' = 1 .. n + 1
        /\ \A i \in 1 .. n : did'[i] = did[i]
        /\ did'[n + 1] = e
    BY <1>1, <1>3, <1>4, AppendIs DEF TypeInv
  <1>8. /\ n + 1 \in 1 .. n + 1 /\ n + 1 \notin 1 .. n
        /\ \A k \in 1 .. n + 1 : k \in 1 .. n \/ k = n + 1
        /\ \A k \in 1 .. n : k \in 1 .. n + 1
    OBVIOUS
  \* The messages other than the one in hand keep their effects.
  <1>9. ASSUME NEW i, i # h
        PROVE  Effects(i)' = Effects(i) /\ \A k \in Effects(i) : did'[k] = did[k]
    BY <1>2, <1>3, <1>5, <1>7, <1>8, <1>9 DEF Effects
  <1>10. /\ Effects(h)' = Effects(h) \cup {n + 1}
         /\ \A k \in Effects(h) : did'[k] = did[k] /\ k # n + 1
    BY <1>2, <1>3, <1>5, <1>7, <1>8 DEF Effects
  <1>11. DoneBy(h)' = DoneBy(h) \cup {stage}
    <2>1. DoneBy(h)' = {did'[k].stage : k \in Effects(h) \cup {n + 1}}
      BY <1>10 DEF DoneBy
    <2>2. did'[n + 1].stage = stage
      BY <1>3, <1>7
    <2>3. \A x : x \in DoneBy(h)' <=> x \in DoneBy(h) \/ x = stage
      BY <1>10, <2>1, <2>2 DEF DoneBy
    <2> QED
      BY <2>3
  <1> DEFINE m == log[h].msg
             wanted == ToSet(Pipeline(cmd, m, opts))
  <1>12. /\ Accepted(m, opts) /\ (\A k \in Effects(h) : did[k].ok)
         /\ DoneBy(h) \cup ToSet(s) = wanted
    BY <1>2, <1>5, <1>6 DEF HandInv
  <1> HIDE DEF m, wanted
  <1>13. /\ Tail(s) \in Seq(Stages) /\ Len(s) \in Nat
         /\ DOMAIN s = 1 .. Len(s) /\ DOMAIN Tail(s) = 1 .. Len(s) - 1
         /\ \A i \in 1 .. Len(s) - 1 : Tail(s)[i] = s[i + 1]
         /\ s[1] = stage /\ Len(s) >= 1
    BY <1>2, <1>6, TailIs
  <1>14. \A k \in Effects(h)' : did'[k].ok <=> (k = n + 1 => e.ok)
    BY <1>7, <1>10, <1>12
  <1>15. CASE job' = Idle /\ (e.ok => Len(s) = 1)
    <2>1. HandInv'
      BY <1>2, <1>15, IdleIs DEF HandInv
    <2>2. ASSUME NEW i \in Done', i # h PROVE Isolated(i)'
      <3>1. i \in Done
        BY <1>2, <1>5, <2>2 DEF Done, Ids
      <3>2. Isolated(i)
        BY <3>1, IsolatedIs
      <3> QED
        BY <1>2, <1>9, <2>2, <3>2, SameIsolated
    <2>3. "exec" \notin DoneBy(h)
      <3> SUFFICES ASSUME NEW k \in Effects(h), did[k].stage = "exec" PROVE FALSE
        BY DEF DoneBy
      <3>1. k \in DOMAIN did /\ did[k].id = h /\ did[k].conn = link.conn
        BY DEF Effects
      <3>2. Rank(cmd, "exec") < Rank(cmd, stage)
        <4>1. did[k].id < h \/ Rank(cmd, did[k].stage) < Rank(cmd, stage)
          BY <1>1, <1>2, <1>5, <3>1 DEF DidInv
        <4> QED
          BY <3>1, <4>1
      <3>3. "exec" \in Stages /\ "client" \in {"client", "replay"}
        BY DEF Stages
      <3>4. Rank(cmd, "exec") = 3 /\ Rank(cmd, stage) \in 1 .. 3
        BY <3>3, RankRange
      <3> QED
        BY <3>2, <3>4
    <2>4. Isolated(h)'
      <3>1. ~Foreign(m, opts)
        BY <1>12, ForeignRefused
      <3>2. e.ok => DoneBy(h)' = wanted
        <4> SUFFICES ASSUME e.ok PROVE DoneBy(h)' = wanted
          OBVIOUS
        <4>1. DOMAIN s = {1}
          <5>1. DOMAIN s = 1 .. 1
            BY <1>13, <1>15, Zenon
          <5> QED
            BY <5>1
        <4>2. ToSet(s) = {stage}
          BY <1>13, <4>1 DEF ToSet
        <4> QED
          BY <1>11, <1>12, <4>2
      <3>3. (\A k \in Effects(h)' : did'[k].ok) => e.ok
        BY <1>7, <1>10
      <3>4. (\E k \in Effects(h)' : ~did'[k].ok) => "exec" \notin DoneBy(h)'
        <4>1. (\E k \in Effects(h)' : ~did'[k].ok) => ~e.ok
          BY <1>14
        <4> QED
          BY <1>3, <1>11, <2>3, <4>1
      <3> QED
        BY <1>2, <3>1, <3>2, <3>3, <3>4 DEF Isolated, m, wanted
    <2>5. \A i \in Done' : Isolated(i)'
      BY <2>2, <2>4
    <2>6. FailuresIsolated'
      BY <2>5, IsolatedNext
    <2> QED
      BY <2>1, <2>6
  <1>16. CASE e.ok /\ job' = [job EXCEPT !.todo = Tail(s)]
    <2>1. job'.id = h /\ job'.todo = Tail(s)
      <3>1. job \in [id : Nat, at : {"idle", "fetch", "run"}, try : Nat, todo : Seq(Stages)]
        BY <1>1 DEF TypeInv
      <3> QED
        BY <1>5, <1>16, <3>1
    <2>2. {stage} \cup ToSet(Tail(s)) = ToSet(s)
      <3>1. \A x \in ToSet(Tail(s)) : x \in ToSet(s)
        <4>1. \A i \in 1 .. Len(s) - 1 : i + 1 \in 1 .. Len(s)
          BY <1>13
        <4> QED
          BY <1>13, <4>1 DEF ToSet
      <3>2. stage \in ToSet(s)
        <4>1. 1 \in 1 .. Len(s)
          BY <1>13
        <4> QED
          BY <1>13, <4>1 DEF ToSet
      <3>3. ASSUME NEW i \in DOMAIN s, i # 1 PROVE s[i] \in ToSet(Tail(s))
        <4>1. i - 1 \in 1 .. Len(s) - 1 /\ (i - 1) + 1 = i
          BY <1>13, <3>3
        <4>2. Tail(s)[i - 1] = s[i]
          BY <1>13, <4>1
        <4> QED
          BY <1>13, <4>1, <4>2 DEF ToSet
      <3>4. \A x \in ToSet(s) : x = stage \/ x \in ToSet(Tail(s))
        BY <1>13, <3>3 DEF ToSet
      <3> QED
        BY <3>1, <3>2, <3>4
    <2>3. DoneBy(h)' \cup ToSet(Tail(s)) = wanted
      BY <1>11, <1>12, <2>2
    <2>4. \A k \in Effects(h)' : did'[k].ok
      BY <1>14, <1>16
    <2>5. HandInv'
      <3>1. Effects(job.id)' = Effects(h)' /\ DoneBy(job.id)' = DoneBy(h)'
        BY <2>1 DEF Effects, DoneBy
      <3> QED
        BY <1>2, <1>12, <2>1, <2>3, <2>4, <3>1 DEF HandInv, m, wanted
    <2>6. ASSUME NEW i \in Done' PROVE Isolated(i)'
      <3>1. i # h /\ i \in Done
        BY <1>2, <1>5, <2>1, <2>6 DEF Done, Ids
      <3>2. Isolated(i)
        BY <3>1, IsolatedIs
      <3> QED
        BY <1>2, <1>9, <3>1, <3>2, SameIsolated
    <2>7. FailuresIsolated'
      BY <2>6, IsolatedNext
    <2> QED
      BY <2>5, <2>7
  <1> QED
    BY <1>3, <1>6, <1>15, <1>16

LEMMA InitHand == Init => HandInv /\ FailuresIsolated
  <1> SUFFICES ASSUME Init PROVE HandInv /\ FailuresIsolated
    OBVIOUS
  <1>1. log = <<>> /\ proc = "up" /\ job = Idle
    BY DEF Init
  <1>2. job.at # "run" /\ Ids = {} /\ proc # "down"
    BY <1>1, IdleIs DEF Ids
  <1>3. Done = {}
    BY <1>2 DEF Done
  <1> QED
    BY <1>2, <1>3, IsolatedIs DEF HandInv

LEMMA NextHand ==
  IInv /\ HandInv /\ FailuresIsolated /\ [Next]_vars => HandInv' /\ FailuresIsolated'
  <1> SUFFICES ASSUME IInv, HandInv, FailuresIsolated, [Next]_vars
               PROVE  HandInv' /\ FailuresIsolated'
    OBVIOUS
  <1>1. /\ Len(log) \in Nat /\ link.pos \in Nat /\ link.first \in Nat
        /\ link \in [up : BOOLEAN, conn : Nat, first : Nat, pos : Nat, held : Nat, lost : SUBSET Nat]
        /\ link.first >= 1 /\ link.pos <= Len(log) + 1
    BY Fields DEF IInv, TypeInv, LinkInv
  <1>2. cmd' = cmd
    BY DEF Next, Own, Publish, Tick, Break, Lose, Exit, Restart, GitHubFails, Connect, Read, Handle,
           saveData, replayData, runExecCommand, Run, List, NextDelivery, GetHookDelivery, Advance, vars
  <1>3. CASE cmd # "client"
    <2>1. LinkInv' /\ TypeInv'
      BY NextIInv DEF IInv
    <2>2. cmd \in {"client", "replay"}
      BY Fields DEF IInv
    <2>3. link'.pos = 1
      BY <1>2, <1>3, <2>1, <2>2, IdleIs DEF LinkInv
    <2>4. Done' = {}
      BY <1>2, <1>3 DEF Done
    <2> QED
      BY <1>2, <1>3, <2>3, <2>4, IsolatedNext DEF HandInv
  <1>4. CASE cmd = "client"
    <2>1. ASSUME NEW m \in Messages, Publish(m) PROVE HandInv' /\ FailuresIsolated'
      <3>1. /\ opts' = opts /\ did' = did /\ job' = job /\ link' = link /\ proc' = proc
            /\ log' = Append(log, [msg |-> m, time |-> now])
        BY <2>1 DEF Publish
      <3>2. [msg |-> m, time |-> now] \in Sent /\ log \in Seq(Sent)
        BY DEF Sent, IInv, TypeInv
      <3>3. Len(log') = Len(log) + 1 /\ \A i \in 1 .. Len(log) : log'[i] = log[i]
        BY <3>1, <3>2, AppendIs
      <3>4. Done' \subseteq Done
        <4> SUFFICES ASSUME NEW i \in Done' PROVE i \in Done
          OBVIOUS
        <4>1. i \in 1 .. Len(log) + 1 /\ i < link.pos
          BY <3>1, <3>3 DEF Done, Ids
        <4>2. i \in Ids
          BY <1>1, <4>1 DEF Ids
        <4> QED
          BY <1>2, <3>1, <4>2 DEF Done
      <3> QED
        BY <1>2, <3>1, <3>3, <3>4, KeepHand DEF HandInv, Ids
    <2>2. CASE Break \/ UNCHANGED vars
      <3>1. /\ opts' = opts /\ did' = did /\ job' = job /\ log' = log /\ proc' = proc
            /\ link' = link \/ link' = [link EXCEPT !.up = FALSE]
        BY <2>2 DEF Break, vars
      <3>2. /\ link'.conn = link.conn /\ link'.first = link.first /\ link'.pos = link.pos
            /\ link'.held = link.held /\ link'.lost = link.lost
        BY <1>1, <3>1
      <3>3. Done' = Done
        BY <1>2, <3>1, <3>2 DEF Done, Ids
      <3> QED
        BY <1>2, <3>1, <3>2, <3>3, KeepHand DEF HandInv
    <2>3. CASE Exit
      <3>1. job' = Idle /\ proc' = "down" /\ link' = [NoLink EXCEPT !.conn = link.conn]
        BY <2>3 DEF Exit
      <3>2. link'.pos = 1
        BY <3>1 DEF NoLink
      <3>3. Done' = {}
        BY <3>1 DEF Done
      <3> QED
        BY <3>1, <3>2, <3>3, NoneHand
    <2>4. CASE Restart
      <3>1. /\ opts' = opts /\ did' = did /\ job' = job /\ log' = log /\ link' = link
            /\ proc = "down" /\ proc' = "up"
        BY <2>4 DEF Restart
      <3>2. link.pos = 1 /\ job = Idle
        BY <3>1 DEF HandInv, IInv, LinkInv, Quiet
      <3>3. Done' = {}
        <4> SUFFICES ASSUME NEW i \in Done' PROVE FALSE
          OBVIOUS
        <4>1. i \in Ids /\ i < 1
          BY <3>1, <3>2 DEF Done, Ids
        <4> QED
          BY <1>1, <4>1 DEF Ids
      <3> QED
        BY <3>1, <3>2, <3>3, NoneHand
    <2>5. CASE Connect
      <3>1. job' = Idle /\ proc' = "up"
        BY <2>5 DEF Connect, Quiet, Running
      <3>2. PICK i : link' = [up |-> TRUE, conn |-> link.conn + 1, first |-> i, pos |-> i, held |-> 0, lost |-> {}]
        BY <2>5 DEF Connect
      <3>3. link'.first = i /\ link'.pos = i /\ link'.first \in Nat
        <4>1. TypeInv'
          BY NextIInv DEF IInv
        <4> QED
          BY <3>2, <4>1 DEF TypeInv
      <3>4. Done' = {}
        <4> SUFFICES ASSUME NEW j \in Done' PROVE FALSE
          OBVIOUS
        <4>1. j \in Ids' /\ i <= j /\ j < i
          BY <3>3 DEF Done
        <4>2. j \in Nat /\ i \in Nat
          BY <3>3, <4>1, <2>5, <1>1 DEF Ids, Connect
        <4> QED
          BY <4>1, <4>2
      <3> QED
        BY <3>1, <3>4, NoneHand
    <2>6. CASE Read
      <3>1. /\ opts' = opts /\ did' = did /\ job' = job /\ log' = log /\ proc' = proc /\ proc = "up"
            /\ link.held = 0 /\ link' = [link EXCEPT !.held = link.pos, !.pos = @ + 1]
        BY <2>6 DEF Read, Running
      <3>2. link' = [up |-> link.up, conn |-> link.conn, first |-> link.first,
                     pos |-> link.pos + 1, held |-> link.pos, lost |-> link.lost]
        BY <1>1, <3>1
      <3>3. /\ link'.conn = link.conn /\ link'.first = link.first /\ link'.pos = link.pos + 1
            /\ link'.held = link.pos /\ link'.lost = link.lost
        BY <3>2
      <3>4. Done' \subseteq Done
        <4> SUFFICES ASSUME NEW i \in Done' PROVE i \in Done
          OBVIOUS
        <4>1. /\ i \in Ids /\ i < link.pos + 1 /\ i # link.pos /\ link.first <= i
              /\ i # job.id /\ i \notin link.lost
          BY <3>1, <3>3 DEF Done, Ids
        <4>2. i \in Nat /\ i # 0
          BY <1>1, <4>1 DEF Ids
        <4>3. i < link.pos
          BY <1>1, <4>1, <4>2
        <4> QED
          BY <1>4, <3>1, <4>1, <4>2, <4>3 DEF Done
      <3> QED
        BY <1>2, <3>1, <3>3, <3>4, KeepHand
    <2>7. CASE Handle
      BY <2>7, HandleHand
    <2>8. CASE saveData \/ replayData \/ runExecCommand
      <3>1. "save" \in Stages /\ "forward" \in Stages /\ "exec" \in Stages
        BY DEF Stages
      <3> QED
        BY <1>4, <2>8, <3>1, RunHand DEF saveData, replayData, runExecCommand
    <2>9. ~(Tick \/ GitHubFails \/ List \/ NextDelivery \/ GetHookDelivery \/ Advance)
      BY <1>4 DEF Tick, GitHubFails, List, NextDelivery, GetHookDelivery, Advance, Running
    <2>10. CASE Lose
      <3>1. /\ opts' = opts /\ did' = did /\ job' = job /\ log' = log /\ proc' = proc /\ proc = "up"
            /\ link.held = 0 /\ link' = [link EXCEPT !.pos = @ + 1, !.lost = @ \cup {link.pos}]
        BY <2>10 DEF Lose, Running
      <3>2. link' = [up |-> link.up, conn |-> link.conn, first |-> link.first, pos |-> link.pos + 1,
                     held |-> link.held, lost |-> link.lost \cup {link.pos}]
        BY <1>1, <3>1
      <3>3. /\ link'.conn = link.conn /\ link'.first = link.first /\ link'.pos = link.pos + 1
            /\ link'.held = link.held /\ link'.lost = link.lost \cup {link.pos}
        BY <3>2
      <3>4. Done' \subseteq Done
        <4> SUFFICES ASSUME NEW i \in Done' PROVE i \in Done
          OBVIOUS
        <4>1. /\ i \in Ids /\ i < link.pos + 1 /\ i # link.pos /\ link.first <= i
              /\ i # job.id /\ i \notin link.lost /\ i # link.held
          BY <3>1, <3>3 DEF Done, Ids
        <4>2. i < link.pos
          BY <1>1, <4>1 DEF Ids
        <4> QED
          BY <1>4, <3>1, <4>1, <4>2 DEF Done
      <3> QED
        BY <1>2, <3>1, <3>3, <3>4, KeepHand
    <2> QED
      BY <2>1, <2>2, <2>3, <2>4, <2>5, <2>6, <2>7, <2>8, <2>9, <2>10 DEF Next, Own
  <1> QED
    BY <1>3, <1>4

\* A failure of the client stays with its message: whatever fails or breaks
\* meanwhile, every message of the connection that the callback (clientSetup) is
\* done with and could open had every step its options ask for, up to the first
\* failure to save or forward, and nothing sealed for another had any.
THEOREM FailuresStay == Spec => []FailuresIsolated
  <1>1. Init => HandInv /\ FailuresIsolated
    BY InitHand
  <1>2. IInv /\ HandInv /\ FailuresIsolated /\ [Next]_vars => HandInv' /\ FailuresIsolated'
    BY NextHand
  <1> QED
    BY <1>1, <1>2, Inductive, PTL DEF Spec

-----------------------------------------------------------------------------
(* The type invariant.                                                     *)

\* What ClientTypeOK says beyond IInv.
RestInv ==
  /\ now <= MaxTime /\ since <= now + 1
  /\ job.at # "run" => job.todo = <<>>
  /\ link.first <= link.pos
  /\ \A a \in DOMAIN batch.todo : batch.todo[a] \in Ids

\* A pipeline has at most three steps left.
LEMMA RisingShort ==
  ASSUME NEW c \in {"client", "replay"}, NEW s \in Seq(Stages), Rising(c, s)
  PROVE  Len(s) \in 0 .. 3
  <1>1. Len(s) \in Nat /\ DOMAIN s = 1 .. Len(s) /\ \A i \in 1 .. Len(s) : s[i] \in Stages
    OBVIOUS
  <1>2. CASE Len(s) > 3
    <2>1. 1 \in DOMAIN s /\ 2 \in DOMAIN s /\ 3 \in DOMAIN s /\ 4 \in DOMAIN s
      BY <1>1, <1>2
    <2>2. /\ Rank(c, s[1]) < Rank(c, s[2]) /\ Rank(c, s[2]) < Rank(c, s[3])
          /\ Rank(c, s[3]) < Rank(c, s[4])
      BY <2>1 DEF Rising
    <2>3. /\ Rank(c, s[1]) \in 1 .. 3 /\ Rank(c, s[2]) \in 1 .. 3
          /\ Rank(c, s[3]) \in 1 .. 3 /\ Rank(c, s[4]) \in 1 .. 3
      BY <1>1, <2>1, RankRange
    <2> QED
      BY <2>2, <2>3
  <1> QED
    BY <1>1, <1>2

LEMMA InitRest == Init => RestInv
  <1> SUFFICES ASSUME Init PROVE RestInv
    OBVIOUS
  <1>1. now = 0 /\ since \in {0, 1} /\ job = Idle /\ link = NoLink /\ batch = NoBatch
    BY DEF Init
  <1>2. job.todo = <<>> /\ link.first <= link.pos
    BY <1>1, IdleIs DEF Idle
  <1>3. DOMAIN batch.todo = {}
    BY <1>1, IdleIs
  <1> QED
    BY <1>1, <1>2, <1>3, ClientAssumption DEF RestInv

\* The times a step leaves.
LEMMA NextTimes ==
  ASSUME IInv, RestInv, [Next]_vars
  PROVE  now' <= MaxTime /\ since' <= now' + 1
  <1>1. now \in Nat /\ since \in Nat /\ MaxTime \in Nat
    BY ClientAssumption DEF IInv, TypeInv
  <1>2. CASE Tick
    <2>1. now' = now + 1 /\ now < MaxTime /\ since' = since
      BY <1>2 DEF Tick
    <2> QED
      BY <1>1, <2>1 DEF RestInv
  <1>3. CASE Advance
    <2>1. now' = now /\ since' = log[batch.last].time + 1 /\ batch.last \in Ids
      BY <1>3, AdvanceStep DEF Advance
    <2>2. log[batch.last].time \in Nat /\ log[batch.last].time <= now
      BY <2>1, Fields DEF IInv, LogInv
    <2> QED
      BY <1>1, <2>1, <2>2 DEF RestInv
  <1>4. CASE ~Tick /\ ~Advance
    <2>1. now' = now /\ since' = since
      BY <1>4 DEF Next, Own, Publish, Break, Lose, Exit, Restart, GitHubFails, Connect, Read, Handle,
           saveData, replayData, runExecCommand, Run, List, NextDelivery, GetHookDelivery, vars
    <2> QED
      BY <2>1 DEF RestInv
  <1> QED
    BY <1>2, <1>3, <1>4

\* The job a step leaves.
LEMMA NextJob ==
  ASSUME IInv, RestInv, [Next]_vars
  PROVE  job'.at # "run" => job'.todo = <<>>
  <1>1. Idle.todo = <<>>
    BY DEF Idle
  <1>2. /\ job \in [id : Nat, at : {"idle", "fetch", "run"}, try : Nat, todo : Seq(Stages)]
        /\ cmd \in {"client", "replay"}
    BY Fields DEF IInv, TypeInv
  <1>3. CASE Handle
    <2>1. job' = Idle \/ (job' = Begin(link.held) /\ link.held # 0)
      BY <1>3 DEF Handle
    <2>2. link.held \in Nat
      BY Fields DEF IInv
    <2>3. link.held # 0 => Begin(link.held) = Idle \/ Begin(link.held).at = "run"
      <3>1. link.held # 0 => link.held \in Nat \ {0}
        BY <2>2
      <3> QED
        BY <1>2, <3>1, BeginIs
    <2> QED
      BY <1>1, <2>1, <2>3
  <1>4. CASE GetHookDelivery
    <2>1. /\ job' = [job EXCEPT !.try = @ + 1] \/ job' = Begin(job.id)
          /\ job.at = "fetch"
      BY <1>4 DEF GetHookDelivery
    <2>2. job.id \in Nat \ {0}
      BY <2>1, Fields DEF IInv, JobInv
    <2>3. CASE job' = [job EXCEPT !.try = @ + 1]
      <3>1. job'.todo = job.todo
        BY <1>2, <2>3
      <3> QED
        BY <2>1, <3>1 DEF RestInv
    <2>4. CASE job' = Begin(job.id)
      BY <1>1, <1>2, <2>2, <2>4, BeginIs
    <2> QED
      BY <2>1, <2>3, <2>4
  <1>5. ASSUME NEW stage \in Stages, Run(stage) PROVE job'.at # "run" => job'.todo = <<>>
    <2>1. job' = Idle \/ job' = [job EXCEPT !.todo = Tail(job.todo)]
      BY <1>5, RunIs
    <2>2. job.at = "run"
      BY <1>5, RunIs
    <2>3. CASE job' = [job EXCEPT !.todo = Tail(job.todo)]
      BY <1>2, <2>2, <2>3
    <2> QED
      BY <1>1, <2>1, <2>3
  <1>6. CASE saveData \/ replayData \/ runExecCommand
    <2>1. "save" \in Stages /\ "forward" \in Stages /\ "exec" \in Stages
      BY DEF Stages
    <2> QED
      BY <1>5, <1>6, <2>1 DEF saveData, replayData, runExecCommand
  <1>7. CASE NextDelivery
    <2>1. job' = [id |-> Head(batch.todo), at |-> "fetch", try |-> 1, todo |-> <<>>]
      BY <1>7 DEF NextDelivery
    <2> QED
      BY <2>1
  <1>8. CASE Exit \/ GitHubFails
    BY <1>1, <1>8 DEF Exit, GitHubFails
  <1>9. CASE \/ \E m \in Messages : Publish(m)
             \/ Tick \/ Break \/ Lose \/ Restart \/ Connect \/ Read \/ List \/ Advance
             \/ UNCHANGED vars
    <2>1. job' = job
      BY <1>9 DEF Publish, Tick, Break, Lose, Restart, Connect, Read, List, Advance, vars
    <2> QED
      BY <2>1 DEF RestInv
  <1> QED
    BY <1>3, <1>4, <1>6, <1>7, <1>8, <1>9 DEF Next, Own

\* The connection a step leaves.
LEMMA NextLink ==
  ASSUME IInv, RestInv, [Next]_vars
  PROVE  link'.first <= link'.pos
  <1>1. /\ link \in [up : BOOLEAN, conn : Nat, first : Nat, pos : Nat, held : Nat, lost : SUBSET Nat]
        /\ link.first \in Nat /\ link.pos \in Nat /\ Len(log) \in Nat
    BY Fields DEF IInv, TypeInv
  <1>2. CASE Break \/ Handle
    <2>1. link' = [link EXCEPT !.up = FALSE] \/ link' = [link EXCEPT !.held = 0]
      BY <1>2 DEF Break, Handle
    <2>2. link'.first = link.first /\ link'.pos = link.pos
      BY <1>1, <2>1
    <2> QED
      BY <2>2 DEF RestInv
  <1>3. CASE Exit
    <2>1. link' = [up |-> FALSE, conn |-> link.conn, first |-> 1, pos |-> 1, held |-> 0, lost |-> {}]
      BY <1>3 DEF Exit, NoLink
    <2> QED
      BY ONLY <2>1
  <1>4. CASE Connect
    <2>1. PICK i : link' = [up |-> TRUE, conn |-> link.conn + 1, first |-> i, pos |-> i, held |-> 0, lost |-> {}]
      BY <1>4 DEF Connect
    <2>2. link'.first = i /\ link'.pos = i
      BY <2>1
    <2>3. link'.first \in Nat
      BY NextIInv, <2>2 DEF IInv, TypeInv
    <2> QED
      BY <2>2, <2>3
  <1>5. CASE Read
    <2>1. link' = [up |-> link.up, conn |-> link.conn, first |-> link.first,
                   pos |-> link.pos + 1, held |-> link.pos, lost |-> link.lost]
      BY <1>1, <1>5 DEF Read
    <2>2. link'.first = link.first /\ link'.pos = link.pos + 1
      BY <2>1
    <2> QED
      BY <1>1, <2>2 DEF RestInv
  <1>6. CASE Lose
    <2>1. link' = [up |-> link.up, conn |-> link.conn, first |-> link.first, pos |-> link.pos + 1,
                   held |-> link.held, lost |-> link.lost \cup {link.pos}]
      BY <1>1, <1>6 DEF Lose
    <2>2. link'.first = link.first /\ link'.pos = link.pos + 1
      BY <2>1
    <2> QED
      BY <1>1, <2>2 DEF RestInv
  <1>7. CASE ~(Break \/ Handle \/ Exit \/ Connect \/ Read \/ Lose)
    <2>1. link' = link
      BY <1>7 DEF Next, Own, Publish, Tick, Restart, GitHubFails,
           saveData, replayData, runExecCommand, Run, List, NextDelivery, GetHookDelivery, Advance, vars
    <2> QED
      BY <2>1 DEF RestInv
  <1> QED
    BY <1>2, <1>3, <1>4, <1>5, <1>6, <1>7

\* The batch a step leaves.
LEMMA NextBatch ==
  ASSUME IInv, RestInv, [Next]_vars
  PROVE  \A a \in DOMAIN batch'.todo : batch'.todo[a] \in Ids'
  <1>1. CASE List \/ NextDelivery \/ Advance
    <2>1. cmd' = "replay" /\ proc' = "up"
      BY <1>1 DEF List, NextDelivery, Advance, Running
    <2>2. TypeInv' /\ BatchInv'
      BY NextIInv DEF IInv
    <2>3. Len(log') \in Nat
      BY <2>2 DEF TypeInv
    <2>4. ASSUME NEW a \in DOMAIN batch'.todo PROVE batch'.todo[a] \in Ids'
      <3>1. batch'.todo[a] \in 1 .. batch'.last
        BY <2>1, <2>2 DEF BatchInv
      <3>2. batch'.last \in Ids' \/ batch'.last = 0
        BY <2>1, <2>2 DEF BatchInv
      <3> QED
        BY <2>3, <3>1, <3>2 DEF Ids
    <2> QED
      BY <2>4
  <1>2. ASSUME NEW m \in Messages, Publish(m)
        PROVE  \A a \in DOMAIN batch'.todo : batch'.todo[a] \in Ids'
    <2>1. batch' = batch /\ log' = Append(log, [msg |-> m, time |-> now])
      BY <1>2 DEF Publish
    <2>2. [msg |-> m, time |-> now] \in Sent /\ log \in Seq(Sent)
      BY DEF Sent, IInv, TypeInv
    <2>3. Len(log) \in Nat /\ Len(log') = Len(log) + 1
      BY <2>1, <2>2, AppendIs
    <2>4. \A i \in Ids : i \in Ids'
      BY <2>3 DEF Ids
    <2> QED
      BY <2>1, <2>4 DEF RestInv
  <1>3. CASE ~(List \/ NextDelivery \/ Advance) /\ ~\E m \in Messages : Publish(m)
    <2>1. batch' = batch /\ log' = log
      BY <1>3 DEF Next, Own, Tick, Break, Lose, Exit, Restart, GitHubFails, Connect, Read, Handle,
           saveData, replayData, runExecCommand, Run, GetHookDelivery, vars
    <2> QED
      BY <2>1 DEF RestInv, Ids
  <1> QED
    BY <1>1, <1>2, <1>3

LEMMA RestType == IInv /\ RestInv => ClientTypeOK
  <1> SUFFICES ASSUME IInv, RestInv PROVE ClientTypeOK
    OBVIOUS
  <1>1. /\ cmd \in {"client", "replay"} /\ Len(log) \in Nat /\ job.todo \in Seq(Stages)
        /\ job.at \in {"idle", "fetch", "run"}
        /\ link.held \in Nat /\ link.pos \in Nat /\ now \in Nat /\ since \in Nat
        /\ proc \in {"up", "down"} /\ MaxTime \in Nat
    BY Fields, ClientAssumption DEF IInv, TypeInv
  <1>2. job.id \in 0 .. Len(log)
    BY DEF IInv, JobInv
  <1>3. Len(job.todo) \in 0 .. 3
    <2>1. CASE job.at = "run"
      BY <1>1, <2>1, RisingShort DEF IInv, JobInv
    <2>2. CASE job.at # "run"
      <3>1. job.todo = <<>>
        BY <2>2 DEF RestInv
      <3>2. Len(<<>>) = 0 /\ 0 \in 0 .. 3
        OBVIOUS
      <3> QED
        BY <3>1, <3>2, Zenon
    <2> QED
      BY <2>1, <2>2
  <1>4. (job.at = "run") = (job.todo # <<>>)
    BY DEF IInv, JobInv, RestInv
  <1>5. link.held \in 0 .. Len(log) /\ link.first <= link.pos /\ link.pos <= Len(log) + 1
    BY <1>1 DEF IInv, LinkInv, RestInv
  <1>6. ToSet(batch.todo) \subseteq Ids
    BY DEF RestInv, ToSet
  <1>7. now \in 0 .. MaxTime /\ since \in 0 .. now + 1
    BY <1>1 DEF RestInv
  <1> QED
    BY <1>1, <1>2, <1>3, <1>4, <1>5, <1>6, <1>7 DEF ClientTypeOK

\* Both commands, whatever is published, breaks or fails: the message in hand and
\* the deliveries of a poll (replayHooks) are ones that were published, the reader
\* does not run ahead of what was, and a poll starts at most a second ahead.
THEOREM ClientTypeCorrect == Spec => []ClientTypeOK
  <1>1. IInv /\ RestInv /\ [Next]_vars => RestInv'
    BY NextTimes, NextJob, NextLink, NextBatch DEF RestInv
  <1> QED
    BY <1>1, InitRest, RestType, Inductive, PTL DEF Spec

=============================================================================
