----------------------------- MODULE IngressProofs -----------------------------
(***************************************************************************)
(* Proofs about Ingress for every number of posts and administrative       *)
(* requests: what the handler's separate reads of the store add up to, and *)
(* what a change that comes between two of them can and cannot do.         *)
(*                                                                         *)
(* A post may act on settings that are no longer stored, so the invariant  *)
(* says of every decision behind it that it held for SOME settings stored  *)
(* since the post arrived.  Such a fact survives every change of the       *)
(* store; when the settings never changed it is a fact about them.         *)
(***************************************************************************)
EXTENDS Ingress, TLAPS

AfterAccess == {"config", "secret", "verify", "mode", "encrypt", "again", "publish"}
AfterConfig == AfterAccess \ {"config"}
AfterVerify == {"mode", "encrypt", "again", "publish"}

Posting == [at : {"access", "token"} \cup AfterAccess, read : BOOLEAN, ch : Channels,
            body : Bodies, ttl : Nat,
            secret : {None} \cup {g.secret : g \in Globals} \cup Secrets,
            payload : {"", "sealed", "plain"},
            seen : SUBSET (Channels \X Globals), quiet : BOOLEAN]

Ending == [body : Bodies, seen : SUBSET (Channels \X Globals), quiet : BOOLEAN,
           how : {"refused", "unavailable", "sealed", "plain"}]

Administering == [at : {"write", "list", "notify", "resolve", "tell"}, change : Changes, ttl : Nat,
                  copy : Channels]

\* The decisions, for the settings x, or for the channel of x and the global
\* configuration of y.
Asks(x) == Settings(x[1]).access = "token"
Admits(x, b) == Grants(Resolve(x[1], x[2]), b)
Secret(x, y) == Resolve(x[1], y[2]).secret
Passed(x, y, z, b) == /\ Signed(Resolve(x[1], y[2]), b)
                      /\ z[2].known => Secret(x, y) # None
Relayed(x, b) == Mode(x[1]) = "e2e" /\ b.cipher

\* What a post has behind it, by its position.
DecisionInv(r) ==
  /\ r.read => \E x \in r.seen : r.ch = x[1]
  /\ r.at = "token" => \E x \in r.seen : Asks(x)
  /\ r.at \in AfterAccess => \E x \in r.seen : Admits(x, r.body)
  /\ r.at \in AfterConfig => \E x, y \in r.seen : ~Refused(x[1], y[2])
  /\ r.at = "verify" => \E x, y \in r.seen : r.secret = Secret(x, y)
  /\ r.at \in AfterVerify => \E x, y, z \in r.seen : Passed(x, y, z, r.body)
  /\ r.at \in {"encrypt", "again"} => \E x \in r.seen : ~Relayed(x, r.body)
  /\ r.at = "publish" =>
       \E x \in r.seen :
         \/ r.payload = "sealed" /\ Relayed(x, r.body)
         \/ /\ r.payload = Encrypt(Settings(x[1]), r.body.cipher)
            /\ r.payload # "error"
            /\ \E y \in r.seen : ~Relayed(y, r.body)

NoAdmin == \A a \in Admins : admin[a] = Idle

\* A post with no administration beside it has seen what is stored.
QuietInv(r) ==
  r.quiet => /\ NoAdmin
             /\ r.seen = {<<channel, global>>}
             /\ r.at \in AfterConfig => r.ttl = Resolve(channel, global).ttl

PostInv(r) == /\ r \in Posting
              /\ <<channel, global>> \in r.seen
              /\ DecisionInv(r)
              /\ QuietInv(r)

LastInv == /\ Ended => last \in Ending /\ (last.quiet => NoAdmin)
           /\ QuietExact /\ ChecksHeld /\ StrictSigned /\ NoPlaintext /\ TTLSettles

AdminInv == \A a \in Admins : admin[a] # Idle =>
              /\ admin[a] \in Administering
              /\ admin[a].at = "write" /\ admin[a].change.op \in Reading => Exists(admin[a].copy)

StoreInv == /\ channel \in Channels /\ global \in Globals /\ ring \in Nat
            /\ post \in [Posts -> {Idle} \cup Posting]
            /\ admin \in [Admins -> {Idle} \cup Administering]

IInv == /\ StoreInv /\ AdminInv /\ LastInv
        /\ \A p \in Posts : Busy(p) => PostInv(post[p])
--------------------------------------------------------------------------------
(* Operators                                                                *)

LEMMA SettingsStored ==
  ASSUME NEW ch \in Channels
  PROVE  Settings(ch) \in Stored
  <1>1. EmptyChannel \in Stored
    BY DEF EmptyChannel, Stored, Secrets
  <1> QED
    BY <1>1 DEF Settings, Channels, Exists

\* What ResolveChannelConfig makes of each field.
LEMMA ResolveFields ==
  ASSUME NEW ch \in Channels, NEW g \in Globals
  PROVE  LET c == Settings(ch)
             r == Resolve(ch, g)
         IN  /\ r.access = c.access /\ r.tokens = c.tokens /\ r.mode = Mode(ch)
             /\ r.mode = c.mode /\ r.key = c.key /\ r.pub = c.pub
             /\ r.secret = (IF c.secret = None THEN g.secret ELSE c.secret)
             /\ r.ttl = (IF c.ttl = 0 THEN g.ttl ELSE c.ttl)
             /\ r.ttl \in Nat
  <1>1. Settings(ch) \in Stored
    BY SettingsStored
  <1>2. g.ttl \in Nat /\ Settings(ch).ttl \in Nat
    BY <1>1, IngressAssumption DEF Stored
  <1> QED
    BY <1>1, <1>2 DEF Resolve, Stored, Mode

\* The same for settings a post has seen.
LEMMA ResolveSeen ==
  ASSUME NEW x \in Channels \X Globals
  PROVE  LET c == Resolve(x[1], x[2])
         IN  /\ c.mode = Mode(x[1]) /\ c.mode \in {"", "server_side", "e2e"}
             /\ c.mode = Settings(x[1]).mode
             /\ c.key = Settings(x[1]).key /\ c.pub = Settings(x[1]).pub
             /\ c.access = Settings(x[1]).access /\ c.tokens = Settings(x[1]).tokens
             /\ c.key \in BOOLEAN /\ c.pub \in BOOLEAN
  <1>1. x[1] \in Channels /\ x[2] \in Globals
    OBVIOUS
  <1> QED
    BY <1>1, ResolveFields, SettingsStored DEF Stored

\* A token that grants access to a channel is one of its tokens for posting.
LEMMA TokenGrants ==
  ASSUME NEW x \in Channels \X Globals, NEW b \in Bodies
  PROVE  /\ TokenOK(x[1], b.token) => Admits(x, b)
         /\ ~Asks(x) => Admits(x, b)
         /\ Asks(x) /\ (b.token = None \/ ~TokenOK(x[1], b.token)) => ~Admits(x, b)
  <1> DEFINE c == Settings(x[1])
  <1>1. Resolve(x[1], x[2]).access = c.access /\ Resolve(x[1], x[2]).tokens = c.tokens
    BY ResolveSeen
  <1>2. c.tokens \subseteq Tokens
    BY SettingsStored DEF Stored
  <1>3. \A t \in Tokens : t.id # None /\ t.scope \in {"produce", "consume", "both"}
    BY IngressAssumption DEF Tokens, None
  <1> HIDE DEF c
  <1> QED
    BY <1>1, <1>2, <1>3 DEF Admits, Grants, TokenOK, Asks, c

\* An edit of a stored channel is a stored channel.
LEMMA PatchedStored ==
  ASSUME NEW ch \in Stored, NEW c \in Changes, c.op \in {"set", "create"}
  PROVE  Patched(ch, c.patch) \in Stored
  <1> DEFINE n == Patched(ch, c.patch)
  <1>1. DOMAIN ch = {"secret", "mode", "key", "pub", "access", "tokens", "ttl"}
    BY DEF Stored
  <1>2. \A f \in DOMAIN ch : n[f] = IF f \in DOMAIN c.patch THEN c.patch[f] ELSE ch[f]
    BY DEF Patched
  <1>3. "secret" \in DOMAIN c.patch => c.patch.secret \in Secrets
    BY DEF Secrets
  <1>4. "tokens" \notin DOMAIN c.patch
    BY IngressAssumption
  <1>5. /\ n["secret"] \in Secrets /\ n["mode"] \in {"", "server_side", "e2e"}
        /\ n["key"] \in BOOLEAN /\ n["pub"] \in BOOLEAN /\ n["access"] \in {"", "token"}
        /\ n["tokens"] \in SUBSET Tokens /\ n["ttl"] \in Nat
    <2>1. /\ ch.secret \in Secrets /\ ch.mode \in {"", "server_side", "e2e"}
          /\ ch.key \in BOOLEAN /\ ch.pub \in BOOLEAN /\ ch.access \in {"", "token"}
          /\ ch.tokens \in SUBSET Tokens /\ ch.ttl \in Nat
      BY DEF Stored
    <2>2. /\ "mode" \in DOMAIN c.patch => c.patch["mode"] \in {"", "server_side", "e2e"}
          /\ "key" \in DOMAIN c.patch => c.patch["key"] \in BOOLEAN
          /\ "pub" \in DOMAIN c.patch => c.patch["pub"] \in BOOLEAN
          /\ "access" \in DOMAIN c.patch => c.patch["access"] \in {"", "token"}
          /\ "ttl" \in DOMAIN c.patch => c.patch["ttl"] \in Nat
      BY IngressAssumption
    <2>3. /\ n["secret"] \in Secrets /\ n["mode"] \in {"", "server_side", "e2e"}
          /\ n["access"] \in {"", "token"} /\ n["ttl"] \in Nat
      BY <1>1, <1>2, <1>3, <2>1, <2>2
    <2>4. n["key"] \in BOOLEAN /\ n["pub"] \in BOOLEAN /\ n["tokens"] \in SUBSET Tokens
      BY <1>1, <1>2, <1>4, <2>1, <2>2
    <2> QED
      BY <2>3, <2>4
  <1>6. n = [secret |-> n["secret"], mode |-> n["mode"], key |-> n["key"], pub |-> n["pub"],
             access |-> n["access"], tokens |-> n["tokens"], ttl |-> n["ttl"]]
    BY <1>1 DEF Patched
  <1>7. n \in Stored
    <2> HIDE DEF n
    <2> QED
      BY <1>5, <1>6 DEF Stored
  <1> QED
    BY <1>7

LEMMA EditedStored ==
  ASSUME NEW ch \in Stored, NEW c \in Changes, c.op \in Reading
  PROVE  Edited(ch, c) \in Stored
  <1>1. CASE c.op = "set"
    BY <1>1, PatchedStored DEF Edited
  <1>2. CASE c.op = "token"
    <2>1. c.token \in Tokens
      BY <1>2 DEF Tokens
    <2> QED
      BY <1>2, <2>1 DEF Edited, Stored
  <1>3. CASE c.op = "revoke"
    BY <1>3 DEF Edited, Stored
  <1> QED
    BY <1>1, <1>2, <1>3 DEF Reading

--------------------------------------------------------------------------------
(* The steps of a post                                                      *)

LEMMA InitIInv == Init => IInv
  <1> SUFFICES ASSUME Init PROVE IInv
    OBVIOUS
  <1>1. StoreInv
    <2>1. EmptyChannel \in Stored
      BY DEF EmptyChannel, Stored, Secrets
    <2> QED
      BY <2>1 DEF Init, StoreInv, Channels
  <1>2. AdminInv
    BY DEF Init, AdminInv
  <1>3. LastInv
    BY DEF Init, LastInv, QuietExact, ChecksHeld, StrictSigned, NoPlaintext, TTLSettles, Accepted, Ended
  <1>4. \A p \in Posts : ~Busy(p)
    BY DEF Init, Busy
  <1> QED
    BY <1>1, <1>2, <1>3, <1>4 DEF IInv

\* A post goes on with the record r.
LEMMA Moved ==
  ASSUME IInv, NEW p \in Posts, NEW r, PostInv(r),
         post' = [post EXCEPT ![p] = r], UNCHANGED <<channel, global, ring, admin, last>>
  PROVE  IInv'
  <1>1. StoreInv'
    BY DEF IInv, StoreInv, PostInv
  <1>2. AdminInv'
    BY DEF IInv, AdminInv
  <1>3. LastInv'
    BY DEF IInv, LastInv, QuietExact, ChecksHeld, StrictSigned, NoPlaintext, TTLSettles, Accepted, Ended,
           NoAdmin
  <1>4. ASSUME NEW q \in Posts, Busy(q)' PROVE PostInv(post[q])'
    <2>1. PostInv(post'[q])
      BY <1>4 DEF IInv, StoreInv, Busy
    <2> QED
      BY <2>1 DEF PostInv, QuietInv, NoAdmin
  <1> QED
    BY <1>1, <1>2, <1>3, <1>4 DEF IInv

\* A post is answered.
LEMMA Answered ==
  ASSUME IInv, NEW p \in Posts, Busy(p), UNCHANGED <<channel, global, admin>>,
         NEW how \in {"refused", "unavailable", "sealed", "plain"}, End(p, how), ring' \in Nat,
         QuietExact', ChecksHeld', StrictSigned', NoPlaintext', TTLSettles'
  PROVE  IInv'
  <1>1. post' = [post EXCEPT ![p] = Idle]
    BY DEF End
  <1>2. StoreInv'
    BY <1>1 DEF IInv, StoreInv
  <1>3. AdminInv'
    BY DEF IInv, AdminInv
  <1>4. LastInv'
    <2>1. PostInv(post[p])
      BY DEF IInv
    <2>2. last' \in Ending /\ (last'.quiet => NoAdmin)
      BY <2>1 DEF PostInv, Posting, Ending, End, QuietInv
    <2> QED
      BY <2>2 DEF LastInv, NoAdmin
  <1>5. ASSUME NEW q \in Posts, Busy(q)' PROVE PostInv(post[q])'
    <2>1. PostInv(post[q]) /\ post'[q] = post[q]
      BY <1>1, <1>5 DEF IInv, StoreInv, Busy
    <2> QED
      BY <2>1 DEF PostInv, QuietInv, NoAdmin
  <1> QED
    BY <1>2, <1>3, <1>4, <1>5 DEF IInv

\* A refusal needs a reason only when the settings stayed the same.
LEMMA Refuses ==
  ASSUME IInv, NEW p \in Posts, Busy(p), UNCHANGED <<channel, global, ring, admin>>,
         End(p, "refused"),
         \A x \in post[p].seen : post[p].seen = {x}
           => Answer(x[1], x[2], post[p].body) = "refused"
  PROVE  IInv'
  <1>1. last' = [body |-> post[p].body, seen |-> post[p].seen,
                 quiet |-> post[p].quiet, how |-> "refused"]
    BY DEF End
  <1>2. QuietExact'
    BY <1>1 DEF QuietExact
  <1>3. ChecksHeld' /\ StrictSigned' /\ NoPlaintext' /\ TTLSettles'
    BY <1>1 DEF ChecksHeld, StrictSigned, NoPlaintext, TTLSettles, Accepted
  <1>4. ring' \in Nat
    BY DEF IInv, StoreInv
  <1> QED
    BY <1>2, <1>3, <1>4, Answered

LEMMA Arrives ==
  ASSUME IInv, NEW p \in Posts, PostArrives(p)
  PROVE  IInv'
  <1>1. PICK b \in Bodies, q \in BOOLEAN :
          /\ q => NoAdmin
          /\ post' = [post EXCEPT ![p] = [at |-> "access", read |-> FALSE, ch |-> NoChannel,
                        body |-> b, ttl |-> 0, secret |-> None,
                        payload |-> "", seen |-> {<<channel, global>>}, quiet |-> q]]
    <2>1. PICK b \in Bodies :
            post' = [post EXCEPT ![p] = [at |-> "access", read |-> FALSE, ch |-> NoChannel,
                        body |-> b, ttl |-> 0, secret |-> None,
                      payload |-> "", seen |-> {<<channel, global>>}, quiet |-> NoAdmin]]
      BY DEF PostArrives, NoAdmin
    <2>2. NoAdmin \in BOOLEAN
      BY DEF NoAdmin
    <2> QED
      BY <2>1, <2>2, Zenon
  <1> DEFINE r == [at |-> "access", read |-> FALSE, ch |-> NoChannel,
                        body |-> b, ttl |-> 0, secret |-> None,
                   payload |-> "", seen |-> {<<channel, global>>}, quiet |-> q]
  <1>2. channel \in Channels /\ global \in Globals
    BY DEF IInv, StoreInv
  <1>3. r \in Posting
    BY <1>2 DEF Posting, Channels
  <1>4. DecisionInv(r)
    BY DEF DecisionInv, AfterAccess, AfterConfig, AfterVerify
  <1>5. QuietInv(r)
    BY <1>1 DEF QuietInv, AfterConfig, AfterAccess
  <1>6. PostInv(r)
    BY <1>3, <1>4, <1>5 DEF PostInv
  <1> HIDE DEF r
  <1>7. post' = [post EXCEPT ![p] = r]
    BY <1>1 DEF r
  <1> QED
    BY <1>6, <1>7, Moved DEF PostArrives

\* The record of a post that only moves.
LEMMA Reaches ==
  ASSUME IInv, NEW p \in Posts, Busy(p), NEW at \in {"token"} \cup AfterAccess,
         Goto(p, at), UNCHANGED <<channel, global, ring, admin, last>>,
         DecisionInv(To(post[p], at)),
         at \in AfterConfig => post[p].at \in AfterConfig
  PROVE  IInv'
  <1> DEFINE r == To(post[p], at)
  <1>1. PostInv(post[p])
    BY DEF IInv
  <1>2. post' = [post EXCEPT ![p] = r]
    BY DEF Goto
  <1>3. /\ r \in Posting /\ r.at = at /\ ~r.read /\ r.seen = post[p].seen
        /\ r.quiet = post[p].quiet /\ r.ttl = post[p].ttl
    BY <1>1 DEF PostInv, Posting, To, Channels
  <1> HIDE DEF r
  <1>4. QuietInv(r)
    BY <1>1, <1>3 DEF PostInv, QuietInv
  <1>5. PostInv(r)
    BY <1>1, <1>3, <1>4 DEF PostInv, r
  <1> QED
    BY <1>2, <1>5, Moved

\* What is stored now is among what the post has seen, and what it read was.
LEMMA Now ==
  ASSUME IInv, NEW p \in Posts, Busy(p)
  PROVE  /\ PostInv(post[p]) /\ post[p] \in Posting /\ channel \in Channels /\ global \in Globals
         /\ DecisionInv(post[p]) /\ post[p].body \in Bodies /\ post[p].ch \in Channels
         /\ post[p].seen \in SUBSET (Channels \X Globals)
         /\ <<channel, global>> \in post[p].seen
         /\ \A x \in post[p].seen : post[p].seen = {x} =>
              /\ x[1] = channel /\ x[2] = global
              /\ post[p].read => post[p].ch = channel
  <1>1. /\ PostInv(post[p]) /\ post[p] \in Posting /\ channel \in Channels /\ global \in Globals
        /\ DecisionInv(post[p]) /\ <<channel, global>> \in post[p].seen
    BY DEF IInv, PostInv, StoreInv
  <1>2. /\ post[p].body \in Bodies /\ post[p].ch \in Channels
        /\ post[p].seen \in SUBSET (Channels \X Globals)
    BY <1>1 DEF Posting
  <1>3. ASSUME NEW x \in post[p].seen, post[p].seen = {x}
        PROVE  /\ x[1] = channel /\ x[2] = global
               /\ post[p].read => post[p].ch = channel
    <2>1. x = <<channel, global>>
      BY <1>1, <1>3
    <2>2. post[p].read => \E y \in post[p].seen : post[p].ch = y[1]
      BY <1>1 DEF DecisionInv
    <2> QED
      BY <1>3, <2>1, <2>2
  <1> QED
    BY <1>1, <1>2, <1>3

\* A decision a post has behind it stays behind it.
LEMMA Keeps ==
  ASSUME NEW r \in Posting, NEW n \in Posting, DecisionInv(r),
         n.seen = r.seen, n.body = r.body
  PROVE  /\ r.at \in AfterAccess => \E x \in n.seen : Admits(x, n.body)
         /\ r.at \in AfterConfig => \E x, y \in n.seen : ~Refused(x[1], y[2])
         /\ r.at \in AfterVerify => \E x, y, z \in n.seen : Passed(x, y, z, n.body)
         /\ r.at \in {"encrypt", "again"} => \E x \in n.seen : ~Relayed(x, n.body)
  BY DEF DecisionInv

\* The fields of a post on its way to another decision.
LEMMA ToFields ==
  ASSUME NEW r \in Posting, NEW at \in {"access", "token"} \cup AfterAccess
  PROVE  /\ To(r, at) \in Posting /\ To(r, at).at = at /\ ~To(r, at).read
         /\ To(r, at).seen = r.seen /\ To(r, at).body = r.body /\ To(r, at).quiet = r.quiet
         /\ To(r, at).ttl = r.ttl /\ To(r, at).secret = r.secret /\ To(r, at).payload = r.payload
  BY DEF To, Posting, Channels

LEMMA GetChannelStep ==
  ASSUME IInv, NEW p \in Posts, GetChannel(p)
  PROVE  IInv'
  <1>1. Busy(p) /\ UNCHANGED <<channel, global, ring, admin, last>>
    BY DEF GetChannel
  <1>2. /\ PostInv(post[p]) /\ post[p] \in Posting /\ channel \in Channels /\ global \in Globals
        /\ DecisionInv(post[p]) /\ <<channel, global>> \in post[p].seen
    BY <1>1, Now
  <1> DEFINE r == [post[p] EXCEPT !.read = TRUE, !.ch = channel]
  <1>3. post' = [post EXCEPT ![p] = r]
    BY DEF GetChannel
  <1>4. /\ r \in Posting /\ r.ch = channel /\ r.at = post[p].at /\ r.seen = post[p].seen
        /\ r.body = post[p].body /\ r.secret = post[p].secret /\ r.payload = post[p].payload
        /\ r.quiet = post[p].quiet /\ r.ttl = post[p].ttl
    BY <1>2 DEF Posting
  <1> HIDE DEF r
  <1>5. DecisionInv(r)
    <2>1. \E x \in r.seen : r.ch = x[1]
      BY <1>2, <1>4
    <2> QED
      BY <1>2, <1>4, <2>1 DEF DecisionInv
  <1>6. QuietInv(r)
    BY <1>2, <1>4 DEF PostInv, QuietInv
  <1>7. PostInv(r)
    BY <1>2, <1>4, <1>5, <1>6 DEF PostInv
  <1> QED
    BY <1>1, <1>3, <1>7, Moved

LEMMA CheckAccessStep ==
  ASSUME IInv, NEW p \in Posts, CheckAccess(p)
  PROVE  IInv'
  <1>1. Busy(p) /\ post[p].at = "access" /\ post[p].read /\ UNCHANGED <<channel, global, ring, admin>>
    BY DEF CheckAccess, At, Has
  <1>2. /\ post[p] \in Posting /\ DecisionInv(post[p]) /\ post[p].body \in Bodies
        /\ post[p].seen \in SUBSET (Channels \X Globals)
    BY <1>1, Now
  <1>3. PICK x \in post[p].seen : post[p].ch = x[1]
    BY <1>1, <1>2 DEF DecisionInv
  <1>4. x \in Channels \X Globals
    BY <1>2
  <1> USE DEF AfterAccess, AfterConfig, AfterVerify
  <1>5. CASE Settings(post[p].ch).access # "token" /\ Goto(p, "config") /\ UNCHANGED last
    <2>1. Admits(x, post[p].body)
      BY <1>2, <1>3, <1>4, <1>5, TokenGrants DEF Asks
    <2>2. DecisionInv(To(post[p], "config"))
      BY <1>2, <2>1, ToFields DEF DecisionInv
    <2> QED
      BY <1>1, <1>5, <2>2, Reaches
  <1>6. CASE Settings(post[p].ch).access = "token" /\ Goto(p, "token") /\ UNCHANGED last
    <2>1. Asks(x)
      BY <1>3, <1>6 DEF Asks
    <2>2. DecisionInv(To(post[p], "token"))
      BY <1>2, <2>1, ToFields DEF DecisionInv
    <2> QED
      BY <1>1, <1>6, <2>2, Reaches
  <1>7. CASE /\ \/ Refused(post[p].ch, global)
                \/ Settings(post[p].ch).access = "token" /\ post[p].body.token = None
             /\ End(p, "refused")
    <2>1. ASSUME NEW y \in post[p].seen, post[p].seen = {y}
          PROVE  Answer(y[1], y[2], post[p].body) = "refused"
      <3>1. y = x /\ y[2] = global
        BY <1>1, <2>1, Now
      <3>2. CASE Refused(x[1], global)
        BY <3>1, <3>2 DEF Refused, Answer
      <3>3. CASE Settings(x[1]).access = "token" /\ post[p].body.token = None
        <4>1. ~Admits(x, post[p].body)
          BY <1>2, <1>4, <3>3, TokenGrants DEF Asks
        <4> QED
          BY <3>1, <4>1 DEF Admits, Answer
      <3> QED
        BY <1>3, <1>7, <3>2, <3>3
    <2> QED
      BY <1>1, <1>7, <2>1, Refuses
  <1> QED
    BY <1>5, <1>6, <1>7 DEF CheckAccess

LEMMA TokenStep ==
  ASSUME IInv, NEW p \in Posts, ValidateChannelToken(p)
  PROVE  IInv'
  <1>1. Busy(p) /\ post[p].at = "token" /\ UNCHANGED <<channel, global, ring, admin>>
    BY DEF ValidateChannelToken, At
  <1>2. /\ post[p] \in Posting /\ DecisionInv(post[p]) /\ post[p].body \in Bodies
        /\ channel \in Channels /\ global \in Globals /\ <<channel, global>> \in post[p].seen
    BY <1>1, Now
  <1> DEFINE x == <<channel, global>>
  <1>3. x \in Channels \X Globals /\ x[1] = channel /\ x[2] = global
    BY <1>2
  <1> HIDE DEF x
  <1>4. CASE TokenOK(channel, post[p].body.token) /\ Goto(p, "config") /\ UNCHANGED last
    <2>1. Admits(x, post[p].body)
      BY <1>2, <1>3, <1>4, TokenGrants
    <2>2. DecisionInv(To(post[p], "config"))
      BY <1>2, <2>1, ToFields DEF x, DecisionInv, AfterAccess, AfterConfig, AfterVerify
    <2> QED
      BY <1>1, <1>4, <2>2, Reaches DEF AfterAccess, AfterConfig
  <1>5. CASE ~TokenOK(channel, post[p].body.token) /\ End(p, "refused")
    <2>1. ASSUME NEW y \in post[p].seen, post[p].seen = {y}
          PROVE  Answer(y[1], y[2], post[p].body) = "refused"
      <3>1. y = x /\ Asks(x)
        BY <1>1, <1>2, <2>1 DEF x, DecisionInv
      <3>2. ~Admits(x, post[p].body)
        BY <1>2, <1>3, <1>5, <3>1, TokenGrants
      <3> QED
        BY <3>1, <3>2 DEF Answer, Admits
    <2> QED
      BY <1>1, <1>5, <2>1, Refuses
  <1> QED
    BY <1>4, <1>5 DEF ValidateChannelToken

LEMMA ConfigStep ==
  ASSUME IInv, NEW p \in Posts, ResolveConfig(p)
  PROVE  IInv'
  <1>1. Busy(p) /\ post[p].at = "config" /\ post[p].read /\ UNCHANGED <<channel, global, ring, admin>>
    BY DEF ResolveConfig, At, Has
  <1>2. /\ PostInv(post[p]) /\ post[p] \in Posting /\ channel \in Channels /\ global \in Globals
        /\ DecisionInv(post[p]) /\ <<channel, global>> \in post[p].seen /\ post[p].ch \in Channels
    BY <1>1, Now
  <1>3. PICK x \in post[p].seen : post[p].ch = x[1]
    BY <1>1, <1>2 DEF DecisionInv
  <1>4. CASE ~Refused(post[p].ch, global) /\ UNCHANGED last
    <2> DEFINE t == Resolve(post[p].ch, global).ttl
               s == To(post[p], "secret")
               r == [s EXCEPT !.ttl = t]
    <2>1. post' = [post EXCEPT ![p] = r]
      BY <1>1, <1>4 DEF ResolveConfig, End, IInv, StoreInv
    <2>2. t \in Nat
      BY <1>2, ResolveFields
    <2>3. /\ s \in Posting /\ s.at = "secret" /\ ~s.read /\ s.seen = post[p].seen
          /\ s.body = post[p].body /\ s.quiet = post[p].quiet
      BY <1>2, ToFields DEF AfterAccess
    <2> HIDE DEF t, s
    <2>4. /\ r \in Posting /\ r.at = "secret" /\ ~r.read /\ r.seen = post[p].seen
          /\ r.body = post[p].body /\ r.quiet = post[p].quiet /\ r.ttl = t
      BY <2>2, <2>3 DEF Posting
    <2> HIDE DEF r
    <2>5. DecisionInv(r)
      <3>1. \E y \in r.seen : Admits(y, r.body)
        BY <1>1, <1>2, <2>4, Keeps DEF AfterAccess
      <3>2. \E y, z \in r.seen : ~Refused(y[1], z[2])
        BY <1>2, <1>3, <1>4, <2>4
      <3> QED
        BY <2>4, <3>1, <3>2 DEF DecisionInv, AfterAccess, AfterConfig, AfterVerify
    <2>6. QuietInv(r)
      <3>1. post[p].quiet => post[p].ch = channel
        BY <1>1, <1>2, Now DEF PostInv, QuietInv
      <3> QED
        BY <1>2, <2>4, <3>1 DEF t, PostInv, QuietInv
    <2>7. PostInv(r)
      BY <1>2, <2>4, <2>5, <2>6 DEF PostInv
    <2> QED
      BY <1>1, <1>4, <2>1, <2>7, Moved
  <1>5. CASE Refused(post[p].ch, global) /\ End(p, "refused")
    <2>1. ASSUME NEW y \in post[p].seen, post[p].seen = {y}
          PROVE  Answer(y[1], y[2], post[p].body) = "refused"
      BY <1>1, <1>5, <2>1, Now DEF Answer, Refused
    <2> QED
      BY <1>1, <1>5, <2>1, Refuses
  <1> QED
    BY <1>4, <1>5 DEF ResolveConfig

LEMMA SecretStep ==
  ASSUME IInv, NEW p \in Posts, ResolveSecret(p)
  PROVE  IInv'
  <1>1. /\ Busy(p) /\ post[p].at = "secret" /\ post[p].read
        /\ UNCHANGED <<channel, global, ring, admin, last>>
    BY DEF ResolveSecret, At, Has
  <1>2. /\ PostInv(post[p]) /\ post[p] \in Posting /\ channel \in Channels /\ global \in Globals
        /\ DecisionInv(post[p]) /\ <<channel, global>> \in post[p].seen /\ post[p].ch \in Channels
    BY <1>1, Now
  <1>3. PICK x \in post[p].seen : post[p].ch = x[1]
    BY <1>1, <1>2 DEF DecisionInv
  <1> DEFINE t == Resolve(post[p].ch, global).secret
             s == To(post[p], "verify")
             r == [s EXCEPT !.secret = t]
  <1>4. post' = [post EXCEPT ![p] = r]
    BY <1>1 DEF ResolveSecret
  <1>5. t \in {None} \cup {g.secret : g \in Globals} \cup Secrets
    <2>1. t = global.secret \/ t \in Secrets
      BY <1>2, ResolveFields, SettingsStored DEF Stored
    <2>2. global.secret \in {g.secret : g \in Globals}
      BY <1>2
    <2> QED
      BY <2>1, <2>2
  <1>6. /\ s \in Posting /\ s.at = "verify" /\ ~s.read /\ s.seen = post[p].seen
        /\ s.body = post[p].body /\ s.quiet = post[p].quiet /\ s.ttl = post[p].ttl
    BY <1>2, ToFields DEF AfterAccess
  <1>7. t = Secret(x, <<channel, global>>)
    BY <1>3 DEF Secret
  <1> HIDE DEF t, s
  <1>8. /\ r \in Posting /\ r.at = "verify" /\ ~r.read /\ r.seen = post[p].seen
        /\ r.body = post[p].body /\ r.quiet = post[p].quiet /\ r.ttl = post[p].ttl /\ r.secret = t
    BY <1>5, <1>6 DEF Posting
  <1> HIDE DEF r
  <1>9. DecisionInv(r)
    <2>1. /\ \E y \in r.seen : Admits(y, r.body)
          /\ \E y, z \in r.seen : ~Refused(y[1], z[2])
      BY <1>1, <1>2, <1>8, Keeps DEF AfterAccess, AfterConfig
    <2>2. \E y, z \in r.seen : r.secret = Secret(y, z)
      BY <1>2, <1>3, <1>7, <1>8
    <2> QED
      BY <1>8, <2>1, <2>2 DEF DecisionInv, AfterVerify
  <1>10. QuietInv(r)
    BY <1>1, <1>2, <1>8 DEF PostInv, QuietInv, AfterConfig, AfterAccess
  <1>11. PostInv(r)
    BY <1>2, <1>8, <1>9, <1>10 DEF PostInv
  <1> QED
    BY <1>1, <1>4, <1>11, Moved

LEMMA VerifyStep ==
  ASSUME IInv, NEW p \in Posts, VerifySignature(p)
  PROVE  IInv'
  <1>1. Busy(p) /\ post[p].at = "verify" /\ UNCHANGED <<channel, global, ring, admin>>
    BY DEF VerifySignature, At
  <1>2. /\ PostInv(post[p]) /\ post[p] \in Posting /\ channel \in Channels /\ global \in Globals
        /\ DecisionInv(post[p]) /\ <<channel, global>> \in post[p].seen
    BY <1>1, Now
  <1> DEFINE ok == NoSecretOK(post[p].secret, global) /\ SignatureOK(post[p].secret, post[p].body.sig)
  <1>3. PICK x \in post[p].seen, y \in post[p].seen : post[p].secret = Secret(x, y)
    BY <1>1, <1>2 DEF DecisionInv
  <1>4. CASE ok /\ Goto(p, "mode") /\ UNCHANGED last
    <2>1. Passed(x, y, <<channel, global>>, post[p].body)
      BY <1>3, <1>4 DEF Passed, Signed, Secret, SignatureOK, NoSecretOK
    <2> DEFINE r == To(post[p], "mode")
    <2>2. /\ r \in Posting /\ r.at = "mode" /\ ~r.read /\ r.seen = post[p].seen
          /\ r.body = post[p].body
      BY <1>2, ToFields DEF AfterAccess
    <2> HIDE DEF r
    <2>3. /\ \E u \in r.seen : Admits(u, r.body)
          /\ \E u, v \in r.seen : ~Refused(u[1], v[2])
      BY <1>1, <1>2, <2>2, Keeps DEF AfterAccess, AfterConfig
    <2>4. \E u, v, w \in r.seen : Passed(u, v, w, r.body)
      BY <1>2, <1>3, <2>1, <2>2
    <2>5. DecisionInv(r)
      BY <2>2, <2>3, <2>4 DEF DecisionInv
    <2> QED
      BY <1>1, <1>4, <2>5, Reaches DEF r, AfterAccess, AfterConfig
  <1>5. CASE ~ok /\ End(p, "refused")
    <2>1. ASSUME NEW z \in post[p].seen, post[p].seen = {z}
          PROVE  Answer(z[1], z[2], post[p].body) = "refused"
      <3>1. z = x /\ z = y /\ z[1] = channel /\ z[2] = global
        BY <1>1, <2>1, Now
      <3>2. post[p].secret = Resolve(z[1], z[2]).secret
        BY <1>3, <3>1 DEF Secret
      <3> QED
        BY <1>5, <3>1, <3>2 DEF Answer, Signed, NoSecretOK, SignatureOK
    <2> QED
      BY <1>1, <1>5, <2>1, Refuses
  <1> QED
    BY <1>4, <1>5 DEF VerifySignature

LEMMA ModeStep ==
  ASSUME IInv, NEW p \in Posts, ReadMode(p)
  PROVE  IInv'
  <1>1. Busy(p) /\ post[p].at = "mode" /\ UNCHANGED <<channel, global, ring, admin, last>>
    BY DEF ReadMode, At
  <1>2. /\ PostInv(post[p]) /\ post[p] \in Posting /\ channel \in Channels /\ global \in Globals
        /\ DecisionInv(post[p]) /\ <<channel, global>> \in post[p].seen
    BY <1>1, Now
  <1> DEFINE s == To(post[p], "publish")
             e == To(post[p], "encrypt")
             n == [s EXCEPT !.payload = "sealed"]
             r == IF Relayed(<<channel, global>>, post[p].body) THEN n ELSE e
  <1>3. post' = [post EXCEPT ![p] = r]
    BY <1>1 DEF ReadMode, IInv, StoreInv, Relayed
  <1>4. /\ s \in Posting /\ s.at = "publish" /\ ~s.read /\ s.seen = post[p].seen
        /\ s.body = post[p].body /\ s.quiet = post[p].quiet /\ s.ttl = post[p].ttl
        /\ e \in Posting /\ e.at = "encrypt" /\ ~e.read /\ e.seen = post[p].seen
        /\ e.body = post[p].body /\ e.quiet = post[p].quiet /\ e.ttl = post[p].ttl
    BY <1>2, ToFields DEF AfterAccess
  <1> HIDE DEF s, e
  <1>5. /\ n \in Posting /\ n.at = "publish" /\ ~n.read /\ n.seen = post[p].seen
        /\ n.body = post[p].body /\ n.quiet = post[p].quiet /\ n.ttl = post[p].ttl
        /\ n.payload = "sealed"
    BY <1>4 DEF Posting
  <1> HIDE DEF n
  <1>6. /\ r \in Posting /\ ~r.read /\ r.seen = post[p].seen /\ r.body = post[p].body
        /\ r.quiet = post[p].quiet /\ r.ttl = post[p].ttl
        /\ \/ r.at = "publish" /\ r.payload = "sealed" /\ Relayed(<<channel, global>>, post[p].body)
           \/ r.at = "encrypt" /\ ~Relayed(<<channel, global>>, post[p].body)
    BY <1>4, <1>5
  <1> HIDE DEF r
  <1>7. DecisionInv(r)
    <2>1. /\ \E x \in r.seen : Admits(x, r.body)
          /\ \E x, y \in r.seen : ~Refused(x[1], y[2])
          /\ \E x, y, z \in r.seen : Passed(x, y, z, r.body)
      BY <1>1, <1>2, <1>6, Keeps DEF AfterAccess, AfterConfig, AfterVerify
    <2> QED
      BY <1>2, <1>6, <2>1 DEF DecisionInv
  <1>8. QuietInv(r)
    BY <1>1, <1>2, <1>6 DEF PostInv, QuietInv, AfterConfig, AfterAccess
  <1>9. PostInv(r)
    BY <1>2, <1>6, <1>7, <1>8 DEF PostInv
  <1> QED
    BY <1>1, <1>3, <1>9, Moved

\* The encryption policy, applied to the channel of some settings seen.
LEMMA SealedStep ==
  ASSUME IInv, NEW p \in Posts, Busy(p), post[p].at \in {"encrypt", "again"},
         NEW m \in post[p].seen, Sealed(p, Settings(m[1])),
         UNCHANGED <<channel, global, ring, admin>>
  PROVE  IInv'
  <1>1. /\ PostInv(post[p]) /\ post[p] \in Posting /\ channel \in Channels /\ global \in Globals
        /\ DecisionInv(post[p]) /\ m \in Channels \X Globals
    BY Now
  <1> DEFINE res == Encrypt(Settings(m[1]), post[p].body.cipher)
  <1>2. PICK x \in post[p].seen : ~Relayed(x, post[p].body)
    BY <1>1 DEF DecisionInv
  <1>3. CASE res # "error" /\ UNCHANGED last
              /\ post' = [post EXCEPT ![p] = [To(@, "publish") EXCEPT !.payload = res]]
    <2> DEFINE s == To(post[p], "publish")
               r == [s EXCEPT !.payload = res]
    <2>1. post' = [post EXCEPT ![p] = r]
      BY <1>3
    <2>2. res \in {"sealed", "plain"}
      BY <1>3 DEF Encrypt
    <2>3. /\ s \in Posting /\ s.at = "publish" /\ ~s.read /\ s.seen = post[p].seen
          /\ s.body = post[p].body /\ s.quiet = post[p].quiet /\ s.ttl = post[p].ttl
      BY <1>1, ToFields DEF AfterAccess
    <2> HIDE DEF res, s
    <2>4. /\ r \in Posting /\ r.at = "publish" /\ ~r.read /\ r.seen = post[p].seen
          /\ r.body = post[p].body /\ r.quiet = post[p].quiet /\ r.ttl = post[p].ttl
          /\ r.payload = res
      BY <2>2, <2>3 DEF Posting
    <2> HIDE DEF r
    <2>5. DecisionInv(r)
      <3>1. /\ \E u \in r.seen : Admits(u, r.body)
            /\ \E u, v \in r.seen : ~Refused(u[1], v[2])
            /\ \E u, v, w \in r.seen : Passed(u, v, w, r.body)
            /\ \E u \in r.seen : ~Relayed(u, r.body)
        BY <1>1, <2>4, Keeps DEF AfterAccess, AfterConfig, AfterVerify
      <3>2. r.payload = Encrypt(Settings(m[1]), r.body.cipher) /\ r.payload # "error"
        BY <1>3, <2>4 DEF res
      <3> QED
        BY <2>4, <3>1, <3>2 DEF DecisionInv
    <2>6. QuietInv(r)
      BY <1>1, <2>4 DEF PostInv, QuietInv, AfterConfig, AfterAccess
    <2>7. PostInv(r)
      BY <1>1, <2>4, <2>5, <2>6 DEF PostInv
    <2> QED
      BY <1>3, <2>1, <2>7, Moved
  <1>4. CASE res = "error" /\ End(p, "refused")
    <2>1. ASSUME NEW y \in post[p].seen, post[p].seen = {y}
          PROVE  Answer(y[1], y[2], post[p].body) = "refused"
      <3>1. y = x /\ y = m
        BY <1>2, <2>1
      <3>2. LET c == Resolve(m[1], m[2])
            IN  /\ c.mode = Mode(m[1]) /\ c.mode = Settings(m[1]).mode
                /\ c.key = Settings(m[1]).key /\ c.pub = Settings(m[1]).pub
        BY <1>1, ResolveSeen
      <3>3. ~(Resolve(m[1], m[2]).mode = "e2e" /\ post[p].body.cipher)
        BY <1>2, <3>1, <3>2 DEF Relayed
      <3>4. Settings(m[1]).mode \in {"server_side", "e2e"}
        BY <1>4 DEF Encrypt
      <3> QED
        BY <1>4, <3>1, <3>2, <3>3, <3>4 DEF Answer, Encrypt
    <2> QED
      BY <1>4, <2>1, Refuses
  <1> QED
    BY <1>3, <1>4 DEF Sealed

LEMMA EncryptStep ==
  ASSUME IInv, NEW p \in Posts, EncryptForChannel(p)
  PROVE  IInv'
  <1>1. Busy(p) /\ post[p].at = "encrypt" /\ post[p].read /\ UNCHANGED <<channel, global, ring, admin>>
    BY DEF EncryptForChannel, At, Has
  <1>2. post[p] \in Posting /\ DecisionInv(post[p])
    BY <1>1, Now
  <1>3. PICK x \in post[p].seen : post[p].ch = x[1]
    BY <1>1, <1>2 DEF DecisionInv
  <1>4. CASE Refused(post[p].ch, global) /\ End(p, "refused")
    <2>1. ASSUME NEW y \in post[p].seen, post[p].seen = {y}
          PROVE  Answer(y[1], y[2], post[p].body) = "refused"
      BY <1>1, <1>4, <2>1, Now DEF Answer, Refused
    <2> QED
      BY <1>1, <1>4, <2>1, Refuses
  <1>5. CASE Sealed(p, Settings(post[p].ch))
    BY <1>1, <1>3, <1>5, SealedStep
  <1>6. CASE Goto(p, "again") /\ UNCHANGED last
    <2> DEFINE r == To(post[p], "again")
    <2>1. /\ r \in Posting /\ r.at = "again" /\ ~r.read /\ r.seen = post[p].seen
          /\ r.body = post[p].body
      BY <1>2, ToFields DEF AfterAccess
    <2> HIDE DEF r
    <2>2. /\ \E u \in r.seen : Admits(u, r.body)
          /\ \E u, v \in r.seen : ~Refused(u[1], v[2])
          /\ \E u, v, w \in r.seen : Passed(u, v, w, r.body)
          /\ \E u \in r.seen : ~Relayed(u, r.body)
      BY <1>1, <1>2, <2>1, Keeps DEF AfterAccess, AfterConfig, AfterVerify
    <2>3. DecisionInv(r)
      BY <2>1, <2>2 DEF DecisionInv
    <2> QED
      BY <1>1, <1>6, <2>3, Reaches DEF r, AfterAccess, AfterConfig
  <1> QED
    BY <1>4, <1>5, <1>6 DEF EncryptForChannel

\* The answer deserved under the settings x, from the decisions that held for x.
LEMMA AnswerOf ==
  ASSUME NEW x \in Channels \X Globals, NEW b \in Bodies,
         Admits(x, b), ~Refused(x[1], x[2]), Passed(x, x, x, b),
         NEW payload \in {"sealed", "plain"},
         \/ payload = "sealed" /\ Relayed(x, b)
         \/ payload = Encrypt(Settings(x[1]), b.cipher) /\ ~Relayed(x, b)
  PROVE  Answer(x[1], x[2], b) = payload
  <1> DEFINE c == Resolve(x[1], x[2])
  <1>1. /\ c.mode = Mode(x[1]) /\ c.mode \in {"", "server_side", "e2e"}
        /\ c.mode = Settings(x[1]).mode
        /\ c.key = Settings(x[1]).key /\ c.pub = Settings(x[1]).pub
    BY ResolveSeen
  <1>2. Grants(c, b)
    BY DEF Admits
  <1>3. ~(c.secret = None /\ x[2].known) /\ Signed(c, b)
    BY DEF Passed, Secret
  <1>4. ~(~Exists(x[1]) /\ x[2].known)
    BY DEF Refused
  <1> HIDE DEF c
  <1>5. CASE payload = "sealed" /\ Relayed(x, b)
    BY <1>1, <1>2, <1>3, <1>4, <1>5 DEF Answer, Relayed, c
  <1>6. CASE payload = Encrypt(Settings(x[1]), b.cipher) /\ ~Relayed(x, b)
    <2>1. /\ ~(c.mode = "server_side" /\ ~c.key) /\ ~(c.mode = "e2e" /\ ~c.pub)
          /\ ~(c.mode = "e2e" /\ b.cipher)
          /\ payload = (IF c.mode = "" /\ ~b.cipher THEN "plain" ELSE "sealed")
      BY <1>1, <1>6 DEF Encrypt, Relayed
    <2> QED
      BY <1>2, <1>3, <1>4, <2>1 DEF Answer, c
  <1> QED
    BY <1>5, <1>6

LEMMA PublishStep ==
  ASSUME IInv, NEW p \in Posts, Publish(p)
  PROVE  IInv'
  <1>1. /\ Busy(p) /\ post[p].at = "publish" /\ UNCHANGED <<channel, global, admin>>
        /\ ring' = IF post[p].ttl > 0 THEN post[p].ttl ELSE ring
    BY DEF Publish, At
  <1>2. /\ PostInv(post[p]) /\ post[p] \in Posting /\ channel \in Channels /\ global \in Globals
        /\ <<channel, global>> \in post[p].seen
    BY <1>1, Now
  <1>3. PICK how : how \in {post[p].payload, "unavailable"} /\ End(p, how)
    BY DEF Publish
  <1>4. DecisionInv(post[p]) /\ QuietInv(post[p])
    BY <1>2 DEF PostInv
  <1>5. last' = [body |-> post[p].body, seen |-> post[p].seen, quiet |-> post[p].quiet, how |-> how]
    BY <1>3 DEF End
  <1>6. PICK x \in post[p].seen :
          \/ post[p].payload = "sealed" /\ Relayed(x, post[p].body)
          \/ /\ post[p].payload = Encrypt(Settings(x[1]), post[p].body.cipher)
             /\ post[p].payload # "error"
             /\ \E y \in post[p].seen : ~Relayed(y, post[p].body)
    BY <1>1, <1>4 DEF DecisionInv
  <1>7. post[p].payload \in {"sealed", "plain"}
    BY <1>6 DEF Encrypt
  <1>8. x \in Channels \X Globals /\ post[p].body \in Bodies
    BY <1>1, Now
  <1>9. PICK u \in post[p].seen, v \in post[p].seen, w \in post[p].seen :
          Passed(u, v, w, post[p].body)
    BY <1>1, <1>4 DEF DecisionInv, AfterVerify
  <1>10. QuietExact'
    <2> SUFFICES ASSUME NEW y \in post[p].seen, post[p].seen = {y}
                 PROVE  Answer(y[1], y[2], post[p].body) = post[p].payload
      BY <1>3, <1>5, <1>7 DEF QuietExact
    <2>1. y = x /\ \A z \in post[p].seen : z = x
      OBVIOUS
    <2>2. Admits(x, post[p].body) /\ ~Refused(x[1], x[2])
      BY <1>1, <1>4, <2>1 DEF DecisionInv, AfterAccess, AfterConfig
    <2>3. Passed(x, x, x, post[p].body)
      BY <1>9, <2>1
    <2>4. \/ post[p].payload = "sealed" /\ Relayed(x, post[p].body)
          \/ /\ post[p].payload = Encrypt(Settings(x[1]), post[p].body.cipher)
             /\ ~Relayed(x, post[p].body)
      BY <1>6, <2>1
    <2> QED
      BY <1>7, <1>8, <2>1, <2>2, <2>3, <2>4, AnswerOf
  <1>11. ChecksHeld'
    <2>1. PICK y \in post[p].seen : Grants(Resolve(y[1], y[2]), post[p].body)
      BY <1>1, <1>4 DEF DecisionInv, AfterAccess, Admits
    <2>2. Signed(Resolve(u[1], v[2]), post[p].body)
      BY <1>9 DEF Passed
    <2> QED
      BY <1>5, <2>1, <2>2 DEF ChecksHeld
  <1>12. StrictSigned'
    <2> SUFFICES ASSUME \A y \in post[p].seen : y[2].known
                 PROVE  Secret(u, v) # None /\ post[p].body.sig = Secret(u, v)
      BY <1>5 DEF StrictSigned, Secret
    <2> QED
      BY <1>9 DEF Passed, Signed, Secret
  <1>13. NoPlaintext'
    <2> SUFFICES ASSUME post[p].payload = "plain" PROVE Mode(x[1]) = ""
      BY <1>3, <1>5 DEF NoPlaintext
    <2>1. Settings(x[1]).mode \notin {"server_side", "e2e"}
      BY <1>6 DEF Encrypt
    <2> QED
      BY <1>8, <2>1, ResolveSeen
  <1>14. TTLSettles'
    <2> SUFFICES ASSUME post[p].quiet, Resolve(channel, global).ttl > 0
                 PROVE  ring' = Resolve(channel, global).ttl
      BY <1>1, <1>5 DEF TTLSettles
    <2> QED
      BY <1>1, <1>4 DEF QuietInv, AfterConfig, AfterAccess
  <1>15. ring' \in Nat
    BY <1>1, <1>2 DEF IInv, StoreInv, Posting
  <1> QED
    BY <1>1, <1>3, <1>7, <1>10, <1>11, <1>12, <1>13, <1>14, <1>15, Answered

LEMMA PostStepIInv ==
  ASSUME IInv, NEW p \in Posts, PostStep(p)
  PROVE  IInv'
  <1>1. CASE EncryptAgain(p)
    <2>1. /\ Busy(p) /\ post[p].at = "again" /\ Sealed(p, Settings(channel))
          /\ UNCHANGED <<channel, global, ring, admin>>
      BY <1>1 DEF EncryptAgain, At
    <2>2. <<channel, global>> \in post[p].seen
      BY <2>1, Now
    <2> QED
      BY <2>1, <2>2, SealedStep
  <1> QED
    BY <1>1, GetChannelStep, CheckAccessStep, TokenStep, ConfigStep, SecretStep, VerifyStep,
       ModeStep, EncryptStep, PublishStep DEF PostStep

--------------------------------------------------------------------------------
(* Administration                                                           *)

\* A decision held for settings seen so far, so it holds when more are seen.
LEMMA DecisionGrows ==
  ASSUME NEW r \in Posting, NEW S \in SUBSET (Channels \X Globals), r.seen \subseteq S,
         DecisionInv(r)
  PROVE  DecisionInv([r EXCEPT !.seen = S])
  <1> DEFINE n == [r EXCEPT !.seen = S]
  <1>1. /\ n.read = r.read /\ n.ch = r.ch /\ n.at = r.at /\ n.seen = S /\ n.body = r.body
        /\ n.secret = r.secret /\ n.payload = r.payload
    BY DEF Posting
  <1> HIDE DEF n
  <1>2. DecisionInv(n)
    BY <1>1 DEF DecisionInv
  <1> QED
    BY <1>2 DEF n

\* The store changes under posts that were never alone.
LEMMA StoreStep ==
  ASSUME IInv, NEW a \in Admins, admin[a] # Idle, NEW ch \in Channels, NEW g \in Globals,
         Store(ch, g), UNCHANGED <<ring, last>>,
         NEW n \in {Idle} \cup Administering, admin' = [admin EXCEPT ![a] = n],
         n # Idle /\ n.at = "write" /\ n.change.op \in Reading => Exists(n.copy)
  PROVE  IInv'
  <1>1. /\ channel' = ch /\ global' = g
        /\ post' = [p \in Posts |-> IF Busy(p) THEN [post[p] EXCEPT !.seen = @ \cup {<<ch, g>>}]
                                    ELSE Idle]
    BY DEF Store
  <1>2. ~NoAdmin
    BY DEF NoAdmin
  <1>3. ASSUME NEW p \in Posts, Busy(p)
        PROVE  post'[p] \in Posting /\ PostInv(post[p])'
    <2> DEFINE S == post[p].seen \cup {<<ch, g>>}
               r == [post[p] EXCEPT !.seen = S]
    <2>1. PostInv(post[p]) /\ post[p] \in Posting /\ ~post[p].quiet
      BY <1>2, <1>3 DEF IInv, PostInv, QuietInv
    <2>2. S \in SUBSET (Channels \X Globals)
      <3>1. post[p].seen \in SUBSET (Channels \X Globals)
        BY <2>1 DEF Posting
      <3>2. <<ch, g>> \in Channels \X Globals
        OBVIOUS
      <3> QED
        BY <3>1, <3>2
    <2>3. post'[p] = r
      BY <1>1, <1>3
    <2>4. r \in Posting /\ ~r.quiet /\ <<ch, g>> \in r.seen
      BY <2>1, <2>2 DEF Posting
    <2>5. DecisionInv(r)
      BY <2>1, <2>2, DecisionGrows DEF PostInv
    <2> HIDE DEF r
    <2>6. DecisionInv(post[p])'
      BY <2>3, <2>5 DEF DecisionInv
    <2> QED
      BY <1>1, <2>3, <2>4, <2>6 DEF PostInv, QuietInv
  <1>4. StoreInv'
    BY <1>1, <1>3 DEF IInv, StoreInv
  <1>5. AdminInv'
    BY DEF IInv, AdminInv, StoreInv
  <1>6. LastInv'
    BY <1>2 DEF IInv, LastInv, QuietExact, ChecksHeld, StrictSigned, NoPlaintext, TTLSettles, Accepted, Ended
  <1>7. \A p \in Posts : Busy(p)' => PostInv(post[p])'
    BY <1>1, <1>3 DEF Busy
  <1> QED
    BY <1>4, <1>5, <1>6, <1>7 DEF IInv

\* An administrative request goes on or ends without a write to the store.
LEMMA AdminGoes ==
  ASSUME IInv, NEW a \in Admins, admin[a] # Idle, UNCHANGED <<channel, global, post, last>>,
         ring' \in Nat,
         NEW n \in {Idle} \cup Administering, admin' = [admin EXCEPT ![a] = n],
         n # Idle /\ n.at = "write" /\ n.change.op \in Reading => Exists(n.copy)
  PROVE  IInv'
  <1>1. ~NoAdmin
    BY DEF NoAdmin
  <1>2. StoreInv' /\ AdminInv'
    BY DEF IInv, AdminInv, StoreInv
  <1>3. LastInv'
    BY <1>1 DEF IInv, LastInv, QuietExact, ChecksHeld, StrictSigned, NoPlaintext, TTLSettles, Accepted, Ended
  <1>4. \A p \in Posts : Busy(p)' => PostInv(post[p])'
    BY <1>1 DEF IInv, Busy, PostInv, QuietInv, DecisionInv
  <1> QED
    BY <1>2, <1>3, <1>4 DEF IInv

LEMMA AdminReadsStep ==
  ASSUME IInv, NEW a \in Admins, AdminReads(a)
  PROVE  IInv'
  <1>1. /\ post' = [p \in Posts |-> IF Busy(p) THEN [post[p] EXCEPT !.quiet = FALSE] ELSE Idle]
        /\ last' = IF last = Idle THEN Idle ELSE [last EXCEPT !.quiet = FALSE]
        /\ UNCHANGED <<channel, global, ring>>
    BY DEF AdminReads
  <1>2. PICK c \in Changes :
          /\ c.op \in Reading => Exists(channel)
          /\ admin' = [admin EXCEPT ![a] =
               [at |-> "write", change |-> c, ttl |-> 0,
                copy |-> IF c.op \in Reading THEN channel ELSE NoChannel]]
    BY DEF AdminReads
  <1> DEFINE n == [at |-> "write", change |-> c, ttl |-> 0,
                   copy |-> IF c.op \in Reading THEN channel ELSE NoChannel]
  <1>3. n \in Administering
    BY DEF Administering, IInv, StoreInv, Channels
  <1>4. n.change.op \in Reading => Exists(n.copy)
    BY <1>2
  <1>5. ASSUME NEW p \in Posts, Busy(p)
        PROVE  post'[p] \in Posting /\ PostInv(post[p])'
    <2> DEFINE r == [post[p] EXCEPT !.quiet = FALSE]
    <2>1. PostInv(post[p]) /\ post[p] \in Posting
      BY <1>5 DEF IInv, PostInv
    <2>2. post'[p] = r
      BY <1>1, <1>5
    <2>3. r \in Posting /\ ~r.quiet /\ <<channel, global>> \in r.seen
      BY <2>1 DEF Posting, PostInv
    <2>4. DecisionInv(r)
      <3>1. /\ r.read = post[p].read /\ r.ch = post[p].ch /\ r.at = post[p].at
            /\ r.seen = post[p].seen /\ r.body = post[p].body /\ r.secret = post[p].secret
            /\ r.payload = post[p].payload
        BY <2>1 DEF Posting
      <3> HIDE DEF r
      <3> QED
        BY <2>1, <3>1 DEF PostInv, DecisionInv
    <2> HIDE DEF r
    <2>5. DecisionInv(post[p])'
      BY <2>2, <2>4 DEF DecisionInv
    <2> QED
      BY <1>1, <2>2, <2>3, <2>5 DEF PostInv, QuietInv
  <1>6. StoreInv'
    BY <1>1, <1>2, <1>3, <1>5 DEF IInv, StoreInv
  <1>7. AdminInv'
    BY <1>2, <1>3, <1>4 DEF IInv, AdminInv, StoreInv
  <1>8. LastInv'
    <2>1. CASE last = Idle
      BY <1>1, <2>1 DEF LastInv, QuietExact, ChecksHeld, StrictSigned, NoPlaintext, TTLSettles, Accepted, Ended
    <2>2. CASE last # Idle
      <3>1. last \in Ending
        BY <2>2 DEF IInv, LastInv, Ended
      <3>2. /\ last' \in Ending /\ ~last'.quiet /\ last'.how = last.how
            /\ last'.seen = last.seen /\ last'.body = last.body
        BY <1>1, <2>2, <3>1 DEF Ending
      <3>3. QuietExact' /\ ChecksHeld' /\ StrictSigned' /\ NoPlaintext'
        BY <2>2, <3>2 DEF IInv, LastInv, QuietExact, ChecksHeld, StrictSigned, NoPlaintext, Accepted, Ended
      <3> QED
        BY <3>2, <3>3 DEF LastInv, TTLSettles
    <2> QED
      BY <2>1, <2>2
  <1>9. \A p \in Posts : Busy(p)' => PostInv(post[p])'
    BY <1>1, <1>5 DEF Busy
  <1> QED
    BY <1>6, <1>7, <1>8, <1>9 DEF IInv

LEMMA AdminWritesStep ==
  ASSUME IInv, NEW a \in Admins, AdminWrites(a)
  PROVE  IInv'
  <1> DEFINE c == admin[a].change
             n == CASE c.op \in {"set", "create"} -> [admin[a] EXCEPT !.at = "notify"]
                    [] c.op = "global" -> [admin[a] EXCEPT !.at = "list"]
                    [] OTHER -> Idle
  <1>1. /\ admin[a] # Idle /\ admin[a].at = "write" /\ UNCHANGED <<ring, last>>
        /\ admin' = [admin EXCEPT ![a] = n]
    BY DEF AdminWrites
  <1>2. /\ admin[a] \in Administering /\ c \in Changes
        /\ c.op \in Reading => Exists(admin[a].copy)
    BY <1>1 DEF IInv, AdminInv, Administering
  <1>3. n \in {Idle} \cup Administering /\ (n # Idle /\ n.at = "write" /\ n.change.op \in Reading => Exists(n.copy))
    BY <1>2 DEF Administering
  <1>4. PICK ch \in Channels, g \in Globals : Store(ch, g)
    <2>1. channel \in Channels /\ global \in Globals
      BY DEF IInv, StoreInv
    <2>2. CASE c.op \in Reading /\ Store(Edited(admin[a].copy, c), global)
      <3>1. admin[a].copy \in Stored
        BY <1>2, <2>2 DEF Administering, Channels, Exists
      <3>2. Edited(admin[a].copy, c) \in Channels
        BY <1>2, <2>2, <3>1, EditedStored DEF Channels
      <3> QED
        BY <2>1, <2>2, <3>2
    <2>3. CASE c.op = "create" /\ Store(Patched(EmptyChannel, c.patch), global)
      <3>1. EmptyChannel \in Stored
        BY DEF EmptyChannel, Stored, Secrets
      <3>2. Patched(EmptyChannel, c.patch) \in Channels
        BY <1>2, <2>3, <3>1, PatchedStored DEF Channels
      <3> QED
        BY <2>1, <2>3, <3>2
    <2>4. CASE c.op = "delete" /\ Store(NoChannel, global)
      BY <2>1, <2>4 DEF Channels
    <2>5. CASE c.op = "global" /\ Store(channel, c.global)
      BY <1>2, <2>1, <2>5, IngressAssumption
    <2> QED
      BY <2>2, <2>3, <2>4, <2>5 DEF AdminWrites
  <1> HIDE DEF n
  <1> QED
    BY <1>1, <1>3, <1>4, StoreStep

LEMMA AdminStepIInv ==
  ASSUME IInv, NEW a \in Admins, AdminStep(a)
  PROVE  IInv'
  <1>1. CASE CreateFails(a)
    <2>1. ring' \in Nat
      BY <1>1 DEF CreateFails, IInv, StoreInv
    <2> QED
      BY <1>1, <2>1, AdminGoes DEF CreateFails
  <1>2. ASSUME NEW n \in {Idle} \cup Administering, n # Idle => n.at # "write",
               admin' = [admin EXCEPT ![a] = n], admin[a] # Idle,
               UNCHANGED <<channel, global, ring, post, last>>
        PROVE  IInv'
    <2>1. ring' \in Nat
      BY <1>2 DEF IInv, StoreInv
    <2> QED
      BY <1>2, <2>1, AdminGoes
  <1>3. admin[a] # Idle =>
          /\ admin[a] \in Administering /\ channel \in Channels
          /\ admin[a].copy \in Channels /\ global \in Globals
    BY DEF IInv, AdminInv, StoreInv, Administering
  <1>4. CASE ListChannels(a)
    <2> DEFINE n == IF Exists(channel) /\ channel.ttl = 0 THEN [admin[a] EXCEPT !.at = "notify"]
                    ELSE Idle
    <2>1. n \in {Idle} \cup Administering /\ (n # Idle => n.at # "write")
      BY <1>3, <1>4 DEF ListChannels, Administering
    <2>2. admin' = [admin EXCEPT ![a] = n]
      BY <1>4 DEF ListChannels
    <2> HIDE DEF n
    <2> QED
      BY <1>2, <1>4, <2>1, <2>2 DEF ListChannels
  <1>5. CASE AdminNotifies(a)
    <2> DEFINE n == [admin[a] EXCEPT !.at = "resolve", !.copy = channel]
    <2>1. n \in Administering /\ n.at # "write"
      BY <1>3, <1>5 DEF AdminNotifies, Administering
    <2>2. admin' = [admin EXCEPT ![a] = n]
      BY <1>5 DEF AdminNotifies
    <2> HIDE DEF n
    <2> QED
      BY <1>2, <1>5, <2>1, <2>2 DEF AdminNotifies
  <1>6. CASE ResolveTTL(a)
    <2> DEFINE t == Resolve(admin[a].copy, global).ttl
               n == IF Refused(admin[a].copy, global) THEN Idle
                    ELSE [admin[a] EXCEPT !.at = "tell", !.ttl = t]
    <2>1. t \in Nat
      BY <1>3, <1>6, ResolveFields DEF ResolveTTL
    <2>2. admin' = [admin EXCEPT ![a] = n]
      BY <1>6 DEF ResolveTTL
    <2> HIDE DEF t
    <2>3. n \in {Idle} \cup Administering /\ (n # Idle => n.at # "write")
      BY <1>3, <1>6, <2>1 DEF ResolveTTL, Administering
    <2> HIDE DEF n
    <2> QED
      BY <1>2, <1>6, <2>2, <2>3 DEF ResolveTTL
  <1>7. CASE OnChannelChanged(a)
    <2>1. admin[a] # Idle
      BY <1>7 DEF OnChannelChanged
    <2>2. ring' \in Nat
      BY <1>7, <2>1 DEF OnChannelChanged, IInv, StoreInv, AdminInv, Administering
    <2> QED
      BY <1>7, <2>2, AdminGoes DEF OnChannelChanged
  <1> QED
    BY <1>1, <1>4, <1>5, <1>6, <1>7, AdminReadsStep, AdminWritesStep DEF AdminStep

--------------------------------------------------------------------------------
LEMMA NextIInv == IInv /\ [Next]_vars => IInv'
  <1> SUFFICES ASSUME IInv, [Next]_vars PROVE IInv'
    OBVIOUS
  <1>1. CASE UNCHANGED vars
    <2>1. UNCHANGED <<channel, global, ring, post, admin, last>>
      BY <1>1 DEF vars
    <2>2. StoreInv' /\ AdminInv'
      BY <2>1 DEF IInv, StoreInv, AdminInv
    <2>3. LastInv'
      BY <2>1 DEF IInv, LastInv, QuietExact, ChecksHeld, StrictSigned, NoPlaintext, TTLSettles,
                  Accepted, Ended, NoAdmin
    <2>4. \A p \in Posts : Busy(p)' => PostInv(post[p])'
      BY <2>1 DEF IInv, Busy, PostInv, QuietInv, NoAdmin, DecisionInv
    <2> QED
      BY <2>2, <2>3, <2>4 DEF IInv
  <1> QED
    BY <1>1, Arrives, PostStepIInv, AdminStepIInv DEF Next

LEMMA Inductive == Spec => []IInv
  BY InitIInv, NextIInv, PTL DEF Spec

\* Every variable keeps its type and a post has seen what is stored now,
\* whatever the administrators write.
THEOREM IngressTypeCorrect == Spec => []IngressTypeOK
  <1>1. IInv => IngressTypeOK
    BY DEF IInv, StoreInv, AdminInv, PostInv, Posting, Administering, IngressTypeOK
  <1> QED
    BY <1>1, Inductive, PTL

\* ChannelAccessMiddleware, HandleWebhookPost and EncryptForChannel, each with
\* its own reads of the store, give a post the one answer its settings call for
\* when these stay the same, however many other requests are under way.
THEOREM AnswersExactly == Spec => []QuietExact
  <1>1. IInv => QuietExact
    BY DEF IInv, LastInv
  <1> QED
    BY <1>1, Inductive, PTL

\* A published post was admitted by settings stored while it was handled, and
\* its signature was checked against the secret of a channel and of a global
\* configuration stored meanwhile.  No more can be said of the signature: the
\* two reads of ResolveChannelWebhookSecret need not be of one moment.
THEOREM ChecksAlwaysHeld == Spec => []ChecksHeld
  <1>1. IInv => ChecksHeld
    BY DEF IInv, LastInv
  <1> QED
    BY <1>1, Inductive, PTL

\* In strict mode no change between the reads lets a post be published whose
\* signature was not checked.
THEOREM StrictAlwaysSigned == Spec => []StrictSigned
  <1>1. IInv => StrictSigned
    BY DEF IInv, LastInv
  <1> QED
    BY <1>1, Inductive, PTL

\* A change of the encryption mode in the middle of a post never sends its
\* body out in the clear unless the channel really was unencrypted meanwhile.
THEOREM NeverPlaintext == Spec => []NoPlaintext
  <1>1. IInv => NoPlaintext
    BY DEF IInv, LastInv
  <1> QED
    BY <1>1, Inductive, PTL

\* After a post published with no administration under way or since, the ring
\* buffer has the channel's TTL, whatever late notifications came before it.
THEOREM RetentionSettles == Spec => []TTLSettles
  <1>1. IInv => TTLSettles
    BY DEF IInv, LastInv
  <1> QED
    BY <1>1, Inductive, PTL
================================================================================
