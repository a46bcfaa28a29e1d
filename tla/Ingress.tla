------------------------------ MODULE Ingress -------------------------------
(***************************************************************************)
(* Webhook ingestion against changing channel settings: the produce route  *)
(* (ChannelAccessMiddleware in internal/handler/middleware.go and          *)
(* HandleWebhookPost in internal/handler/webhook.go), the encryption       *)
(* policy (EncryptForChannel in internal/service/publish.go), the          *)
(* administration of a channel and its tokens (internal/handler/api.go,    *)
(* internal/service/token.go, channel.go, repository.go) and the message   *)
(* TTL that reaches the ring buffer (brokerTTLNotifier in                  *)
(* internal/server/server.go).                                             *)
(*                                                                         *)
(* A request reads the store again for each decision, and an               *)
(* administrative request reads the whole channel and later writes the     *)
(* whole channel; other requests come in between.  The channel and the     *)
(* global configuration are two reads, also where one decision needs both. *)
(* One channel and one server.  A secret or key is a model value, a        *)
(* signature is the secret it was made with, and a token is its identity   *)
(* with its scope.                                                         *)
(***************************************************************************)
EXTENDS Integers, FiniteSets

CONSTANTS
  Posts,       \* webhook posts in flight at once
  Admins,      \* administrative requests in flight at once
  Bodies,      \* what a post carries: signature, token, and whether ciphertext
  Changes,     \* the administrative requests: what they do and with what, see Edited
  Globals,     \* the global configurations
  NoChannel,   \* the channel does not exist
  MaxPosts, MaxChanges  \* bounds: requests of each kind

ASSUME IngressAssumption ==
  /\ MaxPosts \in Nat /\ MaxChanges \in Nat
  /\ \A b \in Bodies : b.cipher \in BOOLEAN
  /\ \A g \in Globals : g.known \in BOOLEAN /\ g.ttl \in Nat
  /\ \A c \in Changes :
       /\ c.op \in {"set", "create", "token", "revoke", "delete", "global"}
       /\ c.op = "global" => c.global \in Globals
       /\ c.op = "token" => /\ c.token.id # "none"
                            /\ c.token.scope \in {"produce", "consume", "both"}
       /\ c.op \in {"set", "create"} =>
            \A f \in DOMAIN c.patch :
              /\ f \in {"secret", "mode", "key", "pub", "access", "ttl"}
              /\ f = "mode" => c.patch[f] \in {"", "server_side", "e2e"}
              /\ f \in {"key", "pub"} => c.patch[f] \in BOOLEAN
              /\ f = "access" => c.patch[f] \in {"", "token"}
              /\ f = "ttl" => c.patch[f] \in Nat

VARIABLES
  channel,  \* the stored channel
  global,   \* the stored global configuration
  ring,     \* the TTL the ring buffer has for the channel, 0 if none
  post,     \* the webhook posts: where each is and what it has read so far
  admin,    \* the administrative requests: change, copy read, TTL resolved
  left,     \* requests of each kind that may still come
  last      \* history: how the latest post to end was answered

vars == <<channel, global, ring, post, admin, left, last>>

None == "none"
Idle == [at |-> "idle"]

EmptyChannel == [secret |-> None, mode |-> "", key |-> FALSE, pub |-> FALSE,
                 access |-> "", tokens |-> {}, ttl |-> 0]

-------------------------------------------------------------------------------
(* Resolution of the settings                                              *)

Exists(ch) == ch # NoChannel

Settings(ch) == IF Exists(ch) THEN ch ELSE EmptyChannel

\* domain.ResolveChannelConfig, or the channel made of the defaults.
Resolve(ch, g) ==
  [Settings(ch) EXCEPT !.secret = IF @ = None THEN g.secret ELSE @,
                       !.ttl = IF @ = 0 THEN g.ttl ELSE @]

\* ResolveChannelConfig refuses an unknown channel in strict mode.
Refused(ch, g) == ~Exists(ch) /\ g.known

Mode(ch) == Settings(ch).mode

\* Variant with a fault: a channel without its key is relayed in the clear.
EncryptFailOpen(c, cipher) ==
  IF cipher \/ (c.mode = "server_side" /\ c.key) \/ (c.mode = "e2e" /\ c.pub)
  THEN "sealed" ELSE "plain"

\* What the encryption policy makes of a body: "error" is the answer of a
\* channel whose key is missing.
Encrypt(c, cipher) ==
  CASE c.mode = "server_side" -> IF c.key THEN "sealed" ELSE "error"
    [] c.mode = "e2e" /\ ~c.pub -> "error"
    [] c.mode = "e2e" /\ c.pub -> "sealed"
    [] OTHER -> IF cipher THEN "sealed" ELSE "plain"

\* The produce route asks for the scope "produce".
TokenOK(ch, token) ==
  \E t \in Settings(ch).tokens : t.id = token /\ (t.scope = "both" \/ t.scope = "produce")

-------------------------------------------------------------------------------

Init ==
  /\ channel \in {NoChannel, EmptyChannel}
  /\ global \in Globals
  /\ ring = 0
  /\ post = [p \in Posts |-> Idle]
  /\ admin = [a \in Admins |-> Idle]
  /\ left = [posts |-> MaxPosts, changes |-> MaxChanges]
  /\ last = Idle

-------------------------------------------------------------------------------
(* A webhook post.  seen is the history of the settings that were stored   *)
(* during the post, and quiet tells that no administrative request was     *)
(* under way.                                                              *)

Busy(p) == post[p] # Idle

At(p, at) == Busy(p) /\ post[p].at = at

\* On to the next decision, with nothing read for it yet.
To(r, at) == [r EXCEPT !.at = at, !.read = FALSE, !.ch = NoChannel]

Goto(p, at) == post' = [post EXCEPT ![p] = To(@, at)]

\* The post is answered.
End(p, how) ==
  /\ post' = [post EXCEPT ![p] = Idle]
  /\ last' = [body |-> post[p].body, seen |-> post[p].seen,
              quiet |-> post[p].quiet, how |-> how]

PostArrives(p) ==
  /\ post[p] = Idle /\ left.posts > 0
  /\ left' = [left EXCEPT !.posts = @ - 1]
  /\ \E b \in Bodies :
       post' = [post EXCEPT ![p] = [at |-> "access", read |-> FALSE, ch |-> NoChannel,
                                    body |-> b, ttl |-> 0, secret |-> None,
                                    payload |-> "", seen |-> {<<channel, global>>},
                                    quiet |-> \A a \in Admins : admin[a] = Idle]]
  /\ UNCHANGED <<channel, global, ring, admin, last>>

\* Every resolution reads the channel first; the global configuration is read
\* by the step that follows, and what that step makes of the two is below.
GetChannel(p) ==
  /\ Busy(p) /\ post[p].at \in {"access", "config", "secret", "encrypt"} /\ ~post[p].read
  /\ post' = [post EXCEPT ![p] = [@ EXCEPT !.read = TRUE, !.ch = channel]]
  /\ UNCHANGED <<channel, global, ring, admin, left, last>>

Has(p, at) == At(p, at) /\ post[p].read

\* ChannelAccessMiddleware: a channel with tokens asks for one.
CheckAccess(p) ==
  /\ Has(p, "access")
  /\ LET asks == Settings(post[p].ch).access = "token"
         refused == Refused(post[p].ch, global)
     IN  \/ ~refused /\ ~asks /\ Goto(p, "config") /\ UNCHANGED last
         \/ ~refused /\ asks /\ post[p].body.token # None /\ Goto(p, "token") /\ UNCHANGED last
         \/ (refused \/ (asks /\ post[p].body.token = None)) /\ End(p, "refused")
  /\ UNCHANGED <<channel, global, ring, admin, left>>

\* ValidateChannelToken reads the channel once more.
ValidateChannelToken(p) ==
  /\ At(p, "token")
  /\ \/ TokenOK(channel, post[p].body.token) /\ Goto(p, "config") /\ UNCHANGED last
     \/ ~TokenOK(channel, post[p].body.token) /\ End(p, "refused")
  /\ UNCHANGED <<channel, global, ring, admin, left>>

\* HandleWebhookPost takes the TTL from its own resolution of the channel.
ResolveConfig(p) ==
  /\ Has(p, "config")
  /\ \/ /\ ~Refused(post[p].ch, global)
        /\ post' = [post EXCEPT ![p] =
             [To(@, "secret") EXCEPT !.ttl = Resolve(post[p].ch, global).ttl]]
        /\ UNCHANGED last
     \/ Refused(post[p].ch, global) /\ End(p, "refused")
  /\ UNCHANGED <<channel, global, ring, admin, left>>

\* The channel's own secret needs no second read, and the global configuration
\* does not enter then.
ResolveSecret(p) ==
  /\ Has(p, "secret")
  /\ post' = [post EXCEPT ![p] =
       [To(@, "verify") EXCEPT !.secret = Resolve(post[p].ch, global).secret]]
  /\ UNCHANGED <<channel, global, ring, admin, left, last>>

\* Variant with a fault: strict mode does not insist on a secret.
MaySkip(secret, g) == TRUE

\* Without a secret the signature is not checked, which strict mode forbids.
NoSecretOK(secret, g) == secret # None \/ ~g.known

\* Variant with a fault: a post without a signature passes.
SignatureOptional(secret, sig) == secret = None \/ sig \in {secret, None}

SignatureOK(secret, sig) == secret = None \/ sig = secret

VerifySignature(p) ==
  /\ At(p, "verify")
  /\ LET ok == NoSecretOK(post[p].secret, global)
                /\ SignatureOK(post[p].secret, post[p].body.sig)
     IN  \/ ok /\ Goto(p, "mode") /\ UNCHANGED last
         \/ ~ok /\ End(p, "refused")
  /\ UNCHANGED <<channel, global, ring, admin, left>>

\* Ciphertext for an end-to-end channel is relayed as it is.
ReadMode(p) ==
  /\ At(p, "mode")
  /\ post' = [post EXCEPT ![p] =
       IF Mode(channel) = "e2e" /\ @.body.cipher
       THEN [To(@, "publish") EXCEPT !.payload = "sealed"]
       ELSE To(@, "encrypt")]
  /\ UNCHANGED <<channel, global, ring, admin, left, last>>

Sealed(p, c) ==
  LET res == Encrypt(c, post[p].body.cipher)
  IN  \/ /\ res # "error"
         /\ post' = [post EXCEPT ![p] = [To(@, "publish") EXCEPT !.payload = res]]
         /\ UNCHANGED last
      \/ res = "error" /\ End(p, "refused")

\* EncryptForChannel; a channel without a mode is looked up a second time, with
\* no regard to the global configuration.
EncryptForChannel(p) ==
  /\ Has(p, "encrypt")
  /\ \/ Refused(post[p].ch, global) /\ End(p, "refused")
     \/ /\ ~Refused(post[p].ch, global) /\ Mode(post[p].ch) # ""
        /\ Sealed(p, Settings(post[p].ch))
     \/ /\ ~Refused(post[p].ch, global) /\ Mode(post[p].ch) = ""
        /\ Goto(p, "again") /\ UNCHANGED last
  /\ UNCHANGED <<channel, global, ring, admin, left>>

EncryptAgain(p) ==
  /\ At(p, "again")
  /\ Sealed(p, Settings(channel))
  /\ UNCHANGED <<channel, global, ring, admin, left>>

\* Variant with a fault: the TTL of the channel is left to the notifier.
PublishOnly(p) ==
  /\ At(p, "publish")
  /\ End(p, post[p].payload)
  /\ UNCHANGED <<channel, global, ring, admin, left>>

\* The TTL goes to the ring buffer before the event does, which the broker may
\* not take.
Publish(p) ==
  /\ At(p, "publish")
  /\ ring' = IF post[p].ttl > 0 THEN post[p].ttl ELSE ring
  /\ End(p, post[p].payload) \/ End(p, "unavailable")
  /\ UNCHANGED <<channel, global, admin, left>>

-------------------------------------------------------------------------------
(* Administration                                                          *)

\* The store changes; every post in flight lives through the new settings.
Store(ch, g) ==
  /\ channel' = ch /\ global' = g
  /\ post' = [p \in Posts |-> IF Busy(p) THEN [post[p] EXCEPT !.seen = @ \cup {<<ch, g>>}]
                               ELSE Idle]

\* The fields a request names, over what it read.
Patched(ch, patch) ==
  [f \in DOMAIN ch |-> IF f \in DOMAIN patch THEN patch[f] ELSE ch[f]]

\* CreateAccessToken also turns the access mode; DeleteAccessToken leaves it.
Edited(ch, c) ==
  CASE c.op = "set"    -> Patched(ch, c.patch)
    [] c.op = "token"  -> [ch EXCEPT !.tokens = @ \cup {c.token}, !.access = "token"]
    [] c.op = "revoke" -> [ch EXCEPT !.tokens = {t \in @ : t.id # c.id}]

Reading == {"set", "token", "revoke"}

\* A request reads what it will change; a missing channel ends it.
AdminReads(a) ==
  /\ admin[a] = Idle /\ left.changes > 0
  /\ left' = [left EXCEPT !.changes = @ - 1]
  /\ \E c \in Changes :
       /\ c.op \in Reading => Exists(channel)
       /\ admin' = [admin EXCEPT ![a] =
            [at |-> "write", change |-> c, ttl |-> 0,
             copy |-> IF c.op \in Reading THEN channel ELSE NoChannel]]
  /\ post' = [p \in Posts |-> IF Busy(p) THEN [post[p] EXCEPT !.quiet = FALSE] ELSE Idle]
  /\ last' = IF last = Idle THEN Idle ELSE [last EXCEPT !.quiet = FALSE]
  /\ UNCHANGED <<channel, global, ring>>

\* The store creates a channel only once.
CreateFails(a) ==
  /\ admin[a] # Idle /\ admin[a].at = "write"
  /\ admin[a].change.op = "create" /\ Exists(channel)
  /\ admin' = [admin EXCEPT ![a] = Idle]
  /\ UNCHANGED <<channel, global, ring, post, left, last>>

\* The whole record is written.
AdminWrites(a) ==
  /\ admin[a] # Idle /\ admin[a].at = "write"
  /\ LET c == admin[a].change
     IN  \/ c.op \in Reading /\ Store(Edited(admin[a].copy, c), global)
         \/ c.op = "create" /\ ~Exists(channel) /\ Store(Patched(EmptyChannel, c.patch), global)
         \/ c.op = "delete" /\ Store(NoChannel, global)
         \/ c.op = "global" /\ Store(channel, c.global)
  /\ admin' = [admin EXCEPT ![a] =
       CASE @.change.op \in {"set", "create"} -> [@ EXCEPT !.at = "notify"]
         [] @.change.op = "global" -> [@ EXCEPT !.at = "list"]
         [] OTHER -> Idle]
  /\ UNCHANGED <<ring, left, last>>

\* A change of the global configuration goes through the channels without a
\* TTL of their own.
ListChannels(a) ==
  /\ admin[a] # Idle /\ admin[a].at = "list"
  /\ admin' = [admin EXCEPT ![a] =
       IF Exists(channel) /\ channel.ttl = 0 THEN [@ EXCEPT !.at = "notify"] ELSE Idle]
  /\ UNCHANGED <<channel, global, ring, post, left, last>>

\* notifyChannelChanged resolves the TTL, from a read of the channel
AdminNotifies(a) ==
  /\ admin[a] # Idle /\ admin[a].at = "notify"
  /\ admin' = [admin EXCEPT ![a] = [@ EXCEPT !.at = "resolve", !.copy = channel]]
  /\ UNCHANGED <<channel, global, ring, post, left, last>>

\* and one of the global configuration.
ResolveTTL(a) ==
  /\ admin[a] # Idle /\ admin[a].at = "resolve"
  /\ admin' = [admin EXCEPT ![a] =
       IF Refused(admin[a].copy, global) THEN Idle
       ELSE [@ EXCEPT !.at = "tell", !.ttl = Resolve(admin[a].copy, global).ttl]]
  /\ UNCHANGED <<channel, global, ring, post, left, last>>

\* brokerTTLNotifier passes on a TTL and no removal of one.
OnChannelChanged(a) ==
  /\ admin[a] # Idle /\ admin[a].at = "tell"
  /\ ring' = IF admin[a].ttl > 0 THEN admin[a].ttl ELSE ring
  /\ admin' = [admin EXCEPT ![a] = Idle]
  /\ UNCHANGED <<channel, global, post, left, last>>

-------------------------------------------------------------------------------

PostStep(p) ==
  \/ GetChannel(p) \/ CheckAccess(p) \/ ValidateChannelToken(p) \/ ResolveConfig(p)
  \/ ResolveSecret(p) \/ VerifySignature(p) \/ ReadMode(p)
  \/ EncryptForChannel(p) \/ EncryptAgain(p) \/ Publish(p)

AdminStep(a) ==
  \/ AdminReads(a) \/ AdminWrites(a) \/ CreateFails(a)
  \/ ListChannels(a) \/ AdminNotifies(a) \/ ResolveTTL(a) \/ OnChannelChanged(a)

Next == \/ \E p \in Posts : PostArrives(p) \/ PostStep(p)
        \/ \E a \in Admins : AdminStep(a)

Spec == Init /\ [][Next]_vars

-------------------------------------------------------------------------------
(* Properties                                                              *)

Secrets == {None} \cup {c.patch.secret : c \in {d \in Changes : /\ d.op \in {"set", "create"}
                                                               /\ "secret" \in DOMAIN d.patch}}
Tokens == {c.token : c \in {d \in Changes : d.op = "token"}}

Stored == [secret : Secrets, mode : {"", "server_side", "e2e"}, key : BOOLEAN, pub : BOOLEAN,
           access : {"", "token"}, tokens : SUBSET Tokens, ttl : Nat]

Channels == {NoChannel} \cup Stored

\* The values the variables take; every other property presupposes it.
IngressTypeOK ==
  /\ channel \in Channels /\ global \in Globals /\ ring \in Nat
  /\ \A p \in Posts : Busy(p) => /\ <<channel, global>> \in post[p].seen
                                  /\ post[p].payload \in {"", "sealed", "plain"}
  /\ \A a \in Admins : admin[a] # Idle => admin[a].copy \in Channels

\* What a channel's settings ask of the token a post carries, and of its signature.
Grants(c, b) == c.access = "token" => \E t \in c.tokens : t.id = b.token /\ t.scope # "consume"
Signed(c, b) == c.secret = None \/ b.sig = c.secret

\* The answer a post deserves under settings that do not change.
Answer(ch, g, b) ==
  LET c == Resolve(ch, g)
  IN  IF \/ ~Exists(ch) /\ g.known
         \/ ~Grants(c, b)
         \/ c.secret = None /\ g.known
         \/ ~Signed(c, b)
         \/ c.mode = "server_side" /\ ~c.key
         \/ c.mode = "e2e" /\ ~c.pub /\ ~b.cipher
      THEN "refused"
      ELSE IF c.mode = "" /\ ~b.cipher THEN "plain" ELSE "sealed"

Ended == last # Idle
Accepted == Ended /\ last.how \notin {"refused", "unavailable"}

(***************************************************************************)
(* A post during which the settings stay the same is answered as they say: *)
(* the checks of the middleware, the handler and the encryption policy,    *)
(* each with its own reads of the store, add up to this one definition,    *)
(* unless the broker is not available.                                     *)
(***************************************************************************)
QuietExact ==
  Ended => \A x \in last.seen : last.seen = {x} =>
             LET answer == Answer(x[1], x[2], last.body)
             IN  last.how = answer \/ (last.how = "unavailable" /\ answer # "refused")

(***************************************************************************)
(* No change slips between the checks, as far as the code's two reads go:  *)
(* whatever happens meanwhile, a post is published only if at some moment  *)
(* of it no token was asked for or its token was valid, and if it was      *)
(* signed with the secret that the channel of one moment and the global    *)
(* configuration of one have together, or these two have none.             *)
(***************************************************************************)
ChecksHeld ==
  Accepted =>
    /\ \E x \in last.seen : Grants(Resolve(x[1], x[2]), last.body)
    /\ \E x, y \in last.seen : Signed(Resolve(x[1], y[2]), last.body)

(***************************************************************************)
(* Strict mode never skips the signature: a post published while           *)
(* require_known_channels was set throughout was signed with a secret of   *)
(* the channel or of the global configuration stored meanwhile, although   *)
(* the secret and the mode are read separately.                            *)
(***************************************************************************)
StrictSigned ==
  Accepted /\ (\A x \in last.seen : x[2].known)
    => \E x, y \in last.seen : LET c == Resolve(x[1], y[2])
                                IN  c.secret # None /\ last.body.sig = c.secret

(***************************************************************************)
(* The signature was checked with the settings of one moment: a post is    *)
(* published only if at some moment of it no secret was set or it was      *)
(* signed with the secret set then.  ResolveChannelWebhookSecret's two     *)
(* reads break it: between them an administrator gives the channel a       *)
(* secret and then takes the global one away.                              *)
(***************************************************************************)
SecretHeld ==
  Accepted => \E x \in last.seen : Signed(Resolve(x[1], x[2]), last.body)

(***************************************************************************)
(* The encryption policy fails closed: a body goes out in the clear only   *)
(* if at some moment of the post the channel was not an encrypted one.     *)
(***************************************************************************)
NoPlaintext ==
  Ended /\ last.how = "plain" => \E x \in last.seen : Mode(x[1]) = ""

(***************************************************************************)
(* The retention settles: notifications may reach the ring buffer in any   *)
(* order, but once a post was published with no administrative request     *)
(* under way, and none came since, the ring buffer has the channel's TTL.  *)
(***************************************************************************)
TTLSettles ==
  Accepted /\ last.quiet /\ Resolve(channel, global).ttl > 0
    => ring = Resolve(channel, global).ttl
=============================================================================
