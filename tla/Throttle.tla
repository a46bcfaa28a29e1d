------------------------------ MODULE Throttle ------------------------------
(***************************************************************************)
(* The abuse control of internal/service/ratelimit.go as the login route   *)
(* meets it: BanMiddleware and RateLimitMiddleware (internal/handler/      *)
(* ratelimit.go), the per-account LoginThrottle and the recording of a     *)
(* failed login (APILoginHandler in internal/handler/auth.go).  Requests   *)
(* interleave, each tracker is changed under its own lock, and the         *)
(* administrator changes the configuration and lifts bans meanwhile.       *)
(* Every step reads the configuration anew and takes the lock later, so it *)
(* may use any configuration of the time since the step before it: a       *)
(* request keeps the set of those, seen.                                   *)
(*                                                                         *)
(* Time is a count of ticks and the configured windows are in ticks.  The  *)
(* fingerprint of a login is its account.                                  *)
(***************************************************************************)
EXTENDS Integers, Sequences, SequencesExt, FiniteSets

CONSTANTS
  IPs, Accounts,
  Configs,        \* the configurations of the server section
  DefaultWindow,  \* what clampWindow makes of an unset window
  Slots,          \* requests in flight at once
  MaxTime,        \* bound: the clock
  MaxRequests,    \* bound: requests that arrive
  MaxChanges      \* bound: actions of the administrator

ASSUME ThrottleAssumption ==
  /\ DefaultWindow \in Nat \ {0}
  /\ MaxTime \in Nat /\ MaxRequests \in Nat /\ MaxChanges \in Nat
  /\ \A c \in Configs :
       /\ c.limit \in BOOLEAN /\ c.requests \in Int /\ c.window \in Int
       /\ c.ban \in BOOLEAN /\ c.failures \in Int /\ c.banWindow \in Int
       /\ c.duration \in Nat /\ c.attempts \in Nat /\ c.cooldown \in Nat

VARIABLES
  now,
  cfg,       \* the configuration
  limiter,   \* RateLimiter: entries and lastSweep
  tracker,   \* BanTracker: failures, banned and lastSweep
  throttle,  \* LoginThrottle.attempts
  req,       \* the requests in flight
  left,      \* requests and changes that may still happen
  hist       \* history: what was let through, what failed, the windows used

vars == <<now, cfg, limiter, tracker, throttle, req, left, hist>>

None == -1
Idle == [at |-> "idle"]

clampWindow(w) == IF w <= 0 THEN DefaultWindow ELSE w

\* The time stamps of ts that lie after t, picked one by one.
After(ts, t) ==
  LET F[i \in 0 .. Len(ts)] ==
        IF i = 0 THEN <<>> ELSE IF ts[i] > t THEN Append(F[i - 1], ts[i]) ELSE F[i - 1]
  IN  F[Len(ts)]

Init ==
  /\ now = 0 /\ cfg \in Configs
  /\ limiter = [entries |-> [i \in IPs |-> <<>>], lastSweep |-> None]
  /\ tracker = [failures |-> [i \in IPs |-> {}], banned |-> [i \in IPs |-> None],
                lastSweep |-> None]
  /\ throttle = [a \in Accounts |-> <<>>]
  /\ req = [s \in Slots |-> Idle]
  /\ left = [requests |-> MaxRequests, changes |-> MaxChanges]
  /\ hist = [let |-> [i \in IPs |-> <<>>], failed |-> [i \in IPs |-> {}],
             tried |-> [a \in Accounts |-> <<>>],
             span |-> IF cfg.limit THEN cfg.window ELSE MaxTime + 1]

-------------------------------------------------------------------------------
(* RateLimiter                                                             *)

\* Variant with a fault: an address is forgotten although it sent in the window.
RateSweepFirst(rl, window) ==
  [rl EXCEPT !.lastSweep = now,
             !.entries = [i \in IPs |->
                            IF rl.entries[i] # <<>> /\ Head(rl.entries[i]) < now - window
                            THEN <<>> ELSE rl.entries[i]]]

\* An address whose last time stamp is before the window is forgotten.
RateSweep(rl, window) ==
  [rl EXCEPT !.lastSweep = now,
             !.entries = [i \in IPs |->
                            IF rl.entries[i] # <<>> /\ Last(rl.entries[i]) < now - window
                            THEN <<>> ELSE rl.entries[i]]]

DueForSweep(last, window) == last = None \/ now - last >= window

RateMaybeSweep(rl, window) ==
  IF DueForSweep(rl.lastSweep, window) THEN RateSweep(rl, window) ELSE rl

\* The limiter after Allow with configuration c, and its answer.  The sweep uses
\* the clamped window and the count the configured one.
Allow(rl, ip, c) ==
  LET swept == RateMaybeSweep(rl, clampWindow(c.window))
      valid == After(swept.entries[ip], now - c.window)
      ok    == Len(valid) < c.requests
  IN  [ok |-> ok,
       rl |-> [swept EXCEPT !.entries[ip] = IF ok THEN Append(valid, now) ELSE valid]]

-------------------------------------------------------------------------------
(* BanTracker                                                              *)

\* Variant with a fault: a sweep takes bans from the window's start on.
BanSweepEarly(bt, window) ==
  [failures  |-> [i \in IPs |-> {e \in bt.failures[i] : e.at > now - window}],
   banned    |-> [i \in IPs |-> IF bt.banned[i] <= now + window THEN None ELSE bt.banned[i]],
   lastSweep |-> now]

BanSweep(bt, window) ==
  [failures  |-> [i \in IPs |-> {e \in bt.failures[i] : e.at > now - window}],
   banned    |-> [i \in IPs |-> IF bt.banned[i] <= now THEN None ELSE bt.banned[i]],
   lastSweep |-> now]

\* A fingerprint that failed within the window is ignored, so it keeps its
\* first time stamp; expired entries go only when a new one comes.
recordFailure(bt, ip, account, window) ==
  LET recent == {e \in bt.failures[ip] : e.at > now - window}
  IN  IF \E e \in recent : e.account = account THEN bt
      ELSE [bt EXCEPT !.failures[ip] = recent \cup {[account |-> account, at |-> now]}]

\* Variant with a fault: one failure less is enough.
banOneEarly(bt, ip, c) ==
  IF Cardinality({e.account : e \in bt.failures[ip]}) >= c.failures - 1
  THEN [bt EXCEPT !.banned[ip] = now + c.duration] ELSE bt

\* Here an entry as old as the window still counts.
banIfSuspicious(bt, ip, c) ==
  LET valid == {e \in bt.failures[ip] : now - e.at <= clampWindow(c.banWindow)}
      kept  == [bt EXCEPT !.failures[ip] = valid]
  IN  IF Cardinality({e.account : e \in valid}) >= c.failures
      THEN [kept EXCEPT !.banned[ip] = now + c.duration] ELSE kept

recordAndBan(bt, ip, account, c) ==
  LET window == clampWindow(c.banWindow)
      swept  == IF DueForSweep(bt.lastSweep, window) THEN BanSweep(bt, window) ELSE bt
  IN  banIfSuspicious(recordFailure(swept, ip, account, window), ip, c)

\* IsBanned and ListBans remove a ban that is over.
Expire(bt, S) ==
  [bt EXCEPT !.banned = [i \in IPs |-> IF i \in S /\ bt.banned[i] <= now
                                       THEN None ELSE bt.banned[i]]]

IsBanned(ip) == now < tracker.banned[ip]

-------------------------------------------------------------------------------
(* A login, step by step                                                   *)

\* The request at its next step, for which it has yet to read the configuration.
At(r, at) == [r EXCEPT !.at = at, !.seen = {cfg}]

\* BanMiddleware.  A check with a configuration that has just been replaced is
\* the same as one a moment earlier, or does nothing.
Arrive(s, ip, account) ==
  /\ req[s] = Idle /\ left.requests > 0
  /\ left' = [left EXCEPT !.requests = @ - 1]
  /\ \/ /\ cfg.ban /\ IsBanned(ip)
        /\ UNCHANGED <<req, tracker>>
     \/ /\ cfg.ban /\ ~IsBanned(ip)
        /\ tracker' = Expire(tracker, {ip})
        /\ req' = [req EXCEPT ![s] = [at |-> "rate", ip |-> ip, account |-> account, seen |-> {cfg}]]
     \/ /\ ~cfg.ban
        /\ req' = [req EXCEPT ![s] = [at |-> "rate", ip |-> ip, account |-> account, seen |-> {cfg}]]
        /\ UNCHANGED tracker
  /\ UNCHANGED <<now, cfg, limiter, throttle, hist>>

RateLimit(s) ==
  /\ req[s].at = "rate"
  /\ \E c \in req[s].seen :
       LET ip  == req[s].ip
           res == Allow(limiter, ip, c)
       IN  IF c.limit
           THEN /\ limiter' = res.rl
                /\ req' = [req EXCEPT ![s] = IF res.ok THEN At(@, "login") ELSE Idle]
                /\ hist' = IF res.ok THEN [hist EXCEPT !.let[ip] = Append(@, now)] ELSE hist
           ELSE /\ req' = [req EXCEPT ![s] = At(@, "login")]
                /\ UNCHANGED <<limiter, hist>>
  /\ UNCHANGED <<now, cfg, tracker, throttle, left>>

\* Variant with a fault: an unset budget lets one more through.
attemptsPlusOne(c) == c.attempts + 1

\* loginThrottleConfig: an unset budget or cooldown is the default.
attempts(c) == IF c.attempts > 0 THEN c.attempts ELSE 10
cooldownOf(c) == IF c.cooldown > 0 THEN c.cooldown ELSE DefaultWindow
cooldown == cooldownOf(cfg)

\* The history of an account starts anew when a request still used an earlier
\* configuration, whose cooldown and budget are others.
ThrottleAllow(s) ==
  /\ req[s].at = "login"
  /\ \E c \in req[s].seen :
       LET a     == req[s].account
           valid == After(throttle[a], now - cooldownOf(c))
           ok    == Len(valid) < attempts(c)
       IN  /\ throttle' = [throttle EXCEPT ![a] = IF ok THEN Append(valid, now) ELSE valid]
           /\ req' = [req EXCEPT ![s] = IF ok THEN At(@, "verify") ELSE Idle]
           /\ hist' = [hist EXCEPT !.tried[a] = IF c # cfg THEN <<>>
                                                ELSE IF ok THEN Append(@, now) ELSE @]
  /\ UNCHANGED <<now, cfg, limiter, tracker, left>>

\* The comparison of the password takes its time; a failure is recorded against
\* the address.
LoginFails(s) ==
  /\ req[s].at = "verify"
  /\ \E c \in req[s].seen :
       LET ip == req[s].ip
       IN  IF c.ban
           THEN /\ tracker' = recordAndBan(tracker, ip, req[s].account, c)
                /\ hist' = [hist EXCEPT !.failed[ip] =
                              @ \cup {[account |-> req[s].account, at |-> now]}]
           ELSE UNCHANGED <<tracker, hist>>
  /\ req' = [req EXCEPT ![s] = Idle]
  /\ UNCHANGED <<now, cfg, limiter, throttle, left>>

Clear(a) == throttle' = [throttle EXCEPT ![a] = <<>>]

LoginSucceeds(s) ==
  /\ req[s].at = "verify"
  /\ Clear(req[s].account)
  /\ hist' = [hist EXCEPT !.tried[req[s].account] = <<>>]
  /\ req' = [req EXCEPT ![s] = Idle]
  /\ UNCHANGED <<now, cfg, limiter, tracker, left>>

-------------------------------------------------------------------------------

Change == left.changes > 0 /\ left' = [left EXCEPT !.changes = @ - 1]

\* span is the shortest window of the limiter that was ever in force.
UpdateConfig ==
  /\ Change
  /\ cfg' \in Configs \ {cfg}
  /\ hist' = [hist EXCEPT !.tried = [a \in Accounts |-> <<>>],
                          !.span = IF cfg'.limit /\ cfg'.window < @ THEN cfg'.window ELSE @]
  /\ req' = [s \in Slots |-> IF req[s] = Idle THEN Idle
                             ELSE [req[s] EXCEPT !.seen = @ \cup {cfg'}]]
  /\ UNCHANGED <<now, limiter, tracker, throttle>>

Unban(ip) ==
  /\ Change /\ tracker.banned[ip] # None
  /\ tracker' = [tracker EXCEPT !.banned[ip] = None]
  /\ UNCHANGED <<now, cfg, limiter, throttle, req, hist>>

ListBans ==
  /\ \E i \in IPs : tracker.banned[i] # None /\ ~IsBanned(i)
  /\ tracker' = Expire(tracker, IPs)
  /\ UNCHANGED <<now, cfg, limiter, throttle, req, left, hist>>

Tick ==
  /\ now < MaxTime
  /\ now' = now + 1
  /\ UNCHANGED <<cfg, limiter, tracker, throttle, req, left, hist>>

Step(s) == RateLimit(s) \/ ThrottleAllow(s) \/ LoginFails(s) \/ LoginSucceeds(s)

Next ==
  \/ \E s \in Slots : Step(s) \/ \E ip \in IPs, a \in Accounts : Arrive(s, ip, a)
  \/ UpdateConfig \/ ListBans \/ Tick \/ \E ip \in IPs : Unban(ip)

Spec == Init /\ [][Next]_vars

-------------------------------------------------------------------------------
(* Properties                                                              *)

Stamps == 0 .. MaxTime

\* The values the variables take; every other property presupposes it.
ThrottleTypeOK ==
  /\ now \in Stamps /\ cfg \in Configs
  /\ \A i \in IPs :
       /\ limiter.entries[i] \in Seq(Stamps)
       /\ tracker.failures[i] \subseteq [account : Accounts, at : Stamps]
       /\ tracker.banned[i] \in Int
  /\ \A a \in Accounts : throttle[a] \in Seq(Stamps)

\* The configurations that some request may be using.
InUse == UNION {req[s].seen : s \in {t \in Slots : req[t] # Idle}}

(***************************************************************************)
(* The limiter remembers exactly what it let through: within the shortest  *)
(* window in force so far its entries for an address are the requests it   *)
(* let through, whatever was swept and whatever the windows were.  It can  *)
(* thus neither let too many through nor refuse without a reason.  Of a    *)
(* window of zero or less, in which nothing lies, it says nothing.         *)
(***************************************************************************)
WindowExact ==
  \A i \in IPs : After(limiter.entries[i], now - hist.span)
                   = After(hist.let[i], now - hist.span)

\* An address is banned, or banned anew, in this step.
Bans(i) == tracker'.banned[i] \notin {tracker.banned[i], None}

(***************************************************************************)
(* Only an attack is banned: an address gets a ban when as many different  *)
(* accounts as configured failed from it within the window, so a client    *)
(* that repeats one wrong password is not banned, however long it does.    *)
(* The configuration is one that a request in flight may have read.        *)
(***************************************************************************)
BanSound ==
  [][\A i \in IPs :
       Bans(i) => \E c \in InUse :
                    Cardinality({f.account : f \in {e \in hist'.failed[i] :
                                   now - e.at <= clampWindow(c.banWindow)}})
                      >= c.failures]_vars

(***************************************************************************)
(* A ban holds: until it is over only the administrator lifts it, and no   *)
(* sweep, listing or late failure shortens it unless the configured        *)
(* duration became shorter.                                                *)
(***************************************************************************)
BanHolds ==
  [][\A i \in IPs :
       now < tracker.banned[i] /\ tracker'.banned[i] < tracker.banned[i]
         => \/ Unban(i)
            \/ \E c \in InUse : tracker'.banned[i] = now + c.duration]_vars

(***************************************************************************)
(* Guessing is slow: within a cooldown in which no login to an account     *)
(* succeeded, no more passwords are compared than the configured attempts, *)
(* from however many addresses they come.  It counts from the last change  *)
(* of the configuration on, and from the last request that still used an   *)
(* earlier one: the attempts of before were allowed by other limits.       *)
(***************************************************************************)
GuessBound ==
  \A a \in Accounts :
    cfg.attempts > 0 => Len(After(hist.tried[a], now - cooldown)) <= cfg.attempts
=============================================================================
