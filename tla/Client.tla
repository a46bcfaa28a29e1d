------------------------------- MODULE Client -------------------------------
(***************************************************************************)
(* The two commands that carry webhooks to a local target:                 *)
(*                                                                         *)
(*  client  subscribes to a channel of the server and handles each message *)
(*          (clientSetup in internal/client/client.go); the subscription   *)
(*          is renewed whenever it breaks.                                 *)
(*  replay  polls the GitHub API for the deliveries of a hook (replayHooks *)
(*          in internal/client/replay.go).                                 *)
(*                                                                         *)
(* Both save the payload, forward it and run a command, in different       *)
(* orders, and both go on with the next message after a failure.  The SSE  *)
(* library, the server (see EventStream), GitHub and the target are the    *)
(* environment.  Time is in seconds, the precision of a delivery's time.   *)
(***************************************************************************)
EXTENDS Integers, FiniteSets, Sequences, SequencesExt

CONSTANTS
  Commands,     \* "client", "replay" or both
  Options,      \* the command line options
  Messages,     \* what may be published: see Accepted
  Channel,      \* the channel of the client
  PerPage,      \* deliveries GitHub lists at most
  MaxMessages,  \* bound, for each command: messages published
  MaxBreaks, MaxTime  \* bounds: failures of the environment, and seconds

ASSUME ClientAssumption ==
  /\ Commands \subseteq {"client", "replay"}
  /\ PerPage \in Nat \ {0}
  /\ MaxMessages \in [Commands -> Nat] /\ MaxBreaks \in Nat /\ MaxTime \in Nat

VARIABLES
  cmd, opts,  \* the command and its options
  log,        \* what was published, each with its time
  now,
  proc,       \* "up" or "down"
  link,       \* client: the subscription and its reader
  since,      \* replay: deliveries before this time are done
  batch,      \* replay: the deliveries still to handle, and their last
  job,        \* the message being handled
  did,        \* history: the effects, in order
  breaks      \* connections and messages lost, processes ended

vars == <<cmd, opts, log, now, proc, link, since, batch, job, did, breaks>>

None == "none"
NoSeal == [alg |-> None, key |-> None, ctx |-> None]
Idle == [id |-> 0, at |-> "idle", try |-> 0, todo |-> <<>>]
NoBatch == [todo |-> <<>>, last |-> 0]
NoLink == [up |-> FALSE, conn |-> 0, first |-> 1, pos |-> 1, held |-> 0, lost |-> {}]
Tries == 3

-------------------------------------------------------------------------------
(* One message                                                             *)

\* Variant with a fault: only the key is looked at.
KeyOpens(seal, key) == seal.key = key

\* What a decryption makes of a sealed text: a NaCl envelope of version 1 is
\* bound to no channel, the others to one.
Opens(seal, key) ==
  /\ seal.key = key
  /\ seal.ctx = Channel \/ (seal.alg = "nacl" /\ seal.ctx = None)

KeyFor(alg, o) == IF alg = "aes" THEN o.aes ELSE o.nacl

\* A text no key is configured for is left as it is.
Unsealed(seal, o) ==
  IF seal = NoSeal \/ KeyFor(seal.alg, o) = None THEN "asis"
  ELSE IF Opens(seal, KeyFor(seal.alg, o)) THEN "open" ELSE "error"

\* parse fails for a message without headers and body.  An event of the ignore
\* list is logged as skipped, and goes on like any other.
Parsed(m, o) == m.type \in o.ignore \/ m.headers \/ m.text # ""

\* The callback's early returns: connection messages, an envelope or a body that
\* does not decrypt, an envelope without headers, a body that says "ready".  An
\* envelope that stays sealed has no headers.
Accepted(m, o) ==
  /\ ~m.ready
  /\ m.wrap = NoSeal \/ Unsealed(m.wrap, o) = "open"
  /\ Parsed(m, o)
  /\ Unsealed(m.seal, o) # "error"
  /\ m.text = "ready" => m.seal # NoSeal /\ Unsealed(m.seal, o) = "asis"
  /\ m.headers

ExecWanted(m, o) == o.exec /\ (o.execOn = {} \/ m.type \in o.execOn)

\* The steps of a message in their order; replay forwards before it saves and
\* does so whatever --noReplay says.
Pipeline(c, m, o) ==
  LET save == IF o.save THEN <<"save">> ELSE <<>>
      forward == IF o.forward \/ c = "replay" THEN <<"forward">> ELSE <<>>
      exec == IF ExecWanted(m, o) THEN <<"exec">> ELSE <<>>
  IN  IF c = "client" THEN save \o forward \o exec ELSE forward \o save \o exec

-------------------------------------------------------------------------------

\* replay starts with deliveries of the next second, or with --time-since.
Init ==
  /\ cmd \in Commands /\ opts \in Options
  /\ log = <<>> /\ now = 0 /\ proc = "up"
  /\ link = NoLink
  /\ since \in {0, 1}
  /\ batch = NoBatch /\ job = Idle
  /\ did = <<>> /\ breaks = 0

Running(c) == cmd = c /\ proc = "up"

-------------------------------------------------------------------------------
(* The environment                                                         *)

Publish(m) ==
  /\ Len(log) < MaxMessages[cmd]
  /\ log' = Append(log, [msg |-> m, time |-> now])
  /\ UNCHANGED <<cmd, opts, now, proc, link, since, batch, job, did, breaks>>

Tick ==
  /\ cmd = "replay" /\ now < MaxTime
  /\ now' = now + 1
  /\ UNCHANGED <<cmd, opts, log, proc, link, since, batch, job, did, breaks>>

\* The connection ends in an error.
Break ==
  /\ link.up /\ breaks < MaxBreaks
  /\ link' = [link EXCEPT !.up = FALSE]
  /\ breaks' = breaks + 1
  /\ UNCHANGED <<cmd, opts, log, now, proc, since, batch, job, did>>

\* The server does not send the next message: it dropped it for a slow client,
\* evicted or expired it, or left it out of a long history (see EventStream).
Lose ==
  /\ Running("client") /\ link.up /\ link.held = 0 /\ link.pos <= Len(log)
  /\ breaks < MaxBreaks
  /\ link' = [link EXCEPT !.pos = @ + 1, !.lost = @ \cup {link.pos}]
  /\ breaks' = breaks + 1
  /\ UNCHANGED <<cmd, opts, log, now, proc, since, batch, job, did>>

\* The client is killed, or Subscribe returns and the command with it.
Exit ==
  /\ cmd = "client" /\ proc = "up" /\ breaks < MaxBreaks
  /\ proc' = "down" /\ job' = Idle
  /\ link' = [NoLink EXCEPT !.conn = link.conn]
  /\ breaks' = breaks + 1
  /\ UNCHANGED <<cmd, opts, log, now, since, batch, did>>

Restart ==
  /\ cmd = "client" /\ proc = "down"
  /\ proc' = "up"
  /\ UNCHANGED <<cmd, opts, log, now, link, since, batch, job, did, breaks>>

-------------------------------------------------------------------------------
(* client: the subscription                                                *)

\* The loop sees the error of the last connection only when it has handled
\* what was read from it.
Quiet == link.held = 0 /\ job = Idle

\* Variant with a fault: a second failure is final.
ConnectOnce ==
  /\ link.conn < 2
  /\ Running("client") /\ ~link.up /\ Quiet
  /\ \E i \in IF opts.resume THEN 1 .. Len(log) + 1 ELSE {1} :
       link' = [up |-> TRUE, conn |-> link.conn + 1, first |-> i, pos |-> i, held |-> 0,
                lost |-> {}]
  /\ UNCHANGED <<cmd, opts, log, now, proc, since, batch, job, did, breaks>>

\* The reconnection strategy never gives up.  The server starts with the oldest
\* message, or with --resume with the position it keeps for the client; what it
\* no longer has, Lose skips.
Connect ==
  /\ Running("client") /\ ~link.up /\ Quiet
  /\ \E i \in IF opts.resume THEN 1 .. Len(log) + 1 ELSE {1} :
       link' = [up |-> TRUE, conn |-> link.conn + 1, first |-> i, pos |-> i, held |-> 0,
                lost |-> {}]
  /\ UNCHANGED <<cmd, opts, log, now, proc, since, batch, job, did, breaks>>

\* The reader goroutine has one message at a time to hand over.
Read ==
  /\ Running("client") /\ link.up /\ link.held = 0 /\ link.pos <= Len(log)
  /\ link' = [link EXCEPT !.held = link.pos, !.pos = @ + 1]
  /\ UNCHANGED <<cmd, opts, log, now, proc, since, batch, job, did, breaks>>

\* Start of the pipeline, for one message.
Begin(i) ==
  LET todo == Pipeline(cmd, log[i].msg, opts)
  IN  IF todo = <<>> THEN Idle ELSE [id |-> i, at |-> "run", try |-> 0, todo |-> todo]

\* The callback up to its first effect.
Handle ==
  /\ Running("client") /\ job = Idle /\ link.held # 0
  /\ job' = IF Accepted(log[link.held].msg, opts) THEN Begin(link.held) ELSE Idle
  /\ link' = [link EXCEPT !.held = 0]
  /\ UNCHANGED <<cmd, opts, log, now, proc, since, batch, did, breaks>>

-------------------------------------------------------------------------------
(* The steps of the pipeline                                               *)

\* Variant with a fault: a message that could not be forwarded goes on.
AfterAll(stage, ok) ==
  IF Len(job.todo) > 1 THEN [job EXCEPT !.todo = Tail(@)] ELSE Idle

\* A step that fails ends the message, and a command that fails is only logged.
After(stage, ok) ==
  IF (ok \/ stage = "exec") /\ Len(job.todo) > 1
  THEN [job EXCEPT !.todo = Tail(@)] ELSE Idle

Run(stage) ==
  /\ proc = "up" /\ job.at = "run" /\ Head(job.todo) = stage
  /\ \E ok \in BOOLEAN :
       /\ did' = Append(did, [stage |-> stage, id |-> job.id, conn |-> link.conn,
                           ok |-> ok \/ stage = "exec"])
       /\ job' = After(stage, ok)
  /\ UNCHANGED <<cmd, opts, log, now, proc, link, since, batch, breaks>>

saveData == Run("save")

\* The request has a timeout, so has the command.
replayData == Run("forward")

runExecCommand == Run("exec")

-------------------------------------------------------------------------------
(* replay                                                                  *)

\* The listed deliveries down to the first that is too old.
Recent(page, from) == {i \in page : \A j \in page : j >= i => log[j].time >= from}

\* Variant with a fault: the list is left as GitHub gives it, newest first.
chooseNewestFirst(page, from) ==
  {f \in [1 .. Cardinality(Recent(page, from)) -> Recent(page, from)] :
     \A i, j \in DOMAIN f : i < j => f[i] > f[j]}

\* The deliveries to replay, oldest first (there is one such list).
chooseDeliveries(page, from) ==
  {f \in [1 .. Cardinality(Recent(page, from)) -> Recent(page, from)] :
     \A i, j \in DOMAIN f : i < j => f[i] < f[j]}

Page == {i \in 1 .. Len(log) : i > Len(log) - PerPage}

List ==
  /\ Running("replay") /\ job = Idle /\ batch = NoBatch
  /\ \E chosen \in chooseDeliveries(Page, since) :
       /\ chosen # <<>>
       /\ batch' = [todo |-> chosen, last |-> chosen[Len(chosen)]]
  /\ UNCHANGED <<cmd, opts, log, now, proc, link, since, job, did, breaks>>

NextDelivery ==
  /\ Running("replay") /\ job = Idle /\ batch.todo # <<>>
  /\ job' = [id |-> Head(batch.todo), at |-> "fetch", try |-> 1, todo |-> <<>>]
  /\ batch' = [batch EXCEPT !.todo = Tail(@)]
  /\ UNCHANGED <<cmd, opts, log, now, proc, link, since, did, breaks>>

\* A delivery is fetched three times, found or not; the last answer counts.
GetHookDelivery ==
  /\ Running("replay") /\ job.at = "fetch"
  /\ job' = IF job.try < Tries THEN [job EXCEPT !.try = @ + 1] ELSE Begin(job.id)
  /\ UNCHANGED <<cmd, opts, log, now, proc, link, since, batch, did, breaks>>

\* A failing list or fetch ends the command, so does a delivery that is not to
\* be found at the last try.
GitHubFails ==
  /\ Running("replay") /\ breaks < MaxBreaks
  /\ (job = Idle /\ batch = NoBatch) \/ job.at = "fetch"
  /\ proc' = "down" /\ job' = Idle /\ breaks' = breaks + 1
  /\ UNCHANGED <<cmd, opts, log, now, link, since, batch, did>>

\* Variant with a fault: the next poll skips one second more.
SincePlusTwo(i) == log[i].time + 2

\* The next poll starts a second after the newest delivery handled.
SinceAfter(i) == log[i].time + 1

Advance ==
  /\ Running("replay") /\ job = Idle /\ batch # NoBatch /\ batch.todo = <<>>
  /\ since' = SinceAfter(batch.last)
  /\ batch' = NoBatch
  /\ UNCHANGED <<cmd, opts, log, now, proc, link, job, did, breaks>>

-------------------------------------------------------------------------------

Own == \/ Connect \/ Read \/ Handle
       \/ saveData \/ replayData \/ runExecCommand
       \/ List \/ NextDelivery \/ GetHookDelivery \/ Advance

Next == \/ \E m \in Messages : Publish(m)
        \/ Tick \/ Break \/ Lose \/ Exit \/ Restart \/ GitHubFails \/ Own

Spec == Init /\ [][Next]_vars

\* The command goes on by itself: its waits have timeouts, the server can be
\* reached again and GitHub answers.
FairSpec == Spec /\ WF_vars(Own)

-------------------------------------------------------------------------------
(* Properties                                                              *)

Ids == 1 .. Len(log)

\* The values the variables take; every other property presupposes it.
ClientTypeOK ==
  /\ proc \in {"up", "down"} /\ now \in 0 .. MaxTime
  /\ job.id \in 0 .. Len(log) /\ Len(job.todo) \in 0 .. 3
  /\ (job.at = "run") = (job.todo # <<>>)
  /\ link.held \in 0 .. Len(log) /\ link.first <= link.pos /\ link.pos <= Len(log) + 1
  /\ ToSet(batch.todo) \subseteq Ids
  /\ since \in 0 .. now + 1

\* The place of a step in the pipeline of a command.
Rank(c, stage) == CHOOSE k \in 1 .. 3 :
  (IF c = "client" THEN <<"save", "forward", "exec">> ELSE <<"forward", "save", "exec">>)[k] = stage

(***************************************************************************)
(* The effects of a connection come in the order of publication, each at   *)
(* most once, and those of a message in the order of the pipeline: the     *)
(* command "runs synchronously after the webhook is forwarded"             *)
(* (README.md:377).  For replay this covers all polls together: no         *)
(* delivery is replayed twice.                                             *)
(***************************************************************************)
InOrder ==
  \A i, j \in DOMAIN did :
    i < j /\ did[i].conn = did[j].conn =>
      \/ did[i].id < did[j].id
      \/ did[i].id = did[j].id /\ Rank(cmd, did[i].stage) < Rank(cmd, did[j].stage)

\* The effects a message had on the present connection.
Effects(i) == {k \in DOMAIN did : did[k].id = i /\ did[k].conn = link.conn}

\* The messages of the present connection that are done with.
Done ==
  {i \in Ids : /\ cmd = "client" /\ proc = "up"
               /\ link.first <= i /\ i < link.pos
               /\ i \notin link.lost \cup {link.held, job.id}}

(***************************************************************************)
(* A failure stays with its message: every message that was read and can   *)
(* be opened was saved, forwarded and given to the command, in as far as   *)
(* the options ask for it, up to the first failure to save or forward; and *)
(* nothing sealed with another key or for another channel was.  An event   *)
(* of the ignore list is no exception, see IgnoredSkipped.                 *)
(***************************************************************************)
FailuresIsolated ==
  \A i \in Done :
    LET m == log[i].msg
        done == {did[k].stage : k \in Effects(i)}
        failed == \E k \in Effects(i) : ~did[k].ok
        foreign == \E s \in {m.wrap, m.seal} :
                     s # NoSeal /\ KeyFor(s.alg, opts) # None
                       /\ (s.key # KeyFor(s.alg, opts) \/ s.ctx \notin {Channel, None})
        wanted == ToSet(Pipeline(cmd, m, opts))
    IN  /\ foreign => done = {}
        /\ Accepted(m, opts) /\ ~failed => done = wanted
        /\ failed => "exec" \notin done

(***************************************************************************)
(* An event of the ignore list has no effect: "You can ignore certain      *)
(* events [...] with one or more --ignore-event flags" (README.md:342).    *)
(* parse logs such an event as skipped and the callback handles it all the *)
(* same; replay does not look at the list.                                 *)
(***************************************************************************)
IgnoredSkipped == \A k \in DOMAIN did : log[did[k].id].msg.type \notin opts.ignore

Handled(i) == \E k \in DOMAIN did : did[k].id = i

\* GitHub gives a time in whole seconds and one page.
Crowded(i) ==
  \/ \E j \in Ids : j < i /\ log[j].time = log[i].time
  \/ Len(log) - i >= PerPage

(***************************************************************************)
(* The polls of replay fit together: a delivery that polling has gone past *)
(* was replayed, unless an earlier one has the same second or the page was *)
(* full.                                                                   *)
(***************************************************************************)
PollsMeet ==
  \A i \in Ids : cmd = "replay" /\ log[i].time >= 1 /\ log[i].time < since
                   => Handled(i) \/ Crowded(i)

Replayed(i) == cmd = "replay" /\ (Crowded(i) \/ log[i].time < 1)

NotForUs(i) == cmd = "client" /\ (opts.resume \/ ~Accepted(log[i].msg, opts)
                                   \/ Pipeline(cmd, log[i].msg, opts) = <<>>)

(***************************************************************************)
(* Whatever connections break and messages fail, a message that the server *)
(* sends reaches the pipeline as long as the command runs: "Configured     *)
(* reconnection strategy to retry indefinitely"                            *)
(* (internal/client/client.go:758).  Without --resume, for which the       *)
(* server decides; and as PollsMeet says.                                  *)
(***************************************************************************)
EventuallyHandled ==
  \A i \in UNION {1 .. MaxMessages[c] : c \in Commands} :
    i \in Ids ~> i \in Ids /\ (Handled(i) \/ proc = "down" \/ i \in link.lost
                             \/ Replayed(i) \/ NotForUs(i))
=============================================================================
