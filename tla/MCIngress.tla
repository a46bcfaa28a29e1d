----------------------------- MODULE MCIngress ------------------------------
(* Bodies, changes and configurations for the model checker.                *)
EXTENDS Ingress, TLC

CONSTANTS k1, k2, t1, t2

MCGlobals == {[secret |-> None, ttl |-> 0, known |-> FALSE],
              [secret |-> None, ttl |-> 1, known |-> TRUE],
              [secret |-> k2, ttl |-> 1, known |-> TRUE]}

Set(patch) == [op |-> "set", patch |-> patch]
Token(id, scope) == [op |-> "token", token |-> [id |-> id, scope |-> scope]]
Globally(G) == {[op |-> "global", global |-> g] : g \in G}

\* Who may post, and what becomes of the body.
MCBodies ==
  {[sig |-> k1, token |-> t1, cipher |-> FALSE], [sig |-> None, token |-> t1, cipher |-> FALSE],
   [sig |-> k2, token |-> t2, cipher |-> TRUE], [sig |-> None, token |-> None, cipher |-> FALSE]}

\* Tokens and secrets; encryption and retention; the channel as a whole.
MCChanges ==
  {Set([secret |-> k1]), Token(t1, "produce"), Token(t2, "consume"), [op |-> "revoke", id |-> t1],
   Set([mode |-> "e2e"]), Set([pub |-> TRUE]), Set([mode |-> "server_side", key |-> TRUE]),
   Set([mode |-> "", ttl |-> 0]), Set([ttl |-> 2]),
   [op |-> "create", patch |-> [secret |-> k1]],
   [op |-> "create", patch |-> [mode |-> "server_side"]], [op |-> "delete"]}
  \cup Globally({g \in MCGlobals : g.known})

\* Two secrets, the channel's and the global one, of which one is always set.
SecretBodies == {b \in MCBodies : b.sig = None}
SecretGlobals == {[secret |-> s, ttl |-> 0, known |-> FALSE] : s \in {None, k2}}
SecretChanges == {Set([secret |-> k1])} \cup Globally(SecretGlobals)

MCSymmetry == Permutations(Admins)
=============================================================================
