------------------------------ MODULE MCClient ------------------------------
(* Messages and options for the model checker.                              *)
EXTENDS Client

CONSTANTS c1, c2, k1, k2

Plain == [type |-> "push", ready |-> FALSE, wrap |-> NoSeal, seal |-> NoSeal,
          text |-> "text", headers |-> TRUE]

Seal(alg, key, ctx) == [alg |-> alg, key |-> key, ctx |-> ctx]

MCMessages ==
  {Plain,
   [Plain EXCEPT !.type = "ping", !.seal = Seal("nacl", k1, None)],
   [Plain EXCEPT !.seal = Seal("nacl", k1, c2)],
   [Plain EXCEPT !.wrap = Seal("aes", k2, c1), !.text = "ready"]}

MCMaxMessages == [c \in Commands |-> IF c = "client" THEN 2 ELSE 3]

MCOptions ==
  {[save |-> TRUE, forward |-> TRUE, exec |-> TRUE, execOn |-> {"push"},
    aes |-> None, nacl |-> k1, resume |-> FALSE, ignore |-> {"ping"}],
   [save |-> FALSE, forward |-> FALSE, exec |-> TRUE, execOn |-> {},
    aes |-> k2, nacl |-> k2, resume |-> TRUE, ignore |-> {}]}
=============================================================================
