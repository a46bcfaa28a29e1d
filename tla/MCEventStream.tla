----------------------------- MODULE MCEventStream -----------------------------
(***************************************************************************)
(* A small instance of EventStream for TLC.                                *)
(***************************************************************************)
EXTENDS EventStream, TLC

CONSTANTS c1, s1, alice

MCChannels == {c1}
MCStreams == {s1}
MCClients == {alice}

\* Every stream is of the same client, who comes back any number of times.
MCClientOf == [s \in Streams |-> alice]
===============================================================================
