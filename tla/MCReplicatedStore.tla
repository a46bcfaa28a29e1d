-------------------------- MODULE MCReplicatedStore --------------------------
(* Instances of the replicated store for TLC.                              *)
EXTENDS ReplicatedStore, TLC

CONSTANTS n1, n2, c1

MCTwoNodes == {n1, n2}
MCOneNode == {n1}
MCChannels == {c1}
MCNoChannels == {}
MCNames == 1 .. 3
MCNoNames == {}
MCNoFiles == {}
\* With a session secret, without one, and with nothing but a channel.
MCFiles == {[k \in {ConfigKey, DefaultsKey, ChannelKey(c1)} |->
               IF k = ConfigKey THEN secret ELSE FromFile] : secret \in {FromFile, Default}}
             \cup {[k \in {ChannelKey(c1)} |-> FromFile]}
MCSymmetry == Permutations(MCTwoNodes)
=============================================================================
