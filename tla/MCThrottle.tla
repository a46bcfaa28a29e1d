----------------------------- MODULE MCThrottle -----------------------------
(* Configurations with windows at their edges for the model checker.        *)
EXTENDS Throttle, TLC

\* One with limits, one whose limiter has no window and that does not ban, and
\* one that leaves what it can unset.
MCConfigs == {
  [limit |-> TRUE, requests |-> 2, window |-> 3, ban |-> TRUE, failures |-> 2,
   banWindow |-> 3, duration |-> 2, attempts |-> 2, cooldown |-> 2],
  [limit |-> TRUE, requests |-> 1, window |-> 0, ban |-> FALSE, failures |-> 0,
   banWindow |-> 0, duration |-> 0, attempts |-> 1, cooldown |-> 0],
  [limit |-> FALSE, requests |-> 0, window |-> 0, ban |-> TRUE, failures |-> 2,
   banWindow |-> 0, duration |-> 1, attempts |-> 0, cooldown |-> 1]}

MCSymmetry == Permutations(IPs) \cup Permutations(Accounts) \cup Permutations(Slots)
=============================================================================
