------------------------------ MODULE MCAccounts ------------------------------
(***************************************************************************)
(* Small instances of Accounts for TLC.                                    *)
(***************************************************************************)
EXTENDS Accounts, TLC

CONSTANTS google, azure, r1, r2, l1

MCNames == {1, 2}
MCThreeNames == {1, 2, 3}
MCProviders == {google, azure}
MCOneProvider == {google}

\* Two administrators whose requests overlap.
MCRequests == {r1, r2}
MCOneLogin == {l1}

\* Every request, with updates that change one field each.
MCAsked ==
  {in \in Input : in.kind = "update" =>
     Cardinality({f \in {"name", "reset", "role"} :
       CASE f = "name" -> in.name # NoName
         [] f = "reset" -> in.reset
         [] f = "role" -> in.role # "keep"}) = 1}

\* What it takes to lose every guarantee at once: a rename beside a deletion of
\* the same user, two deletions, internal auth off beside the last provider.
MCOverlapping ==
  {[kind |-> "update", id |-> 1, name |-> 3, reset |-> FALSE, role |-> "keep"],
   [kind |-> "delete", id |-> 1], [kind |-> "delete", id |-> 2],
   [kind |-> "flag", on |-> FALSE], [kind |-> "drop", key |-> google]}

\* A behaviour starts from any store, or from the one of those requests: two
\* administrators, one user more, and one provider.
MCStores ==
  {FirstStore(U, A, flag, list) : U \in SUBSET Names, A \in SUBSET Names,
                                  flag \in {"unset", "on", "off"}, list \in ShortLists}
MCFullStore == {FirstStore(Names, {1, 2}, "on", <<google>>)}

\* The two requests are interchangeable.
Symmetry == Permutations(MCRequests)
===============================================================================
