------------------------- MODULE MCIdentityLifetime -------------------------
(***************************************************************************)
(* An instance of IdentityLifetime for TLC: one cache and two changes, or  *)
(* two caches and one change.                                              *)
(***************************************************************************)
EXTENDS IdentityLifetime

CONSTANTS n1, n2

VARIABLE scenario

TwoNames == {n1, n2}

Ticket(start, end, renewable) == [start |-> start, end |-> end, renewable |-> renewable]

\* One that can be renewed, one that takes its place, and one that ends with it.
ThreeTickets == {Ticket(0, 2, TRUE), Ticket(1, 3, TRUE), Ticket(0, 3, FALSE)}

\* What a scenario is confined to.
Confined ==
    CASE scenario = "one cache" -> caches[n2] = NoCache
      [] scenario = "two caches" -> changes <= 1

MCInit == Init /\ scenario \in {"one cache", "two caches"} /\ Confined

MCNext == Next /\ UNCHANGED scenario /\ Confined'

MCSpec == MCInit /\ [][MCNext]_<<vars, scenario>>
=============================================================================
