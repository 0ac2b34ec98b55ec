-------------------------- MODULE MCIdentityService --------------------------
(***************************************************************************)
(* An instance of IdentityService for TLC.  Two changes of one principal,  *)
(* or one change of either of two, of which the second has no account, no  *)
(* calls and no cache whose ticket is dead at the start.                   *)
(***************************************************************************)
EXTENDS IdentityService

CONSTANTS p1, p2, c1

VARIABLE scenario

TwoPrincipals == {p1, p2}
OneCall == {c1}

MCInit ==
    /\ Init /\ Accounts(p2) = 0
    /\ \/ scenario = "one principal" /\ cache[p2] = "none"
       \/ scenario = "two principals" /\ cache[p2] # "dead"

Absent(p) == cache'[p] = "none" /\ Accounts(p)' = 0
NotCalled(p) ==
    \A i \in 1 .. Len(queue') : queue'[i].kind \in {"sign in", "get"} => queue'[i].id # p

MCNext ==
    /\ Next /\ UNCHANGED scenario
    /\ NotCalled(p2)
    /\ scenario = "one principal" => Absent(p2)
    /\ scenario = "two principals" => changes' <= 1

MCSpec == MCInit /\ [][MCNext]_<<vars, scenario>> /\ Fairness
=============================================================================
