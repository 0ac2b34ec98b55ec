------------------------ MODULE MCEnsureCredentials ------------------------
(***************************************************************************)
(* Instances of EnsureCredentials for TLC.                                 *)
(***************************************************************************)
EXTENDS EnsureCredentials, TLC

CONSTANTS a1, a2, b1, c1, A, B, C, k1, k2

\* One account that is removed and added again, and another one.
ReaddedObjects == {a1, a2, b1}
ReaddedIds == {A, B}
ReaddedIdOf == (a1 :> A) @@ (a2 :> A) @@ (b1 :> B)

\* A third account: a task runs while two others wait in a row.
ThreeIds == {A, B, C}
FourObjects == ReaddedObjects \cup {c1}
FourIdOf == ReaddedIdOf @@ (c1 :> C)

TwoCalls == {k1, k2}

\* Either the objects of the first two accounts come and go while the third
\* does not exist, or three accounts stay exported and their credentials as
\* they are: the order of the queue depends on neither.
QueueInit ==
    /\ Init
    /\ c1 \in exported => exported = {a1, b1, c1}
    /\ c1 \notin exported => credentials[C] = "valid"

QueueNext ==
    /\ Next
    /\ c1 \in exported => UNCHANGED envVars
    /\ c1 \notin exported => c1 \notin exported' /\ credentials'[C] = "valid"

QueueSpec == QueueInit /\ [][QueueNext]_vars

CallSymmetry == Permutations(Calls)
=============================================================================
