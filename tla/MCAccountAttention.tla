------------------------ MODULE MCAccountAttention ------------------------
(***************************************************************************)
(* Instances of AccountAttention for TLC.                                  *)
(***************************************************************************)
EXTENDS AccountAttention

CONSTANTS a1, a2, A, k1

\* One account, which may leave the bus and come back as another object.
ReaddedObjects == {a1, a2}
OneId == {A}
ReaddedIdOf == [o \in ReaddedObjects |-> A]

OneCall == {k1}
FourNotificationIds == 1 .. 4
=============================================================================
