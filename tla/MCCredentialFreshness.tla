----------------------- MODULE MCCredentialFreshness -----------------------
(***************************************************************************)
(* Instances of CredentialFreshness for TLC.                               *)
(***************************************************************************)
EXTENDS CredentialFreshness, TLC

CONSTANTS a1, b1, A, B, k1, k2

TwoObjects == {a1, b1}
TwoIds == {A, B}
TwoIdOf == (a1 :> A) @@ (b1 :> B)
TwoCalls == {k1, k2}

CallSymmetry == Permutations(Calls)
=============================================================================
