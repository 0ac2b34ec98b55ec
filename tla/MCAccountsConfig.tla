-------------------------- MODULE MCAccountsConfig --------------------------
(***************************************************************************)
(* Instances of AccountsConfig for TLC.                                    *)
(***************************************************************************)
EXTENDS AccountsConfig, TLC

CONSTANTS a, b

OneId == {a}
TwoIds == {a, b}
NoIds == {}

NoTemplates == {}
BothTemplates == {"account", "remove"}

AnyFailure == {"keyring", "kill", "disk"}
KeyringFailure == {"keyring"}
KillFailure == {"kill"}
KeyringAndKill == {"keyring", "kill"}
NoFailure == {}

IdSymmetry == Permutations(Ids)
=============================================================================
