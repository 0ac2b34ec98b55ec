--------------------------- MODULE MCOAuth2Tokens ---------------------------
(***************************************************************************)
(* An instance of OAuth2Tokens for TLC.                                    *)
(***************************************************************************)
EXTENDS OAuth2Tokens

CONSTANTS o1, o2, k1

TwoObjects == {o1, o2}
OneClient == {k1}
=============================================================================
