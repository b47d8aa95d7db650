-------------------------- MODULE MCRefreshTokens --------------------------
(***************************************************************************)
(* The instance of RefreshTokens that TLC checks.                          *)
(***************************************************************************)
EXTENDS RefreshTokens, TLC
=============================================================================
