----------------------------- MODULE MCGameSession -----------------------------
(***************************************************************************)
(* GameSession for TLC; every constant is a number.                        *)
(***************************************************************************)
EXTENDS GameSession
=============================================================================
