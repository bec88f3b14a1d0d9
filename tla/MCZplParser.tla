---------------------------- MODULE MCZplParser -----------------------------
(***************************************************************************)
(* All texts, with one word that is no keyword.                            *)
(***************************************************************************)
EXTENDS ZplParser
=============================================================================
