------------------------------- MODULE MCClient -------------------------------
(***************************************************************************)
(* Client with a few clicks and pings.                                     *)
(***************************************************************************)
EXTENDS Client
=============================================================================
