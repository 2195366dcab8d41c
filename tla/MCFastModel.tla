---------------------------- MODULE MCFastModel ----------------------------
(***************************************************************************)
(* FastModel on the sample requests, each handed to the model that an      *)
(* earlier call has left behind.                                           *)
(***************************************************************************)
EXTENDS SampleRequests, FastModel
=============================================================================
