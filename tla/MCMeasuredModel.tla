--------------------------- MODULE MCMeasuredModel ---------------------------
(***************************************************************************)
(* MeasuredModel on the sample paths, each handed to the model that an     *)
(* earlier call has left behind.                                           *)
(***************************************************************************)
EXTENDS SampleMeasures, MeasuredModel
=============================================================================
