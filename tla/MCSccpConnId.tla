---------------------------- MODULE MCSccpConnId ----------------------------
(***************************************************************************)
(* SccpConnId with an id space small enough to be exhausted.               *)
(***************************************************************************)
EXTENDS SccpConnId
=============================================================================
