------------------------------ MODULE MCServer ------------------------------
(***************************************************************************)
(* Small instances of Server for TLC.  Requests with the same role are     *)
(* interchangeable.                                                        *)
(***************************************************************************)
EXTENDS ServerSafety, TLC

WritersAlike == Permutations(Writes)
=============================================================================
