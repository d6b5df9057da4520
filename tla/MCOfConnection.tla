---------------------------- MODULE MCOfConnection ----------------------------
(* The instance of OfConnection for TLC: its constants are given in the cfgs. *)
EXTENDS OfConnection, TLC
=============================================================================
