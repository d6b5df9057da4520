-------------------------------- MODULE MCWeb --------------------------------
(* The instance of Web for TLC: its constants are given in Web.cfg.           *)
EXTENDS Web, TLC
=============================================================================
