----------------------------- MODULE MCLtFraming -----------------------------
(* The instance of LtFraming for TLC: its constants are in LtFraming.cfg.     *)
EXTENDS LtFraming, TLC
=============================================================================
