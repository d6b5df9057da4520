------------------------------- MODULE MCStcp -------------------------------
EXTENDS Stcp, TLC
ThreeAndOne == Active :> 3 @@ Passive :> 1
TwoAndOne == Active :> 2 @@ Passive :> 1
=============================================================================
