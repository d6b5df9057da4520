--------------------------- MODULE MCFileTransfer ---------------------------
EXTENDS FileTransfer, TLC
Unused == [e \in Ends |-> 0]
=============================================================================
