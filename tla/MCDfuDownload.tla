---------------------------- MODULE MCDfuDownload ----------------------------
(* A two-block image on a gadget with a flash alt and an erase alt.          *)
EXTENDS DfuDownload

MCAlts == {0, 1, 2}
MCTailBytes == [a \in MCAlts |-> 1]
=============================================================================
