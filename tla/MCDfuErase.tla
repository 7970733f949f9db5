------------------------------ MODULE MCDfuErase ------------------------------
(* The boot flash and an erase alt.                                          *)
EXTENDS DfuErase

MCAlts == {0, 1}
MCTailBytes == [a \in MCAlts |-> 1]
=============================================================================
