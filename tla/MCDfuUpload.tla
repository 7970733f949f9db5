----------------------------- MODULE MCDfuUpload ------------------------------
(* A gadget with two flashes and no erase alt; the second flash ends in the  *)
(* middle of a block.                                                        *)
EXTENDS DfuUpload

MCAlts == {0, 1}
MCTailBytes == [a \in MCAlts |-> IF a = 1 THEN 1 ELSE 2]
=============================================================================
