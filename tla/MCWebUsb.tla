------------------------------ MODULE MCWebUsb ------------------------------
(* A ROM, the gadget it becomes, and a device that is not Ingenic's.        *)
EXTENDS WebUsb

CONSTANTS rom, gadget, mouse
=============================================================================
