----------------------------- MODULE FlashWrite ------------------------------
(***************************************************************************)
(* What a caller of tdfu_dfu_download is promised, with the USB transport  *)
(* left out: while a write runs it may leave anything in the medium behind *)
(* the alt it was given and nothing in any other; it reports success only  *)
(* when that medium holds the image; and once it has returned the media    *)
(* stay as they are.                                                       *)
(***************************************************************************)
CONSTANTS Alts, Targets

VARIABLES
  media,    \* per alt: does it hold the image
  target,   \* the alt the caller asked for
  outcome   \* "running", "success" or "failure"

vars == <<media, target, outcome>>

TypeOK ==
  /\ media \in [Alts -> BOOLEAN]
  /\ target \in Targets
  /\ outcome \in {"running", "success", "failure"}

Init ==
  /\ media \in [Alts -> BOOLEAN]
  /\ target \in Targets
  /\ outcome = "running"

Program ==
  /\ outcome = "running"
  /\ \E b \in BOOLEAN : media' = [media EXCEPT ![target] = b]
  /\ UNCHANGED <<target, outcome>>

Return ==
  /\ outcome = "running"
  /\ \/ media[target] /\ outcome' = "success"
     \/ outcome' = "failure"
  /\ UNCHANGED <<media, target>>

WriteAgain ==
  /\ outcome' = "running"
  /\ target' \in Targets
  /\ UNCHANGED media

Next == Program \/ Return \/ WriteAgain

Spec == Init /\ [][Next]_vars
=============================================================================
