------------------------------- MODULE MaskRom --------------------------------
(***************************************************************************)
(* The mask ROM's USB boot mode, as libtdfu/src/bootstrap.c and            *)
(* libtdfu/src/usb/protocol.c use it.  The ROM is not in the repository,   *)
(* so everything here is external.                                         *)
(*                                                                         *)
(* Memory is what was written from an area's address on since that address *)
(* was last set, unit by unit: unit i of an image is i, Pad is a zero unit *)
(* and Stub is the whole of the SoC detection program.  What cannot become *)
(* an image any more is Garbled, without further detail.                   *)
(***************************************************************************)
EXTENDS Integers, Sequences

CONSTANTS
  SplSize,     \* units in the first-stage image
  UbootSize,   \* units in U-Boot
  Align,       \* units in a cache line
  Window       \* the length that makes a ROM flush all of the detection program (0x7000)

ASSUME ImageAssumption ==
  /\ SplSize \in Nat \ {0} /\ UbootSize \in Nat \ {0} /\ Align \in Nat \ {0}
  /\ Window \in Nat

Pad  == -1
Stub == -2
Garbled == -3

VARIABLES
  soc,      \* "t10", whose ROM has no way around the one-shot flag, or "other"
  mode,     \* "rom"; "uboot" or "hung" once it has left the boot loop
  addr,     \* area SET_DATA_ADDR selected
  len,      \* SET_DATA_LEN
  mem,      \* per area: the units written
  marker,   \* the detection program's results are in memory
  used,     \* the one-shot flag of PROG_STAGE1
  ddr       \* the first stage has brought up the DRAM

romVars == <<soc, mode, addr, len, mem, marker, used, ddr>>

Areas == {"sram", "dram"}

Units(n) == [i \in 1 .. n |-> i]
Padded(n) == ((n + Align - 1) \div Align) * Align
PaddedUnits(n) == [i \in 1 .. Padded(n) |-> IF i <= n THEN i ELSE Pad]

RomTypeOK ==
  /\ soc \in {"t10", "other"}
  /\ mode \in {"rom", "uboot", "hung"}
  /\ addr \in Areas \union {"result"}
  /\ len \in Nat
  /\ mem \in [Areas -> Seq(Int)]
  /\ marker \in BOOLEAN
  /\ used \in BOOLEAN
  /\ ddr \in BOOLEAN

PoweredUp ==
  /\ mode' = "rom"
  /\ mem' = [a \in Areas |-> << >>]
  /\ marker' = FALSE
  /\ used' = FALSE
  /\ ddr' = FALSE
  /\ UNCHANGED <<soc, addr, len>>

-----------------------------------------------------------------------------
(* Requests as the ROM executes them.                                      *)

SetAddr(a) ==
  /\ addr' = a
  /\ mem' = [b \in Areas |-> IF b = a THEN << >> ELSE mem[b]]
  /\ UNCHANGED <<soc, mode, len, marker, used, ddr>>

SetLen(n) ==
  /\ len' = n
  /\ UNCHANGED <<soc, mode, addr, mem, marker, used, ddr>>

\* all can still become an image of n units.
Begins(all, n) ==
  /\ Len(all) <= Padded(n)
  /\ \A i \in DOMAIN all : all[i] = PaddedUnits(n)[i]

\* What an area holds once data is behind what it held.
Joined(held, data) ==
  LET all == held \o data
  IN  IF all = <<Stub>> \/ Begins(all, SplSize) \/ Begins(all, UbootSize)
        THEN all ELSE <<Garbled>>

\* The units of data arrive.  Without DRAM behind it, the upper area takes anything
\* and keeps nothing.  The detection program's results lie inside the first stage.
TakeUnits(data) ==
  /\ mem' = IF addr = "dram" /\ ~ddr THEN mem
            ELSE [mem EXCEPT ![addr] = Joined(@, data)]
  /\ marker' = (marker /\ (addr # "sram" \/ data = << >>))
  /\ UNCHANGED <<soc, mode, addr, len, used, ddr>>

Holds(a, size) == mem[a] \in {Units(size), PaddedUnits(size)}

\* The first stage is executed once and then ignored; the detection program works
\* around that on every ROM but the T10's, if the ROM has flushed it, and some ROMs
\* forget it by themselves.  The
\* cache fill of a first stage that does not end on a cache line corrupts it.
ProgStage1 ==
  /\ \/ /\ used
        /\ UNCHANGED <<mode, marker, used, ddr>>
     \/ /\ ~used /\ mem["sram"] = <<Stub>>
        /\ marker' = (len = Window) /\ used' = (soc = "t10" \/ len # Window)
        /\ UNCHANGED <<mode, ddr>>
     \/ /\ ~used /\ Holds("sram", SplSize) /\ Len(mem["sram"]) % Align = 0
        /\ ddr' = TRUE /\ used' \in {TRUE, soc = "t10"}
        /\ UNCHANGED <<mode, marker>>
     \/ /\ ~used /\ mem["sram"] # <<Stub>>
        /\ ~(Holds("sram", SplSize) /\ Len(mem["sram"]) % Align = 0)
        /\ mode' = "hung"
        /\ UNCHANGED <<marker, used, ddr>>
  /\ UNCHANGED <<soc, addr, len, mem>>

ProgStage2 ==
  /\ mode' = IF ddr /\ Holds("dram", UbootSize) THEN "uboot" ELSE "hung"
  /\ UNCHANGED <<soc, addr, len, mem, marker, used, ddr>>
=============================================================================
