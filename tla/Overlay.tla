------------------------------- MODULE Overlay -------------------------------
(***************************************************************************)
(* Pre-configuration baked into an image before it is flashed (inject.js). *)
(* An image is its mtdparts line, its blocks, and the volumes of its UBI   *)
(* area when it has one.  The engines mkfs.jffs2, mkfs.ubifs and ubinize   *)
(* are what they are used for: an overlay of the given files.              *)
(***************************************************************************)
EXTENDS Integers, Sequences, FiniteSets

NoOffset == -1  \* a partition without "@offset"
Rest == -1      \* the size "-": the rest of the chip

\* An aliased partition and the rest of the chip do not move what follows.
Taken(seg) == IF seg.at = NoOffset /\ seg.size # Rest THEN seg.size ELSE 0

OffsetOf(layout) ==
  LET off[i \in 1..Len(layout)] ==
        IF i = 1 THEN 0 ELSE off[i - 1] + Taken(layout[i - 1])
  IN  off

\* The last entry of a name is the one that counts.
ParseMtdparts(image) ==
  LET layout == image.layout
      last(n) == CHOOSE i \in DOMAIN layout :
                   /\ layout[i].name = n
                   /\ \A j \in DOMAIN layout : layout[j].name = n => j <= i
  IN  [n \in {layout[i].name : i \in DOMAIN layout} |->
        LET seg == layout[last(n)]
        IN  [size |-> seg.size,
             offset |-> IF seg.at = NoOffset THEN OffsetOf(layout)[last(n)] ELSE seg.at]]

OverlayInfo(image) ==
  LET parts == ParseMtdparts(image)
      found(type, n) == [type |-> type, offset |-> parts[n].offset, size |-> parts[n].size]
  IN  IF "data" \in DOMAIN parts THEN found("nor", "data")
      ELSE IF "ubi" \in DOMAIN parts THEN found("nand", "ubi")
      ELSE [type |-> "none", offset |-> 0, size |-> 0]

\* layout: what parseMtdparts' regular expressions accept, in order; flash: the blocks up to
\* the UBI area, or all; ubi: user volumes by id, those of the firmware's NAND layout.
IsImage(image) ==
  /\ image = [layout |-> image.layout, flash |-> image.flash, ubi |-> image.ubi]
  /\ image.flash \in Seq(SUBSET STRING)
  /\ OverlayInfo(image).offset \in Nat /\ OverlayInfo(image).size \in Int
  /\ DOMAIN image.ubi \subseteq 0..3

\* The files of the fields that are typed into; those that are added come from their rows.
OverlayFilesFor(form) == form.typed

\* A block, or a volume, is the set of what it holds.  One file fills a block, and NAND's
\* overlay has its upper directory under root/.
OverlayBlock(files) == {"jffs2"} \union files
OverlayVolume(files) == {"ubifs", "root/"} \union files

Refused == [ok |-> FALSE]
Injected(image) == [ok |-> TRUE, image |-> image]

\* mkfs.jffs2 pads to the size of the partition and writes more if it must; setting
\* bytes past the end of the image throws.
InjectNor(image, info, files) ==
  LET length == IF Cardinality(files) > info.size THEN Cardinality(files) ELSE info.size
  IN  IF length > info.size \/ info.offset + length > Len(image.flash) THEN Refused
      ELSE Injected([image EXCEPT !.flash =
             [i \in 1..Len(image.flash) |->
                IF i \in (info.offset + 1)..(info.offset + length) THEN OverlayBlock(files)
                ELSE image.flash[i]]])

ReadUbiVolumes(image) == image.ubi

\* The UBI area is built anew from three of its volumes and the overlay.
InjectNand(image, files) ==
  LET vols == ReadUbiVolumes(image)
  IN  IF {0, 1, 2} \subseteq DOMAIN vols
        THEN Injected([image EXCEPT !.ubi =
               [v \in 0..3 |-> IF v = 3 THEN OverlayVolume(files) ELSE vols[v]]])
        ELSE Refused

InjectOverlay(image, files) ==
  LET info == OverlayInfo(image)
  IN  IF files = {} THEN Injected(image)
      ELSE IF info.type = "nor" THEN InjectNor(image, info, files)
      ELSE IF info.type = "nand" THEN InjectNand(image, files)
      ELSE Refused

-----------------------------------------------------------------------------
\* What the board will find in its overlay, and all it finds elsewhere.
OverlayOf(image) ==
  LET info == OverlayInfo(image)
  IN  IF info.type = "nand" THEN image.ubi[3] ELSE image.flash[info.offset + 1]

Outside(image) ==
  LET info == OverlayInfo(image)
  IN  [blocks |-> [i \in DOMAIN image.flash \
                     (IF info.type = "nor"
                        THEN (info.offset + 1)..(info.offset + info.size) ELSE {})
                     |-> image.flash[i]],
       volumes |-> [v \in DOMAIN image.ubi \ {3} |-> image.ubi[v]]]
=============================================================================
