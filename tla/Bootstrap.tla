------------------------------ MODULE Bootstrap ------------------------------
(***************************************************************************)
(* tdfu_dfu_bootstrap: detect the SoC behind the mask ROM by running a     *)
(* small program on it, load the first stage into its cache-as-RAM, run    *)
(* it, load U-Boot into the DRAM it brought up, and start that.            *)
(*                                                                         *)
(* pc names the next transfer.  A vendor request is retried, and the ROM   *)
(* may execute a request whose reply is lost; a bulk transfer may move     *)
(* some of its units before it fails.                                      *)
(***************************************************************************)
EXTENDS MaskRom

CONSTANTS
  Chunk,        \* units in the largest bulk transfer (64 KiB)
  BulkTries,    \* attempts at a chunk (3)
  VendorTries,  \* attempts at a vendor request (5)
  MaxRuns       \* bound on the runs of a behaviour

ASSUME HostAssumption ==
  /\ Chunk \in Nat \ {0} /\ BulkTries \in Nat \ {0} /\ VendorTries \in Nat \ {0}
  /\ MaxRuns \in Nat

VARIABLES
  pc,
  front,     \* "native", or "android", which opens its device itself
  how,       \* "detect" the SoC, or be told ("given": --cpu, or --spl with --uboot)
  seen,      \* device->info.variant: what the enumeration took the SoC for
  image,     \* what is being loaded: "stub", "spl" or "uboot"
  size,      \* units to transfer
  offset,    \* units the host takes for written
  left,      \* current_chunk_size
  tries,     \* attempts used up, of a chunk or of a vendor request
  result,    \* tdfu_error_t, "NONE" while the call runs
  runs,
  faulty,    \* history: something failed in this run
  partial,   \* history: a failed bulk transfer of this run had moved units
  unpadded,  \* history: there was no memory for a padded copy in this run
  stubbed    \* history: the detection program was sent since power came on

hostVars == <<pc, front, how, seen, image, size, offset, left, tries, result,
              runs, faulty, partial, unpadded, stubbed>>
vars == <<romVars, hostVars>>

ImageSize == [stub |-> 1, spl |-> SplSize, uboot |-> UbootSize]

\* Mutant of Slice: a retry starts over.
SliceFromStart(n) ==
  IF image = "stub" THEN [i \in 1 .. n |-> Stub]
  ELSE [i \in 1 .. n |-> IF i <= ImageSize[image] THEN i ELSE Pad]

\* Unit offset+1 and the following ones of the buffer being sent.
Slice(n) ==
  IF image = "stub" THEN [i \in 1 .. n |-> Stub]
  ELSE [i \in 1 .. n |-> IF offset + i <= ImageSize[image] THEN offset + i ELSE Pad]

Least(m, n) == IF m < n THEN m ELSE n

Finish(err) == pc' = "done" /\ result' = err

\* Any failure ends the call, and all of detection's are one; but on Android the app
\* then falls back to the name the ROM goes by.
FailWith(err) ==
  \/ image # "stub" /\ Finish(err)
  \/ image = "stub" /\ front = "native" /\ Finish("PROTOCOL")
  \/ image = "stub" /\ front = "android" /\ pc' = "files" /\ UNCHANGED result

-----------------------------------------------------------------------------
(* Getting started.                                                         *)

\* find_devices asks the ROM for its name, or takes it for a T31X if it does not say.
Begin ==
  /\ pc \in {"idle", "done"} /\ mode = "rom" /\ runs < MaxRuns
  /\ front' \in {"native", "android"} /\ how' \in {"detect", "given"}
  /\ \/ front' = "native" /\ seen' = soc /\ faulty' = FALSE
     \/ seen' = "other" /\ faulty' = (front' = "native")
  /\ pc' = IF how' = "detect" THEN "detect" ELSE "files"
  /\ image' = IF how' = "detect" THEN "stub" ELSE "spl"
  /\ result' = "NONE" /\ runs' = runs + 1
  /\ size' = 0 /\ offset' = 0 /\ left' = 0 /\ tries' = 0
  /\ partial' = FALSE /\ unpadded' = FALSE
  /\ UNCHANGED <<romVars, stubbed>>

\* protocol_detect_soc knows better than to run the program on a T10.
SkipsStub == seen = "t10"

Detect ==
  /\ pc = "detect"
  /\ pc' = IF SkipsStub THEN "files" ELSE "addr"
  /\ size' = ImageSize.stub
  /\ UNCHANGED <<romVars, front, how, seen, image, offset, left, tries, result,
                 runs, faulty, partial, unpadded, stubbed>>

\* Both images are read before the first of them is sent.
LoadFiles ==
  /\ pc = "files"
  /\ image' = "spl"
  /\ \/ pc' = "pad" /\ UNCHANGED <<result, faulty>>
     \/ Finish("FILE_IO") /\ faulty' = TRUE
  /\ UNCHANGED <<romVars, front, how, seen, size, offset, left, tries,
                 runs, partial, unpadded, stubbed>>

\* bootstrap_load_data_to_memory pads the image to whole cache lines, if it can.
Pads ==
  /\ pc = "pad"
  /\ pc' = "addr"
  /\ \/ size' = Padded(ImageSize[image]) /\ UNCHANGED unpadded
     \/ size' = ImageSize[image] /\ unpadded' = TRUE
  /\ offset' = 0 /\ left' = Least(Chunk, size')
  /\ UNCHANGED <<romVars, front, how, seen, image, tries, result,
                 runs, faulty, partial, stubbed>>

-----------------------------------------------------------------------------
(* Vendor requests.                                                         *)

Area == IF image = "uboot" THEN "dram" ELSE "sram"

\* What the ROM does for the request at pc.
Executed ==
  CASE pc = "addr" -> SetAddr(Area)
    [] pc = "len" -> SetLen(size)
    [] pc = "window" -> SetLen(Window)
    [] pc = "exec" -> ProgStage1
    [] pc = "readAddr" -> SetAddr("result")
    [] pc = "readLen" -> SetLen(1)
    [] pc = "flush" -> UNCHANGED romVars
    [] pc = "stage2" -> ProgStage2

Requests == {"addr", "len", "window", "exec", "readAddr", "readLen", "flush", "stage2"}

\* The call after the request at pc.
Follows ==
  CASE pc = "addr" -> "len"
    [] pc = "len" -> IF image = "stub" THEN "data" ELSE "claim"
    [] pc = "window" -> "exec"
    [] pc = "exec" -> IF image = "stub" THEN "readAddr" ELSE "pad"
    [] pc = "readAddr" -> "readLen"
    [] pc = "readLen" -> "read"
    [] pc = "flush" -> "stage2"
    [] pc = "stage2" -> "done"

GoesOn ==
  /\ tries' = 0
  /\ pc' = Follows
  /\ image' = IF pc = "exec" /\ image = "spl" THEN "uboot" ELSE image
  /\ result' = IF pc = "stage2" THEN "SUCCESS" ELSE result

\* Mutant of FailureIgnored: the reply to stage 2 is waited for.
FailureIgnoredFlush == {"flush"}

\* The result of the cache flush is not looked at, and stage 2 is expected not to
\* answer: U-Boot has the USB port by then.
FailureIgnored == {"flush", "stage2"}

GivesUp ==
  IF pc \in FailureIgnored THEN GoesOn
  ELSE tries' = 0 /\ FailWith("TRANSFER_FAILED") /\ UNCHANGED image

NoReply ==
  IF tries + 1 < VendorTries THEN tries' = tries + 1 /\ UNCHANGED <<pc, image, result>>
  ELSE GivesUp

Vendor ==
  /\ pc \in Requests
  /\ \/ mode = "rom" /\ Executed /\ GoesOn /\ UNCHANGED faulty
     \/ mode = "rom" /\ Executed /\ NoReply /\ faulty' = (faulty \/ mode' = "rom")
     \/ UNCHANGED romVars /\ NoReply /\ faulty' = (faulty \/ mode = "rom")
     \/ UNCHANGED romVars /\ GivesUp /\ faulty' = (faulty \/ mode = "rom")
  /\ stubbed' = (stubbed \/ (pc = "exec" /\ image = "stub"))
  /\ UNCHANGED <<front, how, seen, size, offset, left, runs, partial, unpadded>>

-----------------------------------------------------------------------------
(* Bulk transfers.                                                          *)

\* bootstrap_transfer_data claims the interface, if need be from another driver.
Claim ==
  /\ pc = "claim"
  /\ \/ pc' = "data" /\ UNCHANGED <<result, faulty>>
     \/ Finish("TRANSFER_FAILED") /\ faulty' = TRUE
  /\ UNCHANGED <<romVars, front, how, seen, image, size, offset, left, tries,
                 runs, partial, unpadded, stubbed>>

\* Mutant of Sent: what is left of the chunk is not taken down.
SentKeepsChunk(k) ==
  /\ offset' = offset + k
  /\ IF k = left \/ tries + 1 = BulkTries
       THEN tries' = 0 /\ left' = Least(Chunk, size - offset)
       ELSE tries' = tries + 1 /\ left' = left
  /\ pc' = IF offset + k < size THEN "data" ELSE IF image = "spl" THEN "exec" ELSE "flush"
  /\ UNCHANGED <<image, result>>

\* k units of the chunk are reported as sent: the offset moves on, and what is left of
\* the chunk goes out in the next attempt.  A chunk whose attempts are used up is
\* measured again from the offset.
Sent(k) ==
  /\ offset' = offset + k
  /\ IF k = left \/ tries + 1 = BulkTries
       THEN tries' = 0 /\ left' = Least(Chunk, size - (offset + k))
       ELSE tries' = tries + 1 /\ left' = left - k
  /\ pc' = IF offset + k < size THEN "data" ELSE IF image = "spl" THEN "exec" ELSE "flush"
  /\ UNCHANGED <<image, result>>

\* Mutant of NotSent: out of attempts, the chunk is measured and sent again.
NotSentForever ==
  /\ UNCHANGED <<image, offset, left, pc, result>>
  /\ tries' = (tries + 1) % BulkTries

\* The attempt failed, or nothing was sent: the same units once more, or the end.
NotSent ==
  /\ UNCHANGED <<image, offset, left>>
  /\ IF tries + 1 < BulkTries
       THEN tries' = tries + 1 /\ UNCHANGED <<pc, result>>
       ELSE tries' = 0 /\ \E err \in {"TIMEOUT", "TRANSFER_FAILED"} : Finish(err)

Transfer ==
  /\ pc = "data" /\ image # "stub"
  /\ \E k \in 0 .. left :
       /\ mode = "rom" \/ k = 0
       /\ TakeUnits(Slice(k))
       /\ \/ k > 0 /\ Sent(k) /\ faulty' = (faulty \/ k < left) /\ UNCHANGED partial
          \/ NotSent /\ faulty' = TRUE /\ partial' = (partial \/ k > 0)
  /\ UNCHANGED <<front, how, seen, size, runs, unpadded, stubbed>>

\* The detection program goes out in one transfer that is not repeated.
SendStub ==
  /\ pc = "data" /\ image = "stub"
  /\ UNCHANGED <<image, offset, left, tries>>
  /\ \/ TakeUnits(<<Stub>>) /\ pc' = "window" /\ UNCHANGED <<result, faulty>>
     \/ /\ UNCHANGED romVars \/ TakeUnits(<<Stub>>)
        /\ FailWith("PROTOCOL") /\ faulty' = TRUE
  /\ UNCHANGED <<front, how, seen, size, runs, partial, unpadded, stubbed>>

\* Reading back what the program found, if it ran.
ReadResults ==
  /\ pc = "read"
  /\ \/ marker /\ pc' = "files" /\ UNCHANGED <<result, faulty>>
     \/ ~marker /\ FailWith("PROTOCOL") /\ UNCHANGED faulty
     \/ FailWith("PROTOCOL") /\ faulty' = TRUE
  /\ UNCHANGED <<romVars, front, how, seen, image, size, offset, left, tries,
                 runs, partial, unpadded, stubbed>>

-----------------------------------------------------------------------------
(* The world.                                                               *)

\* Nothing is left of the host's process.
Forgotten ==
  /\ pc' = "idle" /\ front' = "native" /\ how' = "detect" /\ seen' = "other" /\ image' = "stub"
  /\ size' = 0 /\ offset' = 0 /\ left' = 0 /\ tries' = 0 /\ result' = "NONE"
  /\ faulty' = FALSE

\* The process is killed; the ROM keeps what it has.
Interrupt ==
  /\ pc \notin {"idle", "done"}
  /\ Forgotten
  /\ UNCHANGED <<romVars, runs, partial, unpadded, stubbed>>

PowerCycle ==
  /\ pc \in {"idle", "done"} /\ runs < MaxRuns
  /\ PoweredUp
  /\ Forgotten
  /\ partial' = FALSE /\ unpadded' = FALSE /\ stubbed' = FALSE
  /\ UNCHANGED runs

Init ==
  /\ soc \in {"t10", "other"}
  /\ mode = "rom" /\ addr = "sram" /\ len = 0 /\ mem = [a \in Areas |-> << >>]
  /\ marker = FALSE /\ used = FALSE /\ ddr = FALSE
  /\ pc = "idle" /\ front = "native" /\ how = "detect" /\ seen = "other" /\ image = "stub"
  /\ size = 0 /\ offset = 0 /\ left = 0 /\ tries = 0 /\ result = "NONE" /\ runs = 0
  /\ faulty = FALSE
  /\ partial = FALSE /\ unpadded = FALSE /\ stubbed = FALSE

HostStep ==
  Detect \/ LoadFiles \/ Pads \/ Vendor \/ Claim \/ Transfer \/ SendStub \/ ReadResults

Next == Begin \/ HostStep \/ Interrupt \/ PowerCycle

Spec == Init /\ [][Next]_vars

\* A call that has begun goes on; nobody has to begin one.
FairSpec == Spec /\ WF_vars(HostStep)

-----------------------------------------------------------------------------
(* Properties.                                                              *)

Calls == {"idle", "detect", "files", "pad", "claim", "data", "read", "done"} \union Requests

\* The variables keep to their ranges; the offset never passes the end of the image
\* and a chunk never reaches past it.
TypeOK ==
  /\ RomTypeOK
  /\ pc \in Calls
  /\ front \in {"native", "android"} /\ how \in {"detect", "given"}
  /\ seen \in {"t10", "other"} /\ image \in DOMAIN ImageSize
  /\ size \in Nat /\ offset \in 0 .. size /\ left \in 0 .. Chunk
  /\ pc = "data" => offset + left <= size
  /\ tries \in 0 .. BulkTries + VendorTries /\ runs \in 0 .. MaxRuns
  /\ result \in {"NONE", "SUCCESS", "FILE_IO", "PROTOCOL", "TIMEOUT", "TRANSFER_FAILED"}
  /\ faulty \in BOOLEAN /\ partial \in BOOLEAN /\ unpadded \in BOOLEAN /\ stubbed \in BOOLEAN

\* The detection program spoils the T10 for the first stage.
Spoiled == soc = "t10" /\ stubbed

\* While an image goes out, what the host takes for written is what the memory holds,
\* in order and without a gap, whatever was retried: unless a transfer that failed had
\* moved units, which bootstrap_transfer_data sends again.
SentIsStored ==
  (pc = "data" /\ image # "stub" /\ ~partial /\ (image = "uboot" => ddr))
    => mem[Area] = [i \in 1 .. offset |-> IF i <= ImageSize[image] THEN i ELSE Pad]

\* The ROM is never sent off into anything but a whole first stage or a whole U-Boot
\* behind working DRAM, under any loss, retry or interruption.  The three exceptions
\* are those the code has: units sent twice (see SentIsStored), an image it could not
\* pad, a T10 whose one run of stage 1 the detection program took.
RomSurvives == mode = "hung" => partial \/ unpadded \/ Spoiled

\* A run on a responding ROM where nothing goes wrong ends with SUCCESS and U-Boot
\* running, also after runs that were cut short, and though stage 2 does not answer.
\* Detection alone may find that a first stage has already run.
CleanBootSucceeds ==
  (pc = "done" /\ result # "NONE" /\ ~faulty /\ ~unpadded /\ ~Spoiled)
    => \/ result = "SUCCESS" /\ mode = "uboot"
       \/ result = "PROTOCOL" /\ how = "detect" /\ used /\ ddr

\* Every run returns, whatever the ROM and the bus do: all retries are counted.
BootReturns == (pc \notin {"idle", "done"}) ~> (pc \in {"idle", "done"})

\* "T10 ...: never upload the detect stub" (protocol_detect_soc).  The guard looks at
\* the variant the enumeration recorded, which the Android front end does not have.
NoStubOnT10 == ~Spoiled
=============================================================================
