------------------------------ MODULE DfuGadget ------------------------------
(***************************************************************************)
(* The device half of a USB DFU 1.1 conversation: U-Boot's DFU gadget, as  *)
(* libtdfu/src/dfu/dfu.c uses it.  The loader is not part of the           *)
(* repository, so everything here is external: each operation is what the  *)
(* host code and its comments rely on.  A host module conjoins one of the  *)
(* operations below with its own step; each of them is one control         *)
(* transfer, and its parameter is what the host learns from it.            *)
(*                                                                         *)
(* A transfer can be answered, be lost before it reaches the device, or be *)
(* executed and its answer be lost.  A lost DNLOAD may also wedge EP0, and *)
(* then the device answers nothing until a bus reset.                      *)
(*                                                                         *)
(* Data are block identities: block i of the image being sent is i, Blank  *)
(* is a block of 0xFF, Old is what the flash held before, and Token is the *)
(* one-block magic that makes the "erase" alt wipe the chip.               *)
(***************************************************************************)
EXTENDS Integers, Sequences

CONSTANTS
  Alts,         \* alt-settings of the DFU interface
  EraseAlt,     \* number of the "erase" alt; not in Alts on a loader without it
  FlashBlocks,  \* blocks in the medium behind each alt
  BlockModulus, \* wBlockNum wraps here: 65536 on the wire
  BlockBytes,   \* bytes in a block, wTransferSize
  TailBytes     \* per alt: bytes in its medium's last block

Blank == -1
Old   == -2
Token == -3
EndOfMedium == -4   \* an UPLOAD is answered with no data: nothing is left to read
Refused     == -5   \* an UPLOAD failed

ASSUME AltsAssumption == Alts \subseteq Nat /\ 0 \in Alts /\ EraseAlt \in Nat \ {0}
ASSUME SizeAssumption == FlashBlocks \in Nat /\ BlockModulus \in Nat \ {0}
ASSUME BytesAssumption ==
  BlockBytes \in Nat \ {0} /\ TailBytes \in [Alts -> 1 .. BlockBytes]

VARIABLES
  dfuState,   \* bState of the DFU state machine
  curAlt,     \* alt-setting selected by SET_INTERFACE
  pos,        \* per alt: blocks moved by the transaction the entity has open
  buf,        \* per alt: blocks that transaction has received
  flash,      \* per alt: the medium
  wedged,     \* EP0 no longer answers
  keepsTxn,   \* an old loader: ABORT leaves the entity's transaction open
  faulty      \* history: the bus or the device failed since the operation began

gadgetVars == <<dfuState, curAlt, pos, buf, flash, wedged, keepsTxn, faulty>>

SyncStates == {"dfuDNLOAD_SYNC", "dfuDNBUSY"}
RestStates == {"dfuIDLE", "dfuDNLOAD_IDLE", "dfuUPLOAD_IDLE", "dfuERROR"}
DfuStates  == SyncStates \union RestStates \union {"dfuMANIFEST_SYNC", "dfuMANIFEST"}
BusyStates == {"dfuDNBUSY", "dfuMANIFEST"}   \* what a poll waits out
NoReply    == "no reply"
Answers    == {EndOfMedium, Refused} \union UNION {{flash[a][i] : i \in DOMAIN flash[a]} : a \in Alts}

Medium == [0 .. FlashBlocks - 1 -> Int]

GadgetTypeOK ==
  /\ dfuState \in DfuStates
  /\ curAlt \in Alts
  /\ pos \in [Alts -> Nat]
  /\ buf \in [Alts -> Seq(Int)]
  /\ flash \in [Alts -> Medium]
  /\ wedged \in BOOLEAN
  /\ keepsTxn \in BOOLEAN
  /\ faulty \in BOOLEAN

\* A loader that has just come up, or one an earlier session left idle on some alt;
\* the media and the transactions it left open are for the host's module to choose.
GadgetInit ==
  /\ dfuState = "dfuIDLE"
  /\ curAlt \in Alts
  /\ wedged = FALSE
  /\ keepsTxn \in BOOLEAN
  /\ faulty = FALSE

Unwritten == flash = [a \in Alts |-> [i \in 0 .. FlashBlocks - 1 |-> Old]]

NoneOpen ==
  /\ pos = [a \in Alts |-> 0]
  /\ buf = [a \in Alts |-> << >>]

-----------------------------------------------------------------------------
(* Requests as the device executes them.  The state machine's variables are *)
(* dfuState, curAlt, pos, buf and flash.                                    *)

Expects(a, num) == pos[a] % BlockModulus = num

\* Close the open transaction of the selected alt's entity.
CleanEntity ==
  /\ pos' = [pos EXCEPT ![curAlt] = 0]
  /\ buf' = [buf EXCEPT ![curAlt] = << >>]

Stall == dfuState' = "dfuERROR"

\* Block num in sequence is taken; any other trips the entity's cleanup and an error.
DownloadBlock(num, data) ==
  /\ UNCHANGED <<curAlt, flash>>
  /\ \/ /\ dfuState \in {"dfuIDLE", "dfuDNLOAD_IDLE"}
        /\ Expects(curAlt, num)
        /\ dfuState' = "dfuDNLOAD_SYNC"
        /\ pos' = [pos EXCEPT ![curAlt] = @ + 1]
        /\ buf' = [buf EXCEPT ![curAlt] = Append(@, data)]
     \/ /\ dfuState \in {"dfuIDLE", "dfuDNLOAD_IDLE"}
        /\ ~Expects(curAlt, num)
        /\ Stall
        /\ CleanEntity
     \/ /\ dfuState \notin {"dfuIDLE", "dfuDNLOAD_IDLE"}
        /\ Stall
        /\ UNCHANGED <<pos, buf>>

\* The zero-length DNLOAD that ends a download.
DownloadEnd ==
  /\ dfuState' = IF dfuState = "dfuDNLOAD_IDLE" THEN "dfuMANIFEST_SYNC" ELSE "dfuERROR"
  /\ UNCHANGED <<curAlt, pos, buf, flash>>

Overlay(data, medium) ==
  [i \in DOMAIN medium |-> IF i < Len(data) THEN data[i + 1] ELSE medium[i]]

BlankMedium == [i \in 0 .. FlashBlocks - 1 |-> Blank]

\* The medium with the blocks received so far written out.
Flushed ==
  IF curAlt = EraseAlt THEN flash ELSE [flash EXCEPT ![curAlt] = Overlay(buf[curAlt], @)]

\* What a completed manifest leaves in the media.  The erase alt wipes the chip for
\* the token and refuses anything else; it may also refuse the token, silently.
Manifested ==
  IF curAlt = EraseAlt
    THEN IF buf[curAlt] = <<Token>> THEN {[a \in Alts |-> BlankMedium], flash} ELSE {flash}
    ELSE {Flushed}

\* What a failed one may leave: a wipe can die past the first block of the boot flash.
HalfManifested ==
  {flash, Flushed} \union
  IF curAlt = EraseAlt THEN {[flash EXCEPT ![0] = [@ EXCEPT ![0] = Blank]]} ELSE {}

TokenRefused == curAlt = EraseAlt /\ buf[curAlt] = <<Token>> /\ flash' = flash

\* GETSTATUS answered with state s.  It drives the machine: out of a block's flush
\* (which writes the buffer out whenever it is full), into the manifest (which runs
\* after the reply, and may fail), out of it.
StatusStep(s) ==
  /\ UNCHANGED curAlt
  /\ \/ /\ dfuState \in SyncStates
        /\ s \in {"dfuDNBUSY", "dfuDNLOAD_IDLE", "dfuERROR"}
        /\ dfuState' = s
        /\ flash' \in {flash, Flushed}
        /\ UNCHANGED <<pos, buf>>
     \/ /\ dfuState = "dfuMANIFEST_SYNC"
        /\ s = "dfuMANIFEST"
        /\ CleanEntity
        /\ \/ /\ Len(buf[curAlt]) <= FlashBlocks
              /\ dfuState' = "dfuMANIFEST"
              /\ flash' \in Manifested
           \/ Stall /\ flash' \in HalfManifested
     \/ /\ dfuState = "dfuMANIFEST"
        /\ s \in {"dfuMANIFEST", "dfuIDLE"}
        /\ dfuState' = s
        /\ UNCHANGED <<pos, buf, flash>>
     \/ /\ dfuState \in RestStates
        /\ s = dfuState
        /\ UNCHANGED <<dfuState, pos, buf, flash>>

\* The bytes block i of an alt's medium has, and those of the block a transaction is at.
BytesIn(a, i) == IF i = FlashBlocks - 1 THEN TailBytes[a] ELSE BlockBytes
BytesHere     == BytesIn(curAlt, pos[curAlt])

\* The bytes an UPLOAD is answered with, got being what it brings.
BytesOf(got) == IF got \in {EndOfMedium, Refused} THEN 0 ELSE BytesHere

\* UPLOAD of block num: got is the block read, EndOfMedium past the last one, or
\* Refused.  An answer shorter than a block ends the transfer, and the device closes
\* the transaction.  A number out of sequence trips the entity's cleanup here as well.
UploadBlock(num, got) ==
  /\ UNCHANGED <<curAlt, flash>>
  /\ \/ /\ dfuState \in {"dfuIDLE", "dfuUPLOAD_IDLE"}
        /\ Expects(curAlt, num)
        /\ \/ /\ pos[curAlt] < FlashBlocks /\ BytesHere = BlockBytes
              /\ got = flash[curAlt][pos[curAlt]]
              /\ dfuState' = "dfuUPLOAD_IDLE"
              /\ pos' = [pos EXCEPT ![curAlt] = @ + 1]
              /\ UNCHANGED buf
           \/ /\ \/ /\ pos[curAlt] < FlashBlocks /\ BytesHere < BlockBytes
                    /\ got = flash[curAlt][pos[curAlt]]
                 \/ pos[curAlt] >= FlashBlocks /\ got = EndOfMedium
              /\ dfuState' = "dfuIDLE"
              /\ CleanEntity
     \/ /\ dfuState \in {"dfuIDLE", "dfuUPLOAD_IDLE"}
        /\ ~Expects(curAlt, num)
        /\ got = Refused
        /\ Stall
        /\ CleanEntity
     \/ /\ dfuState \notin {"dfuIDLE", "dfuUPLOAD_IDLE"}
        /\ got = Refused
        /\ Stall
        /\ UNCHANGED <<pos, buf>>

ClrStatusStep ==
  /\ dfuState' = IF dfuState = "dfuERROR" THEN "dfuIDLE" ELSE "dfuERROR"
  /\ UNCHANGED <<curAlt, pos, buf, flash>>

\* ABORT returns to idle from rest; mid-flush it may be refused.  Only a loader
\* that is not keepsTxn also closes the entity's transaction.
AbortStep ==
  /\ UNCHANGED <<curAlt, flash>>
  /\ \/ /\ dfuState \notin {"dfuERROR", "dfuMANIFEST"}
        /\ dfuState' = "dfuIDLE"
        /\ IF keepsTxn THEN UNCHANGED <<pos, buf>> ELSE CleanEntity
     \/ /\ dfuState \notin RestStates \ {"dfuERROR"}
        /\ Stall
        /\ UNCHANGED <<pos, buf>>

\* SET_INTERFACE; whether it also idles the state machine is the loader's choice.
SelectAltStep(a) ==
  /\ curAlt' = a
  /\ dfuState' \in {dfuState, "dfuIDLE"}
  /\ UNCHANGED <<pos, buf, flash>>

-----------------------------------------------------------------------------
(* Requests as the host issues them.                                       *)

Lost(got) == ~got /\ faulty' = (faulty \/ ~wedged)

\* One GETSTATUS; s is the state received, or NoReply.  last: the host asks no
\* more after this, so a device still busy has outlasted its patience.
GetStatus(s, last) ==
  /\ UNCHANGED <<wedged, keepsTxn>>
  /\ \/ /\ ~wedged
        /\ s # NoReply
        /\ StatusStep(s)
        /\ faulty' = \/ faulty
                      \/ (dfuState' = "dfuERROR" /\ dfuState # "dfuERROR")
                      \/ (dfuState = "dfuMANIFEST_SYNC" /\ TokenRefused)
                      \/ (last /\ s \in BusyStates)
     \/ /\ s = NoReply
        /\ Lost(FALSE)
        /\ \/ UNCHANGED <<dfuState, curAlt, pos, buf, flash>>
           \/ ~wedged /\ \E t \in DfuStates : StatusStep(t)

\* One DNLOAD of block num; ok is what the host's control transfer returns.  A
\* refused block may stall the transfer or show up in the next GETSTATUS only.
Dnload(num, data, ok) ==
  /\ UNCHANGED keepsTxn
  /\ \/ /\ ~wedged
        /\ DownloadBlock(num, data)
        /\ ok \/ dfuState' = "dfuERROR"
        /\ UNCHANGED <<wedged, faulty>>
     \/ /\ Lost(ok)
        /\ wedged' \in {wedged, TRUE}
        /\ \/ UNCHANGED <<dfuState, curAlt, pos, buf, flash>>
           \/ ~wedged /\ DownloadBlock(num, data)

DnloadEnd(ok) ==
  /\ UNCHANGED keepsTxn
  /\ \/ /\ ~wedged
        /\ DownloadEnd
        /\ ok <=> dfuState' # "dfuERROR"
        /\ UNCHANGED <<wedged, faulty>>
     \/ /\ Lost(ok)
        /\ wedged' \in {wedged, TRUE}
        /\ \/ UNCHANGED <<dfuState, curAlt, pos, buf, flash>>
           \/ ~wedged /\ DownloadEnd

\* One UPLOAD; got as in UploadBlock, Refused also when the answer never arrives.
Upload(num, got) ==
  /\ UNCHANGED <<wedged, keepsTxn>>
  /\ \/ /\ ~wedged
        /\ UploadBlock(num, got)
        /\ UNCHANGED faulty
     \/ /\ got = Refused
        /\ Lost(FALSE)
        /\ \/ UNCHANGED <<dfuState, curAlt, pos, buf, flash>>
           \/ ~wedged /\ \E any \in Answers : UploadBlock(num, any)

\* CLRSTATUS and ABORT: the host never looks at the outcome.
ClrStatus ==
  /\ UNCHANGED <<wedged, keepsTxn>>
  /\ \/ ~wedged /\ ClrStatusStep /\ UNCHANGED faulty
     \/ Lost(FALSE) /\ UNCHANGED <<dfuState, curAlt, pos, buf, flash>>

Abort ==
  /\ UNCHANGED <<wedged, keepsTxn>>
  /\ \/ ~wedged /\ AbortStep /\ UNCHANGED faulty
     \/ Lost(FALSE) /\ UNCHANGED <<dfuState, curAlt, pos, buf, flash>>

SelectAlt(a, ok) ==
  /\ UNCHANGED <<wedged, keepsTxn>>
  /\ \/ ok /\ ~wedged /\ SelectAltStep(a) /\ UNCHANGED faulty
     \/ /\ Lost(ok)
        /\ \/ UNCHANGED <<dfuState, curAlt, pos, buf, flash>>
           \/ ~wedged /\ SelectAltStep(a)

\* A USB bus reset: EP0 answers again, on alt 0; the entities keep what they had.
BusReset ==
  /\ wedged' = FALSE
  /\ curAlt' = 0
  /\ dfuState' \in {dfuState, "dfuIDLE"}
  /\ UNCHANGED <<pos, buf, flash, keepsTxn, faulty>>

\* The host disappears mid-transfer (a reload, a kill) and may leave EP0 wedged.
Abandoned ==
  /\ wedged' \in BOOLEAN
  /\ wedged => wedged'
  /\ faulty' = FALSE
  /\ UNCHANGED <<dfuState, curAlt, pos, buf, flash, keepsTxn>>
=============================================================================
