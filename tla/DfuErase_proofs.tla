--------------------------- MODULE DfuErase_proofs ----------------------------
(***************************************************************************)
(* What tdfu_dfu_erase promises, for every interface, loop limit and       *)
(* number of interruptions: success means that the boot flash starts blank *)
(* and that the loader is left clean; the token goes nowhere but to the    *)
(* erase alt; a loader without that alt is named for what it is; and an    *)
(* erase that met no fault succeeds and leaves the whole chip blank.       *)
(***************************************************************************)
EXTENDS DfuErase, DfuGadget_proofs, FiniteSetTheorems

USE DEF Blank, Old, Token, EndOfMedium, Refused, BootAlt

-----------------------------------------------------------------------------
(* The invariant.                                                          *)

\* Block 1 is not taken for block 0, and the boot flash does not end within its first block.
NumbersDiffer == BlockModulus > 1 /\ (FlashBlocks = 1 => TailBytes[BootAlt] = BlockBytes)

\* An entity's transaction is one block long or not begun, and then it holds nothing.
Entities == \A a \in Alts : pos[a] \in {0, 1} /\ (pos[a] = 0 => buf[a] = << >>)

\* The alt each part of the erase works on.
OnAlt ==
  /\ pc \in {"idle", "token", "tokenPoll", "end", "erasePoll"} => curAlt = EraseAlt
  /\ pc \in {"bootIdle", "probe", "close", "reprobe", "closeAgain", "clear"} => curAlt = BootAlt

Rounds == pc \in {"idle", "bootIdle"} => tries < IdleTries

\* Only the end is a success, and nothing is written once the flash was found blank.
ProbedBlank ==
  /\ pc \in {"close", "reprobe", "closeAgain", "clear"} => flash[BootAlt][0] = Blank
  /\ Succeeded => pc = "done" /\ flash[BootAlt][0] = Blank

\* Where an erase is that lost nothing so far.
CleanPath ==
  ~faulty =>
    /\ pc = "erasePoll" =>
         ~wedged /\ (\/ dfuState = "dfuMANIFEST_SYNC"
                     \/ dfuState = "dfuMANIFEST" /\ pos[EraseAlt] = 0)
    /\ pc \in {"bootClaim", "bootIdle", "probe", "close", "reprobe", "closeAgain", "clear"} =>
         ~wedged /\ pos[EraseAlt] = 0
    /\ pc \in {"bootClaim", "bootIdle", "probe", "reprobe"} => dfuState = "dfuIDLE"
    /\ pc = "bootIdle" => fix = "none"
    /\ pc = "close" => dfuState = "dfuUPLOAD_IDLE" /\ pos[BootAlt] = 1
    /\ pc = "reprobe" => pos[BootAlt] = IF keepsTxn THEN 1 ELSE 0
    /\ pc = "clear" => dfuState = "dfuERROR" /\ pos[BootAlt] = 0
    /\ pc = "closeAgain" => ~keepsTxn /\ dfuState \in {"dfuUPLOAD_IDLE", "dfuIDLE"}
    /\ Succeeded => dfuState = "dfuIDLE" /\ pos[BootAlt] = 0 /\ pos[EraseAlt] = 0

\* Where an erase is that was asked of a loader without the alt.
MissingPath ==
  ~erasable =>
    /\ pc \in {"open", "claim", "recover", "done"}
    /\ ~faulty =>
         /\ run = 1 => "wedged" \in leftovers
         /\ pc = "open" => IF run = 1 THEN ~wedged ELSE wedged => "wedged" \in leftovers
         /\ pc = "recover" => \/ result = "INVALID_PARAMETER"
                              \/ result \in Recoverable /\ run = 0 /\ "wedged" \in leftovers
         /\ pc = "done" => result = "INVALID_PARAMETER"

IInv ==
  /\ TypeOK /\ Entities /\ OnAlt /\ Rounds
  /\ ProbedBlank /\ CleanPath /\ MissingPath

-----------------------------------------------------------------------------
(* What each request leaves of the device.                                 *)

DeviceInv == GadgetTypeOK /\ Entities

Machine == <<dfuState, curAlt, pos, buf, flash>>

MachineOK ==
  /\ dfuState \in DfuStates
  /\ curAlt \in Alts
  /\ pos \in [Alts -> Nat]
  /\ buf \in [Alts -> Seq(Int)]
  /\ flash \in [Alts -> Medium]
  /\ Entities

\* No entity has received anything.
NoneGrows == \A a \in Alts : buf'[a] \in {buf[a], << >>}

\* Closing a transaction.
LEMMA CleanEntityKeeps ==
  ASSUME MachineOK, CleanEntity
  PROVE  /\ pos' \in [Alts -> Nat] /\ buf' \in [Alts -> Seq(Int)] /\ Entities' /\ NoneGrows
         /\ pos'[curAlt] = 0 /\ \A a \in Alts : a # curAlt => pos'[a] = pos[a]
<1>1. /\ pos' \in [Alts -> Nat] /\ buf' \in [Alts -> Seq(Int)]
      /\ pos'[curAlt] = 0 /\ buf'[curAlt] = << >>
      /\ \A a \in Alts : a # curAlt => pos'[a] = pos[a] /\ buf'[a] = buf[a]
  BY DEF MachineOK, CleanEntity
<1>2. QED BY <1>1 DEF MachineOK, Entities, NoneGrows

\* A request that does nothing.
LEMMA UnchangedKeeps ==
  ASSUME MachineOK, UNCHANGED Machine
  PROVE  MachineOK' /\ NoneGrows
BY DEF MachineOK, Machine, Entities, NoneGrows

\* GETSTATUS.
LEMMA StatusStepKeeps ==
  ASSUME MachineOK, NEW s, StatusStep(s)
  PROVE  MachineOK' /\ curAlt' = curAlt /\ NoneGrows
<1>1. CASE dfuState \in SyncStates
  BY <1>1, FlushedType DEF MachineOK, StatusStep, SyncStates, RestStates, DfuStates, Entities, NoneGrows
<1>2. CASE dfuState = "dfuMANIFEST_SYNC"
  <2>1. CleanEntity /\ curAlt' = curAlt /\ dfuState' \in DfuStates
    BY <1>2 DEF StatusStep, Stall, SyncStates, RestStates, DfuStates
  <2>2. flash' \in Manifested \union HalfManifested
    BY <1>2 DEF StatusStep, SyncStates, RestStates
  <2>3. QED BY <2>1, <2>2, CleanEntityKeeps, ManifestedType DEF MachineOK
<1>3. CASE dfuState \in {"dfuMANIFEST"} \union RestStates
  <2>1. UNCHANGED <<pos, buf, flash, curAlt>> /\ dfuState' \in DfuStates
    BY <1>3 DEF StatusStep, SyncStates, RestStates, DfuStates
  <2>2. QED BY <2>1 DEF MachineOK, Entities, NoneGrows
<1>4. QED BY <1>1, <1>2, <1>3 DEF StatusStep

\* One GETSTATUS, answered or lost.
LEMMA GetStatusKeeps ==
  ASSUME DeviceInv, NEW s, NEW last, GetStatus(s, last)
  PROVE  DeviceInv' /\ curAlt' = curAlt /\ NoneGrows
<1>1. MachineOK
  BY DEF DeviceInv, GadgetTypeOK, MachineOK
<1>2. MachineOK' /\ curAlt' = curAlt /\ NoneGrows
  <2>1. CASE UNCHANGED Machine
    BY <1>1, <2>1, UnchangedKeeps DEF Machine
  <2>2. CASE \E t : StatusStep(t)
    BY <1>1, <2>2, StatusStepKeeps
  <2>3. QED BY <2>1, <2>2 DEF GetStatus, Machine
<1>3. wedged' \in BOOLEAN /\ keepsTxn' \in BOOLEAN /\ faulty' \in BOOLEAN
  BY DEF DeviceInv, GadgetTypeOK, GetStatus, Lost
<1>4. QED BY <1>2, <1>3 DEF DeviceInv, GadgetTypeOK, MachineOK

\* CLRSTATUS and ABORT.
LEMMA FixKeeps ==
  ASSUME DeviceInv, ClrStatus \/ Abort
  PROVE  DeviceInv' /\ UNCHANGED <<curAlt, flash>> /\ NoneGrows
<1>1. MachineOK
  BY DEF DeviceInv, GadgetTypeOK, MachineOK
<1>2. MachineOK' /\ UNCHANGED <<curAlt, flash>> /\ NoneGrows
  <2>1. CASE UNCHANGED Machine
    BY <1>1, <2>1, UnchangedKeeps DEF Machine
  <2>2. CASE ClrStatusStep
    BY <1>1, <2>2 DEF ClrStatusStep, MachineOK, DfuStates, RestStates, Entities, NoneGrows
  <2>3. CASE AbortStep
    <3>1. curAlt' = curAlt /\ flash' = flash /\ dfuState' \in DfuStates
      BY <2>3 DEF AbortStep, Stall, DfuStates, RestStates
    <3>2. CleanEntity \/ UNCHANGED <<pos, buf>>
      BY <2>3 DEF AbortStep
    <3>3. QED BY <1>1, <3>1, <3>2, CleanEntityKeeps DEF MachineOK, Entities, NoneGrows
  <2>4. QED BY <2>1, <2>2, <2>3 DEF ClrStatus, Abort, Machine
<1>3. wedged' \in BOOLEAN /\ keepsTxn' \in BOOLEAN /\ faulty' \in BOOLEAN
  BY DEF DeviceInv, GadgetTypeOK, ClrStatus, Abort, Lost
<1>4. QED BY <1>2, <1>3 DEF DeviceInv, GadgetTypeOK, MachineOK

\* SET_INTERFACE of a, and what an answered one selects.
LEMMA SelectAltKeeps ==
  ASSUME DeviceInv, NEW a \in Alts, NEW ok \in BOOLEAN, SelectAlt(a, ok)
  PROVE  DeviceInv' /\ flash' = flash /\ (ok => curAlt' = a) /\ NoneGrows
<1>1. MachineOK
  BY DEF DeviceInv, GadgetTypeOK, MachineOK
<1>2. MachineOK' /\ flash' = flash /\ (ok => curAlt' = a) /\ NoneGrows
  <2>1. CASE UNCHANGED Machine /\ ~ok
    BY <1>1, <2>1, UnchangedKeeps DEF Machine
  <2>2. CASE SelectAltStep(a)
    BY <1>1, <2>2 DEF SelectAltStep, MachineOK, DfuStates, RestStates, Entities, NoneGrows
  <2>3. QED BY <2>1, <2>2 DEF SelectAlt, Lost, Machine
<1>3. wedged' \in BOOLEAN /\ keepsTxn' \in BOOLEAN /\ faulty' \in BOOLEAN
  BY DEF DeviceInv, GadgetTypeOK, SelectAlt, Lost
<1>4. QED BY <1>2, <1>3 DEF DeviceInv, GadgetTypeOK, MachineOK

\* Where block 0 is expected, nothing was moved yet.
LEMMA ExpectsFirst ==
  ASSUME NumbersDiffer, MachineOK, Expects(curAlt, 0)
  PROVE  pos[curAlt] = 0 /\ buf[curAlt] = << >>
<1>1. pos[curAlt] \in {0, 1} /\ BlockModulus \in Nat \ {0} /\ 1 < BlockModulus
  BY SizeAssumption DEF MachineOK, Entities, NumbersDiffer
<1>2. 1 % BlockModulus = 1
  BY <1>1, SmallModulo
<1>3. QED BY <1>1, <1>2 DEF Expects, MachineOK, Entities

\* The boot flash's first block is a whole one.
LEMMA FirstIsWhole ==
  ASSUME NumbersDiffer, curAlt = BootAlt, pos[curAlt] = 0
  PROVE  BytesHere = BlockBytes
BY SizeAssumption DEF NumbersDiffer, BytesHere, BytesIn

\* UPLOAD of block 0, answered or lost; a blank answer is the selected alt's first block.
LEMMA UploadKeeps ==
  ASSUME NumbersDiffer, DeviceInv, NEW got, Upload(0, got)
  PROVE  /\ DeviceInv' /\ UNCHANGED <<curAlt, flash>> /\ NoneGrows
         /\ got = Blank => flash[curAlt][0] = Blank
<1>1. MachineOK
  BY DEF DeviceInv, GadgetTypeOK, MachineOK
<1>2. ASSUME NEW any, UploadBlock(0, any)
      PROVE  /\ MachineOK' /\ UNCHANGED <<curAlt, flash>> /\ NoneGrows
             /\ any = Blank => flash[curAlt][0] = Blank
  <2>1. CASE /\ Expects(curAlt, 0) /\ any = flash[curAlt][pos[curAlt]]
             /\ dfuState' = "dfuUPLOAD_IDLE" /\ pos' = [pos EXCEPT ![curAlt] = @ + 1]
             /\ UNCHANGED <<buf, curAlt, flash>>
    BY <1>1, <2>1, ExpectsFirst DEF MachineOK, Entities, NoneGrows, DfuStates, RestStates
  <2>2. CASE /\ dfuState' \in {"dfuIDLE", "dfuERROR"} /\ CleanEntity
             /\ \/ any \in {EndOfMedium, Refused}
                \/ Expects(curAlt, 0) /\ any = flash[curAlt][pos[curAlt]]
             /\ UNCHANGED <<curAlt, flash>>
    <3>1. Expects(curAlt, 0) => pos[curAlt] = 0
      BY <1>1, ExpectsFirst
    <3>2. QED BY <1>1, <2>2, <3>1, CleanEntityKeeps DEF MachineOK, DfuStates, RestStates
  <2>3. CASE dfuState' = "dfuERROR" /\ any = Refused /\ UNCHANGED <<pos, buf, curAlt, flash>>
    BY <1>1, <2>3 DEF MachineOK, Entities, NoneGrows, DfuStates, RestStates
  <2>4. QED BY <1>2, <2>1, <2>2, <2>3 DEF UploadBlock, Stall
<1>3. /\ MachineOK' /\ UNCHANGED <<curAlt, flash>> /\ NoneGrows
      /\ got = Blank => flash[curAlt][0] = Blank
  <2>1. CASE UploadBlock(0, got)
    BY <1>2, <2>1
  <2>2. CASE got = Refused /\ UNCHANGED Machine
    BY <1>1, <2>2, UnchangedKeeps DEF Machine
  <2>3. CASE got = Refused /\ \E any : UploadBlock(0, any)
    BY <1>2, <2>3
  <2>4. QED BY <2>1, <2>2, <2>3 DEF Upload, Machine
<1>4. wedged' \in BOOLEAN /\ keepsTxn' \in BOOLEAN /\ faulty' \in BOOLEAN
  BY DEF DeviceInv, GadgetTypeOK, Upload, Lost
<1>5. QED BY <1>3, <1>4 DEF DeviceInv, GadgetTypeOK, MachineOK

\* DNLOAD of the token, answered or lost: it is the first the selected alt receives.
LEMMA DnloadKeeps ==
  ASSUME NumbersDiffer, DeviceInv, NEW ok \in BOOLEAN, Dnload(0, Token, ok)
  PROVE  /\ DeviceInv' /\ UNCHANGED <<curAlt, flash>>
         /\ \A a \in Alts : buf'[a] \in {buf[a], << >>} \/ (a = curAlt /\ buf'[a] = <<Token>>)
<1>1. MachineOK
  BY DEF DeviceInv, GadgetTypeOK, MachineOK
<1> DEFINE Received ==
      \A a \in Alts : buf'[a] \in {buf[a], << >>} \/ (a = curAlt /\ buf'[a] = <<Token>>)
<1>2. CASE UNCHANGED Machine
  BY <1>1, <1>2, UnchangedKeeps DEF Dnload, Lost, DeviceInv, GadgetTypeOK, MachineOK, Machine,
     NoneGrows
<1>3. CASE DownloadBlock(0, Token)
  <2>1. MachineOK' /\ UNCHANGED <<curAlt, flash>> /\ Received
    <3>1. CASE /\ Expects(curAlt, 0) /\ dfuState' = "dfuDNLOAD_SYNC"
               /\ pos' = [pos EXCEPT ![curAlt] = @ + 1]
               /\ buf' = [buf EXCEPT ![curAlt] = Append(@, Token)]
               /\ UNCHANGED <<curAlt, flash>>
      <4>1. buf[curAlt] = << >> /\ pos[curAlt] = 0
        BY <1>1, <3>1, ExpectsFirst
      <4>2. Append(<< >>, Token) = <<Token>> /\ <<Token>> \in Seq(Int)
        OBVIOUS
      <4>3. buf' = [buf EXCEPT ![curAlt] = <<Token>>] /\ pos' = [pos EXCEPT ![curAlt] = 1]
        BY <3>1, <4>1, <4>2
      <4>4. /\ buf' \in [Alts -> Seq(Int)] /\ pos' \in [Alts -> Nat]
            /\ pos'[curAlt] = 1 /\ buf'[curAlt] = <<Token>>
            /\ \A a \in Alts : a # curAlt => pos'[a] = pos[a] /\ buf'[a] = buf[a]
        BY <1>1, <4>2, <4>3 DEF MachineOK
      <4>5. QED BY <1>1, <3>1, <4>4 DEF MachineOK, Entities, DfuStates, SyncStates
    <3>2. CASE dfuState' = "dfuERROR" /\ CleanEntity /\ UNCHANGED <<curAlt, flash>>
      BY <1>1, <3>2, CleanEntityKeeps DEF MachineOK, DfuStates, RestStates, NoneGrows
    <3>3. CASE dfuState' = "dfuERROR" /\ UNCHANGED <<pos, buf, curAlt, flash>>
      BY <1>1, <3>3 DEF MachineOK, Entities, DfuStates, RestStates
    <3>4. QED BY <1>3, <3>1, <3>2, <3>3 DEF DownloadBlock, Stall
  <2>2. wedged' \in BOOLEAN /\ keepsTxn' \in BOOLEAN /\ faulty' \in BOOLEAN
    BY DEF DeviceInv, GadgetTypeOK, Dnload, Lost
  <2>3. QED BY <2>1, <2>2 DEF DeviceInv, GadgetTypeOK, MachineOK
<1>4. QED BY <1>2, <1>3 DEF Dnload, Machine

\* The zero-length DNLOAD.
LEMMA DnloadEndKeeps ==
  ASSUME DeviceInv, NEW ok \in BOOLEAN, DnloadEnd(ok)
  PROVE  DeviceInv' /\ UNCHANGED <<curAlt, flash>> /\ NoneGrows
<1>1. UNCHANGED <<curAlt, pos, buf, flash>> /\ dfuState' \in DfuStates
  BY DEF DnloadEnd, DownloadEnd, DeviceInv, GadgetTypeOK, DfuStates, RestStates
<1>2. wedged' \in BOOLEAN /\ keepsTxn' \in BOOLEAN /\ faulty' \in BOOLEAN
  BY DEF DeviceInv, GadgetTypeOK, DnloadEnd, Lost
<1>3. QED BY <1>1, <1>2 DEF DeviceInv, GadgetTypeOK, Entities, NoneGrows

-----------------------------------------------------------------------------
(* The invariant, one action at a time.                                    *)

USE DEF vars, gadgetVars, linkVars, opVars, loopVars

\* A gadget with an erase alt has more alts than one, as the boot alt is another.
LEMMA BothAlts == BootAlt \in Alts /\ EraseAlt \in Alts /\ BootAlt # EraseAlt /\ MultiAlt
BY AltsAssumption, EraseAltAssumption DEF MultiAlt

\* The invariant holds before the first transfer.
THEOREM InitEstablishes == Init => IInv
<1> SUFFICES ASSUME Init PROVE IInv
  OBVIOUS
<1>1. PICK left \in [Alts -> {0, 1}] :
        /\ pos = left
        /\ buf = [a \in Alts |-> IF left[a] = 0 THEN << >>
                                 ELSE IF a = EraseAlt THEN <<Token>> ELSE <<0>>]
  BY DEF Init, LeftOpen
<1>2. << >> \in Seq(Int) /\ <<Token>> \in Seq(Int) /\ <<0>> \in Seq(Int)
  OBVIOUS
<1>3. pos \in [Alts -> Nat] /\ buf \in [Alts -> Seq(Int)] /\ Entities
  BY <1>1, <1>2 DEF Entities
<1>4. flash \in [Alts -> Medium]
  <2>1. [i \in 0 .. FlashBlocks - 1 |-> Old] \in Medium
    BY DEF Medium
  <2>2. QED BY <2>1, Zenon DEF Init, Unwritten
<1>5. GadgetTypeOK
  BY <1>3, <1>4 DEF Init, GadgetInit, GadgetTypeOK, DfuStates, RestStates
<1>6. LinkTypeOK
  BY LinkAssumption, AltsAssumption DEF Init, LinkInit, LinkTypeOK, Results
<1>7. leftovers \subseteq {"wedged", "boot", "erase"} /\ (wedged => "wedged" \in leftovers)
  BY DEF Init, Leftovers
<1>8. TypeOK
  BY <1>5, <1>6, <1>7 DEF Init, LinkInit, TypeOK
<1>9. QED
  BY <1>3, <1>7, <1>8 DEF Init, LinkInit, IInv, OnAlt, Rounds, ProbedBlank, CleanPath,
     MissingPath, Succeeded

\* Opening the device: a wedged one is not found, and that is nobody's fault.
LEMMA OpenDeviceKeeps == IInv /\ OpenDevice => IInv'
<1> SUFFICES ASSUME IInv, OpenDevice PROVE IInv'
  OBVIOUS
<1>1. /\ UNCHANGED <<target, run, loopVars, crashes, opVars>>
      /\ UNCHANGED <<dfuState, curAlt, pos, buf, flash, wedged, keepsTxn>> /\ pc = "open"
      /\ ~faulty' => ~faulty
      /\ \/ ~wedged /\ pc' = "claim" /\ result' = result
         \/ /\ pc' = "recover" /\ result' \in {"DEVICE_NOT_FOUND", "PROTOCOL"}
            /\ ~faulty' => wedged
  <2>1. CASE pc' = "claim" /\ ~wedged /\ UNCHANGED <<gadgetVars, result>>
    BY <2>1 DEF OpenDevice, Open
  <2>2. CASE \E err \in {"DEVICE_NOT_FOUND", "PROTOCOL"} : Fail(err) /\ faulty' = (faulty \/ ~wedged)
    <3>1. ~faulty' => ~faulty /\ wedged
      BY <2>2
    <3>2. pc' = "recover" /\ result' \in {"DEVICE_NOT_FOUND", "PROTOCOL"}
      BY <2>2 DEF Fail
    <3>3. UNCHANGED <<dfuState, curAlt, pos, buf, flash, wedged, keepsTxn>>
      BY DEF OpenDevice, Open
    <3>4. QED BY <3>1, <3>2, <3>3 DEF OpenDevice, Open
  <2>3. QED BY <2>1, <2>2 DEF OpenDevice, Open
<1>2. GadgetTypeOK' /\ Entities'
  BY <1>1 DEF OpenDevice, Open, IInv, TypeOK, GadgetTypeOK, Entities
<1>3. TypeOK'
  BY <1>1, <1>2 DEF IInv, TypeOK, LinkTypeOK, Results, Recoverable
<1>4. MissingPath'
  BY <1>1 DEF IInv, MissingPath, Recoverable, TypeOK, LinkTypeOK
<1>5. QED
  BY <1>1, <1>2, <1>3, <1>4 DEF IInv, OnAlt, Rounds, ProbedBlank, CleanPath, Succeeded

\* Claiming the erase alt, or finding that there is none.
LEMMA ClaimKeeps == IInv /\ Claim => IInv'
<1> SUFFICES ASSUME IInv, Claim PROVE IInv'
  OBVIOUS
<1>0. DeviceInv
  BY DEF IInv, TypeOK, DeviceInv
<1>1. /\ UNCHANGED <<target, run, polls, fails, crashes, opVars>> /\ pc = "claim"
      /\ tries' = 0 /\ fix' = "none"
      /\ \/ ~erasable /\ UNCHANGED gadgetVars /\ pc' = "recover" /\ result' = "INVALID_PARAMETER"
         \/ erasable /\ pc' = "idle" /\ result' = result
         \/ erasable /\ pc' = "recover" /\ result' \in {"OPEN_FAILED", "PROTOCOL"}
  BY DEF Claim, ClaimAlt, Fail
<1>2. NeedsSelect(EraseAlt)
  BY AltsAssumption DEF NeedsSelect
<1>3. DeviceInv' /\ flash' = flash /\ (pc' = "idle" => curAlt' = EraseAlt)
  <2>1. CASE UNCHANGED <<dfuState, curAlt, pos, buf, flash, wedged, keepsTxn>>
             /\ faulty' \in BOOLEAN /\ pc' = "recover"
    BY <1>0, <2>1 DEF DeviceInv, GadgetTypeOK, Entities
  <2>2. CASE \E ok \in BOOLEAN : SelectAlt(EraseAlt, ok) /\ (~ok => pc' = "recover")
    BY <1>0, <2>2, BothAlts, SelectAltKeeps
  <2>3. CASE ~erasable /\ UNCHANGED gadgetVars /\ pc' = "recover"
    BY <1>0, <2>3 DEF DeviceInv, GadgetTypeOK, Entities
  <2>4. QED BY <1>2, <2>1, <2>2, <2>3 DEF Claim, ClaimAlt, Fail
<1>4. TypeOK'
  BY <1>1, <1>3, LinkAssumption DEF IInv, TypeOK, LinkTypeOK, Results, Recoverable, DeviceInv
<1>5. MissingPath'
  BY <1>1 DEF IInv, MissingPath
<1>6. QED
  BY <1>1, <1>3, <1>4, <1>5, LinkAssumption
     DEF IInv, DeviceInv, OnAlt, Rounds, ProbedBlank, CleanPath, Succeeded

\* What dfu_make_idle does, for whichever caller.
LEMMA MakeIdleKeeps ==
  ASSUME IInv, NEW at \in {"idle", "bootIdle"}, NEW next, NEW bad,
         NEW lost \in {"PROTOCOL", "TRANSFER_FAILED"}, MakeIdle(at, next, bad, lost)
  PROVE  /\ DeviceInv' /\ curAlt' = curAlt /\ NoneGrows /\ pc = at
         /\ UNCHANGED <<target, run, polls, fails, crashes>>
         /\ fix' \in {"none", "clrstatus", "abort"} /\ tries' \in 0 .. IdleTries
         /\ \/ pc' = bad /\ result' \in {"PROTOCOL", "TRANSFER_FAILED"}
            \/ pc' = next /\ result' = result
            \/ pc' = at /\ result' = result /\ tries' < IdleTries
<1>0. DeviceInv /\ fix \in {"none", "clrstatus", "abort"} /\ tries \in 0 .. IdleTries
      /\ IdleTries \in Nat
  BY LinkAssumption DEF IInv, TypeOK, LinkTypeOK, DeviceInv
<1>1. CASE IdleStatus(at, next, bad, lost)
  <2>1. PICK s : /\ GetStatus(s, FALSE)
                 /\ \/ pc' = bad /\ result' = lost /\ UNCHANGED fix
                    \/ pc' = next /\ UNCHANGED <<fix, result>>
                    \/ fix' \in {"clrstatus", "abort"} /\ UNCHANGED <<pc, result>>
    BY <1>1 DEF IdleStatus
  <2>2. pc = at /\ UNCHANGED <<target, run, tries, polls, fails, crashes>>
    BY <1>1 DEF IdleStatus
  <2>3. tries < IdleTries
    BY <2>2 DEF IInv, Rounds
  <2>4. QED BY <1>0, <2>1, <2>2, <2>3, GetStatusKeeps
<1>2. CASE IdleFix(at, bad)
  <2>1. ClrStatus \/ Abort
    BY <1>2 DEF IdleFix
  <2>2. /\ pc = at /\ UNCHANGED <<target, run, polls, fails, crashes>>
        /\ fix' = "none" /\ tries' = tries + 1
        /\ IF tries + 1 = IdleTries THEN pc' = bad /\ result' = "PROTOCOL"
                                    ELSE UNCHANGED <<pc, result>>
    BY <1>2 DEF IdleFix
  <2>3. tries < IdleTries
    BY <2>2 DEF IInv, Rounds
  <2>4. QED BY <1>0, <2>1, <2>2, <2>3, FixKeeps
<1>3. QED BY <1>1, <1>2 DEF MakeIdle

\* Making the device idle before the token.
LEMMA IdleKeeps == IInv /\ Idle => IInv'
<1> SUFFICES ASSUME IInv, Idle PROVE IInv'
  OBVIOUS
<1>1. MakeIdle("idle", "token", "recover", "PROTOCOL") /\ UNCHANGED opVars
  BY DEF Idle
<1>2. /\ DeviceInv' /\ curAlt' = curAlt /\ pc = "idle"
      /\ UNCHANGED <<target, run, polls, fails, crashes, opVars>>
      /\ fix' \in {"none", "clrstatus", "abort"} /\ tries' \in 0 .. IdleTries
      /\ \/ pc' = "recover" /\ result' \in {"PROTOCOL", "TRANSFER_FAILED"}
         \/ pc' = "token" /\ result' = result
         \/ pc' = "idle" /\ result' = result /\ tries' < IdleTries
  BY <1>1, MakeIdleKeeps
<1>3. TypeOK'
  BY <1>2 DEF IInv, TypeOK, LinkTypeOK, Results, Recoverable, DeviceInv
<1>4. QED
  BY <1>2, <1>3 DEF IInv, DeviceInv, OnAlt, Rounds, ProbedBlank, CleanPath, MissingPath, Succeeded

\* The token goes out.
LEMMA SendTokenKeeps == NumbersDiffer /\ IInv /\ SendToken => IInv'
<1> SUFFICES ASSUME NumbersDiffer, IInv, SendToken PROVE IInv'
  OBVIOUS
<1>0. DeviceInv
  BY DEF IInv, TypeOK, DeviceInv
<1>1. /\ UNCHANGED <<target, run, tries, fix, crashes, opVars>> /\ pc = "token"
      /\ \/ pc' = "tokenPoll" /\ polls' = 0 /\ fails' = 0 /\ result' = result
         \/ pc' = "recover" /\ result' = "TRANSFER_FAILED" /\ UNCHANGED <<polls, fails>>
      /\ \E ok \in BOOLEAN : Dnload(0, Token, ok)
  BY DEF SendToken, BeginPoll, Fail
<1>2. DeviceInv' /\ curAlt' = curAlt
  BY <1>0, <1>1, DnloadKeeps
<1>3. TypeOK'
  BY <1>1, <1>2, LinkAssumption DEF IInv, TypeOK, LinkTypeOK, Results, Recoverable, DeviceInv
<1>4. QED
  BY <1>1, <1>2, <1>3 DEF IInv, DeviceInv, OnAlt, Rounds, ProbedBlank, CleanPath, MissingPath, Succeeded

\* What a poll does to the host's loop.
LEMMA PollIs ==
  ASSUME IInv, NEW at, NEW next, Poll(at, next)
  PROVE  /\ pc = at /\ UNCHANGED <<target, run, tries, fix, crashes, opVars>>
         /\ polls' \in 0 .. MaxPolls - 1
         /\ fails' \in Nat /\ (fails' <= WriteGrace \/ fails' <= EraseGrace)
         /\ \/ pc' = next /\ result' = result
            \/ pc' = at /\ result' = result
            \/ pc' = "recover" /\ result' \in Recoverable
<1>0. /\ MaxPolls \in Nat /\ WriteGrace \in Nat /\ EraseGrace \in Nat
      /\ polls \in 0 .. MaxPolls - 1
      /\ fails \in Nat /\ (fails <= WriteGrace \/ fails <= EraseGrace)
  BY LinkAssumption DEF IInv, TypeOK, LinkTypeOK
<1>1. PICK s \in DfuStates \union {NoReply} :
        \/ PollReady(s) /\ pc' = next /\ UNCHANGED <<polls, fails, result>>
        \/ PollAgainStep(s, EraseGrace) /\ UNCHANGED <<pc, result>>
        \/ /\ \E err \in Recoverable : PollEnds(s, EraseGrace, err) /\ Fail(err)
           /\ UNCHANGED <<polls, fails>>
  BY DEF Poll
<1>2. pc = at /\ UNCHANGED <<target, run, tries, fix, crashes, opVars>>
  BY DEF Poll
<1>3. CASE PollReady(s) /\ pc' = next /\ UNCHANGED <<polls, fails, result>>
  BY <1>0, <1>2, <1>3
<1>4. CASE PollAgainStep(s, EraseGrace) /\ UNCHANGED <<pc, result>>
  <2>1. polls + 1 # MaxPolls /\ polls' = polls + 1
    BY <1>4 DEF PollAgainStep, LastPoll
  <2>2. fails' = 0 \/ (fails' = fails + 1 /\ fails < EraseGrace)
    BY <1>4 DEF PollAgainStep, PollAgain, BusyStates, NoReply
  <2>3. QED BY <1>0, <1>2, <1>4, <2>1, <2>2
<1>5. CASE (\E err \in Recoverable : Fail(err)) /\ UNCHANGED <<polls, fails>>
  BY <1>0, <1>2, <1>5 DEF Fail
<1>6. QED BY <1>1, <1>3, <1>4, <1>5

\* Waiting for the token to be taken.
LEMMA TokenPollKeeps == IInv /\ TokenPoll => IInv'
<1> SUFFICES ASSUME IInv, TokenPoll PROVE IInv'
  OBVIOUS
<1>0. DeviceInv
  BY DEF IInv, TypeOK, DeviceInv
<1>1. Poll("tokenPoll", "end")
  BY DEF TokenPoll
<1>2. /\ pc = "tokenPoll" /\ UNCHANGED <<target, run, tries, fix, crashes, opVars>>
      /\ polls' \in 0 .. MaxPolls - 1
      /\ fails' \in Nat /\ (fails' <= WriteGrace \/ fails' <= EraseGrace)
      /\ \/ pc' \in {"end", "tokenPoll"} /\ result' = result
         \/ pc' = "recover" /\ result' \in Recoverable
  BY <1>1, PollIs
<1>3. PICK s : GetStatus(s, LastPoll)
  BY <1>1 DEF Poll
<1>4. DeviceInv' /\ curAlt' = curAlt
  BY <1>0, <1>3, GetStatusKeeps
<1>5. TypeOK'
  BY <1>2, <1>4 DEF IInv, TypeOK, LinkTypeOK, Results, DeviceInv
<1>6. QED
  BY <1>2, <1>4, <1>5
     DEF IInv, DeviceInv, OnAlt, Rounds, ProbedBlank, CleanPath, MissingPath, Succeeded, Recoverable

\* The request that ends the download and starts the manifest.
LEMMA SendEndKeeps == IInv /\ SendEnd => IInv'
<1> SUFFICES ASSUME IInv, SendEnd PROVE IInv'
  OBVIOUS
<1>0. DeviceInv
  BY DEF IInv, TypeOK, DeviceInv
<1>1. /\ UNCHANGED <<target, run, tries, fix, crashes, opVars>> /\ pc = "end"
      /\ \/ DnloadEnd(TRUE) /\ pc' = "erasePoll" /\ polls' = 0 /\ fails' = 0 /\ result' = result
         \/ DnloadEnd(FALSE) /\ pc' = "recover" /\ result' = "TRANSFER_FAILED" /\ UNCHANGED <<polls, fails>>
  BY DEF SendEnd, BeginPoll, Fail
<1>2. DeviceInv' /\ curAlt' = curAlt
  BY <1>0, <1>1, DnloadEndKeeps
<1>3. TypeOK'
  <2>1. polls' \in 0 .. MaxPolls - 1 /\ fails' \in Nat /\ (fails' <= WriteGrace \/ fails' <= EraseGrace)
    <3>1. /\ 0 \in 0 .. MaxPolls - 1 /\ WriteGrace \in Nat /\ EraseGrace \in Nat
          /\ polls \in 0 .. MaxPolls - 1
          /\ fails \in Nat /\ (fails <= WriteGrace \/ fails <= EraseGrace)
      BY LinkAssumption DEF IInv, TypeOK, LinkTypeOK
    <3>2. \/ polls' = 0 /\ fails' = 0
          \/ polls' = polls /\ fails' = fails
      BY <1>1
    <3>3. CASE polls' = 0 /\ fails' = 0
      <4>1. 0 \in Nat /\ 0 <= WriteGrace
        BY <3>1
      <4>2. QED BY <3>1, <3>3, <4>1
    <3>4. CASE polls' = polls /\ fails' = fails
      BY <3>1, <3>4
    <3>5. QED BY <3>2, <3>3, <3>4
  <2>2. result' \in Results /\ pc' \in {"erasePoll", "recover"}
    BY <1>1 DEF IInv, TypeOK, LinkTypeOK, Results, Recoverable
  <2>3. QED BY <1>1, <1>2, <2>1, <2>2 DEF IInv, TypeOK, LinkTypeOK, DeviceInv
<1>4. CleanPath'
  <2>1. result' # "SUCCESS"
    BY <1>1 DEF IInv, ProbedBlank, Succeeded
  <2>2. pc' = "erasePoll" /\ ~faulty' => ~wedged' /\ dfuState' = "dfuMANIFEST_SYNC"
    BY <1>0, <1>1, DnloadEndClean DEF DeviceInv
  <2>3. pc' \in {"erasePoll", "recover"}
    BY <1>1
  <2>4. QED BY <2>1, <2>2, <2>3 DEF CleanPath, Succeeded
<1>5. QED
  BY <1>1, <1>2, <1>3, <1>4 DEF IInv, DeviceInv, OnAlt, Rounds, ProbedBlank, MissingPath, Succeeded

\* Waiting out the wipe: without a failure, an answer means that the transaction is over.
LEMMA ErasePollKeeps == IInv /\ ErasePoll => IInv'
<1> SUFFICES ASSUME IInv, ErasePoll PROVE IInv'
  OBVIOUS
<1>0. DeviceInv /\ MachineOK
  BY DEF IInv, TypeOK, DeviceInv, GadgetTypeOK, MachineOK
<1>1. Poll("erasePoll", "bootClaim")
  BY DEF ErasePoll
<1>2. /\ pc = "erasePoll" /\ UNCHANGED <<target, run, tries, fix, crashes, opVars>>
      /\ polls' \in 0 .. MaxPolls - 1
      /\ fails' \in Nat /\ (fails' <= WriteGrace \/ fails' <= EraseGrace)
      /\ \/ pc' \in {"bootClaim", "erasePoll"} /\ result' = result
         \/ pc' = "recover" /\ result' \in Recoverable
  BY <1>1, PollIs
<1>3. PICK s : /\ GetStatus(s, LastPoll)
               /\ pc' = "bootClaim" => PollReady(s)
               /\ pc' = "erasePoll" => PollAgain(s, EraseGrace)
  BY <1>1, <1>2 DEF Poll, PollAgainStep, Fail
<1>4. DeviceInv' /\ curAlt' = curAlt
  BY <1>0, <1>3, GetStatusKeeps
<1>5. TypeOK'
  BY <1>2, <1>4 DEF IInv, TypeOK, LinkTypeOK, Results, DeviceInv
<1>6. ASSUME ~faulty', pc' # "recover"
      PROVE  /\ ~wedged'
             /\ pc' = "erasePoll" => \/ dfuState' = "dfuMANIFEST_SYNC"
                                     \/ dfuState' = "dfuMANIFEST" /\ pos'[EraseAlt] = 0
             /\ pc' = "bootClaim" => dfuState' = "dfuIDLE" /\ pos'[EraseAlt] = 0
  <2>1. /\ ~faulty /\ wedged' = wedged
        /\ ~wedged => /\ StatusStep(s) /\ s # NoReply
                      /\ dfuState' = "dfuERROR" => dfuState = "dfuERROR"
    BY <1>0, <1>3, <1>6, GetStatusClean DEF DeviceInv
  <2>2. /\ ~wedged /\ curAlt = EraseAlt
        /\ \/ dfuState = "dfuMANIFEST_SYNC"
           \/ dfuState = "dfuMANIFEST" /\ pos[EraseAlt] = 0
    BY <1>2, <2>1 DEF IInv, CleanPath, OnAlt
  <2>3. CASE dfuState = "dfuMANIFEST_SYNC"
    <3>1. s = "dfuMANIFEST" /\ CleanEntity /\ dfuState' = "dfuMANIFEST"
      BY <2>1, <2>2, <2>3 DEF StatusStep, SyncStates, RestStates, Stall
    <3>2. pos'[EraseAlt] = 0
      BY <1>0, <2>2, <3>1, CleanEntityKeeps
    <3>3. ~PollReady(s)
      BY <3>1 DEF PollReady, BusyStates
    <3>4. QED BY <1>3, <2>1, <2>2, <3>1, <3>2, <3>3
  <2>4. CASE dfuState = "dfuMANIFEST" /\ pos[EraseAlt] = 0
    <3>1. s \in {"dfuMANIFEST", "dfuIDLE"} /\ dfuState' = s /\ pos' = pos
      BY <2>1, <2>2, <2>4 DEF StatusStep, SyncStates, RestStates
    <3>2. pc' = "bootClaim" => s = "dfuIDLE"
      BY <1>3, <3>1 DEF PollReady, BusyStates
    <3>3. pc' = "erasePoll" => s = "dfuMANIFEST"
      BY <1>3, <3>1 DEF PollAgain, BusyStates, NoReply
    <3>4. QED BY <2>1, <2>2, <2>4, <3>1, <3>2, <3>3
  <2>5. QED BY <2>2, <2>3, <2>4
<1>7. CleanPath'
  BY <1>2, <1>6 DEF IInv, ProbedBlank, CleanPath, Succeeded, Recoverable
<1>8. QED
  BY <1>2, <1>4, <1>5, <1>7
     DEF IInv, DeviceInv, OnAlt, Rounds, ProbedBlank, MissingPath, Succeeded, Recoverable

-----------------------------------------------------------------------------
(* The blank check, and the way out of it.                                 *)

\* What keeps the invariant once the wipe was waited for: only the pc, the result and
\* the device change, and the erase alt is there.
LEMMA CheckKeeps ==
  ASSUME IInv, DeviceInv', CleanPath',
         UNCHANGED <<target, run, polls, fails, crashes, opVars>>,
         pc \in {"bootClaim", "bootIdle", "probe", "drop", "close", "reprobe", "closeAgain", "clear"},
         pc' \in {"bootIdle", "probe", "drop", "close", "reprobe", "closeAgain", "clear", "recover", "done"},
         tries' \in 0 .. IdleTries, fix' \in {"none", "clrstatus", "abort"},
         pc' = "bootIdle" => tries' < IdleTries,
         result' \in Results, result' = "SUCCESS" => pc' = "done",
         pc' \in {"bootIdle", "probe", "close", "reprobe", "closeAgain", "clear"} => curAlt' = BootAlt,
         pc' \in {"close", "reprobe", "closeAgain", "clear", "done"} => flash'[BootAlt][0] = Blank
  PROVE  IInv'
<1>1. TypeOK'
  BY DEF IInv, TypeOK, LinkTypeOK, DeviceInv
<1>2. erasable /\ erasable'
  BY DEF IInv, MissingPath
<1>3. QED
  BY <1>1, <1>2 DEF IInv, DeviceInv, OnAlt, Rounds, ProbedBlank, MissingPath, Succeeded

\* Claiming the boot flash.
LEMMA BootClaimKeeps == IInv /\ BootClaim => IInv'
<1> SUFFICES ASSUME IInv, BootClaim PROVE IInv'
  OBVIOUS
<1>0. DeviceInv /\ result \in Results /\ IdleTries \in Nat \ {0} /\ NeedsSelect(BootAlt)
  BY BothAlts, LinkAssumption DEF IInv, TypeOK, LinkTypeOK, DeviceInv, NeedsSelect
<1>1. /\ UNCHANGED <<target, run, polls, fails, crashes, opVars>> /\ pc = "bootClaim"
      /\ tries' = 0 /\ fix' = "none"
      /\ \/ /\ pc' = "drop" /\ result' = "OPEN_FAILED"
            /\ UNCHANGED <<dfuState, curAlt, pos, buf, flash, wedged, keepsTxn>>
            /\ faulty' = TRUE
         \/ pc' = "bootIdle" /\ result' = result /\ SelectAlt(BootAlt, TRUE)
         \/ pc' = "drop" /\ result' = "PROTOCOL" /\ SelectAlt(BootAlt, FALSE)
  BY <1>0 DEF BootClaim, ClaimAlt
<1>2. DeviceInv' /\ (pc' = "bootIdle" => curAlt' = BootAlt)
  <2>1. CASE UNCHANGED <<dfuState, curAlt, pos, buf, flash, wedged, keepsTxn>>
             /\ faulty' = TRUE /\ pc' = "drop"
    BY <1>0, <2>1 DEF DeviceInv, GadgetTypeOK, Entities
  <2>2. CASE \E ok \in BOOLEAN : SelectAlt(BootAlt, ok) /\ (~ok => pc' = "drop")
    BY <1>0, <2>2, BothAlts, SelectAltKeeps
  <2>3. QED BY <1>1, <2>1, <2>2
<1>3. result # "SUCCESS" /\ result' \in Results /\ result' # "SUCCESS"
  BY <1>0, <1>1 DEF IInv, ProbedBlank, Succeeded, Results, Recoverable
<1>4. CleanPath'
  <2>1. ASSUME ~faulty', pc' = "bootIdle"
        PROVE  ~wedged' /\ pos'[EraseAlt] = 0 /\ dfuState' = "dfuIDLE"
    <3>1. ~faulty /\ ~wedged' /\ SelectAltStep(BootAlt)
      BY <1>0, <1>1, <2>1, BothAlts, SelectAltClean DEF DeviceInv
    <3>2. dfuState = "dfuIDLE" /\ pos[EraseAlt] = 0
      BY <1>1, <3>1 DEF IInv, CleanPath
    <3>3. QED BY <3>1, <3>2 DEF SelectAltStep
  <2>2. pc' \in {"bootIdle", "drop"} /\ fix' = "none"
    BY <1>1
  <2>3. QED BY <1>3, <2>1, <2>2 DEF CleanPath, Succeeded
<1>5. pc' \in {"bootIdle", "drop"} /\ tries' \in 0 .. IdleTries /\ tries' < IdleTries
  <2>1. 0 \in 0 .. IdleTries /\ 0 < IdleTries
    BY <1>0
  <2>2. pc' \in {"bootIdle", "drop"} /\ tries' = 0
    BY <1>1
  <2>3. QED BY <2>1, <2>2
<1>6. QED BY <1>1, <1>2, <1>3, <1>4, <1>5, CheckKeeps

\* Making it idle: a loader that lost nothing already is.
LEMMA BootIdleKeeps == IInv /\ BootIdle => IInv'
<1> SUFFICES ASSUME IInv, BootIdle PROVE IInv'
  OBVIOUS
<1>0. DeviceInv /\ result \in Results
  BY DEF IInv, TypeOK, LinkTypeOK, DeviceInv
<1>1. MakeIdle("bootIdle", "probe", "drop", "TRANSFER_FAILED") /\ UNCHANGED opVars
  BY DEF BootIdle
<1>2. /\ DeviceInv' /\ curAlt' = curAlt /\ pc = "bootIdle"
      /\ UNCHANGED <<target, run, polls, fails, crashes, opVars>>
      /\ fix' \in {"none", "clrstatus", "abort"} /\ tries' \in 0 .. IdleTries
      /\ \/ pc' = "drop" /\ result' \in {"PROTOCOL", "TRANSFER_FAILED"}
         \/ pc' = "probe" /\ result' = result
         \/ pc' = "bootIdle" /\ result' = result /\ tries' < IdleTries
  BY <1>1, MakeIdleKeeps
<1>3. result # "SUCCESS" /\ result' \in Results /\ result' # "SUCCESS" /\ curAlt = BootAlt
  BY <1>0, <1>2 DEF IInv, OnAlt, ProbedBlank, Succeeded, Results, Recoverable
<1>4. ASSUME ~faulty', pc' # "drop"
      PROVE  pc' = "probe" /\ ~wedged' /\ pos'[EraseAlt] = 0 /\ dfuState' = "dfuIDLE"
  <2>1. ~faulty => ~wedged /\ pos[EraseAlt] = 0 /\ dfuState = "dfuIDLE" /\ fix = "none"
    BY <1>2 DEF IInv, CleanPath
  <2>2. CASE IdleFix("bootIdle", "drop")
    <3>1. \/ fix = "clrstatus" /\ ClrStatus
          \/ fix = "abort" /\ Abort
      BY <2>2 DEF IdleFix
    <3>2. ~faulty
      BY <1>0, <1>4, <3>1, AbortClean, ClrStatusClean DEF DeviceInv
    <3>3. QED BY <2>1, <3>1, <3>2
  <2>3. CASE IdleStatus("bootIdle", "probe", "drop", "TRANSFER_FAILED")
    <3>1. PICK s : /\ GetStatus(s, FALSE)
                   /\ \/ s = NoReply /\ pc' = "drop"
                      \/ s = "dfuIDLE" /\ pc' = "probe"
                      \/ s \notin {NoReply, "dfuIDLE"}
      BY <2>3 DEF IdleStatus
    <3>2. ~faulty /\ wedged' = wedged /\ (~wedged => StatusStep(s) /\ s # NoReply)
      BY <1>0, <1>4, <3>1, GetStatusClean DEF DeviceInv
    <3>3. s = "dfuIDLE" /\ UNCHANGED <<dfuState, pos>>
      BY <2>1, <3>2 DEF StatusStep, SyncStates, RestStates
    <3>4. QED BY <1>4, <2>1, <3>1, <3>2, <3>3 DEF NoReply
  <2>4. QED BY <1>1, <2>2, <2>3 DEF MakeIdle
<1>5. CleanPath'
  BY <1>2, <1>3, <1>4 DEF CleanPath, Succeeded
<1>6. pc' \in {"probe", "bootIdle", "drop"} /\ (pc' = "bootIdle" => tries' < IdleTries)
  BY <1>2
<1>7. QED BY <1>2, <1>3, <1>5, <1>6, CheckKeeps

\* The probe: a blank answer is the boot flash's first block.
LEMMA ProbeKeeps == NumbersDiffer /\ IInv /\ Probe => IInv'
<1> SUFFICES ASSUME NumbersDiffer, IInv, Probe PROVE IInv'
  OBVIOUS
<1>0. /\ DeviceInv /\ MachineOK /\ tries \in 0 .. IdleTries /\ fix \in {"none", "clrstatus", "abort"}
  BY DEF IInv, TypeOK, LinkTypeOK, DeviceInv, GadgetTypeOK, MachineOK
<1>1. pc = "probe" /\ UNCHANGED <<target, run, loopVars, crashes, opVars>> /\ curAlt = BootAlt
  BY DEF Probe, IInv, OnAlt
<1>2. PICK got : /\ Upload(0, got)
                 /\ result' = BlankCheck(got)
                 /\ pc' = IF BlankCheck(got) = "NONE" THEN "close" ELSE "drop"
  BY DEF Probe
<1>3. DeviceInv' /\ UNCHANGED <<curAlt, flash>> /\ (got = Blank => flash[curAlt][0] = Blank)
  BY <1>0, <1>2, UploadKeeps
<1>4. /\ BlankCheck(got) \in {"NONE", "TRANSFER_FAILED", "PROTOCOL", "VERIFY"}
      /\ BlankCheck(got) = "NONE" => got = Blank
  BY DEF BlankCheck
<1>5. /\ pc' \in {"close", "drop"} /\ (pc' = "close" => got = Blank)
      /\ result' \in Results /\ result' # "SUCCESS"
  BY <1>2, <1>4 DEF Results, Recoverable
<1>6. CleanPath'
  <2>1. ASSUME ~faulty', pc' = "close"
        PROVE  /\ ~wedged' /\ pos'[EraseAlt] = 0
               /\ dfuState' = "dfuUPLOAD_IDLE" /\ pos'[BootAlt] = 1
    <3>1. ~faulty /\ wedged' = wedged /\ (~wedged => UploadBlock(0, got))
      BY <1>0, <1>2, <2>1, UploadClean DEF DeviceInv
    <3>2. ~wedged /\ pos[EraseAlt] = 0
      BY <1>1, <3>1 DEF IInv, CleanPath
    <3>3. got = Blank
      BY <1>5, <2>1
    <3>4. /\ Expects(curAlt, 0) /\ dfuState' = "dfuUPLOAD_IDLE"
          /\ pos' = [pos EXCEPT ![curAlt] = @ + 1]
      <4>1. Expects(curAlt, 0)
        BY <3>1, <3>2, <3>3 DEF UploadBlock
      <4>2. BytesHere = BlockBytes
        BY <1>0, <1>1, <4>1, ExpectsFirst, FirstIsWhole
      <4>3. ~(BytesHere < BlockBytes)
        BY <4>2, BytesAssumption
      <4>4. QED BY <3>1, <3>2, <3>3, <4>1, <4>3 DEF UploadBlock
    <3>5. pos[curAlt] = 0
      BY <1>0, <3>4, ExpectsFirst
    <3>6. pos'[BootAlt] = 1 /\ pos'[EraseAlt] = pos[EraseAlt]
      BY <1>0, <1>1, <3>4, <3>5, BothAlts DEF MachineOK
    <3>7. QED BY <3>1, <3>2, <3>4, <3>6
  <2>2. QED BY <1>5, <2>1 DEF CleanPath, Succeeded
<1>7. QED BY <1>0, <1>1, <1>3, <1>5, <1>6, CheckKeeps

\* The ABORT after a failed check.
LEMMA DropKeeps == IInv /\ Drop => IInv'
<1> SUFFICES ASSUME IInv, Drop PROVE IInv'
  OBVIOUS
<1>0. /\ DeviceInv /\ tries \in 0 .. IdleTries /\ fix \in {"none", "clrstatus", "abort"}
      /\ result \in Results
  BY DEF IInv, TypeOK, LinkTypeOK, DeviceInv
<1>1. /\ pc = "drop" /\ pc' = "recover" /\ Abort
      /\ UNCHANGED <<target, run, loopVars, result, crashes, opVars>>
  BY DEF Drop
<1>2. DeviceInv'
  BY <1>0, <1>1, FixKeeps
<1>3. result' # "SUCCESS" /\ result' \in Results
  BY <1>0, <1>1 DEF IInv, ProbedBlank, Succeeded
<1>4. CleanPath'
  BY <1>1, <1>3 DEF CleanPath, Succeeded
<1>5. QED BY <1>0, <1>1, <1>2, <1>3, <1>4, CheckKeeps

\* What an executed ABORT makes of an entity at rest.
LEMMA AbortAtRest ==
  ASSUME MachineOK, AbortStep, dfuState \in {"dfuIDLE", "dfuUPLOAD_IDLE"}
  PROVE  /\ dfuState' = "dfuIDLE"
         /\ IF keepsTxn THEN UNCHANGED pos ELSE CleanEntity
BY DEF AbortStep, RestStates, Stall

\* The first close: an old loader keeps the transaction, and a second probe will tell.
LEMMA CloseProbeKeeps == IInv /\ CloseProbe => IInv'
<1> SUFFICES ASSUME IInv, CloseProbe PROVE IInv'
  OBVIOUS
<1>0. /\ DeviceInv /\ MachineOK /\ tries \in 0 .. IdleTries /\ fix \in {"none", "clrstatus", "abort"}
      /\ result \in Results
  BY DEF IInv, TypeOK, LinkTypeOK, DeviceInv, GadgetTypeOK, MachineOK
<1>1. /\ pc = "close" /\ pc' = "reprobe" /\ Abort
      /\ UNCHANGED <<target, run, loopVars, result, crashes, opVars>>
  BY DEF CloseProbe
<1>2. DeviceInv' /\ UNCHANGED <<curAlt, flash>>
  BY <1>0, <1>1, FixKeeps
<1>3. result' # "SUCCESS" /\ curAlt = BootAlt /\ flash[BootAlt][0] = Blank
  BY <1>1 DEF IInv, OnAlt, ProbedBlank, Succeeded
<1>4. ASSUME ~faulty'
      PROVE  /\ ~wedged' /\ pos'[EraseAlt] = 0 /\ dfuState' = "dfuIDLE"
             /\ pos'[BootAlt] = IF keepsTxn' THEN 1 ELSE 0
  <2>1. ~faulty /\ wedged' = wedged /\ keepsTxn' = keepsTxn /\ (~wedged => AbortStep)
    BY <1>0, <1>1, <1>4, AbortClean DEF DeviceInv
  <2>2. ~wedged /\ pos[EraseAlt] = 0 /\ dfuState = "dfuUPLOAD_IDLE" /\ pos[BootAlt] = 1
    BY <1>1, <2>1 DEF IInv, CleanPath
  <2>3. dfuState' = "dfuIDLE" /\ IF keepsTxn THEN UNCHANGED pos ELSE CleanEntity
    BY <1>0, <2>1, <2>2, AbortAtRest
  <2>4. CASE keepsTxn
    BY <2>1, <2>2, <2>3, <2>4
  <2>5. CASE ~keepsTxn
    <3>1. pos'[BootAlt] = 0 /\ pos'[EraseAlt] = pos[EraseAlt]
      BY <1>0, <1>3, <2>3, <2>5, BothAlts, CleanEntityKeeps
    <3>2. QED BY <2>1, <2>2, <2>3, <2>5, <3>1
  <2>6. QED BY <2>4, <2>5
<1>5. CleanPath'
  BY <1>1, <1>3, <1>4 DEF CleanPath, Succeeded
<1>6. QED BY <1>0, <1>1, <1>2, <1>3, <1>5, CheckKeeps

\* The second probe: refused by a loader that kept the transaction, which ends it.
LEMMA ReprobeKeeps == NumbersDiffer /\ IInv /\ Reprobe => IInv'
<1> SUFFICES ASSUME NumbersDiffer, IInv, Reprobe PROVE IInv'
  OBVIOUS
<1>0. /\ DeviceInv /\ MachineOK /\ tries \in 0 .. IdleTries /\ fix \in {"none", "clrstatus", "abort"}
      /\ result \in Results
  BY DEF IInv, TypeOK, LinkTypeOK, DeviceInv, GadgetTypeOK, MachineOK
<1>1. pc = "reprobe" /\ UNCHANGED <<target, run, loopVars, result, crashes, opVars>>
  BY DEF Reprobe
<1>2. PICK got : Upload(0, got) /\ pc' = IF got = Refused THEN "clear" ELSE "closeAgain"
  BY DEF Reprobe
<1>3. DeviceInv' /\ UNCHANGED <<curAlt, flash>>
  BY <1>0, <1>2, UploadKeeps
<1>4. result' # "SUCCESS" /\ curAlt = BootAlt /\ flash[BootAlt][0] = Blank
  BY <1>1 DEF IInv, OnAlt, ProbedBlank, Succeeded
<1>5. ASSUME ~faulty'
      PROVE  /\ ~wedged' /\ pos'[EraseAlt] = 0
             /\ pc' = "clear" => dfuState' = "dfuERROR" /\ pos'[BootAlt] = 0
             /\ pc' = "closeAgain" => ~keepsTxn' /\ dfuState' \in {"dfuUPLOAD_IDLE", "dfuIDLE"}
  <2>1. ~faulty /\ wedged' = wedged /\ keepsTxn' = keepsTxn /\ (~wedged => UploadBlock(0, got))
    BY <1>0, <1>2, <1>5, UploadClean DEF DeviceInv
  <2>2. /\ ~wedged /\ pos[EraseAlt] = 0 /\ dfuState = "dfuIDLE"
        /\ pos[BootAlt] = IF keepsTxn THEN 1 ELSE 0
    BY <1>1, <2>1 DEF IInv, CleanPath
  <2>3. CASE Expects(curAlt, 0)
    <3>1. pos[BootAlt] = 0 /\ ~keepsTxn
      BY <1>0, <1>4, <2>2, <2>3, ExpectsFirst
    <3>2. \/ /\ got = flash[curAlt][pos[curAlt]] /\ dfuState' = "dfuUPLOAD_IDLE"
             /\ pos' = [pos EXCEPT ![curAlt] = @ + 1]
          \/ got = EndOfMedium /\ dfuState' = "dfuIDLE" /\ CleanEntity
      <4>1. BytesHere = BlockBytes
        BY <1>4, <3>1, FirstIsWhole
      <4>2. ~(BytesHere < BlockBytes)
        BY <4>1, BytesAssumption
      <4>3. QED BY <2>1, <2>2, <2>3, <4>2 DEF UploadBlock
    <3>3. got # Refused
      BY <1>4, <3>1, <3>2
    <3>4. pos'[EraseAlt] = pos[EraseAlt]
      BY <1>0, <1>4, <3>2, BothAlts, CleanEntityKeeps DEF MachineOK
    <3>5. QED BY <1>2, <2>1, <2>2, <3>1, <3>2, <3>3, <3>4
  <2>4. CASE ~Expects(curAlt, 0)
    <3>1. got = Refused /\ dfuState' = "dfuERROR" /\ CleanEntity
      BY <2>1, <2>2, <2>4 DEF UploadBlock, Stall
    <3>2. pos'[BootAlt] = 0 /\ pos'[EraseAlt] = pos[EraseAlt]
      BY <1>0, <1>4, <3>1, BothAlts, CleanEntityKeeps
    <3>3. QED BY <1>2, <2>1, <2>2, <3>1, <3>2
  <2>5. QED BY <2>3, <2>4
<1>6. pc' \in {"clear", "closeAgain"}
  BY <1>2
<1>7. CleanPath'
  BY <1>1, <1>4, <1>5, <1>6 DEF CleanPath, Succeeded
<1>8. QED BY <1>0, <1>1, <1>3, <1>4, <1>6, <1>7, CheckKeeps

\* The second close leaves nothing open on either kind of loader.
LEMMA CloseAgainKeeps == IInv /\ CloseAgain => IInv'
<1> SUFFICES ASSUME IInv, CloseAgain PROVE IInv'
  OBVIOUS
<1>0. /\ DeviceInv /\ MachineOK /\ tries \in 0 .. IdleTries /\ fix \in {"none", "clrstatus", "abort"}
  BY DEF IInv, TypeOK, LinkTypeOK, DeviceInv, GadgetTypeOK, MachineOK
<1>1. /\ \/ pc = "closeAgain" /\ Abort
         \/ pc = "clear" /\ ClrStatus
      /\ pc' = "done" /\ result' = "SUCCESS"
      /\ UNCHANGED <<target, run, loopVars, crashes, opVars>>
  BY DEF CloseAgain, Succeed
<1>2. DeviceInv' /\ UNCHANGED <<curAlt, flash>>
  BY <1>0, <1>1, FixKeeps
<1>3. curAlt = BootAlt /\ flash[BootAlt][0] = Blank /\ result' \in Results
  BY <1>1 DEF IInv, OnAlt, ProbedBlank, Results
<1>4. ASSUME ~faulty'
      PROVE  dfuState' = "dfuIDLE" /\ pos'[BootAlt] = 0 /\ pos'[EraseAlt] = 0
  <2>1. CASE pc = "closeAgain" /\ Abort
    <3>1. ~faulty /\ (~wedged => AbortStep)
      BY <1>0, <1>4, <2>1, AbortClean DEF DeviceInv
    <3>2. /\ ~wedged /\ pos[EraseAlt] = 0 /\ ~keepsTxn
          /\ dfuState \in {"dfuUPLOAD_IDLE", "dfuIDLE"}
      BY <2>1, <3>1 DEF IInv, CleanPath
    <3>3. dfuState' = "dfuIDLE" /\ CleanEntity
      BY <1>0, <3>1, <3>2, AbortAtRest
    <3>4. QED BY <1>0, <1>3, <3>2, <3>3, BothAlts, CleanEntityKeeps
  <2>2. CASE pc = "clear" /\ ClrStatus
    <3>1. ~faulty /\ (~wedged => ClrStatusStep)
      BY <1>0, <1>4, <2>2, ClrStatusClean DEF DeviceInv
    <3>2. ~wedged /\ pos[EraseAlt] = 0 /\ dfuState = "dfuERROR" /\ pos[BootAlt] = 0
      BY <2>2, <3>1 DEF IInv, CleanPath
    <3>3. QED BY <3>1, <3>2 DEF ClrStatusStep
  <2>3. QED BY <1>1, <2>1, <2>2
<1>5. CleanPath'
  BY <1>1, <1>4 DEF CleanPath, Succeeded
<1>6. pc \in {"closeAgain", "clear"}
  BY <1>1
<1>7. QED BY <1>0, <1>1, <1>2, <1>3, <1>5, <1>6, CheckKeeps

-----------------------------------------------------------------------------
(* The end of a call, and the next one.                                    *)

\* A bus reset, or the end of the call.
LEMMA ResetAndRetryKeeps == IInv /\ ResetAndRetry => IInv'
<1> SUFFICES ASSUME IInv, ResetAndRetry PROVE IInv'
  OBVIOUS
<1>0. run \in {0, 1} /\ result \in Results /\ result # "SUCCESS"
  BY DEF IInv, TypeOK, LinkTypeOK, ResetAndRetry, Recover, ProbedBlank, Succeeded
<1>1. /\ UNCHANGED <<target, loopVars, crashes, opVars, pos, buf, flash, keepsTxn>>
      /\ curAlt' \in {curAlt, 0} /\ dfuState' \in {dfuState, "dfuIDLE"} /\ pc = "recover"
  BY DEF ResetAndRetry, Recover, BusReset
<1>2. /\ pc' \in {"open", "done"} /\ run' \in {0, 1} /\ result' \in Results
      /\ result' # "SUCCESS"
  BY <1>0 DEF ResetAndRetry, Recover, Results
<1>3. wedged' \in BOOLEAN /\ keepsTxn' \in BOOLEAN /\ faulty' \in BOOLEAN
  BY DEF ResetAndRetry, Recover, BusReset, IInv, TypeOK, GadgetTypeOK
<1>4. GadgetTypeOK' /\ Entities'
  BY <1>1, <1>3, AltsAssumption DEF IInv, TypeOK, GadgetTypeOK, Entities, DfuStates, RestStates
<1>5. TypeOK'
  BY <1>1, <1>2, <1>4 DEF IInv, TypeOK, LinkTypeOK
<1>6. MissingPath'
  <2> SUFFICES ASSUME ~erasable, ~faulty'
               PROVE  /\ run' = 1 => "wedged" \in leftovers
                      /\ pc' = "open" => IF run' = 1 THEN ~wedged' ELSE wedged' => "wedged" \in leftovers
                      /\ pc' = "done" => result' = "INVALID_PARAMETER"
    BY <1>1, <1>2 DEF MissingPath
  <2>1. CASE result \in Recoverable /\ run = 0 /\ BusReset /\ pc' = "open" /\ run' = 1
    <3>1. ~faulty /\ ~wedged'
      BY <2>1 DEF BusReset
    <3>2. "wedged" \in leftovers
      BY <1>1, <2>1, <3>1 DEF IInv, MissingPath, Recoverable
    <3>3. QED BY <2>1, <3>1, <3>2
  <2>2. CASE (result \notin Recoverable \/ run = 1) /\ UNCHANGED <<gadgetVars, run, result>> /\ pc' = "done"
    BY <1>1, <2>2 DEF IInv, MissingPath
  <2>3. QED BY <2>1, <2>2 DEF ResetAndRetry, Recover
<1>7. QED
  BY <1>1, <1>2, <1>4, <1>5, <1>6 DEF IInv, OnAlt, Rounds, ProbedBlank, CleanPath, Succeeded

\* An erase that is killed leaves the device as it was, or wedged.
LEMMA InterruptEraseKeeps == IInv /\ InterruptErase => IInv'
<1> SUFFICES ASSUME IInv, InterruptErase PROVE IInv'
  OBVIOUS
<1>1. /\ UNCHANGED <<dfuState, curAlt, pos, buf, flash, keepsTxn, erasable>>
      /\ pc' = "open" /\ run' = 0 /\ result' = "NONE" /\ target' = BootAlt
      /\ tries' = 0 /\ fix' = "none" /\ polls' = 0 /\ fails' = 0
      /\ crashes < MaxCrashes /\ crashes' = crashes + 1
  BY DEF InterruptErase, Interrupt, Abandoned
<1>2. wedged' \in BOOLEAN /\ keepsTxn' \in BOOLEAN /\ faulty' \in BOOLEAN
  BY DEF InterruptErase, Interrupt, Abandoned, IInv, TypeOK, GadgetTypeOK
<1>3. GadgetTypeOK' /\ Entities'
  BY <1>1, <1>2 DEF IInv, TypeOK, GadgetTypeOK, Entities
<1>4. LinkTypeOK'
  BY <1>1, LinkAssumption, BothAlts DEF IInv, TypeOK, LinkTypeOK, Results
<1>5. leftovers' \subseteq {"wedged", "boot", "erase"} /\ (wedged' => "wedged" \in leftovers')
  BY DEF InterruptErase, Leftovers
<1>6. TypeOK'
  BY <1>1, <1>3, <1>4, <1>5 DEF IInv, TypeOK
<1>7. QED
  BY <1>1, <1>3, <1>5, <1>6
     DEF IInv, OnAlt, Rounds, ProbedBlank, CleanPath, MissingPath, Succeeded

\* Every step keeps the invariant.
THEOREM NextKeeps == NumbersDiffer /\ IInv /\ [Next]_vars => IInv'
<1> SUFFICES ASSUME NumbersDiffer, IInv, [Next]_vars PROVE IInv'
  OBVIOUS
<1>1. CASE UNCHANGED vars
  <2>1. UNCHANGED <<gadgetVars, linkVars, opVars>>
    BY <1>1
  <2>2. TypeOK' /\ Entities'
    BY <2>1 DEF IInv, TypeOK, GadgetTypeOK, LinkTypeOK, Entities
  <2>3. QED
    BY <2>1, <2>2 DEF IInv, OnAlt, Rounds, ProbedBlank, CleanPath, MissingPath, Succeeded
<1>2. CASE Next
  BY <1>2, OpenDeviceKeeps, ClaimKeeps, IdleKeeps, SendTokenKeeps, TokenPollKeeps, SendEndKeeps,
     ErasePollKeeps, BootClaimKeeps, BootIdleKeeps, ProbeKeeps, DropKeeps, CloseProbeKeeps,
     ReprobeKeeps, CloseAgainKeeps, ResetAndRetryKeeps, InterruptEraseKeeps DEF Next, Host
<1>3. QED BY <1>1, <1>2

\* The invariant holds in every behaviour.
THEOREM Invariance == NumbersDiffer => (Spec => []IInv)
<1> SUFFICES ASSUME NumbersDiffer PROVE Spec => []IInv
  OBVIOUS
<1>1. Init => IInv
  BY InitEstablishes
<1>2. IInv /\ [Next]_vars => IInv'
  BY NextKeeps
<1>3. QED BY <1>1, <1>2, PTL DEF Spec

\* For every interface, loop limit and number of interruptions: an erase reports success
\* only of a chip whose boot flash starts blank.
THEOREM EraseSuccessMeansBootBlank == NumbersDiffer => (Spec => []SuccessMeansBootBlank)
<1> SUFFICES ASSUME NumbersDiffer PROVE Spec => []SuccessMeansBootBlank
  OBVIOUS
<1>1. IInv => SuccessMeansBootBlank
  BY DEF IInv, ProbedBlank, SuccessMeansBootBlank
<1>2. QED BY <1>1, Invariance, PTL

\* A successful erase over a bus that lost nothing leaves either kind of loader clean.
THEOREM EraseSuccessLeavesEntityClean == NumbersDiffer => (Spec => []SuccessLeavesEntityClean)
<1> SUFFICES ASSUME NumbersDiffer PROVE Spec => []SuccessLeavesEntityClean
  OBVIOUS
<1>1. IInv => SuccessLeavesEntityClean
  BY DEF IInv, CleanPath, SuccessLeavesEntityClean
<1>2. QED BY <1>1, Invariance, PTL

\* A loader without the alt is named for what it is, and only reset for being wedged.
THEOREM EraseMissingAltIsFinal == NumbersDiffer => (Spec => []MissingAltIsFinal)
<1> SUFFICES ASSUME NumbersDiffer PROVE Spec => []MissingAltIsFinal
  OBVIOUS
<1>1. IInv => MissingAltIsFinal
  BY DEF IInv, MissingPath, MissingAltIsFinal
<1>2. QED BY <1>1, Invariance, PTL

\* Type correctness: every counter of the erase stays within its bounds.
THEOREM EraseTypeOK == NumbersDiffer => (Spec => []TypeOK)
<1> SUFFICES ASSUME NumbersDiffer PROVE Spec => []TypeOK
  OBVIOUS
<1>1. IInv => TypeOK
  BY DEF IInv
<1>2. QED BY <1>1, Invariance, PTL

\* No alt but the erase alt ever receives data, and it never more than one token.
THEOREM EraseTokenOnlyToEraseAlt == NumbersDiffer => (Spec => TokenOnlyToEraseAlt)
<1> SUFFICES ASSUME NumbersDiffer PROVE Spec => TokenOnlyToEraseAlt
  OBVIOUS
<1>1. IInv /\ [Next]_vars =>
        [\A a \in Alts : Len(buf'[a]) > Len(buf[a]) => a = EraseAlt /\ buf'[a] = <<Token>>]_vars
  <2> SUFFICES ASSUME IInv, Next, NEW a \in Alts, Len(buf'[a]) > Len(buf[a])
               PROVE  a = EraseAlt /\ buf'[a] = <<Token>>
    BY Zenon
  <2>0. DeviceInv /\ buf[a] \in Seq(Int)
    BY DEF IInv, TypeOK, DeviceInv, GadgetTypeOK
  <2>1. ~NoneGrows /\ buf' # buf
    <3>1. buf'[a] # buf[a] /\ buf'[a] # << >>
      BY <2>0
    <3>2. QED BY <3>1 DEF NoneGrows
  <2>2. CASE SendToken
    <3>1. PICK ok \in BOOLEAN : Dnload(0, Token, ok)
      BY <2>2 DEF SendToken
    <3>2. curAlt = EraseAlt
      BY <2>2 DEF SendToken, IInv, OnAlt
    <3>3. buf'[a] \in {buf[a], << >>} \/ (a = EraseAlt /\ buf'[a] = <<Token>>)
      BY <2>0, <3>1, <3>2, DnloadKeeps
    <3>4. QED BY <2>0, <3>3
  <2>3. CASE OpenDevice \/ ResetAndRetry \/ InterruptErase
    BY <2>1, <2>3 DEF OpenDevice, Open, ResetAndRetry, Recover, BusReset, InterruptErase, Interrupt, Abandoned
  <2>4. CASE Claim \/ BootClaim
    <3>1. PICK to \in Alts, ok \in BOOLEAN : SelectAlt(to, ok)
      BY <2>1, <2>4, BothAlts DEF Claim, BootClaim, ClaimAlt
    <3>2. QED BY <2>0, <2>1, <3>1, SelectAltKeeps
  <2>5. CASE Idle \/ BootIdle
    BY <2>1, <2>5, MakeIdleKeeps DEF Idle, BootIdle
  <2>6. CASE TokenPoll \/ ErasePoll
    <3>1. PICK s : GetStatus(s, LastPoll)
      BY <2>6 DEF TokenPoll, ErasePoll, Poll
    <3>2. QED BY <2>0, <2>1, <3>1, GetStatusKeeps
  <2>7. CASE SendEnd
    <3>1. PICK ok \in BOOLEAN : DnloadEnd(ok)
      BY <2>7 DEF SendEnd
    <3>2. QED BY <2>0, <2>1, <3>1, DnloadEndKeeps
  <2>8. CASE Probe \/ Reprobe
    <3>1. PICK got : Upload(0, got)
      BY <2>8 DEF Probe, Reprobe
    <3>2. QED BY <2>0, <2>1, <3>1, UploadKeeps
  <2>9. CASE Drop \/ CloseProbe \/ CloseAgain
    <3>1. Abort \/ ClrStatus
      BY <2>9 DEF Drop, CloseProbe, CloseAgain
    <3>2. QED BY <2>0, <2>1, <3>1, FixKeeps
  <2>10. QED BY <2>2, <2>3, <2>4, <2>5, <2>6, <2>7, <2>8, <2>9 DEF Next, Host
<1>2. QED BY <1>1, Invariance, PTL DEF Spec, TokenOnlyToEraseAlt

-----------------------------------------------------------------------------
(* An erase that meets no fault.  One thing may stand in its way; the run  *)
(* that finds it takes it away, and the second run finds nothing.          *)

InTheWay(what) ==
  \/ what = "wedged" /\ wedged
  \/ what = "boot" /\ pos[BootAlt] # 0
  \/ what = "erase" /\ pos[EraseAlt] # 0

NothingLeft == pos[BootAlt] = 0 /\ pos[EraseAlt] = 0

\* Before the token is out, one thing is in the way of the first run, none of the second.
OneInTheWay ==
  /\ pc \in {"open", "claim", "idle", "token"} =>
       IF run = 1 THEN ~wedged /\ NothingLeft
       ELSE \A x, y \in {"wedged", "boot", "erase"} : InTheWay(x) /\ InTheWay(y) => x = y
  /\ wedged => pc \in {"open", "recover"}
  /\ pc \in {"recover", "drop"} => run = 0 /\ result \in Recoverable /\ NothingLeft
  /\ pc = "tokenPoll" /\ dfuState = "dfuERROR" => run = 0 /\ NothingLeft
  /\ pc \in {"tokenPoll", "end", "erasePoll", "bootClaim", "bootIdle", "probe"} /\ run = 1 =>
       pos[BootAlt] = 0

\* The erase alt has the token.
TokenIn == pos[EraseAlt] = 1 /\ buf[EraseAlt] = <<Token>>

\* The wipe is done.
Wiped == WholeChipBlank /\ FlashBlocks > 0

\* How far the erase is.
EraseGoesOn ==
  /\ pc = "idle" => IdlePath
  /\ pc = "token" => dfuState = "dfuIDLE"
  /\ pc = "tokenPoll" => \/ dfuState = "dfuERROR"
                         \/ dfuState \in SyncStates \union {"dfuDNLOAD_IDLE"} /\ TokenIn
  /\ pc = "end" => dfuState = "dfuDNLOAD_IDLE" /\ TokenIn
  /\ pc = "erasePoll" => \/ dfuState = "dfuMANIFEST_SYNC" /\ TokenIn
                         \/ dfuState = "dfuMANIFEST" /\ Wiped
  /\ pc \in {"bootClaim", "bootIdle", "probe", "close", "reprobe", "closeAgain", "clear"} => Wiped
  /\ pc = "done" => Succeeded /\ Wiped

OneLeftover == erasable /\ Cardinality(leftovers) <= 1

CleanRun == ~faulty /\ OneLeftover => OneInTheWay /\ EraseGoesOn

\* A set of leftovers with at most one member has no two.
LEMMA AtMostOne ==
  ASSUME NEW S \in SUBSET {"wedged", "boot", "erase"}, Cardinality(S) <= 1,
         NEW x \in S, NEW y \in S
  PROVE  x = y
<1>1. IsFiniteSet({"wedged", "boot", "erase"})
  <2>1. IsFiniteSet({"wedged"})
    BY FS_Singleton
  <2>2. IsFiniteSet({"wedged"} \union {"boot"})
    BY <2>1, FS_AddElement
  <2>3. IsFiniteSet(({"wedged"} \union {"boot"}) \union {"erase"})
    BY <2>2, FS_AddElement
  <2>4. (({"wedged"} \union {"boot"}) \union {"erase"}) = {"wedged", "boot", "erase"}
    OBVIOUS
  <2>5. QED BY <2>3, <2>4
<1>2. IsFiniteSet(S)
  BY <1>1, FS_Subset
<1>3. Cardinality(S) \in Nat
  BY <1>2, FS_CardinalityType
<1>4. Cardinality(S) # 0
  BY <1>2, FS_EmptySet
<1>5. \E z : S = {z}
  BY <1>2, <1>3, <1>4, FS_Singleton
<1>6. QED BY <1>5

\* An erase begins with at most one thing in its way.
LEMMA BeginsClean ==
  ASSUME pc = "open", run = 0, leftovers = Leftovers
  PROVE  CleanRun
<1> SUFFICES ASSUME OneLeftover PROVE OneInTheWay /\ EraseGoesOn
  BY DEF CleanRun
<1>1. ASSUME NEW x \in {"wedged", "boot", "erase"}, NEW y \in {"wedged", "boot", "erase"},
             InTheWay(x), InTheWay(y)
      PROVE  x = y
  <2>1. x \in Leftovers /\ y \in Leftovers
    BY <1>1, Zenon DEF InTheWay, Leftovers
  <2>2. Leftovers \in SUBSET {"wedged", "boot", "erase"} /\ Cardinality(Leftovers) <= 1
    BY DEF Leftovers, OneLeftover
  <2>3. QED BY <2>1, <2>2, AtMostOne, Zenon
<1>2. OneInTheWay
  BY <1>1 DEF OneInTheWay
<1>3. QED BY <1>2 DEF EraseGoesOn

\* The device's types, where a clean erase uses them.
LEMMA WhatIsTyped ==
  ASSUME IInv
  PROVE  /\ GadgetTypeOK /\ DeviceInv /\ run \in {0, 1}
         /\ wedged \in BOOLEAN /\ faulty \in BOOLEAN /\ keepsTxn \in BOOLEAN
         /\ pos \in [Alts -> Nat] /\ buf \in [Alts -> Seq(Int)]
         /\ BootAlt \in Alts /\ EraseAlt \in Alts /\ BootAlt # EraseAlt
BY BothAlts DEF IInv, TypeOK, LinkTypeOK, GadgetTypeOK, DeviceInv

\* A hung gadget is reset, one that answers is claimed.
LEMMA OpenDeviceClean == IInv /\ CleanRun /\ OpenDevice => CleanRun'
<1> SUFFICES ASSUME IInv, CleanRun, OpenDevice, ~faulty', OneLeftover'
             PROVE OneInTheWay' /\ EraseGoesOn'
  BY DEF CleanRun
<1>0. /\ run \in {0, 1} /\ wedged \in BOOLEAN /\ faulty \in BOOLEAN
  BY WhatIsTyped
<1>1. /\ pc = "open" /\ UNCHANGED <<run, wedged, pos, opVars>>
      /\ \/ ~wedged /\ pc' = "claim" /\ faulty' = faulty
         \/ /\ pc' = "recover" /\ result' \in {"DEVICE_NOT_FOUND", "PROTOCOL"}
            /\ faulty' = (faulty \/ ~wedged)
  BY DEF OpenDevice, Open, Fail, gadgetVars
<1>2. ~faulty /\ ((pc' = "claim" /\ ~wedged) \/ (pc' = "recover" /\ wedged))
  BY <1>0, <1>1
<1>3. OneInTheWay
  BY <1>1, <1>2 DEF CleanRun, OneLeftover
<1>4. CASE pc' = "claim" /\ ~wedged
  BY <1>0, <1>1, <1>3, <1>4 DEF OneInTheWay, InTheWay, EraseGoesOn, NothingLeft
<1>5. CASE pc' = "recover" /\ wedged
  <2>1. run = 0
    BY <1>0, <1>1, <1>3, <1>5 DEF OneInTheWay
  <2>2. NothingLeft
    <3>1. /\ InTheWay("boot") /\ InTheWay("wedged") => "boot" = "wedged"
          /\ InTheWay("erase") /\ InTheWay("wedged") => "erase" = "wedged"
      BY <1>1, <1>3, <2>1 DEF OneInTheWay
    <3>2. QED BY <1>5, <3>1 DEF InTheWay, NothingLeft
  <2>3. result' \in Recoverable
    BY <1>1, <1>5 DEF Recoverable
  <2>4. QED BY <1>1, <1>5, <2>1, <2>2, <2>3 DEF OneInTheWay, EraseGoesOn, NothingLeft
<1>6. QED BY <1>2, <1>4, <1>5

\* The erase alt is selected, and making the device idle begins with all its rounds.
LEMMA ClaimClean == IdleTries >= 3 /\ IInv /\ CleanRun /\ Claim => CleanRun'
<1> SUFFICES ASSUME IdleTries >= 3, IInv, CleanRun, Claim, ~faulty', OneLeftover'
             PROVE OneInTheWay' /\ EraseGoesOn'
  BY DEF CleanRun
<1>0. GadgetTypeOK /\ run \in {0, 1}
  BY WhatIsTyped
<1>1. /\ pc = "claim" /\ tries' = 0 /\ fix' = "none" /\ UNCHANGED <<run, opVars>>
      /\ ClaimAlt("claim", EraseAlt, "idle", "recover")
  BY DEF Claim, ClaimAlt, OneLeftover
<1>2. NeedsSelect(EraseAlt)
  BY AltsAssumption DEF NeedsSelect
<1>3. PICK ok \in BOOLEAN : SelectAlt(EraseAlt, ok) /\ (ok => pc' = "idle")
  BY <1>1, <1>2, Zenon DEF ClaimAlt
<1>4. ~faulty /\ wedged' = wedged /\ (~ok => wedged)
  BY <1>0, <1>3, SelectAltClean
<1>5. OneInTheWay
  BY <1>1, <1>4 DEF CleanRun, OneLeftover
<1>6. ~wedged /\ ok /\ pos' = pos
  BY <1>0, <1>1, <1>3, <1>4, <1>5, SelectAltClean DEF OneInTheWay, SelectAltStep
<1>7. IdlePath'
  BY <1>1, IdlePathBegins
<1>8. pc' = "idle"
  BY <1>3, <1>6
<1>9. QED BY <1>0, <1>1, <1>4, <1>5, <1>6, <1>7, <1>8
          DEF OneInTheWay, InTheWay, EraseGoesOn, NothingLeft

\* Making the device idle opens no transaction, and ends with it idle.
LEMMA IdleClean == IInv /\ CleanRun /\ Idle => CleanRun'
<1> SUFFICES ASSUME IInv, CleanRun, Idle, ~faulty', OneLeftover'
             PROVE OneInTheWay' /\ EraseGoesOn'
  BY DEF CleanRun
<1>0. GadgetTypeOK /\ run \in {0, 1} /\ faulty \in BOOLEAN /\ pos \in [Alts -> Nat]
      /\ BootAlt \in Alts /\ EraseAlt \in Alts
  BY WhatIsTyped
<1>1. MakeIdle("idle", "token", "recover", "PROTOCOL") /\ UNCHANGED opVars
  BY DEF Idle
<1>2. pc = "idle" /\ run' = run
  BY <1>1 DEF MakeIdle, IdleStatus, IdleFix
<1>3. ~faulty
  <2>1. CASE \E s : GetStatus(s, FALSE)
    BY <1>0, <2>1, GetStatusClean
  <2>2. CASE ClrStatus \/ Abort
    BY <1>0, <2>2, ClrStatusClean, AbortClean
  <2>3. QED BY <1>1, <2>1, <2>2 DEF MakeIdle, IdleStatus, IdleFix
<1>4. OneInTheWay /\ EraseGoesOn
  BY <1>1, <1>3 DEF CleanRun, OneLeftover
<1>5. ~wedged /\ IdlePath
  BY <1>2, <1>4 DEF OneInTheWay, EraseGoesOn
<1>6. /\ ~wedged'
      /\ CleanEntity \/ UNCHANGED <<pos, buf>>
      /\ (pc' = "token" /\ dfuState' = "dfuIDLE") \/ (pc' = "idle" /\ IdlePath')
  BY <1>0, <1>1, <1>5, MakeIdleClean
<1>7. \A a \in Alts : pos'[a] # 0 => pos[a] # 0
  BY <1>0, <1>6 DEF CleanEntity
<1>8. OneInTheWay'
  BY <1>0, <1>2, <1>4, <1>5, <1>6, <1>7 DEF OneInTheWay, InTheWay, NothingLeft
<1>9. QED BY <1>6, <1>8 DEF EraseGoesOn

\* The token is taken by an entity that was left clean, and cleans one that was not.
LEMMA TokenSent ==
  ASSUME NumbersDiffer, IInv, CleanRun, OneLeftover, pc = "token", NEW ok \in BOOLEAN,
         Dnload(0, Token, ok), ~faulty'
  PROVE  /\ OneInTheWay /\ ~wedged' /\ (ok \/ dfuState' = "dfuERROR")
         /\ pos'[BootAlt] = pos[BootAlt]
         /\ \/ dfuState' = "dfuERROR" /\ pos[EraseAlt] # 0 /\ pos'[EraseAlt] = 0
            \/ dfuState' = "dfuDNLOAD_SYNC" /\ TokenIn'
<1>0. /\ GadgetTypeOK /\ run \in {0, 1} /\ wedged \in BOOLEAN /\ faulty \in BOOLEAN
      /\ pos \in [Alts -> Nat] /\ buf \in [Alts -> Seq(Int)] /\ BootAlt \in Alts
      /\ EraseAlt \in Alts /\ BootAlt # EraseAlt
  BY WhatIsTyped
<1>1. ~faulty
  <2>1. CASE faulty' = faulty
    BY <2>1
  <2>2. CASE Lost(ok)
    BY <1>0, <2>2 DEF Lost
  <2>3. QED BY <2>1, <2>2 DEF Dnload
<1>2. OneInTheWay /\ ~wedged /\ dfuState = "dfuIDLE" /\ curAlt = EraseAlt
  BY <1>1 DEF CleanRun, OneInTheWay, EraseGoesOn, IInv, OnAlt
<1>3. ~wedged' /\ DownloadBlock(0, Token) /\ (ok \/ dfuState' = "dfuERROR")
  BY <1>0, <1>2, DnloadClean
<1>4. /\ pos[EraseAlt] \in {0, 1} /\ (pos[EraseAlt] = 0 => buf[EraseAlt] = << >>)
  BY <1>0 DEF IInv, Entities
<1>5. Expects(curAlt, 0) <=> pos[EraseAlt] = 0
  <2>1. BlockModulus \in Nat \ {0} /\ 1 < BlockModulus
    BY SizeAssumption DEF NumbersDiffer
  <2>2. 0 % BlockModulus = 0 /\ 1 % BlockModulus = 1
    BY <2>1, SmallModulo
  <2>3. QED BY <1>2, <1>4, <2>2 DEF Expects
<1>6. CASE pos[EraseAlt] = 0
  <2>1. /\ dfuState' = "dfuDNLOAD_SYNC"
        /\ pos' = [pos EXCEPT ![EraseAlt] = @ + 1]
        /\ buf' = [buf EXCEPT ![EraseAlt] = Append(@, Token)]
    BY <1>2, <1>3, <1>5, <1>6 DEF DownloadBlock
  <2>2. pos'[EraseAlt] = 1 /\ pos'[BootAlt] = pos[BootAlt]
    BY <1>0, <1>6, <2>1
  <2>3. buf'[EraseAlt] = <<Token>>
    <3>1. buf'[EraseAlt] = Append(<< >>, Token)
      BY <1>0, <1>4, <1>6, <2>1
    <3>2. QED BY <3>1
  <2>4. QED BY <1>2, <1>3, <2>1, <2>2, <2>3 DEF TokenIn
<1>7. CASE pos[EraseAlt] # 0
  <2>1. Stall /\ CleanEntity
    BY <1>2, <1>3, <1>5, <1>7 DEF DownloadBlock
  <2>2. pos'[EraseAlt] = 0 /\ pos'[BootAlt] = pos[BootAlt]
    BY <1>0, <1>2, <2>1 DEF CleanEntity
  <2>3. QED BY <1>2, <1>3, <1>7, <2>1, <2>2 DEF Stall
<1>8. QED BY <1>6, <1>7

\* What the token finds in the erase alt, the first run takes away.
LEMMA SendTokenClean == NumbersDiffer /\ IInv /\ CleanRun /\ SendToken => CleanRun'
<1> SUFFICES ASSUME NumbersDiffer, IInv, CleanRun, SendToken, ~faulty', OneLeftover'
             PROVE OneInTheWay' /\ EraseGoesOn'
  BY DEF CleanRun
<1>0. run \in {0, 1}
  BY WhatIsTyped
<1>1. PICK ok \in BOOLEAN :
        /\ Dnload(0, Token, ok)
        /\ ok => pc' = "tokenPoll"
        /\ ~ok => pc' = "recover" /\ result' = "TRANSFER_FAILED"
  BY DEF SendToken, BeginPoll, Fail
<1>2. pc = "token" /\ run' = run /\ OneLeftover
  BY DEF SendToken, OneLeftover
<1>3. /\ OneInTheWay /\ ~wedged' /\ (ok \/ dfuState' = "dfuERROR")
      /\ pos'[BootAlt] = pos[BootAlt]
      /\ \/ dfuState' = "dfuERROR" /\ pos[EraseAlt] # 0 /\ pos'[EraseAlt] = 0
         \/ dfuState' = "dfuDNLOAD_SYNC" /\ TokenIn'
  BY <1>1, <1>2, TokenSent
<1>4. pos[EraseAlt] # 0 => run = 0 /\ pos[BootAlt] = 0
  <2>1. ASSUME pos[EraseAlt] # 0 PROVE run = 0
    BY <1>0, <1>2, <1>3, <2>1 DEF OneInTheWay, NothingLeft
  <2>2. ASSUME pos[EraseAlt] # 0, pos[BootAlt] # 0 PROVE FALSE
    <3>1. InTheWay("boot") /\ InTheWay("erase") => "boot" = "erase"
      BY <1>2, <1>3, <2>1, <2>2 DEF OneInTheWay
    <3>2. QED BY <2>2, <3>1 DEF InTheWay
  <2>3. QED BY <2>1, <2>2
<1>5. run = 1 => pos[BootAlt] = 0
  BY <1>2, <1>3 DEF OneInTheWay, NothingLeft
<1>6. CASE dfuState' = "dfuERROR" /\ pos[EraseAlt] # 0 /\ pos'[EraseAlt] = 0
  BY <1>1, <1>2, <1>3, <1>4, <1>6 DEF OneInTheWay, EraseGoesOn, NothingLeft, Recoverable
<1>7. CASE dfuState' = "dfuDNLOAD_SYNC" /\ TokenIn'
  BY <1>1, <1>2, <1>3, <1>5, <1>7 DEF OneInTheWay, EraseGoesOn, SyncStates
<1>8. QED BY <1>3, <1>6, <1>7

\* One round of a poll that met no fault: the device answered, and is not out of time.
LEMMA PollClean ==
  ASSUME IInv, CleanRun, NEW at, NEW next, Poll(at, next), at \notin {"open", "recover"},
         ~faulty', OneLeftover'
  PROVE  /\ pc = at /\ run' = run /\ OneInTheWay /\ EraseGoesOn /\ ~wedged /\ ~wedged'
         /\ \E s \in DfuStates :
              /\ GetStatus(s, LastPoll) /\ StatusStep(s)
              /\ dfuState' = "dfuERROR" => dfuState = "dfuERROR"
              /\ \/ PollReady(s) /\ pc' = next
                 \/ s \in BusyStates /\ pc' = pc /\ result' = result
                 \/ s = "dfuERROR" /\ pc' = "recover" /\ result' = "PROTOCOL"
<1>0. GadgetTypeOK
  BY WhatIsTyped
<1>1. pc = at /\ UNCHANGED <<run, opVars>>
  BY DEF Poll
<1>2. PICK s \in DfuStates \union {NoReply} :
        /\ GetStatus(s, LastPoll)
        /\ \/ PollReady(s) /\ pc' = next
           \/ PollAgainStep(s, EraseGrace) /\ UNCHANGED <<pc, result>>
           \/ \E err \in Recoverable : PollEnds(s, EraseGrace, err) /\ Fail(err)
  BY DEF Poll
<1>3. /\ ~faulty /\ wedged' = wedged
      /\ ~wedged => /\ StatusStep(s) /\ s # NoReply
                    /\ dfuState' = "dfuERROR" => dfuState = "dfuERROR"
                    /\ ~(LastPoll /\ s \in BusyStates)
  BY <1>0, <1>2, GetStatusClean
<1>4. OneInTheWay /\ EraseGoesOn
  BY <1>1, <1>3 DEF CleanRun, OneLeftover
<1>5. ~wedged /\ ~wedged'
  BY <1>1, <1>3, <1>4 DEF OneInTheWay
<1>6. /\ s \in DfuStates /\ StatusStep(s) /\ ~(LastPoll /\ s \in BusyStates)
      /\ dfuState' = "dfuERROR" => dfuState = "dfuERROR"
  BY <1>2, <1>3, <1>5
<1>7. PollAgain(s, EraseGrace) => s \in BusyStates
  BY <1>3, <1>5 DEF PollAgain
<1>8. \/ PollReady(s) /\ pc' = next
      \/ s \in BusyStates /\ pc' = pc /\ result' = result
      \/ s = "dfuERROR" /\ pc' = "recover" /\ result' = "PROTOCOL"
  <2>1. CASE PollAgainStep(s, EraseGrace) /\ UNCHANGED <<pc, result>>
    BY <1>7, <2>1 DEF PollAgainStep
  <2>2. CASE \E err \in Recoverable : PollEnds(s, EraseGrace, err) /\ Fail(err)
    <3>1. PICK err \in Recoverable : PollEnds(s, EraseGrace, err) /\ Fail(err)
      BY <2>2
    <3>2. s = "dfuERROR" /\ err = "PROTOCOL"
      BY <1>3, <1>5, <1>6, <1>7, <3>1 DEF PollEnds
    <3>3. QED BY <3>1, <3>2 DEF Fail
  <2>3. QED BY <1>2, <2>1, <2>2
<1>9. QED BY <1>1, <1>2, <1>4, <1>5, <1>6, <1>8

\* The token's poll ends with the token flushed, or with the first run's refusal.
LEMMA TokenPollClean == IInv /\ CleanRun /\ TokenPoll => CleanRun'
<1> SUFFICES ASSUME IInv, CleanRun, TokenPoll, ~faulty', OneLeftover'
             PROVE OneInTheWay' /\ EraseGoesOn'
  BY DEF CleanRun
<1>1. /\ pc = "tokenPoll" /\ run' = run /\ OneInTheWay /\ EraseGoesOn /\ ~wedged /\ ~wedged'
      /\ \E s \in DfuStates :
           /\ GetStatus(s, LastPoll) /\ StatusStep(s)
           /\ dfuState' = "dfuERROR" => dfuState = "dfuERROR"
           /\ \/ PollReady(s) /\ pc' = "end"
              \/ s \in BusyStates /\ pc' = pc /\ result' = result
              \/ s = "dfuERROR" /\ pc' = "recover" /\ result' = "PROTOCOL"
  BY PollClean DEF TokenPoll
<1>2. PICK s \in DfuStates :
           /\ StatusStep(s)
           /\ dfuState' = "dfuERROR" => dfuState = "dfuERROR"
           /\ \/ PollReady(s) /\ pc' = "end"
              \/ s \in BusyStates /\ pc' = pc /\ result' = result
              \/ s = "dfuERROR" /\ pc' = "recover" /\ result' = "PROTOCOL"
  BY <1>1
<1>3. CASE dfuState = "dfuERROR"
  <2>1. s = "dfuERROR" /\ pos' = pos /\ run = 0 /\ NothingLeft
    BY <1>1, <1>2, <1>3 DEF StatusStep, SyncStates, RestStates, OneInTheWay
  <2>2. pc' = "recover" /\ result' = "PROTOCOL"
    BY <1>2, <2>1 DEF PollReady, BusyStates
  <2>3. QED BY <1>1, <2>1, <2>2 DEF OneInTheWay, EraseGoesOn, NothingLeft, Recoverable
<1>4. CASE dfuState \in SyncStates \union {"dfuDNLOAD_IDLE"} /\ TokenIn
  <2>1. /\ UNCHANGED <<pos, buf>> /\ dfuState' = s
        /\ s \in {"dfuDNBUSY", "dfuDNLOAD_IDLE"}
    BY <1>2, <1>4 DEF StatusStep, SyncStates, RestStates
  <2>2. TokenIn'
    BY <1>4, <2>1 DEF TokenIn
  <2>3. \/ pc' = "end" /\ dfuState' = "dfuDNLOAD_IDLE"
        \/ pc' = "tokenPoll" /\ dfuState' \in SyncStates
    BY <1>1, <1>2, <2>1 DEF PollReady, BusyStates, SyncStates
  <2>4. run' = 1 => pos'[BootAlt] = 0
    BY <1>1, <2>1 DEF OneInTheWay
  <2>5. QED BY <1>1, <2>2, <2>3, <2>4 DEF OneInTheWay, EraseGoesOn, SyncStates
<1>5. QED BY <1>1, <1>3, <1>4 DEF EraseGoesOn

\* The end of the token is accepted.
LEMMA SendEndClean == IInv /\ CleanRun /\ SendEnd => CleanRun'
<1> SUFFICES ASSUME IInv, CleanRun, SendEnd, ~faulty', OneLeftover'
             PROVE OneInTheWay' /\ EraseGoesOn'
  BY DEF CleanRun
<1>0. GadgetTypeOK /\ faulty \in BOOLEAN /\ wedged \in BOOLEAN
  BY WhatIsTyped
<1>1. /\ pc = "end" /\ UNCHANGED <<run, opVars>>
      /\ \/ DnloadEnd(TRUE) /\ pc' = "erasePoll"
         \/ DnloadEnd(FALSE)
  BY DEF SendEnd, BeginPoll
<1>2. UNCHANGED <<pos, buf>> /\ (faulty' = faulty \/ faulty' = (faulty \/ ~wedged))
  BY <1>1 DEF DnloadEnd, DownloadEnd, Lost
<1>3. ~faulty
  BY <1>0, <1>2
<1>4. OneInTheWay /\ EraseGoesOn
  BY <1>1, <1>3 DEF CleanRun, OneLeftover
<1>5. ~wedged /\ dfuState = "dfuDNLOAD_IDLE" /\ TokenIn
  BY <1>1, <1>4 DEF OneInTheWay, EraseGoesOn
<1>6. CASE DnloadEnd(TRUE) /\ pc' = "erasePoll"
  <2>1. ~wedged' /\ dfuState' = "dfuMANIFEST_SYNC"
    BY <1>0, <1>6, DnloadEndClean
  <2>2. TokenIn'
    BY <1>2, <1>5 DEF TokenIn
  <2>3. QED BY <1>1, <1>2, <1>4, <1>6, <2>1, <2>2 DEF OneInTheWay, EraseGoesOn
<1>7. CASE DnloadEnd(FALSE)
  <2>1. Lost(FALSE)
    BY <1>5, <1>7 DEF DnloadEnd, DownloadEnd
  <2>2. QED BY <1>0, <1>5, <2>1 DEF Lost
<1>8. QED BY <1>1, <1>6, <1>7

\* A manifest without a fault was not refused.
LEMMA GetStatusWipes ==
  ASSUME GadgetTypeOK, NEW s, NEW last, GetStatus(s, last), ~faulty', ~wedged,
         dfuState = "dfuMANIFEST_SYNC"
  PROVE  ~TokenRefused
BY DEF GetStatus, Lost, GadgetTypeOK

\* The wipe takes place, and its poll waits for its end.
LEMMA ErasePollClean == IInv /\ CleanRun /\ ErasePoll => CleanRun'
<1> SUFFICES ASSUME IInv, CleanRun, ErasePoll, ~faulty', OneLeftover'
             PROVE OneInTheWay' /\ EraseGoesOn'
  BY DEF CleanRun
<1>0. GadgetTypeOK /\ pos \in [Alts -> Nat] /\ BootAlt \in Alts /\ EraseAlt \in Alts
      /\ BootAlt # EraseAlt
  BY WhatIsTyped
<1>1. /\ pc = "erasePoll" /\ run' = run /\ OneInTheWay /\ EraseGoesOn /\ ~wedged /\ ~wedged'
      /\ \E s \in DfuStates :
           /\ GetStatus(s, LastPoll) /\ StatusStep(s)
           /\ dfuState' = "dfuERROR" => dfuState = "dfuERROR"
           /\ \/ PollReady(s) /\ pc' = "bootClaim"
              \/ s \in BusyStates /\ pc' = pc /\ result' = result
              \/ s = "dfuERROR" /\ pc' = "recover" /\ result' = "PROTOCOL"
  BY PollClean DEF ErasePoll
<1>2. PICK s \in DfuStates :
           /\ GetStatus(s, LastPoll) /\ StatusStep(s)
           /\ dfuState' = "dfuERROR" => dfuState = "dfuERROR"
           /\ \/ PollReady(s) /\ pc' = "bootClaim"
              \/ s \in BusyStates /\ pc' = pc /\ result' = result
              \/ s = "dfuERROR" /\ pc' = "recover" /\ result' = "PROTOCOL"
  BY <1>1
<1>3. curAlt = EraseAlt /\ (run = 1 => pos[BootAlt] = 0)
  BY <1>1 DEF IInv, OnAlt, OneInTheWay
<1>4. CASE dfuState = "dfuMANIFEST_SYNC" /\ TokenIn
  <2>1. /\ s = "dfuMANIFEST" /\ CleanEntity
        /\ Len(buf[curAlt]) <= FlashBlocks /\ dfuState' = "dfuMANIFEST" /\ flash' \in Manifested
    BY <1>2, <1>4 DEF StatusStep, Stall, SyncStates, RestStates
  <2>2. ~TokenRefused
    BY <1>0, <1>1, <1>2, <1>4, GetStatusWipes
  <2>3. flash' = [a \in Alts |-> BlankMedium]
    BY <1>3, <1>4, <2>1, <2>2 DEF Manifested, TokenRefused, TokenIn
  <2>4. FlashBlocks > 0
    BY <1>3, <1>4, <2>1, SizeAssumption DEF TokenIn
  <2>5. Wiped'
    BY <2>3, <2>4 DEF Wiped, WholeChipBlank, BlankMedium
  <2>6. pos'[BootAlt] = pos[BootAlt]
    BY <1>0, <1>3, <2>1 DEF CleanEntity
  <2>7. pc' = pc
    BY <1>2, <2>1 DEF PollReady, BusyStates
  <2>8. QED BY <1>1, <1>3, <2>1, <2>5, <2>6, <2>7 DEF OneInTheWay, EraseGoesOn
<1>5. CASE dfuState = "dfuMANIFEST" /\ Wiped
  <2>1. s \in {"dfuMANIFEST", "dfuIDLE"} /\ dfuState' = s /\ UNCHANGED <<pos, buf, flash>>
    BY <1>2, <1>5 DEF StatusStep, SyncStates, RestStates
  <2>2. Wiped'
    BY <1>5, <2>1 DEF Wiped, WholeChipBlank
  <2>3. (pc' = pc /\ s = "dfuMANIFEST") \/ pc' = "bootClaim"
    BY <1>2, <2>1 DEF PollReady, BusyStates
  <2>4. QED BY <1>1, <1>3, <2>1, <2>2, <2>3 DEF OneInTheWay, EraseGoesOn
<1>6. QED BY <1>1, <1>4, <1>5 DEF EraseGoesOn

\* The boot alt is selected.
LEMMA BootClaimClean == IInv /\ CleanRun /\ BootClaim => CleanRun'
<1> SUFFICES ASSUME IInv, CleanRun, BootClaim, ~faulty', OneLeftover'
             PROVE OneInTheWay' /\ EraseGoesOn'
  BY DEF CleanRun
<1>0. GadgetTypeOK
  BY WhatIsTyped
<1>1. /\ pc = "bootClaim" /\ UNCHANGED <<run, opVars>>
      /\ ClaimAlt("bootClaim", BootAlt, "bootIdle", "drop")
  BY DEF BootClaim, ClaimAlt
<1>2. PICK ok \in BOOLEAN : SelectAlt(BootAlt, ok) /\ (ok => pc' = "bootIdle")
  <2>1. NeedsSelect(BootAlt)
    BY BothAlts DEF NeedsSelect
  <2>2. QED BY <1>1, <2>1, Zenon DEF ClaimAlt
<1>3. ~faulty /\ wedged' = wedged /\ (~ok => wedged)
  BY <1>0, <1>2, SelectAltClean
<1>4. OneInTheWay /\ EraseGoesOn
  BY <1>1, <1>3 DEF CleanRun, OneLeftover
<1>5. ~wedged /\ ok
  BY <1>1, <1>3, <1>4 DEF OneInTheWay
<1>6. SelectAltStep(BootAlt) /\ pc' = "bootIdle"
  BY <1>0, <1>2, <1>5, SelectAltClean
<1>7. Wiped' /\ pos' = pos
  BY <1>1, <1>4, <1>6 DEF SelectAltStep, EraseGoesOn, Wiped, WholeChipBlank
<1>8. QED BY <1>1, <1>3, <1>4, <1>5, <1>6, <1>7 DEF OneInTheWay, EraseGoesOn

\* The device is idle after the wipe, and the first GETSTATUS says so.
LEMMA BootIdleClean == IInv /\ CleanRun /\ BootIdle => CleanRun'
<1> SUFFICES ASSUME IInv, CleanRun, BootIdle, ~faulty', OneLeftover'
             PROVE OneInTheWay' /\ EraseGoesOn'
  BY DEF CleanRun
<1>0. GadgetTypeOK
  BY WhatIsTyped
<1>1. /\ pc = "bootIdle" /\ UNCHANGED <<run, opVars>>
      /\ MakeIdle("bootIdle", "probe", "drop", "TRANSFER_FAILED")
  BY DEF BootIdle, MakeIdle, IdleStatus, IdleFix
<1>2. ~faulty
  <2>1. CASE \E s : GetStatus(s, FALSE)
    BY <1>0, <2>1, GetStatusClean
  <2>2. CASE ClrStatus \/ Abort
    BY <1>0, <2>2, ClrStatusClean, AbortClean
  <2>3. QED BY <1>1, <2>1, <2>2 DEF MakeIdle, IdleStatus, IdleFix
<1>3. OneInTheWay /\ EraseGoesOn /\ ~wedged /\ dfuState = "dfuIDLE" /\ fix = "none"
  BY <1>1, <1>2 DEF CleanRun, OneLeftover, IInv, CleanPath
<1>4. PICK s \in DfuStates \union {NoReply} :
        GetStatus(s, FALSE) /\ (s = "dfuIDLE" => pc' = "probe")
  BY <1>1, <1>3 DEF MakeIdle, IdleStatus, IdleFix, NoReply
<1>5. StatusStep(s) /\ wedged' = wedged
  BY <1>0, <1>3, <1>4, GetStatusClean
<1>6. s = "dfuIDLE" /\ UNCHANGED <<pos, flash>>
  BY <1>3, <1>5 DEF StatusStep, SyncStates, RestStates
<1>7. Wiped' /\ pc' = "probe"
  BY <1>1, <1>3, <1>4, <1>6 DEF EraseGoesOn, Wiped, WholeChipBlank
<1>8. QED BY <1>1, <1>3, <1>5, <1>6, <1>7 DEF OneInTheWay, EraseGoesOn

\* The probe reads a blank block, or trips on what the first run finds in the boot alt.
LEMMA ProbeClean == NumbersDiffer /\ IInv /\ CleanRun /\ Probe => CleanRun'
<1> SUFFICES ASSUME NumbersDiffer, IInv, CleanRun, Probe, ~faulty', OneLeftover'
             PROVE OneInTheWay' /\ EraseGoesOn'
  BY DEF CleanRun
<1>0. GadgetTypeOK /\ pos \in [Alts -> Nat] /\ BootAlt \in Alts /\ EraseAlt \in Alts
      /\ BootAlt # EraseAlt /\ run \in {0, 1}
  BY WhatIsTyped
<1>1. PICK got \in Answers :
        /\ Upload(0, got)
        /\ result' = BlankCheck(got)
        /\ pc' = IF BlankCheck(got) = "NONE" THEN "close" ELSE "drop"
  BY DEF Probe
<1>2. pc = "probe" /\ UNCHANGED <<run, opVars>>
  BY DEF Probe
<1>3. ~faulty /\ wedged' = wedged /\ (~wedged => UploadBlock(0, got))
  BY <1>0, <1>1, UploadClean
<1>4. OneInTheWay /\ EraseGoesOn
  BY <1>2, <1>3 DEF CleanRun, OneLeftover
<1>5. /\ ~wedged /\ UploadBlock(0, got) /\ curAlt = BootAlt /\ dfuState = "dfuIDLE"
      /\ pos[EraseAlt] = 0 /\ Wiped /\ (run = 1 => pos[BootAlt] = 0)
  BY <1>2, <1>3, <1>4 DEF OneInTheWay, EraseGoesOn, IInv, OnAlt, CleanPath
<1>6. pos[BootAlt] \in {0, 1}
  BY <1>0 DEF IInv, Entities
<1>7. Expects(curAlt, 0) <=> pos[BootAlt] = 0
  <2>1. BlockModulus \in Nat \ {0} /\ 1 < BlockModulus
    BY SizeAssumption DEF NumbersDiffer
  <2>2. 0 % BlockModulus = 0 /\ 1 % BlockModulus = 1
    BY <2>1, SmallModulo
  <2>3. QED BY <1>5, <1>6, <2>2 DEF Expects
<1>8. Wiped'
  BY <1>5 DEF UploadBlock, Wiped, WholeChipBlank
<1>9. CASE pos[BootAlt] = 0
  <2>1. got = flash[BootAlt][0]
    BY <1>5, <1>7, <1>9, SizeAssumption DEF UploadBlock, Wiped
  <2>2. flash[BootAlt][0] = Blank
    BY <1>0, <1>5, SizeAssumption DEF Wiped, WholeChipBlank, BlankMedium
  <2>3. pc' = "close"
    BY <1>1, <2>1, <2>2 DEF BlankCheck
  <2>4. QED BY <1>3, <1>5, <1>8, <2>3 DEF OneInTheWay, EraseGoesOn
<1>10. CASE pos[BootAlt] # 0
  <2>1. got = Refused /\ CleanEntity
    BY <1>5, <1>7, <1>10 DEF UploadBlock
  <2>2. pos'[BootAlt] = 0 /\ pos'[EraseAlt] = 0
    BY <1>0, <1>5, <2>1 DEF CleanEntity
  <2>3. pc' = "drop" /\ result' = "TRANSFER_FAILED" /\ run' = 0
    BY <1>0, <1>1, <1>2, <1>5, <1>10, <2>1 DEF BlankCheck
  <2>4. QED BY <1>3, <1>5, <2>2, <2>3 DEF OneInTheWay, EraseGoesOn, NothingLeft, Recoverable
<1>11. QED BY <1>9, <1>10

\* Giving up the probe leaves nothing behind.
LEMMA DropClean == IInv /\ CleanRun /\ Drop => CleanRun'
<1> SUFFICES ASSUME IInv, CleanRun, Drop, ~faulty', OneLeftover'
             PROVE OneInTheWay' /\ EraseGoesOn'
  BY DEF CleanRun
<1>0. GadgetTypeOK /\ pos \in [Alts -> Nat] /\ BootAlt \in Alts /\ EraseAlt \in Alts
  BY WhatIsTyped
<1>1. pc = "drop" /\ pc' = "recover" /\ Abort /\ UNCHANGED <<run, result, opVars>>
  BY DEF Drop
<1>2. ~faulty /\ wedged' = wedged /\ (~wedged => AbortStep)
  BY <1>0, <1>1, AbortClean
<1>3. OneInTheWay
  BY <1>1, <1>2 DEF CleanRun, OneLeftover
<1>4. ~wedged /\ NothingLeft /\ run = 0 /\ result \in Recoverable
  BY <1>1, <1>3 DEF OneInTheWay
<1>5. NothingLeft'
  BY <1>0, <1>2, <1>4 DEF AbortStep, CleanEntity, NothingLeft
<1>6. QED BY <1>1, <1>2, <1>4, <1>5 DEF OneInTheWay, EraseGoesOn

\* Closing what the probes opened takes nothing back.
LEMMA ClosingClean == IInv /\ CleanRun /\ (CloseProbe \/ Reprobe \/ CloseAgain) => CleanRun'
<1> SUFFICES ASSUME IInv, CleanRun, CloseProbe \/ Reprobe \/ CloseAgain, ~faulty', OneLeftover'
             PROVE OneInTheWay' /\ EraseGoesOn'
  BY DEF CleanRun
<1>0. GadgetTypeOK
  BY WhatIsTyped
<1>1. /\ pc \in {"close", "reprobe", "closeAgain", "clear"} /\ UNCHANGED <<run, opVars>>
      /\ \/ pc' \in {"reprobe", "closeAgain", "clear"}
         \/ pc' = "done" /\ result' = "SUCCESS"
      /\ Abort \/ ClrStatus \/ \E got : Upload(0, got)
  BY DEF CloseProbe, Reprobe, CloseAgain, Succeed
<1>2. ~faulty /\ wedged' = wedged
  BY <1>0, <1>1, AbortClean, ClrStatusClean, UploadClean
<1>3. flash' = flash
  BY <1>1 DEF Abort, AbortStep, ClrStatus, ClrStatusStep, Upload, UploadBlock
<1>4. OneInTheWay /\ EraseGoesOn
  BY <1>1, <1>2 DEF CleanRun, OneLeftover
<1>5. ~wedged' /\ Wiped'
  BY <1>1, <1>2, <1>3, <1>4 DEF OneInTheWay, EraseGoesOn, Wiped, WholeChipBlank
<1>6. QED BY <1>1, <1>5 DEF OneInTheWay, EraseGoesOn, Succeeded

\* The reset starts the second run with nothing in its way.
LEMMA ResetAndRetryClean == IInv /\ CleanRun /\ ResetAndRetry => CleanRun'
<1> SUFFICES ASSUME IInv, CleanRun, ResetAndRetry, ~faulty', OneLeftover'
             PROVE OneInTheWay' /\ EraseGoesOn'
  BY DEF CleanRun
<1>1. pc = "recover" /\ faulty' \in {faulty, TRUE} /\ UNCHANGED opVars
  BY DEF ResetAndRetry, Recover, BusReset
<1>2. OneInTheWay
  BY <1>1, WhatIsTyped DEF CleanRun, OneLeftover
<1>3. run # 1 /\ result \in Recoverable /\ NothingLeft /\ ~(faulty' = TRUE)
  BY <1>1, <1>2 DEF OneInTheWay
<1>4. BusReset /\ pc' = "open" /\ run' = 1
  BY <1>3, Zenon DEF ResetAndRetry, Recover
<1>5. QED BY <1>3, <1>4 DEF BusReset, OneInTheWay, EraseGoesOn, NothingLeft

\* An erase that is killed leaves what it may; that is what the next one finds.
LEMMA InterruptEraseClean == InterruptErase => CleanRun'
<1> SUFFICES ASSUME InterruptErase PROVE CleanRun'
  OBVIOUS
<1>1. (pc = "open" /\ run = 0 /\ leftovers = Leftovers)'
  BY DEF InterruptErase, Interrupt
<1>2. QED BY <1>1, BeginsClean, PTL

\* For every interface, chip, grace and number of interruptions: with no failure while it
\* runs, an erase that finds at most one thing in its way (a hung gadget, or a transaction
\* left open on the erase alt or on the boot flash) succeeds and has wiped the whole chip
\* (tdfu_dfu_erase).  The rounds dfu_make_idle has (it has three) are just enough.
THEOREM EraseCleanSucceeds ==
  NumbersDiffer /\ IdleTries >= 3 => (Spec => []CleanEraseSucceeds)
<1> SUFFICES ASSUME NumbersDiffer, IdleTries >= 3 PROVE Spec => []CleanEraseSucceeds
  OBVIOUS
<1>1. Init => CleanRun
  BY BeginsClean DEF Init, LinkInit
<1>2. IInv /\ CleanRun /\ [Next]_vars => CleanRun'
  <2> SUFFICES ASSUME IInv, CleanRun, [Next]_vars PROVE CleanRun'
    OBVIOUS
  <2>1. CASE OpenDevice \/ Claim \/ Idle \/ SendToken \/ TokenPoll
    BY <2>1, OpenDeviceClean, ClaimClean, IdleClean, SendTokenClean, TokenPollClean
  <2>2. CASE SendEnd \/ ErasePoll \/ BootClaim \/ BootIdle \/ Probe
    BY <2>2, SendEndClean, ErasePollClean, BootClaimClean, BootIdleClean, ProbeClean
  <2>3. CASE Drop \/ CloseProbe \/ Reprobe \/ CloseAgain
    BY <2>3, DropClean, ClosingClean
  <2>4. CASE ResetAndRetry \/ InterruptErase
    BY <2>4, ResetAndRetryClean, InterruptEraseClean
  <2>5. CASE UNCHANGED vars
    BY <2>5 DEF CleanRun, OneLeftover, OneInTheWay, InTheWay, NothingLeft, EraseGoesOn, IdlePath,
                RoundsNeeded, TokenIn, Wiped, WholeChipBlank, Succeeded
  <2>6. QED BY <2>1, <2>2, <2>3, <2>4, <2>5 DEF Next, Host
<1>3. CleanRun => CleanEraseSucceeds
  BY DEF CleanRun, CleanEraseSucceeds, OneLeftover, EraseGoesOn, Wiped
<1>4. QED BY <1>1, <1>2, <1>3, Invariance, PTL DEF Spec
=============================================================================
