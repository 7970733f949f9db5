------------------------- MODULE DfuDownload_proofs --------------------------
(***************************************************************************)
(* SuccessMeansFlashed for every interface, image and bound: the invariant *)
(* IInv of DfuDownload is inductive whenever the image's blocks fit the    *)
(* 16-bit block number.  A download that met no fault succeeds from        *)
(* whatever state earlier calls left the gadget in.                        *)
(***************************************************************************)
EXTENDS DfuDownload, DfuGadget_proofs

USE DEF Blank, Old, Token

-----------------------------------------------------------------------------
(* What each request leaves of the device.                                 *)

\* The device's variables are well typed and its entities hold prefixes.
DeviceInv == GadgetTypeOK /\ EntitiesHoldPrefixes

MachineOK ==
  /\ dfuState \in DfuStates
  /\ curAlt \in Alts
  /\ pos \in [Alts -> Nat]
  /\ buf \in [Alts -> Seq(Int)]
  /\ flash \in [Alts -> Medium]
  /\ EntitiesHoldPrefixes

\* Closing a transaction keeps the entities' buffers prefixes of the image.
LEMMA CleanEntityKeeps ==
  ASSUME MachineOK, CleanEntity
  PROVE  /\ pos' \in [Alts -> Nat]
         /\ buf' \in [Alts -> Seq(Int)]
         /\ EntitiesHoldPrefixes'
<1>1. pos' \in [Alts -> Nat] /\ buf' \in [Alts -> Seq(Int)]
  BY DEF MachineOK, CleanEntity
<1>2. ASSUME NEW a \in Alts
      PROVE  /\ pos'[a] = Len(buf'[a])
             /\ pos'[a] <= NBlocks
             /\ \A i \in 1 .. Len(buf'[a]) : buf'[a][i] = i - 1
  <2>1. CASE a = curAlt
    <3>1. pos'[a] = 0 /\ buf'[a] = << >>
      BY <2>1 DEF MachineOK, CleanEntity
    <3>2. QED BY <3>1, NBlocksAssumption
  <2>2. CASE a # curAlt
    BY <2>2 DEF MachineOK, CleanEntity, EntitiesHoldPrefixes
  <2>3. QED BY <2>1, <2>2
<1>3. QED BY <1>1, <1>2 DEF EntitiesHoldPrefixes

\* GETSTATUS keeps the state machine well formed and stays on the selected alt.
LEMMA StatusStepKeeps ==
  ASSUME MachineOK, NEW s, StatusStep(s)
  PROVE  MachineOK' /\ curAlt' = curAlt
<1>1. CASE dfuState \in SyncStates
  BY <1>1, FlushedType DEF MachineOK, StatusStep, SyncStates, RestStates, DfuStates, EntitiesHoldPrefixes
<1>2. CASE dfuState = "dfuMANIFEST_SYNC"
  <2>1. CleanEntity /\ curAlt' = curAlt /\ dfuState' \in DfuStates
    BY <1>2 DEF StatusStep, Stall, SyncStates, RestStates, DfuStates
  <2>2. flash' \in Manifested \union HalfManifested
    BY <1>2 DEF StatusStep, SyncStates, RestStates
  <2>3. QED BY <2>1, <2>2, CleanEntityKeeps, ManifestedType DEF MachineOK
<1>3. CASE dfuState = "dfuMANIFEST"
  BY <1>3 DEF MachineOK, StatusStep, SyncStates, RestStates, DfuStates, EntitiesHoldPrefixes
<1>4. CASE dfuState \in RestStates
  BY <1>4 DEF MachineOK, StatusStep, SyncStates, RestStates, DfuStates, EntitiesHoldPrefixes
<1>5. QED BY <1>1, <1>2, <1>3, <1>4 DEF StatusStep

\* A request that leaves the state machine alone keeps it well formed.
LEMMA UnchangedKeeps ==
  ASSUME MachineOK, UNCHANGED <<dfuState, curAlt, pos, buf, flash>>
  PROVE  MachineOK'
BY DEF MachineOK, EntitiesHoldPrefixes

\* One GETSTATUS, answered or lost, keeps the device well formed and its alt selected.
LEMMA GetStatusKeeps ==
  ASSUME DeviceInv, NEW s, NEW last, GetStatus(s, last)
  PROVE  DeviceInv' /\ curAlt' = curAlt
<1>1. MachineOK
  BY DEF DeviceInv, GadgetTypeOK, MachineOK
<1>2. MachineOK' /\ curAlt' = curAlt
  <2>1. CASE UNCHANGED <<dfuState, curAlt, pos, buf, flash>>
    BY <1>1, <2>1, UnchangedKeeps
  <2>2. CASE \E t : StatusStep(t)
    BY <1>1, <2>2, StatusStepKeeps
  <2>3. QED BY <2>1, <2>2 DEF GetStatus
<1>3. wedged' \in BOOLEAN /\ keepsTxn' \in BOOLEAN /\ faulty' \in BOOLEAN
  BY DEF DeviceInv, GadgetTypeOK, GetStatus, Lost
<1>4. QED BY <1>2, <1>3 DEF DeviceInv, GadgetTypeOK, MachineOK

\* CLRSTATUS and ABORT.
LEMMA FixKeeps ==
  ASSUME DeviceInv, ClrStatus \/ Abort
  PROVE  DeviceInv' /\ curAlt' = curAlt
<1>1. MachineOK
  BY DEF DeviceInv, GadgetTypeOK, MachineOK
<1>2. MachineOK' /\ curAlt' = curAlt
  <2>1. CASE UNCHANGED <<dfuState, curAlt, pos, buf, flash>>
    BY <1>1, <2>1, UnchangedKeeps
  <2>2. CASE ClrStatusStep
    BY <1>1, <2>2 DEF ClrStatusStep, MachineOK, DfuStates, RestStates, EntitiesHoldPrefixes
  <2>3. CASE AbortStep
    <3>1. curAlt' = curAlt /\ flash' = flash /\ dfuState' \in DfuStates
      BY <2>3 DEF AbortStep, Stall, DfuStates, RestStates
    <3>2. CleanEntity \/ UNCHANGED <<pos, buf>>
      BY <2>3 DEF AbortStep
    <3>3. QED BY <1>1, <3>1, <3>2, CleanEntityKeeps DEF MachineOK, EntitiesHoldPrefixes
  <2>4. QED BY <2>1, <2>2, <2>3 DEF ClrStatus, Abort
<1>3. wedged' \in BOOLEAN /\ keepsTxn' \in BOOLEAN /\ faulty' \in BOOLEAN
  BY DEF DeviceInv, GadgetTypeOK, ClrStatus, Abort, Lost
<1>4. QED BY <1>2, <1>3 DEF DeviceInv, GadgetTypeOK, MachineOK

\* SET_INTERFACE of a, and what an answered one selects.
LEMMA SelectAltKeeps ==
  ASSUME DeviceInv, NEW a \in Alts, NEW ok \in BOOLEAN, SelectAlt(a, ok)
  PROVE  DeviceInv' /\ (ok => curAlt' = a)
<1>1. MachineOK
  BY DEF DeviceInv, GadgetTypeOK, MachineOK
<1>2. MachineOK' /\ (ok => curAlt' = a)
  <2>1. CASE UNCHANGED <<dfuState, curAlt, pos, buf, flash>> /\ ~ok
    BY <1>1, <2>1, UnchangedKeeps
  <2>2. CASE SelectAltStep(a)
    BY <1>1, <2>2 DEF SelectAltStep, MachineOK, DfuStates, RestStates, EntitiesHoldPrefixes
  <2>3. QED BY <2>1, <2>2 DEF SelectAlt, Lost
<1>3. wedged' \in BOOLEAN /\ keepsTxn' \in BOOLEAN /\ faulty' \in BOOLEAN
  BY DEF DeviceInv, GadgetTypeOK, SelectAlt, Lost
<1>4. QED BY <1>2, <1>3 DEF DeviceInv, GadgetTypeOK, MachineOK

\* DNLOAD of the block the image has at offset, under the assumption that tells
\* every block number apart: taken, it extends the prefix by exactly that block.
LEMMA DownloadBlockKeeps ==
  ASSUME MachineOK, FitsBlockNumber, offset \in 0 .. NBlocks - 1,
         DownloadBlock(offset, offset)
  PROVE  /\ MachineOK' /\ curAlt' = curAlt /\ flash' = flash
         /\ \/ dfuState' = "dfuERROR"
            \/ dfuState' = "dfuDNLOAD_SYNC" /\ pos'[curAlt] = offset + 1
<1>1. CASE /\ Expects(curAlt, offset)
           /\ dfuState' = "dfuDNLOAD_SYNC"
           /\ pos' = [pos EXCEPT ![curAlt] = @ + 1]
           /\ buf' = [buf EXCEPT ![curAlt] = Append(@, offset)]
  <2>1. pos[curAlt] = offset
    <3>1. pos[curAlt] \in Nat /\ pos[curAlt] < BlockModulus /\ BlockModulus \in Nat \ {0}
      BY SizeAssumption, NBlocksAssumption DEF MachineOK, EntitiesHoldPrefixes, FitsBlockNumber
    <3>2. pos[curAlt] % BlockModulus = pos[curAlt]
      BY <3>1, SmallModulo
    <3>3. QED BY <1>1, <3>2 DEF Expects
  <2>2. /\ pos' \in [Alts -> Nat] /\ buf' \in [Alts -> Seq(Int)]
        /\ pos'[curAlt] = offset + 1
    BY <1>1, <2>1, NBlocksAssumption DEF MachineOK
  <2>3. ASSUME NEW a \in Alts
        PROVE  /\ pos'[a] = Len(buf'[a])
               /\ pos'[a] <= NBlocks
               /\ \A i \in 1 .. Len(buf'[a]) : buf'[a][i] = i - 1
    <3>1. CASE a = curAlt
      <4>1. buf[a] \in Seq(Int) /\ Len(buf[a]) = offset /\ \A i \in 1 .. offset : buf[a][i] = i - 1
        BY <2>1, <3>1 DEF MachineOK, EntitiesHoldPrefixes
      <4>2. buf'[a] = Append(buf[a], offset)
        BY <1>1, <3>1 DEF MachineOK
      <4>3. /\ Len(buf'[a]) = offset + 1
            /\ \A i \in 1 .. offset + 1 : buf'[a][i] = i - 1
        BY <4>1, <4>2, NBlocksAssumption
      <4>4. QED BY <2>2, <3>1, <4>3, NBlocksAssumption
    <3>2. CASE a # curAlt
      BY <1>1, <3>2 DEF MachineOK, EntitiesHoldPrefixes
    <3>3. QED BY <3>1, <3>2
  <2>4. QED BY <1>1, <2>2, <2>3
            DEF MachineOK, EntitiesHoldPrefixes, DownloadBlock, DfuStates, SyncStates
<1>2. CASE Stall /\ CleanEntity
  BY <1>2, CleanEntityKeeps DEF MachineOK, DownloadBlock, Stall, DfuStates, RestStates
<1>3. CASE Stall /\ UNCHANGED <<pos, buf>>
  BY <1>3 DEF MachineOK, EntitiesHoldPrefixes, DownloadBlock, Stall, DfuStates, RestStates
<1>4. QED BY <1>1, <1>2, <1>3 DEF DownloadBlock

\* The same for the DNLOAD as the host issues it, answered or lost.
LEMMA DnloadKeeps ==
  ASSUME DeviceInv, FitsBlockNumber, offset \in 0 .. NBlocks - 1, NEW ok \in BOOLEAN,
         Dnload(offset, offset, ok)
  PROVE  /\ DeviceInv' /\ curAlt' = curAlt /\ flash' = flash
         /\ ok => \/ dfuState' = "dfuERROR"
                  \/ dfuState' = "dfuDNLOAD_SYNC" /\ pos'[curAlt] = offset + 1
<1>1. MachineOK
  BY DEF DeviceInv, GadgetTypeOK, MachineOK
<1>2. CASE UNCHANGED <<dfuState, curAlt, pos, buf, flash>> /\ ~ok
  BY <1>1, <1>2, UnchangedKeeps DEF Dnload, DeviceInv, GadgetTypeOK, MachineOK, Lost
<1>3. CASE DownloadBlock(offset, offset)
  BY <1>1, <1>3, DownloadBlockKeeps DEF Dnload, DeviceInv, GadgetTypeOK, MachineOK, Lost
<1>4. QED BY <1>2, <1>3 DEF Dnload, Lost

\* The zero-length DNLOAD moves no data.
LEMMA DnloadEndKeeps ==
  ASSUME DeviceInv, NEW ok \in BOOLEAN, DnloadEnd(ok)
  PROVE  /\ DeviceInv' /\ curAlt' = curAlt /\ flash' = flash /\ pos' = pos
         /\ ok => dfuState = "dfuDNLOAD_IDLE" /\ dfuState' = "dfuMANIFEST_SYNC"
<1>1. MachineOK
  BY DEF DeviceInv, GadgetTypeOK, MachineOK
<1>2. CASE UNCHANGED <<dfuState, curAlt, pos, buf, flash>> /\ ~ok
  BY <1>1, <1>2, UnchangedKeeps DEF DnloadEnd, DeviceInv, GadgetTypeOK, MachineOK, Lost
<1>3. CASE DownloadEnd /\ (ok => dfuState' # "dfuERROR")
  <2>1. MachineOK'
    BY <1>1, <1>3 DEF DownloadEnd, MachineOK, EntitiesHoldPrefixes, DfuStates, RestStates
  <2>2. QED BY <1>3, <2>1 DEF DownloadEnd, DnloadEnd, DeviceInv, GadgetTypeOK, MachineOK, Lost
<1>4. QED BY <1>2, <1>3 DEF DnloadEnd, Lost

-----------------------------------------------------------------------------
(* What a poll learns from the device.                                     *)

\* A block's poll: an error sticks, and a settled state is dfuDNLOAD_IDLE.
LEMMA BlockStatus ==
  ASSUME NEW s, NEW last, GetStatus(s, last),
         dfuState \in SyncStates \union {"dfuDNLOAD_IDLE"}
  PROVE  /\ pos' = pos
         /\ dfuState' \in SyncStates \union {"dfuDNLOAD_IDLE", "dfuERROR"}
         /\ PollReady(s) => dfuState' = "dfuDNLOAD_IDLE"
BY DEF GetStatus, StatusStep, SyncStates, RestStates, PollReady, BusyStates, NoReply, Lost

\* GETSTATUS leaves dfuERROR and the flash alone, and no poll takes it for ready.
LEMMA ErrorStatus ==
  ASSUME NEW s, NEW last, GetStatus(s, last), dfuState = "dfuERROR"
  PROVE  dfuState' = "dfuERROR" /\ flash' = flash /\ ~PollReady(s)
BY DEF GetStatus, StatusStep, SyncStates, RestStates, PollReady, BusyStates, NoReply, Lost

\* Manifesting a buffer that is the whole image makes the medium hold it.
LEMMA ManifestHolds ==
  ASSUME MachineOK, target \in Targets, curAlt = target, pos[target] = NBlocks,
         Len(buf[curAlt]) <= FlashBlocks, flash' \in Manifested, target' = target
  PROVE  Holds(target)'
<1>1. flash'[target] = Overlay(buf[target], flash[target])
  BY DEF Manifested, Flushed, Targets, MachineOK
<1>2. ASSUME NEW i \in 0 .. NBlocks - 1
      PROVE  flash'[target][i] = i
  <2>1. i \in DOMAIN flash[target] /\ i < Len(buf[target])
    BY SizeAssumption, NBlocksAssumption DEF MachineOK, EntitiesHoldPrefixes, Medium
  <2>2. flash'[target][i] = buf[target][i + 1]
    BY <1>1, <2>1 DEF Overlay
  <2>3. i + 1 \in 1 .. Len(buf[target])
    BY <2>1, NBlocksAssumption DEF MachineOK, EntitiesHoldPrefixes
  <2>4. QED BY <2>2, <2>3 DEF MachineOK, EntitiesHoldPrefixes
<1>3. QED BY <1>2 DEF Holds

-----------------------------------------------------------------------------
(* The invariant, one action at a time.                                    *)

USE DEF vars, gadgetVars, linkVars, opVars, loopVars

\* The invariant holds before the first transfer.
THEOREM InitEstablishes == Init => IInv
<1> SUFFICES ASSUME Init PROVE IInv
  OBVIOUS
<1>1. GadgetTypeOK
  <2>1. << >> \in Seq(Int)
    OBVIOUS
  <2>2. [i \in 0 .. FlashBlocks - 1 |-> Old] \in Medium
    BY DEF Medium
  <2>3. pos \in [Alts -> Nat] /\ buf \in [Alts -> Seq(Int)] /\ flash \in [Alts -> Medium]
    BY <2>1, <2>2, Zenon DEF Init, GadgetInit, NoneOpen, Unwritten
  <2>4. QED BY <2>3 DEF Init, GadgetInit, GadgetTypeOK, DfuStates, RestStates
<1>2. LinkTypeOK
  BY LinkAssumption DEF Init, LinkInit, LinkTypeOK, Results, Targets
<1>3. TypeOK
  BY <1>1, <1>2, NBlocksAssumption, SizeAssumption DEF Init, LinkInit, TypeOK
<1>4. EntitiesHoldPrefixes
  <2>1. \A a \in Alts : pos[a] = 0 /\ buf[a] = << >>
    BY DEF Init, NoneOpen
  <2>2. ASSUME NEW a \in Alts
        PROVE  /\ pos[a] = Len(buf[a])
               /\ pos[a] <= NBlocks
               /\ \A i \in 1 .. Len(buf[a]) : buf[a][i] = i - 1
    <3>1. Len(buf[a]) = 0 /\ pos[a] = 0
      BY <2>1
    <3>2. QED BY <3>1, NBlocksAssumption
  <2>3. QED BY <2>2 DEF EntitiesHoldPrefixes
<1>5. QED
  BY <1>3, <1>4 DEF Init, LinkInit, IInv, CountersAgree, OnTarget, Sending, PollingBlock,
     PollingManifest, IdleRounds, ResultSettled, SuccessMeansFlashed

\* Opening the device keeps the invariant.
LEMMA OpenDeviceKeeps == IInv /\ OpenDevice => IInv'
<1> SUFFICES ASSUME IInv, OpenDevice PROVE IInv'
  OBVIOUS
<1>1. DeviceInv'
  BY DEF OpenDevice, Open, IInv, TypeOK, DeviceInv, GadgetTypeOK, EntitiesHoldPrefixes
<1>2. TypeOK'
  BY <1>1 DEF OpenDevice, Open, Fail, IInv, TypeOK, DeviceInv, LinkTypeOK, Results, Recoverable
<1>3. QED
  BY <1>1, <1>2 DEF OpenDevice, Open, Fail, IInv, DeviceInv, CountersAgree, OnTarget, Sending,
     PollingBlock, PollingManifest, IdleRounds, ResultSettled, SuccessMeansFlashed

\* Claiming the alt keeps it: a claim that succeeds has selected the target.
LEMMA ClaimKeeps == IInv /\ Claim => IInv'
<1> SUFFICES ASSUME IInv, Claim PROVE IInv'
  OBVIOUS
<1>1. DeviceInv' /\ (pc' = "load" => curAlt' = target)
  <2>1. CASE UNCHANGED <<dfuState, curAlt, pos, buf, flash, wedged, keepsTxn>> /\ faulty' = TRUE
             /\ pc' = "recover"
    BY <2>1 DEF IInv, TypeOK, DeviceInv, GadgetTypeOK, EntitiesHoldPrefixes
  <2>2. CASE ~NeedsSelect(target) /\ UNCHANGED gadgetVars
    BY <2>2 DEF NeedsSelect, MultiAlt, IInv, OnTarget, Targets, TypeOK, DeviceInv, GadgetTypeOK,
       EntitiesHoldPrefixes
  <2>3. CASE \E ok \in BOOLEAN : SelectAlt(target, ok) /\ (~ok => pc' = "recover")
    BY <2>3, SelectAltKeeps DEF IInv, TypeOK, LinkTypeOK, DeviceInv
  <2>4. QED BY <2>1, <2>2, <2>3 DEF Claim, ClaimAlt
<1>2. /\ pc' \in {"load", "recover"}
      /\ result' \in {result, "OPEN_FAILED", "PROTOCOL"}
      /\ pc' = "load" => result' = result
      /\ UNCHANGED <<target, run, loopVars, crashes, opVars>>
      /\ pc = "claim"
  BY DEF Claim, ClaimAlt
<1>3. TypeOK'
  BY <1>1, <1>2 DEF IInv, TypeOK, DeviceInv, LinkTypeOK, Results, Recoverable
<1>4. result = "NONE"
  BY <1>2 DEF IInv, ResultSettled
<1>5. QED
  BY <1>1, <1>2, <1>3, <1>4 DEF IInv, DeviceInv, CountersAgree, OnTarget, Sending,
     PollingBlock, PollingManifest, IdleRounds, ResultSettled, SuccessMeansFlashed

\* Loading the image keeps it.
LEMMA LoadFileKeeps == IInv /\ LoadFile => IInv'
<1> SUFFICES ASSUME IInv, LoadFile PROVE IInv'
  OBVIOUS
<1>1. DeviceInv'
  BY DEF LoadFile, IInv, TypeOK, DeviceInv, GadgetTypeOK, EntitiesHoldPrefixes
<1>2. TypeOK'
  BY <1>1, LinkAssumption DEF LoadFile, BeginIdle, Fail, IInv, TypeOK, DeviceInv, LinkTypeOK, Results
<1>3. QED
  BY <1>1, <1>2, LinkAssumption DEF LoadFile, BeginIdle, Fail, IInv, DeviceInv, CountersAgree, OnTarget, Sending,
     PollingBlock, PollingManifest, IdleRounds, ResultSettled, SuccessMeansFlashed

\* dfu_make_idle keeps it: the first block goes to a device that said dfuIDLE.
LEMMA IdleKeeps == IInv /\ Idle => IInv'
<1> SUFFICES ASSUME IInv, Idle PROVE IInv'
  OBVIOUS
<1>1. pc = "idle" /\ DeviceInv /\ result = "NONE" /\ curAlt = target /\ tries < IdleTries
  BY DEF Idle, MakeIdle, IdleStatus, IdleFix, IInv, TypeOK, DeviceInv, OnTarget, IdleRounds, ResultSettled
<1>2. CASE IdleStatus("idle", "send", "recover", "PROTOCOL")
  <2>1. PICK s \in DfuStates \union {NoReply} :
          /\ GetStatus(s, FALSE)
          /\ \/ s = NoReply /\ pc' = "recover" /\ result' = "PROTOCOL" /\ UNCHANGED fix
             \/ s = "dfuIDLE" /\ pc' = "send" /\ UNCHANGED <<fix, result>>
             \/ /\ s \notin {NoReply, "dfuIDLE"}
                /\ fix' = IF s = "dfuERROR" THEN "clrstatus" ELSE "abort"
                /\ UNCHANGED <<pc, result>>
    BY <1>2 DEF IdleStatus
  <2>2. DeviceInv' /\ curAlt' = curAlt
    BY <1>1, <2>1, GetStatusKeeps
  <2>3. s = "dfuIDLE" => dfuState' = "dfuIDLE"
    BY <2>1 DEF GetStatus, StatusStep, NoReply, SyncStates, RestStates
  <2>4. /\ UNCHANGED <<target, run, tries, polls, fails, crashes, attempt>>
        /\ IF pc' = "send" THEN block' = 0 /\ offset' = 0 ELSE UNCHANGED <<block, offset>>
    BY <1>2 DEF IdleStatus, Idle
  <2>5. pc' \in {"recover", "send", "idle"} /\ (pc' = "send" => s = "dfuIDLE")
    BY <1>1, <2>1
  <2>6. TypeOK'
    BY <1>1, <2>1, <2>2, <2>4, <2>5, SizeAssumption, NBlocksAssumption
    DEF IInv, TypeOK, DeviceInv, LinkTypeOK, Results, Recoverable
  <2>7. result' # "SUCCESS" /\ (pc' # "recover" => result' = "NONE")
    BY <1>1, <2>1
  <2>8. QED
    BY <1>1, <2>2, <2>3, <2>4, <2>5, <2>6, <2>7 DEF IInv, DeviceInv, CountersAgree, OnTarget, Sending,
       PollingBlock, PollingManifest, IdleRounds, ResultSettled, SuccessMeansFlashed
<1>3. CASE IdleFix("idle", "recover")
  <2>1. DeviceInv' /\ curAlt' = curAlt
    BY <1>1, <1>3, FixKeeps DEF IdleFix
  <2>2. /\ fix' = "none" /\ tries' = tries + 1
        /\ IF tries + 1 = IdleTries
             THEN pc' = "recover" /\ result' = "PROTOCOL"
             ELSE UNCHANGED <<pc, result>>
        /\ UNCHANGED <<target, run, polls, fails, crashes, attempt>>
    BY <1>3 DEF IdleFix, Idle
  <2>3. UNCHANGED <<block, offset>>
    BY <1>1, <2>2 DEF Idle
  <2>4. tries' <= IdleTries /\ (pc' = "idle" => tries' < IdleTries) /\ tries' \in Nat
    BY <1>1, <2>2, LinkAssumption DEF IInv, TypeOK, LinkTypeOK
  <2>5. TypeOK'
    BY <1>1, <2>1, <2>2, <2>3, <2>4, LinkAssumption
    DEF IInv, TypeOK, DeviceInv, LinkTypeOK, Results, Recoverable
  <2>6. QED
    BY <1>1, <2>1, <2>2, <2>3, <2>4, <2>5 DEF IInv, DeviceInv, CountersAgree, OnTarget, Sending,
       PollingBlock, PollingManifest, IdleRounds, ResultSettled, SuccessMeansFlashed
<1>4. QED BY <1>2, <1>3 DEF Idle, MakeIdle

\* A failed block ends the run or begins the second attempt.
LEMMA BlockFailedKeeps ==
  ASSUME IInv, DeviceInv', curAlt' = curAlt, pc \in {"send", "blockPoll"},
         NEW err \in Recoverable, BlockFailed(err),
         UNCHANGED <<target, run, polls, fails, crashes, block, offset>>
  PROVE  IInv'
<1>1. result = "NONE"
  BY DEF IInv, ResultSettled
<1>2. TypeOK'
  BY <1>1, LinkAssumption
  DEF BlockFailed, BeginIdle, Fail, IInv, TypeOK, DeviceInv, LinkTypeOK, Results
<1>3. QED
  BY <1>1, <1>2, LinkAssumption DEF BlockFailed, BeginIdle, Fail, Recoverable, IInv, DeviceInv, CountersAgree,
     OnTarget, Sending, PollingBlock, PollingManifest, IdleRounds, ResultSettled, SuccessMeansFlashed

\* Sending a block keeps it: a block the device takes extends its prefix by one.
LEMMA SendBlockKeeps == FitsBlockNumber /\ IInv /\ SendBlock => IInv'
<1> SUFFICES ASSUME FitsBlockNumber, IInv, SendBlock PROVE IInv'
  OBVIOUS
<1>1. /\ pc = "send" /\ DeviceInv /\ curAlt = target /\ block = offset
      /\ offset \in 0 .. NBlocks - 1 /\ result = "NONE"
  BY NBlocksAssumption
  DEF SendBlock, IInv, TypeOK, DeviceInv, OnTarget, CountersAgree, ResultSettled
<1>2. CASE /\ Dnload(block, offset, TRUE)
           /\ BeginPoll("blockPoll")
           /\ UNCHANGED <<result, attempt, tries, fix>>
  <2>1. /\ DeviceInv' /\ curAlt' = curAlt
        /\ \/ dfuState' = "dfuERROR"
           \/ dfuState' = "dfuDNLOAD_SYNC" /\ pos'[curAlt] = offset + 1
    BY <1>1, <1>2, DnloadKeeps
  <2>2. TypeOK'
    BY <1>1, <1>2, <2>1, LinkAssumption
    DEF SendBlock, BeginPoll, IInv, TypeOK, DeviceInv, LinkTypeOK
  <2>3. QED
    BY <1>1, <1>2, <2>1, <2>2, NBlocksAssumption
    DEF SendBlock, BeginPoll, IInv, DeviceInv, CountersAgree, OnTarget, Sending, SyncStates,
       PollingBlock, PollingManifest, IdleRounds, ResultSettled, SuccessMeansFlashed
<1>3. CASE /\ Dnload(block, offset, FALSE)
           /\ BlockFailed("TRANSFER_FAILED")
           /\ UNCHANGED <<polls, fails>>
  <2>1. DeviceInv' /\ curAlt' = curAlt
    BY <1>1, <1>3, DnloadKeeps
  <2>2. "TRANSFER_FAILED" \in Recoverable
    BY DEF Recoverable
  <2>3. QED BY <1>1, <1>3, <2>1, <2>2, BlockFailedKeeps DEF SendBlock
<1>4. QED BY <1>2, <1>3 DEF SendBlock

\* One more poll stays within the loop's bounds.
LEMMA PollAgainType ==
  ASSUME LinkTypeOK, NEW s, NEW grace \in {WriteGrace, EraseGrace}, PollAgainStep(s, grace)
  PROVE  /\ polls' \in 0 .. MaxPolls - 1
         /\ fails' \in Nat /\ (fails' <= WriteGrace \/ fails' <= EraseGrace)
<1>1. polls' \in 0 .. MaxPolls - 1
  BY LinkAssumption DEF PollAgainStep, LastPoll, LinkTypeOK
<1>2. CASE s = NoReply
  <2>1. fails < grace /\ fails' = fails + 1
    BY <1>2 DEF PollAgainStep, PollAgain, NoReply, BusyStates
  <2>2. QED BY <1>1, <2>1, LinkAssumption DEF LinkTypeOK
<1>3. CASE s # NoReply
  BY <1>1, <1>3, LinkAssumption DEF PollAgainStep
<1>4. QED BY <1>2, <1>3

\* A block poll keeps it: ready means the block sent is the last of the prefix.
LEMMA BlockPollKeeps == FitsBlockNumber /\ IInv /\ BlockPoll => IInv'
<1> SUFFICES ASSUME FitsBlockNumber, IInv, BlockPoll PROVE IInv'
  OBVIOUS
<1>1. /\ pc = "blockPoll" /\ DeviceInv /\ curAlt = target /\ block = offset
      /\ offset \in Nat /\ offset < NBlocks /\ result = "NONE" /\ pos \in [Alts -> Nat]
      /\ \/ dfuState = "dfuERROR"
         \/ /\ dfuState \in SyncStates \union {"dfuDNLOAD_IDLE"}
            /\ pos[target] = offset + 1
  BY NBlocksAssumption
  DEF BlockPoll, IInv, TypeOK, DeviceInv, GadgetTypeOK, OnTarget, CountersAgree, ResultSettled,
      PollingBlock
<1>2. PICK s \in DfuStates \union {NoReply} :
        /\ GetStatus(s, LastPoll)
        /\ \/ /\ PollReady(s)
              /\ pc' = "send"
              /\ offset' = offset + 1
              /\ block' = (block + 1) % BlockModulus
              /\ UNCHANGED <<result, loopVars, attempt>>
           \/ /\ PollAgainStep(s, WriteGrace)
              /\ UNCHANGED <<pc, result, tries, fix, opVars>>
           \/ /\ \E err \in Recoverable : PollEnds(s, WriteGrace, err) /\ BlockFailed(err)
              /\ UNCHANGED <<polls, fails, block, offset>>
  BY DEF BlockPoll
<1>3. DeviceInv' /\ curAlt' = curAlt /\ UNCHANGED <<target, run, crashes>>
  BY <1>1, <1>2, GetStatusKeeps DEF BlockPoll
<1>4. \/ dfuState' = "dfuERROR" /\ ~PollReady(s)
      \/ /\ pos'[target] = offset + 1
         /\ dfuState' \in SyncStates \union {"dfuDNLOAD_IDLE", "dfuERROR"}
         /\ PollReady(s) => dfuState' = "dfuDNLOAD_IDLE"
  BY <1>1, <1>2, BlockStatus, ErrorStatus
<1>5. CASE /\ PollReady(s)
           /\ pc' = "send"
           /\ offset' = offset + 1
           /\ block' = (block + 1) % BlockModulus
           /\ UNCHANGED <<result, loopVars, attempt>>
  <2>1. block' = offset' /\ offset' \in 1 .. NBlocks /\ block' \in 0 .. BlockModulus - 1
    <3>1. offset + 1 \in Nat /\ offset + 1 < BlockModulus
      BY <1>1, NBlocksAssumption, SizeAssumption DEF FitsBlockNumber
    <3>2. (offset + 1) % BlockModulus = offset + 1
      BY <3>1, SmallModulo, SizeAssumption
    <3>3. QED BY <1>1, <1>5, <3>1, <3>2, NBlocksAssumption, SizeAssumption
  <2>2. TypeOK'
    BY <1>1, <1>3, <1>5, <2>1 DEF IInv, TypeOK, DeviceInv, LinkTypeOK
  <2>3. Sending'
    BY <1>3, <1>4, <1>5, <2>1 DEF Sending
  <2>4. QED
    BY <1>1, <1>3, <1>5, <2>1, <2>2, <2>3 DEF IInv, DeviceInv, CountersAgree, OnTarget,
       PollingBlock, PollingManifest, IdleRounds, ResultSettled, SuccessMeansFlashed
<1>6. CASE /\ PollAgainStep(s, WriteGrace)
           /\ UNCHANGED <<pc, result, tries, fix, opVars>>
  <2>1. /\ polls' \in 0 .. MaxPolls - 1
        /\ fails' \in Nat /\ (fails' <= WriteGrace \/ fails' <= EraseGrace)
    BY <1>6, PollAgainType DEF IInv, TypeOK
  <2>2. TypeOK'
    BY <1>1, <1>3, <1>6, <2>1 DEF IInv, TypeOK, DeviceInv, LinkTypeOK
  <2>3. PollingBlock'
    BY <1>1, <1>3, <1>4, <1>6 DEF PollingBlock
  <2>4. QED
    BY <1>1, <1>3, <1>6, <2>2, <2>3 DEF IInv, DeviceInv, CountersAgree, OnTarget, Sending,
       PollingManifest, IdleRounds, ResultSettled, SuccessMeansFlashed
<1>7. CASE /\ \E err \in Recoverable : PollEnds(s, WriteGrace, err) /\ BlockFailed(err)
           /\ UNCHANGED <<polls, fails, block, offset>>
  BY <1>1, <1>3, <1>7, BlockFailedKeeps
<1>8. QED BY <1>2, <1>5, <1>6, <1>7

\* The end of the download keeps it: the manifest starts from the whole image.
LEMMA SendEndKeeps == IInv /\ SendEnd => IInv'
<1> SUFFICES ASSUME IInv, SendEnd PROVE IInv'
  OBVIOUS
<1>1. /\ pc = "send" /\ offset = NBlocks /\ DeviceInv /\ curAlt = target /\ result = "NONE"
      /\ UNCHANGED <<target, run, tries, fix, crashes, opVars>>
  BY DEF SendEnd, IInv, TypeOK, DeviceInv, OnTarget, ResultSettled
<1>2. CASE DnloadEnd(TRUE) /\ BeginPoll("manifestPoll") /\ UNCHANGED result
  <2>1. /\ DeviceInv' /\ curAlt' = curAlt /\ pos' = pos
        /\ dfuState = "dfuDNLOAD_IDLE" /\ dfuState' = "dfuMANIFEST_SYNC"
    BY <1>1, <1>2, DnloadEndKeeps
  <2>2. pos[target] = NBlocks
    BY <1>1, <2>1 DEF IInv, Sending
  <2>3. TypeOK'
    BY <1>1, <1>2, <2>1, LinkAssumption DEF BeginPoll, IInv, TypeOK, DeviceInv, LinkTypeOK
  <2>4. QED
    BY <1>1, <1>2, <2>1, <2>2, <2>3 DEF BeginPoll, IInv, DeviceInv, CountersAgree, OnTarget, Sending,
       PollingBlock, PollingManifest, IdleRounds, ResultSettled, SuccessMeansFlashed
<1>3. CASE DnloadEnd(FALSE) /\ Fail("TRANSFER_FAILED") /\ UNCHANGED <<polls, fails>>
  <2>1. DeviceInv' /\ curAlt' = curAlt
    BY <1>1, <1>3, DnloadEndKeeps
  <2>2. TypeOK'
    BY <1>1, <1>3, <2>1 DEF Fail, IInv, TypeOK, DeviceInv, LinkTypeOK, Results, Recoverable
  <2>3. QED
    BY <1>1, <1>3, <2>1, <2>2 DEF Fail, IInv, DeviceInv, CountersAgree, OnTarget, Sending,
       PollingBlock, PollingManifest, IdleRounds, ResultSettled, SuccessMeansFlashed
<1>4. QED BY <1>2, <1>3 DEF SendEnd

\* A manifest poll: the medium holds the image before the device says it is idle.
LEMMA ManifestStatus ==
  ASSUME IInv, pc = "manifestPoll", target' = target, NEW s, NEW last, GetStatus(s, last)
  PROVE  /\ \/ dfuState' = "dfuERROR"
            \/ dfuState' = "dfuMANIFEST_SYNC" /\ pos'[target] = NBlocks
            \/ dfuState' \in {"dfuMANIFEST", "dfuIDLE"} /\ Holds(target)'
         /\ PollReady(s) => Holds(target)'
<1>1. MachineOK /\ target \in Targets /\ curAlt = target
  BY DEF IInv, TypeOK, GadgetTypeOK, MachineOK, OnTarget
<1>2. CASE dfuState = "dfuERROR"
  BY <1>2, ErrorStatus
<1>3. CASE dfuState = "dfuMANIFEST_SYNC" /\ pos[target] = NBlocks
  <2>1. /\ ~PollReady(s)
        /\ \/ dfuState' = "dfuMANIFEST" /\ Len(buf[curAlt]) <= FlashBlocks /\ flash' \in Manifested
           \/ dfuState' = "dfuERROR"
           \/ UNCHANGED <<dfuState, pos>>
    BY <1>3 DEF GetStatus, StatusStep, Stall, SyncStates, RestStates, PollReady, BusyStates, NoReply, Lost
  <2>2. QED BY <1>1, <1>3, <2>1, ManifestHolds
<1>4. CASE dfuState \in {"dfuMANIFEST", "dfuIDLE"} /\ Holds(target)
  <2>1. dfuState' \in {"dfuMANIFEST", "dfuIDLE"} /\ flash' = flash
    BY <1>4 DEF GetStatus, StatusStep, SyncStates, RestStates, NoReply, Lost
  <2>2. QED BY <1>4, <2>1 DEF Holds
<1>5. QED BY <1>2, <1>3, <1>4 DEF IInv, PollingManifest

\* A manifest poll keeps it: ready means the flash holds the image.
LEMMA ManifestPollKeeps == IInv /\ ManifestPoll => IInv'
<1> SUFFICES ASSUME IInv, ManifestPoll PROVE IInv'
  OBVIOUS
<1>1. /\ pc = "manifestPoll" /\ DeviceInv /\ curAlt = target /\ result = "NONE"
      /\ UNCHANGED <<target, run, tries, fix, crashes, opVars>>
  BY DEF ManifestPoll, IInv, TypeOK, DeviceInv, OnTarget, ResultSettled
<1>2. PICK s \in DfuStates \union {NoReply} :
        /\ GetStatus(s, LastPoll)
        /\ \/ PollReady(s) /\ Succeed /\ UNCHANGED <<polls, fails>>
           \/ PollAgainStep(s, EraseGrace) /\ UNCHANGED <<pc, result>>
           \/ /\ \E err \in Recoverable : PollEnds(s, EraseGrace, err) /\ Fail(err)
              /\ UNCHANGED <<polls, fails>>
  BY DEF ManifestPoll
<1>3. DeviceInv' /\ curAlt' = curAlt
  BY <1>1, <1>2, GetStatusKeeps
<1>4. PollingManifest' /\ (PollReady(s) => Holds(target)')
  BY <1>1, <1>2, ManifestStatus DEF PollingManifest
<1>5. CASE PollReady(s) /\ Succeed /\ UNCHANGED <<polls, fails>>
  <2>1. TypeOK'
    BY <1>1, <1>3, <1>5 DEF Succeed, IInv, TypeOK, DeviceInv, LinkTypeOK, Results
  <2>2. QED
    BY <1>1, <1>3, <1>4, <1>5, <2>1 DEF Succeed, IInv, DeviceInv, CountersAgree, OnTarget, Sending,
       PollingBlock, IdleRounds, ResultSettled, SuccessMeansFlashed
<1>6. CASE PollAgainStep(s, EraseGrace) /\ UNCHANGED <<pc, result>>
  <2>1. /\ polls' \in 0 .. MaxPolls - 1
        /\ fails' \in Nat /\ (fails' <= WriteGrace \/ fails' <= EraseGrace)
    BY <1>6, PollAgainType DEF IInv, TypeOK
  <2>2. TypeOK'
    BY <1>1, <1>3, <1>6, <2>1 DEF IInv, TypeOK, DeviceInv, LinkTypeOK
  <2>3. QED
    BY <1>1, <1>3, <1>4, <1>6, <2>2 DEF IInv, DeviceInv, CountersAgree, OnTarget, Sending,
       PollingBlock, IdleRounds, ResultSettled, SuccessMeansFlashed
<1>7. CASE /\ \E err \in Recoverable : PollEnds(s, EraseGrace, err) /\ Fail(err)
           /\ UNCHANGED <<polls, fails>>
  <2>1. TypeOK'
    BY <1>1, <1>3, <1>7 DEF Fail, IInv, TypeOK, DeviceInv, LinkTypeOK, Results
  <2>2. QED
    BY <1>1, <1>3, <1>4, <1>7, <2>1 DEF Fail, Recoverable, IInv, DeviceInv, CountersAgree, OnTarget, Sending,
       PollingBlock, IdleRounds, ResultSettled, SuccessMeansFlashed
<1>8. QED BY <1>2, <1>5, <1>6, <1>7

\* The bus reset keeps it: the entities hold what they held.
LEMMA ResetAndRetryKeeps == IInv /\ ResetAndRetry => IInv'
<1> SUFFICES ASSUME IInv, ResetAndRetry PROVE IInv'
  OBVIOUS
<1>1. DeviceInv'
  <2>1. CASE BusReset
    <3>1. 0 \in Alts
      BY AltsAssumption
    <3>2. QED BY <2>1, <3>1 DEF BusReset, IInv, TypeOK, DeviceInv, GadgetTypeOK, EntitiesHoldPrefixes,
              DfuStates, RestStates
  <2>2. CASE UNCHANGED <<dfuState, curAlt, pos, buf, flash, wedged, keepsTxn>> /\ faulty' \in BOOLEAN
    BY <2>2 DEF IInv, TypeOK, DeviceInv, GadgetTypeOK, EntitiesHoldPrefixes
  <2>3. QED BY <2>1, <2>2 DEF ResetAndRetry, Recover, IInv, TypeOK, GadgetTypeOK
<1>2. /\ pc = "recover" /\ result # "SUCCESS"
      /\ UNCHANGED <<target, loopVars, crashes, opVars>>
      /\ \/ pc' = "open" /\ run' = 1 /\ result' = "NONE"
         \/ pc' = "done" /\ UNCHANGED <<run, result>>
  BY DEF ResetAndRetry, Recover, IInv, ResultSettled
<1>3. TypeOK'
  BY <1>1, <1>2 DEF IInv, TypeOK, DeviceInv, LinkTypeOK, Results
<1>4. QED
  BY <1>1, <1>2, <1>3 DEF IInv, DeviceInv, CountersAgree, OnTarget, Sending,
     PollingBlock, PollingManifest, IdleRounds, ResultSettled, SuccessMeansFlashed

\* A kill between two transfers, and a new write, keep it.
LEMMA InterruptWriteKeeps == IInv /\ InterruptWrite => IInv'
<1> SUFFICES ASSUME IInv, InterruptWrite PROVE IInv'
  OBVIOUS
<1>1. PICK a \in Targets : Interrupt(a)
  BY DEF InterruptWrite
<1>2. DeviceInv'
  BY <1>1 DEF Interrupt, Abandoned, IInv, TypeOK, DeviceInv, GadgetTypeOK, EntitiesHoldPrefixes
<1>3. TypeOK'
  <2>1. crashes' \in 0 .. MaxCrashes /\ target' \in Alts
    BY <1>1, LinkAssumption DEF Interrupt, IInv, TypeOK, LinkTypeOK, Targets
  <2>2. QED BY <1>1, <1>2, <2>1, LinkAssumption, NBlocksAssumption, SizeAssumption
            DEF Interrupt, InterruptWrite, TypeOK, DeviceInv, LinkTypeOK, Results
<1>4. QED
  BY <1>1, <1>2, <1>3 DEF InterruptWrite, Interrupt, IInv, DeviceInv, CountersAgree, OnTarget, Sending,
     PollingBlock, PollingManifest, IdleRounds, ResultSettled, SuccessMeansFlashed

\* A step that changes nothing keeps it.
LEMMA StutterKeeps == IInv /\ UNCHANGED vars => IInv'
<1> SUFFICES ASSUME IInv, UNCHANGED vars PROVE IInv'
  OBVIOUS
<1>1. TypeOK'
  BY DEF IInv, TypeOK, GadgetTypeOK, LinkTypeOK
<1>2. EntitiesHoldPrefixes'
  BY DEF IInv, EntitiesHoldPrefixes
<1>3. QED
  BY <1>1, <1>2 DEF IInv, CountersAgree, OnTarget, Sending,
     PollingBlock, PollingManifest, Holds, IdleRounds, ResultSettled, SuccessMeansFlashed

\* No step of the host, of the device or of an interruption breaks the invariant.
THEOREM NextKeeps == FitsBlockNumber /\ IInv /\ [Next]_vars => IInv'
<1> SUFFICES ASSUME FitsBlockNumber, IInv, [Next]_vars PROVE IInv'
  OBVIOUS
<1>1. CASE OpenDevice
  BY <1>1, OpenDeviceKeeps
<1>2. CASE Claim
  BY <1>2, ClaimKeeps
<1>3. CASE LoadFile
  BY <1>3, LoadFileKeeps
<1>4. CASE Idle
  BY <1>4, IdleKeeps
<1>5. CASE SendBlock
  BY <1>5, SendBlockKeeps
<1>6. CASE BlockPoll
  BY <1>6, BlockPollKeeps
<1>7. CASE SendEnd
  BY <1>7, SendEndKeeps
<1>8. CASE ManifestPoll
  BY <1>8, ManifestPollKeeps
<1>9. CASE ResetAndRetry
  BY <1>9, ResetAndRetryKeeps
<1>10. CASE InterruptWrite
  BY <1>10, InterruptWriteKeeps
<1>11. CASE UNCHANGED vars
  BY <1>11, StutterKeeps
<1>12. QED
  BY <1>1, <1>2, <1>3, <1>4, <1>5, <1>6, <1>7, <1>8, <1>9, <1>10, <1>11 DEF Next, Host

-----------------------------------------------------------------------------
(* The theorems.                                                           *)

\* The invariant holds in every state of every write: images below 65536 blocks.
THEOREM Invariance == FitsBlockNumber => (Spec => []IInv)
<1> SUFFICES ASSUME FitsBlockNumber PROVE Spec => []IInv
  OBVIOUS
<1>1. Init => IInv
  BY InitEstablishes
<1>2. IInv /\ [Next]_vars => IInv'
  BY NextKeeps
<1>3. QED BY <1>1, <1>2, PTL DEF Spec

\* For every interface, image, grace and number of interruptions: a download that
\* reports success has put the whole image into the medium behind its alt,
\* provided the image has fewer blocks than block numbers.
THEOREM DownloadSuccessMeansFlashed == FitsBlockNumber => (Spec => []SuccessMeansFlashed)
<1> SUFFICES ASSUME FitsBlockNumber PROVE Spec => []SuccessMeansFlashed
  OBVIOUS
<1>1. IInv => SuccessMeansFlashed
  BY DEF IInv
<1>2. QED BY <1>1, Invariance, PTL

\* Type correctness: every counter of the download stays within its bounds.
THEOREM DownloadTypeOK == FitsBlockNumber => (Spec => []TypeOK)
<1> SUFFICES ASSUME FitsBlockNumber PROVE Spec => []TypeOK
  OBVIOUS
<1>1. IInv => TypeOK
  BY DEF IInv
<1>2. QED BY <1>1, Invariance, PTL

\* No retry, reset or interruption ever repeats, skips or splices blocks in what
\* the device has received.
THEOREM DownloadBlocksInPlace == FitsBlockNumber => (Spec => []BlocksInPlace)
<1> SUFFICES ASSUME FitsBlockNumber PROVE Spec => []BlocksInPlace
  OBVIOUS
<1>1. IInv => BlocksInPlace
  <2> SUFFICES ASSUME IInv, NEW a \in Alts, NEW i \in DOMAIN buf[a]
               PROVE  buf[a][i] = i - 1
    BY DEF BlocksInPlace
  <2>1. buf[a] \in Seq(Int)
    BY DEF IInv, TypeOK, GadgetTypeOK
  <2>2. i \in 1 .. Len(buf[a])
    BY <2>1
  <2>3. QED BY <2>2 DEF IInv, EntitiesHoldPrefixes
<1>2. QED BY <1>1, Invariance, PTL

\* A second attempt is only made before the device has acknowledged a block.
THEOREM DownloadRetryOnlyBeforeProgress == FitsBlockNumber => (Spec => RetryOnlyBeforeProgress)
<1> SUFFICES ASSUME FitsBlockNumber PROVE Spec => RetryOnlyBeforeProgress
  OBVIOUS
<1>1. IInv /\ [Next]_vars => [attempt = 0 /\ attempt' = 1 => offset = 0]_vars
  <2> SUFFICES ASSUME IInv, Next, attempt = 0, attempt' = 1 PROVE offset = 0
    BY Zenon
  <2>1. CASE SendBlock
    BY <2>1 DEF SendBlock, BlockFailed, IInv, CountersAgree
  <2>2. CASE BlockPoll
    <3>1. PICK s \in DfuStates \union {NoReply} :
            \/ UNCHANGED attempt
            \/ \E err \in Recoverable : BlockFailed(err)
      BY <2>2 DEF BlockPoll, opVars
    <3>2. PICK err \in Recoverable : BlockFailed(err)
      BY <3>1
    <3>3. QED BY <3>2 DEF BlockFailed, IInv, CountersAgree
  <2>3. CASE OpenDevice \/ Claim \/ LoadFile \/ Idle \/ SendEnd \/ ManifestPoll
             \/ ResetAndRetry \/ InterruptWrite
    BY <2>3 DEF OpenDevice, Claim, LoadFile, Idle, SendEnd, ManifestPoll, ResetAndRetry,
       InterruptWrite, opVars
  <2>4. QED BY <2>1, <2>2, <2>3 DEF Next, Host
<1>2. QED BY <1>1, Invariance, PTL DEF Spec, RetryOnlyBeforeProgress

-----------------------------------------------------------------------------
(* What a step writes, and where.                                          *)

\* An entity but the target's receives nothing, and its medium stays as it is.
OthersKept ==
  \A a \in Alts : a # target => flash'[a] = flash[a] /\ buf'[a] \in {buf[a], << >>}

\* No entity receives anything.
NoneGrows == \A a \in Alts : buf'[a] \in {buf[a], << >>}

\* Closing a transaction empties one buffer.
LEMMA CleanEntityShrinks ==
  ASSUME buf \in [Alts -> Seq(Int)], CleanEntity
  PROVE  NoneGrows
BY DEF CleanEntity, NoneGrows

\* A GETSTATUS between claim and end writes behind the target only: the alt selected is
\* the target, which is not the erase alt.
LEMMA GetStatusWrites ==
  ASSUME IInv, pc \in {"idle", "blockPoll", "manifestPoll"}, NEW s, NEW last, GetStatus(s, last)
  PROVE  NoneGrows /\ OthersKept
<1>1. /\ curAlt = target /\ target \in Alts /\ target # EraseAlt
      /\ buf \in [Alts -> Seq(Int)] /\ flash \in [Alts -> Medium]
  BY DEF IInv, TypeOK, GadgetTypeOK, OnTarget, Targets
<1>2. ASSUME NEW t, StatusStep(t)
      PROVE  NoneGrows /\ flash' \in {flash, Flushed}
  <2>1. NoneGrows
    BY <1>1, <1>2, CleanEntityShrinks DEF StatusStep, NoneGrows
  <2>2. flash' \in {flash, Flushed}
    BY <1>1, <1>2 DEF StatusStep, Manifested, HalfManifested
  <2>3. QED BY <2>1, <2>2
<1>3. NoneGrows /\ flash' \in {flash, Flushed}
  BY <1>2 DEF GetStatus, NoneGrows
<1>4. ASSUME NEW a \in Alts, a # target PROVE flash'[a] = flash[a]
  BY <1>1, <1>3, <1>4 DEF Flushed
<1>5. QED BY <1>3, <1>4 DEF NoneGrows, OthersKept

\* CLRSTATUS and ABORT write nothing.
LEMMA FixWrites ==
  ASSUME buf \in [Alts -> Seq(Int)], ClrStatus \/ Abort
  PROVE  NoneGrows /\ flash' = flash
BY CleanEntityShrinks DEF ClrStatus, ClrStatusStep, Abort, AbortStep, NoneGrows

\* DNLOAD buffers for the alt that is selected.
LEMMA DnloadWrites ==
  ASSUME buf \in [Alts -> Seq(Int)], NEW num, NEW data, NEW ok, Dnload(num, data, ok)
  PROVE  /\ flash' = flash
         /\ \A a \in Alts : a # curAlt => buf'[a] \in {buf[a], << >>}
<1>1. ASSUME DownloadBlock(num, data)
      PROVE  /\ flash' = flash
             /\ \A a \in Alts : a # curAlt => buf'[a] \in {buf[a], << >>}
  BY <1>1 DEF DownloadBlock, CleanEntity
<1>2. QED BY <1>1 DEF Dnload

\* Each step of the host writes behind the target only, and a call's last step nothing.
LEMMA HostWrites ==
  ASSUME IInv, Host
  PROVE  /\ OthersKept /\ target' = target /\ pc # "done"
         /\ pc' = "done" => flash' = flash
<1>0. buf \in [Alts -> Seq(Int)]
  BY DEF IInv, TypeOK, GadgetTypeOK
<1>1. CASE OpenDevice \/ LoadFile \/ ResetAndRetry
  BY <1>1 DEF OpenDevice, Open, LoadFile, ResetAndRetry, Recover, BusReset, OthersKept
<1>2. CASE Claim
  BY <1>2 DEF Claim, ClaimAlt, SelectAlt, SelectAltStep, OthersKept
<1>3. CASE Idle
  <2>1. pc = "idle" /\ target' = target /\ pc' # "done"
    BY <1>3 DEF Idle, MakeIdle, IdleStatus, IdleFix
  <2>2. CASE \E s : GetStatus(s, FALSE)
    BY <2>1, <2>2, GetStatusWrites
  <2>3. CASE ClrStatus \/ Abort
    BY <1>0, <2>1, <2>3, FixWrites DEF NoneGrows, OthersKept
  <2>4. QED BY <1>3, <2>2, <2>3 DEF Idle, MakeIdle, IdleStatus, IdleFix
<1>4. CASE SendBlock
  <2>1. /\ pc = "send" /\ target' = target /\ pc' # "done"
        /\ \E ok \in BOOLEAN : Dnload(block, offset, ok)
    BY <1>4 DEF SendBlock, BeginPoll, BlockFailed, Fail, BeginIdle
  <2>2. curAlt = target
    BY <2>1 DEF IInv, OnTarget
  <2>3. QED BY <1>0, <2>1, <2>2, DnloadWrites DEF OthersKept
<1>5. CASE BlockPoll
  <2>1. pc = "blockPoll" /\ target' = target /\ \E s : GetStatus(s, LastPoll)
    BY <1>5 DEF BlockPoll
  <2>2. pc' # "done"
    BY <1>5, <2>1 DEF BlockPoll, BlockFailed, Fail, BeginIdle
  <2>3. QED BY <2>1, <2>2, GetStatusWrites
<1>6. CASE SendEnd
  BY <1>6 DEF SendEnd, BeginPoll, Fail, DnloadEnd, DownloadEnd, OthersKept
<1>7. CASE ManifestPoll
  <2>1. /\ pc = "manifestPoll" /\ target' = target
        /\ \E s : /\ GetStatus(s, LastPoll)
                  /\ pc' = "done" => PollReady(s)
    BY <1>7 DEF ManifestPoll, Fail
  <2>2. PICK s : GetStatus(s, LastPoll) /\ (pc' = "done" => PollReady(s))
    BY <2>1
  <2>3. ASSUME PollReady(s) PROVE flash' = flash
    <3>1. \/ dfuState \in {"dfuERROR", "dfuMANIFEST", "dfuIDLE"}
          \/ dfuState = "dfuMANIFEST_SYNC"
      BY <2>1 DEF IInv, PollingManifest
    <3>2. QED BY <2>2, <2>3, <3>1 DEF GetStatus, StatusStep, SyncStates, RestStates, PollReady,
              BusyStates, NoReply
  <2>4. QED BY <2>1, <2>2, <2>3, GetStatusWrites
<1>8. QED BY <1>1, <1>2, <1>3, <1>4, <1>5, <1>6, <1>7 DEF Host

\* A new write begins with the flash as the last one left it.
LEMMA InterruptWrites ==
  ASSUME InterruptWrite
  PROVE  flash' = flash /\ buf' = buf /\ target' \in Targets /\ pc' = "open" /\ result' = "NONE"
BY DEF InterruptWrite, Interrupt, Abandoned

\* Image data is only ever received for the alt the caller asked for.
THEOREM DownloadWritesOnlyTarget == FitsBlockNumber => (Spec => WritesOnlyTarget)
<1> SUFFICES ASSUME FitsBlockNumber PROVE Spec => WritesOnlyTarget
  OBVIOUS
<1>1. IInv /\ [Next]_vars =>
        [\A a \in Alts : Len(buf'[a]) > Len(buf[a]) => a = target]_vars
  <2> SUFFICES ASSUME IInv, Next, NEW a \in Alts, Len(buf'[a]) > Len(buf[a])
               PROVE  a = target
    BY Zenon
  <2>1. buf[a] \in Seq(Int)
    BY DEF IInv, TypeOK, GadgetTypeOK
  <2>2. buf'[a] # buf[a] /\ buf'[a] # << >>
    BY <2>1
  <2>3. QED BY <2>2, HostWrites, InterruptWrites DEF Next, OthersKept
<1>2. QED BY <1>1, Invariance, PTL DEF Spec, WritesOnlyTarget

-----------------------------------------------------------------------------
(* The write its callers are promised.                                     *)

\* A call has an outcome when it has ended.
LEMMA OutcomeIs ==
  ASSUME ResultSettled
  PROVE  Outcome = IF pc # "done" THEN "running"
                   ELSE IF result = "SUCCESS" THEN "success" ELSE "failure"
BY DEF ResultSettled, Outcome

\* Whether a medium holds the image is a matter of that medium.
LEMMA HoldsOf ==
  ASSUME NEW a \in Alts, flash'[a] = flash[a]
  PROVE  Holds(a)' = Holds(a)
BY DEF Holds

\* A step of the host programs the target, or ends the call, or does nothing a caller sees.
LEMMA HostImplements ==
  ASSUME IInv, IInv', Host
  PROVE  [Promise!Next]_Promise!vars
<1> DEFINE media == [a \in Alts |-> Holds(a)]
<1>1. /\ OthersKept /\ target' = target /\ target \in Alts /\ Outcome = "running"
      /\ pc' = "done" => flash' = flash
  BY HostWrites, OutcomeIs DEF IInv, OnTarget, Targets
<1>2. CASE pc' = "done"
  <2>1. Outcome' = IF result' = "SUCCESS" THEN "success" ELSE "failure"
    BY <1>2 DEF IInv, ResultSettled, Outcome
  <2>2. media' = media
    BY <1>1, <1>2, HoldsOf
  <2>3. Outcome' = "success" => Holds(target)
    BY <1>1, <1>2, <2>1, HoldsOf DEF IInv, SuccessMeansFlashed
  <2>4. QED BY <1>1, <2>1, <2>2, <2>3 DEF Promise!Next, Promise!Return
<1>3. CASE pc' # "done"
  <2>1. Outcome' = "running"
    BY <1>3 DEF IInv, ResultSettled, Outcome
  <2>2. ASSUME NEW a \in Alts, a # target PROVE Holds(a)' = Holds(a)
    BY <1>1, <2>2, HoldsOf DEF OthersKept
  <2>3. Holds(target)' \in BOOLEAN
    BY <1>1 DEF Holds
  <2>4. media' = [media EXCEPT ![target] = Holds(target)']
    BY <1>1, <2>2
  <2>5. QED BY <1>1, <2>1, <2>3, <2>4 DEF Promise!Next, Promise!Program
<1>4. QED BY <1>2, <1>3

\* The download implements the write of FlashWrite: while a call runs it touches the medium
\* of its target only, it reports success only of one that holds the image, and what it has
\* left stays until the next call (tdfu_dfu_download).
THEOREM DownloadIsAtomicToCaller == FitsBlockNumber => (Spec => WriteIsAtomicToCaller)
<1> SUFFICES ASSUME FitsBlockNumber PROVE Spec => WriteIsAtomicToCaller
  OBVIOUS
<1>1. Init => Promise!Init
  <2>1. Init => Outcome = "running"
    BY DEF Init, LinkInit, Outcome
  <2>2. [a \in Alts |-> Holds(a)] \in [Alts -> BOOLEAN]
    BY DEF Holds
  <2>3. QED BY <2>1, <2>2 DEF Init, Promise!Init
<1>2. IInv /\ IInv' /\ [Next]_vars => [Promise!Next]_Promise!vars
  <2> SUFFICES ASSUME IInv, IInv', [Next]_vars PROVE [Promise!Next]_Promise!vars
    OBVIOUS
  <2>1. CASE Host
    BY <2>1, HostImplements
  <2>2. CASE InterruptWrite
    <3>1. Outcome' = "running"
      BY <2>2, InterruptWrites DEF Outcome
    <3>2. [a \in Alts |-> Holds(a)]' = [a \in Alts |-> Holds(a)]
      BY <2>2, InterruptWrites, HoldsOf
    <3>3. QED BY <2>2, <3>1, <3>2, InterruptWrites DEF Promise!Next, Promise!WriteAgain
  <2>3. CASE UNCHANGED vars
    BY <2>3 DEF Outcome, Holds, Promise!vars
  <2>4. QED BY <2>1, <2>2, <2>3 DEF Next
<1>3. QED BY <1>1, <1>2, Invariance, PTL DEF Spec, WriteIsAtomicToCaller, Promise!Spec

-----------------------------------------------------------------------------
(* A write that meets no fault.  What the call relies on while nothing has *)
(* failed: only what came before the call stands in its way, a hung gadget *)
(* that the reset frees, and a stale transaction that the first refusal    *)
(* closes.                                                                 *)

\* A hung gadget is met when it is opened, and reset once.
HangsOnlyAtOpen ==
  /\ wedged => run = 0 /\ pc \in {"open", "recover"}
  /\ pc = "recover" => wedged /\ result \in Recoverable

\* The second attempt finds no transaction open.
SecondAttemptIsFresh ==
  attempt = 1 /\ (pc = "idle" \/ (pc = "send" /\ offset = 0)) => pos[target] = 0

\* A block is refused for a stale transaction only, and that closes it.
RefusedOnlyIfStale ==
  pc = "blockPoll" /\ dfuState = "dfuERROR" => offset = 0 /\ attempt = 0 /\ pos[target] = 0

CleanRun ==
  ~faulty =>
    /\ HangsOnlyAtOpen
    /\ pc = "idle" => IdlePath
    /\ SecondAttemptIsFresh
    /\ RefusedOnlyIfStale
    /\ pc = "manifestPoll" => dfuState # "dfuERROR"
    /\ pc = "done" => result = "SUCCESS"

\* A clean call is opened on a gadget that answers, or resets the one that does not.
LEMMA OpenDeviceClean == IInv /\ CleanRun /\ OpenDevice => CleanRun'
<1> SUFFICES ASSUME IInv, CleanRun, OpenDevice, ~faulty' PROVE CleanRun'
  BY DEF CleanRun
<1>0. wedged \in BOOLEAN /\ faulty \in BOOLEAN /\ run \in {0, 1}
  BY DEF IInv, TypeOK, GadgetTypeOK, LinkTypeOK
<1>1. /\ pc = "open" /\ run' = run /\ wedged' = wedged
      /\ \/ ~wedged /\ pc' = "claim" /\ faulty' = faulty
         \/ /\ pc' = "recover" /\ result' \in {"DEVICE_NOT_FOUND", "PROTOCOL"}
            /\ faulty' = (faulty \/ ~wedged)
  BY DEF OpenDevice, Open, Fail, gadgetVars
<1>2. ~faulty /\ ((pc' = "claim" /\ ~wedged) \/ (pc' = "recover" /\ wedged))
  BY <1>0, <1>1
<1>3. HangsOnlyAtOpen
  BY <1>2 DEF CleanRun
<1>4. HangsOnlyAtOpen'
  BY <1>0, <1>1, <1>2, <1>3 DEF HangsOnlyAtOpen, Recoverable
<1>5. QED BY <1>2, <1>4 DEF CleanRun, SecondAttemptIsFresh, RefusedOnlyIfStale

\* Claiming the alt of a gadget that answers fails only with a fault.
LEMMA ClaimClean == IInv /\ CleanRun /\ Claim => CleanRun'
<1> SUFFICES ASSUME IInv, CleanRun, Claim, ~faulty' PROVE CleanRun'
  BY DEF CleanRun
<1>0. GadgetTypeOK /\ target \in Alts
  BY DEF IInv, TypeOK, LinkTypeOK
<1>1. pc = "claim" /\ run' = run
  BY DEF Claim, ClaimAlt
<1>2. CASE ~NeedsSelect(target) /\ pc' = "load" /\ UNCHANGED gadgetVars
  <2>1. ~faulty /\ ~wedged'
    BY <1>0, <1>1, <1>2 DEF CleanRun, HangsOnlyAtOpen, GadgetTypeOK
  <2>2. QED BY <1>2, <2>1 DEF CleanRun, HangsOnlyAtOpen, SecondAttemptIsFresh, RefusedOnlyIfStale
<1>3. CASE SelectAlt(target, TRUE) /\ pc' = "load"
  <2>1. ~faulty /\ ~wedged'
    BY <1>0, <1>3, SelectAltClean
  <2>2. QED BY <1>3, <2>1 DEF CleanRun, HangsOnlyAtOpen, SecondAttemptIsFresh, RefusedOnlyIfStale
<1>4. CASE SelectAlt(target, FALSE)
  <2>1. ~faulty /\ wedged
    BY <1>0, <1>4, SelectAltClean
  <2>2. QED BY <1>1, <2>1 DEF CleanRun, HangsOnlyAtOpen
<1>5. QED BY <1>2, <1>3, <1>4 DEF Claim, ClaimAlt

\* The image is loaded, and making the device idle begins with all its rounds.
LEMMA LoadFileClean == IdleTries >= 3 /\ IInv /\ CleanRun /\ LoadFile => CleanRun'
<1> SUFFICES ASSUME IdleTries >= 3, IInv, CleanRun, LoadFile, ~faulty' PROVE CleanRun'
  BY DEF CleanRun
<1>1. /\ pc = "load" /\ pc' = "idle" /\ tries' = 0 /\ fix' = "none" /\ attempt' = 0
      /\ ~faulty /\ wedged' = wedged
  BY DEF LoadFile, BeginIdle, Fail
<1>2. IdlePath'
  BY <1>1, IdlePathBegins
<1>3. ~wedged'
  BY <1>1 DEF CleanRun, HangsOnlyAtOpen, IInv, TypeOK, GadgetTypeOK
<1>4. QED BY <1>1, <1>2, <1>3 DEF CleanRun, HangsOnlyAtOpen, SecondAttemptIsFresh, RefusedOnlyIfStale

\* Making the device idle ends with an idle device, and opens no transaction.
LEMMA IdleClean == IInv /\ CleanRun /\ Idle => CleanRun'
<1> SUFFICES ASSUME IInv, CleanRun, Idle, ~faulty' PROVE CleanRun'
  BY DEF CleanRun
<1>0. GadgetTypeOK /\ target \in Alts /\ faulty \in BOOLEAN /\ wedged \in BOOLEAN
  BY DEF IInv, TypeOK, LinkTypeOK, GadgetTypeOK
<1>1. MakeIdle("idle", "send", "recover", "PROTOCOL") /\ attempt' = attempt
  BY DEF Idle
<1>2. pc = "idle" /\ run' = run /\ target' = target
  BY <1>1 DEF MakeIdle, IdleStatus, IdleFix
<1>3. ~faulty
  <2>1. CASE \E s : GetStatus(s, FALSE)
    BY <1>0, <2>1, GetStatusClean
  <2>2. CASE ClrStatus \/ Abort
    BY <1>0, <2>2, ClrStatusClean, AbortClean
  <2>3. QED BY <1>1, <2>1, <2>2 DEF MakeIdle, IdleStatus, IdleFix
<1>4. ~wedged /\ IdlePath /\ (attempt = 1 => pos[target] = 0) /\ curAlt = target
  BY <1>0, <1>2, <1>3 DEF CleanRun, HangsOnlyAtOpen, SecondAttemptIsFresh, IInv, OnTarget
<1>5. /\ ~wedged'
      /\ CleanEntity \/ UNCHANGED <<pos, buf>>
      /\ pc' = "send" \/ (pc' = "idle" /\ IdlePath')
  BY <1>0, <1>1, <1>4, MakeIdleClean
<1>6. attempt' = 1 => pos'[target'] = 0
  BY <1>0, <1>1, <1>2, <1>4, <1>5 DEF CleanEntity, GadgetTypeOK
<1>7. QED BY <1>5, <1>6 DEF CleanRun, HangsOnlyAtOpen, SecondAttemptIsFresh, RefusedOnlyIfStale

\* What a block sent in a clean call does: it is taken, or it is refused for a stale
\* transaction that it closes.
LEMMA SentClean ==
  ASSUME FitsBlockNumber, IInv, CleanRun, pc = "send", offset < NBlocks,
         NEW ok \in BOOLEAN, Dnload(block, offset, ok), ~faulty'
  PROVE  /\ ~faulty /\ ~wedged' /\ (ok \/ dfuState' = "dfuERROR")
         /\ dfuState' = "dfuERROR" => offset = 0 /\ attempt = 0 /\ pos'[target] = 0
<1>0. /\ GadgetTypeOK /\ target \in Alts /\ curAlt = target /\ attempt \in {0, 1}
      /\ faulty \in BOOLEAN /\ wedged \in BOOLEAN /\ block = offset /\ offset \in 0 .. NBlocks
  BY DEF IInv, TypeOK, LinkTypeOK, GadgetTypeOK, OnTarget, CountersAgree
<1>1. ~faulty
  <2>1. CASE faulty' = faulty
    BY <2>1
  <2>2. CASE Lost(ok)
    BY <1>0, <2>2 DEF Lost
  <2>3. QED BY <2>1, <2>2 DEF Dnload
<1>2. ~wedged
  BY <1>1 DEF CleanRun, HangsOnlyAtOpen
<1>3. ~wedged' /\ DownloadBlock(block, offset) /\ (ok \/ dfuState' = "dfuERROR")
  BY <1>0, <1>2, DnloadClean
<1>4. /\ dfuState \in {"dfuIDLE", "dfuDNLOAD_IDLE"}
      /\ offset # 0 => pos[target] = offset
      /\ offset = 0 /\ attempt = 1 => pos[target] = 0
  BY <1>1 DEF IInv, Sending, CleanRun, SecondAttemptIsFresh
<1>5. pos[target] = offset => Expects(curAlt, block)
  <2>1. offset \in Nat /\ BlockModulus \in Nat \ {0} /\ offset < BlockModulus
    BY <1>0, NBlocksAssumption, SizeAssumption DEF FitsBlockNumber
  <2>2. offset % BlockModulus = offset
    BY <2>1, SmallModulo
  <2>3. QED BY <1>0, <2>2 DEF Expects
<1>6. dfuState' = "dfuERROR" => ~Expects(curAlt, block) /\ CleanEntity
  BY <1>3, <1>4 DEF DownloadBlock, Stall
<1>7. CleanEntity => pos'[target] = 0
  BY <1>0 DEF CleanEntity, GadgetTypeOK
<1>8. QED BY <1>0, <1>1, <1>3, <1>4, <1>5, <1>6, <1>7

\* A second attempt begins with all the rounds of dfu_make_idle and nothing open.
LEMMA SecondAttemptClean ==
  ASSUME IdleTries >= 3, offset = 0, CountersAgree, attempt = 0, NEW err, BlockFailed(err),
         pos'[target] = 0, target' = target, ~wedged', ~faulty'
  PROVE  CleanRun'
<1>1. /\ pc' = "idle" /\ tries' = 0 /\ fix' = "none"
  BY DEF BlockFailed, BeginIdle, CountersAgree
<1>2. IdlePath'
  BY <1>1, IdlePathBegins
<1>3. QED BY <1>1, <1>2 DEF CleanRun, HangsOnlyAtOpen, SecondAttemptIsFresh, RefusedOnlyIfStale

\* A clean call's block is taken, or starts the second attempt.
LEMMA SendBlockClean ==
  FitsBlockNumber /\ IdleTries >= 3 /\ IInv /\ CleanRun /\ SendBlock => CleanRun'
<1> SUFFICES ASSUME FitsBlockNumber, IdleTries >= 3, IInv, CleanRun, SendBlock, ~faulty'
             PROVE CleanRun'
  BY DEF CleanRun
<1>1. pc = "send" /\ offset < NBlocks /\ UNCHANGED <<target, run, block, offset>>
  BY DEF SendBlock
<1>2. CASE Dnload(block, offset, TRUE) /\ BeginPoll("blockPoll") /\ UNCHANGED <<result, attempt>>
  <2>1. /\ ~wedged'
        /\ dfuState' = "dfuERROR" => offset = 0 /\ attempt = 0 /\ pos'[target] = 0
    BY <1>1, <1>2, SentClean
  <2>2. QED BY <1>1, <1>2, <2>1
            DEF BeginPoll, CleanRun, HangsOnlyAtOpen, SecondAttemptIsFresh, RefusedOnlyIfStale
<1>3. CASE Dnload(block, offset, FALSE) /\ BlockFailed("TRANSFER_FAILED")
  <2>1. ~wedged' /\ offset = 0 /\ attempt = 0 /\ pos'[target] = 0
    BY <1>1, <1>3, SentClean
  <2>2. CountersAgree
    BY DEF IInv
  <2>3. QED BY <1>1, <1>3, <2>1, <2>2, SecondAttemptClean
<1>4. QED BY <1>2, <1>3 DEF SendBlock

\* Polling a clean call's block ends with it taken, or starts the second attempt.
LEMMA BlockPollClean == IdleTries >= 3 /\ IInv /\ CleanRun /\ BlockPoll => CleanRun'
<1> SUFFICES ASSUME IdleTries >= 3, IInv, CleanRun, BlockPoll, ~faulty' PROVE CleanRun'
  BY DEF CleanRun
<1>0. GadgetTypeOK /\ offset \in 0 .. NBlocks /\ offset < NBlocks /\ CountersAgree
  BY DEF IInv, TypeOK, PollingBlock, BlockPoll
<1>1. PICK s \in DfuStates \union {NoReply} :
        /\ GetStatus(s, LastPoll)
        /\ \/ /\ PollReady(s)
              /\ pc' = "send"
              /\ offset' = offset + 1
              /\ attempt' = attempt
           \/ /\ PollAgainStep(s, WriteGrace)
              /\ UNCHANGED <<pc, result, tries, fix, opVars>>
           \/ /\ \E err \in Recoverable : PollEnds(s, WriteGrace, err) /\ BlockFailed(err)
              /\ UNCHANGED <<polls, fails, block, offset>>
  BY DEF BlockPoll, opVars, loopVars
<1>2. /\ ~faulty /\ wedged' = wedged /\ UNCHANGED <<target, run>> /\ pc = "blockPoll"
      /\ ~wedged => /\ StatusStep(s) /\ s # NoReply
                    /\ dfuState' = "dfuERROR" => dfuState = "dfuERROR"
                    /\ ~(LastPoll /\ s \in BusyStates)
  BY <1>0, <1>1, GetStatusClean DEF BlockPoll
<1>3. ~wedged /\ ~wedged'
  BY <1>2 DEF CleanRun, HangsOnlyAtOpen
<1>4. /\ StatusStep(s) /\ s # NoReply /\ ~(LastPoll /\ s \in BusyStates)
      /\ dfuState' = "dfuERROR" => dfuState = "dfuERROR"
  BY <1>2, <1>3
<1>5. dfuState = "dfuERROR" => /\ offset = 0 /\ attempt = 0 /\ pos[target] = 0
                               /\ s = "dfuERROR" /\ pos' = pos
  BY <1>2, <1>4 DEF CleanRun, RefusedOnlyIfStale, StatusStep, SyncStates, RestStates
<1>6. s = "dfuERROR" => dfuState' = "dfuERROR"
  BY <1>4 DEF StatusStep, SyncStates, RestStates
<1>7. CASE PollReady(s) /\ pc' = "send" /\ offset' = offset + 1
  BY <1>0, <1>3, <1>7 DEF CleanRun, HangsOnlyAtOpen, SecondAttemptIsFresh, RefusedOnlyIfStale
<1>8. CASE PollAgainStep(s, WriteGrace) /\ UNCHANGED <<pc, result, tries, fix, opVars>>
  <2>1. dfuState' # "dfuERROR"
    BY <1>4, <1>5, <1>8 DEF PollAgainStep, PollAgain, BusyStates
  <2>2. QED BY <1>2, <1>3, <1>8, <2>1
            DEF CleanRun, HangsOnlyAtOpen, SecondAttemptIsFresh, RefusedOnlyIfStale
<1>9. CASE \E err \in Recoverable : PollEnds(s, WriteGrace, err) /\ BlockFailed(err)
  <2>1. PICK err \in Recoverable : PollEnds(s, WriteGrace, err) /\ BlockFailed(err)
    BY <1>9
  <2>2. s = "dfuERROR"
    BY <1>4, <2>1 DEF PollEnds, PollAgain
  <2>3. offset = 0 /\ attempt = 0 /\ pos'[target] = 0
    BY <1>4, <1>5, <1>6, <2>2
  <2>4. QED BY <1>0, <1>2, <1>3, <2>1, <2>3, SecondAttemptClean
<1>10. QED BY <1>1, <1>7, <1>8, <1>9

\* The end of a clean call's data is accepted: there was data, and all of it is in.
LEMMA SendEndClean == NBlocks > 0 /\ IInv /\ CleanRun /\ SendEnd => CleanRun'
<1> SUFFICES ASSUME NBlocks > 0, IInv, CleanRun, SendEnd, ~faulty' PROVE CleanRun'
  BY DEF CleanRun
<1>0. GadgetTypeOK /\ faulty \in BOOLEAN /\ wedged \in BOOLEAN
  BY DEF IInv, TypeOK, GadgetTypeOK
<1>1. pc = "send" /\ offset = NBlocks /\ UNCHANGED <<target, run, opVars>>
  BY DEF SendEnd
<1>2. dfuState = "dfuDNLOAD_IDLE"
  BY <1>1, NBlocksAssumption DEF IInv, Sending
<1>3. CASE DnloadEnd(TRUE) /\ BeginPoll("manifestPoll")
  <2>1. ~wedged' /\ dfuState' = "dfuMANIFEST_SYNC"
    BY <1>0, <1>3, DnloadEndClean
  <2>2. QED BY <1>3, <2>1
            DEF BeginPoll, CleanRun, HangsOnlyAtOpen, SecondAttemptIsFresh, RefusedOnlyIfStale
<1>4. CASE DnloadEnd(FALSE)
  <2>1. Lost(FALSE)
    BY <1>2, <1>4 DEF DnloadEnd, DownloadEnd
  <2>2. ~faulty /\ wedged
    BY <1>0, <2>1 DEF Lost
  <2>3. QED BY <1>1, <2>2 DEF CleanRun, HangsOnlyAtOpen
<1>5. QED BY <1>3, <1>4 DEF SendEnd

\* The manifest of a clean call ends in success.
LEMMA ManifestPollClean == IInv /\ CleanRun /\ ManifestPoll => CleanRun'
<1> SUFFICES ASSUME IInv, CleanRun, ManifestPoll, ~faulty' PROVE CleanRun'
  BY DEF CleanRun
<1>0. GadgetTypeOK
  BY DEF IInv, TypeOK
<1>1. PICK s \in DfuStates \union {NoReply} :
        /\ GetStatus(s, LastPoll)
        /\ \/ PollReady(s) /\ Succeed
           \/ PollAgainStep(s, EraseGrace) /\ UNCHANGED <<pc, result>>
           \/ \E err \in Recoverable : PollEnds(s, EraseGrace, err) /\ Fail(err)
  BY DEF ManifestPoll
<1>2. /\ ~faulty /\ wedged' = wedged /\ pc = "manifestPoll"
      /\ ~wedged => /\ StatusStep(s) /\ s # NoReply
                    /\ dfuState' = "dfuERROR" => dfuState = "dfuERROR"
                    /\ ~(LastPoll /\ s \in BusyStates)
  BY <1>0, <1>1, GetStatusClean DEF ManifestPoll
<1>3. ~wedged /\ ~wedged' /\ dfuState # "dfuERROR"
  BY <1>2 DEF CleanRun, HangsOnlyAtOpen
<1>4. /\ s # "dfuERROR" /\ s # NoReply /\ dfuState' # "dfuERROR"
      /\ ~(LastPoll /\ s \in BusyStates)
  BY <1>2, <1>3 DEF StatusStep, SyncStates, RestStates
<1>5. ~\E err \in Recoverable : PollEnds(s, EraseGrace, err)
  BY <1>4 DEF PollEnds, PollAgain
<1>6. (pc' = "done" /\ result' = "SUCCESS") \/ (pc' = pc /\ result' = result)
  BY <1>1, <1>5 DEF Succeed
<1>7. QED BY <1>2, <1>3, <1>4, <1>6
          DEF CleanRun, HangsOnlyAtOpen, SecondAttemptIsFresh, RefusedOnlyIfStale

\* A clean call only recovers from a gadget that hung before it, and once.
LEMMA ResetAndRetryClean == IInv /\ CleanRun /\ ResetAndRetry => CleanRun'
<1> SUFFICES ASSUME IInv, CleanRun, ResetAndRetry, ~faulty' PROVE CleanRun'
  BY DEF CleanRun
<1>1. pc = "recover" /\ faulty' \in {faulty, TRUE}
  BY DEF ResetAndRetry, Recover, BusReset
<1>2. HangsOnlyAtOpen
  BY <1>1 DEF CleanRun, IInv, TypeOK, GadgetTypeOK
<1>3. wedged /\ run = 0 /\ result \in Recoverable
  BY <1>1, <1>2 DEF HangsOnlyAtOpen
<1>4. BusReset /\ pc' = "open"
  <2>1. result \in Recoverable /\ run # 1 /\ ~(faulty' = TRUE)
    BY <1>3
  <2>2. QED BY <2>1, Zenon DEF ResetAndRetry, Recover
<1>5. QED BY <1>4 DEF BusReset, CleanRun, HangsOnlyAtOpen, SecondAttemptIsFresh, RefusedOnlyIfStale

\* An interrupted write leaves whatever it may; the next one begins as any does.
LEMMA InterruptWriteClean == InterruptWrite => CleanRun'
BY DEF InterruptWrite, Interrupt, CleanRun, HangsOnlyAtOpen, SecondAttemptIsFresh, RefusedOnlyIfStale

\* For every interface, image, grace and number of interruptions: a write of an image that
\* fits the block numbers and is not empty succeeds unless something fails while it runs,
\* whatever state the one before it left the device in.  The rounds dfu_make_idle has (it
\* has three) are just enough for an interrupted flush whose ABORT is refused.
THEOREM DownloadCleanWriteSucceeds ==
  FitsBlockNumber /\ NBlocks > 0 /\ IdleTries >= 3 => (Spec => []CleanWriteSucceeds)
<1> SUFFICES ASSUME FitsBlockNumber, NBlocks > 0, IdleTries >= 3
             PROVE Spec => []CleanWriteSucceeds
  OBVIOUS
<1>1. Init => CleanRun
  BY DEF Init, GadgetInit, LinkInit, CleanRun, HangsOnlyAtOpen, SecondAttemptIsFresh,
         RefusedOnlyIfStale
<1>2. IInv /\ CleanRun /\ [Next]_vars => CleanRun'
  <2> SUFFICES ASSUME IInv, CleanRun, [Next]_vars PROVE CleanRun'
    OBVIOUS
  <2>1. CASE OpenDevice \/ Claim \/ LoadFile \/ Idle
    BY <2>1, OpenDeviceClean, ClaimClean, LoadFileClean, IdleClean
  <2>2. CASE SendBlock \/ BlockPoll \/ SendEnd \/ ManifestPoll
    BY <2>2, SendBlockClean, BlockPollClean, SendEndClean, ManifestPollClean
  <2>3. CASE ResetAndRetry \/ InterruptWrite
    BY <2>3, ResetAndRetryClean, InterruptWriteClean
  <2>4. CASE UNCHANGED vars
    BY <2>4 DEF CleanRun, HangsOnlyAtOpen, SecondAttemptIsFresh, RefusedOnlyIfStale, IdlePath,
                RoundsNeeded
  <2>5. QED BY <2>1, <2>2, <2>3, <2>4 DEF Next, Host
<1>3. CleanRun => CleanWriteSucceeds
  BY DEF CleanRun, CleanWriteSucceeds
<1>4. QED BY <1>1, <1>2, <1>3, Invariance, PTL DEF Spec
=============================================================================
