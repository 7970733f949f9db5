--------------------------- MODULE DfuUpload_proofs ---------------------------
(***************************************************************************)
(* ReadIsExact and VerdictIsRight for every interface, size and number of  *)
(* interruptions, and any medium whose blocks have numbers of their own.   *)
(* An upload that met no fault is answered.                                *)
(***************************************************************************)
EXTENDS DfuUpload, DfuGadget_proofs

USE DEF Old, EndOfMedium, Refused, None, Torn, Piece

-----------------------------------------------------------------------------
(* The invariant.                                                          *)

\* No two blocks of the medium have the same 16-bit number.
MediumFits == FlashBlocks \in Nat \ {0} /\ FlashBlocks < BlockModulus

\* What a block may hold.
Values == Nat \union {Old, Torn}

\* Uploads and recovery leave the device at rest, its entities within their media.
AtRest ==
  /\ dfuState \in {"dfuIDLE", "dfuUPLOAD_IDLE", "dfuERROR"}
  /\ curAlt \in Alts
  /\ pos \in [Alts -> 0 .. FlashBlocks]
  /\ buf \in [Alts -> Seq(Int)]
  /\ flash \in [Alts -> [0 .. FlashBlocks - 1 -> Values]]

\* Between claim and end the selected alt is the target's.
OnTarget == pc \in {"load", "idle", "upload"} => curAlt = target

\* A result exists only when a call has ended.
ResultSettled ==
  pc \in {"open", "claim", "load", "idle", "upload", "close"} => result = "NONE"

\* An attempt starts with an empty file, or with what the first one could not finish, or
\* with an image to compare.
FreshAttempt ==
  pc = "idle" =>
    /\ tries < IdleTries
    /\ op = "read" => Len(file) <= attempt /\ at <= Len(file)
    /\ op = "verify" => size > 0

\* The file holds the blocks read so far; the first of them may go over a piece of it.
FileInStep ==
  /\ at = total
  /\ Len(file) = total \/ (total = 0 /\ Len(file) <= attempt)
  /\ \A i \in 1 .. total : file[i] = flash[target][i - 1]

\* The whole blocks seen so far match the image, and it does not end in them.
ImageInStep ==
  /\ size > Bytes(total)
  /\ \A i \in 0 .. total - 1, r \in 0 .. BlockBytes - 1 : Matches(i, r)

\* Host and device agree on the block that comes next, and so far all is as it should be.
InStep ==
  pc = "upload" =>
    /\ block = total
    /\ total # 0 => pos[target] = total
    /\ op = "read" => ~Reaches(total) /\ (~unseen => FileInStep)
    /\ op = "read" /\ total = 0 => Len(file) <= attempt /\ at <= Len(file)
    /\ op = "verify" => ImageInStep

\* A file is closed when it is complete.
ReadyToClose == pc = "close" => op = "read" /\ (~unseen => FileIsExact)

IInv ==
  /\ TypeOK /\ AtRest /\ OnTarget /\ ResultSettled /\ FreshAttempt /\ InStep /\ ReadyToClose
  /\ ReadIsExact /\ VerdictIsRight

-----------------------------------------------------------------------------
(* What each request leaves of the device.                                 *)

Machine == <<dfuState, curAlt, pos, buf, flash>>

\* Closing a transaction keeps the entities within their media.
LEMMA CleanEntityKeeps ==
  ASSUME MediumFits, AtRest, CleanEntity
  PROVE  pos' \in [Alts -> 0 .. FlashBlocks] /\ buf' \in [Alts -> Seq(Int)]
BY DEF MediumFits, AtRest, CleanEntity

\* A GETSTATUS moves nothing in a device at rest.
LEMMA GetStatusKeeps ==
  ASSUME AtRest, NEW s, NEW last, GetStatus(s, last)
  PROVE  UNCHANGED Machine
<1>1. ASSUME NEW t, StatusStep(t) PROVE UNCHANGED Machine
  BY <1>1 DEF AtRest, StatusStep, SyncStates, RestStates, Machine
<1>2. QED BY <1>1 DEF GetStatus, Machine

\* CLRSTATUS and ABORT.
LEMMA FixKeeps ==
  ASSUME MediumFits, AtRest, ClrStatus \/ Abort
  PROVE  AtRest' /\ UNCHANGED <<curAlt, flash>>
<1>1. CASE UNCHANGED Machine
  BY <1>1 DEF AtRest, Machine
<1>2. CASE ClrStatusStep
  BY <1>2 DEF ClrStatusStep, AtRest
<1>3. CASE AbortStep
  <2>1. /\ curAlt' = curAlt /\ flash' = flash /\ dfuState' \in {"dfuIDLE", "dfuERROR"}
        /\ CleanEntity \/ UNCHANGED <<pos, buf>>
    BY <1>3 DEF AbortStep, Stall
  <2>2. QED BY <2>1, CleanEntityKeeps DEF AtRest
<1>4. QED BY <1>1, <1>2, <1>3 DEF ClrStatus, Abort, Machine

\* SET_INTERFACE of a, and what an answered one selects.
LEMMA SelectAltKeeps ==
  ASSUME AtRest, NEW a \in Alts, NEW ok \in BOOLEAN, SelectAlt(a, ok)
  PROVE  AtRest' /\ flash' = flash /\ (ok => curAlt' = a)
<1>1. CASE UNCHANGED Machine /\ ~ok
  BY <1>1 DEF AtRest, Machine
<1>2. CASE SelectAltStep(a)
  BY <1>2 DEF SelectAltStep, AtRest
<1>3. QED BY <1>1, <1>2 DEF SelectAlt, Lost, Machine

\* What UPLOAD of block n may bring, to a host whose last block was the one before: the
\* end of the medium, its last block, or a block after which the device moves on.
Brings(n, got) ==
  \/ got = Refused
  \/ got = EndOfMedium /\ n = FlashBlocks
  \/ /\ n < FlashBlocks /\ got = flash[curAlt][n] /\ BytesOf(got) = BytesIn(curAlt, n)
     /\ BytesIn(curAlt, n) = BlockBytes => pos'[curAlt] = n + 1

\* The bytes of a block.
LEMMA BytesInIs ==
  ASSUME NEW a \in Alts, NEW i
  PROVE  BytesIn(a, i) \in 1 .. BlockBytes /\ BlockBytes \in Nat \ {0}
BY BytesAssumption DEF BytesIn

\* UPLOAD of block n brings that.
LEMMA UploadBlockKeeps ==
  ASSUME MediumFits, AtRest, NEW n \in 0 .. FlashBlocks, NEW got, UploadBlock(n, got),
         n # 0 => pos[curAlt] = n
  PROVE  AtRest' /\ UNCHANGED <<curAlt, flash>> /\ Brings(n, got)
<1>1. pos[curAlt] \in 0 .. FlashBlocks /\ FlashBlocks \in Nat \ {0}
      /\ BlockModulus \in Nat \ {0} /\ FlashBlocks < BlockModulus
  BY SizeAssumption DEF AtRest, MediumFits
<1>2. pos[curAlt] % BlockModulus = pos[curAlt]
  <2>1. pos[curAlt] \in Nat /\ pos[curAlt] < BlockModulus
    BY <1>1
  <2>2. QED BY <1>1, <2>1, SmallModulo
<1>3. Expects(curAlt, n) => pos[curAlt] = n
  BY <1>2 DEF Expects
<1>4. ASSUME pos[curAlt] = n, n < FlashBlocks, got = flash[curAlt][n]
      PROVE  BytesOf(got) = BytesIn(curAlt, n)
  <2>1. got \in Values
    BY <1>1, <1>4 DEF AtRest
  <2>2. QED BY <1>4, <2>1 DEF BytesOf, BytesHere, Values
<1>5. CASE /\ Expects(curAlt, n) /\ pos[curAlt] < FlashBlocks
           /\ got = flash[curAlt][pos[curAlt]] /\ dfuState' = "dfuUPLOAD_IDLE"
           /\ pos' = [pos EXCEPT ![curAlt] = @ + 1] /\ UNCHANGED <<buf, curAlt, flash>>
  <2>1. pos[curAlt] = n
    BY <1>3, <1>5
  <2>2. pos' \in [Alts -> 0 .. FlashBlocks] /\ pos'[curAlt] = n + 1
    BY <1>1, <1>5, <2>1 DEF AtRest
  <2>3. AtRest'
    BY <1>5, <2>2 DEF AtRest
  <2>4. QED BY <1>4, <1>5, <2>1, <2>2, <2>3 DEF Brings
<1>6. CASE /\ Expects(curAlt, n) /\ dfuState' = "dfuIDLE" /\ CleanEntity
           /\ UNCHANGED <<curAlt, flash>>
           /\ \/ /\ pos[curAlt] < FlashBlocks /\ BytesHere < BlockBytes
                 /\ got = flash[curAlt][pos[curAlt]]
              \/ pos[curAlt] >= FlashBlocks /\ got = EndOfMedium
  <2>1. pos[curAlt] = n /\ curAlt \in Alts
    BY <1>3, <1>6 DEF AtRest
  <2>2. AtRest'
    BY <1>6, CleanEntityKeeps DEF AtRest
  <2>3. CASE pos[curAlt] >= FlashBlocks /\ got = EndOfMedium
    BY <1>1, <1>6, <2>1, <2>2, <2>3 DEF Brings
  <2>4. CASE /\ pos[curAlt] < FlashBlocks /\ BytesHere < BlockBytes
             /\ got = flash[curAlt][pos[curAlt]]
    <3>1. BytesIn(curAlt, n) < BlockBytes
      BY <2>1, <2>4 DEF BytesHere
    <3>2. BytesIn(curAlt, n) # BlockBytes
      BY <2>1, <3>1, BytesInIs
    <3>3. QED BY <1>4, <1>6, <2>1, <2>2, <2>4, <3>2 DEF Brings
  <2>5. QED BY <1>6, <2>3, <2>4
<1>7. CASE got = Refused /\ Stall /\ CleanEntity /\ UNCHANGED <<curAlt, flash>>
  BY <1>7, CleanEntityKeeps DEF AtRest, Stall, Brings
<1>8. CASE got = Refused /\ Stall /\ UNCHANGED <<pos, buf, curAlt, flash>>
  BY <1>8 DEF AtRest, Stall, Brings
<1>9. QED BY <1>5, <1>6, <1>7, <1>8 DEF UploadBlock

\* The same for the UPLOAD as the host issues it, answered or lost.
LEMMA UploadKeeps ==
  ASSUME MediumFits, AtRest, NEW n \in 0 .. FlashBlocks, NEW got, Upload(n, got),
         n # 0 => pos[curAlt] = n
  PROVE  AtRest' /\ UNCHANGED <<curAlt, flash>> /\ Brings(n, got)
<1>1. CASE UploadBlock(n, got)
  BY <1>1, UploadBlockKeeps
<1>2. CASE got = Refused /\ UNCHANGED Machine
  BY <1>2 DEF AtRest, Machine, Brings
<1>3. CASE got = Refused /\ \E any : UploadBlock(n, any)
  BY <1>3, UploadBlockKeeps DEF Brings
<1>4. QED BY <1>1, <1>2, <1>3 DEF Upload, Machine

\* What the host does not look at is typed too.
WiresOK == wedged \in BOOLEAN /\ keepsTxn \in BOOLEAN /\ faulty \in BOOLEAN

\* A device at rest is well typed.
LEMMA RestIsTyped ==
  ASSUME MediumFits, AtRest, WiresOK
  PROVE  GadgetTypeOK
<1>1. pos \in [Alts -> Nat]
  BY DEF AtRest, MediumFits
<1>2. flash \in [Alts -> Medium]
  <2>1. Values \subseteq Int
    BY DEF Values
  <2>2. QED BY <2>1 DEF AtRest, Medium
<1>3. QED BY <1>1, <1>2 DEF AtRest, WiresOK, GadgetTypeOK, DfuStates, RestStates

\* The same after a step.
LEMMA RestIsTypedAfter ==
  ASSUME MediumFits, AtRest', WiresOK'
  PROVE  GadgetTypeOK'
<1>1. pos' \in [Alts -> Nat]
  BY DEF AtRest, MediumFits
<1>2. flash' \in [Alts -> Medium]
  <2>1. Values \subseteq Int
    BY DEF Values
  <2>2. QED BY <2>1 DEF AtRest, Medium
<1>3. QED BY <1>1, <1>2 DEF AtRest, WiresOK, GadgetTypeOK, DfuStates, RestStates

\* Verdicts stand while nothing they are about changes.
LEMMA VerdictsStand ==
  ASSUME ReadIsExact, VerdictIsRight, UNCHANGED <<flash, target, op, size>>,
         \/ result' \notin {"SUCCESS", "VERIFY"}
         \/ UNCHANGED <<result, file, unseen, mismatch>>
  PROVE  ReadIsExact' /\ VerdictIsRight'
BY DEF ReadIsExact, FileIsExact, StopsAt, Reaches, VerdictIsRight, MatchesBelow, Matches

-----------------------------------------------------------------------------
(* The invariant, one action at a time.                                    *)

USE DEF vars, gadgetVars, linkVars, opVars, fileVars, loopVars

\* The invariant holds before the first transfer.
THEOREM InitEstablishes == MediumFits /\ Init => IInv
<1> SUFFICES ASSUME MediumFits, Init PROVE IInv
  OBVIOUS
<1>1. pos \in [Alts -> 0 .. FlashBlocks] /\ buf \in [Alts -> Seq(Int)]
  <2>1. << >> \in Seq(Int) /\ <<0>> \in Seq(Int) /\ 0 \in 0 .. FlashBlocks /\ 1 \in 0 .. FlashBlocks
    BY DEF MediumFits
  <2>2. CASE NoneOpen
    BY <2>1, <2>2 DEF NoneOpen
  <2>3. CASE ~NoneOpen
    <3>1. /\ pos = [a \in Alts |-> IF a = target THEN 1 ELSE 0]
          /\ buf = [a \in Alts |-> IF a = target THEN <<0>> ELSE << >>]
      BY <2>3 DEF Init, LeftOpen
    <3>2. QED BY <2>1, <3>1
  <2>4. QED BY <2>2, <2>3
<1>2. flash \in [Alts -> [0 .. FlashBlocks - 1 -> Values]]
  <2>1. PICK good \in SUBSET (0 .. FlashBlocks - 1), bad \in {Old, Torn} :
          flash = [a \in Alts |-> [i \in 0 .. FlashBlocks - 1 |->
                    IF a # target THEN Old
                    ELSE IF i \in good THEN i ELSE bad]]
    BY DEF Init
  <2>2. \A i \in 0 .. FlashBlocks - 1 : i \in Nat
    BY DEF MediumFits
  <2>3. QED BY <2>1, <2>2 DEF Values
<1>3. AtRest
  BY <1>1, <1>2 DEF Init, GadgetInit, AtRest
<1>4. WiresOK
  BY DEF Init, GadgetInit, WiresOK
<1>5. LinkTypeOK
  BY LinkAssumption DEF Init, LinkInit, LinkTypeOK, Results
<1>6. file \in Seq(Int) /\ block \in 0 .. BlockModulus - 1 /\ total \in 0 .. FlashBlocks
      /\ mismatch \in Nat \union {None} /\ at \in Nat /\ unseen \in BOOLEAN
  <2>1. /\ file = << >> /\ block = 0 /\ total = 0 /\ mismatch = None /\ at = 0
        /\ unseen = FALSE
    BY DEF Init
  <2>2. 0 \in 0 .. BlockModulus - 1 /\ 0 \in 0 .. FlashBlocks /\ << >> \in Seq(Int)
    BY SizeAssumption
  <2>3. QED BY <2>1, <2>2
<1>7. TypeOK
  BY <1>3, <1>4, <1>5, <1>6, RestIsTyped DEF Init, LinkInit, TypeOK
<1>8. QED
  BY <1>3, <1>7 DEF Init, LinkInit, IInv, OnTarget, ResultSettled, FreshAttempt, InStep,
     ReadyToClose, ReadIsExact, VerdictIsRight

\* Opening the device keeps the invariant.
LEMMA OpenDeviceKeeps == MediumFits /\ IInv /\ OpenDevice => IInv'
<1> SUFFICES ASSUME MediumFits, IInv, OpenDevice PROVE IInv'
  OBVIOUS
<1>1. AtRest' /\ flash' = flash
  BY DEF OpenDevice, Open, IInv, AtRest
<1>2. WiresOK'
  BY DEF OpenDevice, Open, IInv, TypeOK, GadgetTypeOK, WiresOK
<1>3. /\ UNCHANGED <<target, run, loopVars, crashes, opVars>>
      /\ pc = "open" /\ pc' \in {"claim", "recover"}
      /\ pc' = "claim" => result' = result
      /\ result' \in {result, "DEVICE_NOT_FOUND", "PROTOCOL"}
  BY DEF OpenDevice, Open, Fail
<1>4. GadgetTypeOK'
  BY <1>1, <1>2, RestIsTypedAfter
<1>5. TypeOK'
  BY <1>3, <1>4 DEF IInv, TypeOK, LinkTypeOK, Results, Recoverable
<1>6. ReadIsExact' /\ VerdictIsRight'
  BY <1>1, <1>3, VerdictsStand DEF IInv, ResultSettled
<1>7. QED
  BY <1>1, <1>3, <1>5, <1>6 DEF IInv, OnTarget, ResultSettled, FreshAttempt, InStep, ReadyToClose

\* Claiming the alt keeps it: a claim that succeeds has selected the target.
LEMMA ClaimKeeps == MediumFits /\ IInv /\ Claim => IInv'
<1> SUFFICES ASSUME MediumFits, IInv, Claim PROVE IInv'
  OBVIOUS
<1>0. target \in Alts /\ AtRest
  BY DEF IInv, TypeOK, LinkTypeOK
<1>1. AtRest' /\ flash' = flash /\ (pc' = "load" => curAlt' = target)
  <2>1. CASE UNCHANGED <<dfuState, curAlt, pos, buf, flash, wedged, keepsTxn>>
             /\ pc' = "recover"
    BY <2>1 DEF IInv, AtRest
  <2>2. CASE ~NeedsSelect(target) /\ UNCHANGED gadgetVars
    BY <2>2 DEF NeedsSelect, MultiAlt, IInv, AtRest
  <2>3. CASE \E ok \in BOOLEAN : SelectAlt(target, ok) /\ (~ok => pc' = "recover")
    BY <1>0, <2>3, SelectAltKeeps
  <2>4. QED BY <2>1, <2>2, <2>3 DEF Claim, ClaimAlt
<1>2. WiresOK'
  BY DEF Claim, ClaimAlt, SelectAlt, Lost, IInv, TypeOK, GadgetTypeOK, WiresOK
<1>3. /\ UNCHANGED <<target, run, loopVars, crashes, op, size, block, total, attempt, fileVars>>
      /\ mismatch' = None /\ pc = "claim" /\ pc' \in {"load", "recover"}
      /\ result' \in {result, "OPEN_FAILED", "PROTOCOL"} /\ (pc' = "load" => result' = result)
  BY DEF Claim, ClaimAlt
<1>4. GadgetTypeOK'
  BY <1>1, <1>2, RestIsTypedAfter
<1>5. TypeOK'
  BY <1>3, <1>4 DEF IInv, TypeOK, LinkTypeOK, Results, Recoverable, MediumFits
<1>6. ReadIsExact' /\ VerdictIsRight'
  BY <1>1, <1>3, VerdictsStand DEF IInv, ResultSettled
<1>7. QED
  BY <1>1, <1>3, <1>5, <1>6 DEF IInv, OnTarget, ResultSettled, FreshAttempt, InStep, ReadyToClose

\* Preparing the file or the image keeps it.
LEMMA OpenFileKeeps == MediumFits /\ IInv /\ OpenFile => IInv'
<1> SUFFICES ASSUME MediumFits, IInv, OpenFile PROVE IInv'
  OBVIOUS
<1>1. /\ UNCHANGED <<dfuState, curAlt, pos, buf, flash, wedged, keepsTxn>>
      /\ UNCHANGED <<target, run, polls, fails, crashes, op, size, block, total, mismatch>>
      /\ pc = "load"
  BY DEF OpenFile
<1>2. AtRest'
  BY <1>1 DEF IInv, AtRest
<1>3. WiresOK'
  BY DEF OpenFile, IInv, TypeOK, GadgetTypeOK, WiresOK
<1>4. GadgetTypeOK'
  BY <1>2, <1>3, RestIsTypedAfter
<1>5. /\ size \in Nat
      /\ \/ /\ pc' = "idle" /\ tries' = 0 /\ fix' = "none" /\ attempt' = 0 /\ result' = result
            /\ op = "read" \/ size > 0
            /\ file' = << >> /\ at' = 0 /\ unseen' = FALSE
         \/ /\ pc' = "recover" /\ result' \in {"INVALID_PARAMETER", "FILE_IO"}
            /\ UNCHANGED <<tries, fix, attempt, fileVars>>
  BY SizesAssumption DEF OpenFile, BeginIdle, Fail, IInv, TypeOK
<1>6. TypeOK'
  <2>1. file' \in Seq(Int) /\ at' \in Nat /\ unseen' \in BOOLEAN /\ attempt' \in {0, 1}
    <3>1. /\ file \in Seq(Int) /\ << >> \in Seq(Int) /\ attempt \in {0, 1}
          /\ at \in Nat /\ unseen \in BOOLEAN
      BY DEF IInv, TypeOK
    <3>2. CASE file' = << >> /\ at' = 0 /\ unseen' = FALSE /\ attempt' = 0
      BY <3>1, <3>2
    <3>3. CASE UNCHANGED <<attempt, fileVars>>
      BY <3>1, <3>3
    <3>4. QED BY <1>5, <3>2, <3>3
  <2>2. LinkTypeOK'
    <3>1. tries' \in 0 .. IdleTries /\ fix' \in {"none", "clrstatus", "abort"}
      BY <1>5, LinkAssumption DEF IInv, TypeOK, LinkTypeOK
    <3>2. result' \in Results
      BY <1>5 DEF IInv, TypeOK, LinkTypeOK, Results
    <3>3. QED BY <1>1, <3>1, <3>2 DEF IInv, TypeOK, LinkTypeOK
  <2>3. QED BY <1>1, <1>4, <1>5, <2>1, <2>2 DEF IInv, TypeOK
<1>7. ReadIsExact' /\ VerdictIsRight'
  BY <1>1, <1>5, VerdictsStand DEF IInv, ResultSettled
<1>8. QED
  BY <1>1, <1>2, <1>5, <1>6, <1>7, LinkAssumption
     DEF IInv, OnTarget, ResultSettled, FreshAttempt, InStep, ReadyToClose

\* dfu_make_idle keeps it, and an attempt starts with nothing read.
LEMMA IdleKeeps == MediumFits /\ IInv /\ Idle => IInv'
<1> SUFFICES ASSUME MediumFits, IInv, Idle PROVE IInv'
  OBVIOUS
<1>1. /\ UNCHANGED <<target, run, polls, fails, crashes, op, size, attempt, file, mismatch>>
      /\ pc = "idle"
      /\ IF pc' = "upload"
           THEN block' = 0 /\ total' = 0 /\ Rewind
           ELSE UNCHANGED <<block, total, at, unseen>>
  BY DEF Idle, MakeIdle, IdleStatus, IdleFix
<1>2. AtRest' /\ UNCHANGED <<curAlt, flash>>
  <2>1. CASE IdleStatus("idle", "upload", "recover", "PROTOCOL")
    <3>1. PICK s : GetStatus(s, FALSE)
      BY <2>1 DEF IdleStatus
    <3>2. QED BY <3>1, GetStatusKeeps DEF IInv, AtRest, Machine
  <2>2. CASE IdleFix("idle", "recover")
    <3>1. ClrStatus \/ Abort
      BY <2>2 DEF IdleFix
    <3>2. QED BY <3>1, FixKeeps DEF IInv
  <2>3. QED BY <2>1, <2>2 DEF Idle, MakeIdle
<1>3. WiresOK'
  BY DEF Idle, MakeIdle, IdleStatus, IdleFix, GetStatus, ClrStatus, Abort, Lost,
     IInv, TypeOK, GadgetTypeOK, WiresOK
<1>4. GadgetTypeOK'
  BY <1>2, <1>3, RestIsTypedAfter
<1>5. /\ fix' \in {"none", "clrstatus", "abort"} /\ tries' \in 0 .. IdleTries
      /\ \/ pc' = "recover" /\ result' = "PROTOCOL"
         \/ pc' \in {"idle", "upload"} /\ result' = result /\ tries' < IdleTries
  <2>1. /\ fix \in {"none", "clrstatus", "abort"} /\ tries \in 0 .. IdleTries
        /\ tries < IdleTries /\ IdleTries \in Nat
    BY <1>1, LinkAssumption DEF IInv, TypeOK, LinkTypeOK, FreshAttempt
  <2>2. CASE IdleStatus("idle", "upload", "recover", "PROTOCOL")
    <3>1. /\ tries' = tries
          /\ \/ pc' = "recover" /\ result' = "PROTOCOL" /\ fix' = fix
             \/ /\ pc' \in {pc, "upload"} /\ result' = result
                /\ fix' \in {fix, "clrstatus", "abort"}
      BY <2>2 DEF IdleStatus
    <3>2. QED BY <1>1, <2>1, <3>1
  <2>3. CASE IdleFix("idle", "recover")
    BY <1>1, <2>1, <2>3 DEF IdleFix
  <2>4. QED BY <2>2, <2>3 DEF Idle, MakeIdle
<1>6. TypeOK'
  <2>1. LinkTypeOK'
    BY <1>1, <1>5 DEF IInv, TypeOK, LinkTypeOK, Results, Recoverable
  <2>2. /\ block' \in 0 .. BlockModulus - 1 /\ total' \in 0 .. FlashBlocks
        /\ at' \in Nat /\ unseen' \in BOOLEAN
    <3>1. /\ block \in 0 .. BlockModulus - 1 /\ total \in 0 .. FlashBlocks
          /\ at \in Nat /\ unseen \in BOOLEAN
          /\ 0 \in 0 .. BlockModulus - 1 /\ 0 \in 0 .. FlashBlocks
      BY SizeAssumption DEF IInv, TypeOK
    <3>2. CASE pc' = "upload"
      <4>1. /\ block' = 0 /\ total' = 0 /\ at' \in {0, at} /\ unseen' \in {unseen, TRUE}
        BY <1>1, <3>2 DEF Rewind
      <4>2. at' \in Nat
        BY <3>1, <4>1
      <4>3. unseen' \in BOOLEAN
        BY <3>1, <4>1
      <4>4. QED BY <3>1, <4>1, <4>2, <4>3
    <3>3. CASE pc' # "upload"
      BY <1>1, <3>1, <3>3
    <3>4. QED BY <3>2, <3>3
  <2>3. QED BY <1>1, <1>4, <1>5, <2>1, <2>2 DEF IInv, TypeOK
<1>7. ReadIsExact' /\ VerdictIsRight'
  BY <1>1, <1>2, <1>5, VerdictsStand DEF IInv, ResultSettled
<1>8. InStep'
  <2>1. SUFFICES ASSUME pc' = "upload" PROVE InStep'
    BY DEF InStep
  <2>2. block' = 0 /\ total' = 0 /\ Rewind /\ size \in Nat /\ attempt' = attempt
    BY <1>1, <2>1, SizesAssumption DEF IInv, TypeOK
  <2>3. /\ op = "read" => Len(file) <= attempt /\ at <= Len(file)
        /\ op = "verify" => size > 0
        /\ Len(file) \in Nat
    BY <1>1 DEF IInv, FreshAttempt, TypeOK
  <2>4. Bytes(0) = 0
    BY BytesAssumption DEF Bytes
  <2>5. ~Reaches(0)
    BY <2>2, <2>4 DEF Reaches
  <2>6. at' = 0 \/ (at' = at /\ unseen' = TRUE)
    BY <2>2 DEF Rewind
  <2>7. op = "read" => (~unseen' => FileInStep')
    BY <1>1, <2>2, <2>3, <2>6 DEF FileInStep
  <2>8. op = "verify" => ImageInStep'
    BY <1>1, <2>2, <2>3, <2>4 DEF ImageInStep, Bytes
  <2>9. ~Reaches(0)'
    BY <1>1, <2>5 DEF Reaches, Bytes
  <2>10. Reaches(total)' = Reaches(0)'
    BY <2>2 DEF Reaches
  <2>11. op = "read" => Len(file') <= attempt' /\ at' <= Len(file')
    BY <1>1, <2>2, <2>3, <2>6
  <2>12. QED BY <1>1, <2>2, <2>7, <2>8, <2>9, <2>10, <2>11 DEF InStep
<1>9. QED
  BY <1>1, <1>2, <1>5, <1>6, <1>7, <1>8
     DEF IInv, OnTarget, ResultSettled, FreshAttempt, ReadyToClose

-----------------------------------------------------------------------------
(* Bytes.                                                                  *)

\* One block more is BlockBytes bytes more, and more blocks are at least as many bytes.
LEMMA BytesGrow ==
  ASSUME NEW m \in Nat, NEW n \in Nat
  PROVE  /\ Bytes(m) \in Nat /\ Bytes(m + 1) = Bytes(m) + BlockBytes
         /\ m < n => Bytes(m) + BlockBytes <= Bytes(n)
<1>1. BlockBytes \in Nat \ {0}
  BY BytesAssumption
<1>2. ASSUME NEW k \in Nat PROVE k * BlockBytes \in Nat
  BY <1>1
<1>3. ASSUME NEW k \in Nat, NEW j \in Nat PROVE (k + j) * BlockBytes = k * BlockBytes + j * BlockBytes
  BY <1>1
<1>4. Bytes(m + 1) = Bytes(m) + BlockBytes
  BY <1>1, <1>3 DEF Bytes
<1>5. ASSUME m < n PROVE Bytes(m) + BlockBytes <= Bytes(n)
  <2>1. n - (m + 1) \in Nat /\ n = (m + 1) + (n - (m + 1))
    BY <1>5
  <2>2. n * BlockBytes = (m + 1) * BlockBytes + (n - (m + 1)) * BlockBytes
    BY <1>3, <2>1
  <2>3. (n - (m + 1)) * BlockBytes \in Nat /\ (m + 1) * BlockBytes \in Nat
    BY <1>2, <2>1
  <2>4. (m + 1) * BlockBytes = m * BlockBytes + BlockBytes /\ m * BlockBytes \in Nat
    BY <1>2, <1>4 DEF Bytes
  <2>5. QED BY <1>1, <2>2, <2>3, <2>4 DEF Bytes
<1>6. QED BY <1>2, <1>4, <1>5 DEF Bytes

\* A length that n blocks do not reach is not reached by one less.
LEMMA ReachesGrows ==
  ASSUME NEW n \in Nat, n > 0, size \in Nat, ~Reaches(n)
  PROVE  ~Reaches(n - 1)
<1>1. Bytes(n - 1) + BlockBytes <= Bytes(n) /\ Bytes(n - 1) \in Nat /\ Bytes(n) \in Nat
  BY BytesGrow
<1>2. QED BY <1>1, BytesAssumption DEF Reaches

\* Blocks agree in none to all of their bytes.
LEMMA AgreeIs ==
  ASSUME NEW v, NEW i
  PROVE  Agree(v, i) \in 0 .. BlockBytes
BY BytesAssumption DEF Agree

\* With the blocks before n all in the flash, and the first same bytes of block n, so are
\* all bytes before that offset.
LEMMA MatchesUpTo ==
  ASSUME NEW n \in Nat, NEW same \in 0 .. BlockBytes,
         \A i \in 0 .. n - 1, r \in 0 .. BlockBytes - 1 : Matches(i, r),
         \A r \in 0 .. same - 1 : Matches(n, r)
  PROVE  MatchesBelow(Bytes(n) + same)
<1> SUFFICES ASSUME NEW i \in 0 .. Bytes(n) + same, NEW r \in 0 .. BlockBytes - 1,
                    Bytes(i) + r < Bytes(n) + same
             PROVE  Matches(i, r)
  BY DEF MatchesBelow
<1>1. BlockBytes \in Nat \ {0} /\ Bytes(n) \in Nat
  BY BytesAssumption, BytesGrow
<1>2. i \in Nat /\ r \in Nat
  BY <1>1
<1>3. Bytes(i) \in Nat /\ (n < i => Bytes(n) + BlockBytes <= Bytes(i))
  BY <1>2, BytesGrow
<1>4. ~(n < i)
  BY <1>1, <1>2, <1>3
<1>5. CASE i = n
  <2>1. r \in 0 .. same - 1
    BY <1>1, <1>2, <1>5
  <2>2. QED BY <1>5, <2>1
<1>6. CASE i \in 0 .. n - 1
  BY <1>6
<1>7. QED BY <1>2, <1>4, <1>5, <1>6

-----------------------------------------------------------------------------
(* The blocks.                                                             *)

\* What a step of the upload leaves alone, and what it may do to the rest: go on to the
\* next block, begin a second attempt at the first one, close the file, or end.
Kept == UNCHANGED <<target, run, polls, fails, crashes, op, size, unseen>>

SecondAttempt ==
  /\ pc' = "idle" /\ tries' = 0 /\ fix' = "none" /\ attempt' = 1
  /\ total = 0 /\ attempt = 0
  /\ UNCHANGED <<result, block, total, mismatch>>

GoesOn ==
  /\ Advance
  /\ UNCHANGED <<mismatch, attempt, tries, fix>>

Closes ==
  /\ pc' = "close" /\ op = "read"
  /\ UNCHANGED <<result, block, total, mismatch, attempt, tries, fix>>

Ends ==
  /\ pc' \in {"recover", "done"} /\ result' \in Results
  /\ UNCHANGED <<attempt, tries, fix, block, total>>

\* The facts at the start of such a step.
LEMMA AtBlock ==
  ASSUME MediumFits, IInv, pc = "upload"
  PROVE  /\ curAlt = target /\ target \in Alts /\ result = "NONE" /\ size \in Nat
         /\ total \in 0 .. FlashBlocks /\ block = total /\ (total # 0 => pos[curAlt] = total)
         /\ FlashBlocks \in Nat \ {0} /\ BlockModulus \in Nat /\ FlashBlocks < BlockModulus
         /\ file \in Seq(Int) /\ at \in Nat /\ unseen \in BOOLEAN /\ attempt \in {0, 1}
         /\ op \in {"read", "verify"} /\ mismatch \in Nat \union {None}
         /\ \A i \in 0 .. FlashBlocks - 1 : flash[target][i] \in Values
BY SizeAssumption, SizesAssumption
   DEF MediumFits, IInv, AtRest, OnTarget, ResultSettled, InStep, TypeOK, LinkTypeOK

\* What BlockFailed may do, where block and total agree.
LEMMA BlockFailedIs ==
  ASSUME MediumFits, IInv, pc = "upload", NEW err \in {"TRANSFER_FAILED", "FILE_IO"},
         BlockFailed(err), UNCHANGED <<block, total, mismatch>>
  PROVE  SecondAttempt \/ (Ends /\ result' = err)
<1>1. block = total /\ attempt \in {0, 1}
  BY AtBlock
<1>2. QED BY <1>1 DEF BlockFailed, Fail, BeginIdle, SecondAttempt, Ends, Results, Recoverable

\* A step that ends an attempt, or with a verdict the call, keeps the invariant.
LEMMA EndKeeps ==
  ASSUME MediumFits, IInv, pc = "upload", Kept, AtRest', WiresOK',
         UNCHANGED <<curAlt, flash>>, file' \in Seq(Int), at' \in Nat,
         mismatch' \in Nat \union {None},
         \/ SecondAttempt /\ (op = "read" => Len(file') <= 1 /\ at' <= Len(file'))
         \/ Closes /\ (~unseen => FileIsExact')
         \/ Ends /\ ReadIsExact' /\ VerdictIsRight'
  PROVE  IInv'
<1>1. GadgetTypeOK'
  BY RestIsTypedAfter
<1>2. TypeOK'
  <2>1. LinkTypeOK'
    BY LinkAssumption DEF IInv, TypeOK, LinkTypeOK, Kept, SecondAttempt, Closes, Ends
  <2>2. /\ pc' \in {"idle", "close", "recover", "done"} /\ attempt' \in {0, 1}
        /\ UNCHANGED <<block, total, op, size, unseen>>
    BY AtBlock DEF Kept, SecondAttempt, Closes, Ends
  <2>3. QED BY <1>1, <2>1, <2>2 DEF IInv, TypeOK
<1>3. result = "NONE"
  BY AtBlock
<1>4. CASE SecondAttempt /\ (op = "read" => Len(file') <= 1 /\ at' <= Len(file'))
  <2>1. ReadIsExact' /\ VerdictIsRight'
    BY <1>3, <1>4 DEF SecondAttempt, ReadIsExact, VerdictIsRight
  <2>2. op = "verify" => size > 0
    <3>1. total \in Nat /\ size \in Nat
      BY AtBlock
    <3>2. Bytes(total) \in Nat
      BY <3>1, BytesGrow
    <3>3. op = "verify" => size > Bytes(total)
      BY DEF IInv, InStep, ImageInStep
    <3>4. QED BY <3>1, <3>2, <3>3
  <2>3. FreshAttempt'
    BY <1>4, <2>2, LinkAssumption DEF FreshAttempt, Kept, SecondAttempt
  <2>4. QED
    BY <1>2, <1>3, <1>4, <2>1, <2>3
       DEF IInv, OnTarget, ResultSettled, InStep, ReadyToClose, Kept, SecondAttempt
<1>5. CASE Closes /\ (~unseen => FileIsExact')
  <2>1. ReadIsExact' /\ VerdictIsRight'
    BY <1>3, <1>5 DEF Closes, ReadIsExact, VerdictIsRight
  <2>2. QED
    BY <1>2, <1>3, <1>5, <2>1
       DEF IInv, OnTarget, ResultSettled, FreshAttempt, InStep, ReadyToClose, Kept, Closes
<1>6. CASE Ends /\ ReadIsExact' /\ VerdictIsRight'
  BY <1>2, <1>6 DEF IInv, OnTarget, ResultSettled, FreshAttempt, InStep, ReadyToClose, Ends
<1>7. QED BY <1>4, <1>5, <1>6

\* A step that takes a whole block and goes on keeps the invariant.
LEMMA GoesOnKeeps ==
  ASSUME MediumFits, IInv, pc = "upload", Kept, AtRest', WiresOK',
         UNCHANGED <<curAlt, flash>>, GoesOn, total < FlashBlocks, pos'[target] = total + 1,
         file' \in Seq(Int), at' \in Nat,
         op = "read" => ~Reaches(total + 1) /\ (~unseen => FileInStep'),
         op = "verify" => ImageInStep'
  PROVE  IInv'
<1>1. GadgetTypeOK'
  BY RestIsTypedAfter
<1>2. block' = total + 1 /\ total' = total + 1 /\ total + 1 \in 1 .. FlashBlocks
      /\ block' \in 0 .. BlockModulus - 1
  <2>1. /\ total + 1 \in Nat /\ BlockModulus \in Nat \ {0} /\ total + 1 < BlockModulus
        /\ block = total /\ FlashBlocks \in Nat
    BY AtBlock
  <2>2. (total + 1) % BlockModulus = total + 1
    BY <2>1, SmallModulo
  <2>3. total + 1 \in 1 .. FlashBlocks /\ total + 1 \in 0 .. BlockModulus - 1
    BY <2>1, AtBlock
  <2>4. block' = (block + 1) % BlockModulus /\ total' = total + 1
    BY DEF GoesOn, Advance
  <2>5. QED BY <2>1, <2>2, <2>3, <2>4
<1>3. TypeOK'
  <2>1. LinkTypeOK'
    BY DEF IInv, TypeOK, LinkTypeOK, Kept, GoesOn, Advance
  <2>2. QED BY <1>1, <1>2, <2>1 DEF IInv, TypeOK, Kept, GoesOn, Advance
<1>4. result' = "NONE" /\ pc' = "upload"
  BY AtBlock DEF GoesOn, Advance
<1>5. ReadIsExact' /\ VerdictIsRight'
  BY <1>4 DEF ReadIsExact, VerdictIsRight
<1>6. InStep'
  <2>1. UNCHANGED <<op, size, unseen, target>> /\ total' # 0
    BY <1>2 DEF Kept
  <2>2. Reaches(total)' = Reaches(total + 1)
    BY <1>2, <2>1 DEF Reaches, Bytes
  <2>3. QED BY <1>2, <2>1, <2>2 DEF InStep
<1>7. QED
  BY <1>3, <1>4, <1>5, <1>6
     DEF IInv, OnTarget, ResultSettled, FreshAttempt, ReadyToClose, Kept

\* A block written after those that came before it, or over a piece of itself.
LEMMA WriteInStep ==
  ASSUME file \in Seq(Int), attempt \in {0, 1}, total \in Nat, FileInStep,
         flash[target][total] \in Int, Write(flash[target][total])
  PROVE  /\ file' \in Seq(Int) /\ Len(file') = total + 1 /\ at' = total + 1
         /\ \A i \in 1 .. total + 1 : file'[i] = flash[target][i - 1]
<1>1. /\ at = total /\ Len(file) \in Nat
      /\ Len(file) = total \/ (total = 0 /\ Len(file) = 1)
      /\ \A i \in 1 .. total : file[i] = flash[target][i - 1]
  <2>1. Len(file) \in Nat /\ (attempt = 0 \/ attempt = 1)
    OBVIOUS
  <2>2. Len(file) = total \/ (total = 0 /\ Len(file) <= attempt)
    BY DEF FileInStep
  <2>3. Len(file) = total \/ (total = 0 /\ Len(file) = 1)
    <3>1. CASE total = 0 /\ Len(file) <= attempt
      <4>1. attempt <= 1 /\ attempt \in Nat
        BY <2>1
      <4>2. \A n, k \in Nat : n <= k /\ k <= 1 => n = 0 \/ n = 1
        OBVIOUS
      <4>3. Len(file) = 0 \/ Len(file) = 1
        BY <2>1, <3>1, <4>1, <4>2
      <4>4. QED BY <3>1, <4>3
    <3>2. QED BY <2>2, <3>1
  <2>4. QED BY <2>1, <2>3 DEF FileInStep
<1>2. CASE Len(file) = total
  <2>1. file' = Append(file, flash[target][total]) /\ at' = total + 1
    BY <1>1, <1>2 DEF Write
  <2>2. QED BY <1>1, <1>2, <2>1
<1>3. CASE total = 0 /\ Len(file) = 1
  <2>1. file' = [file EXCEPT ![1] = flash[target][0]] /\ at' = 1
    BY <1>1, <1>3 DEF Write
  <2>2. file' \in Seq(Int) /\ Len(file') = 1 /\ file'[1] = flash[target][0]
    <3>1. flash[target][0] \in Int /\ 1 \in 1 .. Len(file) /\ file \in Seq(Int)
      BY <1>3
    <3>2. [file EXCEPT ![1] = flash[target][0]] \in Seq(Int)
      BY <3>1
    <3>3. Len([file EXCEPT ![1] = flash[target][0]]) = Len(file)
      BY <3>1
    <3>4. file'[1] = flash[target][0]
      BY <2>1, <3>1
    <3>5. QED BY <1>3, <2>1, <3>2, <3>3, <3>4
  <2>3. QED BY <1>3, <2>1, <2>2
<1>4. QED BY <1>1, <1>2, <1>3

\* Writing keeps the file a file.
LEMMA WriteTyped ==
  ASSUME file \in Seq(Int), at \in Nat, NEW data \in Int, Write(data)
  PROVE  file' \in Seq(Int) /\ at' \in Nat
<1>1. CASE at < Len(file)
  <2>1. file' = [file EXCEPT ![at + 1] = data]
    BY <1>1 DEF Write
  <2>2. QED BY <1>1, <2>1 DEF Write
<1>2. CASE ~(at < Len(file))
  BY <1>2 DEF Write
<1>3. QED BY <1>1, <1>2

\* read's block: written, refused, or the end of the medium.
LEMMA ReadBlockKeeps == MediumFits /\ IInv /\ ReadBlock => IInv'
<1> SUFFICES ASSUME MediumFits, IInv, ReadBlock PROVE IInv'
  OBVIOUS
<1>0. pc = "upload" /\ op = "read" /\ Kept /\ mismatch' = mismatch
  BY DEF ReadBlock, Kept
<1>1. PICK got :
        /\ Upload(block, got)
        /\ \/ /\ got = Refused
              /\ BlockFailed("TRANSFER_FAILED")
              /\ UNCHANGED <<block, total, file, at>>
           \/ /\ got # Refused
              /\ IF got = EndOfMedium THEN UNCHANGED <<file, at>> ELSE Write(got)
              /\ IF BytesOf(got) < BlockBytes \/ Reaches(total + 1)
                   THEN pc' = "close" /\ UNCHANGED <<block, total, result>>
                   ELSE Advance
              /\ UNCHANGED <<tries, fix, attempt>>
  BY DEF ReadBlock
<1>2. AtRest' /\ UNCHANGED <<curAlt, flash>> /\ Brings(total, got)
  BY <1>0, <1>1, AtBlock, UploadKeeps DEF IInv
<1>3. WiresOK'
  BY <1>1 DEF Upload, Lost, IInv, TypeOK, GadgetTypeOK, WiresOK
<1>4. /\ ~Reaches(total) /\ (~unseen => FileInStep)
      /\ total = 0 => Len(file) <= attempt /\ at <= Len(file)
  BY <1>0 DEF IInv, InStep
<1>5. /\ UNCHANGED <<target, size, unseen>> /\ total \in Nat /\ size \in Nat
      /\ curAlt = target /\ FlashBlocks \in Nat \ {0}
  BY <1>0, AtBlock DEF Kept
<1>6. CASE got = Refused
  <2>1. SecondAttempt \/ (Ends /\ result' = "TRANSFER_FAILED")
    BY <1>0, <1>1, <1>6, BlockFailedIs
  <2>2. result' = "TRANSFER_FAILED" => ReadIsExact' /\ VerdictIsRight'
    BY DEF ReadIsExact, VerdictIsRight
  <2>3. UNCHANGED <<file, at>>
    BY <1>1, <1>6
  <2>4. SecondAttempt => Len(file') <= 1 /\ at' <= Len(file')
    BY <1>4, <2>3 DEF SecondAttempt
  <2>5. QED BY <1>0, <1>2, <1>3, <2>1, <2>2, <2>3, <2>4, AtBlock, EndKeeps
<1>7. CASE got = EndOfMedium
  <2>1. total = FlashBlocks
    <3>1. total < FlashBlocks => flash[target][total] \in Values
      BY <1>0, AtBlock
    <3>2. EndOfMedium \notin Values /\ got # Refused
      BY <1>7 DEF Values
    <3>3. QED BY <1>2, <1>5, <1>7, <3>1, <3>2 DEF Brings
  <2>2. UNCHANGED <<file, at>> /\ Closes
    BY <1>0, <1>1, <1>7, BytesAssumption DEF BytesOf, Closes
  <2>3. ~Reaches(total - 1)
    BY <1>4, <1>5, <2>1, ReachesGrows
  <2>4. ASSUME ~unseen PROVE FileIsExact'
    <3>1. Len(file) = total /\ \A i \in 1 .. total : file[i] = flash[target][i - 1]
      BY <1>4, <1>5, <2>1, <2>4 DEF FileInStep
    <3>2. FileIsExact
      BY <1>5, <2>1, <2>3, <3>1 DEF FileIsExact, StopsAt
    <3>3. QED BY <1>2, <1>5, <2>2, <3>2 DEF FileIsExact, StopsAt, Reaches
  <2>5. QED BY <1>0, <1>2, <1>3, <2>2, <2>4, AtBlock, EndKeeps
<1>8. CASE got \notin {Refused, EndOfMedium}
  <2>1. /\ total < FlashBlocks /\ got = flash[target][total]
        /\ BytesOf(got) = BytesIn(target, total)
        /\ BytesIn(target, total) = BlockBytes => pos'[target] = total + 1
    BY <1>2, <1>5, <1>8 DEF Brings
  <2>2. got \in Int /\ Write(got) /\ UNCHANGED <<tries, fix, attempt>>
    <3>1. flash[target][total] \in Values
      BY <1>0, <1>5, <2>1, AtBlock
    <3>2. QED BY <1>1, <1>8, <2>1, <3>1 DEF Values
  <2>3. file' \in Seq(Int) /\ at' \in Nat
    BY <1>0, <2>2, AtBlock, WriteTyped
  <2>4. ASSUME ~unseen
        PROVE  /\ Len(file') = total + 1 /\ at' = total + 1
               /\ \A i \in 1 .. total + 1 : file'[i] = flash[target][i - 1]
    BY <1>0, <1>4, <1>5, <2>1, <2>2, <2>4, AtBlock, WriteInStep
  <2>5. CASE BytesOf(got) < BlockBytes \/ Reaches(total + 1)
    <3>1. Closes
      BY <1>0, <1>1, <1>8, <2>5 DEF Closes
    <3>2. total + 1 = FlashBlocks \/ Reaches(total + 1)
      <4>1. BlockBytes \in Nat
        BY BytesAssumption
      <4>2. BytesIn(target, total) < BlockBytes => total = FlashBlocks - 1
        BY <4>1 DEF BytesIn
      <4>3. QED BY <1>5, <2>1, <2>5, <4>2
    <3>3. StopsAt(total + 1)
      BY <1>4, <1>5, <2>1, <3>2 DEF StopsAt
    <3>4. ASSUME ~unseen PROVE FileIsExact'
      <4>1. StopsAt(total + 1)'
        BY <1>5, <3>1, <3>3 DEF StopsAt, Reaches, Bytes, Closes
      <4>2. total' = total
        BY <3>1 DEF Closes
      <4>3. StopsAt(Len(file))'
        BY <2>4, <3>4, <4>1, <4>2 DEF StopsAt, Reaches
      <4>4. QED BY <1>2, <1>5, <2>4, <3>4, <4>3 DEF FileIsExact
    <3>5. QED BY <1>0, <1>2, <1>3, <2>3, <3>1, <3>4, AtBlock, EndKeeps
  <2>6. CASE ~(BytesOf(got) < BlockBytes \/ Reaches(total + 1))
    <3>1. GoesOn
      BY <1>0, <1>1, <1>8, <2>2, <2>6 DEF GoesOn
    <3>2. pos'[target] = total + 1
      BY <1>0, <2>1, <2>6, AtBlock, BytesInIs
    <3>3. ASSUME ~unseen PROVE FileInStep'
      <4>1. total' = total + 1 /\ attempt' = attempt
        BY <3>1 DEF GoesOn, Advance
      <4>2. QED BY <1>2, <1>5, <2>4, <3>3, <4>1 DEF FileInStep
    <3>4. QED BY <1>0, <1>2, <1>3, <2>1, <2>3, <2>6, <3>1, <3>2, <3>3, GoesOnKeeps
  <2>7. QED BY <2>5, <2>6
<1>9. QED BY <1>6, <1>7, <1>8

\* A block that came but could not be written.
LEMMA ReadBlockUnwrittenKeeps == MediumFits /\ IInv /\ ReadBlockUnwritten => IInv'
<1> SUFFICES ASSUME MediumFits, IInv, ReadBlockUnwritten PROVE IInv'
  OBVIOUS
<1>1. /\ pc = "upload" /\ op = "read" /\ Kept /\ UNCHANGED <<block, total, mismatch>>
      /\ BlockFailed("FILE_IO")
      /\ Write(Piece) \/ UNCHANGED <<file, at>>
  BY DEF ReadBlockUnwritten, Kept
<1>2. PICK got : UploadBlock(block, got)
  BY DEF ReadBlockUnwritten
<1>3. AtRest' /\ UNCHANGED <<curAlt, flash>>
  BY <1>1, <1>2, AtBlock, UploadBlockKeeps DEF IInv
<1>4. WiresOK'
  BY DEF ReadBlockUnwritten, IInv, TypeOK, GadgetTypeOK, WiresOK
<1>5. SecondAttempt \/ (Ends /\ result' = "FILE_IO")
  BY <1>1, BlockFailedIs
<1>6. result' = "FILE_IO" => ReadIsExact' /\ VerdictIsRight'
  BY DEF ReadIsExact, VerdictIsRight
<1>7. file' \in Seq(Int) /\ at' \in Nat
  BY <1>1, AtBlock, WriteTyped DEF Piece
<1>8. ASSUME SecondAttempt PROVE Len(file') <= 1 /\ at' <= Len(file')
  <2>1. file = << >> /\ at = 0
    <3>1. Len(file) <= 0 /\ at <= Len(file) /\ file \in Seq(Int) /\ at \in Nat
      BY <1>1, <1>8, AtBlock DEF IInv, InStep, SecondAttempt
    <3>2. QED BY <3>1
  <2>2. CASE Write(Piece)
    <3>1. file' = <<Piece>> /\ at' = 1
      BY <2>1, <2>2 DEF Write
    <3>2. QED BY <3>1
  <2>3. CASE UNCHANGED <<file, at>>
    BY <2>1, <2>3
  <2>4. QED BY <1>1, <2>2, <2>3
<1>9. QED BY <1>1, <1>3, <1>4, <1>5, <1>6, <1>7, <1>8, AtBlock, EndKeeps

\* Closing the file ends the call; what closing loses is not what the code looks at.
LEMMA CloseFileKeeps == MediumFits /\ IInv /\ CloseFile => IInv'
<1> SUFFICES ASSUME MediumFits, IInv, CloseFile PROVE IInv'
  OBVIOUS
<1>1. /\ pc = "close" /\ pc' = "done" /\ result' = "SUCCESS"
      /\ UNCHANGED <<dfuState, curAlt, pos, buf, flash, wedged, keepsTxn>>
      /\ UNCHANGED <<target, run, loopVars, crashes, op, size, mismatch>>
      /\ block' = 0 /\ total' = 0 /\ attempt' = 0 /\ at' = 0
  BY DEF CloseFile, Succeed
<1>2. \/ UNCHANGED <<file, unseen>> /\ faulty' = faulty
      \/ (\E kept \in 0 .. Len(file) - 1 : file' = SubSeq(file, 1, kept)) /\ unseen' = TRUE
         /\ faulty' = TRUE
  BY DEF CloseFile
<1>3. AtRest'
  BY <1>1 DEF IInv, AtRest
<1>4. WiresOK'
  BY <1>1, <1>2 DEF IInv, TypeOK, GadgetTypeOK, WiresOK
<1>5. GadgetTypeOK'
  BY <1>3, <1>4, RestIsTypedAfter
<1>6. file' \in Seq(Int) /\ unseen' \in BOOLEAN
  <2>1. file \in Seq(Int) /\ unseen \in BOOLEAN
    BY DEF IInv, TypeOK
  <2>2. ASSUME NEW kept \in 0 .. Len(file) - 1 PROVE SubSeq(file, 1, kept) \in Seq(Int)
    <3>1. kept \in Nat /\ kept <= Len(file) /\ Len(file) \in Nat
      BY <2>1
    <3>2. \A i \in 1 .. kept : file[i] \in Int
      BY <2>1, <3>1
    <3>3. QED BY <2>1, <3>1, <3>2
  <2>3. QED BY <1>2, <2>1, <2>2
<1>7. LinkTypeOK'
  BY <1>1 DEF IInv, TypeOK, LinkTypeOK, Results
<1>8. TypeOK'
  <2>1. 0 \in 0 .. BlockModulus - 1 /\ 0 \in 0 .. FlashBlocks
    BY SizeAssumption
  <2>2. QED BY <1>1, <1>5, <1>6, <1>7, <2>1 DEF IInv, TypeOK
<1>9. ReadIsExact' /\ VerdictIsRight'
  <2>1. op = "read" /\ (~unseen => FileIsExact)
    BY <1>1 DEF IInv, ReadyToClose
  <2>2. CASE UNCHANGED <<file, unseen>>
    <3>1. ~unseen => FileIsExact'
      BY <1>1, <2>1, <2>2 DEF FileIsExact, StopsAt, Reaches
    <3>2. QED BY <1>1, <2>1, <2>2, <3>1 DEF ReadIsExact, VerdictIsRight
  <2>3. CASE unseen' = TRUE
    BY <1>1, <2>1, <2>3 DEF ReadIsExact, VerdictIsRight
  <2>4. QED BY <1>2, <2>2, <2>3
<1>10. QED
  BY <1>1, <1>3, <1>8, <1>9
     DEF IInv, OnTarget, ResultSettled, FreshAttempt, InStep, ReadyToClose

\* verify's block: compared as far as the image goes.
LEMMA VerifyBlockKeeps == MediumFits /\ IInv /\ VerifyBlock => IInv'
<1> SUFFICES ASSUME MediumFits, IInv, VerifyBlock PROVE IInv'
  OBVIOUS
<1>0. pc = "upload" /\ op = "verify" /\ Kept /\ UNCHANGED <<file, at>>
  BY DEF VerifyBlock, Kept, fileVars
<1> DEFINE Cmp(got)  == Lesser(BytesOf(got), size - Bytes(total))
           Same(got) == Lesser(Agree(got, total), Cmp(got))
<1>1. PICK got :
        /\ Upload(block, got)
        /\ \/ /\ got = Refused
              /\ BlockFailed("TRANSFER_FAILED")
              /\ UNCHANGED <<block, total, mismatch>>
           \/ /\ got # Refused
              /\ Same(got) < Cmp(got) \/ EndsEarly(got, Bytes(total) + Same(got))
              /\ Differs(Bytes(total) + Same(got))
              /\ UNCHANGED <<tries, fix, attempt, block, total>>
           \/ /\ got # Refused
              /\ Same(got) = Cmp(got) /\ ~EndsEarly(got, Bytes(total) + Same(got))
              /\ IF Bytes(total) + Same(got) = size THEN Succeed /\ UNCHANGED <<block, total>>
                                                    ELSE Advance
              /\ UNCHANGED <<tries, fix, attempt, mismatch>>
  BY DEF VerifyBlock
<1>2. AtRest' /\ UNCHANGED <<curAlt, flash>> /\ Brings(total, got)
  BY <1>0, <1>1, AtBlock, UploadKeeps DEF IInv
<1>3. WiresOK'
  BY <1>1 DEF Upload, Lost, IInv, TypeOK, GadgetTypeOK, WiresOK
<1>4. /\ total \in Nat /\ size \in Nat /\ curAlt = target /\ target \in Alts
      /\ FlashBlocks \in Nat \ {0}
      /\ UNCHANGED <<target, size, op>> /\ total <= FlashBlocks
      /\ Bytes(total) \in Nat /\ Bytes(total) < size
      /\ \A i \in 0 .. total - 1, r \in 0 .. BlockBytes - 1 : Matches(i, r)
  <2>1. size > Bytes(total) /\ \A i \in 0 .. total - 1, r \in 0 .. BlockBytes - 1 : Matches(i, r)
    BY <1>0 DEF IInv, InStep, ImageInStep
  <2>2. total \in Nat /\ Bytes(total) \in Nat
    BY <1>0, AtBlock, BytesGrow
  <2>3. QED BY <1>0, <2>1, <2>2, AtBlock DEF Kept
<1>5. CASE got = Refused
  <2>1. BlockFailed("TRANSFER_FAILED") /\ UNCHANGED <<block, total, mismatch>>
    BY <1>1, <1>5
  <2>2. SecondAttempt \/ (Ends /\ result' = "TRANSFER_FAILED")
    BY <1>0, <2>1, BlockFailedIs
  <2>3. result' = "TRANSFER_FAILED" => ReadIsExact' /\ VerdictIsRight'
    BY DEF ReadIsExact, VerdictIsRight
  <2>4. QED BY <1>0, <1>2, <1>3, <2>1, <2>2, <2>3, AtBlock, EndKeeps
<1>6. CASE got # Refused
  <2> DEFINE n    == BytesOf(got)
             cmp  == Cmp(got)
             same == Same(got)
             seen == Bytes(total) + same
             a    == Agree(got, total)
  <2>1. /\ BlockBytes \in Nat \ {0} /\ a \in 0 .. BlockBytes
        /\ \/ got = EndOfMedium /\ total = FlashBlocks /\ n = 0
           \/ /\ total < FlashBlocks /\ got = flash[target][total]
              /\ n = BytesIn(target, total) /\ n \in 1 .. BlockBytes
              /\ n = BlockBytes => pos'[target] = total + 1
    <3>1. BlockBytes \in Nat \ {0} /\ a \in 0 .. BlockBytes
          /\ BytesIn(target, total) \in 1 .. BlockBytes
      BY <1>4, BytesInIs, AgreeIs
    <3>2. CASE got = EndOfMedium /\ total = FlashBlocks
      BY <3>1, <3>2 DEF BytesOf
    <3>3. CASE /\ total < FlashBlocks /\ got = flash[curAlt][total]
               /\ BytesOf(got) = BytesIn(curAlt, total)
               /\ BytesIn(curAlt, total) = BlockBytes => pos'[curAlt] = total + 1
      BY <1>4, <3>1, <3>3
    <3>4. QED BY <1>2, <1>6, <3>2, <3>3 DEF Brings
  <2>2. /\ n \in 0 .. BlockBytes
        /\ cmp = IF n < size - Bytes(total) THEN n ELSE size - Bytes(total)
        /\ same = IF a < cmp THEN a ELSE cmp
    BY <2>1 DEF Lesser
  <2>3. \A r \in 0 .. BlockBytes - 1 :
          Matches(total, r) <=> total < FlashBlocks /\ r < n /\ r < a
    <3>1. CASE total < FlashBlocks /\ got = flash[target][total] /\ n = BytesIn(target, total)
      BY <3>1 DEF Matches
    <3>2. CASE total = FlashBlocks
      BY <1>4, <3>2 DEF Matches
    <3>3. QED BY <2>1, <3>1, <3>2
  <2>4. /\ \/ /\ same < cmp \/ EndsEarly(got, seen)
              /\ Differs(seen)
              /\ UNCHANGED <<tries, fix, attempt, block, total>>
           \/ /\ same = cmp /\ ~EndsEarly(got, seen)
              /\ IF seen = size THEN Succeed /\ UNCHANGED <<block, total>> ELSE Advance
              /\ UNCHANGED <<tries, fix, attempt, mismatch>>
        /\ EndsEarly(got, seen) <=> n < BlockBytes /\ seen < size
    BY <1>1, <1>6 DEF EndsEarly
  <2> HIDE DEF Cmp, Same, n, cmp, same, a
  <2>5. /\ same \in 0 .. BlockBytes /\ same <= a /\ same <= n /\ same <= cmp /\ seen <= size
        /\ same < cmp => same = a /\ seen < size
        /\ same = cmp => seen = size \/ same = n
        /\ cmp \in Nat /\ n \in Nat /\ a \in Nat /\ seen \in Nat
    BY <1>4, <2>1, <2>2
  <2>6. \A r \in 0 .. same - 1 : Matches(total, r)
    <3>1. same > 0 => total < FlashBlocks
      BY <2>1, <2>5
    <3>2. QED BY <2>1, <2>3, <2>5, <3>1
  <2>7. MatchesBelow(seen)
    BY <1>4, <2>5, <2>6, MatchesUpTo
  <2>8. CASE /\ same < cmp \/ EndsEarly(got, seen)
             /\ Differs(seen)
             /\ UNCHANGED <<tries, fix, attempt, block, total>>
    <3>1. seen < size /\ (same = a \/ same = n) /\ same < BlockBytes
      BY <2>1, <2>2, <2>4, <2>5, <2>8
    <3>2. same \in 0 .. BlockBytes - 1 /\ total \in 0 .. FlashBlocks
      BY <1>4, <2>1, <2>5, <3>1
    <3>3. ~Matches(total, same)
      BY <2>3, <2>5, <3>1, <3>2
    <3>4. \E i \in 0 .. FlashBlocks, r \in 0 .. BlockBytes - 1 :
            seen = Bytes(i) + r /\ ~Matches(i, r)
      BY <3>2, <3>3
    <3>5. op' = "verify" /\ result' = "VERIFY" /\ mismatch' = seen /\ pc' = "recover"
      BY <1>0, <1>4, <2>8 DEF Differs
    <3>6. VerdictIsRight'
      BY <1>2, <1>4, <2>7, <3>1, <3>4, <3>5 DEF VerdictIsRight, MatchesBelow, Matches
    <3>7. ReadIsExact' /\ Ends /\ mismatch' \in Nat
      BY <2>5, <2>8, <3>5 DEF ReadIsExact, Ends, Results
    <3>8. QED BY <1>0, <1>2, <1>3, <3>6, <3>7, AtBlock, EndKeeps
  <2>9. CASE /\ same = cmp /\ ~EndsEarly(got, seen) /\ seen = size
             /\ Succeed /\ UNCHANGED <<block, total, tries, fix, attempt, mismatch>>
    <3>1. MatchesBelow(size)
      BY <2>7, <2>9
    <3>2. op' = "verify" /\ result' = "SUCCESS" /\ pc' = "done"
      BY <1>0, <1>4, <2>9 DEF Succeed
    <3>3. VerdictIsRight'
      BY <1>2, <1>4, <3>1, <3>2 DEF VerdictIsRight, MatchesBelow, Matches
    <3>4. ReadIsExact' /\ Ends
      BY <2>9, <3>2 DEF ReadIsExact, Ends, Results
    <3>5. QED BY <1>0, <1>2, <1>3, <2>9, <3>3, <3>4, AtBlock, EndKeeps
  <2>10. CASE /\ same = cmp /\ ~EndsEarly(got, seen) /\ seen # size
              /\ Advance /\ UNCHANGED <<tries, fix, attempt, mismatch>>
    <3>1. same = BlockBytes /\ n = BlockBytes /\ a = BlockBytes /\ seen < size
      <4>1. seen < size /\ same = n
        BY <1>4, <2>5, <2>10
      <4>2. ~(n < BlockBytes)
        BY <2>4, <2>10, <4>1
      <4>3. n = BlockBytes
        BY <2>1, <2>2, <4>2
      <4>4. QED BY <2>1, <2>5, <4>1, <4>3
    <3>2. total < FlashBlocks /\ pos'[target] = total + 1
      BY <2>1, <3>1
    <3>3. GoesOn /\ total' = total + 1
      BY <2>10 DEF GoesOn, Advance
    <3>4. ImageInStep'
      <4>1. Bytes(total + 1) = seen
        BY <1>4, <3>1, BytesGrow
      <4>2. \A i \in 0 .. total, r \in 0 .. BlockBytes - 1 : Matches(i, r)
        <5> TAKE i \in 0 .. total, r \in 0 .. BlockBytes - 1
        <5>1. i = total \/ i \in 0 .. total - 1
          BY <1>4
        <5>2. r \in 0 .. same - 1
          BY <3>1
        <5>3. QED BY <1>4, <2>6, <5>1, <5>2
      <4>3. \A i \in 0 .. total, r \in 0 .. BlockBytes - 1 : Matches(i, r)'
        BY <1>2, <1>4, <4>2 DEF Matches
      <4>4. 0 .. total' - 1 = 0 .. total /\ Bytes(total') = seen
        BY <1>4, <3>3, <4>1
      <4>5. QED BY <1>4, <3>1, <4>3, <4>4 DEF ImageInStep, Bytes
    <3>5. QED BY <1>0, <1>2, <1>3, <1>4, <3>2, <3>3, <3>4, AtBlock, GoesOnKeeps
  <2>11. QED BY <2>4, <2>8, <2>9, <2>10
<1>7. QED BY <1>5, <1>6

-----------------------------------------------------------------------------
(* The end of a call, and the next one.                                    *)

\* A bus reset, or the end of the call.
LEMMA ResetAndRetryKeeps == MediumFits /\ IInv /\ ResetAndRetry => IInv'
<1> SUFFICES ASSUME MediumFits, IInv, ResetAndRetry PROVE IInv'
  OBVIOUS
<1>1. /\ UNCHANGED <<target, loopVars, crashes, op, size, file, unseen, mismatch, pos, buf, flash>>
      /\ block' = 0 /\ total' = 0 /\ attempt' = 0 /\ at' = 0
      /\ curAlt' \in {curAlt, 0} /\ dfuState' \in {dfuState, "dfuIDLE"}
  BY DEF ResetAndRetry, Recover, BusReset
<1>2. /\ run' \in {0, 1}
      /\ \/ pc' = "open" /\ result' = "NONE"
         \/ pc' = "done" /\ result' = result
  BY DEF ResetAndRetry, Recover, IInv, TypeOK, LinkTypeOK
<1>3. AtRest'
  BY <1>1, AltsAssumption DEF IInv, AtRest
<1>4. WiresOK'
  BY DEF ResetAndRetry, Recover, BusReset, IInv, TypeOK, GadgetTypeOK, WiresOK
<1>5. GadgetTypeOK'
  BY <1>3, <1>4, RestIsTypedAfter
<1>6. TypeOK'
  <2>1. 0 \in 0 .. BlockModulus - 1 /\ 0 \in 0 .. FlashBlocks
    BY SizeAssumption
  <2>2. QED BY <1>1, <1>2, <1>5, <2>1 DEF IInv, TypeOK, LinkTypeOK, Results
<1>7. ReadIsExact' /\ VerdictIsRight'
  BY <1>1, <1>2, VerdictsStand DEF IInv
<1>8. QED
  BY <1>2, <1>3, <1>6, <1>7 DEF IInv, OnTarget, ResultSettled, FreshAttempt, InStep, ReadyToClose

\* The next operation starts from nothing but what the device kept.
LEMMA NextOperationKeeps == MediumFits /\ IInv /\ NextOperation => IInv'
<1> SUFFICES ASSUME MediumFits, IInv, NextOperation PROVE IInv'
  OBVIOUS
<1>1. /\ UNCHANGED <<dfuState, curAlt, pos, buf, flash>>
      /\ pc' = "open" /\ run' = 0 /\ result' = "NONE" /\ target' = target
      /\ tries' = 0 /\ fix' = "none" /\ polls' = 0 /\ fails' = 0
      /\ crashes < MaxCrashes /\ crashes' = crashes + 1
      /\ op' \in {"read", "verify"} /\ size' \in Sizes
      /\ block' = 0 /\ total' = 0 /\ attempt' = 0 /\ mismatch' = None
      /\ file' = << >> /\ at' = 0 /\ unseen' = FALSE
  BY DEF NextOperation, Interrupt, Abandoned
<1>2. AtRest'
  BY <1>1 DEF IInv, AtRest
<1>3. WiresOK'
  BY DEF NextOperation, Interrupt, Abandoned, IInv, TypeOK, GadgetTypeOK, WiresOK
<1>4. GadgetTypeOK'
  BY <1>2, <1>3, RestIsTypedAfter
<1>5. LinkTypeOK'
  BY <1>1, LinkAssumption DEF IInv, TypeOK, LinkTypeOK, Results
<1>6. file' \in Seq(Int)
  BY <1>1
<1>7. TypeOK'
  <2>1. 0 \in 0 .. BlockModulus - 1 /\ 0 \in 0 .. FlashBlocks
    BY SizeAssumption
  <2>2. QED BY <1>1, <1>4, <1>5, <1>6, <2>1 DEF TypeOK
<1>8. QED
  BY <1>1, <1>2, <1>7
     DEF IInv, OnTarget, ResultSettled, FreshAttempt, InStep, ReadyToClose, ReadIsExact, VerdictIsRight

\* Every step keeps the invariant.
THEOREM NextKeeps == MediumFits /\ IInv /\ [Next]_vars => IInv'
<1> SUFFICES ASSUME MediumFits, IInv, [Next]_vars PROVE IInv'
  OBVIOUS
<1>1. CASE UNCHANGED vars
  <2>1. UNCHANGED <<gadgetVars, linkVars, opVars>>
    BY <1>1
  <2>2. AtRest' /\ WiresOK'
    BY <2>1 DEF IInv, TypeOK, GadgetTypeOK, AtRest, WiresOK
  <2>3. GadgetTypeOK'
    BY <2>2, RestIsTypedAfter
  <2>4. TypeOK'
    BY <2>1, <2>3 DEF IInv, TypeOK, LinkTypeOK
  <2>5. ReadIsExact' /\ VerdictIsRight'
    BY <2>1, VerdictsStand DEF IInv
  <2>6. FreshAttempt' /\ InStep' /\ ReadyToClose'
    BY <2>1 DEF IInv, FreshAttempt, InStep, ReadyToClose, FileInStep, ImageInStep, FileIsExact,
       StopsAt, Reaches, Matches
  <2>7. QED
    BY <2>1, <2>2, <2>4, <2>5, <2>6 DEF IInv, OnTarget, ResultSettled
<1>2. CASE Next
  BY <1>2, OpenDeviceKeeps, ClaimKeeps, OpenFileKeeps, IdleKeeps, ReadBlockKeeps,
     ReadBlockUnwrittenKeeps, CloseFileKeeps, VerifyBlockKeeps, ResetAndRetryKeeps, NextOperationKeeps
     DEF Next, Host
<1>3. QED BY <1>1, <1>2

\* The invariant holds in every behaviour.
THEOREM Invariance == MediumFits => (Spec => []IInv)
<1> SUFFICES ASSUME MediumFits PROVE Spec => []IInv
  OBVIOUS
<1>1. Init => IInv
  BY InitEstablishes
<1>2. IInv /\ [Next]_vars => IInv'
  BY NextKeeps
<1>3. QED BY <1>1, <1>2, PTL DEF Spec

\* For every interface, medium, length and number of interruptions: a read that reports
\* success has written exactly the alt's contents, as far as the block in which the length
\* asked for ends, unless the disk failed at rewind or fclose, where the code does not look.
THEOREM UploadReadIsExact == MediumFits => (Spec => []ReadIsExact)
<1> SUFFICES ASSUME MediumFits PROVE Spec => []ReadIsExact
  OBVIOUS
<1>1. IInv => ReadIsExact
  BY DEF IInv
<1>2. QED BY <1>1, Invariance, PTL

\* A verify never passes a flash that differs or ends before the image, nor blames the data
\* for anything but its first byte that differs; the image may end in any byte of any block.
THEOREM UploadVerdictIsRight == MediumFits => (Spec => []VerdictIsRight)
<1> SUFFICES ASSUME MediumFits PROVE Spec => []VerdictIsRight
  OBVIOUS
<1>1. IInv => VerdictIsRight
  BY DEF IInv
<1>2. QED BY <1>1, Invariance, PTL

\* Type correctness: every counter of the upload stays within its bounds.
THEOREM UploadTypeOK == MediumFits => (Spec => []TypeOK)
<1> SUFFICES ASSUME MediumFits PROVE Spec => []TypeOK
  OBVIOUS
<1>1. IInv => TypeOK
  BY DEF IInv
<1>2. QED BY <1>1, Invariance, PTL

-----------------------------------------------------------------------------
(* A read or a verify that meets no fault.  What the call relies on while  *)
(* nothing has failed, as in a download.                                   *)

\* The call has its answer: verify's refusal of an empty image, or a difference.
Answered ==
  op = "verify" /\ result = IF size = 0 THEN "INVALID_PARAMETER" ELSE "VERIFY"

\* A hung gadget is met when it is opened, and reset once; otherwise a call ends with its answer.
HangsOnlyAtOpen ==
  /\ wedged => run = 0 /\ pc \in {"open", "recover"}
  /\ pc = "recover" => IF wedged THEN result \in Recoverable ELSE Answered

\* The second attempt finds no transaction open.
SecondAttemptIsFresh ==
  attempt = 1 /\ (pc = "idle" \/ (pc = "upload" /\ total = 0)) => pos[target] = 0

CleanRun ==
  ~faulty =>
    /\ HangsOnlyAtOpen
    /\ pc = "idle" => IdlePath
    /\ SecondAttemptIsFresh
    /\ pc = "upload" => dfuState \in {"dfuIDLE", "dfuUPLOAD_IDLE"}
    /\ pc = "done" => result = "SUCCESS" \/ Answered

\* A clean call is opened on a gadget that answers, or resets the one that does not.
LEMMA OpenDeviceClean == IInv /\ CleanRun /\ OpenDevice => CleanRun'
<1> SUFFICES ASSUME IInv, CleanRun, OpenDevice, ~faulty' PROVE CleanRun'
  BY DEF CleanRun
<1>0. wedged \in BOOLEAN /\ faulty \in BOOLEAN /\ run \in {0, 1}
  BY DEF IInv, TypeOK, GadgetTypeOK, LinkTypeOK
<1>1. /\ pc = "open" /\ run' = run /\ wedged' = wedged
      /\ \/ ~wedged /\ pc' = "claim" /\ faulty' = faulty
         \/ /\ pc' = "recover" /\ result' \in {"DEVICE_NOT_FOUND", "PROTOCOL"}
            /\ faulty' = (faulty \/ ~wedged)
  BY DEF OpenDevice, Open, Fail, gadgetVars
<1>2. ~faulty /\ ((pc' = "claim" /\ ~wedged) \/ (pc' = "recover" /\ wedged))
  BY <1>0, <1>1
<1>3. HangsOnlyAtOpen
  BY <1>2 DEF CleanRun
<1>4. HangsOnlyAtOpen'
  BY <1>0, <1>1, <1>2, <1>3 DEF HangsOnlyAtOpen, Recoverable
<1>5. QED BY <1>2, <1>4 DEF CleanRun, SecondAttemptIsFresh

\* Claiming the alt of a gadget that answers fails only with a fault.
LEMMA ClaimClean == IInv /\ CleanRun /\ Claim => CleanRun'
<1> SUFFICES ASSUME IInv, CleanRun, Claim, ~faulty' PROVE CleanRun'
  BY DEF CleanRun
<1>0. GadgetTypeOK /\ target \in Alts
  BY DEF IInv, TypeOK, LinkTypeOK
<1>1. pc = "claim" /\ run' = run
  BY DEF Claim, ClaimAlt
<1>2. CASE ~NeedsSelect(target) /\ pc' = "load" /\ UNCHANGED gadgetVars
  <2>1. ~faulty /\ ~wedged'
    BY <1>0, <1>1, <1>2 DEF CleanRun, HangsOnlyAtOpen, GadgetTypeOK
  <2>2. QED BY <1>2, <2>1 DEF CleanRun, HangsOnlyAtOpen, SecondAttemptIsFresh
<1>3. CASE SelectAlt(target, TRUE) /\ pc' = "load"
  <2>1. ~faulty /\ ~wedged'
    BY <1>0, <1>3, SelectAltClean
  <2>2. QED BY <1>3, <2>1 DEF CleanRun, HangsOnlyAtOpen, SecondAttemptIsFresh
<1>4. CASE SelectAlt(target, FALSE)
  <2>1. ~faulty /\ wedged
    BY <1>0, <1>4, SelectAltClean
  <2>2. QED BY <1>1, <2>1 DEF CleanRun, HangsOnlyAtOpen
<1>5. QED BY <1>2, <1>3, <1>4 DEF Claim, ClaimAlt

\* The file is ready and making the device idle begins with all its rounds, or verify was
\* given an empty image.
LEMMA OpenFileClean == IdleTries >= 3 /\ IInv /\ CleanRun /\ OpenFile => CleanRun'
<1> SUFFICES ASSUME IdleTries >= 3, IInv, CleanRun, OpenFile, ~faulty' PROVE CleanRun'
  BY DEF CleanRun
<1>1. /\ pc = "load" /\ ~faulty /\ UNCHANGED <<wedged, run, op, size>>
      /\ \/ pc' = "idle" /\ tries' = 0 /\ fix' = "none" /\ attempt' = 0
         \/ pc' = "recover" /\ op = "verify" /\ size = 0 /\ result' = "INVALID_PARAMETER"
  BY DEF OpenFile, BeginIdle, Fail
<1>2. ~wedged'
  BY <1>1 DEF CleanRun, HangsOnlyAtOpen, IInv, TypeOK, GadgetTypeOK
<1>3. CASE pc' = "idle" /\ tries' = 0 /\ fix' = "none" /\ attempt' = 0
  <2>1. IdlePath'
    BY <1>3, IdlePathBegins
  <2>2. QED BY <1>2, <1>3, <2>1 DEF CleanRun, HangsOnlyAtOpen, SecondAttemptIsFresh
<1>4. CASE pc' = "recover" /\ op = "verify" /\ size = 0 /\ result' = "INVALID_PARAMETER"
  BY <1>1, <1>2, <1>4 DEF CleanRun, HangsOnlyAtOpen, Answered, SecondAttemptIsFresh
<1>5. QED BY <1>1, <1>3, <1>4

\* Making the device idle ends with an idle device, and opens no transaction.
LEMMA IdleClean == IInv /\ CleanRun /\ Idle => CleanRun'
<1> SUFFICES ASSUME IInv, CleanRun, Idle, ~faulty' PROVE CleanRun'
  BY DEF CleanRun
<1>0. GadgetTypeOK /\ target \in Alts /\ faulty \in BOOLEAN /\ wedged \in BOOLEAN
  BY DEF IInv, TypeOK, LinkTypeOK, GadgetTypeOK
<1>1. MakeIdle("idle", "upload", "recover", "PROTOCOL") /\ attempt' = attempt
  BY DEF Idle
<1>2. pc = "idle" /\ run' = run /\ target' = target
  BY <1>1 DEF MakeIdle, IdleStatus, IdleFix
<1>3. ~faulty
  <2>1. CASE \E s : GetStatus(s, FALSE)
    BY <1>0, <2>1, GetStatusClean
  <2>2. CASE ClrStatus \/ Abort
    BY <1>0, <2>2, ClrStatusClean, AbortClean
  <2>3. QED BY <1>1, <2>1, <2>2 DEF MakeIdle, IdleStatus, IdleFix
<1>4. ~wedged /\ IdlePath /\ (attempt = 1 => pos[target] = 0) /\ curAlt = target
  BY <1>0, <1>2, <1>3 DEF CleanRun, HangsOnlyAtOpen, SecondAttemptIsFresh, IInv, OnTarget
<1>5. /\ ~wedged'
      /\ CleanEntity \/ UNCHANGED <<pos, buf>>
      /\ (pc' = "upload" /\ dfuState' = "dfuIDLE") \/ (pc' = "idle" /\ IdlePath')
  BY <1>0, <1>1, <1>4, MakeIdleClean
<1>6. attempt' = 1 => pos'[target'] = 0
  BY <1>0, <1>1, <1>2, <1>4, <1>5 DEF CleanEntity, GadgetTypeOK
<1>7. QED BY <1>5, <1>6 DEF CleanRun, HangsOnlyAtOpen, SecondAttemptIsFresh

\* A block asked for in a clean call is served, or refused for a stale transaction, which
\* that closes.
LEMMA ServedClean ==
  ASSUME MediumFits, IInv, CleanRun, pc = "upload", NEW got, Upload(block, got), ~faulty'
  PROVE  /\ ~faulty /\ ~wedged'
         /\ got # Refused => dfuState' \in {"dfuIDLE", "dfuUPLOAD_IDLE"}
         /\ got = Refused => total = 0 /\ attempt = 0 /\ pos'[target] = 0
<1>0. GadgetTypeOK /\ block = total /\ total \in 0 .. FlashBlocks /\ attempt \in {0, 1}
  BY DEF IInv, TypeOK, InStep
<1>1. /\ curAlt = target /\ target \in Alts /\ FlashBlocks < BlockModulus
      /\ FlashBlocks \in Nat /\ BlockModulus \in Nat \ {0} /\ AtRest
  BY SizeAssumption, AtBlock DEF IInv, MediumFits
<1>2. ~faulty /\ wedged' = wedged /\ (~wedged => UploadBlock(block, got))
  BY <1>0, UploadClean
<1>3. /\ ~wedged /\ ~wedged' /\ dfuState \in {"dfuIDLE", "dfuUPLOAD_IDLE"}
      /\ total = 0 /\ attempt = 1 => pos[target] = 0
      /\ total # 0 => pos[target] = total
  BY <1>2 DEF CleanRun, HangsOnlyAtOpen, SecondAttemptIsFresh, IInv, InStep
<1>4. pos[target] = total => Expects(curAlt, block)
  <2>1. total \in Nat /\ total < BlockModulus
    BY <1>0, <1>1
  <2>2. total % BlockModulus = total
    BY <1>1, <2>1, SmallModulo
  <2>3. QED BY <1>0, <1>1, <2>2 DEF Expects
<1>5. UploadBlock(block, got)
  BY <1>2, <1>3
<1>6. /\ Expects(curAlt, block) => dfuState' \in {"dfuIDLE", "dfuUPLOAD_IDLE"} /\ got # Refused
      /\ ~Expects(curAlt, block) => CleanEntity /\ got = Refused
  <2>1. \A i \in 0 .. FlashBlocks - 1 : flash[curAlt][i] # Refused
    <3>1. \A i \in 0 .. FlashBlocks - 1 : flash[curAlt][i] \in Values
      BY <1>1 DEF AtRest
    <3>2. Refused \notin Values
      BY DEF Values
    <3>3. QED BY <3>1, <3>2
  <2>2. pos[curAlt] < FlashBlocks => flash[curAlt][pos[curAlt]] # Refused
    BY <1>1, <2>1 DEF AtRest
  <2>3. QED BY <1>3, <1>5, <2>2 DEF UploadBlock
<1>7. CleanEntity => pos'[target] = 0
  BY <1>0, <1>1 DEF CleanEntity, GadgetTypeOK
<1>8. QED BY <1>0, <1>2, <1>3, <1>4, <1>6, <1>7

\* A second attempt begins with all the rounds of dfu_make_idle and nothing open.
LEMMA SecondAttemptClean ==
  ASSUME IdleTries >= 3, block = 0, attempt = 0, NEW err, BlockFailed(err),
         pos'[target] = 0, target' = target, ~wedged', ~faulty'
  PROVE  CleanRun'
<1>1. /\ pc' = "idle" /\ tries' = 0 /\ fix' = "none"
  BY DEF BlockFailed, BeginIdle
<1>2. IdlePath'
  BY <1>1, IdlePathBegins
<1>3. QED BY <1>1, <1>2 DEF CleanRun, HangsOnlyAtOpen, SecondAttemptIsFresh

\* A block of a clean read goes to the file, or starts the second attempt.
LEMMA ReadBlockClean ==
  MediumFits /\ IdleTries >= 3 /\ IInv /\ CleanRun /\ ReadBlock => CleanRun'
<1> SUFFICES ASSUME MediumFits, IdleTries >= 3, IInv, CleanRun, ReadBlock, ~faulty'
             PROVE CleanRun'
  BY DEF CleanRun
<1>1. pc = "upload" /\ UNCHANGED <<target, run, op, size>>
  BY DEF ReadBlock
<1>2. PICK got \in Answers :
        /\ Upload(block, got)
        /\ \/ got = Refused /\ BlockFailed("TRANSFER_FAILED")
           \/ got # Refused /\ pc' = "close"
           \/ got # Refused /\ Advance /\ attempt' = attempt
  BY DEF ReadBlock
<1>3. /\ ~wedged'
      /\ got # Refused => dfuState' \in {"dfuIDLE", "dfuUPLOAD_IDLE"}
      /\ got = Refused => total = 0 /\ attempt = 0 /\ pos'[target] = 0
  BY <1>1, <1>2, ServedClean
<1>4. block = total /\ total \in Nat
  BY <1>1, SizeAssumption DEF IInv, InStep, TypeOK
<1>5. CASE got = Refused /\ BlockFailed("TRANSFER_FAILED")
  BY <1>1, <1>3, <1>4, <1>5, SecondAttemptClean
<1>6. CASE pc' = "close"
  BY <1>3, <1>6 DEF CleanRun, HangsOnlyAtOpen, SecondAttemptIsFresh
<1>7. CASE got # Refused /\ Advance
  BY <1>1, <1>3, <1>4, <1>7 DEF Advance, CleanRun, HangsOnlyAtOpen, SecondAttemptIsFresh
<1>8. QED BY <1>2, <1>5, <1>6, <1>7

\* A block of a clean verify is compared, or starts the second attempt.
LEMMA VerifyBlockClean ==
  MediumFits /\ IdleTries >= 3 /\ IInv /\ CleanRun /\ VerifyBlock => CleanRun'
<1> SUFFICES ASSUME MediumFits, IdleTries >= 3, IInv, CleanRun, VerifyBlock, ~faulty'
             PROVE CleanRun'
  BY DEF CleanRun
<1>1. pc = "upload" /\ op = "verify" /\ UNCHANGED <<target, run, op, size>>
  BY DEF VerifyBlock
<1>2. PICK got \in Answers :
        /\ Upload(block, got)
        /\ \/ got = Refused /\ BlockFailed("TRANSFER_FAILED")
           \/ got # Refused /\ \E offset : Differs(offset)
           \/ got # Refused /\ Succeed
           \/ got # Refused /\ Advance /\ attempt' = attempt
  BY DEF VerifyBlock
<1>3. /\ ~wedged'
      /\ got # Refused => dfuState' \in {"dfuIDLE", "dfuUPLOAD_IDLE"}
      /\ got = Refused => total = 0 /\ attempt = 0 /\ pos'[target] = 0
  BY <1>1, <1>2, ServedClean
<1>4. block = total /\ total \in Nat /\ size > 0
  <2>1. block = total /\ total \in Nat /\ size \in Nat /\ size > Bytes(total)
    BY <1>1, AtBlock DEF IInv, InStep, ImageInStep
  <2>2. QED BY <2>1, BytesGrow
<1>5. CASE got = Refused /\ BlockFailed("TRANSFER_FAILED")
  BY <1>1, <1>3, <1>4, <1>5, SecondAttemptClean
<1>6. CASE got # Refused /\ \E offset : Differs(offset)
  BY <1>1, <1>3, <1>4, <1>6 DEF Differs, CleanRun, HangsOnlyAtOpen, SecondAttemptIsFresh, Answered
<1>7. CASE Succeed
  BY <1>3, <1>7 DEF Succeed, CleanRun, HangsOnlyAtOpen, SecondAttemptIsFresh
<1>8. CASE got # Refused /\ Advance
  BY <1>1, <1>3, <1>4, <1>8 DEF Advance, CleanRun, HangsOnlyAtOpen, SecondAttemptIsFresh
<1>9. QED BY <1>2, <1>5, <1>6, <1>7, <1>8

\* Closing the file of a clean read succeeds.
LEMMA CloseFileClean == IInv /\ CleanRun /\ CloseFile => CleanRun'
<1> SUFFICES ASSUME IInv, CleanRun, CloseFile, ~faulty' PROVE CleanRun'
  BY DEF CleanRun
<1>1. ~faulty /\ pc = "close" /\ pc' = "done" /\ result' = "SUCCESS" /\ wedged' = wedged
  BY DEF CloseFile, Succeed
<1>2. ~wedged'
  BY <1>1 DEF CleanRun, HangsOnlyAtOpen, IInv, TypeOK, GadgetTypeOK
<1>3. QED BY <1>1, <1>2 DEF CleanRun, HangsOnlyAtOpen, SecondAttemptIsFresh

\* A clean call only recovers from a gadget that hung before it, and once.
LEMMA ResetAndRetryClean == IInv /\ CleanRun /\ ResetAndRetry => CleanRun'
<1> SUFFICES ASSUME IInv, CleanRun, ResetAndRetry, ~faulty' PROVE CleanRun'
  BY DEF CleanRun
<1>1. pc = "recover" /\ faulty' \in {faulty, TRUE} /\ UNCHANGED <<op, size>>
  BY DEF ResetAndRetry, Recover, BusReset
<1>2. HangsOnlyAtOpen
  BY <1>1 DEF CleanRun, IInv, TypeOK, GadgetTypeOK
<1>3. CASE wedged /\ result \in Recoverable
  <2>1. BusReset /\ pc' = "open"
    <3>1. result \in Recoverable /\ run # 1 /\ ~(faulty' = TRUE)
      BY <1>2, <1>3 DEF HangsOnlyAtOpen
    <3>2. QED BY <3>1, Zenon DEF ResetAndRetry, Recover
  <2>2. QED BY <2>1 DEF BusReset, CleanRun, HangsOnlyAtOpen, SecondAttemptIsFresh
<1>4. CASE ~wedged /\ Answered
  <2>1. result \notin Recoverable
    BY <1>4 DEF Answered, Recoverable
  <2>2. pc' = "done" /\ UNCHANGED <<result, wedged>>
    BY <2>1 DEF ResetAndRetry, Recover
  <2>3. QED BY <1>1, <1>4, <2>2 DEF CleanRun, HangsOnlyAtOpen, SecondAttemptIsFresh, Answered
<1>5. QED BY <1>1, <1>2, <1>3, <1>4 DEF HangsOnlyAtOpen

\* An operation that is killed leaves whatever it may; the next one begins as any does.
LEMMA NextOperationClean == NextOperation => CleanRun'
BY DEF NextOperation, Interrupt, CleanRun, HangsOnlyAtOpen, SecondAttemptIsFresh

\* For every interface, medium, length, grace and number of operations: unless something
\* fails while it runs, a read succeeds and a verify gives its verdict, whatever the
\* operation before it left behind (tdfu_dfu_upload, tdfu_dfu_verify).  The rounds
\* dfu_make_idle has (it has three) are just enough.
THEOREM UploadCleanAnswers ==
  MediumFits /\ IdleTries >= 3 => (Spec => []CleanUploadAnswers)
<1> SUFFICES ASSUME MediumFits, IdleTries >= 3 PROVE Spec => []CleanUploadAnswers
  OBVIOUS
<1>1. Init => CleanRun
  BY DEF Init, GadgetInit, LinkInit, CleanRun, HangsOnlyAtOpen, SecondAttemptIsFresh
<1>2. IInv /\ CleanRun /\ [Next]_vars => CleanRun'
  <2> SUFFICES ASSUME IInv, CleanRun, [Next]_vars PROVE CleanRun'
    OBVIOUS
  <2>1. CASE OpenDevice \/ Claim \/ OpenFile \/ Idle
    BY <2>1, OpenDeviceClean, ClaimClean, OpenFileClean, IdleClean
  <2>2. CASE ReadBlock \/ VerifyBlock
    BY <2>2, ReadBlockClean, VerifyBlockClean
  <2>3. CASE ReadBlockUnwritten
    BY <2>3 DEF ReadBlockUnwritten, CleanRun
  <2>4. CASE CloseFile \/ ResetAndRetry \/ NextOperation
    BY <2>4, CloseFileClean, ResetAndRetryClean, NextOperationClean
  <2>5. CASE UNCHANGED vars
    BY <2>5 DEF CleanRun, HangsOnlyAtOpen, SecondAttemptIsFresh, IdlePath, RoundsNeeded, Answered
  <2>6. QED BY <2>1, <2>2, <2>3, <2>4, <2>5 DEF Next, Host
<1>3. CleanRun => CleanUploadAnswers
  BY DEF CleanRun, CleanUploadAnswers, Answered
<1>4. QED BY <1>1, <1>2, <1>3, Invariance, PTL DEF Spec
=============================================================================
