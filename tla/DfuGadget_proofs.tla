--------------------------- MODULE DfuGadget_proofs ---------------------------
(***************************************************************************)
(* Facts about the device, and about making it idle, that the proofs about *)
(* every DFU operation use.                                                *)
(***************************************************************************)
EXTENDS DfuLink, TLAPS

\* A number below the modulus is its own remainder.
LEMMA SmallModulo ==
  ASSUME NEW x \in Nat, NEW m \in Nat \ {0}, x < m
  PROVE  x % m = x
OBVIOUS

\* Whatever a flush writes is a medium again.
LEMMA FlushedType ==
  ASSUME curAlt \in Alts, buf \in [Alts -> Seq(Int)], flash \in [Alts -> Medium]
  PROVE  Flushed \in [Alts -> Medium]
<1>1. ASSUME NEW m \in Medium
      PROVE  Overlay(buf[curAlt], m) \in Medium
  <2>1. \A i \in 0 .. FlashBlocks - 1 : i < Len(buf[curAlt]) => buf[curAlt][i + 1] \in Int
    BY SizeAssumption
  <2>2. QED BY <2>1 DEF Overlay, Medium
<1>2. QED BY <1>1 DEF Flushed

\* What a manifest leaves, completed or failed, is a medium behind every alt.
LEMMA ManifestedType ==
  ASSUME curAlt \in Alts, buf \in [Alts -> Seq(Int)], flash \in [Alts -> Medium]
  PROVE  Manifested \union HalfManifested \subseteq [Alts -> Medium]
<1>1. BlankMedium \in Medium
  BY DEF BlankMedium, Medium, Blank
<1>2. [a \in Alts |-> BlankMedium] \in [Alts -> Medium]
  BY <1>1
<1>3. [flash EXCEPT ![0] = [@ EXCEPT ![0] = Blank]] \in [Alts -> Medium]
  <2>1. [flash[0] EXCEPT ![0] = Blank] \in Medium
    <3>1. flash[0] \in [0 .. FlashBlocks - 1 -> Int] /\ Blank \in Int
      BY AltsAssumption DEF Medium, Blank
    <3>2. QED BY <3>1 DEF Medium
  <2>2. QED BY <2>1
<1>4. QED BY <1>2, <1>3, FlushedType DEF Manifested, HalfManifested

-----------------------------------------------------------------------------
(* A failure is remembered, and a request that met none was executed.      *)

\* A status request of a call without a fault was answered, or the gadget was hung before.
LEMMA GetStatusClean ==
  ASSUME GadgetTypeOK, NEW s, NEW last, GetStatus(s, last), ~faulty'
  PROVE  /\ ~faulty /\ wedged' = wedged /\ keepsTxn' = keepsTxn
         /\ ~wedged => /\ StatusStep(s) /\ s # NoReply
                       /\ dfuState' = "dfuERROR" => dfuState = "dfuERROR"
                       /\ ~(last /\ s \in BusyStates)
BY DEF GetStatus, Lost, GadgetTypeOK

\* A read of a block of a call without a fault was served.
LEMMA UploadClean ==
  ASSUME GadgetTypeOK, NEW num, NEW got, Upload(num, got), ~faulty'
  PROVE  /\ ~faulty /\ wedged' = wedged /\ keepsTxn' = keepsTxn
         /\ ~wedged => UploadBlock(num, got)
BY DEF Upload, Lost, GadgetTypeOK

\* A block sent in a call without a fault reached the gadget.
LEMMA DnloadClean ==
  ASSUME GadgetTypeOK, NEW num, NEW data, NEW ok \in BOOLEAN, Dnload(num, data, ok), ~faulty', ~wedged
  PROVE  /\ ~faulty /\ ~wedged' /\ keepsTxn' = keepsTxn
         /\ DownloadBlock(num, data) /\ (ok \/ dfuState' = "dfuERROR")
<1>1. ~Lost(ok)
  BY DEF Lost, GadgetTypeOK
<1>2. /\ keepsTxn' = keepsTxn /\ DownloadBlock(num, data) /\ (ok \/ dfuState' = "dfuERROR")
      /\ UNCHANGED <<wedged, faulty>>
  BY <1>1, Zenon DEF Dnload
<1>3. QED BY <1>2

\* An abort of a call without a fault took effect.
LEMMA AbortClean ==
  ASSUME GadgetTypeOK, Abort, ~faulty'
  PROVE  ~faulty /\ wedged' = wedged /\ keepsTxn' = keepsTxn /\ (~wedged => AbortStep)
BY DEF Abort, Lost, GadgetTypeOK

\* A status clear of a call without a fault took effect.
LEMMA ClrStatusClean ==
  ASSUME GadgetTypeOK, ClrStatus, ~faulty'
  PROVE  ~faulty /\ wedged' = wedged /\ keepsTxn' = keepsTxn /\ (~wedged => ClrStatusStep)
BY DEF ClrStatus, Lost, GadgetTypeOK

\* A SET_INTERFACE that succeeded in a call without a fault selected the alt; it fails
\* without one only if the gadget was hung.
LEMMA SelectAltClean ==
  ASSUME GadgetTypeOK, NEW a, NEW ok \in BOOLEAN, SelectAlt(a, ok), ~faulty'
  PROVE  /\ ~faulty /\ wedged' = wedged /\ keepsTxn' = keepsTxn
         /\ ok => ~wedged' /\ SelectAltStep(a)
         /\ ~ok => wedged
BY DEF SelectAlt, Lost, GadgetTypeOK

\* An end of download accepted in a call without a fault waits for its manifest.
LEMMA DnloadEndClean ==
  ASSUME GadgetTypeOK, DnloadEnd(TRUE), ~faulty'
  PROVE  ~faulty /\ ~wedged' /\ dfuState' = "dfuMANIFEST_SYNC"
BY DEF DnloadEnd, DownloadEnd, Lost, GadgetTypeOK

-----------------------------------------------------------------------------
(* dfu_make_idle comes to its end on a device that fails nothing.          *)

\* The rounds the device may need: an ABORT or a CLRSTATUS from rest, and both where an
\* ABORT may be refused.
RoundsNeeded ==
  IF dfuState = "dfuIDLE" THEN 0 ELSE IF dfuState \in RestStates THEN 1 ELSE 2

\* There are rounds enough left, and what is sent next is what the device needs.
IdlePath ==
  /\ tries \in Nat /\ tries + RoundsNeeded < IdleTries
  /\ fix \in {"none", "clrstatus", "abort"}
  /\ fix = "clrstatus" => dfuState = "dfuERROR"
  /\ fix = "abort" => dfuState \notin {"dfuIDLE", "dfuERROR"}

\* Three rounds are enough from anywhere, and two from an error.
LEMMA IdlePathBegins ==
  ASSUME tries' = 0, fix' = "none", IdleTries >= 3
  PROVE  IdlePath'
BY LinkAssumption DEF IdlePath, RoundsNeeded

\* A round of dfu_make_idle without a fault does not fail: the device is idle, or it needs
\* no more rounds than are left; and no transaction has grown.
LEMMA MakeIdleClean ==
  ASSUME NEW at, NEW next, NEW bad, NEW lost, MakeIdle(at, next, bad, lost),
         GadgetTypeOK, IdlePath, ~wedged, ~faulty', at # next
  PROVE  /\ pc = at /\ ~faulty /\ ~wedged' /\ keepsTxn' = keepsTxn /\ result' = result
         /\ curAlt' = curAlt
         /\ CleanEntity \/ UNCHANGED <<pos, buf>>
         /\ \/ pc' = next /\ dfuState' = "dfuIDLE"
            \/ pc' = at /\ IdlePath'
<1>1. CASE IdleStatus(at, next, bad, lost)
  <2>1. PICK s \in DfuStates \union {NoReply} :
          /\ GetStatus(s, FALSE)
          /\ \/ s = NoReply /\ pc' = bad /\ result' = lost /\ UNCHANGED fix
             \/ s = "dfuIDLE" /\ pc' = next /\ UNCHANGED <<fix, result>>
             \/ /\ s \notin {NoReply, "dfuIDLE"}
                /\ fix' = IF s = "dfuERROR" THEN "clrstatus" ELSE "abort"
                /\ UNCHANGED <<pc, result>>
    BY <1>1 DEF IdleStatus
  <2>2. /\ ~faulty /\ ~wedged' /\ keepsTxn' = keepsTxn /\ StatusStep(s) /\ s # NoReply
        /\ dfuState' = "dfuERROR" => dfuState = "dfuERROR"
    BY <2>1, GetStatusClean
  <2>3. /\ pc = at /\ fix = "none" /\ tries' = tries
    BY <1>1 DEF IdleStatus
  <2>4. curAlt' = curAlt /\ (CleanEntity \/ UNCHANGED <<pos, buf>>)
    BY <2>2 DEF StatusStep
  <2>5. CASE s = "dfuIDLE"
    <3>1. dfuState' = "dfuIDLE"
      BY <2>2, <2>5 DEF StatusStep, SyncStates, RestStates
    <3>2. QED BY <2>1, <2>2, <2>3, <2>4, <2>5, <3>1
  <2>6. CASE s # "dfuIDLE"
    <3>1. /\ fix' = IF s = "dfuERROR" THEN "clrstatus" ELSE "abort"
          /\ UNCHANGED <<pc, result>>
      BY <2>1, <2>2, <2>6
    <3>2. \/ /\ dfuState' \in {"dfuDNBUSY", "dfuMANIFEST", "dfuDNLOAD_IDLE"} /\ s = dfuState'
             /\ dfuState \notin RestStates
          \/ dfuState' = dfuState /\ s = dfuState /\ dfuState \in RestStates \ {"dfuIDLE"}
      BY <2>2, <2>6 DEF StatusStep, Stall, SyncStates, RestStates
    <3>3. RoundsNeeded' <= RoundsNeeded /\ RoundsNeeded' \in Nat /\ RoundsNeeded \in Nat
      BY <3>2 DEF RoundsNeeded, RestStates
    <3>4. s = "dfuERROR" => dfuState' = "dfuERROR"
      BY <3>2
    <3>5. s # "dfuERROR" => dfuState' \notin {"dfuIDLE", "dfuERROR"}
      BY <3>2 DEF RestStates
    <3>6. tries' \in Nat /\ tries' + RoundsNeeded' < IdleTries
      <4>1. tries \in Nat /\ tries + RoundsNeeded < IdleTries /\ IdleTries \in Nat
        BY LinkAssumption DEF IdlePath
      <4>2. \A t, a, b, m \in Nat : t + a < m /\ b <= a => t + b < m
        OBVIOUS
      <4>3. QED BY <2>3, <3>3, <4>1, <4>2
    <3>7. IdlePath'
      BY <3>1, <3>4, <3>5, <3>6 DEF IdlePath
    <3>8. QED BY <2>2, <2>3, <2>4, <3>1, <3>7
  <2>7. QED BY <2>5, <2>6
<1>2. CASE IdleFix(at, bad)
  <2>1. /\ pc = at /\ fix' = "none" /\ tries' = tries + 1
        /\ IF tries + 1 = IdleTries THEN pc' = bad /\ result' = "PROTOCOL"
                                    ELSE UNCHANGED <<pc, result>>
    BY <1>2 DEF IdleFix
  <2>2. \/ fix = "clrstatus" /\ ClrStatus
        \/ fix = "abort" /\ Abort
    BY <1>2 DEF IdleFix
  <2>3. /\ ~faulty /\ ~wedged' /\ keepsTxn' = keepsTxn
        /\ \/ fix = "clrstatus" /\ ClrStatusStep
           \/ fix = "abort" /\ AbortStep
    BY <2>2, ClrStatusClean, AbortClean
  <2>4. curAlt' = curAlt /\ (CleanEntity \/ UNCHANGED <<pos, buf>>)
    BY <2>3 DEF ClrStatusStep, AbortStep
  <2>5. RoundsNeeded' + 1 <= RoundsNeeded /\ RoundsNeeded' \in Nat /\ RoundsNeeded \in Nat
    <3>1. CASE fix = "clrstatus"
      <4>1. dfuState = "dfuERROR" /\ dfuState' = "dfuIDLE"
        BY <2>3, <3>1 DEF IdlePath, ClrStatusStep
      <4>2. QED BY <4>1 DEF RoundsNeeded, RestStates
    <3>2. CASE fix = "abort"
      <4>1. dfuState \notin {"dfuIDLE", "dfuERROR"}
        BY <3>2 DEF IdlePath
      <4>2. \/ dfuState' = "dfuIDLE"
            \/ dfuState' = "dfuERROR" /\ dfuState \notin RestStates
        BY <2>3, <3>2, <4>1 DEF AbortStep, Stall, RestStates
      <4>3. QED BY <4>1, <4>2 DEF RoundsNeeded, RestStates
    <3>3. QED BY <2>3, <3>1, <3>2
  <2>6. tries' + RoundsNeeded' < IdleTries /\ tries + 1 # IdleTries /\ tries' \in Nat
    <3>1. tries \in Nat /\ tries + RoundsNeeded < IdleTries /\ IdleTries \in Nat
      BY LinkAssumption DEF IdlePath
    <3>2. \A t, a, b, m \in Nat : t + a < m /\ b + 1 <= a => t + 1 + b < m /\ t + 1 # m
      OBVIOUS
    <3>3. tries + 1 + RoundsNeeded' < IdleTries /\ tries + 1 # IdleTries
      BY <2>5, <3>1, <3>2
    <3>4. QED BY <2>1, <3>1, <3>3
  <2>7. IdlePath'
    BY <2>1, <2>6 DEF IdlePath
  <2>8. QED BY <2>1, <2>3, <2>4, <2>6, <2>7
<1>3. QED BY <1>1, <1>2 DEF MakeIdle
=============================================================================
