------------------------------- MODULE DfuErase -------------------------------
(***************************************************************************)
(* tdfu_dfu_erase: download the wipe token to the loader's "erase" alt,    *)
(* wait out the manifest that wipes the chip, read the first block of the  *)
(* boot flash back, and close the transaction that reading opened.         *)
(*                                                                         *)
(* target is the boot flash here: alt 0, whatever the loader calls it.     *)
(***************************************************************************)
EXTENDS DfuLink, FiniteSets

BootAlt == 0
ASSUME EraseAltAssumption == EraseAlt \in Alts

VARIABLES
  erasable,   \* the loader names EraseAlt "erase"; old ones have no such alt
  leftovers   \* history: what earlier operations left in this one's way

opVars == <<erasable, leftovers>>
vars   == <<gadgetVars, linkVars, opVars>>

-----------------------------------------------------------------------------

OpenDevice == Open("claim") /\ UNCHANGED opVars

\* A loader without the alt is told apart by name, before anything is sent to it.
Claim ==
  /\ \/ /\ erasable
        /\ ClaimAlt("claim", EraseAlt, "idle", "recover")
     \/ /\ ~erasable
        /\ pc = "claim"
        /\ Fail("INVALID_PARAMETER")
        /\ UNCHANGED gadgetVars
  /\ tries' = 0 /\ fix' = "none"
  /\ UNCHANGED <<target, run, polls, fails, crashes, opVars>>

Idle == MakeIdle("idle", "token", "recover", "PROTOCOL") /\ UNCHANGED opVars

SendToken ==
  /\ pc = "token"
  /\ \/ Dnload(0, Token, TRUE) /\ BeginPoll("tokenPoll") /\ UNCHANGED result
     \/ Dnload(0, Token, FALSE) /\ Fail("TRANSFER_FAILED") /\ UNCHANGED <<polls, fails>>
  /\ UNCHANGED <<target, run, tries, fix, crashes, opVars>>

\* Both polls have the erase's grace; the second one waits out the wipe itself.
Poll(at, next) ==
  /\ pc = at
  /\ \E s \in DfuStates \union {NoReply} :
       /\ GetStatus(s, LastPoll)
       /\ \/ PollReady(s) /\ pc' = next /\ UNCHANGED <<polls, fails, result>>
          \/ PollAgainStep(s, EraseGrace) /\ UNCHANGED <<pc, result>>
          \/ /\ \E err \in Recoverable : PollEnds(s, EraseGrace, err) /\ Fail(err)
             /\ UNCHANGED <<polls, fails>>
  /\ UNCHANGED <<target, run, tries, fix, crashes, opVars>>

TokenPoll == Poll("tokenPoll", "end")
ErasePoll == Poll("erasePoll", "bootClaim")

SendEnd ==
  /\ pc = "end"
  /\ \/ DnloadEnd(TRUE) /\ BeginPoll("erasePoll") /\ UNCHANGED result
     \/ DnloadEnd(FALSE) /\ Fail("TRANSFER_FAILED") /\ UNCHANGED <<polls, fails>>
  /\ UNCHANGED <<target, run, tries, fix, crashes, opVars>>

-----------------------------------------------------------------------------
(* dfu_erase_blank_check; every failure leaves through one ABORT.           *)

BootClaim ==
  /\ ClaimAlt("bootClaim", BootAlt, "bootIdle", "drop")
  /\ tries' = 0 /\ fix' = "none"
  /\ UNCHANGED <<target, run, polls, fails, crashes, opVars>>

BootIdle == MakeIdle("bootIdle", "probe", "drop", "TRANSFER_FAILED") /\ UNCHANGED opVars

\* Mutant of BlankCheck: any answer to the probe will do.
BlankCheckAnyData(got) == IF got = Refused THEN "TRANSFER_FAILED" ELSE "NONE"

\* What the first block of the boot flash says about the wipe.
BlankCheck(got) ==
  CASE got = Blank -> "NONE"
    [] got = Refused -> "TRANSFER_FAILED"
    [] got = EndOfMedium -> "PROTOCOL"
    [] OTHER -> "VERIFY"

Probe ==
  /\ pc = "probe"
  /\ \E got \in Answers :
       /\ Upload(0, got)
       /\ result' = BlankCheck(got)
       /\ pc' = IF BlankCheck(got) = "NONE" THEN "close" ELSE "drop"
  /\ UNCHANGED <<target, run, loopVars, crashes, opVars>>

Drop ==
  /\ pc = "drop"
  /\ Abort
  /\ pc' = "recover"
  /\ UNCHANGED <<target, run, loopVars, result, crashes, opVars>>

\* The probe's transaction is closed by ABORT; a second probe finds out whether the
\* loader took that to heart, and is itself closed by ABORT or by CLRSTATUS.
CloseProbe ==
  /\ pc = "close"
  /\ Abort
  /\ pc' = "reprobe"
  /\ UNCHANGED <<target, run, loopVars, result, crashes, opVars>>

Reprobe ==
  /\ pc = "reprobe"
  /\ \E got \in Answers :
       /\ Upload(0, got)
       /\ pc' = IF got = Refused THEN "clear" ELSE "closeAgain"
  /\ UNCHANGED <<target, run, loopVars, result, crashes, opVars>>

\* Mutant of CloseAgain: the loader's own answer to the second probe is ignored.
CloseAgainAborting ==
  /\ pc \in {"closeAgain", "clear"}
  /\ Abort
  /\ Succeed
  /\ UNCHANGED <<target, run, loopVars, crashes, opVars>>

CloseAgain ==
  /\ \/ pc = "closeAgain" /\ Abort
     \/ pc = "clear" /\ ClrStatus
  /\ Succeed
  /\ UNCHANGED <<target, run, loopVars, crashes, opVars>>

ResetAndRetry == Recover /\ UNCHANGED opVars

\* What is in the way of an erase: a wedged EP0, an entity it will use left open.
Leftovers ==
  {what \in {"wedged", "boot", "erase"} :
     \/ what = "wedged" /\ wedged
     \/ what = "boot" /\ pos[BootAlt] # 0
     \/ what = "erase" /\ pos[EraseAlt] # 0}

\* The erase is killed, and started again.
InterruptErase ==
  /\ Interrupt(BootAlt)
  /\ leftovers' = Leftovers'
  /\ UNCHANGED erasable

-----------------------------------------------------------------------------

\* An earlier write may have left block 0 of its transaction with an old loader.
LeftOpen ==
  \E left \in [Alts -> {0, 1}] :
    /\ keepsTxn \/ left = [a \in Alts |-> 0]
    /\ pos = left
    /\ buf = [a \in Alts |-> IF left[a] = 0 THEN << >>
                             ELSE IF a = EraseAlt THEN <<Token>> ELSE <<0>>]

Init ==
  /\ GadgetInit /\ Unwritten
  /\ LeftOpen
  /\ LinkInit
  /\ target = BootAlt
  /\ erasable \in BOOLEAN
  /\ leftovers = Leftovers

Host ==
  \/ OpenDevice \/ Claim \/ Idle
  \/ SendToken \/ TokenPoll \/ SendEnd \/ ErasePoll
  \/ BootClaim \/ BootIdle \/ Probe \/ Drop \/ CloseProbe \/ Reprobe \/ CloseAgain
  \/ ResetAndRetry

Next == Host \/ InterruptErase

Spec == Init /\ [][Next]_vars
FairSpec == Spec /\ WF_vars(Host)

-----------------------------------------------------------------------------
(* Properties.                                                             *)

\* Every variable stays in its type.
TypeOK ==
  /\ GadgetTypeOK
  /\ LinkTypeOK
  /\ pc \in {"open", "claim", "idle", "token", "tokenPoll", "end", "erasePoll", "bootClaim",
             "bootIdle", "probe", "drop", "close", "reprobe", "closeAgain", "clear", "recover", "done"}
  /\ erasable \in BOOLEAN
  /\ leftovers \subseteq {"wedged", "boot", "erase"}

Succeeded == result = "SUCCESS"

WholeChipBlank == \A a \in Alts : flash[a] = BlankMedium

\* An erase reports success only of a chip whose boot flash starts blank, whatever
\* was lost or refused on the way: the loader's own status is never enough.
SuccessMeansBootBlank == Succeeded => flash[BootAlt][0] = Blank

\* tdfu_dfu_erase returning success means the whole chip is erased: what "Manifest
\* OK is necessary but not sufficient - prove the flash is blank" and the message
\* "Erase complete (verified blank)" say.
SuccessMeansErased == Succeeded => WholeChipBlank

\* Data reaches the device for the erase alt only, and at most one token at a time:
\* never a program alt, never a token appended to one an earlier erase left there.
TokenOnlyToEraseAlt ==
  [][\A a \in Alts : Len(buf'[a]) > Len(buf[a]) => a = EraseAlt /\ buf'[a] = <<Token>>]_vars

\* A successful erase over a bus that lost nothing leaves the loader as a freshly
\* started one for the next operation, on both kinds of loader: "either way the
\* entity is clean when this returns".
SuccessLeavesEntityClean ==
  Succeeded /\ ~faulty => dfuState = "dfuIDLE" /\ pos[BootAlt] = 0 /\ pos[EraseAlt] = 0

\* One thing in the way of an erase (a wedged EP0, or a transaction left open on the
\* erase alt or on the boot flash) is cleared by the reset and the second run: unless
\* the bus or the device fails as well, the erase succeeds and the whole chip is blank.
\* Two are more than the single retry survives.
CleanEraseSucceeds ==
  /\ pc = "done"
  /\ ~faulty
  /\ erasable
  /\ Cardinality(leftovers) <= 1
  => Succeeded /\ WholeChipBlank

\* "Loaders without the alt fail up front": such a loader is named for what it is, and
\* it is not reset for lacking the alt.
MissingAltIsFinal ==
  pc = "done" /\ ~faulty /\ ~erasable =>
    result = "INVALID_PARAMETER" /\ (run = 1 => "wedged" \in leftovers)

\* Every erase returns.
EraseReturns == []<>(pc = "done")
=============================================================================
