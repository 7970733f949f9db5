----------------------------- MODULE DfuDownload -----------------------------
(***************************************************************************)
(* tdfu_dfu_download: write an image to an alt-setting, over               *)
(* tdfu_dfu_write_device and the reset-and-retry-once wrapper.             *)
(*                                                                         *)
(* The image is NBlocks blocks, block i holding the value i.  The code's   *)
(* two counters are kept apart: offset, in blocks, says where in the image *)
(* the host is, and block, 16 bits wide, is the number that goes out.      *)
(***************************************************************************)
EXTENDS DfuLink

CONSTANT NBlocks   \* blocks in the image
ASSUME NBlocksAssumption == NBlocks \in Nat

VARIABLES
  block,     \* wBlockNum of the next DNLOAD
  offset,    \* blocks of the image sent and acknowledged
  attempt    \* 0, or 1 once a stale transaction was cleared

opVars == <<block, offset, attempt>>
vars   == <<gadgetVars, linkVars, opVars>>

Targets == Alts \ {EraseAlt}

-----------------------------------------------------------------------------

OpenDevice == Open("claim") /\ UNCHANGED opVars

Claim ==
  /\ ClaimAlt("claim", target, "load", "recover")
  /\ UNCHANGED <<target, run, loopVars, crashes, opVars>>

\* load_file, then the first of the two attempts.
LoadFile ==
  /\ pc = "load"
  /\ \/ BeginIdle("idle") /\ attempt' = 0 /\ UNCHANGED <<result, faulty>>
     \/ Fail("FILE_IO") /\ faulty' = TRUE /\ UNCHANGED <<tries, fix, attempt>>
  /\ UNCHANGED <<dfuState, curAlt, pos, buf, flash, wedged, keepsTxn>>
  /\ UNCHANGED <<target, run, polls, fails, crashes, block, offset>>

\* Mutant of Idle: a new attempt restarts the block numbers but not the image.
IdleKeepsOffset ==
  /\ MakeIdle("idle", "send", "recover", "PROTOCOL")
  /\ IF pc' = "send" THEN block' = 0 ELSE UNCHANGED block
  /\ UNCHANGED <<offset, attempt>>

\* An attempt starts from the first block once the device is idle.
Idle ==
  /\ MakeIdle("idle", "send", "recover", "PROTOCOL")
  /\ IF pc' = "send"
       THEN block' = 0 /\ offset' = 0
       ELSE UNCHANGED <<block, offset>>
  /\ UNCHANGED attempt

\* Mutants of BlockFailed: no second attempt; a second attempt at any block; second
\* attempts without end.
BlockFailedNoRetry(err) == Fail(err) /\ UNCHANGED <<attempt, tries, fix>>

BlockFailedRetryAnywhere(err) ==
  IF attempt = 1
    THEN Fail(err) /\ UNCHANGED <<attempt, tries, fix>>
    ELSE BeginIdle("idle") /\ attempt' = 1 /\ UNCHANGED result

BlockFailedRetryForever(err) ==
  IF block # 0
    THEN Fail(err) /\ UNCHANGED <<attempt, tries, fix>>
    ELSE BeginIdle("idle") /\ attempt' = 1 /\ UNCHANGED result

\* A failure on block 0 is taken for a stale transaction and retried once.
BlockFailed(err) ==
  IF block # 0 \/ attempt = 1
    THEN Fail(err) /\ UNCHANGED <<attempt, tries, fix>>
    ELSE BeginIdle("idle") /\ attempt' = 1 /\ UNCHANGED result

SendBlock ==
  /\ pc = "send"
  /\ offset < NBlocks
  /\ \/ /\ Dnload(block, offset, TRUE)
        /\ BeginPoll("blockPoll")
        /\ UNCHANGED <<result, attempt, tries, fix>>
     \/ /\ Dnload(block, offset, FALSE)
        /\ BlockFailed("TRANSFER_FAILED")
        /\ UNCHANGED <<polls, fails>>
  /\ UNCHANGED <<target, run, crashes, block, offset>>

BlockPoll ==
  /\ pc = "blockPoll"
  /\ \E s \in DfuStates \union {NoReply} :
       /\ GetStatus(s, LastPoll)
       /\ \/ /\ PollReady(s)
             /\ pc' = "send"
             /\ offset' = offset + 1
             /\ block' = (block + 1) % BlockModulus
             /\ UNCHANGED <<result, loopVars, attempt>>
          \/ /\ PollAgainStep(s, WriteGrace)
             /\ UNCHANGED <<pc, result, tries, fix, opVars>>
          \/ /\ \E err \in Recoverable : PollEnds(s, WriteGrace, err) /\ BlockFailed(err)
             /\ UNCHANGED <<polls, fails, block, offset>>
  /\ UNCHANGED <<target, run, crashes>>

\* Every block is out: the zero-length DNLOAD starts the manifest.
SendEnd ==
  /\ pc = "send"
  /\ offset = NBlocks
  /\ \/ /\ DnloadEnd(TRUE)
        /\ BeginPoll("manifestPoll")
        /\ UNCHANGED result
     \/ /\ DnloadEnd(FALSE)
        /\ Fail("TRANSFER_FAILED")
        /\ UNCHANGED <<polls, fails>>
  /\ UNCHANGED <<target, run, tries, fix, crashes, opVars>>

\* Mutant of ManifestPoll: the block polls' grace decides, and losing a poll then
\* counts as the end of the manifest.
ManifestPollTrusting ==
  /\ pc = "manifestPoll"
  /\ \E s \in DfuStates \union {NoReply} :
       /\ GetStatus(s, LastPoll)
       /\ \/ s \notin BusyStates /\ s # "dfuERROR" /\ Succeed
          \/ s = "dfuERROR" /\ Fail("PROTOCOL")
          \/ s \in BusyStates /\ UNCHANGED <<pc, result>>
  /\ UNCHANGED <<target, run, loopVars, crashes, opVars>>

ManifestPoll ==
  /\ pc = "manifestPoll"
  /\ \E s \in DfuStates \union {NoReply} :
       /\ GetStatus(s, LastPoll)
       /\ \/ /\ PollReady(s)
             /\ Succeed
             /\ UNCHANGED <<polls, fails>>
          \/ /\ PollAgainStep(s, EraseGrace)
             /\ UNCHANGED <<pc, result>>
          \/ /\ \E err \in Recoverable : PollEnds(s, EraseGrace, err) /\ Fail(err)
             /\ UNCHANGED <<polls, fails>>
  /\ UNCHANGED <<target, run, tries, fix, crashes, opVars>>

ResetAndRetry == Recover /\ UNCHANGED opVars

\* A reload or a kill mid-write, and a new write, perhaps of another alt.
InterruptWrite ==
  /\ \E a \in Targets : Interrupt(a)
  /\ block' = 0 /\ offset' = 0 /\ attempt' = 0

-----------------------------------------------------------------------------

Init ==
  /\ GadgetInit /\ NoneOpen /\ Unwritten
  /\ LinkInit
  /\ target \in Targets
  /\ block = 0 /\ offset = 0 /\ attempt = 0

Host ==
  \/ OpenDevice \/ Claim \/ LoadFile \/ Idle
  \/ SendBlock \/ BlockPoll \/ SendEnd \/ ManifestPoll
  \/ ResetAndRetry

Next == Host \/ InterruptWrite

Spec == Init /\ [][Next]_vars
FairSpec == Spec /\ WF_vars(Host)

-----------------------------------------------------------------------------
(* Properties.                                                             *)

\* Every variable stays in its type: the loop counters within their bounds, the
\* block number within its 16 bits.
TypeOK ==
  /\ GadgetTypeOK
  /\ LinkTypeOK
  /\ pc \in {"open", "claim", "load", "idle", "send", "blockPoll", "manifestPoll", "recover", "done"}
  /\ block \in 0 .. BlockModulus - 1
  /\ offset \in 0 .. NBlocks
  /\ attempt \in {0, 1}

Holds(a) == \A i \in 0 .. NBlocks - 1 : flash[a][i] = i

\* tdfu_dfu_download returns TDFU_SUCCESS only when the whole image is in the
\* flash behind the alt it was asked to write: across lost answers, a stale
\* transaction, the second attempt, and the reset and second run.
SuccessMeansFlashed == result = "SUCCESS" => Holds(target)

\* Whatever a download has been through, the device only ever holds each block
\* at the image offset it came from: no retry repeats, skips or splices blocks.
BlocksInPlace == \A a \in Alts : \A i \in DOMAIN buf[a] : buf[a][i] = i - 1

\* Image data only goes to the alt asked for.  Skipping SET_INTERFACE for alt 0
\* of a multi-alt gadget once sent the first block to the "erase" alt.
WritesOnlyTarget ==
  [][\A a \in Alts : Len(buf'[a]) > Len(buf[a]) => a = target]_vars

Outcome ==
  IF result = "SUCCESS" THEN "success" ELSE IF pc = "done" THEN "failure" ELSE "running"

Promise == INSTANCE FlashWrite WITH
  media <- [a \in Alts |-> Holds(a)], outcome <- Outcome

\* The download implements the write its callers are promised: no alt but the
\* target ever gains or loses an image, success is only reported of a target that
\* holds it, and nothing reaches the flash after the call has returned.
WriteIsAtomicToCaller == Promise!Spec

\* A failed download had a cause: with no lost transfer, refused open or device
\* failure since it began, whatever state the interrupted one before it left the
\* device in (a stale transaction, a live erase alt, a wedged EP0), it succeeds.
CleanWriteSucceeds == pc = "done" /\ ~faulty => result = "SUCCESS"

\* The second attempt is for a stale block 0 only: once the device has
\* acknowledged a block, a failure ends the run.
RetryOnlyBeforeProgress == [][attempt = 0 /\ attempt' = 1 => offset = 0]_vars

\* Every write returns: no sequence of lost polls, refusals and resets keeps the
\* host in tdfu_dfu_download for ever.
WriteReturns == []<>(pc = "done")
-----------------------------------------------------------------------------
(* The inductive invariant behind SuccessMeansFlashed, one conjunct per thing *)
(* the host relies on between two transfers.  Proved in DfuDownload_proofs.   *)

\* The block number tells every block of the image apart: an image of at most
\* 65535 blocks.
FitsBlockNumber == NBlocks < BlockModulus

\* What each entity has received is a prefix of the image.
EntitiesHoldPrefixes ==
  \A a \in Alts :
    /\ pos[a] = Len(buf[a])
    /\ pos[a] <= NBlocks
    /\ \A i \in 1 .. Len(buf[a]) : buf[a][i] = i - 1

CountersAgree == block = offset

OnTarget ==
  /\ target \in Targets
  /\ pc \in {"load", "idle", "send", "blockPoll", "manifestPoll"} => curAlt = target

Sending ==
  pc = "send" => IF offset = 0 THEN dfuState = "dfuIDLE"
                 ELSE dfuState = "dfuDNLOAD_IDLE" /\ pos[target] = offset

PollingBlock ==
  pc = "blockPoll" =>
    /\ offset < NBlocks
    /\ \/ dfuState = "dfuERROR"
       \/ /\ dfuState \in SyncStates \union {"dfuDNLOAD_IDLE"}
          /\ pos[target] = offset + 1

PollingManifest ==
  pc = "manifestPoll" =>
    \/ dfuState = "dfuERROR"
    \/ dfuState = "dfuMANIFEST_SYNC" /\ pos[target] = NBlocks
    \/ dfuState \in {"dfuMANIFEST", "dfuIDLE"} /\ Holds(target)

IdleRounds == pc = "idle" => tries < IdleTries

ResultSettled ==
  /\ pc \notin {"recover", "done"} => result = "NONE"
  /\ pc = "recover" => result # "SUCCESS"

IInv ==
  /\ TypeOK
  /\ EntitiesHoldPrefixes
  /\ CountersAgree
  /\ OnTarget
  /\ Sending
  /\ PollingBlock
  /\ PollingManifest
  /\ IdleRounds
  /\ ResultSettled
  /\ SuccessMeansFlashed
=============================================================================
