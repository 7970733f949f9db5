------------------------------ MODULE DfuUpload -------------------------------
(***************************************************************************)
(* tdfu_dfu_upload and tdfu_dfu_verify: read an alt-setting back, into a   *)
(* file or against an image.  Both stream UPLOAD blocks, both take a       *)
(* failure on block 0 for a stale transaction and try once more, and both  *)
(* run under the reset-and-retry-once wrapper.                             *)
(*                                                                         *)
(* Block i of the image holds the value i.  Lengths and mismatch are in    *)
(* bytes; total counts the whole blocks the host has, and block is the     *)
(* 16-bit number that goes out.                                            *)
(***************************************************************************)
EXTENDS DfuLink, SequencesExt

CONSTANT Sizes   \* the lengths, in bytes, an operation may be asked for
ASSUME SizesAssumption == Sizes \subseteq Nat

Torn  == -6   \* a block of the medium that agrees with the image in its first byte only
Piece == -7   \* what a short fwrite leaves of a block

VARIABLES
  op,         \* "read" or "verify"
  size,       \* bytes in verify's image; bytes read is to stop at, 0 for none
  block,      \* wBlockNum of the next UPLOAD
  total,      \* whole blocks read, or compared, in this attempt
  attempt,    \* 0, or 1 once a stale transaction was cleared
  file,       \* what read's file holds, an entry for each block
  at,         \* the file position, in entries
  unseen,     \* history: the disk failed where the code does not look
  mismatch    \* *mismatch_off: the first byte verify saw differ, or None

fileVars == <<file, at, unseen>>
opVars   == <<op, size, block, total, attempt, fileVars, mismatch>>
vars     == <<gadgetVars, linkVars, opVars>>

None == -1

Bytes(blocks) == blocks * BlockBytes

\* Leading bytes in which a block of value v agrees with block i of the image.
Agree(v, i) == IF v = i THEN BlockBytes ELSE IF v = Torn THEN 1 ELSE 0

Lesser(m, n) == IF m < n THEN m ELSE n

-----------------------------------------------------------------------------

OpenDevice == Open("claim") /\ UNCHANGED opVars

Claim ==
  /\ ClaimAlt("claim", target, "load", "recover")
  /\ mismatch' = None
  /\ UNCHANGED <<target, run, loopVars, crashes, op, size, block, total, attempt, fileVars>>

\* read creates its file, empty; verify loads its image, which must not be empty.
OpenFile ==
  /\ pc = "load"
  /\ \/ /\ op = "read" \/ size > 0
        /\ BeginIdle("idle")
        /\ attempt' = 0
        /\ file' = << >> /\ at' = 0 /\ unseen' = FALSE
        /\ UNCHANGED <<result, faulty>>
     \/ /\ op = "verify" /\ size = 0
        /\ Fail("INVALID_PARAMETER")
        /\ UNCHANGED <<tries, fix, attempt, fileVars, faulty>>
     \/ /\ Fail("FILE_IO")
        /\ faulty' = TRUE
        /\ UNCHANGED <<tries, fix, attempt, fileVars>>
  /\ UNCHANGED <<dfuState, curAlt, pos, buf, flash, wedged, keepsTxn>>
  /\ UNCHANGED <<target, run, polls, fails, crashes, op, size, block, total, mismatch>>

\* Mutant of Rewind: it is left out.
RewindLeftOut == UNCHANGED <<at, unseen>>

\* rewind may be unable to flush the file's buffer, and tells nobody: the position stays,
\* and the blocks of this attempt will follow what the last one left.
Rewind ==
  \/ at' = 0 /\ UNCHANGED unseen
  \/ at # 0 /\ UNCHANGED at /\ unseen' = TRUE

\* An attempt starts over, at the start of the file: rewind does not shorten it.
Idle ==
  /\ MakeIdle("idle", "upload", "recover", "PROTOCOL")
  /\ IF pc' = "upload"
       THEN block' = 0 /\ total' = 0 /\ Rewind
       ELSE UNCHANGED <<block, total, at, unseen>>
  /\ UNCHANGED <<op, size, attempt, file, mismatch>>

\* Mutants of BlockFailed.
BlockFailedNoRetry(err) == Fail(err) /\ UNCHANGED <<attempt, tries, fix>>
BlockFailedRetryForever(err) ==
  IF block # 0
    THEN Fail(err) /\ UNCHANGED <<attempt, tries, fix>>
    ELSE BeginIdle("idle") /\ attempt' = 1 /\ UNCHANGED result

\* Any failure on block 0, be it of the file, is taken for a stale transaction.
BlockFailed(err) ==
  IF block # 0 \/ attempt = 1
    THEN Fail(err) /\ UNCHANGED <<attempt, tries, fix>>
    ELSE BeginIdle("idle") /\ attempt' = 1 /\ UNCHANGED result

\* A whole block came, and it was not the last one.
Advance ==
  /\ block' = (block + 1) % BlockModulus
  /\ total' = total + 1
  /\ UNCHANGED <<pc, result>>

\* An entry of the file is replaced, or one is appended.
Write(data) ==
  /\ file' = IF at < Len(file) THEN [file EXCEPT ![at + 1] = data] ELSE Append(file, data)
  /\ at' = at + 1

\* These many blocks are what read was asked for, or more: the length is only looked at
\* when a whole block is in the file.
Reaches(blocks) == size # 0 /\ Bytes(blocks) >= size

ReadBlock ==
  /\ pc = "upload" /\ op = "read"
  /\ \E got \in Answers :
       /\ Upload(block, got)
       /\ \/ /\ got = Refused
             /\ BlockFailed("TRANSFER_FAILED")
             /\ UNCHANGED <<block, total, file, at>>
          \/ /\ got # Refused
             /\ IF got = EndOfMedium THEN UNCHANGED <<file, at>> ELSE Write(got)
             /\ IF BytesOf(got) < BlockBytes \/ Reaches(total + 1)
                  THEN pc' = "close" /\ UNCHANGED <<block, total, result>>
                  ELSE Advance
             /\ UNCHANGED <<tries, fix, attempt>>
  /\ UNCHANGED <<target, run, polls, fails, crashes, op, size, unseen, mismatch>>

\* The disk is full: fwrite returns short, and may leave a piece of the block.
ReadBlockUnwritten ==
  /\ pc = "upload" /\ op = "read"
  /\ ~wedged
  /\ \E got \in Answers \ {Refused, EndOfMedium} : UploadBlock(block, got)
  /\ Write(Piece) \/ UNCHANGED <<file, at>>
  /\ faulty' = TRUE
  /\ BlockFailed("FILE_IO")
  /\ UNCHANGED <<wedged, keepsTxn>>
  /\ UNCHANGED <<target, run, polls, fails, crashes, op, size, block, total, unseen, mismatch>>

\* fclose flushes what the file's buffer still holds.  It may fail, for a disk that is
\* full only now; nobody looks, and the file ends early.
CloseFile ==
  /\ pc = "close"
  /\ Succeed
  /\ \/ UNCHANGED <<file, unseen, faulty>>
     \/ /\ \E kept \in 0 .. Len(file) - 1 : file' = SubSeq(file, 1, kept)
        /\ unseen' = TRUE /\ faulty' = TRUE
  /\ UNCHANGED <<dfuState, curAlt, pos, buf, flash, wedged, keepsTxn>>
  /\ block' = 0 /\ total' = 0 /\ attempt' = 0 /\ at' = 0
  /\ UNCHANGED <<target, run, loopVars, crashes, op, size, mismatch>>

Differs(offset) ==
  /\ result' = "VERIFY"
  /\ pc' = "recover"
  /\ mismatch' = offset

\* Mutant of EndsEarly: a short block is too little, even where the image ends in it.
EndsEarlyIfShort(got, seen) == BytesOf(got) < BlockBytes

\* The device ended the upload before the image's length.
EndsEarly(got, seen) == BytesOf(got) < BlockBytes /\ seen < size

\* As much of a block as the image has is compared.  cmp bytes are looked at, of which
\* the first same agree; seen bytes of the image are then known to be in the flash.
VerifyBlock ==
  /\ pc = "upload" /\ op = "verify"
  /\ \E got \in Answers :
       LET cmp  == Lesser(BytesOf(got), size - Bytes(total))
           same == Lesser(Agree(got, total), cmp)
           seen == Bytes(total) + same
       IN  /\ Upload(block, got)
           /\ \/ /\ got = Refused
                 /\ BlockFailed("TRANSFER_FAILED")
                 /\ UNCHANGED <<block, total, mismatch>>
              \/ /\ got # Refused
                 /\ same < cmp \/ EndsEarly(got, seen)
                 /\ Differs(seen)
                 /\ UNCHANGED <<tries, fix, attempt, block, total>>
              \/ /\ got # Refused
                 /\ same = cmp /\ ~EndsEarly(got, seen)
                 /\ IF seen = size THEN Succeed /\ UNCHANGED <<block, total>> ELSE Advance
                 /\ UNCHANGED <<tries, fix, attempt, mismatch>>
  /\ UNCHANGED <<target, run, polls, fails, crashes, op, size, fileVars>>

\* What a call keeps to itself is gone with it.
ResetAndRetry ==
  /\ Recover
  /\ block' = 0 /\ total' = 0 /\ attempt' = 0 /\ at' = 0
  /\ UNCHANGED <<op, size, file, unseen, mismatch>>

\* The operation is over or killed, and another one starts.
NextOperation ==
  /\ Interrupt(target)
  /\ op' \in {"read", "verify"} /\ size' \in Sizes
  /\ block' = 0 /\ total' = 0 /\ attempt' = 0
  /\ file' = << >> /\ at' = 0 /\ unseen' = FALSE
  /\ mismatch' = None

-----------------------------------------------------------------------------

\* A write of block 0 that was never finished; one block of a read leaves the same count.
LeftOpen ==
  \/ NoneOpen
  \/ /\ keepsTxn
     /\ pos = [a \in Alts |-> IF a = target THEN 1 ELSE 0]
     /\ buf = [a \in Alts |-> IF a = target THEN <<0>> ELSE << >>]

Init ==
  /\ GadgetInit
  /\ LinkInit
  /\ target \in Alts \ {EraseAlt}
  /\ LeftOpen
  \* the flash holds the image, but for the blocks that are not good
  /\ \E good \in SUBSET (0 .. FlashBlocks - 1), bad \in {Old, Torn} :
       flash = [a \in Alts |-> [i \in 0 .. FlashBlocks - 1 |->
                 IF a # target THEN Old
                 ELSE IF i \in good THEN i ELSE bad]]
  /\ op \in {"read", "verify"} /\ size \in Sizes
  /\ block = 0 /\ total = 0 /\ attempt = 0
  /\ file = << >> /\ at = 0 /\ unseen = FALSE
  /\ mismatch = None

Host ==
  \/ OpenDevice \/ Claim \/ OpenFile \/ Idle
  \/ ReadBlock \/ ReadBlockUnwritten \/ CloseFile \/ VerifyBlock
  \/ ResetAndRetry

Next == Host \/ NextOperation

Spec == Init /\ [][Next]_vars
FairSpec == Spec /\ WF_vars(Host)

-----------------------------------------------------------------------------
(* Properties.                                                             *)

\* Every variable stays in its type.
TypeOK ==
  /\ GadgetTypeOK
  /\ LinkTypeOK
  /\ pc \in {"open", "claim", "load", "idle", "upload", "close", "recover", "done"}
  /\ op \in {"read", "verify"} /\ size \in Sizes
  /\ block \in 0 .. BlockModulus - 1
  /\ total \in 0 .. FlashBlocks
  /\ attempt \in {0, 1}
  /\ file \in Seq(Int) /\ at \in Nat /\ unseen \in BOOLEAN
  /\ mismatch \in Nat \union {None}

\* Where read is to stop: at the fewest blocks that reach the length it was asked for, or
\* at the end of the medium.
StopsAt(n) ==
  /\ n <= FlashBlocks
  /\ n = FlashBlocks \/ Reaches(n)
  /\ n > 0 => ~Reaches(n - 1)

\* The file holds the alt's contents, in order, and stops where it should.
FileIsExact ==
  /\ StopsAt(Len(file))
  /\ \A i \in 1 .. Len(file) : file[i] = flash[target][i - 1]

\* A read that reports success has written exactly the alt's contents, in order and up to
\* the block in which the length asked for ends: no lost answer, leftover transaction,
\* second attempt over the same file or second run leaves a gap, a repeat or a tail.  The
\* exception is a disk that fails where the code does not look, at rewind or at fclose.
ReadIsExact == op = "read" /\ result = "SUCCESS" /\ ~unseen => FileIsExact

\* Byte r of the image's block i is in the flash.
Matches(i, r) ==
  /\ i < FlashBlocks
  /\ r < BytesIn(target, i)
  /\ r < Agree(flash[target][i], i)

\* The image's bytes before an offset are all in the flash.
MatchesBelow(offset) ==
  \A i \in 0 .. offset, r \in 0 .. BlockBytes - 1 : Bytes(i) + r < offset => Matches(i, r)

\* verify's verdict is right both ways, to the byte, and its offset is the first
\* difference: it never passes a flash that differs or ends too early, never fails one
\* whose last block is short where the image ends, and never blames the data for a transfer.
VerdictIsRight ==
  op = "verify" =>
    /\ result = "SUCCESS" => MatchesBelow(size)
    /\ result = "VERIFY" =>
         /\ MatchesBelow(mismatch)
         /\ mismatch < size
         /\ \E i \in 0 .. FlashBlocks, r \in 0 .. BlockBytes - 1 :
              mismatch = Bytes(i) + r /\ ~Matches(i, r)

\* With no failure of the bus, the device or the disk since it began, a read or a
\* verify reaches its answer, whatever the operation before it left behind.
CleanUploadAnswers ==
  pc = "done" /\ ~faulty =>
    \/ result = "SUCCESS"
    \/ op = "verify" /\ result = IF size = 0 THEN "INVALID_PARAMETER" ELSE "VERIFY"

\* Every read and every verify returns.
UploadReturns == []<>(pc = "done")
=============================================================================
