------------------------------- MODULE DfuLink -------------------------------
(***************************************************************************)
(* The parts of libtdfu/src/dfu/dfu.c every DFU operation is made of:      *)
(* opening and claiming the device, dfu_make_idle, the GETSTATUS polls and *)
(* the reset-and-retry-once wrapper.  An operation's module extends this   *)
(* one and adds its own transfers.                                         *)
(*                                                                         *)
(* pc names the next control transfer of the host; a call that makes       *)
(* several is several steps, so the device, the bus and an interruption    *)
(* can do anything between two of them.                                    *)
(***************************************************************************)
EXTENDS DfuGadget

CONSTANTS
  IdleTries,   \* iterations of dfu_make_idle (3)
  MaxPolls,    \* iterations of dfu_poll_until_ready_grace (1000)
  WriteGrace,  \* DFU_WRITE_GRACE_RETRIES (12)
  EraseGrace,  \* DFU_ERASE_GRACE_RETRIES (36)
  MaxCrashes   \* bound on the interruptions of a behaviour

ASSUME LinkAssumption ==
  /\ IdleTries \in Nat \ {0}
  /\ MaxPolls \in Nat \ {0}
  /\ WriteGrace \in Nat
  /\ EraseGrace \in Nat
  /\ MaxCrashes \in Nat

VARIABLES
  pc,       \* the host's next transfer
  target,   \* the alt the operation was asked to work on
  run,      \* 0 for the first call of the *_impl function, 1 after a reset
  tries,    \* iterations dfu_make_idle has begun
  fix,      \* what dfu_make_idle sends next: nothing, CLRSTATUS or ABORT
  polls,    \* iterations of the poll loop
  fails,    \* consecutive lost polls
  result,   \* tdfu_error_t of the call in progress, "NONE" while it runs
  crashes   \* interruptions so far

linkVars == <<pc, target, run, tries, fix, polls, fails, result, crashes>>
loopVars == <<tries, fix, polls, fails>>

MultiAlt == Alts # {0}

\* Mutants of Recoverable: a lost transfer is final; a missing alt is not.
RecoverableNoTransfer == {"TIMEOUT", "PROTOCOL", "DEVICE_NOT_FOUND", "OPEN_FAILED"}
RecoverableMissingAlt ==
  {"TRANSFER_FAILED", "TIMEOUT", "PROTOCOL", "DEVICE_NOT_FOUND", "OPEN_FAILED", "INVALID_PARAMETER"}

\* dfu_err_recoverable.
Recoverable == {"TRANSFER_FAILED", "TIMEOUT", "PROTOCOL", "DEVICE_NOT_FOUND", "OPEN_FAILED"}
Results == Recoverable \union {"NONE", "SUCCESS", "FILE_IO", "VERIFY", "INVALID_PARAMETER"}

Fail(err) ==
  /\ pc' = "recover"
  /\ result' = err

Succeed ==
  /\ pc' = "done"
  /\ result' = "SUCCESS"

BeginIdle(at) ==
  /\ pc' = at
  /\ tries' = 0
  /\ fix' = "none"

BeginPoll(at) ==
  /\ pc' = at
  /\ polls' = 0
  /\ fails' = 0

-----------------------------------------------------------------------------

\* dfu_open_device finds the gadget by reading its config descriptor, and the
\* operation reads it again: a device that does not answer is not found.
Open(next) ==
  /\ pc = "open"
  /\ \/ /\ ~wedged
        /\ pc' = next
        /\ UNCHANGED <<gadgetVars, result>>
     \/ /\ \E err \in {"DEVICE_NOT_FOUND", "PROTOCOL"} : Fail(err)
        /\ faulty' = (faulty \/ ~wedged)
        /\ UNCHANGED <<dfuState, curAlt, pos, buf, flash, wedged, keepsTxn>>
  /\ UNCHANGED <<target, run, loopVars, crashes>>

\* Mutant of NeedsSelect: alt 0 is taken for granted, as the code once did.
NeedsSelectNonZero(alt) == alt # 0

\* SET_INTERFACE is skipped only for the alt 0 of a single-alt interface.
NeedsSelect(alt) == alt # 0 \/ MultiAlt

\* Mutant of ClaimAlt: SET_INTERFACE's result is dropped.
ClaimAltUnchecked(at, alt, next, bad) ==
  /\ pc = at
  /\ \E ok \in BOOLEAN : SelectAlt(alt, ok)
  /\ pc' = next
  /\ UNCHANGED result

\* dfu_claim_alt_ex for alt; the operation goes on at next, or at bad.
ClaimAlt(at, alt, next, bad) ==
  /\ pc = at
  /\ \/ /\ pc' = bad
        /\ result' = "OPEN_FAILED"
        /\ faulty' = TRUE
        /\ UNCHANGED <<dfuState, curAlt, pos, buf, flash, wedged, keepsTxn>>
     \/ /\ ~NeedsSelect(alt)
        /\ pc' = next
        /\ UNCHANGED <<gadgetVars, result>>
     \/ /\ NeedsSelect(alt)
        /\ \/ SelectAlt(alt, TRUE) /\ pc' = next /\ UNCHANGED result
           \/ SelectAlt(alt, FALSE) /\ pc' = bad /\ result' = "PROTOCOL"

\* dfu_make_idle: up to IdleTries rounds of GETSTATUS, then CLRSTATUS or ABORT.  lost
\* is what the caller makes of a GETSTATUS that failed.
IdleStatus(at, next, bad, lost) ==
  /\ pc = at /\ fix = "none"
  /\ \E s \in DfuStates \union {NoReply} :
       /\ GetStatus(s, FALSE)
       /\ \/ s = NoReply /\ pc' = bad /\ result' = lost /\ UNCHANGED fix
          \/ s = "dfuIDLE" /\ pc' = next /\ UNCHANGED <<fix, result>>
          \/ /\ s \notin {NoReply, "dfuIDLE"}
             /\ fix' = IF s = "dfuERROR" THEN "clrstatus" ELSE "abort"
             /\ UNCHANGED <<pc, result>>
  /\ UNCHANGED <<target, run, tries, polls, fails, crashes>>

\* Mutant of IdleFix: rounds without end.
IdleFixForever(at, bad) ==
  /\ pc = at
  /\ \/ fix = "clrstatus" /\ ClrStatus
     \/ fix = "abort" /\ Abort
  /\ fix' = "none"
  /\ tries' = tries + 1
  /\ UNCHANGED <<target, run, polls, fails, crashes, pc, result>>

IdleFix(at, bad) ==
  /\ pc = at
  /\ \/ fix = "clrstatus" /\ ClrStatus
     \/ fix = "abort" /\ Abort
  /\ fix' = "none"
  /\ tries' = tries + 1
  /\ IF tries + 1 = IdleTries
       THEN pc' = bad /\ result' = "PROTOCOL"
       ELSE UNCHANGED <<pc, result>>
  /\ UNCHANGED <<target, run, polls, fails, crashes>>

MakeIdle(at, next, bad, lost) == IdleStatus(at, next, bad, lost) \/ IdleFix(at, bad)

-----------------------------------------------------------------------------
(* One iteration of dfu_poll_until_ready_grace, by what GETSTATUS brought.  *)

\* Mutant of PollReady: bStatus is not looked at.
PollReadyAnyStatus(s) == s \notin BusyStates \union {NoReply}

PollReady(s) == s \notin BusyStates \union {"dfuERROR", NoReply}

\* Busy, or a lost poll that the grace still forgives.
PollAgain(s, grace) == s \in BusyStates \/ (s = NoReply /\ fails < grace)

LastPoll == polls + 1 = MaxPolls

\* Mutant of PollAgainStep: an answer starts the count of polls anew.
PollAgainStepRestart(s, grace) ==
  /\ PollAgain(s, grace)
  /\ ~LastPoll
  /\ polls' = IF s = NoReply THEN polls + 1 ELSE 0
  /\ fails' = IF s = NoReply THEN fails + 1 ELSE 0

PollAgainStep(s, grace) ==
  /\ PollAgain(s, grace)
  /\ ~LastPoll
  /\ polls' = polls + 1
  /\ fails' = IF s = NoReply THEN fails + 1 ELSE 0

\* The loop ends with err.
PollEnds(s, grace, err) ==
  \/ s = NoReply /\ ~PollAgain(s, grace) /\ err = "TRANSFER_FAILED"
  \/ s = "dfuERROR" /\ err = "PROTOCOL"
  \/ PollAgain(s, grace) /\ LastPoll /\ err = "TIMEOUT"

-----------------------------------------------------------------------------
(* The public wrappers: reset the device once on a recoverable error.       *)

\* dfu_reset_device opens and resets; with nothing to open there is no retry.
Recover ==
  /\ pc = "recover"
  /\ \/ /\ result \in Recoverable /\ run = 0
        /\ BusReset
        /\ pc' = "open" /\ run' = 1 /\ result' = "NONE"
     \/ /\ result \in Recoverable /\ run = 0
        /\ pc' = "done"
        /\ faulty' = TRUE
        /\ UNCHANGED <<dfuState, curAlt, pos, buf, flash, wedged, keepsTxn, run, result>>
     \/ /\ result \notin Recoverable \/ run = 1
        /\ pc' = "done"
        /\ UNCHANGED <<gadgetVars, run, result>>
  /\ UNCHANGED <<target, loopVars, crashes>>

\* The host is interrupted between two transfers, and started again.
Interrupt(newTarget) ==
  /\ crashes < MaxCrashes
  /\ crashes' = crashes + 1
  /\ Abandoned
  /\ pc' = "open" /\ run' = 0 /\ result' = "NONE"
  /\ target' = newTarget
  /\ tries' = 0 /\ fix' = "none" /\ polls' = 0 /\ fails' = 0

LinkInit ==
  /\ pc = "open"
  /\ run = 0
  /\ tries = 0 /\ fix = "none"
  /\ polls = 0 /\ fails = 0
  /\ result = "NONE"
  /\ crashes = 0

LinkTypeOK ==
  /\ target \in Alts
  /\ run \in {0, 1}
  /\ tries \in 0 .. IdleTries
  /\ fix \in {"none", "clrstatus", "abort"}
  /\ polls \in 0 .. MaxPolls - 1
  /\ fails \in Nat /\ (fails <= WriteGrace \/ fails <= EraseGrace)
  /\ result \in Results
  /\ crashes \in 0 .. MaxCrashes
=============================================================================
