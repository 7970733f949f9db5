---------------------------- MODULE WebPage_proofs ----------------------------
(***************************************************************************)
(* The lock around the module and the ownership of a busy page, for every  *)
(* number of activations, board and option: OneCallAtATime, BusyHasOwner.  *)
(* Then what baking files into an image leaves of it, for every image      *)
(* whose partition table names an overlay and every set of files, and with *)
(* it that a write that ends well has written what was asked of it:        *)
(* WriteDoneIsWhatWasAsked.  Last, that every variable keeps its type.     *)
(***************************************************************************)
EXTENDS WebPage, FiniteSetTheorems, WellFoundedInduction, TLAPS

Fields == {"kind", "pc", "inCall", "name", "pick", "files", "row", "rows", "image", "opts",
           "board", "verified", "index", "before", "polls", "asked", "alone"}

\* A job has its fields, and is in a call only where one is made.
JobOK(job) ==
  /\ DOMAIN job = Fields
  /\ job.inCall \in BOOLEAN
  /\ job.inCall => job.pc \in CallPcs

\* The inductive invariant.
IInv ==
  /\ wasmBusy \in BOOLEAN
  /\ DOMAIN jobs = Slots
  /\ \A s \in Slots : JobOK(jobs[s])
  /\ OneCallAtATime
  /\ BusyHasOwner

-----------------------------------------------------------------------------
(* What a step may do to the lock and to the page's state.                 *)

\* Nobody else's job changes, and s's remains one.
OnlyJob(s) ==
  /\ DOMAIN jobs' = Slots
  /\ \A r \in Slots : JobOK(jobs'[r])
  /\ \A r \in Slots \ {s} : jobs'[r].inCall = jobs[r].inCall /\ jobs'[r].pc = jobs[r].pc

\* The four ways of meeting the lock: not at all, at a call's beginning, from call to call,
\* and at its end.
Keeps(s) == jobs'[s].inCall = jobs[s].inCall /\ wasmBusy' = wasmBusy
Takes(s) == ~jobs[s].inCall /\ jobs'[s].inCall = ~wasmBusy /\ wasmBusy' = TRUE
Holds(s) == jobs[s].inCall /\ jobs'[s].inCall /\ wasmBusy' = TRUE
Leaves(s) == jobs[s].inCall /\ ~jobs'[s].inCall /\ wasmBusy' = FALSE

\* The page's state is one of rest or given up by an attach, or s's to end, or not s's affair.
Owned(s) ==
  \/ ~Busy(currentState') \/ stranded'
  \/ jobs'[s].pc \in Stalled
  \/ currentState' = currentState /\ (stranded => stranded') /\ jobs[s].pc \notin Stalled

GoodStep(s) ==
  /\ OnlyJob(s)
  /\ Keeps(s) \/ Takes(s) \/ Holds(s) \/ Leaves(s)
  /\ Owned(s)

\* A step without a job.
FreeStep ==
  /\ jobs' = jobs /\ wasmBusy' = wasmBusy
  /\ ~Busy(currentState') \/ (currentState' = currentState /\ (stranded => stranded'))

\* A good step of one job keeps the invariant.
LEMMA GoodStepKeeps ==
  ASSUME NEW s \in Slots, IInv, GoodStep(s)
  PROVE  IInv'
<1>1. wasmBusy' \in BOOLEAN
  BY DEF GoodStep, Keeps, Takes, Holds, Leaves, IInv
<1>2. DOMAIN jobs' = Slots /\ \A r \in Slots : JobOK(jobs'[r])
  BY DEF GoodStep, OnlyJob
<1>3. OneCallAtATime'
  <2>1. CASE Keeps(s)
    BY <2>1 DEF IInv, OneCallAtATime, GoodStep, OnlyJob, Keeps
  <2>2. CASE Takes(s)
    BY <2>2 DEF IInv, OneCallAtATime, GoodStep, OnlyJob, Takes
  <2>3. CASE Holds(s)
    BY <2>3 DEF IInv, OneCallAtATime, GoodStep, OnlyJob, Holds
  <2>4. CASE Leaves(s)
    BY <2>4 DEF IInv, OneCallAtATime, GoodStep, OnlyJob, Leaves
  <2>5. QED BY <2>1, <2>2, <2>3, <2>4 DEF GoodStep
<1>4. BusyHasOwner'
  <2>1. CASE ~Busy(currentState') \/ stranded'
    BY <2>1 DEF BusyHasOwner, Busy
  <2>2. CASE jobs'[s].pc \in Stalled
    BY <2>2 DEF BusyHasOwner, Stalled
  <2>3. CASE currentState' = currentState /\ (stranded => stranded') /\ jobs[s].pc \notin Stalled
    <3>1. SUFFICES ASSUME Busy(currentState), ~stranded
                   PROVE  \E r \in Slots : jobs'[r].pc \in Stalled
      BY <2>3 DEF BusyHasOwner, Stalled, Busy
    <3>2. PICK r \in Slots : jobs[r].pc \in Stalled
      BY <3>1 DEF IInv, BusyHasOwner
    <3>3. r # s
      BY <2>3, <3>2
    <3>4. QED BY <3>2, <3>3 DEF GoodStep, OnlyJob
  <2>4. QED BY <2>1, <2>2, <2>3 DEF GoodStep, Owned
<1>5. QED BY <1>1, <1>2, <1>3, <1>4 DEF IInv

\* So does a step that touches neither jobs nor lock and makes the page no busier.
LEMMA FreeStepKeeps ==
  ASSUME IInv, FreeStep
  PROVE  IInv'
BY DEF IInv, FreeStep, JobOK, OneCallAtATime, BusyHasOwner, Busy, Stalled

-----------------------------------------------------------------------------
(* Ways of setting a job.                                                  *)

\* An empty slot is in no call.
LEMMA NoJobOK == JobOK(NoJob) /\ ~NoJob.inCall /\ NoJob.pc = "idle"
BY DEF JobOK, NoJob, Fields, CallPcs

\* A job that has just begun is in no call.
LEMMA FreshJob ==
  ASSUME NEW kind, NEW pc
  PROVE  /\ DOMAIN Job(kind, pc) = Fields
         /\ Job(kind, pc).inCall = FALSE
         /\ Job(kind, pc).pc = pc
BY DEF Job, NoJob, Fields

\* Setting one slot leaves the others as they were.
LEMMA SetJob ==
  ASSUME NEW s \in Slots, NEW job, IInv, JobOK(job), Set(s, job)
  PROVE  OnlyJob(s) /\ jobs'[s] = job
BY DEF IInv, Set, OnlyJob

\* A first call: the job is in it at once, or polls.
LEMMA EnterJob ==
  ASSUME NEW s \in Slots, NEW job, IInv, ~jobs[s].inCall,
         DOMAIN job = Fields, job.pc \in CallPcs, Enter(s, job)
  PROVE  OnlyJob(s) /\ Takes(s) /\ jobs'[s].pc = job.pc
<1> DEFINE new == Entered(job, wasmBusy)
<1>a. PICK b \in BOOLEAN : b = ~wasmBusy
  OBVIOUS
<1>b. new = [job EXCEPT !.inCall = b]
  BY <1>a DEF Entered
<1>1. JobOK(new) /\ new.pc = job.pc /\ new.inCall = ~wasmBusy
  <2>1. JobOK(new) /\ new.pc = job.pc /\ new.inCall = b
    BY <1>b DEF JobOK, Fields
  <2>2. QED BY <1>a, <2>1
<1>2. OnlyJob(s) /\ jobs'[s] = new
  BY <1>1, SetJob DEF Enter
<1>3. QED BY <1>1, <1>2 DEF Takes, Enter

\* A next call, which keeps the lock.
LEMMA AgainJob ==
  ASSUME NEW s \in Slots, NEW job, IInv, jobs[s].inCall,
         DOMAIN job = Fields, job.pc \in CallPcs, Again(s, job)
  PROVE  OnlyJob(s) /\ Holds(s) /\ jobs'[s].pc = job.pc
<1> DEFINE new == Entered(job, FALSE)
<1>1. JobOK(new) /\ new.pc = job.pc /\ new.inCall
  BY DEF Entered, JobOK, Fields
<1>2. OnlyJob(s) /\ jobs'[s] = new
  BY <1>1, SetJob DEF Again
<1>3. QED BY <1>1, <1>2 DEF Holds, Again

\* A call that ends its job, which leaves a page at rest or was nothing to the page.
LEMMA LeaveJob ==
  ASSUME NEW s \in Slots, IInv, jobs[s].inCall, Set(s, NoJob), Unlock,
         \/ ~Busy(currentState')
         \/ currentState' = currentState /\ (stranded => stranded') /\ jobs[s].pc \notin Stalled
  PROVE  GoodStep(s)
<1>1. OnlyJob(s) /\ jobs'[s] = NoJob
  BY NoJobOK, SetJob
<1>2. QED BY <1>1, NoJobOK DEF GoodStep, Leaves, Unlock, Owned

\* A step of a job that waits for no call, or is done with none.
LEMMA QuietJob ==
  ASSUME NEW s \in Slots, NEW job, IInv, jobs[s].inCall = FALSE, Set(s, job),
         DOMAIN job = Fields, job.inCall = FALSE, UNCHANGED wasmBusy,
         \/ ~Busy(currentState')
         \/ job.pc \in Stalled
         \/ currentState' = currentState /\ (stranded => stranded') /\ jobs[s].pc \notin Stalled
  PROVE  GoodStep(s)
<1>1. OnlyJob(s) /\ jobs'[s] = job
  BY SetJob DEF JobOK
<1>2. QED BY <1>1 DEF GoodStep, Keeps, Owned

\* Outside a call's states a job is in none.
LEMMA NotInCall ==
  ASSUME NEW s \in Slots, IInv, jobs[s].pc \notin CallPcs
  PROVE  jobs[s].inCall = FALSE
<1>1. jobs[s].inCall \in BOOLEAN /\ ~jobs[s].inCall
  BY DEF IInv, JobOK
<1>2. QED BY <1>1

\* A free slot holds no job.
LEMMA FreeSlotIdle ==
  ASSUME NEW s \in Slots, IInv, FreeSlot(s)
  PROVE  jobs[s] = NoJob /\ jobs[s].inCall = FALSE /\ jobs[s].pc = "idle"
BY NoJobOK DEF FreeSlot, JobOK

\* A job may begin with a call.
LEMMA EnterFresh ==
  ASSUME NEW s \in Slots, NEW kind, NEW pc \in CallPcs, IInv, FreeSlot(s),
         Enter(s, Job(kind, pc)),
         pc \in Stalled \/ ~Busy(currentState') \/ (currentState' = currentState /\ (stranded => stranded'))
  PROVE  GoodStep(s)
<1> DEFINE job == Job(kind, pc)
<1>1. DOMAIN job = Fields /\ job.pc = pc
  BY FreshJob
<1>2. jobs[s].inCall = FALSE /\ jobs[s].pc \notin Stalled
  BY FreeSlotIdle DEF Stalled
<1> HIDE DEF job
<1>3. OnlyJob(s) /\ Takes(s) /\ jobs'[s].pc = pc
  BY <1>1, <1>2, EnterJob DEF job
<1>4. QED BY <1>2, <1>3 DEF GoodStep, Owned

\* A job may begin without one.
LEMMA QuietFresh ==
  ASSUME NEW s \in Slots, NEW kind, NEW pc, IInv, FreeSlot(s), Set(s, Job(kind, pc)),
         wasmBusy' = wasmBusy,
         pc \in Stalled \/ ~Busy(currentState') \/ (currentState' = currentState /\ (stranded => stranded'))
  PROVE  GoodStep(s)
<1> DEFINE job == Job(kind, pc)
<1>1. DOMAIN job = Fields /\ job.pc = pc /\ job.inCall = FALSE
  BY FreshJob
<1>2. jobs[s].inCall = FALSE /\ jobs[s].pc \notin Stalled
  BY FreeSlotIdle DEF Stalled
<1> HIDE DEF job
<1>3. QED BY <1>1, <1>2, QuietJob DEF job

\* The three states in which the page's buttons work.
LEMMA RestStates == ~Busy("idle") /\ ~Busy("done") /\ ~Busy("error")
BY DEF Busy, BusyStates

\* The state a flow starts from, and the job it would become.
Ready(s, job) ==
  /\ jobs[s].inCall = FALSE /\ jobs[s].pc \notin Stalled
  /\ DOMAIN job = Fields /\ job.inCall = FALSE

\* A step that changes no job and makes the page no busier is good for any idle slot.
LEMMA IdleGood ==
  ASSUME NEW s \in Slots, IInv, jobs[s].pc \notin Stalled,
         jobs' = jobs, wasmBusy' = wasmBusy,
         ~Busy(currentState') \/ (currentState' = currentState /\ (stranded => stranded'))
  PROVE  GoodStep(s)
BY DEF GoodStep, OnlyJob, IInv, Keeps, Owned

\* A bootstrap that is over goes on to wait for the gadget, if a release is to be flashed.
LEMMA AwaitOrNot ==
  ASSUME NEW s \in Slots, NEW job, IInv, Ready(s, job),
         Set(s, IF job.kind = "release" THEN [job EXCEPT !.pc = "await"] ELSE NoJob),
         UNCHANGED <<stateVars, wasmBusy>>
  PROVE  GoodStep(s)
<1>1. CASE job.kind = "release"
  <2> DEFINE new == [job EXCEPT !.pc = "await"]
  <2>1. DOMAIN new = Fields /\ new.inCall = FALSE
    BY DEF Ready, Fields
  <2>2. QED BY <1>1, <2>1, QuietJob DEF Ready, stateVars
<1>2. CASE job.kind # "release"
  BY <1>2, QuietJob, NoJobOK DEF Ready, stateVars, JobOK
<1>3. QED BY <1>1, <1>2

\* The end of a boot leaves no call behind.
LEMMA BootEndsSets ==
  ASSUME NEW s \in Slots, IInv, BootEnds(s)
  PROVE  OnlyJob(s) /\ jobs'[s].inCall = FALSE
<1>1. CASE jobs[s].kind = "release"
  <2> DEFINE new == [jobs[s] EXCEPT !.pc = "await", !.inCall = FALSE, !.polls = 0]
  <2>1. DOMAIN new = Fields /\ new.inCall = FALSE
    BY DEF IInv, JobOK, Fields
  <2>2. QED BY <1>1, <2>1, SetJob DEF BootEnds, JobOK
<1>2. CASE jobs[s].kind # "release"
  BY <1>2, NoJobOK, SetJob DEF BootEnds, JobOK
<1>3. QED BY <1>1, <1>2

\* A bootstrap that ends, with or without a flow behind it, is a good step.
LEMMA BootEndsQuiet ==
  ASSUME NEW s \in Slots, IInv, jobs[s].inCall = FALSE, BootEnds(s),
         ~Busy(currentState'), UNCHANGED wasmBusy
  PROVE  GoodStep(s)
BY BootEndsSets DEF GoodStep, Keeps, Owned

-----------------------------------------------------------------------------
(* The steps of the page's own USB backend.                                *)

\* Every end of PollLock is a good step.
LEMMA PollLockGood ==
  ASSUME NEW s \in Slots, IInv, PollLock(s)
  PROVE  GoodStep(s)
<1>1. OnlyJob(s) /\ Takes(s) /\ jobs'[s].pc = jobs[s].pc
  BY EnterJob DEF PollLock, IInv, JobOK
<1>2. QED BY <1>1 DEF PollLock, stateVars, GoodStep, Owned

\* Every end of Choose is a good step.
LEMMA ChooseGood ==
  ASSUME NEW s \in Slots, IInv, Choose(s)
  PROVE  GoodStep(s)
<1>1. jobs[s].pc = "choose" /\ jobs[s].inCall = FALSE
  BY NotInCall DEF Choose, At, CallPcs
<1>2. CASE Set(s, NoJob) /\ ~Busy(currentState') /\ UNCHANGED wasmBusy
  BY <1>1, <1>2, QuietJob, NoJobOK DEF JobOK
<1>3. CASE SetState("detecting") /\ Enter(s, [jobs[s] EXCEPT !.pc = "discover"])
  <2> DEFINE job == [jobs[s] EXCEPT !.pc = "discover"]
  <2>1. DOMAIN job = Fields /\ job.pc = "discover"
    BY DEF IInv, JobOK, Fields
  <2>2. OnlyJob(s) /\ Takes(s) /\ jobs'[s].pc = "discover"
    BY <1>1, <1>3, <2>1, EnterJob DEF CallPcs
  <2>3. QED BY <2>2 DEF GoodStep, Owned, Stalled
<1>4. QED BY <1>2, <1>3, RestStates DEF Choose, SetState

\* Every end of Finish is a good step.
LEMMA FinishGood ==
  ASSUME NEW s \in Slots, NEW state, IInv, jobs[s].inCall, Finish(s, state), ~Busy(state)
  PROVE  GoodStep(s)
BY LeaveJob DEF Finish, SetState

\* Every end of Discovered is a good step.
LEMMA DiscoveredGood ==
  ASSUME NEW s \in Slots, IInv, Discovered(s)
  PROVE  GoodStep(s)
<1>1. jobs[s].inCall
  BY DEF Discovered, Called
<1>2. CASE Finish(s, "idle") \/ Finish(s, "done")
  BY <1>1, <1>2, FinishGood, RestStates
<1>3. CASE \E info \in Discoveries :
             Again(s, [jobs[s] EXCEPT !.pc = "probe", !.name = info.name])
  <2>1. PICK info \in Discoveries :
               Again(s, [jobs[s] EXCEPT !.pc = "probe", !.name = info.name])
    BY <1>3
  <2> DEFINE job == [jobs[s] EXCEPT !.pc = "probe", !.name = info.name]
  <2>2. DOMAIN job = Fields /\ job.pc = "probe"
    BY DEF IInv, JobOK, Fields
  <2>3. OnlyJob(s) /\ Holds(s) /\ jobs'[s].pc = "probe"
    BY <1>1, <2>1, <2>2, AgainJob DEF CallPcs
  <2>4. QED BY <2>3 DEF GoodStep, Owned, Stalled
<1>4. QED BY <1>2, <1>3 DEF Discovered, AfterNoDevice

\* Every end of Probed is a good step.
LEMMA ProbedGood ==
  ASSUME NEW s \in Slots, IInv, Probed(s)
  PROVE  GoodStep(s)
<1>1. jobs[s].inCall
  BY DEF Probed, Called
<1>2. CASE Finish(s, "done")
  BY <1>1, <1>2, FinishGood, RestStates
<1>3. CASE \E b : Again(s, [jobs[s] EXCEPT !.pc = "variant", !.name = SocOf[b]])
  <2>1. PICK b : Again(s, [jobs[s] EXCEPT !.pc = "variant", !.name = SocOf[b]])
    BY <1>3
  <2> DEFINE job == [jobs[s] EXCEPT !.pc = "variant", !.name = SocOf[b]]
  <2>2. DOMAIN job = Fields /\ job.pc = "variant"
    BY DEF IInv, JobOK, Fields
  <2>3. OnlyJob(s) /\ Holds(s) /\ jobs'[s].pc = "variant"
    BY <1>1, <2>1, <2>2, AgainJob DEF CallPcs
  <2>4. QED BY <2>3 DEF GoodStep, Owned, Stalled
<1>4. QED BY <1>2, <1>3 DEF Probed

\* Every end of VariantKnown is a good step.
LEMMA VariantKnownGood ==
  ASSUME NEW s \in Slots, IInv, VariantKnown(s)
  PROVE  GoodStep(s)
BY FinishGood, RestStates DEF VariantKnown, Called

\* Every end of Fetched is a good step.
LEMMA FetchedGood ==
  ASSUME NEW s \in Slots, IInv, Fetched(s)
  PROVE  GoodStep(s)
<1>1. jobs[s].pc = "fetch" /\ jobs[s].inCall = FALSE /\ DOMAIN jobs[s] = Fields
  BY NotInCall DEF Fetched, At, CallPcs, IInv, JobOK
<1>2. CASE Enter(s, [jobs[s] EXCEPT !.pc = "boot", !.name = detected]) /\ UNCHANGED stateVars
  <2> DEFINE job == [jobs[s] EXCEPT !.pc = "boot", !.name = detected]
  <2>1. DOMAIN job = Fields /\ job.pc = "boot"
    BY <1>1 DEF Fields
  <2>2. OnlyJob(s) /\ Takes(s) /\ jobs'[s].pc = "boot"
    BY <1>1, <1>2, <2>1, EnterJob DEF CallPcs
  <2>3. QED BY <2>2 DEF GoodStep, Owned, Stalled
<1>3. CASE BootEnds(s) /\ SetState("error") /\ UNCHANGED wasmBusy
  <2>1. ~Busy(currentState')
    BY <1>3, RestStates DEF SetState
  <2>2. QED BY <1>1, <1>3, <2>1, BootEndsQuiet
<1>4. QED BY <1>2, <1>3 DEF Fetched

\* Every end of BootCalled is a good step.
LEMMA BootCalledGood ==
  ASSUME NEW s \in Slots, IInv, BootCalled(s)
  PROVE  GoodStep(s)
<1>1. jobs[s].inCall /\ BootEnds(s) /\ Unlock
  BY DEF BootCalled, Called
<1>2. ~Busy(currentState')
  BY RestStates DEF BootCalled, SetState
<1>3. OnlyJob(s) /\ jobs'[s].inCall = FALSE
  BY <1>1, BootEndsSets
<1>4. QED BY <1>1, <1>2, <1>3 DEF GoodStep, Leaves, Unlock, Owned

\* Every end of LocalBoot is a good step.
LEMMA LocalBootGood ==
  ASSUME NEW s \in Slots, NEW job, IInv, Ready(s, job), LocalBoot(s, job)
  PROVE  GoodStep(s)
<1>1. CASE SetState("bootstrapping") /\ Enter(s, [job EXCEPT !.pc = "boot", !.name = "custom"])
  <2> DEFINE new == [job EXCEPT !.pc = "boot", !.name = "custom"]
  <2>1. DOMAIN new = Fields /\ new.pc = "boot"
    BY DEF Ready, Fields
  <2>2. OnlyJob(s) /\ Takes(s) /\ jobs'[s].pc = "boot"
    BY <1>1, <2>1, EnterJob DEF CallPcs, Ready
  <2>3. QED BY <2>2 DEF GoodStep, Owned, Stalled
<1>2. CASE Set(s, [job EXCEPT !.pc = "fetch", !.name = detected]) /\ UNCHANGED wasmBusy
  <2> DEFINE new == [job EXCEPT !.pc = "fetch", !.name = detected]
  <2>1. DOMAIN new = Fields /\ new.pc = "fetch" /\ new.inCall = FALSE
    BY DEF Ready, Fields
  <2>2. QED BY <1>2, <2>1, QuietJob DEF Ready, Stalled
<1>3. CASE /\ Set(s, IF job.kind = "release" THEN [job EXCEPT !.pc = "await"] ELSE NoJob)
           /\ UNCHANGED <<stateVars, wasmBusy>>
  BY <1>3, AwaitOrNot
<1>4. QED BY <1>1, <1>2, <1>3 DEF LocalBoot

\* Every end of LocalRead is a good step.
LEMMA LocalReadGood ==
  ASSUME NEW s \in Slots, IInv, FreeSlot(s), LocalRead(s)
  PROVE  GoodStep(s)
<1>1. jobs[s].inCall = FALSE /\ jobs[s].pc = "idle"
  BY FreeSlotIdle
<1>2. CASE Enter(s, Job("read", "read"))
  BY <1>2, EnterFresh DEF CallPcs, Stalled
<1>3. CASE UNCHANGED <<stateVars, jobs, wasmBusy>>
  <2>1. jobs' = jobs /\ wasmBusy' = wasmBusy /\ currentState' = currentState /\ (stranded => stranded')
    BY <1>3 DEF stateVars
  <2>2. jobs[s].pc \notin Stalled
    BY <1>1 DEF Stalled
  <2>3. QED BY <2>1, <2>2, IdleGood
<1>4. QED BY <1>2, <1>3 DEF LocalRead

\* Every end of ReadCalled is a good step.
LEMMA ReadCalledGood ==
  ASSUME NEW s \in Slots, IInv, ReadCalled(s)
  PROVE  GoodStep(s)
<1>1. jobs[s].inCall /\ Unlock
  BY DEF ReadCalled, Called
<1>2. CASE Set(s, Job("read", "sum"))
  <2> DEFINE job == Job("read", "sum")
  <2>a. DOMAIN job = Fields /\ job.pc = "sum" /\ job.inCall = FALSE
    BY FreshJob
  <2> HIDE DEF job
  <2>1. OnlyJob(s) /\ jobs'[s].inCall = FALSE /\ jobs'[s].pc = "sum"
    BY <1>2, <2>a, SetJob DEF JobOK, job
  <2>2. QED BY <1>1, <2>1 DEF GoodStep, Leaves, Unlock, Owned, Stalled
<1>3. CASE Set(s, NoJob) /\ SetState("error")
  BY <1>1, <1>3, LeaveJob, RestStates DEF SetState
<1>4. QED BY <1>2, <1>3 DEF ReadCalled

\* Every end of ReadSummed is a good step.
LEMMA ReadSummedGood ==
  ASSUME NEW s \in Slots, IInv, ReadSummed(s)
  PROVE  GoodStep(s)
<1>1. jobs[s].inCall = FALSE
  BY NotInCall DEF ReadSummed, At, CallPcs
<1>2. QED BY <1>1, QuietJob, NoJobOK, RestStates DEF ReadSummed, SetState, JobOK
\* A job that begins its transfer is the same job, whether or not it overlaps another.
LEMMA SetTransferJob ==
  ASSUME NEW s \in Slots, NEW job, IInv, JobOK(job), SetTransfer(s, job)
  PROVE  OnlyJob(s) /\ jobs'[s].pc = job.pc /\ jobs'[s].inCall = job.inCall
<1>1. DOMAIN jobs' = Slots
  BY DEF SetTransfer
<1>2. /\ JobOK(jobs'[s])
      /\ jobs'[s].pc = job.pc /\ jobs'[s].inCall = job.inCall
  <2>1. PICK alone : jobs'[s] = [job EXCEPT !.alone = alone]
    BY DEF SetTransfer
  <2>2. QED BY <2>1 DEF JobOK, Fields
<1>3. ASSUME NEW r \in Slots \ {s}
      PROVE  /\ JobOK(jobs'[r])
             /\ jobs'[r].pc = jobs[r].pc /\ jobs'[r].inCall = jobs[r].inCall
  <2>1. CASE jobs'[r] = jobs[r]
    BY <2>1 DEF IInv
  <2>2. CASE jobs'[r] = [jobs[r] EXCEPT !.alone = FALSE]
    BY <2>2 DEF IInv, JobOK, Fields
  <2>3. QED BY <2>1, <2>2 DEF SetTransfer
<1>4. QED BY <1>1, <1>2, <1>3 DEF OnlyJob

\* Every end of LocalWrite is a good step.
LEMMA LocalWriteGood ==
  ASSUME NEW s \in Slots, NEW job, NEW data, IInv, Ready(s, job), LocalWrite(s, job, data)
  PROVE  GoodStep(s)
<1>1. CASE tdfuReady /\ inDfuMode
  <2> DEFINE going == Going(job, "write")
             new == Entered(going, wasmBusy)
  <2>1. DOMAIN going = Fields /\ going.pc = "write"
    BY DEF Going, Ready, Fields
  <2>2. PICK b \in BOOLEAN : b = ~wasmBusy
    OBVIOUS
  <2> HIDE DEF going
  <2>3. new = [going EXCEPT !.inCall = b]
    BY <2>2 DEF Entered
  <2>4. JobOK(new) /\ new.pc = "write" /\ new.inCall = b
    BY <2>1, <2>3 DEF JobOK, Fields, CallPcs
  <2> HIDE DEF new
  <2>5. SetTransfer(s, new) /\ wasmBusy' = TRUE
    BY <1>1 DEF LocalWrite, new, going
  <2>6. OnlyJob(s) /\ jobs'[s].pc = "write" /\ jobs'[s].inCall = b
    BY <2>4, <2>5, SetTransferJob
  <2>7. Takes(s)
    BY <2>2, <2>5, <2>6 DEF Takes, Ready
  <2>8. QED BY <2>6, <2>7 DEF GoodStep, Owned, Stalled
<1>2. CASE ~(tdfuReady /\ inDfuMode)
  <2>1. Set(s, NoJob) /\ wasmBusy' = wasmBusy /\ currentState' = currentState /\ (stranded => stranded')
    BY <1>2 DEF LocalWrite, stateVars
  <2>2. QED BY <2>1, QuietJob, NoJobOK DEF Ready, JobOK
<1>3. QED BY <1>1, <1>2

\* Every end of Loaded is a good step.
LEMMA LoadedGood ==
  ASSUME NEW s \in Slots, IInv, Loaded(s)
  PROVE  GoodStep(s)
<1>1. PICK b : Set(s, [jobs[s] EXCEPT !.board = b, !.image = staged])
  BY DEF Loaded
<1> DEFINE new == [jobs[s] EXCEPT !.board = b, !.image = staged]
<1>2. JobOK(new) /\ new.inCall = jobs[s].inCall /\ new.pc = jobs[s].pc
  BY DEF IInv, JobOK, Fields
<1>3. OnlyJob(s) /\ jobs'[s] = new
  BY <1>1, <1>2, SetJob
<1>4. wasmBusy' = wasmBusy /\ jobs[s].pc \in Stalled
  BY DEF Loaded, Called, At, Stalled
<1> HIDE DEF new
<1>5. QED BY <1>2, <1>3, <1>4 DEF GoodStep, Keeps, Owned

\* Every end of RebootOrFinish is a good step.
LEMMA RebootOrFinishGood ==
  ASSUME NEW s \in Slots, IInv, jobs[s].inCall, RebootOrFinish(s)
  PROVE  GoodStep(s)
<1>1. CASE "reboot" \in jobs[s].opts
  <2> DEFINE job == [jobs[s] EXCEPT !.pc = "reboot", !.verified = At(s, "verify")]
  <2>1. DOMAIN job = Fields /\ job.pc = "reboot"
    BY DEF IInv, JobOK, Fields
  <2> HIDE DEF job
  <2>2. Again(s, job)
    BY <1>1 DEF RebootOrFinish, job
  <2>3. OnlyJob(s) /\ Holds(s) /\ jobs'[s].pc = "reboot"
    BY <2>1, <2>2, AgainJob DEF CallPcs
  <2>4. QED BY <2>3 DEF GoodStep, Owned, Stalled
<1>2. CASE "reboot" \notin jobs[s].opts
  BY <1>2, FinishGood, RestStates DEF RebootOrFinish
<1>3. QED BY <1>1, <1>2

\* Every end of Written is a good step.
LEMMA WrittenGood ==
  ASSUME NEW s \in Slots, IInv, Written(s)
  PROVE  GoodStep(s)
<1>1. jobs[s].inCall
  BY DEF Written, Called
<1>2. CASE AskedToVerify(s)
  <2> DEFINE job == [jobs[s] EXCEPT !.pc = "verify", !.image = None]
  <2>1. DOMAIN job = Fields /\ job.pc = "verify"
    BY DEF IInv, JobOK, Fields
  <2> HIDE DEF job
  <2>2. Again(s, job)
    BY <1>2 DEF Written, job
  <2>3. OnlyJob(s) /\ Holds(s) /\ jobs'[s].pc = "verify"
    BY <1>1, <2>1, <2>2, AgainJob DEF CallPcs
  <2>4. QED BY <2>3 DEF GoodStep, Owned, Stalled
<1>3. CASE ~AskedToVerify(s)
  BY <1>1, <1>3, RebootOrFinishGood DEF Written
<1>4. QED BY <1>2, <1>3

\* Every end of VerifiedOk is a good step.
LEMMA VerifiedOkGood ==
  ASSUME NEW s \in Slots, IInv, VerifiedOk(s)
  PROVE  GoodStep(s)
BY RebootOrFinishGood DEF VerifiedOk, Called

\* Every end of WriteCallFailed is a good step.
LEMMA WriteCallFailedGood ==
  ASSUME NEW s \in Slots, IInv, WriteCallFailed(s)
  PROVE  GoodStep(s)
BY FinishGood, RestStates DEF WriteCallFailed, Called

\* Every end of RebootCalled is a good step.
LEMMA RebootCalledGood ==
  ASSUME NEW s \in Slots, IInv, RebootCalled(s)
  PROVE  GoodStep(s)
BY FinishGood, RestStates DEF RebootCalled, Called

\* Every end of DiagCalled is a good step.
LEMMA DiagCalledGood ==
  ASSUME NEW s \in Slots, IInv, DiagCalled(s)
  PROVE  GoodStep(s)
<1>1. jobs[s].inCall /\ Set(s, NoJob) /\ Unlock
  BY DEF DiagCalled, Called
<1>2. currentState' = currentState /\ (stranded => stranded') /\ jobs[s].pc \notin Stalled
  BY DEF DiagCalled, Called, At, stateVars, Stalled
<1>3. QED BY <1>1, <1>2, LeaveJob

\* Every end of DebugCalled is a good step.
LEMMA DebugCalledGood ==
  ASSUME NEW s \in Slots, IInv, DebugCalled(s)
  PROVE  GoodStep(s)
<1>1. jobs[s].inCall /\ Set(s, NoJob) /\ Unlock
  BY DEF DebugCalled, Called
<1>2. currentState' = currentState /\ (stranded => stranded') /\ jobs[s].pc \notin Stalled
  BY DEF DebugCalled, Called, At, stateVars, Stalled
<1>3. QED BY <1>1, <1>2, LeaveJob

\* A call that throws leaves a page that is at rest, or that nobody will enable.
LEMMA CallThrewGood ==
  ASSUME NEW s \in Slots, IInv, CallThrew(s)
  PROVE  GoodStep(s)
<1>1. jobs[s].inCall /\ wasmBusy' = FALSE
  BY DEF CallThrew, UnlockThrown, Unlock
<1>2. OnlyJob(s) /\ jobs'[s].inCall = FALSE
  <2>1. CASE BootEnds(s)
    BY <2>1, BootEndsSets
  <2>2. CASE Set(s, NoJob)
    BY <2>2, NoJobOK, SetJob DEF JobOK
  <2>3. QED BY <2>1, <2>2 DEF CallThrew
<1>3. Owned(s)
  <2>1. CASE stranded'
    BY <2>1 DEF Owned
  <2>2. CASE SetState("error") \/ SetState("done")
    BY <2>2, RestStates DEF SetState, Owned
  <2>3. CASE jobs[s].pc \in {"init", "diag", "debug"} /\ UNCHANGED stateVars
    BY <2>3 DEF stateVars, Stalled, Owned
  <2>4. QED BY <2>1, <2>2, <2>3 DEF CallThrew, Caught
<1>4. QED BY <1>1, <1>2, <1>3 DEF GoodStep, Leaves

\* Every end of LocalStep is a good step.
LEMMA LocalStepGood ==
  ASSUME NEW s \in Slots, IInv, LocalStep(s)
  PROVE  GoodStep(s)
BY PollLockGood, ChooseGood, DiscoveredGood, ProbedGood, VariantKnownGood, FetchedGood,
   BootCalledGood,
   ReadCalledGood, ReadSummedGood, LoadedGood, WrittenGood, VerifiedOkGood,
   WriteCallFailedGood, RebootCalledGood, DiagCalledGood, DebugCalledGood, CallThrewGood
   DEF LocalStep
-----------------------------------------------------------------------------
(* The steps of the daemon backend, none of which enters the module.       *)

\* A job of the daemon's that ends with the page at rest.
LEMMA RemoteEnd ==
  ASSUME NEW s \in Slots, IInv, jobs[s].pc \notin CallPcs,
         Set(s, NoJob), wasmBusy' = wasmBusy, ~Busy(currentState')
  PROVE  GoodStep(s)
BY NotInCall, QuietJob, NoJobOK DEF JobOK

\* One that goes on, the page waiting for it.
LEMMA RemoteOn ==
  ASSUME NEW s \in Slots, NEW job, IInv, jobs[s].pc \notin CallPcs,
         Set(s, job), DOMAIN job = Fields, job.inCall = FALSE, job.pc \in Stalled,
         wasmBusy' = wasmBusy
  PROVE  GoodStep(s)
BY NotInCall, QuietJob

\* Every end of RemoteDiscovered is a good step.
LEMMA RemoteDiscoveredGood ==
  ASSUME NEW s \in Slots, IInv, RemoteDiscovered(s)
  PROVE  GoodStep(s)
<1>1. jobs[s].pc \notin CallPcs
  BY DEF RemoteDiscovered, At, CallPcs
<1>2. ~Busy(currentState')
  BY RestStates DEF RemoteDiscovered, SelectRemoteDevice, SetState
<1>3. QED BY <1>1, <1>2, RemoteEnd DEF RemoteDiscovered

\* Every end of BootAnswered is a good step.
LEMMA BootAnsweredGood ==
  ASSUME NEW s \in Slots, NEW reply, IInv, jobs[s].pc = "r-boot",
         BootAnswered(s, reply), wasmBusy' = wasmBusy
  PROVE  GoodStep(s)
<1>1. jobs[s].pc \notin CallPcs /\ jobs[s].inCall = FALSE
  BY NotInCall DEF CallPcs
<1>2. CASE reply = "payload"
  <2> DEFINE job == [jobs[s] EXCEPT !.pc = "r-poll"]
  <2>1. DOMAIN job = Fields /\ job.inCall = FALSE /\ job.pc = "r-poll"
    BY <1>1 DEF IInv, JobOK, Fields
  <2>2. Set(s, job)
    BY <1>2 DEF BootAnswered
  <2> HIDE DEF job
  <2>3. QED BY <1>1, <2>1, <2>2, RemoteOn DEF Stalled
<1>3. CASE reply # "payload"
  BY <1>1, <1>3, BootEndsQuiet, RestStates DEF BootAnswered, SetState
<1>4. QED BY <1>2, <1>3

\* Every end of RemoteBooted is a good step.
LEMMA RemoteBootedGood ==
  ASSUME NEW s \in Slots, IInv, RemoteBooted(s)
  PROVE  GoodStep(s)
<1>1. jobs[s].pc = "r-boot" /\ wasmBusy' = wasmBusy
  BY DEF RemoteBooted, At
<1>2. \E reply : BootAnswered(s, reply)
  BY DEF RemoteBooted
<1>3. QED BY <1>1, <1>2, BootAnsweredGood

\* Every end of RemotePolled is a good step.
LEMMA RemotePolledGood ==
  ASSUME NEW s \in Slots, IInv, RemotePolled(s)
  PROVE  GoodStep(s)
<1>1. jobs[s].pc \notin CallPcs /\ jobs[s].inCall = FALSE /\ jobs[s].pc = "r-poll"
  BY NotInCall DEF RemotePolled, At, CallPcs
<1>2. wasmBusy' = wasmBusy
  BY DEF RemotePolled
<1> DEFINE job == [jobs[s] EXCEPT !.polls = @ + 1]
<1>3. \/ BootEnds(s) /\ SetState("done")
      \/ Set(s, job) /\ UNCHANGED stateVars
  BY DEF RemotePolled
<1>4. CASE BootEnds(s) /\ SetState("done")
  BY <1>1, <1>2, <1>4, BootEndsQuiet, RestStates DEF SetState
<1>5. CASE Set(s, job)
  <2>1. DOMAIN job = Fields /\ job.inCall = FALSE /\ job.pc = "r-poll"
    BY <1>1 DEF IInv, JobOK, Fields
  <2> HIDE DEF job
  <2>2. QED BY <1>1, <1>2, <1>5, <2>1, RemoteOn DEF Stalled
<1>6. QED BY <1>3, <1>4, <1>5

\* Every end of RemoteReadAnswered is a good step.
LEMMA RemoteReadAnsweredGood ==
  ASSUME NEW s \in Slots, IInv, RemoteReadAnswered(s)
  PROVE  GoodStep(s)
<1>1. jobs[s].pc \notin CallPcs /\ wasmBusy' = wasmBusy
  BY DEF RemoteReadAnswered, At, CallPcs
<1>2. CASE Set(s, Job("read", "sum"))
  <2> DEFINE job == Job("read", "sum")
  <2>1. DOMAIN job = Fields /\ job.inCall = FALSE /\ job.pc = "sum"
    BY FreshJob
  <2> HIDE DEF job
  <2>2. QED BY <1>1, <1>2, <2>1, RemoteOn DEF Stalled, job
<1>3. CASE Set(s, NoJob) /\ SetState("error")
  BY <1>1, <1>3, RemoteEnd, RestStates DEF SetState
<1>4. QED BY <1>2, <1>3 DEF RemoteReadAnswered

\* Every end of RemoteServed is a good step.
LEMMA RemoteServedGood ==
  ASSUME NEW s \in Slots, IInv, RemoteServed(s)
  PROVE  GoodStep(s)
<1>1. /\ jobs[s].pc \notin CallPcs /\ jobs[s].inCall = FALSE
      /\ wasmBusy' = wasmBusy
  BY NotInCall DEF RemoteServed, At, CallPcs
<1>2. PICK b, v : Set(s, [jobs[s] EXCEPT !.pc = "r-answer", !.board = b, !.verified = v])
  BY DEF RemoteServed
<1> DEFINE job == [jobs[s] EXCEPT !.pc = "r-answer", !.board = b, !.verified = v]
<1>3. DOMAIN job = Fields /\ job.inCall = FALSE /\ job.pc = "r-answer"
  BY <1>1 DEF IInv, JobOK, Fields
<1> HIDE DEF job
<1>4. QED BY <1>1, <1>2, <1>3, RemoteOn DEF Stalled, job

\* Every end of RemoteAnswered is a good step.
LEMMA RemoteAnsweredGood ==
  ASSUME NEW s \in Slots, IInv, RemoteAnswered(s)
  PROVE  GoodStep(s)
<1>1. /\ jobs[s].pc \notin CallPcs /\ jobs[s].inCall = FALSE
      /\ wasmBusy' = wasmBusy
  BY NotInCall DEF RemoteAnswered, At, CallPcs
<1>2. CASE Set(s, [jobs[s] EXCEPT !.pc = "r-reboot", !.index = selectedRemoteIndex])
  <2> DEFINE job == [jobs[s] EXCEPT !.pc = "r-reboot", !.index = selectedRemoteIndex]
  <2>1. DOMAIN job = Fields /\ job.inCall = FALSE /\ job.pc = "r-reboot"
    BY <1>1 DEF IInv, JobOK, Fields
  <2> HIDE DEF job
  <2>2. QED BY <1>1, <1>2, <2>1, RemoteOn DEF Stalled, job
<1>3. CASE Set(s, NoJob) /\ (SetState("done") \/ SetState("error"))
  BY <1>1, <1>3, RemoteEnd, RestStates DEF SetState
<1>4. QED BY <1>2, <1>3 DEF RemoteAnswered, RemoteRebootOrFinish

\* Every end of RemoteWriteFailed is a good step.
LEMMA RemoteWriteFailedGood ==
  ASSUME NEW s \in Slots, IInv, RemoteWriteFailed(s)
  PROVE  GoodStep(s)
<1>1. jobs[s].pc \notin CallPcs
  BY DEF RemoteWriteFailed, At, CallPcs
<1>2. QED BY <1>1, RemoteEnd, RestStates DEF RemoteWriteFailed, SetState

\* Every end of RemoteRebooted is a good step.
LEMMA RemoteRebootedGood ==
  ASSUME NEW s \in Slots, IInv, RemoteRebooted(s)
  PROVE  GoodStep(s)
<1>1. jobs[s].pc \notin CallPcs
  BY DEF RemoteRebooted, At, CallPcs
<1>2. QED BY <1>1, RemoteEnd, RestStates DEF RemoteRebooted, SetState

\* Every end of RemoteDiagAnswered is a good step.
LEMMA RemoteDiagAnsweredGood ==
  ASSUME NEW s \in Slots, IInv, RemoteDiagAnswered(s)
  PROVE  GoodStep(s)
<1>1. jobs[s].pc \notin Stalled /\ jobs[s].inCall = FALSE
  BY NotInCall DEF RemoteDiagAnswered, At, CallPcs, Stalled
<1>2. Set(s, NoJob) /\ wasmBusy' = wasmBusy /\ currentState' = currentState /\ (stranded => stranded')
  BY DEF RemoteDiagAnswered, stateVars
<1>3. QED BY <1>1, <1>2, QuietJob, NoJobOK DEF JobOK

\* Every end of RemoteStep is a good step.
LEMMA RemoteStepGood ==
  ASSUME NEW s \in Slots, IInv, RemoteStep(s)
  PROVE  GoodStep(s)
BY RemoteDiscoveredGood, RemoteBootedGood, RemotePolledGood, RemoteReadAnsweredGood,
   RemoteServedGood, RemoteAnsweredGood, RemoteWriteFailedGood, RemoteRebootedGood,
   RemoteDiagAnsweredGood
   DEF RemoteStep

\* Every end of RemoteBoot is a good step.
LEMMA RemoteBootGood ==
  ASSUME NEW s \in Slots, NEW job, IInv, Ready(s, job), RemoteBoot(s, job),
         wasmBusy' = wasmBusy
  PROVE  GoodStep(s)
<1>1. CASE remoteClient
  <2>1. PICK name, index, before :
               Set(s, [job EXCEPT !.pc = "r-boot", !.name = name, !.index = index,
                                  !.polls = 0, !.before = before])
    BY <1>1 DEF RemoteBoot
  <2> DEFINE new == [job EXCEPT !.pc = "r-boot", !.name = name, !.index = index,
                                !.polls = 0, !.before = before]
  <2>2. DOMAIN new = Fields /\ new.inCall = FALSE /\ new.pc = "r-boot"
    BY DEF Ready, Fields
  <2> HIDE DEF new
  <2>3. QED BY <2>1, <2>2, QuietJob DEF Ready, Stalled, new
<1>2. CASE ~remoteClient
  BY <1>2, AwaitOrNot DEF RemoteBoot
<1>3. QED BY <1>1, <1>2

\* Every end of RemoteWrite is a good step.
LEMMA RemoteWriteGood ==
  ASSUME NEW s \in Slots, NEW job, NEW data, IInv, Ready(s, job),
         RemoteWrite(s, job, data), wasmBusy' = wasmBusy
  PROVE  GoodStep(s)
<1>1. CASE remoteClient /\ inDfuMode
  <2> DEFINE going == Going(job, "r-write")
             new == [going EXCEPT !.index = selectedRemoteIndex, !.image = data]
  <2>1. DOMAIN going = Fields /\ going.inCall = FALSE /\ going.pc = "r-write"
    BY DEF Going, Ready, Fields
  <2> HIDE DEF going
  <2>2. JobOK(new) /\ new.inCall = FALSE /\ new.pc = "r-write"
    BY <2>1 DEF JobOK, Fields
  <2> HIDE DEF new
  <2>3. SetTransfer(s, new)
    BY <1>1 DEF RemoteWrite, new, going
  <2>4. OnlyJob(s) /\ jobs'[s].pc = "r-write" /\ jobs'[s].inCall = FALSE
    BY <2>2, <2>3, SetTransferJob
  <2>5. QED BY <2>4 DEF GoodStep, Keeps, Owned, Stalled, Ready
<1>2. CASE ~(remoteClient /\ inDfuMode)
  <2>1. Set(s, NoJob) /\ wasmBusy' = wasmBusy /\ currentState' = currentState /\ (stranded => stranded')
    BY <1>2 DEF RemoteWrite, stateVars
  <2>2. QED BY <2>1, QuietJob, NoJobOK DEF Ready, JobOK
<1>3. QED BY <1>1, <1>2
-----------------------------------------------------------------------------
(* The page's flows.                                                       *)

\* A step that moves a job the page's state does not depend on, or ends it.
LEMMA AsideGood ==
  ASSUME NEW s \in Slots, NEW job, IInv, jobs[s].inCall = FALSE, jobs[s].pc \notin Stalled,
         Set(s, job), DOMAIN job = Fields, job.inCall = FALSE,
         wasmBusy' = wasmBusy, currentState' = currentState /\ (stranded => stranded')
  PROVE  GoodStep(s)
BY QuietJob

\* Every end of Load is a good step.
LEMMA LoadGood ==
  ASSUME NEW s \in Slots, IInv, Load(s)
  PROVE  GoodStep(s)
<1>1. jobs[s].inCall = FALSE /\ jobs[s].pc \notin Stalled
  BY NotInCall DEF Load, At, CallPcs, Stalled
<1> DEFINE job == [jobs[s] EXCEPT !.pc = "init"]
<1>2. DOMAIN job = Fields /\ job.pc = "init"
  BY DEF IInv, JobOK, Fields
<1> HIDE DEF job
<1>3. OnlyJob(s) /\ Takes(s)
  BY <1>1, <1>2, EnterJob DEF Load, job, CallPcs
<1>4. QED BY <1>1, <1>3 DEF Load, stateVars, GoodStep, Owned

\* Every end of InitCalled is a good step.
LEMMA InitCalledGood ==
  ASSUME NEW s \in Slots, IInv, InitCalled(s)
  PROVE  GoodStep(s)
<1>1. jobs[s].inCall /\ Set(s, NoJob) /\ Unlock
  BY DEF InitCalled, Called
<1>2. currentState' = currentState /\ (stranded => stranded') /\ jobs[s].pc \notin Stalled
  BY DEF InitCalled, Called, At, stateVars, Stalled
<1>3. QED BY <1>1, <1>2, LeaveJob

\* Every end of Boot is a good step.
LEMMA BootGood ==
  ASSUME NEW s \in Slots, NEW job, IInv, Ready(s, job), Boot(s, job)
  PROVE  GoodStep(s)
<1>1. CASE backendMode = "remote"
  BY <1>1, RemoteBootGood DEF Boot
<1>2. CASE backendMode # "remote" /\ tdfuReady
  BY <1>2, LocalBootGood DEF Boot
<1>3. CASE backendMode # "remote" /\ ~tdfuReady
  BY <1>3, AwaitOrNot DEF Boot
<1>4. QED BY <1>1, <1>2, <1>3

\* Every end of Transfer is a good step.
LEMMA TransferGood ==
  ASSUME NEW s \in Slots, NEW job, NEW data, IInv, Ready(s, job), Transfer(s, job, data)
  PROVE  GoodStep(s)
<1>1. CASE backendMode = "remote"
  BY <1>1, RemoteWriteGood DEF Transfer
<1>2. CASE backendMode # "remote"
  BY <1>2, LocalWriteGood DEF Transfer
<1>3. QED BY <1>1, <1>2

\* Every end of Pause is a good step.
LEMMA PauseGood ==
  ASSUME NEW s \in Slots, NEW job, IInv, Ready(s, job), Pause(s, job)
  PROVE  GoodStep(s)
BY AsideGood DEF Pause, Ready, stateVars

\* Whatever the next row holds, the loop over the rows ends in a good step.
LEMMA NextRowGood ==
  ASSUME NEW s \in Slots, NEW job, NEW data, IInv, Ready(s, job), NextRow(s, job, data)
  PROVE  GoodStep(s)
<1>1. Ready(s, NoJob)
  BY NoJobOK DEF Ready, JobOK
<1>2. ASSUME NEW files, NEW row, NEW alone
      PROVE  /\ Ready(s, [job EXCEPT !.pc = "rows", !.row = row, !.files = files])
             /\ Ready(s, [job EXCEPT !.pc = "overlay", !.row = 0, !.rows = 0, !.image = data,
                                     !.alone = alone])
  BY DEF Ready, Fields
<1>3. CASE Transfer(s, job, data)
  BY <1>3, TransferGood
<1>4. CASE Pause(s, NoJob)
  BY <1>1, <1>4, PauseGood
<1>5. CASE \E files, row : Pause(s, [job EXCEPT !.pc = "rows", !.row = row, !.files = files])
  BY <1>2, <1>5, PauseGood
<1>6. CASE \E alone : Pause(s, [job EXCEPT !.pc = "overlay", !.row = 0, !.rows = 0,
                                           !.image = data, !.alone = alone])
  BY <1>2, <1>6, PauseGood
<1>7. QED BY <1>3, <1>4, <1>5, <1>6 DEF NextRow

\* Every end of DoWrite is a good step.
LEMMA DoWriteGood ==
  ASSUME NEW s \in Slots, NEW job, NEW data, IInv, Ready(s, job), DoWrite(s, job, data)
  PROVE  GoodStep(s)
<1>1. ASSUME NEW files, NEW rows
      PROVE  Ready(s, [job EXCEPT !.files = files, !.rows = rows])
  BY DEF Ready, Fields
<1>2. CASE Transfer(s, job, data)
  BY <1>2, TransferGood
<1>3. CASE \E files, rows : NextRow(s, [job EXCEPT !.files = files, !.rows = rows], data)
  BY <1>1, <1>3, NextRowGood
<1>4. QED BY <1>2, <1>3 DEF DoWrite

\* A job as it is may go on to a boot or a write.
LEMMA OwnJobReady ==
  ASSUME NEW s \in Slots, IInv, jobs[s].pc \notin CallPcs, jobs[s].pc \notin Stalled
  PROVE  Ready(s, jobs[s]) /\ Ready(s, NoJob)
<1>1. jobs[s].inCall = FALSE
  BY NotInCall
<1>2. QED BY <1>1, NoJobOK DEF Ready, IInv, JobOK

\* Every end of RowRead is a good step.
LEMMA RowReadGood ==
  ASSUME NEW s \in Slots, IInv, RowRead(s)
  PROVE  GoodStep(s)
<1>1. Ready(s, jobs[s]) /\ Ready(s, NoJob)
  BY OwnJobReady DEF RowRead, At, CallPcs, Stalled
<1>2. CASE NextRow(s, jobs[s], firmwareData)
  BY <1>1, <1>2, NextRowGood
<1>3. CASE Pause(s, NoJob)
  BY <1>1, <1>3, PauseGood
<1>4. QED BY <1>2, <1>3 DEF RowRead

\* Every end of OverlayBaked is a good step.
LEMMA OverlayBakedGood ==
  ASSUME NEW s \in Slots, IInv, OverlayBaked(s)
  PROVE  GoodStep(s)
<1>1. Ready(s, jobs[s]) /\ Ready(s, NoJob)
  BY OwnJobReady DEF OverlayBaked, At, CallPcs, Stalled
<1>2. CASE \E data : Transfer(s, jobs[s], data)
  BY <1>1, <1>2, TransferGood
<1>3. CASE Set(s, NoJob) /\ UNCHANGED <<stateVars, imageVars, wasmBusy>>
  BY <1>1, <1>3, PauseGood DEF Pause, imageVars
<1>4. QED BY <1>2, <1>3 DEF OverlayBaked

\* Every end of GiveUp is a good step.
LEMMA GiveUpGood ==
  ASSUME NEW s \in Slots, IInv, Ready(s, NoJob), GiveUp(s), wasmBusy' = wasmBusy
  PROVE  GoodStep(s)
BY AsideGood DEF GiveUp, Ready

\* Every end of Downloaded is a good step.
LEMMA DownloadedGood ==
  ASSUME NEW s \in Slots, IInv, Downloaded(s)
  PROVE  GoodStep(s)
<1>1. Ready(s, jobs[s]) /\ Ready(s, NoJob)
  BY OwnJobReady DEF Downloaded, At, CallPcs, Stalled
<1>2. wasmBusy' = wasmBusy
  BY DEF Downloaded
<1>3. CASE /\ \E data : Set(s, [jobs[s] EXCEPT !.pc = "check", !.image = data])
           /\ UNCHANGED stateVars
  <2>1. PICK data : Set(s, [jobs[s] EXCEPT !.pc = "check", !.image = data])
    BY <1>3
  <2> DEFINE job == [jobs[s] EXCEPT !.pc = "check", !.image = data]
  <2>2. DOMAIN job = Fields /\ job.inCall = FALSE
    BY <1>1 DEF Ready, Fields
  <2> HIDE DEF job
  <2>3. QED BY <1>1, <1>2, <1>3, <2>1, <2>2, AsideGood DEF Ready, stateVars, job
<1>4. CASE GiveUp(s)
  BY <1>1, <1>2, <1>4, GiveUpGood
<1>5. QED BY <1>3, <1>4 DEF Downloaded

\* Every end of ReleaseChecked is a good step.
LEMMA ReleaseCheckedGood ==
  ASSUME NEW s \in Slots, IInv, ReleaseChecked(s)
  PROVE  GoodStep(s)
<1>1. Ready(s, jobs[s]) /\ Ready(s, NoJob)
  BY OwnJobReady DEF ReleaseChecked, At, CallPcs, Stalled
<1> DEFINE data == jobs[s].image
           job == [jobs[s] EXCEPT !.pick = data, !.image = None]
<1>2. Ready(s, job)
  BY <1>1 DEF Ready, Fields
<1>3. CASE EnsureDfuMode(s, job, data)
  BY <1>2, <1>3, DoWriteGood, BootGood DEF EnsureDfuMode
<1>4. CASE GiveUp(s) /\ wasmBusy' = wasmBusy
  BY <1>1, <1>4, GiveUpGood
<1>5. QED BY <1>3, <1>4 DEF ReleaseChecked

\* Every end of Awaited is a good step.
LEMMA AwaitedGood ==
  ASSUME NEW s \in Slots, IInv, Awaited(s)
  PROVE  GoodStep(s)
<1>1. Ready(s, jobs[s]) /\ Ready(s, NoJob)
  BY OwnJobReady DEF Awaited, At, CallPcs, Stalled
<1>2. wasmBusy' = wasmBusy
  BY DEF Awaited
<1>3. CASE Set(s, [jobs[s] EXCEPT !.pc = "settle"]) /\ UNCHANGED stateVars
  <2> DEFINE job == [jobs[s] EXCEPT !.pc = "settle"]
  <2>1. DOMAIN job = Fields /\ job.inCall = FALSE
    BY <1>1 DEF Ready, Fields
  <2> HIDE DEF job
  <2>2. QED BY <1>1, <1>2, <1>3, <2>1, AsideGood DEF Ready, stateVars, job
<1>4. CASE Set(s, [jobs[s] EXCEPT !.polls = @ + 1]) /\ UNCHANGED stateVars
  <2> DEFINE job == [jobs[s] EXCEPT !.polls = @ + 1]
  <2>1. DOMAIN job = Fields /\ job.inCall = FALSE
    BY <1>1 DEF Ready, Fields
  <2> HIDE DEF job
  <2>2. QED BY <1>1, <1>2, <1>4, <2>1, AsideGood DEF Ready, stateVars, job
<1>5. CASE GiveUp(s)
  BY <1>1, <1>2, <1>5, GiveUpGood
<1>6. QED BY <1>3, <1>4, <1>5 DEF Awaited

\* Every end of Settled is a good step.
LEMMA SettledGood ==
  ASSUME NEW s \in Slots, IInv, Settled(s)
  PROVE  GoodStep(s)
<1>1. Ready(s, jobs[s]) /\ Ready(s, NoJob)
  BY OwnJobReady DEF Settled, At, CallPcs, Stalled
<1>2. ASSUME NEW alone
      PROVE  Ready(s, [jobs[s] EXCEPT !.alone = alone])
  BY <1>1 DEF Ready, Fields
<1>3. CASE \E alone : DoWrite(s, [jobs[s] EXCEPT !.alone = alone], firmwareData)
  BY <1>2, <1>3, DoWriteGood
<1>4. CASE GiveUp(s) /\ wasmBusy' = wasmBusy
  BY <1>1, <1>4, GiveUpGood
<1>5. QED BY <1>3, <1>4 DEF Settled

\* Every end of JobStep is a good step.
LEMMA JobStepGood ==
  ASSUME NEW s \in Slots, IInv, JobStep(s)
  PROVE  GoodStep(s)
BY LocalStepGood, RemoteStepGood, InitCalledGood, RowReadGood, OverlayBakedGood,
   DownloadedGood, ReleaseCheckedGood, AwaitedGood, SettledGood
   DEF JobStep, PageStep
-----------------------------------------------------------------------------
(* What users start.                                                       *)

\* Every end of AutoAttach is a good step.
LEMMA AutoAttachGood ==
  ASSUME NEW s \in Slots, NEW st, IInv, FreeSlot(s), AutoAttach(s, st)
  PROVE  GoodStep(s)
<1>1. jobs[s].pc \notin Stalled
  BY FreeSlotIdle DEF Stalled
<1>2. CASE UNCHANGED <<stateVars, inDfuMode, jobs, wasmBusy>>
  <2>1. jobs' = jobs /\ wasmBusy' = wasmBusy /\ currentState' = currentState /\ (stranded => stranded')
    BY <1>2 DEF stateVars
  <2>2. QED BY <1>1, <2>1, IdleGood
<1>3. CASE SetState("done") /\ UNCHANGED <<jobs, wasmBusy>>
  <2>1. jobs' = jobs /\ wasmBusy' = wasmBusy /\ ~Busy(currentState')
    BY <1>3, RestStates DEF SetState
  <2>2. QED BY <1>1, <2>1, IdleGood
<1>4. CASE Enter(s, Job("attach", "discover"))
  BY <1>4, EnterFresh DEF CallPcs, Stalled
<1>5. QED BY <1>2, <1>3, <1>4 DEF AutoAttach

\* Every end of ConnectDevice is a good step.
LEMMA ConnectDeviceGood ==
  ASSUME NEW s \in Slots, IInv, ConnectDevice(s)
  PROVE  GoodStep(s)
<1>1. FreeSlot(s) /\ jobs[s].pc \notin Stalled
  BY FreeSlotIdle DEF ConnectDevice, Stalled
<1>2. wasmBusy' = wasmBusy
  BY DEF ConnectDevice, RemoteConnect, LocalConnect
<1>3. CASE jobs' = jobs /\ (~Busy(currentState') \/ (currentState' = currentState /\ (stranded => stranded')))
  BY <1>1, <1>2, <1>3, IdleGood
<1>4. CASE Set(s, Job("connect", "choose")) \/ Set(s, Job("connect", "r-discover"))
  BY <1>1, <1>2, <1>4, QuietFresh DEF Stalled
<1>5. CASE RemoteConnect(s)
  BY <1>3, <1>4, <1>5, RestStates DEF RemoteConnect, SetState, stateVars
<1>6. CASE LocalConnect(s)
  BY <1>3, <1>4, <1>6 DEF LocalConnect, stateVars
<1>7. QED BY <1>5, <1>6 DEF ConnectDevice

\* Every end of DoBootstrap is a good step.
LEMMA DoBootstrapGood ==
  ASSUME NEW s \in Slots, IInv, DoBootstrap(s)
  PROVE  GoodStep(s)
<1>1. jobs[s].inCall = FALSE /\ jobs[s].pc \notin Stalled
  BY FreeSlotIdle DEF DoBootstrap, Stalled
<1> DEFINE job == Job("boot", "idle")
<1>2. DOMAIN job = Fields /\ job.inCall = FALSE
  BY FreshJob
<1> HIDE DEF job
<1>3. QED BY <1>1, <1>2, BootGood DEF DoBootstrap, Ready, job

\* Every end of DoRead is a good step.
LEMMA DoReadGood ==
  ASSUME NEW s \in Slots, IInv, DoRead(s)
  PROVE  GoodStep(s)
<1>1. FreeSlot(s) /\ jobs[s].inCall = FALSE /\ jobs[s].pc \notin Stalled
  BY FreeSlotIdle DEF DoRead, Stalled
<1>2. CASE RemoteRead(s) /\ wasmBusy' = wasmBusy
  <2>1. CASE UNCHANGED <<stateVars, jobs>>
    <3>1. jobs' = jobs /\ currentState' = currentState /\ (stranded => stranded')
      BY <2>1 DEF stateVars
    <3>2. QED BY <1>1, <1>2, <3>1, IdleGood
  <2>2. CASE Set(s, [Job("read", "r-read") EXCEPT !.index = selectedRemoteIndex])
    <3> DEFINE fresh == Job("read", "r-read")
               job == [fresh EXCEPT !.index = selectedRemoteIndex]
    <3>1. DOMAIN fresh = Fields /\ fresh.inCall = FALSE /\ fresh.pc = "r-read"
      BY FreshJob
    <3> HIDE DEF fresh
    <3>2. DOMAIN job = Fields /\ job.inCall = FALSE /\ job.pc = "r-read"
      BY <3>1 DEF Fields
    <3> HIDE DEF job
    <3>3. QED BY <1>1, <1>2, <2>2, <3>2, QuietJob DEF Stalled, job, fresh
  <2>3. QED BY <1>2, <2>1, <2>2 DEF RemoteRead
<1>3. CASE LocalRead(s)
  BY <1>1, <1>3, LocalReadGood
<1>4. QED BY <1>2, <1>3 DEF DoRead

\* Every end of DoDiag is a good step.
LEMMA DoDiagGood ==
  ASSUME NEW s \in Slots, IInv, DoDiag(s)
  PROVE  GoodStep(s)
<1>1. /\ FreeSlot(s) /\ jobs[s].inCall = FALSE /\ jobs[s].pc \notin Stalled
      /\ currentState' = currentState /\ (stranded => stranded')
  BY FreeSlotIdle DEF DoDiag, Stalled, stateVars
<1>2. CASE Set(s, [Job("diag", "r-diag") EXCEPT !.index = selectedRemoteIndex])
           /\ wasmBusy' = wasmBusy
  <2> DEFINE fresh == Job("diag", "r-diag")
             job == [fresh EXCEPT !.index = selectedRemoteIndex]
  <2>1. DOMAIN fresh = Fields /\ fresh.inCall = FALSE
    BY FreshJob
  <2> HIDE DEF fresh
  <2>2. DOMAIN job = Fields /\ job.inCall = FALSE
    BY <2>1 DEF Fields
  <2> HIDE DEF job
  <2>3. QED BY <1>1, <1>2, <2>2, AsideGood DEF job, fresh
<1>3. CASE Enter(s, Job("diag", "diag"))
  BY <1>1, <1>3, EnterFresh DEF CallPcs
<1>4. QED BY <1>2, <1>3 DEF DoDiag

\* Every end of SelectFirmware is a good step.
LEMMA SelectFirmwareGood ==
  ASSUME NEW s \in Slots, IInv, SelectFirmware(s)
  PROVE  GoodStep(s)
<1>1. jobs[s].inCall = FALSE /\ jobs[s].pc \notin Stalled
  BY FreeSlotIdle DEF SelectFirmware, Stalled
<1>2. PICK image : Set(s, [Job("pick", "pick") EXCEPT !.pick = image])
  BY DEF SelectFirmware
<1> DEFINE fresh == Job("pick", "pick")
           job == [fresh EXCEPT !.pick = image]
<1>3. DOMAIN fresh = Fields /\ fresh.inCall = FALSE
  BY FreshJob
<1> HIDE DEF fresh
<1>4. DOMAIN job = Fields /\ job.inCall = FALSE
  BY <1>3 DEF Fields
<1>5. wasmBusy' = wasmBusy /\ currentState' = currentState /\ (stranded => stranded')
  BY DEF SelectFirmware, stateVars
<1> HIDE DEF job
<1>6. QED BY <1>1, <1>2, <1>4, <1>5, AsideGood DEF job, fresh

\* Every end of FirmwareSelected is a good step.
LEMMA FirmwareSelectedGood ==
  ASSUME NEW s \in Slots, IInv, FirmwareSelected(s)
  PROVE  GoodStep(s)
<1>1. Ready(s, jobs[s])
  BY OwnJobReady DEF FirmwareSelected, At, CallPcs, Stalled
<1>2. Ready(s, [jobs[s] EXCEPT !.kind = "write"])
  BY <1>1 DEF Ready, Fields
<1>3. QED BY <1>2, DoWriteGood DEF FirmwareSelected

\* Every end of FlashFromRelease is a good step.
LEMMA FlashFromReleaseGood ==
  ASSUME NEW s \in Slots, IInv, FlashFromRelease(s)
  PROVE  GoodStep(s)
<1>1. jobs[s].inCall = FALSE /\ jobs[s].pc \notin Stalled
  BY FreeSlotIdle DEF FlashFromRelease, Stalled
<1> DEFINE fresh == Job("release", "download")
           job == [fresh EXCEPT !.pick = chosen]
<1>2. DOMAIN fresh = Fields /\ fresh.inCall = FALSE
  BY FreshJob
<1> HIDE DEF fresh
<1>3. DOMAIN job = Fields /\ job.inCall = FALSE
  BY <1>2 DEF Fields
<1> HIDE DEF job
<1>4. QED BY <1>1, <1>3, AsideGood DEF FlashFromRelease, job, fresh

\* Every end of SetDebug is a good step.
LEMMA SetDebugGood ==
  ASSUME NEW s \in Slots, IInv, SetDebug(s)
  PROVE  GoodStep(s)
<1>1. currentState' = currentState /\ (stranded => stranded')
  BY DEF SetDebug, stateVars
<1>2. QED BY <1>1, EnterFresh DEF SetDebug, CallPcs

\* Every end of UserStep is a good step.
LEMMA UserStepGood ==
  ASSUME NEW s \in Slots, IInv, UserStep(s)
  PROVE  GoodStep(s)
BY ConnectDeviceGood, DoBootstrapGood, DoReadGood, DoDiagGood, SelectFirmwareGood,
   FirmwareSelectedGood, FlashFromReleaseGood, SetDebugGood
   DEF UserStep

-----------------------------------------------------------------------------
(* What is set and entered, and what boards do.                            *)

\* What is set, entered or picked touches no job and no lock.
LEMMA SettingsStepFree ==
  ASSUME SettingsStep
  PROVE  FreeStep
<1>1. CASE OpenSettings \/ CloseSettings \/ \E option \in Toggles : Toggle(option)
  BY <1>1 DEF OpenSettings, CloseSettings, Toggle, FreeStep, stateVars
<1>2. CASE \E mode \in {"dfu", "remote"} : SaveSettings(mode)
  BY <1>2, RestStates DEF SaveSettings, SetState, FreeStep
<1>3. CASE ReleaseChanged
  BY <1>3 DEF ReleaseChanged, FreeStep
<1>a. CASE EnterForm
  BY <1>a DEF EnterForm, FreeStep, stateVars
<1>4. CASE \E i \in DOMAIN remoteDevices : PickRemoteDevice(i)
  BY <1>4, RestStates DEF PickRemoteDevice, SelectRemoteDevice, SetState, FreeStep
<1>5. CASE \/ ChooseLoaders \/ (\E which \in Loaders : LoaderRead(which))
           \/ ClearCustomBootloader
  BY <1>5 DEF ChooseLoaders, LoaderRead, ClearCustomBootloader, FreeStep, stateVars
<1>6. QED BY <1>1, <1>2, <1>3, <1>a, <1>4, <1>5 DEF SettingsStep

\* ConnectEvent keeps the invariant.
LEMMA ConnectEventKeeps ==
  ASSUME NEW s \in Slots, NEW b, NEW st, IInv, ConnectEvent(s, b, st)
  PROVE  IInv'
<1>1. CASE FreeSlot(s) /\ AutoAttach(s, st)
  BY <1>1, AutoAttachGood, GoodStepKeeps
<1>2. CASE UNCHANGED <<stateVars, inDfuMode, jobs, wasmBusy>>
  BY <1>2, FreeStepKeeps DEF FreeStep, stateVars
<1>3. QED BY <1>1, <1>2 DEF ConnectEvent

\* Unplug keeps the invariant.
LEMMA UnplugKeeps ==
  ASSUME NEW b, IInv, Unplug(b)
  PROVE  IInv'
<1>1. /\ DOMAIN jobs' = Slots
      /\ wasmBusy' = wasmBusy /\ currentState' = currentState /\ (stranded => stranded')
  BY DEF Unplug, stateVars
<1>2. ASSUME NEW r \in Slots
      PROVE  /\ JobOK(jobs'[r])
             /\ jobs'[r].inCall = jobs[r].inCall /\ jobs'[r].pc = jobs[r].pc
  <2>1. CASE jobs'[r] = jobs[r]
    BY <2>1 DEF IInv
  <2>2. CASE jobs'[r] = [jobs[r] EXCEPT !.board = None]
    BY <2>2 DEF IInv, JobOK, Fields
  <2>3. QED BY <2>1, <2>2 DEF Unplug
<1>3. OneCallAtATime' /\ BusyHasOwner'
  BY <1>1, <1>2 DEF IInv, OneCallAtATime, BusyHasOwner, Busy, Stalled
<1>4. QED BY <1>1, <1>2, <1>3 DEF IInv

\* BoardStep keeps the invariant.
LEMMA BoardStepKeeps ==
  ASSUME IInv, BoardStep
  PROVE  IInv'
<1>1. CASE \E b \in LocalBoards, s \in Slots : PlugIn(s, b) \/ GadgetAppears(s, b)
  BY <1>1, ConnectEventKeeps DEF PlugIn, GadgetAppears
<1>2. CASE \E b : Unplug(b)
  BY <1>2, UnplugKeeps
<1>3. CASE \E b \in AtDaemon : DaemonGadgetAppears(b)
  <2>1. FreeStep
    BY <1>3 DEF DaemonGadgetAppears, FreeStep, stateVars
  <2>2. QED BY <2>1, FreeStepKeeps
<1>4. QED BY <1>1, <1>2, <1>3 DEF BoardStep

-----------------------------------------------------------------------------
(* The theorems.                                                           *)

\* The page is loaded with one job, in no call.
LEMMA InitIInv ==
  ASSUME Init
  PROVE  IInv
<1>1. \A s \in Slots : JobOK(jobs[s]) /\ jobs[s].inCall = FALSE
  <2>1. JobOK(Job("init", "load")) /\ Job("init", "load").inCall = FALSE
    <3> DEFINE job == Job("init", "load")
    <3>1. DOMAIN job = Fields /\ job.inCall = FALSE
      BY FreshJob
    <3> HIDE DEF job
    <3>2. JobOK(job) /\ job.inCall = FALSE
      BY <3>1 DEF JobOK
    <3>3. QED BY <3>2 DEF job
  <2>2. JobOK(NoJob) /\ NoJob.inCall = FALSE
    BY NoJobOK DEF JobOK
  <2>3. QED BY <2>1, <2>2 DEF Init
<1>2. DOMAIN jobs = Slots /\ wasmBusy = FALSE /\ currentState = "idle"
  BY DEF Init
<1>3. QED BY <1>1, <1>2, RestStates DEF IInv, OneCallAtATime, BusyHasOwner

\* Every step keeps the lock's count and the busy page's owner.
LEMMA NextKeeps ==
  ASSUME IInv, [Next]_vars
  PROVE  IInv'
<1>1. CASE \E s \in Slots : Load(s) \/ JobStep(s) \/ UserStep(s)
  BY <1>1, LoadGood, JobStepGood, UserStepGood, GoodStepKeeps
<1>2. CASE SettingsStep
  BY <1>2, SettingsStepFree, FreeStepKeeps
<1>3. CASE BoardStep
  BY <1>3, BoardStepKeeps
<1>4. CASE UNCHANGED vars
  <2>1. FreeStep
    BY <1>4 DEF vars, stateVars, FreeStep
  <2>2. QED BY <2>1, FreeStepKeeps
<1>5. QED BY <1>1, <1>2, <1>3, <1>4 DEF Next

\* The invariant holds in every state of the page.
THEOREM SpecIInv == Spec => []IInv
<1>1. Init => IInv
  BY InitIInv
<1>2. IInv /\ [Next]_vars => IInv'
  BY NextKeeps
<1>3. QED BY <1>1, <1>2, PTL DEF Spec

\* However many activations contend for it and whichever of their calls throw, one at most
\* is suspended in the WebAssembly module, and the lock is held exactly then (wasmCall).
THEOREM SpecOneCallAtATime == Spec => []OneCallAtATime
<1>1. IInv => OneCallAtATime
  BY DEF IInv
<1>2. QED BY <1>1, SpecIInv, PTL

\* However flows cross, whatever fails and whichever call throws, a page whose buttons are
\* disabled has an activation under way that will enable them, unless it was an automatic
\* attach that threw (setState and the ends of every flow, autoAttachDevice).
THEOREM SpecBusyHasOwner == Spec => []BusyHasOwner
<1>1. IInv => BusyHasOwner
  BY DEF IInv
<1>2. QED BY <1>1, SpecIInv, PTL

-----------------------------------------------------------------------------
(* What is baked into an image.                                            *)

\* Where the overlay is depends on the partition table only.
LEMMA InfoOfLayout ==
  ASSUME NEW image, NEW baked, baked.layout = image.layout
  PROVE  OverlayInfo(baked) = OverlayInfo(image)
<1>1. ParseMtdparts(baked) = ParseMtdparts(image)
  BY DEF ParseMtdparts
<1>2. QED BY <1>1 DEF OverlayInfo

\* An image, and what its partition table says of the overlay.
Sound(image, info) ==
  /\ \E layout, content, ubi :
       /\ image = [layout |-> layout, flash |-> content, ubi |-> ubi]
       /\ content \in Seq(SUBSET STRING)
  /\ info = OverlayInfo(image)
  /\ info.offset \in Nat /\ info.size \in Int

\* On NOR a bake that succeeds replaces the overlay's blocks and no others.
LEMMA NorBakes ==
  ASSUME NEW image, NEW info, NEW files, Sound(image, info), info.type = "nor",
         IsFiniteSet(files), files # {},
         NEW result, result = InjectNor(image, info, files), result.ok
  PROVE  /\ Outside(result.image) = Outside(image)
         /\ OverlayOf(result.image) = OverlayBlock(files)
<1> DEFINE count == Cardinality(files)
           length == IF count > info.size THEN count ELSE info.size
           last == info.offset + length
<1>1. count \in Nat /\ count > 0
  BY FS_CardinalityType, FS_EmptySet
<1>2. PICK layout, content, ubi :
             /\ image = [layout |-> layout, flash |-> content, ubi |-> ubi]
             /\ content \in Seq(SUBSET STRING)
  BY DEF Sound
<1> DEFINE baked == [i \in 1..Len(content) |->
                       IF i \in (info.offset + 1)..last THEN OverlayBlock(files)
                       ELSE content[i]]
           after == [layout |-> layout, flash |-> baked, ubi |-> ubi]
<1>3. image.flash = content /\ image.layout = layout /\ image.ubi = ubi
  BY <1>2
<1>4. length <= info.size /\ last <= Len(content)
  <2>1. SUFFICES ASSUME length > info.size \/ last > Len(content) PROVE FALSE
    BY <1>1, <1>2 DEF Sound
  <2>2. result = Refused
    BY <1>3, <2>1 DEF InjectNor
  <2>3. QED BY <2>2 DEF Refused
<1>5. result.image = after
  <2>1. ~(length > info.size) /\ ~(last > Len(content))
    BY <1>1, <1>2, <1>4 DEF Sound
  <2>2. result = Injected([image EXCEPT !.flash = baked])
    BY <1>3, <2>1 DEF InjectNor
  <2>3. [image EXCEPT !.flash = baked] = after
    <3> HIDE DEF baked
    <3>1. QED BY <1>2
  <2> HIDE DEF after
  <2>4. QED BY <2>2, <2>3 DEF Injected
<1>6. length = info.size /\ length > 0
  BY <1>1, <1>4 DEF Sound
<1>7. OverlayInfo(after) = info
  BY <1>3, InfoOfLayout DEF Sound
<1>8. OverlayOf(after) = OverlayBlock(files)
  <2>1. info.offset + 1 \in 1..Len(content) /\ info.offset + 1 \in (info.offset + 1)..last
    BY <1>2, <1>4, <1>6 DEF Sound
  <2>2. after.flash[info.offset + 1] = OverlayBlock(files)
    BY <2>1
  <2> HIDE DEF after
  <2>3. QED BY <1>7, <2>2 DEF OverlayOf
<1>9. Outside(after) = Outside(image)
  <2> DEFINE region == (info.offset + 1)..(info.offset + info.size)
             rest == 1..Len(content) \ region
  <2>1. DOMAIN content = 1..Len(content)
    BY <1>2
  <2>2. [i \in rest |-> baked[i]] = [i \in rest |-> content[i]]
    BY <1>6
  <2>3. Outside(after) = [blocks |-> [i \in rest |-> baked[i]],
                          volumes |-> [v \in DOMAIN ubi \ {3} |-> ubi[v]]]
    BY <1>7 DEF Outside
  <2>4. Outside(image) = [blocks |-> [i \in rest |-> content[i]],
                          volumes |-> [v \in DOMAIN ubi \ {3} |-> ubi[v]]]
    BY <1>3, <2>1 DEF Outside, Sound
  <2>5. QED BY <2>2, <2>3, <2>4
<1>10. QED BY <1>5, <1>8, <1>9

\* On NAND a bake that succeeds replaces the overlay's volume and no other.
LEMMA NandBakes ==
  ASSUME NEW image, NEW info, NEW files, Sound(image, info), info.type = "nand",
         DOMAIN image.ubi \subseteq 0..3,
         NEW result, result = InjectNand(image, files), result.ok
  PROVE  /\ Outside(result.image) = Outside(image)
         /\ OverlayOf(result.image) = OverlayVolume(files)
<1>1. PICK layout, content, ubi :
             /\ image = [layout |-> layout, flash |-> content, ubi |-> ubi]
             /\ content \in Seq(SUBSET STRING)
  BY DEF Sound
<1> DEFINE volumes == [v \in 0..3 |-> IF v = 3 THEN OverlayVolume(files) ELSE ubi[v]]
           after == [layout |-> layout, flash |-> content, ubi |-> volumes]
<1>2. image.flash = content /\ image.layout = layout /\ image.ubi = ubi
  BY <1>1
<1>3. {0, 1, 2} \subseteq DOMAIN ubi /\ result = Injected([image EXCEPT !.ubi = volumes])
  BY <1>2 DEF InjectNand, ReadUbiVolumes, Refused
<1>4. result.image = after
  BY <1>1, <1>3 DEF Injected
<1>5. OverlayInfo(after) = info
  BY <1>2, InfoOfLayout DEF Sound
<1>6. OverlayOf(after) = OverlayVolume(files)
  BY <1>5 DEF OverlayOf
<1>7. Outside(after) = Outside(image)
  <2>1. DOMAIN ubi \ {3} = {0, 1, 2} /\ DOMAIN volumes \ {3} = {0, 1, 2}
    BY <1>2, <1>3
  <2>2. [v \in DOMAIN volumes \ {3} |-> volumes[v]] = [v \in DOMAIN ubi \ {3} |-> ubi[v]]
    BY <2>1
  <2>3. Outside(after) = [blocks |-> [i \in DOMAIN content \ {} |-> content[i]],
                          volumes |-> [v \in DOMAIN volumes \ {3} |-> volumes[v]]]
    BY <1>5 DEF Outside
  <2>4. Outside(image) = [blocks |-> [i \in DOMAIN content \ {} |-> content[i]],
                          volumes |-> [v \in DOMAIN ubi \ {3} |-> ubi[v]]]
    BY <1>2 DEF Outside, Sound
  <2>5. QED BY <2>2, <2>3, <2>4
<1>8. QED BY <1>4, <1>6, <1>7

\* A bake that succeeds changes nothing outside the overlay, and leaves in the overlay the
\* files that were asked for, on NOR and on NAND (injectOverlay, injectNor, injectNand).
THEOREM InjectOverlayBakes ==
  ASSUME NEW image, NEW info, NEW files, Sound(image, info),
         DOMAIN image.ubi \subseteq 0..3,
         IsFiniteSet(files), files # {},
         InjectOverlay(image, files).ok
  PROVE  LET baked == InjectOverlay(image, files).image
         IN  /\ Outside(baked) = Outside(image)
             /\ OverlayOf(baked) = IF info.type = "nor" THEN OverlayBlock(files)
                                  ELSE OverlayVolume(files)
<1>1. info = OverlayInfo(image)
  BY DEF Sound
<1>2. CASE info.type = "nor"
  <2>1. InjectOverlay(image, files) = InjectNor(image, info, files)
    BY <1>1, <1>2 DEF InjectOverlay
  <2>2. QED BY <1>2, <2>1, NorBakes
<1>3. CASE info.type = "nand"
  <2>1. InjectOverlay(image, files) = InjectNand(image, files)
    BY <1>1, <1>3 DEF InjectOverlay
  <2>2. QED BY <1>3, <2>1, NandBakes
<1>4. CASE info.type \notin {"nor", "nand"}
  BY <1>1, <1>4 DEF InjectOverlay, Refused
<1>5. QED BY <1>2, <1>3, <1>4
-----------------------------------------------------------------------------
(* What a write that ends well has written.                                *)

\* What may be flashed: images of the user's, of releases, and downloads that were damaged.
Firmware == Images \union {asset.image : asset \in Assets} \union {Torn}

\* The image is what the job is asked to write.
Right(job, image) ==
  IF job.files = {} THEN image = job.pick
  ELSE /\ Outside(image) = Outside(job.pick)
       /\ OverlayOf(image) \in {OverlayBlock(job.files), OverlayVolume(job.files)}

Baking == {"rows", "overlay"}
Ending == {"reboot", "r-answer", "r-reboot"}

\* A job knows what it is to write; a download, what it is of.
PickOK(job) ==
  /\ job.pc = "download" => job.pick \in Assets
  /\ job.pc = "check" => job.pick \in Assets /\ job.image \in {job.pick.image, Torn}
  /\ job.pc \in Baking \union {"pick"} => job.pick \in Firmware
  /\ job.kind = "release" /\ job.pc \notin {"download", "check"} => job.pick \in Firmware
  /\ job.pc \in {"await", "settle"} => job.kind = "release"

\* Before its files are baked in, or without any, and while they are.
PlainOK(job) == job.files = {} /\ job.verified = FALSE
BakeOK(job) ==
  /\ job.files # {} /\ IsFiniteSet(job.files) /\ job.verified = FALSE
  /\ job.pc = "overlay" /\ job.alone => job.image = job.pick

\* While a transfer is alone, what is staged, loaded, sent and in the end on the board is
\* right; and the verification it has come to is the one it was asked for.
TransferOK(job, sent, onBoard) ==
  /\ job.opts = job.asked
  /\ job.pc = "verify" => "verify" \in job.asked
  /\ job.pc \notin Ending => job.verified = FALSE
  /\ job.pc \in Ending => (job.verified <=> "verify" \in job.asked)
  /\ job.alone =>
       /\ job.pc \in {"write", "verify"} /\ sent # None => Right(job, sent)
       /\ job.pc \in {"write", "verify"} /\ job.image # None => Right(job, job.image)
       /\ job.pc = "r-write" => Right(job, job.image)
       /\ job.pc \in Ending /\ job.board # None => Right(job, onBoard[job.board])

WriteOK(job, sent, onBoard) ==
  /\ job.board \in Boards \union {None}
  /\ PickOK(job)
  /\ job.pc \notin Baking \union TransferPcs => PlainOK(job)
  /\ job.pc \in Baking => BakeOK(job)
  /\ job.pc \in TransferPcs => TransferOK(job, sent, onBoard)

\* A transfer that is alone is the only one.
AloneIsOnly ==
  \A r, s \in Slots :
    jobs[r].alone /\ jobs[r].pc \in TransferPcs /\ jobs[s].pc \in TransferPcs => r = s

\* A release can be flashed when one was chosen.
ChosenOK ==
  /\ chosen \in Assets \union {None}
  /\ relEnabled => chosen # None

WritesOK == AloneIsOnly /\ \A s \in Slots : WriteOK(jobs[s], staged, flash)

\* What must be so besides.
Around == DOMAIN flash = Boards /\ form \in Forms /\ ChosenOK

\* The inductive invariant of what is written.
WInv == Around /\ WritesOK

\* A free slot, and a job that has just begun, write nothing.
LEMMA NoJobWrites ==
  ASSUME NEW sent, NEW onBoard
  PROVE  WriteOK(NoJob, sent, onBoard)
BY DEF WriteOK, PickOK, PlainOK, NoJob, Baking, TransferPcs

\* A job that has just begun and is no release writes nothing yet.
LEMMA FreshWrites ==
  ASSUME NEW kind, NEW pc, NEW sent, NEW onBoard, kind # "release",
         pc \notin Baking \union TransferPcs \union {"pick", "download", "check", "await", "settle"}
  PROVE  WriteOK(Job(kind, pc), sent, onBoard)
BY DEF WriteOK, PickOK, PlainOK, Job, NoJob, Baking

\* What WriteOK looks at of a job.
SameWrite(job, new) ==
  /\ new.kind = job.kind /\ new.pick = job.pick /\ new.files = job.files
  /\ new.verified = job.verified /\ new.board = job.board

\* A job that comes to or goes on in a flow without a transfer.
LEMMA PlainMoves ==
  ASSUME NEW job, NEW new, NEW sent, NEW onBoard, WriteOK(job, sent, onBoard),
         job.pc \notin Baking \union TransferPcs \union {"download", "check"},
         new.pc \notin Baking \union TransferPcs \union {"pick", "download", "check"},
         new.pc \in {"await", "settle"} => new.kind = "release",
         SameWrite(job, new),
         NEW after, NEW boards
  PROVE  WriteOK(new, after, boards)
BY DEF WriteOK, PickOK, PlainOK, SameWrite

\* Only the lock is another.
LEMMA LockMoves ==
  ASSUME NEW job, NEW busy, NEW sent, NEW onBoard, WriteOK(job, sent, onBoard),
         DOMAIN job = Fields
  PROVE  WriteOK([job EXCEPT !.inCall = busy], sent, onBoard)
<1> DEFINE new == [job EXCEPT !.inCall = busy]
<1>1. /\ new.pc = job.pc /\ SameWrite(job, new) /\ new.image = job.image
      /\ new.opts = job.opts /\ new.asked = job.asked /\ new.board = job.board
      /\ new.alone = job.alone
  BY DEF SameWrite, Fields
<1> HIDE DEF new
<1>2. PickOK(new)
  BY <1>1 DEF WriteOK, PickOK, SameWrite
<1>3. PlainOK(job) => PlainOK(new)
  BY <1>1 DEF PlainOK, SameWrite
<1>4. BakeOK(job) => BakeOK(new)
  BY <1>1 DEF BakeOK, SameWrite
<1>5. TransferOK(job, sent, onBoard) => TransferOK(new, sent, onBoard)
  BY <1>1 DEF TransferOK, SameWrite, Right
<1>6. QED BY <1>1, <1>2, <1>3, <1>4, <1>5 DEF WriteOK, new

-----------------------------------------------------------------------------
(* What a step may do to what is written.                                  *)

\* Nobody else's job changes.
Only(s) ==
  /\ DOMAIN jobs' = Slots
  /\ \A r \in Slots \ {s} : jobs'[r] = jobs[r]

\* A step of one job that begins no transfer.
WriteMove(s) ==
  /\ Only(s)
  /\ WriteOK(jobs'[s], staged', flash')
  /\ jobs'[s].pc \in TransferPcs =>
       jobs[s].pc \in TransferPcs /\ (jobs'[s].alone => jobs[s].alone)
  /\ jobs[s].pc \in TransferPcs \/ UNCHANGED <<staged, flash>>

\* A step that begins one.
WriteStart(s) ==
  /\ flash' = flash
  /\ \E job :
       /\ DOMAIN job = Fields /\ job.pc \in TransferPcs
       /\ WriteOK(job, staged', flash)
       /\ SetTransfer(s, job)

\* A job that has no transfer, or is not alone with it, depends on its own record only.
LEMMA Unshared ==
  ASSUME NEW job, NEW sent, NEW onBoard, WriteOK(job, sent, onBoard),
         job.pc \notin TransferPcs \/ ~job.alone,
         NEW after, NEW boards
  PROVE  WriteOK(job, after, boards)
BY DEF WriteOK, TransferOK

\* A step of a job that begins no transfer keeps what the others write.
LEMMA MoveKeeps ==
  ASSUME NEW s \in Slots, WritesOK, WriteMove(s)
  PROVE  WritesOK'
<1>1. ASSUME NEW r \in Slots
      PROVE  WriteOK(jobs'[r], staged', flash')
  <2>1. CASE r = s
    BY <2>1 DEF WriteMove
  <2>2. CASE r # s /\ UNCHANGED <<staged, flash>>
    BY <2>2 DEF WriteMove, Only, WritesOK
  <2>3. CASE r # s /\ jobs[s].pc \in TransferPcs
    <3>1. jobs[r].pc \notin TransferPcs \/ ~jobs[r].alone
      BY <2>3 DEF WritesOK, AloneIsOnly
    <3>2. QED BY <2>3, <3>1, Unshared DEF WriteMove, Only, WritesOK
  <2>4. QED BY <2>1, <2>2, <2>3 DEF WriteMove
<1>2. AloneIsOnly'
  <2>1. SUFFICES ASSUME NEW r \in Slots, NEW t \in Slots,
                        jobs'[r].alone, jobs'[r].pc \in TransferPcs, jobs'[t].pc \in TransferPcs
                 PROVE  r = t
    BY DEF AloneIsOnly
  <2>2. jobs[t].pc \in TransferPcs
    BY <2>1 DEF WriteMove, Only
  <2>3. jobs[r].alone /\ jobs[r].pc \in TransferPcs
    BY <2>1 DEF WriteMove, Only
  <2>4. QED BY <2>2, <2>3 DEF WritesOK, AloneIsOnly
<1>3. QED BY <1>1, <1>2 DEF WritesOK

\* Nor does it matter to what is written whether a job knows that it is alone.
LEMMA NotAlone ==
  ASSUME NEW job, NEW alone \in BOOLEAN, NEW sent, NEW onBoard, DOMAIN job = Fields,
         WriteOK(job, sent, onBoard), alone => job.alone
  PROVE  WriteOK([job EXCEPT !.alone = alone], sent, onBoard)
<1> DEFINE new == [job EXCEPT !.alone = alone]
<1>1. /\ new.pc = job.pc /\ SameWrite(job, new) /\ new.image = job.image
      /\ new.opts = job.opts /\ new.asked = job.asked /\ new.board = job.board
      /\ new.alone = alone
  BY DEF SameWrite, Fields
<1> HIDE DEF new
<1>2. PickOK(new)
  BY <1>1 DEF WriteOK, PickOK, SameWrite
<1>3. PlainOK(job) => PlainOK(new)
  BY <1>1 DEF PlainOK, SameWrite
<1>4. BakeOK(job) => BakeOK(new)
  BY <1>1 DEF BakeOK, SameWrite
<1>5. TransferOK(job, sent, onBoard) => TransferOK(new, sent, onBoard)
  BY <1>1 DEF TransferOK, SameWrite, Right
<1>6. QED BY <1>1, <1>2, <1>3, <1>4, <1>5 DEF WriteOK, new

\* A transfer that begins makes those that overlap it known, itself included.
LEMMA StartKeeps ==
  ASSUME NEW s \in Slots, IInv, WritesOK, WriteStart(s)
  PROVE  WritesOK'
<1>1. PICK job :
        /\ DOMAIN job = Fields /\ job.pc \in TransferPcs
        /\ WriteOK(job, staged', flash)
        /\ SetTransfer(s, job)
  BY DEF WriteStart
<1> DEFINE others == {r \in Slots \ {s} : jobs[r].pc \in TransferPcs}
<1>2. PICK alone \in BOOLEAN :
        /\ alone => job.alone /\ others = {}
        /\ jobs'[s] = [job EXCEPT !.alone = alone]
  <2>1. CASE job.alone /\ others = {}
    BY <1>1, <2>1 DEF SetTransfer
  <2>2. CASE ~(job.alone /\ others = {})
    BY <1>1, <2>2 DEF SetTransfer
  <2>3. QED BY <2>1, <2>2
<1>3. /\ WriteOK(jobs'[s], staged', flash')
      /\ jobs'[s].alone => others = {}
  BY <1>1, <1>2, NotAlone DEF WriteStart, Fields
<1>4. ASSUME NEW r \in Slots, r # s
      PROVE  /\ WriteOK(jobs'[r], staged', flash')
             /\ jobs'[r].pc = jobs[r].pc
             /\ jobs[r].pc \in TransferPcs => ~jobs'[r].alone
  <2>1. DOMAIN jobs[r] = Fields /\ WriteOK(jobs[r], staged, flash)
    BY DEF IInv, JobOK, WritesOK
  <2>2. CASE r \in others
    <3>1. jobs'[r] = [jobs[r] EXCEPT !.alone = FALSE]
      BY <1>1, <1>4, <2>2 DEF SetTransfer
    <3>2. ~jobs'[r].alone /\ jobs'[r].pc = jobs[r].pc
      BY <2>1, <3>1 DEF Fields
    <3>a. FALSE \in BOOLEAN /\ (FALSE => jobs[r].alone)
      OBVIOUS
    <3>b. WriteOK([jobs[r] EXCEPT !.alone = FALSE], staged, flash)
      BY <2>1, <3>a, NotAlone
    <3>3. WriteOK(jobs'[r], staged, flash)
      BY <3>1, <3>b, Zenon
    <3>4. QED BY <3>2, <3>3, Unshared
  <2>3. CASE r \notin others
    <3>1. jobs'[r] = jobs[r]
      BY <1>1, <1>4, <2>3 DEF SetTransfer
    <3>2. QED BY <1>4, <2>1, <2>3, <3>1, Unshared
  <2>4. QED BY <2>2, <2>3
<1>5. AloneIsOnly'
  <2>1. SUFFICES ASSUME NEW r \in Slots, NEW t \in Slots, r # t,
                        jobs'[r].alone, jobs'[r].pc \in TransferPcs, jobs'[t].pc \in TransferPcs
                 PROVE  FALSE
    BY DEF AloneIsOnly
  <2>2. r = s
    BY <1>4, <2>1
  <2>3. t \in others
    BY <1>4, <2>1, <2>2
  <2>4. QED BY <1>3, <2>1, <2>2, <2>3
<1>6. QED BY <1>3, <1>4, <1>5 DEF WritesOK

\* The steps that change one job, by what they make of it.
LEMMA SetMoves ==
  ASSUME NEW s \in Slots, NEW job, IInv, Set(s, job),
         WriteOK(job, staged', flash'),
         job.pc \in TransferPcs => jobs[s].pc \in TransferPcs /\ (job.alone => jobs[s].alone),
         jobs[s].pc \in TransferPcs \/ UNCHANGED <<staged, flash>>
  PROVE  WriteMove(s)
<1>1. Only(s) /\ jobs'[s] = job
  BY DEF Set, Only, IInv
<1>2. QED BY <1>1 DEF WriteMove

\* The steps that end a job.
LEMMA EndMoves ==
  ASSUME NEW s \in Slots, IInv, Set(s, NoJob),
         jobs[s].pc \in TransferPcs \/ UNCHANGED <<staged, flash>>
  PROVE  WriteMove(s)
<1>1. NoJob.pc \notin TransferPcs
  BY NoJobOK DEF TransferPcs
<1>2. QED BY <1>1, NoJobWrites, SetMoves

\* Into a call, or from one to the next.
LEMMA EnterMoves ==
  ASSUME NEW s \in Slots, NEW job, NEW busy, IInv, Set(s, Entered(job, busy)),
         DOMAIN job = Fields, WriteOK(job, staged', flash'),
         job.pc \in TransferPcs => jobs[s].pc \in TransferPcs /\ (job.alone => jobs[s].alone),
         jobs[s].pc \in TransferPcs \/ UNCHANGED <<staged, flash>>
  PROVE  WriteMove(s)
<1> DEFINE new == Entered(job, busy)
<1>1. PICK b : new = [job EXCEPT !.inCall = b]
  BY DEF Entered
<1>2. new.pc = job.pc /\ new.alone = job.alone
  BY <1>1 DEF Fields
<1>3. WriteOK(new, staged', flash')
  <2>1. WriteOK([job EXCEPT !.inCall = b], staged', flash')
    BY LockMoves
  <2> HIDE DEF new
  <2>2. QED BY <1>1, <2>1
<1> HIDE DEF new
<1>4. QED BY <1>2, <1>3, SetMoves DEF new

\* A job that goes on within its flow, to a call or to another wait.
LEMMA PlainGoes ==
  ASSUME NEW s \in Slots, NEW job, IInv, WritesOK,
         Set(s, job) \/ \E busy : Set(s, Entered(job, busy)),
         UNCHANGED <<staged, flash>>,
         DOMAIN job = Fields, SameWrite(jobs[s], job),
         jobs[s].pc \notin Baking \union TransferPcs \union {"download", "check"},
         job.pc \notin Baking \union TransferPcs \union {"pick", "download", "check"},
         job.pc \in {"await", "settle"} => job.kind = "release"
  PROVE  WriteMove(s)
<1>1. WriteOK(job, staged', flash')
  BY PlainMoves DEF WritesOK
<1>2. job.pc \notin TransferPcs
  OBVIOUS
<1>3. QED BY <1>1, <1>2, SetMoves, EnterMoves

-----------------------------------------------------------------------------
(* The steps of the page's own USB backend.                                *)

\* Taking the lock changes nothing of what a job is to write.
LEMMA PollLockWrites ==
  ASSUME NEW s \in Slots, IInv, WritesOK, PollLock(s)
  PROVE  WriteMove(s)
<1>1. /\ DOMAIN jobs[s] = Fields /\ WriteOK(jobs[s], staged, flash)
      /\ staged' = staged /\ flash' = flash
  BY DEF IInv, JobOK, WritesOK, PollLock, imageVars, boardVars
<1>2. QED BY <1>1, EnterMoves DEF PollLock, Enter

\* The chooser leads to a discovery or to nothing.
LEMMA ChooseWrites ==
  ASSUME NEW s \in Slots, IInv, WritesOK, Choose(s)
  PROVE  WriteMove(s)
<1>1. UNCHANGED <<staged, flash>> /\ jobs[s].pc = "choose" /\ DOMAIN jobs[s] = Fields
  BY DEF Choose, At, imageVars, IInv, JobOK
<1>2. CASE Set(s, NoJob)
  BY <1>1, <1>2, EndMoves
<1>3. CASE Enter(s, [jobs[s] EXCEPT !.pc = "discover"])
  <2> DEFINE job == [jobs[s] EXCEPT !.pc = "discover"]
  <2>1. DOMAIN job = Fields /\ job.pc = "discover" /\ SameWrite(jobs[s], job)
    BY <1>1 DEF Fields, SameWrite
  <2> HIDE DEF job
  <2>2. \E busy : Set(s, Entered(job, busy))
    BY <1>3 DEF Enter, job
  <2>3. QED BY <1>1, <2>1, <2>2, PlainGoes DEF Baking, TransferPcs
<1>4. QED BY <1>2, <1>3 DEF Choose

\* So does a discovery, to a probe.
LEMMA DiscoveredWrites ==
  ASSUME NEW s \in Slots, IInv, WritesOK, Discovered(s)
  PROVE  WriteMove(s)
<1>1. UNCHANGED <<staged, flash>> /\ jobs[s].pc = "discover" /\ DOMAIN jobs[s] = Fields
  BY DEF Discovered, Called, At, imageVars, boardVars, IInv, JobOK
<1>2. CASE Set(s, NoJob)
  BY <1>1, <1>2, EndMoves
<1>3. CASE \E info \in Discoveries :
             Again(s, [jobs[s] EXCEPT !.pc = "probe", !.name = info.name])
  <2>1. PICK info \in Discoveries :
               Again(s, [jobs[s] EXCEPT !.pc = "probe", !.name = info.name])
    BY <1>3
  <2> DEFINE job == [jobs[s] EXCEPT !.pc = "probe", !.name = info.name]
  <2>2. DOMAIN job = Fields /\ job.pc = "probe" /\ SameWrite(jobs[s], job)
    BY <1>1 DEF Fields, SameWrite
  <2> HIDE DEF job
  <2>3. \E busy : Set(s, Entered(job, busy))
    BY <2>1 DEF Again, job
  <2>4. QED BY <1>1, <2>2, <2>3, PlainGoes DEF Baking, TransferPcs
<1>4. QED BY <1>2, <1>3 DEF Discovered, AfterNoDevice, Finish

\* A probe goes on to its variant, or ends its job.
LEMMA ProbedWrites ==
  ASSUME NEW s \in Slots, IInv, WritesOK, Probed(s)
  PROVE  WriteMove(s)
<1>1. UNCHANGED <<staged, flash>> /\ jobs[s].pc = "probe" /\ DOMAIN jobs[s] = Fields
  BY DEF Probed, Called, At, imageVars, boardVars, IInv, JobOK
<1>2. CASE Finish(s, "done")
  BY <1>1, <1>2, EndMoves DEF Finish
<1>3. CASE \E b : Again(s, [jobs[s] EXCEPT !.pc = "variant", !.name = SocOf[b]])
  <2>1. PICK b : Again(s, [jobs[s] EXCEPT !.pc = "variant", !.name = SocOf[b]])
    BY <1>3
  <2> DEFINE job == [jobs[s] EXCEPT !.pc = "variant", !.name = SocOf[b]]
  <2>2. DOMAIN job = Fields /\ job.pc = "variant" /\ SameWrite(jobs[s], job)
    BY <1>1 DEF Fields, SameWrite
  <2> HIDE DEF job
  <2>3. \E busy : Set(s, Entered(job, busy))
    BY <2>1 DEF Again, job
  <2>4. QED BY <1>1, <2>2, <2>3, PlainGoes DEF Baking, TransferPcs
<1>4. QED BY <1>2, <1>3 DEF Probed

\* The variant ends its job.
LEMMA VariantKnownWrites ==
  ASSUME NEW s \in Slots, IInv, WritesOK, VariantKnown(s)
  PROVE  WriteMove(s)
<1>1. UNCHANGED <<staged, flash>>
  BY DEF VariantKnown, imageVars, boardVars
<1>2. QED BY <1>1, EndMoves DEF VariantKnown, Finish

\* The end of a boot, of a release's too.
LEMMA BootEndsWrites ==
  ASSUME NEW s \in Slots, IInv, WritesOK, BootEnds(s), UNCHANGED <<staged, flash>>,
         jobs[s].pc \notin Baking \union TransferPcs \union {"download", "check"}
  PROVE  WriteMove(s)
<1>1. CASE jobs[s].kind = "release"
  <2> DEFINE job == [jobs[s] EXCEPT !.pc = "await", !.inCall = FALSE, !.polls = 0]
  <2>1. /\ DOMAIN job = Fields /\ job.pc = "await" /\ SameWrite(jobs[s], job)
        /\ job.kind = "release"
    BY <1>1 DEF Fields, SameWrite, IInv, JobOK
  <2> HIDE DEF job
  <2>2. Set(s, job)
    BY <1>1 DEF BootEnds, job
  <2>3. QED BY <2>1, <2>2, PlainGoes DEF Baking, TransferPcs
<1>2. CASE jobs[s].kind # "release"
  BY <1>2, EndMoves DEF BootEnds
<1>3. QED BY <1>1, <1>2

\* With its loader fetched a boot goes on or ends.
LEMMA FetchedWrites ==
  ASSUME NEW s \in Slots, IInv, WritesOK, Fetched(s)
  PROVE  WriteMove(s)
<1>1. UNCHANGED <<staged, flash>> /\ jobs[s].pc = "fetch" /\ DOMAIN jobs[s] = Fields
  BY DEF Fetched, At, imageVars, boardVars, IInv, JobOK
<1>2. CASE BootEnds(s)
  BY <1>1, <1>2, BootEndsWrites DEF Baking, TransferPcs
<1>3. CASE Enter(s, [jobs[s] EXCEPT !.pc = "boot", !.name = detected])
  <2> DEFINE job == [jobs[s] EXCEPT !.pc = "boot", !.name = detected]
  <2>1. DOMAIN job = Fields /\ job.pc = "boot" /\ SameWrite(jobs[s], job)
    BY <1>1 DEF Fields, SameWrite
  <2> HIDE DEF job
  <2>2. \E busy : Set(s, Entered(job, busy))
    BY <1>3 DEF Enter, job
  <2>3. QED BY <1>1, <2>1, <2>2, PlainGoes DEF Baking, TransferPcs
<1>4. QED BY <1>2, <1>3 DEF Fetched

\* A boot leaves a release waiting for its gadget, and nothing else.
LEMMA BootCalledWrites ==
  ASSUME NEW s \in Slots, IInv, WritesOK, BootCalled(s)
  PROVE  WriteMove(s)
<1>1. UNCHANGED <<staged, flash>> /\ jobs[s].pc = "boot"
  BY DEF BootCalled, Called, At, imageVars
<1>2. QED BY <1>1, BootEndsWrites DEF BootCalled, Baking, TransferPcs

\* A read leaves its sum to be logged.
LEMMA ReadCalledWrites ==
  ASSUME NEW s \in Slots, IInv, WritesOK, ReadCalled(s)
  PROVE  WriteMove(s)
<1>1. UNCHANGED <<staged, flash>>
  BY DEF ReadCalled, imageVars, boardVars
<1>2. CASE Set(s, Job("read", "sum"))
  <2> DEFINE job == Job("read", "sum")
  <2>1. job.pc \notin TransferPcs
    BY DEF Job, NoJob, TransferPcs
  <2>2. WriteOK(job, staged', flash')
    BY FreshWrites DEF Baking, TransferPcs
  <2> HIDE DEF job
  <2>3. QED BY <1>1, <1>2, <2>1, <2>2, SetMoves DEF job
<1>3. CASE Set(s, NoJob)
  BY <1>1, <1>3, EndMoves
<1>4. QED BY <1>2, <1>3 DEF ReadCalled

\* These end their jobs.
LEMMA ReadSummedWrites ==
  ASSUME NEW s \in Slots, IInv, WritesOK, ReadSummed(s) \/ DiagCalled(s) \/ DebugCalled(s)
  PROVE  WriteMove(s)
<1>1. UNCHANGED <<staged, flash>> /\ Set(s, NoJob)
  BY DEF ReadSummed, DiagCalled, DebugCalled, imageVars, boardVars
<1>2. QED BY <1>1, EndMoves

-----------------------------------------------------------------------------
(* A transfer, from its beginning to its end.                              *)

\* A job that is about to write this image.
ToWrite(job, data) ==
  /\ DOMAIN job = Fields /\ job.verified = FALSE /\ job.board \in Boards \union {None}
  /\ job.alone => Right(job, data)

\* Its record as the transfer begins.
LEMMA GoingIs ==
  ASSUME NEW job, NEW pc, DOMAIN job = Fields
  PROVE  LET going == Going(job, pc)
         IN  /\ DOMAIN going = Fields
             /\ going.kind = "write" /\ going.pc = pc /\ going.image = None
             /\ going.opts = going.asked
             /\ going.pick = job.pick /\ going.files = job.files
             /\ going.verified = job.verified /\ going.board = job.board
             /\ going.alone = job.alone
BY DEF Going, Snapshot, Fields

\* The staged file of a write that begins is what it is to write.
LEMMA LocalWriteWrites ==
  ASSUME NEW s \in Slots, NEW job, NEW data, IInv, ToWrite(job, data),
         LocalWrite(s, job, data), flash' = flash
  PROVE  WriteMove(s) \/ WriteStart(s)
<1>1. CASE ~(tdfuReady /\ inDfuMode)
  BY <1>1, EndMoves DEF LocalWrite
<1>2. CASE tdfuReady /\ inDfuMode
  <2> DEFINE going == Going(job, "write")
             new == Entered(going, wasmBusy)
  <2>1. staged' = data /\ SetTransfer(s, new)
    BY <1>2 DEF LocalWrite
  <2>2. /\ DOMAIN going = Fields
        /\ going.kind = "write" /\ going.pc = "write" /\ going.image = None
        /\ going.opts = going.asked
        /\ going.pick = job.pick /\ going.files = job.files
        /\ going.verified = job.verified /\ going.board = job.board
        /\ going.alone = job.alone
    BY GoingIs DEF ToWrite
  <2> HIDE DEF going
  <2>3. PickOK(going) /\ going.pc \in TransferPcs /\ going.pc \notin Baking \union Ending
    BY <2>2 DEF PickOK, TransferPcs, Baking, Ending
  <2>4. TransferOK(going, data, flash)
    BY <2>2, <2>3 DEF TransferOK, ToWrite, Right
  <2>5. WriteOK(going, data, flash)
    BY <2>2, <2>3, <2>4 DEF WriteOK, ToWrite
  <2>6. PICK busy : new = [going EXCEPT !.inCall = busy]
    BY DEF Entered
  <2>7. DOMAIN new = Fields /\ new.pc \in TransferPcs /\ WriteOK(new, staged', flash)
    <3>1. DOMAIN new = Fields /\ new.pc \in TransferPcs
      BY <2>2, <2>3, <2>6 DEF Fields
    <3>2. WriteOK([going EXCEPT !.inCall = busy], data, flash)
      BY <2>2, <2>5, LockMoves
    <3>3. WriteOK(new, data, flash)
      BY <2>6, <3>2, Zenon
    <3>4. QED BY <2>1, <3>1, <3>3
  <2> HIDE DEF new
  <2>8. QED BY <2>1, <2>7 DEF WriteStart
<1>3. QED BY <1>1, <1>2

\* So is what is sent to the daemon.
LEMMA RemoteWriteWrites ==
  ASSUME NEW s \in Slots, NEW job, NEW data, IInv, ToWrite(job, data),
         RemoteWrite(s, job, data), staged' = staged, flash' = flash
  PROVE  WriteMove(s) \/ WriteStart(s)
<1>1. CASE ~(remoteClient /\ inDfuMode)
  BY <1>1, EndMoves DEF RemoteWrite
<1>2. CASE remoteClient /\ inDfuMode
  <2> DEFINE going == Going(job, "r-write")
             new == [going EXCEPT !.index = selectedRemoteIndex, !.image = data]
  <2>1. SetTransfer(s, new)
    BY <1>2 DEF RemoteWrite
  <2>2. /\ DOMAIN going = Fields
        /\ going.kind = "write" /\ going.pc = "r-write"
        /\ going.opts = going.asked
        /\ going.pick = job.pick /\ going.files = job.files
        /\ going.verified = job.verified /\ going.board = job.board
        /\ going.alone = job.alone
    BY GoingIs DEF ToWrite
  <2> HIDE DEF going
  <2>3. /\ DOMAIN new = Fields
        /\ new.kind = "write" /\ new.pc = "r-write" /\ new.image = data
        /\ new.opts = new.asked
        /\ new.pick = job.pick /\ new.files = job.files
        /\ new.verified = job.verified /\ new.board = job.board
        /\ new.alone = job.alone
    BY <2>2 DEF Fields
  <2> HIDE DEF new
  <2>4. PickOK(new) /\ new.pc \in TransferPcs /\ new.pc \notin Baking \union Ending
    BY <2>3 DEF PickOK, TransferPcs, Baking, Ending
  <2>5. TransferOK(new, staged, flash)
    BY <2>3, <2>4 DEF TransferOK, ToWrite, Right
  <2>6. WriteOK(new, staged', flash)
    BY <2>3, <2>4, <2>5 DEF WriteOK, ToWrite
  <2>7. QED BY <2>1, <2>3, <2>4, <2>6 DEF WriteStart
<1>3. QED BY <1>1, <1>2

\* What the library loads is what was staged.
LEMMA LoadedWrites ==
  ASSUME NEW s \in Slots, IInv, WritesOK, Loaded(s)
  PROVE  WriteMove(s)
<1>1. /\ staged # None /\ staged' = staged /\ jobs[s].pc \in {"write", "verify"}
      /\ DOMAIN jobs[s] = Fields /\ WriteOK(jobs[s], staged, flash)
  BY DEF Loaded, Called, At, imageVars, IInv, JobOK, WritesOK
<1>2. PICK b \in LocalBoards : Set(s, [jobs[s] EXCEPT !.board = b, !.image = staged])
  BY DEF Loaded, Seen
<1> DEFINE job == [jobs[s] EXCEPT !.board = b, !.image = staged]
<1>3. /\ job.pc = jobs[s].pc /\ job.kind = jobs[s].kind /\ job.pick = jobs[s].pick
      /\ job.files = jobs[s].files /\ job.verified = jobs[s].verified
      /\ job.opts = jobs[s].opts /\ job.asked = jobs[s].asked /\ job.alone = jobs[s].alone
      /\ job.image = staged /\ job.board = b
  BY <1>1 DEF Fields
<1> HIDE DEF job
<1>4. job.pc \in TransferPcs /\ job.pc \notin Baking \union Ending
  BY <1>1, <1>3 DEF TransferPcs, Baking, Ending
<1>5. PickOK(job)
  BY <1>1, <1>3 DEF WriteOK, PickOK, Baking
<1>6. TransferOK(job, staged', flash')
  <2>1. TransferOK(jobs[s], staged, flash)
    BY <1>1, <1>3, <1>4 DEF WriteOK
  <2>2. QED BY <1>1, <1>3, <1>4, <2>1 DEF TransferOK, Right
<1>7. WriteOK(job, staged', flash')
  BY <1>3, <1>4, <1>5, <1>6 DEF WriteOK, Boards
<1>8. QED BY <1>2, <1>3, <1>4, <1>7, SetMoves DEF job

\* The image went to the board, and was read back if that was asked for.
Sent(s) ==
  /\ jobs[s].pc \in {"write", "verify"} /\ jobs[s].image # None /\ jobs[s].board # None
  /\ flash'[jobs[s].board] = jobs[s].image
  /\ jobs[s].pc = "verify" \/ "verify" \notin jobs[s].opts

\* An image that was sent while its transfer was alone is the right one.
LEMMA SentIsRight ==
  ASSUME NEW s \in Slots, WritesOK, Sent(s)
  PROVE  /\ jobs[s].opts = jobs[s].asked /\ jobs[s].verified = FALSE
         /\ jobs[s].pc = "verify" <=> "verify" \in jobs[s].asked
         /\ jobs[s].alone => Right(jobs[s], flash'[jobs[s].board])
<1>1. TransferOK(jobs[s], staged, flash) /\ jobs[s].pc \notin Ending
  BY DEF WritesOK, WriteOK, Sent, TransferPcs, Ending
<1>2. QED BY <1>1 DEF TransferOK, Sent

\* A job that reboots its board afterwards remembers whether it verified.
LEMMA RebootOrFinishWrites ==
  ASSUME NEW s \in Slots, IInv, WritesOK, Sent(s), RebootOrFinish(s)
  PROVE  WriteMove(s)
<1>1. DOMAIN jobs[s] = Fields /\ WriteOK(jobs[s], staged, flash) /\ jobs[s].pc \in TransferPcs
  BY DEF IInv, JobOK, WritesOK, Sent, TransferPcs
<1>2. CASE Finish(s, "done")
  BY <1>1, <1>2, EndMoves DEF Finish
<1>3. CASE Again(s, [jobs[s] EXCEPT !.pc = "reboot", !.verified = At(s, "verify")])
  <2>1. PICK v \in BOOLEAN : v = (jobs[s].pc = "verify")
    OBVIOUS
  <2> DEFINE job == [jobs[s] EXCEPT !.pc = "reboot", !.verified = v]
  <2>2. \E busy : Set(s, Entered(job, busy))
    BY <1>3, <2>1 DEF Again, At
  <2>3. /\ DOMAIN job = Fields /\ job.pc = "reboot" /\ job.verified = v
        /\ job.kind = jobs[s].kind /\ job.pick = jobs[s].pick /\ job.files = jobs[s].files
        /\ job.image = jobs[s].image /\ job.opts = jobs[s].opts
        /\ job.asked = jobs[s].asked /\ job.alone = jobs[s].alone
        /\ job.board = jobs[s].board
    BY <1>1 DEF Fields
  <2> HIDE DEF job
  <2>4. job.pc \in TransferPcs /\ job.pc \in Ending /\ job.pc \notin Baking
    BY <2>3 DEF TransferPcs, Ending, Baking
  <2>5. PickOK(job)
    BY <1>1, <2>3 DEF WriteOK, PickOK, Baking, Sent
  <2>6. TransferOK(job, staged', flash')
    <3>1. job.opts = job.asked /\ (job.verified <=> "verify" \in job.asked)
      BY <2>1, <2>3, SentIsRight
    <3>2. job.alone => Right(job, flash'[job.board])
      BY <2>3, SentIsRight DEF Right
    <3>3. QED BY <2>3, <2>4, <3>1, <3>2 DEF TransferOK
  <2>7. WriteOK(job, staged', flash')
    BY <1>1, <2>3, <2>4, <2>5, <2>6 DEF WriteOK
  <2>8. QED BY <1>1, <2>2, <2>3, <2>7, EnterMoves
<1>4. QED BY <1>2, <1>3 DEF RebootOrFinish

\* What was written is what was loaded.
LEMMA WrittenWrites ==
  ASSUME NEW s \in Slots, IInv, WritesOK, DOMAIN flash = Boards, Written(s)
  PROVE  WriteMove(s)
<1>1. /\ jobs[s].pc = "write" /\ jobs[s].image # None /\ jobs[s].board # None
      /\ flash' = [flash EXCEPT ![jobs[s].board] = jobs[s].image]
      /\ DOMAIN jobs[s] = Fields /\ WriteOK(jobs[s], staged, flash)
  BY DEF Written, Called, At, Transferring, IInv, JobOK, WritesOK
<1>2. flash'[jobs[s].board] = jobs[s].image
  BY <1>1 DEF WriteOK
<1>3. CASE ~AskedToVerify(s)
  BY <1>1, <1>2, <1>3, RebootOrFinishWrites DEF Sent, Written, AskedToVerify
<1>4. CASE AskedToVerify(s)
  <2> DEFINE job == [jobs[s] EXCEPT !.pc = "verify", !.image = None]
  <2>1. staged' = staged /\ \E busy : Set(s, Entered(job, busy))
    BY <1>4 DEF Written, Again
  <2>2. /\ DOMAIN job = Fields /\ job.pc = "verify" /\ job.image = None
        /\ job.kind = jobs[s].kind /\ job.pick = jobs[s].pick /\ job.files = jobs[s].files
        /\ job.verified = jobs[s].verified /\ job.opts = jobs[s].opts
        /\ job.asked = jobs[s].asked /\ job.alone = jobs[s].alone
        /\ job.board = jobs[s].board
    BY <1>1 DEF Fields
  <2> HIDE DEF job
  <2>3. job.pc \in TransferPcs /\ job.pc \notin Baking \union Ending
    BY <2>2 DEF TransferPcs, Ending, Baking
  <2>4. PickOK(job)
    BY <1>1, <2>2 DEF WriteOK, PickOK, Baking
  <2>5. TransferOK(jobs[s], staged, flash)
    BY <1>1 DEF WriteOK, TransferPcs
  <2>6. TransferOK(job, staged', flash')
    BY <1>1, <1>4, <2>1, <2>2, <2>3, <2>5 DEF TransferOK, Right, AskedToVerify, Ending
  <2>7. WriteOK(job, staged', flash')
    BY <1>1, <2>2, <2>3, <2>4, <2>6 DEF WriteOK
  <2>8. QED BY <1>1, <2>1, <2>2, <2>3, <2>7, EnterMoves DEF TransferPcs
<1>5. QED BY <1>3, <1>4

\* A verification that succeeds has found it on the board.
LEMMA VerifiedOkWrites ==
  ASSUME NEW s \in Slots, IInv, WritesOK, VerifiedOk(s)
  PROVE  WriteMove(s)
<1>1. Sent(s)
  BY DEF VerifiedOk, Called, At, Transferring, boardVars, Sent
<1>2. QED BY <1>1, RebootOrFinishWrites DEF VerifiedOk

\* A call that fails, or the reboot, ends the job.
LEMMA CallEndsWrites ==
  ASSUME NEW s \in Slots, IInv, WritesOK, WriteCallFailed(s) \/ RebootCalled(s)
  PROVE  WriteMove(s)
<1>1. jobs[s].pc \in TransferPcs /\ Set(s, NoJob)
  BY DEF WriteCallFailed, RebootCalled, Called, At, Finish, TransferPcs
<1>2. QED BY <1>1, EndMoves

\* So does one that throws, but for a boot's of a release.
LEMMA CallThrewWrites ==
  ASSUME NEW s \in Slots, IInv, WritesOK, CallThrew(s)
  PROVE  WriteMove(s)
<1>1. /\ jobs[s].pc \in TransferPcs \/ UNCHANGED <<staged, flash>>
  BY DEF CallThrew, boardVars, TransferPcs
<1>2. CASE Set(s, NoJob)
  BY <1>1, <1>2, EndMoves
<1>3. CASE jobs[s].pc = "boot" /\ BootEnds(s)
  <2>1. jobs[s].pc \notin Baking \union TransferPcs \union {"download", "check"}
    BY <1>3 DEF Baking, TransferPcs
  <2>2. QED BY <1>1, <1>3, <2>1, BootEndsWrites
<1>4. QED BY <1>2, <1>3 DEF CallThrew, At

\* Every step of the USB backend keeps what is written.
LEMMA LocalStepWrites ==
  ASSUME NEW s \in Slots, IInv, WritesOK, DOMAIN flash = Boards, LocalStep(s)
  PROVE  WriteMove(s)
BY PollLockWrites, ChooseWrites, DiscoveredWrites, ProbedWrites, VariantKnownWrites,
   FetchedWrites, BootCalledWrites, ReadCalledWrites, ReadSummedWrites, LoadedWrites, WrittenWrites,
   VerifiedOkWrites, CallEndsWrites, CallThrewWrites
   DEF LocalStep

-----------------------------------------------------------------------------
(* The steps of the daemon backend.                                        *)

\* A reply that leaves the job waiting elsewhere in a flow without a transfer.
LEMMA RemoteBootedWrites ==
  ASSUME NEW s \in Slots, IInv, WritesOK, RemoteBooted(s)
  PROVE  WriteMove(s)
<1>1. UNCHANGED <<staged, flash>> /\ jobs[s].pc = "r-boot" /\ DOMAIN jobs[s] = Fields
  BY DEF RemoteBooted, At, imageVars, IInv, JobOK
<1>2. CASE BootEnds(s)
  BY <1>1, <1>2, BootEndsWrites DEF Baking, TransferPcs
<1>3. CASE Set(s, [jobs[s] EXCEPT !.pc = "r-poll"])
  <2> DEFINE job == [jobs[s] EXCEPT !.pc = "r-poll"]
  <2>1. DOMAIN job = Fields /\ job.pc = "r-poll" /\ SameWrite(jobs[s], job)
    BY <1>1 DEF Fields, SameWrite
  <2> HIDE DEF job
  <2>2. QED BY <1>1, <1>3, <2>1, PlainGoes DEF Baking, TransferPcs, job
<1>4. QED BY <1>2, <1>3 DEF RemoteBooted, BootAnswered

\* Looking for the gadget leaves a release as it was.
LEMMA RemotePolledWrites ==
  ASSUME NEW s \in Slots, IInv, WritesOK, RemotePolled(s)
  PROVE  WriteMove(s)
<1>1. UNCHANGED <<staged, flash>> /\ jobs[s].pc = "r-poll" /\ DOMAIN jobs[s] = Fields
  BY DEF RemotePolled, At, imageVars, boardVars, IInv, JobOK
<1>2. CASE BootEnds(s)
  BY <1>1, <1>2, BootEndsWrites DEF Baking, TransferPcs
<1>3. CASE Set(s, [jobs[s] EXCEPT !.polls = @ + 1])
  <2> DEFINE job == [jobs[s] EXCEPT !.polls = @ + 1]
  <2>1. DOMAIN job = Fields /\ job.pc = "r-poll" /\ SameWrite(jobs[s], job)
    BY <1>1 DEF Fields, SameWrite
  <2> HIDE DEF job
  <2>2. QED BY <1>1, <1>3, <2>1, PlainGoes DEF Baking, TransferPcs, job
<1>4. QED BY <1>2, <1>3 DEF RemotePolled

\* A read leaves its sum to be logged here too.
LEMMA RemoteReadAnsweredWrites ==
  ASSUME NEW s \in Slots, IInv, WritesOK, RemoteReadAnswered(s)
  PROVE  WriteMove(s)
<1>1. UNCHANGED <<staged, flash>>
  BY DEF RemoteReadAnswered, imageVars, boardVars
<1>2. CASE Set(s, Job("read", "sum"))
  <2> DEFINE job == Job("read", "sum")
  <2>1. job.pc \notin TransferPcs
    BY DEF Job, NoJob, TransferPcs
  <2>2. WriteOK(job, staged', flash')
    BY FreshWrites DEF Baking, TransferPcs
  <2> HIDE DEF job
  <2>3. QED BY <1>1, <1>2, <2>1, <2>2, SetMoves DEF job
<1>3. CASE Set(s, NoJob)
  BY <1>1, <1>3, EndMoves
<1>4. QED BY <1>2, <1>3 DEF RemoteReadAnswered

\* An answer after which the job is over.
LEMMA RemoteEndsWrites ==
  ASSUME NEW s \in Slots, IInv, WritesOK,
         RemoteDiscovered(s) \/ RemoteDiagAnswered(s) \/ RemoteWriteFailed(s) \/ RemoteRebooted(s)
  PROVE  WriteMove(s)
<1>1. CASE RemoteDiscovered(s) \/ RemoteDiagAnswered(s)
  BY <1>1, EndMoves DEF RemoteDiscovered, RemoteDiagAnswered, imageVars, boardVars
<1>2. CASE RemoteWriteFailed(s) \/ RemoteRebooted(s)
  BY <1>2, EndMoves DEF RemoteWriteFailed, RemoteRebooted, At, TransferPcs
<1>3. QED BY <1>1, <1>2

\* The board that is counted is one at the daemon's host.
LEMMA NthAtDaemon ==
  ASSUME NEW n, NEW stages
  PROVE  Nth(n, stages) \subseteq AtDaemon
BY DEF Nth, AtDaemon

\* What the daemon writes is what was sent.
LEMMA RemoteServedWrites ==
  ASSUME NEW s \in Slots, IInv, WritesOK, DOMAIN flash = Boards, RemoteServed(s)
  PROVE  WriteMove(s)
<1>1. /\ jobs[s].pc = "r-write" /\ DOMAIN jobs[s] = Fields
      /\ WriteOK(jobs[s], staged, flash)
  BY DEF RemoteServed, At, IInv, JobOK, WritesOK
<1>a. PICK v \in BOOLEAN : v = ("verify" \in jobs[s].opts)
  <2>1. CASE "verify" \in jobs[s].opts
    <3>1. TRUE = ("verify" \in jobs[s].opts)
      BY <2>1
    <3>2. QED BY <3>1
  <2>2. CASE "verify" \notin jobs[s].opts
    <3>1. FALSE = ("verify" \in jobs[s].opts)
      BY <2>2
    <3>2. QED BY <3>1
  <2>3. QED BY <2>1, <2>2
<1>2. v = AskedToVerify(s)
  BY <1>a DEF AskedToVerify
<1>3. PICK b \in Boards :
        /\ flash' = [flash EXCEPT ![b] = jobs[s].image]
        /\ Set(s, [jobs[s] EXCEPT !.pc = "r-answer", !.board = b, !.verified = v])
  BY <1>2, NthAtDaemon DEF RemoteServed, Gadget, Boards
<1> DEFINE job == [jobs[s] EXCEPT !.pc = "r-answer", !.board = b, !.verified = v]
<1>4. /\ DOMAIN job = Fields /\ job.pc = "r-answer" /\ job.verified = v
      /\ job.kind = jobs[s].kind /\ job.pick = jobs[s].pick /\ job.files = jobs[s].files
      /\ job.opts = jobs[s].opts /\ job.asked = jobs[s].asked /\ job.alone = jobs[s].alone
      /\ job.board = b
  BY <1>1 DEF Fields
<1> HIDE DEF job
<1>5. job.pc \in TransferPcs /\ job.pc \in Ending /\ job.pc \notin Baking
  BY <1>4 DEF TransferPcs, Ending, Baking
<1>6. PickOK(job)
  BY <1>1, <1>4 DEF WriteOK, PickOK, Baking
<1>7. TransferOK(jobs[s], staged, flash)
  BY <1>1 DEF WriteOK, TransferPcs
<1>8. TransferOK(job, staged', flash')
  <2>1. job.opts = job.asked /\ (job.verified <=> "verify" \in job.asked)
    BY <1>a, <1>4, <1>7 DEF TransferOK
  <2>2. flash'[b] = jobs[s].image
    BY <1>3
  <2>3. job.alone => Right(job, flash'[job.board])
    BY <1>1, <1>4, <1>7, <2>2 DEF TransferOK, Right
  <2>4. QED BY <1>4, <1>5, <2>1, <2>3 DEF TransferOK
<1>9. WriteOK(job, staged', flash')
  BY <1>4, <1>5, <1>6, <1>8 DEF WriteOK
<1>10. QED BY <1>1, <1>3, <1>4, <1>9, SetMoves DEF TransferPcs, job

\* The answer leads to a reboot, or ends the job.
LEMMA RemoteAnsweredWrites ==
  ASSUME NEW s \in Slots, IInv, WritesOK, RemoteAnswered(s)
  PROVE  WriteMove(s)
<1>1. /\ jobs[s].pc = "r-answer" /\ DOMAIN jobs[s] = Fields
      /\ WriteOK(jobs[s], staged, flash) /\ UNCHANGED <<staged, flash>>
  BY DEF RemoteAnswered, At, IInv, JobOK, WritesOK, imageVars, boardVars
<1>2. CASE Set(s, NoJob)
  BY <1>1, <1>2, EndMoves
<1>3. CASE Set(s, [jobs[s] EXCEPT !.pc = "r-reboot", !.index = selectedRemoteIndex])
  <2> DEFINE job == [jobs[s] EXCEPT !.pc = "r-reboot", !.index = selectedRemoteIndex]
  <2>1. /\ DOMAIN job = Fields /\ job.pc = "r-reboot" /\ job.verified = jobs[s].verified
        /\ job.kind = jobs[s].kind /\ job.pick = jobs[s].pick /\ job.files = jobs[s].files
        /\ job.opts = jobs[s].opts /\ job.asked = jobs[s].asked /\ job.alone = jobs[s].alone
        /\ job.board = jobs[s].board
    BY <1>1 DEF Fields
  <2> HIDE DEF job
  <2>2. job.pc \in TransferPcs /\ job.pc \in Ending /\ job.pc \notin Baking
    BY <2>1 DEF TransferPcs, Ending, Baking
  <2>3. PickOK(job)
    BY <1>1, <2>1 DEF WriteOK, PickOK, Baking
  <2>4. TransferOK(jobs[s], staged, flash) /\ jobs[s].pc \in Ending
    BY <1>1 DEF WriteOK, TransferPcs, Ending
  <2>5. TransferOK(job, staged', flash')
    BY <1>1, <2>1, <2>2, <2>4 DEF TransferOK, Right
  <2>6. WriteOK(job, staged', flash')
    BY <1>1, <2>1, <2>2, <2>3, <2>5 DEF WriteOK
  <2>7. QED BY <1>1, <1>3, <2>1, <2>6, SetMoves DEF TransferPcs, job
<1>4. QED BY <1>2, <1>3 DEF RemoteAnswered, RemoteRebootOrFinish

\* Every step of the daemon backend keeps what is written.
LEMMA RemoteStepWrites ==
  ASSUME NEW s \in Slots, IInv, WritesOK, DOMAIN flash = Boards, RemoteStep(s)
  PROVE  WriteMove(s)
BY RemoteBootedWrites, RemotePolledWrites, RemoteReadAnsweredWrites, RemoteEndsWrites,
   RemoteServedWrites, RemoteAnsweredWrites
   DEF RemoteStep

-----------------------------------------------------------------------------
(* What leads to a transfer.                                               *)

\* Whichever backend it goes to, a transfer begins with what it is to write.
LEMMA TransferWrites ==
  ASSUME NEW s \in Slots, NEW job, NEW data, IInv, ToWrite(job, data),
         Transfer(s, job, data), flash' = flash
  PROVE  WriteMove(s) \/ WriteStart(s)
BY LocalWriteWrites, RemoteWriteWrites DEF Transfer

\* A job that is going to be one of a write, with nothing baked in yet, and one whose rows
\* are read.
Writing(job, data) ==
  /\ ToWrite(job, data)
  /\ job.files = {} /\ job.pick \in Firmware
Collecting(job, data) ==
  /\ DOMAIN job = Fields /\ job.verified = FALSE /\ job.board \in Boards \union {None}
  /\ job.pick \in Firmware /\ IsFiniteSet(job.files)
  /\ job.files = {} => ToWrite(job, data)

\* The next row is read, or the files are baked in, or there were none.
LEMMA NextRowWrites ==
  ASSUME NEW s \in Slots, NEW job, NEW data, IInv, Collecting(job, data),
         jobs[s].pc \notin TransferPcs,
         NextRow(s, job, data), flash' = flash
  PROVE  WriteMove(s) \/ (job.files = {} /\ WriteStart(s))
<1>1. CASE job.files = {} /\ Transfer(s, job, data)
  BY <1>1, TransferWrites DEF Collecting
<1>2. CASE Pause(s, NoJob)
  BY <1>2, EndMoves DEF Pause
<1>3. ASSUME NEW added, NEW row,
             Pause(s, [job EXCEPT !.pc = "rows", !.row = row, !.files = job.files \union {added}])
      PROVE  WriteMove(s)
  <2> DEFINE files == job.files \union {added}
             new == [job EXCEPT !.pc = "rows", !.row = row, !.files = files]
  <2>1. /\ new.pc = "rows" /\ new.files = files /\ new.verified = job.verified
        /\ new.kind = job.kind /\ new.pick = job.pick /\ new.board = job.board
    BY DEF Collecting, Fields
  <2>2. IsFiniteSet(files) /\ files # {}
    BY FS_AddElement DEF Collecting
  <2>3. Pause(s, new)
    BY <1>3
  <2> HIDE DEF new, files
  <2>4. new.pc \in Baking /\ new.pc \notin TransferPcs
    BY <2>1 DEF Baking, TransferPcs
  <2>5. PickOK(new)
    BY <2>1 DEF Collecting, PickOK, Baking
  <2>6. BakeOK(new)
    BY <2>1, <2>2 DEF BakeOK, Collecting
  <2>7. WriteOK(new, staged', flash')
    BY <2>1, <2>4, <2>5, <2>6 DEF WriteOK, Collecting
  <2>8. QED BY <2>3, <2>4, <2>7, SetMoves DEF Pause
<1>4. ASSUME job.files # {},
             Pause(s, [job EXCEPT !.pc = "overlay", !.row = 0, !.rows = 0, !.image = data,
                                  !.alone = @ /\ data = job.pick])
      PROVE  WriteMove(s)
  <2>1. PICK same \in BOOLEAN : same = (job.alone /\ data = job.pick)
    OBVIOUS
  <2> DEFINE new == [job EXCEPT !.pc = "overlay", !.row = 0, !.rows = 0, !.image = data,
                                !.alone = same]
  <2>2. /\ new.pc = "overlay" /\ new.files = job.files /\ new.verified = job.verified
        /\ new.kind = job.kind /\ new.pick = job.pick /\ new.board = job.board
        /\ new.image = data /\ new.alone = same
    BY DEF Collecting, Fields
  <2>3. Pause(s, new)
    BY <1>4, <2>1
  <2> HIDE DEF new
  <2>4. new.pc \in Baking /\ new.pc \notin TransferPcs
    BY <2>2 DEF Baking, TransferPcs
  <2>5. PickOK(new)
    BY <2>2 DEF Collecting, PickOK, Baking
  <2>6. BakeOK(new)
    BY <1>4, <2>1, <2>2 DEF BakeOK, Collecting
  <2>7. WriteOK(new, staged', flash')
    BY <2>2, <2>4, <2>5, <2>6 DEF WriteOK, Collecting
  <2>8. QED BY <2>3, <2>4, <2>7, SetMoves DEF Pause
<1>5. QED BY <1>1, <1>2, <1>3, <1>4 DEF NextRow

\* The image goes to a transfer as it is, or with the entered files still to be read and
\* baked in.
LEMMA DoWriteWrites ==
  ASSUME NEW s \in Slots, NEW job, NEW data, IInv, form \in Forms, Writing(job, data),
         jobs[s].pc \notin TransferPcs,
         DoWrite(s, job, data), flash' = flash
  PROVE  WriteMove(s) \/ WriteStart(s)
<1> DEFINE files == OverlayFilesFor(form)
<1>1. IsFiniteSet(files)
  BY PageAssumption DEF OverlayFilesFor
<1>2. CASE Transfer(s, job, data)
  BY <1>2, TransferWrites DEF Writing
<1>3. CASE NextRow(s, [job EXCEPT !.files = files, !.rows = Len(form.rows)], data)
  <2> DEFINE new == [job EXCEPT !.files = files, !.rows = Len(form.rows)]
  <2>1. /\ DOMAIN new = Fields /\ new.files = files /\ new.verified = job.verified
        /\ new.pick = job.pick /\ new.board = job.board /\ new.alone = job.alone
    BY DEF Writing, ToWrite, Fields
  <2> HIDE DEF new, files
  <2>2. files = {} => ToWrite(new, data)
    BY <2>1 DEF Writing, ToWrite, Right
  <2>3. Collecting(new, data)
    BY <1>1, <2>1, <2>2 DEF Collecting, Writing, ToWrite
  <2>4. NextRow(s, new, data)
    BY <1>3 DEF new, files
  <2>5. QED BY <2>3, <2>4, NextRowWrites
<1>4. QED BY <1>2, <1>3 DEF DoWrite

\* The image that was picked is the one that is written.
LEMMA FirmwareSelectedWrites ==
  ASSUME NEW s \in Slots, IInv, WritesOK, form \in Forms, FirmwareSelected(s)
  PROVE  WriteMove(s) \/ WriteStart(s)
<1>1. /\ jobs[s].pc = "pick" /\ flash' = flash /\ DOMAIN jobs[s] = Fields
      /\ WriteOK(jobs[s], staged, flash)
  BY DEF FirmwareSelected, At, IInv, JobOK, WritesOK, boardVars
<1> DEFINE job == [jobs[s] EXCEPT !.kind = "write"]
<1>2. /\ DOMAIN job = Fields /\ job.verified = jobs[s].verified /\ job.pick = jobs[s].pick
      /\ job.files = jobs[s].files /\ job.board = jobs[s].board
  BY <1>1 DEF Fields
<1>3. DoWrite(s, job, jobs[s].pick)
  BY DEF FirmwareSelected
<1> HIDE DEF job
<1>4. Writing(job, jobs[s].pick)
  BY <1>1, <1>2 DEF WriteOK, PickOK, PlainOK, Baking, TransferPcs, Writing, ToWrite, Right
<1>5. QED BY <1>1, <1>3, <1>4, DoWriteWrites DEF TransferPcs

\* A row that was read leads to the next, or to the image that is loaded by now, which is
\* known not to be another.
LEMMA RowReadWrites ==
  ASSUME NEW s \in Slots, IInv, WritesOK, RowRead(s)
  PROVE  WriteMove(s)
<1>1. /\ jobs[s].pc = "rows" /\ flash' = flash /\ DOMAIN jobs[s] = Fields
      /\ WriteOK(jobs[s], staged, flash)
  BY DEF RowRead, At, IInv, JobOK, WritesOK, boardVars
<1>2. CASE Pause(s, NoJob)
  BY <1>1, <1>2, EndMoves DEF Pause
<1>3. CASE NextRow(s, jobs[s], firmwareData)
  <2>1. jobs[s].files # {} /\ jobs[s].pc \notin TransferPcs
    BY <1>1 DEF WriteOK, BakeOK, Baking, TransferPcs
  <2>2. Collecting(jobs[s], firmwareData)
    BY <1>1, <2>1 DEF Collecting, WriteOK, BakeOK, PickOK, Baking
  <2>3. QED BY <1>1, <1>3, <2>1, <2>2, NextRowWrites
<1>4. QED BY <1>2, <1>3 DEF RowRead

\* What is baked into the image the user picked is what was asked for.
LEMMA BakedIsRight ==
  ASSUME NEW image \in Firmware, NEW files, IsFiniteSet(files), files # {},
         InjectOverlay(image, files).ok
  PROVE  LET baked == InjectOverlay(image, files).image
         IN  /\ Outside(baked) = Outside(image)
             /\ OverlayOf(baked) \in {OverlayBlock(files), OverlayVolume(files)}
<1>1. CASE image = Torn
  <2>1. image.layout = << >>
    BY <1>1 DEF Torn
  <2>2. DOMAIN ParseMtdparts(image) = {}
    BY <2>1 DEF ParseMtdparts
  <2>3. OverlayInfo(image).type = "none"
    BY <2>2 DEF OverlayInfo
  <2>4. InjectOverlay(image, files) = Refused
    BY <2>3 DEF InjectOverlay
  <2>5. QED BY <2>4 DEF Refused
<1>2. CASE IsImage(image)
  <2> DEFINE info == OverlayInfo(image)
  <2>1. Sound(image, info) /\ DOMAIN image.ubi \subseteq 0..3
    BY <1>2 DEF IsImage, Sound
  <2> HIDE DEF info
  <2>2. QED BY <2>1, InjectOverlayBakes
<1>3. QED BY <1>1, <1>2, PageAssumption DEF Firmware

\* The image that was baked goes to the transfer.
LEMMA OverlayBakedWrites ==
  ASSUME NEW s \in Slots, IInv, WritesOK, OverlayBaked(s)
  PROVE  WriteMove(s) \/ WriteStart(s)
<1>1. /\ jobs[s].pc = "overlay" /\ flash' = flash /\ DOMAIN jobs[s] = Fields
      /\ WriteOK(jobs[s], staged, flash)
  BY DEF OverlayBaked, At, IInv, JobOK, WritesOK, boardVars
<1>2. jobs[s].pick \in Firmware /\ BakeOK(jobs[s])
  BY <1>1 DEF WriteOK, PickOK, Baking
<1> DEFINE result == InjectOverlay(jobs[s].image, jobs[s].files)
<1>3. CASE result.ok /\ Transfer(s, jobs[s], result.image)
  <2>1. ASSUME jobs[s].alone
        PROVE  Right(jobs[s], result.image)
    <3>1. jobs[s].image = jobs[s].pick
      BY <1>1, <1>2, <2>1 DEF BakeOK
    <3>2. QED BY <1>2, <1>3, <3>1, BakedIsRight DEF BakeOK, Right
  <2> HIDE DEF result
  <2>2. ToWrite(jobs[s], result.image)
    BY <1>1, <1>2, <2>1 DEF ToWrite, WriteOK, BakeOK
  <2>3. QED BY <1>1, <1>3, <2>2, TransferWrites
<1>4. CASE Set(s, NoJob) /\ UNCHANGED imageVars
  BY <1>1, <1>4, EndMoves DEF imageVars
<1>5. QED BY <1>3, <1>4 DEF OverlayBaked, Baked

-----------------------------------------------------------------------------
(* A release, from the download on.                                        *)

\* What was downloaded is the release, or damaged.
LEMMA DownloadedWrites ==
  ASSUME NEW s \in Slots, IInv, WritesOK, Downloaded(s)
  PROVE  WriteMove(s)
<1>1. /\ jobs[s].pc = "download" /\ UNCHANGED <<staged, flash>> /\ DOMAIN jobs[s] = Fields
      /\ WriteOK(jobs[s], staged, flash)
  BY DEF Downloaded, At, IInv, JobOK, WritesOK, boardVars, imageVars
<1>2. CASE GiveUp(s)
  BY <1>1, <1>2, EndMoves DEF GiveUp
<1>3. CASE \E data \in {jobs[s].pick.image, Torn} :
             Set(s, [jobs[s] EXCEPT !.pc = "check", !.image = data])
  <2>1. PICK data \in {jobs[s].pick.image, Torn} :
               Set(s, [jobs[s] EXCEPT !.pc = "check", !.image = data])
    BY <1>3
  <2> DEFINE job == [jobs[s] EXCEPT !.pc = "check", !.image = data]
  <2>2. job.pc = "check" /\ job.image = data /\ SameWrite(jobs[s], job)
    BY <1>1 DEF Fields, SameWrite
  <2> HIDE DEF job
  <2>3. PickOK(job) /\ PlainOK(job) /\ job.pc \notin Baking \union TransferPcs
    BY <1>1, <2>1, <2>2
       DEF WriteOK, PickOK, PlainOK, SameWrite, Baking, TransferPcs
  <2>4. WriteOK(job, staged', flash')
    BY <1>1, <2>2, <2>3 DEF WriteOK, SameWrite
  <2>5. QED BY <1>1, <2>1, <2>3, <2>4, SetMoves DEF job
<1>4. QED BY <1>2, <1>3 DEF Downloaded

\* A job that may go into a boot.
Bootable(job) ==
  /\ DOMAIN job = Fields /\ PlainOK(job) /\ job.board \in Boards \union {None}
  /\ job.kind = "release" => job.pick \in Firmware

\* Such a job keeps what it is to write wherever the boot leads it.
LEMMA BootableGoes ==
  ASSUME NEW s \in Slots, NEW job, NEW new, IInv, Bootable(job),
         jobs[s].pc \notin TransferPcs, UNCHANGED <<staged, flash>>,
         Set(s, new) \/ \E busy : Set(s, Entered(new, busy)),
         DOMAIN new = Fields, SameWrite(job, new),
         new.pc \notin Baking \union TransferPcs \union {"pick", "download", "check"},
         new.pc \in {"await", "settle"} => new.kind = "release"
  PROVE  WriteMove(s)
<1>1. PickOK(new) /\ PlainOK(new)
  BY DEF Bootable, PickOK, PlainOK, SameWrite
<1>2. WriteOK(new, staged', flash')
  BY <1>1 DEF WriteOK, Bootable, SameWrite
<1>3. new.pc \notin TransferPcs
  OBVIOUS
<1>4. QED BY <1>2, <1>3, SetMoves, EnterMoves

\* Without a backend a release waits all the same.
LEMMA AwaitWrites ==
  ASSUME NEW s \in Slots, NEW job, IInv, Bootable(job),
         jobs[s].pc \notin TransferPcs, UNCHANGED <<staged, flash>>,
         Set(s, IF job.kind = "release" THEN [job EXCEPT !.pc = "await"] ELSE NoJob)
  PROVE  WriteMove(s)
<1>1. CASE job.kind = "release"
  <2> DEFINE new == [job EXCEPT !.pc = "await"]
  <2>1. DOMAIN new = Fields /\ new.pc = "await" /\ SameWrite(job, new) /\ new.kind = "release"
    BY <1>1 DEF Bootable, Fields, SameWrite
  <2> HIDE DEF new
  <2>2. Set(s, new)
    BY <1>1 DEF new
  <2>3. QED BY <2>1, <2>2, BootableGoes DEF Baking, TransferPcs
<1>2. CASE job.kind # "release"
  BY <1>2, EndMoves
<1>3. QED BY <1>1, <1>2

\* A boot over WebUSB.
LEMMA LocalBootWrites ==
  ASSUME NEW s \in Slots, NEW job, IInv, Bootable(job), LocalBoot(s, job),
         jobs[s].pc \notin TransferPcs, UNCHANGED <<staged, flash>>
  PROVE  WriteMove(s)
<1>1. ASSUME NEW name, Enter(s, [job EXCEPT !.pc = "boot", !.name = name])
      PROVE  WriteMove(s)
  <2> DEFINE new == [job EXCEPT !.pc = "boot", !.name = name]
  <2>1. DOMAIN new = Fields /\ new.pc = "boot" /\ SameWrite(job, new)
    BY DEF Bootable, Fields, SameWrite
  <2> HIDE DEF new
  <2>2. \E busy : Set(s, Entered(new, busy))
    BY <1>1 DEF new, Enter
  <2>3. QED BY <2>1, <2>2, BootableGoes DEF Baking, TransferPcs
<1>2. CASE Set(s, [job EXCEPT !.pc = "fetch", !.name = detected])
  <2> DEFINE new == [job EXCEPT !.pc = "fetch", !.name = detected]
  <2>1. DOMAIN new = Fields /\ new.pc = "fetch" /\ SameWrite(job, new)
    BY DEF Bootable, Fields, SameWrite
  <2> HIDE DEF new
  <2>2. QED BY <1>2, <2>1, BootableGoes DEF Baking, TransferPcs, new
<1>3. QED BY <1>1, <1>2, AwaitWrites DEF LocalBoot

\* A boot at the daemon.
LEMMA RemoteBootWrites ==
  ASSUME NEW s \in Slots, NEW job, IInv, Bootable(job), RemoteBoot(s, job),
         jobs[s].pc \notin TransferPcs, UNCHANGED <<staged, flash>>
  PROVE  WriteMove(s)
<1>1. CASE remoteClient
  <2>1. PICK name, index, before :
               Set(s, [job EXCEPT !.pc = "r-boot", !.name = name, !.index = index,
                                  !.polls = 0, !.before = before])
    BY <1>1 DEF RemoteBoot
  <2> DEFINE new == [job EXCEPT !.pc = "r-boot", !.name = name, !.index = index,
                                !.polls = 0, !.before = before]
  <2>2. DOMAIN new = Fields /\ new.pc = "r-boot" /\ SameWrite(job, new)
    BY DEF Bootable, Fields, SameWrite
  <2> HIDE DEF new
  <2>3. QED BY <2>1, <2>2, BootableGoes DEF Baking, TransferPcs, new
<1>2. CASE ~remoteClient
  BY <1>2, AwaitWrites DEF RemoteBoot
<1>3. QED BY <1>1, <1>2

\* A boot, whichever backend it goes to.
LEMMA BootWrites ==
  ASSUME NEW s \in Slots, NEW job, IInv, Bootable(job), Boot(s, job),
         jobs[s].pc \notin TransferPcs, UNCHANGED <<staged, flash>>
  PROVE  WriteMove(s)
BY LocalBootWrites, RemoteBootWrites, AwaitWrites DEF Boot

\* A release that passed its check is what its job writes from now on.
LEMMA ReleaseCheckedWrites ==
  ASSUME NEW s \in Slots, IInv, WritesOK, form \in Forms, ReleaseChecked(s)
  PROVE  WriteMove(s) \/ WriteStart(s)
<1>1. /\ jobs[s].pc = "check" /\ flash' = flash /\ DOMAIN jobs[s] = Fields
      /\ WriteOK(jobs[s], staged, flash)
  BY DEF ReleaseChecked, At, IInv, JobOK, WritesOK, boardVars
<1>2. jobs[s].pc \notin TransferPcs \union Baking
  BY <1>1 DEF TransferPcs, Baking
<1> DEFINE data == jobs[s].image
           job == [jobs[s] EXCEPT !.pick = data, !.image = None]
<1>3. data \in Firmware
  BY <1>1 DEF WriteOK, PickOK, Firmware
<1>4. CASE EnsureDfuMode(s, job, data)
  <2>1. /\ DOMAIN job = Fields /\ job.verified = jobs[s].verified /\ job.pick = data
        /\ job.files = jobs[s].files /\ job.board = jobs[s].board
    BY <1>1 DEF Fields
  <2> HIDE DEF job
  <2>2. PlainOK(job) /\ job.board \in Boards \union {None}
    BY <1>1, <1>2, <2>1 DEF WriteOK, PlainOK
  <2>3. CASE DoWrite(s, job, data)
    <3>1. Writing(job, data)
      BY <1>3, <2>1, <2>2 DEF PlainOK, Writing, ToWrite, Right
    <3>2. QED BY <1>1, <1>2, <2>3, <3>1, DoWriteWrites
  <2>4. CASE Boot(s, job) /\ UNCHANGED staged
    <3>1. Bootable(job)
      BY <1>3, <2>1, <2>2 DEF Bootable
    <3>2. QED BY <1>1, <1>2, <2>4, <3>1, BootWrites
  <2>5. QED BY <1>4, <2>3, <2>4 DEF EnsureDfuMode
<1>5. CASE GiveUp(s) /\ UNCHANGED imageVars
  BY <1>1, <1>5, EndMoves DEF GiveUp, imageVars
<1>6. QED BY <1>4, <1>5 DEF ReleaseChecked

\* Waiting for the gadget does not change that.
LEMMA AwaitedWrites ==
  ASSUME NEW s \in Slots, IInv, WritesOK, Awaited(s)
  PROVE  WriteMove(s)
<1>1. /\ jobs[s].pc = "await" /\ UNCHANGED <<staged, flash>> /\ DOMAIN jobs[s] = Fields
      /\ jobs[s].kind = "release"
  BY DEF Awaited, At, IInv, JobOK, WritesOK, WriteOK, PickOK, boardVars, imageVars
<1>2. CASE GiveUp(s)
  BY <1>1, <1>2, EndMoves DEF GiveUp
<1>3. CASE Set(s, [jobs[s] EXCEPT !.pc = "settle"])
  <2> DEFINE job == [jobs[s] EXCEPT !.pc = "settle"]
  <2>1. /\ DOMAIN job = Fields /\ job.pc = "settle" /\ SameWrite(jobs[s], job)
        /\ job.kind = "release"
    BY <1>1 DEF Fields, SameWrite
  <2> HIDE DEF job
  <2>2. QED BY <1>1, <1>3, <2>1, PlainGoes DEF Baking, TransferPcs, job
<1>4. CASE Set(s, [jobs[s] EXCEPT !.polls = @ + 1])
  <2> DEFINE job == [jobs[s] EXCEPT !.polls = @ + 1]
  <2>1. /\ DOMAIN job = Fields /\ job.pc = "await" /\ SameWrite(jobs[s], job)
        /\ job.kind = "release"
    BY <1>1 DEF Fields, SameWrite
  <2> HIDE DEF job
  <2>2. QED BY <1>1, <1>4, <2>1, PlainGoes DEF Baking, TransferPcs, job
<1>5. QED BY <1>2, <1>3, <1>4 DEF Awaited

\* The image that is loaded by now is written, and known not to be another.
LEMMA SettledWrites ==
  ASSUME NEW s \in Slots, IInv, WritesOK, form \in Forms, Settled(s)
  PROVE  WriteMove(s) \/ WriteStart(s)
<1>1. /\ jobs[s].pc = "settle" /\ flash' = flash /\ DOMAIN jobs[s] = Fields
      /\ WriteOK(jobs[s], staged, flash)
  BY DEF Settled, At, IInv, JobOK, WritesOK, boardVars
<1>2. jobs[s].pc \notin TransferPcs \union Baking
  BY <1>1 DEF TransferPcs, Baking
<1>3. CASE GiveUp(s) /\ UNCHANGED <<staged, wasmBusy>>
  BY <1>1, <1>2, <1>3, EndMoves DEF GiveUp
<1>4. CASE DoWrite(s, [jobs[s] EXCEPT !.alone = @ /\ firmwareData = jobs[s].pick], firmwareData)
  <2>1. PICK same \in BOOLEAN : same = (jobs[s].alone /\ firmwareData = jobs[s].pick)
    OBVIOUS
  <2> DEFINE job == [jobs[s] EXCEPT !.alone = same]
  <2>2. DoWrite(s, job, firmwareData)
    BY <1>4, <2>1
  <2>3. /\ DOMAIN job = Fields /\ job.verified = jobs[s].verified /\ job.pick = jobs[s].pick
        /\ job.files = jobs[s].files /\ job.board = jobs[s].board /\ job.alone = same
    BY <1>1 DEF Fields
  <2> HIDE DEF job
  <2>4. jobs[s].pick \in Firmware /\ PlainOK(jobs[s])
    BY <1>1, <1>2 DEF WriteOK, PickOK
  <2>5. Writing(job, firmwareData)
    BY <1>1, <2>1, <2>3, <2>4 DEF WriteOK, PlainOK, Writing, ToWrite, Right
  <2>6. QED BY <1>1, <1>2, <2>2, <2>5, DoWriteWrites
<1>5. QED BY <1>3, <1>4 DEF Settled

-----------------------------------------------------------------------------
(* What users start, and what boards do.                                   *)

\* A step that leaves every job as it was.
LEMMA IdleWrites ==
  ASSUME NEW s \in Slots, IInv, WritesOK, jobs' = jobs, UNCHANGED <<staged, flash>>
  PROVE  WriteMove(s)
BY DEF WriteMove, Only, IInv, WritesOK

\* A job that has just begun, in a call or not.
LEMMA FreshGoes ==
  ASSUME NEW s \in Slots, NEW kind, NEW pc, IInv, kind # "release",
         pc \notin Baking \union TransferPcs \union {"pick", "download", "check", "await", "settle"},
         Set(s, Job(kind, pc)) \/ \E busy : Set(s, Entered(Job(kind, pc), busy)),
         UNCHANGED <<staged, flash>>
  PROVE  WriteMove(s)
<1> DEFINE job == Job(kind, pc)
<1>1. DOMAIN job = Fields /\ job.pc = pc /\ WriteOK(job, staged', flash')
  BY FreshJob, FreshWrites
<1> HIDE DEF job
<1>2. job.pc \notin TransferPcs
  BY <1>1
<1>3. Set(s, job) \/ \E busy : Set(s, Entered(job, busy))
  BY DEF job
<1>4. QED BY <1>1, <1>2, <1>3, SetMoves, EnterMoves

\* One that knows the daemon's device.
LEMMA IndexedGoes ==
  ASSUME NEW s \in Slots, NEW kind, NEW pc, NEW index, IInv, kind # "release",
         pc \notin Baking \union TransferPcs \union {"pick", "download", "check", "await", "settle"},
         Set(s, [Job(kind, pc) EXCEPT !.index = index]),
         UNCHANGED <<staged, flash>>
  PROVE  WriteMove(s)
<1> DEFINE fresh == Job(kind, pc)
           job == [fresh EXCEPT !.index = index]
<1>1. DOMAIN fresh = Fields /\ fresh.pc = pc /\ WriteOK(fresh, staged, flash)
  BY FreshJob, FreshWrites
<1> HIDE DEF fresh
<1>2. job.pc = pc /\ SameWrite(fresh, job)
  BY <1>1 DEF Fields, SameWrite
<1> HIDE DEF job
<1>3. fresh.pc \notin Baking \union TransferPcs \union {"download", "check"}
  BY <1>1
<1>4. WriteOK(job, staged', flash')
  BY <1>1, <1>2, <1>3, PlainMoves
<1>5. QED BY <1>2, <1>4, SetMoves DEF job, fresh

\* Loading the module, and its first call.
LEMMA LoadWrites ==
  ASSUME NEW s \in Slots, IInv, WritesOK, Load(s)
  PROVE  WriteMove(s)
<1>1. /\ jobs[s].pc = "load" /\ UNCHANGED <<staged, flash>> /\ DOMAIN jobs[s] = Fields
  BY DEF Load, At, IInv, JobOK, boardVars, imageVars
<1> DEFINE job == [jobs[s] EXCEPT !.pc = "init"]
<1>2. DOMAIN job = Fields /\ job.pc = "init" /\ SameWrite(jobs[s], job)
  BY <1>1 DEF Fields, SameWrite
<1> HIDE DEF job
<1>3. \E busy : Set(s, Entered(job, busy))
  BY DEF Load, Enter, job
<1>4. QED BY <1>1, <1>2, <1>3, PlainGoes DEF Baking, TransferPcs

\* The first call ends its job.
LEMMA InitCalledWrites ==
  ASSUME NEW s \in Slots, IInv, InitCalled(s)
  PROVE  WriteMove(s)
BY EndMoves DEF InitCalled, imageVars, boardVars

\* Connect begins a job that writes nothing, or none.
LEMMA ConnectDeviceWrites ==
  ASSUME NEW s \in Slots, IInv, WritesOK, ConnectDevice(s)
  PROVE  WriteMove(s)
<1>1. UNCHANGED <<staged, flash>>
  BY DEF ConnectDevice, imageVars, boardVars
<1>2. CASE jobs' = jobs
  BY <1>1, <1>2, IdleWrites
<1>3. CASE Set(s, Job("connect", "choose")) \/ Set(s, Job("connect", "r-discover"))
  BY <1>1, <1>3, FreshGoes DEF Baking, TransferPcs
<1>4. QED BY <1>2, <1>3 DEF ConnectDevice, RemoteConnect, LocalConnect

\* So does Bootstrap.
LEMMA DoBootstrapWrites ==
  ASSUME NEW s \in Slots, IInv, DoBootstrap(s)
  PROVE  WriteMove(s)
<1> DEFINE job == Job("boot", "idle")
<1>1. Bootable(job)
  BY DEF Bootable, Job, NoJob, PlainOK, Fields
<1>2. jobs[s].pc \notin TransferPcs /\ UNCHANGED <<staged, flash>>
  BY FreeSlotIdle DEF DoBootstrap, TransferPcs, imageVars, boardVars
<1> HIDE DEF job
<1>3. QED BY <1>1, <1>2, BootWrites DEF DoBootstrap, job

\* So does Read.
LEMMA DoReadWrites ==
  ASSUME NEW s \in Slots, IInv, WritesOK, DoRead(s)
  PROVE  WriteMove(s)
<1>1. UNCHANGED <<staged, flash>>
  BY DEF DoRead, imageVars, boardVars
<1>2. CASE jobs' = jobs
  BY <1>1, <1>2, IdleWrites
<1>3. CASE Set(s, [Job("read", "r-read") EXCEPT !.index = selectedRemoteIndex])
  BY <1>1, <1>3, IndexedGoes DEF Baking, TransferPcs
<1>4. CASE Enter(s, Job("read", "read"))
  BY <1>1, <1>4, FreshGoes DEF Enter, Baking, TransferPcs
<1>5. QED BY <1>2, <1>3, <1>4 DEF DoRead, RemoteRead, LocalRead

\* So does Info.
LEMMA DoDiagWrites ==
  ASSUME NEW s \in Slots, IInv, DoDiag(s)
  PROVE  WriteMove(s)
<1>1. UNCHANGED <<staged, flash>>
  BY DEF DoDiag, imageVars, boardVars
<1>2. CASE Set(s, [Job("diag", "r-diag") EXCEPT !.index = selectedRemoteIndex])
  BY <1>1, <1>2, IndexedGoes DEF Baking, TransferPcs
<1>3. CASE Enter(s, Job("diag", "diag"))
  BY <1>1, <1>3, FreshGoes DEF Enter, Baking, TransferPcs
<1>4. QED BY <1>2, <1>3 DEF DoDiag

\* So does the debug toggle.
LEMMA SetDebugWrites ==
  ASSUME NEW s \in Slots, IInv, SetDebug(s)
  PROVE  WriteMove(s)
BY FreshGoes DEF SetDebug, Enter, imageVars, boardVars, Baking, TransferPcs

\* The file chooser knows the image that will be picked.
LEMMA SelectFirmwareWrites ==
  ASSUME NEW s \in Slots, IInv, SelectFirmware(s)
  PROVE  WriteMove(s)
<1>1. PICK image \in Images : Set(s, [Job("pick", "pick") EXCEPT !.pick = image])
  BY DEF SelectFirmware
<1> DEFINE job == [Job("pick", "pick") EXCEPT !.pick = image]
<1>2. /\ job.pc = "pick" /\ job.pick \in Firmware /\ PlainOK(job) /\ job.board = None
      /\ job.pc \notin Baking \union TransferPcs
  BY DEF Job, NoJob, PlainOK, Firmware, Baking, TransferPcs
<1> HIDE DEF job
<1>3. WriteOK(job, staged', flash')
  BY <1>2 DEF WriteOK, PickOK
<1>4. UNCHANGED <<staged, flash>>
  BY DEF SelectFirmware, imageVars, boardVars
<1>5. QED BY <1>1, <1>2, <1>3, <1>4, SetMoves DEF job

\* The release that is flashed is one that was chosen.
LEMMA FlashFromReleaseWrites ==
  ASSUME NEW s \in Slots, IInv, ChosenOK, FlashFromRelease(s)
  PROVE  WriteMove(s)
<1> DEFINE job == [Job("release", "download") EXCEPT !.pick = chosen]
<1>1. chosen \in Assets /\ Set(s, job) /\ UNCHANGED <<staged, flash>>
  BY DEF FlashFromRelease, ChosenOK, imageVars, boardVars
<1>2. /\ job.pc = "download" /\ job.pick \in Assets /\ PlainOK(job) /\ job.board = None
      /\ job.pc \notin Baking \union TransferPcs
  BY <1>1 DEF Job, NoJob, PlainOK, Baking, TransferPcs
<1> HIDE DEF job
<1>3. WriteOK(job, staged', flash')
  BY <1>2 DEF WriteOK, PickOK, Baking
<1>4. QED BY <1>1, <1>2, <1>3, SetMoves

\* A device that appears begins at most a discovery.
LEMMA AutoAttachWrites ==
  ASSUME NEW s \in Slots, NEW st, IInv, WritesOK, AutoAttach(s, st), UNCHANGED <<staged, flash>>
  PROVE  WriteMove(s)
<1>1. CASE jobs' = jobs
  BY <1>1, IdleWrites
<1>2. CASE Enter(s, Job("attach", "discover"))
  BY <1>2, FreshGoes DEF Enter, Baking, TransferPcs
<1>3. QED BY <1>1, <1>2 DEF AutoAttach

\* What is written does not depend on the board that was pulled.
LEMMA UnplugWrites ==
  ASSUME NEW b, IInv, WritesOK, Unplug(b)
  PROVE  WritesOK'
<1>1. UNCHANGED <<staged, flash>>
  BY DEF Unplug, imageVars
<1>2. ASSUME NEW r \in Slots
      PROVE  /\ WriteOK(jobs'[r], staged', flash')
             /\ jobs'[r].pc = jobs[r].pc /\ jobs'[r].alone = jobs[r].alone
  <2>1. DOMAIN jobs[r] = Fields /\ WriteOK(jobs[r], staged, flash)
    BY DEF IInv, JobOK, WritesOK
  <2>2. CASE jobs'[r] = jobs[r]
    BY <1>1, <2>1, <2>2
  <2>3. CASE jobs'[r] = [jobs[r] EXCEPT !.board = None]
    <3> DEFINE job == [jobs[r] EXCEPT !.board = None]
    <3>1. /\ job.pc = jobs[r].pc /\ job.verified = jobs[r].verified
          /\ job.kind = jobs[r].kind /\ job.pick = jobs[r].pick /\ job.files = jobs[r].files
          /\ job.opts = jobs[r].opts /\ job.asked = jobs[r].asked
          /\ job.alone = jobs[r].alone /\ job.image = jobs[r].image /\ job.board = None
      BY <2>1 DEF Fields
    <3> HIDE DEF job
    <3>2. PickOK(job)
      BY <2>1, <3>1 DEF WriteOK, PickOK
    <3>3. PlainOK(jobs[r]) => PlainOK(job)
      BY <3>1 DEF PlainOK
    <3>4. BakeOK(jobs[r]) => BakeOK(job)
      BY <3>1 DEF BakeOK
    <3>5. TransferOK(jobs[r], staged, flash) => TransferOK(job, staged, flash)
      BY <3>1 DEF TransferOK, Right
    <3>6. WriteOK(job, staged, flash)
      BY <2>1, <3>1, <3>2, <3>3, <3>4, <3>5 DEF WriteOK
    <3>7. QED BY <1>1, <2>3, <3>1, <3>6 DEF job
  <2>4. QED BY <2>2, <2>3 DEF Unplug
<1>3. AloneIsOnly'
  BY <1>2 DEF WritesOK, AloneIsOnly
<1>4. QED BY <1>2, <1>3 DEF WritesOK

-----------------------------------------------------------------------------
(* The release that is chosen, the form and the boards' memories.          *)

\* A step that chooses no release enables its button at most for the one that is chosen.
ChosenKept ==
  /\ chosen' = chosen
  /\ relEnabled' = relEnabled \/ relEnabled' = FALSE
       \/ \E state : relEnabled' = CanFlashRelease(state, chosen)

\* Such a step keeps what WInv says besides the jobs.
LEMMA ChosenKeptOK ==
  ASSUME Around, ChosenKept, form' = form, DOMAIN flash' = DOMAIN flash
  PROVE  Around'
<1>1. ASSUME relEnabled' PROVE chosen # None
  <2>1. CASE relEnabled' = relEnabled
    BY <1>1, <2>1, Zenon DEF Around, ChosenOK
  <2>2. CASE \E state : relEnabled' = CanFlashRelease(state, chosen)
    BY <1>1, <2>2, Zenon DEF CanFlashRelease
  <2>3. QED BY <1>1, <2>1, <2>2, Zenon DEF ChosenKept
<1>2. chosen' = chosen
  BY DEF ChosenKept
<1>3. QED BY <1>1, <1>2, Zenon DEF Around, ChosenOK

\* Setting the page's state is no exception.
LEMMA SetStateKeeps ==
  ASSUME NEW state, SetState(state)
  PROVE  \E st : relEnabled' = CanFlashRelease(st, chosen)
BY DEF SetState

\* The steps of the USB backend keep what is around the jobs.
LEMMA LocalStepAround ==
  ASSUME NEW s \in Slots, Around, LocalStep(s)
  PROVE  Around'
<1>1. form' = form /\ chosen' = chosen
  BY DEF LocalStep, PollLock, Choose, Discovered, Probed, VariantKnown, Fetched, BootCalled,
         ReadCalled, ReadSummed, Loaded, Written, VerifiedOk, WriteCallFailed, RebootCalled,
         DiagCalled, DebugCalled, CallThrew, inputVars
<1>2. DOMAIN flash' = DOMAIN flash
  BY DEF LocalStep, PollLock, Choose, Discovered, Probed, VariantKnown, Fetched, BootCalled,
         ReadCalled, ReadSummed, Loaded, Written, VerifiedOk, WriteCallFailed, RebootCalled,
         DiagCalled, DebugCalled, CallThrew, boardVars
<1>3. relEnabled' = relEnabled \/ \E state : SetState(state)
  <2>1. CASE PollLock(s) \/ Loaded(s) \/ DiagCalled(s) \/ DebugCalled(s)
    BY <2>1 DEF PollLock, Loaded, DiagCalled, DebugCalled, stateVars
  <2>2. CASE Choose(s) \/ Discovered(s) \/ Probed(s) \/ Fetched(s) \/ BootCalled(s)
    BY <2>2 DEF Choose, Discovered, AfterNoDevice, Probed, Fetched, BootCalled, Finish, stateVars
  <2>3. CASE ReadCalled(s) \/ ReadSummed(s) \/ WriteCallFailed(s) \/ RebootCalled(s)
    BY <2>3 DEF ReadCalled, ReadSummed, WriteCallFailed, RebootCalled, Finish, stateVars
  <2>4. CASE Written(s) \/ VerifiedOk(s)
    BY <2>4 DEF Written, VerifiedOk, RebootOrFinish, Finish, stateVars
  <2>5. CASE VariantKnown(s) \/ CallThrew(s)
    BY <2>5 DEF VariantKnown, Finish, CallThrew, Caught, stateVars
  <2>6. QED BY <2>1, <2>2, <2>3, <2>4, <2>5 DEF LocalStep
<1>4. QED BY <1>1, <1>2, <1>3, SetStateKeeps, ChosenKeptOK DEF ChosenKept

\* So do those of the daemon backend.
LEMMA RemoteStepAround ==
  ASSUME NEW s \in Slots, Around, RemoteStep(s)
  PROVE  Around'
<1>1. form' = form /\ chosen' = chosen
  BY DEF RemoteStep, RemoteDiscovered, RemoteBooted, RemotePolled, RemoteReadAnswered,
         RemoteServed, RemoteAnswered, RemoteWriteFailed, RemoteRebooted, RemoteDiagAnswered,
         inputVars
<1>2. DOMAIN flash' = DOMAIN flash
  BY DEF RemoteStep, RemoteDiscovered, RemoteBooted, RemotePolled, RemoteReadAnswered,
         RemoteServed, RemoteAnswered, RemoteWriteFailed, RemoteRebooted, RemoteDiagAnswered,
         boardVars
<1>3. relEnabled' = relEnabled \/ \E state : SetState(state)
  <2>1. CASE RemoteServed(s) \/ RemoteDiagAnswered(s)
    BY <2>1 DEF RemoteServed, RemoteDiagAnswered, stateVars
  <2>2. CASE RemoteDiscovered(s)
    BY <2>2 DEF RemoteDiscovered, SelectRemoteDevice
  <2>3. CASE RemoteBooted(s) \/ RemotePolled(s)
    BY <2>3 DEF RemoteBooted, BootAnswered, RemotePolled, stateVars
  <2>4. CASE RemoteReadAnswered(s) \/ RemoteWriteFailed(s) \/ RemoteRebooted(s)
    BY <2>4 DEF RemoteReadAnswered, RemoteWriteFailed, RemoteRebooted, stateVars
  <2>5. CASE RemoteAnswered(s)
    BY <2>5 DEF RemoteAnswered, RemoteRebootOrFinish, stateVars
  <2>6. QED BY <2>1, <2>2, <2>3, <2>4, <2>5 DEF RemoteStep
<1>4. QED BY <1>1, <1>2, <1>3, SetStateKeeps, ChosenKeptOK DEF ChosenKept

\* What a flow that comes to a write does to the button.
LEMMA DoWriteButton ==
  ASSUME NEW s, NEW job, NEW data,
         \/ DoWrite(s, job, data) \/ NextRow(s, job, data)
         \/ Transfer(s, job, data) \/ Boot(s, job)
  PROVE  relEnabled' = relEnabled \/ \E state : SetState(state)
<1>1. Transfer(s, job, data) => relEnabled' = relEnabled \/ \E state : SetState(state)
  BY DEF Transfer, LocalWrite, RemoteWrite, stateVars
<1>2. Boot(s, job) => relEnabled' = relEnabled \/ \E state : SetState(state)
  BY DEF Boot, LocalBoot, RemoteBoot, stateVars
<1>3. ASSUME NEW collecting, NextRow(s, collecting, data)
      PROVE  relEnabled' = relEnabled \/ \E state : SetState(state)
  BY <1>3 DEF NextRow, Pause, Transfer, LocalWrite, RemoteWrite, stateVars
<1>4. QED BY <1>1, <1>2, <1>3 DEF DoWrite

\* So do the flows of the page.
LEMMA PageStepAround ==
  ASSUME NEW s \in Slots, Around, PageStep(s) \/ Load(s)
  PROVE  Around'
<1>1. form' = form /\ chosen' = chosen /\ flash' = flash
  BY DEF PageStep, Load, InitCalled, RowRead, OverlayBaked, Downloaded, ReleaseChecked,
         Awaited, Settled, inputVars, boardVars
<1>2. relEnabled' = relEnabled \/ (\E state : SetState(state)) \/ GiveUp(s)
  <2>1. CASE Load(s) \/ InitCalled(s)
    BY <2>1 DEF Load, InitCalled, stateVars
  <2>a. CASE RowRead(s)
    BY <2>a, DoWriteButton DEF RowRead, Pause, stateVars
  <2>2. CASE OverlayBaked(s)
    BY <2>2, DoWriteButton DEF OverlayBaked, stateVars
  <2>3. CASE Downloaded(s) \/ Awaited(s)
    BY <2>3 DEF Downloaded, Awaited, stateVars
  <2>4. CASE ReleaseChecked(s)
    BY <2>4, DoWriteButton DEF ReleaseChecked, EnsureDfuMode
  <2>5. CASE Settled(s)
    BY <2>5, DoWriteButton DEF Settled
  <2>6. QED BY <2>1, <2>a, <2>2, <2>3, <2>4, <2>5 DEF PageStep
<1>3. relEnabled' = relEnabled \/ \E state : relEnabled' = CanFlashRelease(state, chosen)
  BY <1>2, SetStateKeeps DEF GiveUp
<1>4. QED BY <1>1, <1>3, ChosenKeptOK DEF ChosenKept

\* So does what users start.
LEMMA UserStepAround ==
  ASSUME NEW s \in Slots, Around, UserStep(s)
  PROVE  Around'
<1>1. form' = form /\ chosen' = chosen /\ flash' = flash
  BY DEF UserStep, ConnectDevice, DoBootstrap, DoRead, DoDiag, SelectFirmware,
         FirmwareSelected, FlashFromRelease, SetDebug, inputVars, boardVars
<1>2. relEnabled' = relEnabled \/ (\E state : SetState(state)) \/ relEnabled' = FALSE
  <2>1. CASE ConnectDevice(s)
    BY <2>1 DEF ConnectDevice, RemoteConnect, LocalConnect, stateVars
  <2>2. CASE DoBootstrap(s) \/ FirmwareSelected(s)
    BY <2>2, DoWriteButton DEF DoBootstrap, FirmwareSelected
  <2>3. CASE DoRead(s)
    BY <2>3 DEF DoRead, RemoteRead, LocalRead, stateVars
  <2>4. CASE DoDiag(s) \/ SelectFirmware(s) \/ FlashFromRelease(s) \/ SetDebug(s)
    BY <2>4 DEF DoDiag, SelectFirmware, FlashFromRelease, SetDebug, stateVars
  <2>5. QED BY <2>1, <2>2, <2>3, <2>4 DEF UserStep
<1>3. QED BY <1>1, <1>2, SetStateKeeps, ChosenKeptOK DEF ChosenKept

\* So does what is set and entered, and it touches no board.
LEMMA SettingsStepAround ==
  ASSUME Around, SettingsStep
  PROVE  Around' /\ UNCHANGED <<staged, flash>>
<1>1. UNCHANGED <<staged, flash>>
  BY DEF SettingsStep, OpenSettings, CloseSettings, SaveSettings, Toggle, ReleaseChanged,
         EnterForm, PickRemoteDevice, ChooseLoaders, LoaderRead, ClearCustomBootloader,
         imageVars, boardVars
<1>2. CASE ReleaseChanged
  BY <1>1, <1>2 DEF ReleaseChanged, Around, ChosenOK, CanFlashRelease
<1>3. CASE EnterForm
  BY <1>1, <1>3 DEF EnterForm, Around, ChosenOK, stateVars
<1>4. CASE ~ReleaseChanged /\ ~EnterForm
  <2>1. form' = form /\ chosen' = chosen
    BY <1>4 DEF SettingsStep, OpenSettings, CloseSettings, SaveSettings, Toggle,
         PickRemoteDevice, ChooseLoaders, LoaderRead, ClearCustomBootloader, inputVars
  <2>2. relEnabled' = relEnabled \/ \E state : SetState(state)
    BY <1>4 DEF SettingsStep, OpenSettings, CloseSettings, SaveSettings, Toggle,
         PickRemoteDevice, SelectRemoteDevice, ChooseLoaders, LoaderRead,
         ClearCustomBootloader, stateVars
  <2>3. QED BY <1>1, <2>1, <2>2, SetStateKeeps, ChosenKeptOK DEF ChosenKept
<1>5. QED BY <1>1, <1>2, <1>3, <1>4

\* So does what boards do.
LEMMA BoardStepAround ==
  ASSUME Around, BoardStep
  PROVE  Around' /\ flash' = flash
<1>1. form' = form /\ chosen' = chosen /\ flash' = flash
  BY DEF BoardStep, PlugIn, GadgetAppears, ConnectEvent, DaemonGadgetAppears, Unplug, inputVars
<1>2. relEnabled' = relEnabled \/ \E state : SetState(state)
  BY DEF BoardStep, PlugIn, GadgetAppears, ConnectEvent, AutoAttach, DaemonGadgetAppears,
         Unplug, stateVars
<1>3. QED BY <1>1, <1>2, SetStateKeeps, ChosenKeptOK DEF ChosenKept

-----------------------------------------------------------------------------
(* Every step keeps what is written.                                       *)

\* A step of a job, or one that begins a job, keeps the invariant.
LEMMA JobStepWrites ==
  ASSUME NEW s \in Slots, IInv, WInv, Load(s) \/ JobStep(s) \/ UserStep(s)
  PROVE  WInv'
<1>1. WriteMove(s) \/ WriteStart(s)
  <2>1. CASE Load(s)
    BY <2>1, LoadWrites DEF WInv
  <2>2. CASE PageStep(s)
    BY <2>2, InitCalledWrites, RowReadWrites, OverlayBakedWrites, DownloadedWrites,
       ReleaseCheckedWrites, AwaitedWrites, SettledWrites DEF WInv, Around, PageStep
  <2>3. CASE LocalStep(s) \/ RemoteStep(s)
    BY <2>3, LocalStepWrites, RemoteStepWrites DEF WInv, Around
  <2>4. CASE UserStep(s)
    BY <2>4, ConnectDeviceWrites, DoBootstrapWrites, DoReadWrites, DoDiagWrites,
       SelectFirmwareWrites, FirmwareSelectedWrites, FlashFromReleaseWrites, SetDebugWrites
       DEF WInv, Around, UserStep
  <2>5. QED BY <2>1, <2>2, <2>3, <2>4 DEF JobStep
<1>2. Around'
  BY LocalStepAround, RemoteStepAround, PageStepAround, UserStepAround DEF WInv, JobStep
<1>3. QED BY <1>1, <1>2, MoveKeeps, StartKeeps DEF WInv

\* A device that is plugged in or comes back keeps what is written.
LEMMA ConnectEventWrites ==
  ASSUME NEW s \in Slots, NEW b, NEW st, IInv, WritesOK, ConnectEvent(s, b, st)
  PROVE  WritesOK'
<1>1. UNCHANGED <<staged, flash>>
  BY DEF ConnectEvent, imageVars
<1>2. AutoAttach(s, st) \/ jobs' = jobs
  BY DEF ConnectEvent
<1>3. QED BY <1>1, <1>2, AutoAttachWrites, IdleWrites, MoveKeeps

\* Every step keeps the invariant.
LEMMA NextWrites ==
  ASSUME IInv, WInv, [Next]_vars
  PROVE  WInv'
<1>1. CASE \E s \in Slots : Load(s) \/ JobStep(s) \/ UserStep(s)
  BY <1>1, JobStepWrites
<1>2. CASE SettingsStep
  BY <1>2, SettingsStepFree, SettingsStepAround
     DEF WInv, FreeStep, WritesOK, AloneIsOnly
<1>3. CASE BoardStep
  <2>1. ASSUME NEW b \in LocalBoards, NEW s \in Slots, PlugIn(s, b) \/ GadgetAppears(s, b)
        PROVE  WritesOK'
    BY <2>1, ConnectEventWrites DEF PlugIn, GadgetAppears, WInv
  <2>2. ASSUME NEW b, Unplug(b)
        PROVE  WritesOK'
    BY <2>2, UnplugWrites DEF WInv
  <2>3. ASSUME NEW b \in AtDaemon, DaemonGadgetAppears(b)
        PROVE  WritesOK'
    BY <2>3 DEF DaemonGadgetAppears, imageVars, WInv, WritesOK, AloneIsOnly
  <2>4. WritesOK'
    BY <1>3, <2>1, <2>2, <2>3 DEF BoardStep
  <2>5. QED BY <1>3, <2>4, BoardStepAround DEF WInv
<1>4. CASE UNCHANGED vars
  BY <1>4 DEF vars, inputVars, stateVars, imageVars, boardVars, WInv, Around, ChosenOK,
              WritesOK, AloneIsOnly
<1>5. QED BY <1>1, <1>2, <1>3, <1>4 DEF Next

\* It holds as the page is loaded.
LEMMA InitWrites ==
  ASSUME Init
  PROVE  WInv
<1>1. Around
  BY PageAssumption DEF Init, Around, ChosenOK
<1>2. ASSUME NEW s \in Slots
      PROVE  WriteOK(jobs[s], staged, flash) /\ jobs[s].pc \notin TransferPcs
  <2>1. CASE jobs[s] = Job("init", "load")
    <3> DEFINE job == Job("init", "load")
    <3>1. job.pc = "load" /\ WriteOK(job, staged, flash)
      BY FreshJob, FreshWrites DEF Baking, TransferPcs
    <3> HIDE DEF job
    <3>2. jobs[s] = job
      BY <2>1 DEF job
    <3>3. QED BY <3>1, <3>2 DEF TransferPcs
  <2>2. CASE jobs[s] = NoJob
    BY <2>2, NoJobOK, NoJobWrites DEF TransferPcs
  <2>3. QED BY <2>1, <2>2 DEF Init
<1>3. AloneIsOnly
  BY <1>2 DEF AloneIsOnly
<1>4. QED BY <1>1, <1>2, <1>3 DEF WInv, WritesOK

-----------------------------------------------------------------------------
(* How a transfer ends.                                                    *)

\* What is right is what was asked for.
LEMMA WroteRight ==
  ASSUME NEW job, NEW v \in BOOLEAN, NEW image, DOMAIN job = Fields, Right(job, image),
         v <=> "verify" \in job.asked
  PROVE  WroteWhatWasAsked([job EXCEPT !.verified = v], image)
BY DEF WroteWhatWasAsked, Right, Fields

\* The job ends here, with the page content.
EndsWell(s) ==
  /\ jobs[s].pc \in TransferPcs /\ jobs[s].alone /\ jobs[s].board # None
  /\ jobs'[s] = NoJob /\ currentState' = "done"

\* Only three kinds of step end a transfer well: the image was sent, the verification was
\* asked for or not, or what came after it is over.
LEMMA WellEnded ==
  ASSUME NEW s \in Slots, IInv, WInv, EndsWell(s), LocalStep(s) \/ RemoteStep(s)
  PROVE  Sent(s) \/ (jobs[s].pc \in Ending /\ flash' = flash)
<1>1. jobs'[s].pc = "idle" /\ jobs'[s].pc \notin TransferPcs
  BY NoJobOK DEF EndsWell, TransferPcs
<1>2. CASE PollLock(s)
  <2>1. jobs'[s].pc = jobs[s].pc
    BY <1>2, EnterJob DEF PollLock, IInv, JobOK
  <2>2. QED BY <1>1, <2>1 DEF EndsWell
<1>3. CASE Loaded(s) \/ RemoteServed(s)
  <2>1. DOMAIN jobs[s] = Fields /\ jobs[s].pc # "idle"
    BY DEF IInv, JobOK, EndsWell, TransferPcs
  <2>2. CASE Loaded(s)
    <3>1. jobs'[s].pc = jobs[s].pc
      BY <2>1, <2>2 DEF Loaded, Set, IInv, Fields
    <3>2. QED BY <1>1, <2>1, <3>1
  <2>3. CASE RemoteServed(s)
    <3>1. jobs'[s].pc = "r-answer"
      BY <2>1, <2>3 DEF RemoteServed, Set, IInv, Fields
    <3>2. QED BY <1>1, <3>1
  <2>4. QED BY <1>3, <2>2, <2>3
<1>4. CASE Written(s)
  <2>1. CASE AskedToVerify(s)
    <3> DEFINE job == [jobs[s] EXCEPT !.pc = "verify", !.image = None]
    <3>1. DOMAIN job = Fields /\ job.pc = "verify"
      BY DEF IInv, JobOK, Fields
    <3>2. Again(s, job) /\ jobs[s].inCall
      BY <1>4, <2>1 DEF Written, Called
    <3> HIDE DEF job
    <3>3. jobs'[s].pc = "verify"
      BY <3>1, <3>2, AgainJob DEF CallPcs
    <3>4. QED BY <1>1, <3>3
  <2>2. CASE ~AskedToVerify(s)
    <3>1. jobs[s].board \in DOMAIN flash
      BY DEF EndsWell, WInv, Around, WritesOK, WriteOK
    <3>2. QED BY <1>4, <2>2, <3>1 DEF Written, Called, At, Transferring, Sent, AskedToVerify
  <2>3. QED BY <2>1, <2>2
<1>5. CASE VerifiedOk(s)
  BY <1>5 DEF VerifiedOk, Called, At, Transferring, boardVars, Sent
<1>6. CASE WriteCallFailed(s) \/ RemoteWriteFailed(s)
  BY <1>6 DEF WriteCallFailed, RemoteWriteFailed, Finish, SetState, EndsWell
<1>7. CASE RebootCalled(s) \/ RemoteAnswered(s) \/ RemoteRebooted(s)
  BY <1>7 DEF RebootCalled, RemoteAnswered, RemoteRebooted, Called, At, Ending, boardVars
<1>a. CASE CallThrew(s)
  <2>1. jobs[s].pc \in {"write", "verify", "reboot"}
    BY <1>a DEF CallThrew, Caught, Attaching, At, EndsWell, TransferPcs
  <2>2. CASE jobs[s].pc \in {"write", "verify"}
    BY <1>a, <2>2 DEF CallThrew, Caught, Attaching, At, SetState, EndsWell
  <2>3. CASE jobs[s].pc = "reboot"
    BY <1>a, <2>3 DEF CallThrew, boardVars, Ending
  <2>4. QED BY <2>1, <2>2, <2>3
<1>8. CASE \/ Choose(s) \/ Discovered(s) \/ Probed(s) \/ VariantKnown(s) \/ Fetched(s)
           \/ BootCalled(s) \/ ReadCalled(s) \/ ReadSummed(s) \/ DiagCalled(s) \/ DebugCalled(s)
           \/ RemoteDiscovered(s) \/ RemoteBooted(s) \/ RemotePolled(s)
           \/ RemoteReadAnswered(s) \/ RemoteDiagAnswered(s)
  BY <1>8 DEF Choose, Discovered, Probed, VariantKnown, Fetched, BootCalled, ReadCalled, ReadSummed,
              DiagCalled, DebugCalled, RemoteDiscovered, RemoteBooted, RemotePolled,
              RemoteReadAnswered, RemoteDiagAnswered, Called, At, EndsWell, TransferPcs
<1>9. QED BY <1>2, <1>3, <1>4, <1>5, <1>6, <1>7, <1>a, <1>8 DEF LocalStep, RemoteStep

\* What has been sent, or was and is not disturbed since, is what was asked for.
LEMMA EndIsRight ==
  ASSUME NEW s \in Slots, IInv, WInv, EndsWell(s),
         Sent(s) \/ (jobs[s].pc \in Ending /\ flash' = flash)
  PROVE  WroteWhatWasAsked([jobs[s] EXCEPT !.verified = @ \/ At(s, "verify")],
                           flash'[jobs[s].board])
<1>1. DOMAIN jobs[s] = Fields
  BY DEF IInv, JobOK
<1>2. PICK v \in BOOLEAN : v = (jobs[s].verified \/ At(s, "verify"))
  OBVIOUS
<1>3. /\ jobs[s].alone => Right(jobs[s], flash'[jobs[s].board])
      /\ v <=> "verify" \in jobs[s].asked
  <2>1. CASE Sent(s)
    <3>1. WritesOK
      BY DEF WInv
    <3>2. QED BY <1>2, <2>1, <3>1, SentIsRight DEF At
  <2>2. CASE jobs[s].pc \in Ending /\ flash' = flash
    <3>1. TransferOK(jobs[s], staged, flash)
      BY <2>2 DEF WInv, WritesOK, WriteOK, EndsWell
    <3>2. ~At(s, "verify")
      BY <2>2 DEF At, Ending
    <3>3. jobs[s].verified <=> "verify" \in jobs[s].asked
      BY <2>2, <3>1 DEF TransferOK
    <3>4. v <=> "verify" \in jobs[s].asked
      BY <1>2, <3>2, <3>3
    <3>5. jobs[s].alone => Right(jobs[s], flash'[jobs[s].board])
      BY <2>2, <3>1 DEF TransferOK, EndsWell
    <3>6. QED BY <3>4, <3>5
  <2>3. QED BY <2>1, <2>2
<1>4. WroteWhatWasAsked([jobs[s] EXCEPT !.verified = v], flash'[jobs[s].board])
  BY <1>1, <1>3, WroteRight DEF EndsWell
<1>5. [jobs[s] EXCEPT !.verified = @ \/ At(s, "verify")] = [jobs[s] EXCEPT !.verified = v]
  BY <1>2
<1>6. QED BY <1>4, <1>5

\* A board that comes or goes ends no transfer.
LEMMA BoardStepEndsNone ==
  ASSUME NEW s \in Slots, IInv, BoardStep
  PROVE  jobs'[s].pc = jobs[s].pc \/ jobs[s].pc = "idle"
<1>1. ASSUME NEW b, NEW r \in Slots, NEW st, ConnectEvent(r, b, st)
      PROVE  jobs'[s].pc = jobs[s].pc \/ jobs[s].pc = "idle"
  <2>1. CASE FreeSlot(r) /\ AutoAttach(r, st)
    <3>1. jobs[r].pc = "idle"
      BY <2>1, FreeSlotIdle
    <3>2. GoodStep(r)
      BY <2>1, AutoAttachGood
    <3>3. QED BY <3>1, <3>2 DEF GoodStep, OnlyJob
  <2>2. CASE jobs' = jobs
    BY <2>2
  <2>3. QED BY <1>1, <2>1, <2>2 DEF ConnectEvent
<1>2. ASSUME NEW b, Unplug(b)
      PROVE  jobs'[s].pc = jobs[s].pc
  <2>1. DOMAIN jobs[s] = Fields
    BY DEF IInv, JobOK
  <2>2. QED BY <1>2, <2>1 DEF Unplug, Fields
<1>3. ASSUME NEW b, DaemonGadgetAppears(b)
      PROVE  jobs'[s].pc = jobs[s].pc
  BY <1>3 DEF DaemonGadgetAppears
<1>4. QED BY <1>1, <1>2, <1>3 DEF BoardStep, PlugIn, GadgetAppears

\* A transfer is ended by one of its own steps.
LEMMA EndIsItsOwn ==
  ASSUME NEW s \in Slots, IInv, [Next]_vars, EndsWell(s)
  PROVE  LocalStep(s) \/ RemoteStep(s)
<1>1. jobs[s].pc \in TransferPcs /\ jobs'[s].pc # jobs[s].pc /\ jobs[s].pc # "idle"
  BY NoJobOK DEF EndsWell, TransferPcs
<1>2. CASE \E r \in Slots : Load(r) \/ JobStep(r) \/ UserStep(r)
  <2>1. PICK r \in Slots : Load(r) \/ JobStep(r) \/ UserStep(r)
    BY <1>2
  <2>2. GoodStep(r)
    BY <2>1, LoadGood, JobStepGood, UserStepGood
  <2>3. r = s
    BY <1>1, <2>2 DEF GoodStep, OnlyJob
  <2>4. ~FreeSlot(s)
    BY <1>1, FreeSlotIdle
  <2>5. ~UserStep(s)
    BY <1>1, <2>4 DEF UserStep, ConnectDevice, DoBootstrap, DoRead, DoDiag, SelectFirmware,
                      FirmwareSelected, FlashFromRelease, SetDebug, At, TransferPcs
  <2>6. ~PageStep(s) /\ ~Load(s)
    BY <1>1 DEF PageStep, Load, InitCalled, RowRead, OverlayBaked, Downloaded,
                ReleaseChecked, Awaited, Settled, Called, At, TransferPcs
  <2>7. QED BY <2>1, <2>3, <2>5, <2>6 DEF JobStep
<1>3. CASE SettingsStep \/ UNCHANGED vars
  <2>1. jobs' = jobs
    BY <1>3, SettingsStepFree DEF FreeStep, vars
  <2>2. QED BY <1>1, <2>1
<1>4. CASE BoardStep
  BY <1>1, <1>4, BoardStepEndsNone
<1>5. QED BY <1>2, <1>3, <1>4 DEF Next

\* A write that ends well with no other in between leaves the board with the image that was
\* picked, unchanged outside the overlay, the entered files in it, and read back if that was
\* asked for: for every number of activations, boards and images, whatever fails, is toggled,
\* plugged in or pulled meanwhile (doDfuWrite, doRemoteWrite, applyOverlayInjection).
THEOREM SpecWriteDoneIsWhatWasAsked == Spec => WriteDoneIsWhatWasAsked
<1>1. Init => IInv /\ WInv
  BY InitIInv, InitWrites
<1>2. IInv /\ WInv /\ [Next]_vars => (IInv /\ WInv)'
  BY NextKeeps, NextWrites
<1>3. IInv /\ WInv /\ [Next]_vars =>
        [\A s \in Slots :
           jobs[s].pc \in TransferPcs /\ jobs[s].alone /\ jobs[s].board # None
             /\ jobs'[s] = NoJob /\ currentState' = "done"
           => WroteWhatWasAsked([jobs[s] EXCEPT !.verified = @ \/ At(s, "verify")],
                                flash'[jobs[s].board])]_vars
  <2>1. SUFFICES ASSUME IInv, WInv, [Next]_vars, NEW s \in Slots, EndsWell(s)
                 PROVE  WroteWhatWasAsked(
                          [jobs[s] EXCEPT !.verified = @ \/ At(s, "verify")],
                          flash'[jobs[s].board])
    BY DEF EndsWell
  <2>2. QED BY <2>1, EndIsItsOwn, WellEnded, EndIsRight
<1>4. QED BY <1>1, <1>2, <1>3, PTL DEF Spec, WriteDoneIsWhatWasAsked

-----------------------------------------------------------------------------
(* Every variable keeps its type.                                          *)

\* A set of numbers has a least.
LEMMA LeastIn ==
  ASSUME NEW S \in SUBSET Nat, S # {}
  PROVE  Min(S) \in S
<1> DEFINE R == OpToRel(<, Nat)
<1>1. IsWellFoundedOn(R, Nat)
  BY NatLessThanWellFounded
<1>2. \A x, y \in Nat : y < x => <<y, x>> \in R
  BY DEF OpToRel
<1> HIDE DEF R
<1>3. PICK x \in S : \A y \in S : ~(<<y, x>> \in R)
  BY <1>1, WFMin
<1>4. ASSUME NEW y \in S
      PROVE  x <= y
  <2>1. <<y, x>> \notin R
    BY <1>3
  <2>2. ~(y < x)
    BY <1>2, <2>1
  <2>3. QED BY <2>2
<1>5. QED BY <1>4 DEF Min

-----------------------------------------------------------------------------
(* What is set on the page.                                                *)

ModeOK ==
  /\ backendMode \in {"dfu", "remote"} /\ remoteUrl \in BOOLEAN /\ settingsOpen \in BOOLEAN
  /\ options \subseteq Toggles /\ custom \in [Loaders -> {"none", "reading", "loaded"}]
  /\ remoteClient \in BOOLEAN /\ clicks \in 0..MaxClicks

\* A click counts, up to the bound.
LEMMA ClickCounts ==
  ASSUME ModeOK, Click
  PROVE  clicks' \in 0..MaxClicks
<1>1. MaxClicks \in Nat
  BY PageAssumption
<1>2. QED BY <1>1 DEF ModeOK, Click

\* A flow on its way sets none of it.
LEMMA JobStepMode ==
  ASSUME NEW s \in Slots, ModeOK, Load(s) \/ JobStep(s)
  PROVE  ModeOK'
<1>1. UNCHANGED <<modeVars, options, custom, remoteClient, clicks>>
  <2>1. CASE Load(s) \/ PageStep(s)
    BY <2>1 DEF PageStep, Load, InitCalled, RowRead, OverlayBaked, Downloaded,
         ReleaseChecked, Awaited, Settled, inputVars, remoteVars
  <2>2. CASE LocalStep(s)
    BY <2>2 DEF LocalStep, PollLock, Choose, Discovered, Probed, VariantKnown, Fetched,
         BootCalled, ReadCalled, ReadSummed, Loaded, Written, VerifiedOk, WriteCallFailed,
         RebootCalled, DiagCalled, DebugCalled, CallThrew, inputVars, remoteVars
  <2>3. CASE RemoteStep(s)
    BY <2>3 DEF RemoteStep, RemoteDiscovered, RemoteBooted, RemotePolled,
         RemoteReadAnswered, RemoteServed, RemoteAnswered, RemoteWriteFailed,
         RemoteRebooted, RemoteDiagAnswered, inputVars, remoteVars
  <2>4. QED BY <2>1, <2>2, <2>3 DEF JobStep
<1>2. QED BY <1>1 DEF ModeOK, modeVars

\* A click counts, and one on Connect may end a session or open the settings.
LEMMA UserStepMode ==
  ASSUME NEW s \in Slots, ModeOK, UserStep(s)
  PROVE  ModeOK'
<1>1. UNCHANGED <<backendMode, remoteUrl, options, custom>>
  BY DEF UserStep, ConnectDevice, DoBootstrap, DoRead, DoDiag, SelectFirmware,
         FirmwareSelected, FlashFromRelease, SetDebug, inputVars, modeVars
<1>2. clicks' \in 0..MaxClicks
  BY ClickCounts DEF UserStep, ConnectDevice, DoBootstrap, DoRead, DoDiag,
     SelectFirmware, FirmwareSelected, FlashFromRelease, SetDebug, ClickOnPage, ModeOK
<1>3. settingsOpen' \in BOOLEAN /\ remoteClient' \in BOOLEAN
  <2>1. CASE ConnectDevice(s)
    BY <2>1 DEF ConnectDevice, RemoteConnect, LocalConnect, remoteVars, ModeOK
  <2>2. CASE ~ConnectDevice(s)
    BY <2>2 DEF UserStep, DoBootstrap, DoRead, DoDiag, SelectFirmware, FirmwareSelected,
         FlashFromRelease, SetDebug, modeVars, remoteVars, ModeOK
  <2>3. QED BY <2>1, <2>2
<1>4. QED BY <1>1, <1>2, <1>3 DEF ModeOK

\* Everything that can be set stays what it may be.
LEMMA SettingsStepMode ==
  ASSUME ModeOK, SettingsStep
  PROVE  ModeOK'
<1>1. CASE OpenSettings \/ CloseSettings
  <2>1. clicks' \in 0..MaxClicks
    BY <1>1, ClickCounts DEF OpenSettings, CloseSettings, ClickOnPage, ModeOK
  <2>2. QED BY <1>1, <2>1 DEF OpenSettings, CloseSettings, inputVars, remoteVars, ModeOK
<1>2. ASSUME NEW mode \in {"dfu", "remote"}, SaveSettings(mode)
      PROVE  ModeOK'
  BY <1>2 DEF SaveSettings, ApplyBackendMode, inputVars, ModeOK
<1>3. ClearedLoaders \in [Loaders -> {"none", "reading", "loaded"}]
  BY DEF ClearedLoaders, ModeOK
<1>4. ASSUME NEW option \in Toggles, Toggle(option)
      PROVE  ModeOK'
  BY <1>3, <1>4, ClickCounts DEF Toggle, modeVars, remoteVars, ModeOK
<1>5. CASE ReleaseChanged \/ EnterForm \/ \E i \in DOMAIN remoteDevices : PickRemoteDevice(i)
  <2>1. clicks' \in 0..MaxClicks
    BY <1>5, ClickCounts DEF ReleaseChanged, EnterForm, PickRemoteDevice, ClickOnPage
  <2>2. UNCHANGED <<modeVars, options, custom, remoteClient>>
    BY <1>5 DEF ReleaseChanged, EnterForm, PickRemoteDevice, inputVars, remoteVars
  <2>3. QED BY <2>1, <2>2 DEF ModeOK, modeVars
<1>6. CASE ChooseLoaders \/ ClearCustomBootloader
  BY <1>3, <1>6, ClickCounts
     DEF ChooseLoaders, ClearCustomBootloader, ClickOnPage, modeVars, remoteVars, ModeOK
<1>7. ASSUME NEW which \in Loaders, LoaderRead(which)
      PROVE  ModeOK'
  BY <1>7 DEF LoaderRead, modeVars, remoteVars, ModeOK
<1>8. QED BY <1>1, <1>2, <1>4, <1>5, <1>6, <1>7 DEF SettingsStep

\* Boards are plugged and unplugged by hand, which counts.
LEMMA BoardStepMode ==
  ASSUME ModeOK, BoardStep
  PROVE  ModeOK'
<1>1. UNCHANGED <<modeVars, options, custom, remoteClient>>
  BY DEF BoardStep, PlugIn, GadgetAppears, ConnectEvent, DaemonGadgetAppears, Unplug,
         inputVars, remoteVars
<1>2. clicks' \in 0..MaxClicks
  BY ClickCounts DEF BoardStep, PlugIn, GadgetAppears, DaemonGadgetAppears, Unplug, ModeOK
<1>3. QED BY <1>1, <1>2 DEF ModeOK, modeVars
-----------------------------------------------------------------------------
(* The boards, and what the browser shows of them.                         *)

BoardOK ==
  /\ stage \in [Boards -> Stages] /\ grants \subseteq (LocalBoards \X {"rom", "gadget"})
  /\ lastDiagText \in Boards \union {None}

\* A board's stage becomes another.
LEMMA StageSet ==
  ASSUME NEW b, NEW st \in Stages, stage \in [Boards -> Stages],
         stage' = [stage EXCEPT ![b] = st]
  PROVE  stage' \in [Boards -> Stages]
OBVIOUS

\* So it does when its loader is started.
LEMMA StartedSets ==
  ASSUME NEW b, NEW loader, stage \in [Boards -> Stages], Started(b, loader)
  PROVE  stage' \in [Boards -> Stages]
<1> DEFINE st == IF loader \in {"custom", SocOf[b]} THEN "booting" ELSE "dead"
<1>1. st \in Stages
  BY DEF Stages
<1>2. stage' = [stage EXCEPT ![b] = st]
  BY DEF Started
<1> HIDE DEF st
<1>3. QED BY <1>1, <1>2, StageSet

\* The USB backend is granted boards, boots and reboots them, and reads one out.
LEMMA LocalStepBoards ==
  ASSUME NEW s \in Slots, BoardOK, LocalStep(s)
  PROVE  BoardOK'
<1>1. stage' \in [Boards -> Stages]
  <2>1. CASE BootCalled(s)
    BY <2>1, StartedSets DEF BootCalled, BoardOK
  <2>2. CASE RebootCalled(s)
    BY <2>2, StageSet DEF RebootCalled, BoardOK, Stages
  <2>3. CASE ~BootCalled(s) /\ ~RebootCalled(s)
    BY <2>3 DEF LocalStep, PollLock, Choose, Discovered, Probed, VariantKnown, Fetched,
         ReadCalled, ReadSummed, Loaded, Written, VerifiedOk, WriteCallFailed, DiagCalled,
         DebugCalled, CallThrew, boardVars, BoardOK
  <2>4. QED BY <2>1, <2>2, <2>3
<1>2. grants' \subseteq (LocalBoards \X {"rom", "gadget"})
  <2>1. CASE Choose(s)
    BY <2>1 DEF Choose, Plugged, BoardOK
  <2>2. CASE ~Choose(s)
    BY <2>2 DEF LocalStep, PollLock, Discovered, Probed, VariantKnown, Fetched, BootCalled,
         ReadCalled, ReadSummed, Loaded, Written, VerifiedOk, WriteCallFailed, RebootCalled,
         DiagCalled, DebugCalled, CallThrew, boardVars, BoardOK
  <2>3. QED BY <2>1, <2>2
<1>3. lastDiagText' \in Boards \union {None}
  <2>1. CASE DiagCalled(s)
    BY <2>1 DEF DiagCalled, Seen, Boards, BoardOK
  <2>2. CASE ~DiagCalled(s)
    BY <2>2 DEF LocalStep, PollLock, Choose, Discovered, Probed, VariantKnown, Fetched,
         BootCalled, ReadCalled, ReadSummed, Loaded, Written, VerifiedOk, WriteCallFailed,
         RebootCalled, DebugCalled, CallThrew, BoardOK
  <2>3. QED BY <2>1, <2>2
<1>4. QED BY <1>1, <1>2, <1>3 DEF BoardOK

\* The daemon boots and reboots its boards, and reads one out.
LEMMA RemoteStepBoards ==
  ASSUME NEW s \in Slots, BoardOK, RemoteStep(s)
  PROVE  BoardOK'
<1>1. stage' \in [Boards -> Stages]
  <2>1. CASE RemoteBooted(s)
    BY <2>1, StartedSets DEF RemoteBooted, BoardOK
  <2>2. CASE RemoteRebooted(s)
    BY <2>2, StageSet DEF RemoteRebooted, BoardOK, Stages
  <2>3. CASE ~RemoteBooted(s) /\ ~RemoteRebooted(s)
    BY <2>3 DEF RemoteStep, RemoteDiscovered, RemotePolled, RemoteReadAnswered,
         RemoteServed, RemoteAnswered, RemoteWriteFailed, RemoteDiagAnswered, boardVars,
         BoardOK
  <2>4. QED BY <2>1, <2>2, <2>3
<1>2. grants' = grants
  BY DEF RemoteStep, RemoteDiscovered, RemoteBooted, RemotePolled, RemoteReadAnswered,
         RemoteServed, RemoteAnswered, RemoteWriteFailed, RemoteRebooted, RemoteDiagAnswered,
         boardVars
<1>3. lastDiagText' \in Boards \union {None}
  <2>1. CASE RemoteDiagAnswered(s)
    <3>1. Listed(jobs[s].index) \subseteq Boards
      BY NthAtDaemon DEF Listed, Boards
    <3>2. QED BY <2>1, <3>1 DEF RemoteDiagAnswered, BoardOK
  <2>2. CASE ~RemoteDiagAnswered(s)
    BY <2>2 DEF RemoteStep, RemoteDiscovered, RemoteBooted, RemotePolled,
         RemoteReadAnswered, RemoteServed, RemoteAnswered, RemoteWriteFailed,
         RemoteRebooted, BoardOK
  <2>3. QED BY <2>1, <2>2
<1>4. QED BY <1>1, <1>2, <1>3 DEF BoardOK

\* The page's own steps and the user's touch no board; Connect forgets the readout.
LEMMA PageStepBoards ==
  ASSUME NEW s \in Slots, BoardOK, Load(s) \/ PageStep(s) \/ UserStep(s)
  PROVE  BoardOK'
<1>1. UNCHANGED <<stage, grants>>
  BY DEF PageStep, Load, InitCalled, RowRead, OverlayBaked, Downloaded, ReleaseChecked,
         Awaited, Settled, UserStep, ConnectDevice, DoBootstrap, DoRead, DoDiag,
         SelectFirmware, FirmwareSelected, FlashFromRelease, SetDebug, boardVars
<1>2. lastDiagText' \in {lastDiagText, None}
  BY DEF PageStep, Load, InitCalled, RowRead, OverlayBaked, Downloaded, ReleaseChecked,
         Awaited, Settled, UserStep, ConnectDevice, LocalConnect, RemoteConnect,
         DoBootstrap, DoRead, DoDiag, SelectFirmware, FirmwareSelected, FlashFromRelease,
         SetDebug
<1>3. QED BY <1>1, <1>2 DEF BoardOK

\* Settings touch none either.
LEMMA SettingsStepBoards ==
  ASSUME BoardOK, SettingsStep
  PROVE  BoardOK'
<1>1. UNCHANGED <<stage, grants, lastDiagText>>
  BY DEF SettingsStep, OpenSettings, CloseSettings, SaveSettings, Toggle, ReleaseChanged,
         EnterForm, PickRemoteDevice, ChooseLoaders, LoaderRead, ClearCustomBootloader,
         boardVars
<1>2. QED BY <1>1 DEF BoardOK

\* Boards change their stages.
LEMMA BoardStepBoards ==
  ASSUME BoardOK, BoardStep
  PROVE  BoardOK'
<1>1. UNCHANGED <<grants, lastDiagText>>
  BY DEF BoardStep, PlugIn, GadgetAppears, ConnectEvent, DaemonGadgetAppears, Unplug
<1>2. \E b \in Boards : \E st \in Stages : stage' = [stage EXCEPT ![b] = st]
  BY DEF BoardStep, PlugIn, GadgetAppears, ConnectEvent, DaemonGadgetAppears, Unplug, Stages,
         Boards
<1>3. QED BY <1>1, <1>2, StageSet DEF BoardOK

-----------------------------------------------------------------------------
(* The page's state.                                                       *)

StateOK ==
  /\ tdfuReady \in BOOLEAN /\ crossed \in BOOLEAN
  /\ currentState \in States /\ relEnabled \in BOOLEAN /\ stranded \in BOOLEAN

\* A step keeps the state, or sets it; or it only sees to the button of releases, or
\* leaves the state to nobody.
StateMove ==
  \/ UNCHANGED stateVars
  \/ \E state \in States : SetState(state)
  \/ /\ UNCHANGED <<currentState, stranded>>
     /\ relEnabled' = FALSE \/ \E asset : relEnabled' = CanFlashRelease(currentState, asset)
  \/ UNCHANGED <<currentState, relEnabled>> /\ stranded' = TRUE

\* The module is ready at last, and may be entered.
ModuleMove ==
  /\ tdfuReady' \in {tdfuReady, TRUE}
  /\ crossed' = crossed \/ \E s \in Slots : EnterBare(s)

\* Each of these keeps the types.
LEMMA StateMoveOK ==
  ASSUME StateOK, StateMove, ModuleMove
  PROVE  StateOK'
<1>1. tdfuReady' \in BOOLEAN
  BY DEF StateOK, ModuleMove
<1>2. crossed' \in BOOLEAN
  <2>1. ASSUME NEW s \in Slots, EnterBare(s)
        PROVE  crossed' \in BOOLEAN
    BY <2>1 DEF EnterBare
  <2>2. QED BY <2>1 DEF StateOK, ModuleMove
<1>3. currentState' \in States /\ relEnabled' \in BOOLEAN /\ stranded' \in BOOLEAN
  BY DEF StateOK, StateMove, SetState, CanFlashRelease, stateVars
<1>4. QED BY <1>1, <1>2, <1>3 DEF StateOK

\* The steps of the USB backend.
LEMMA LocalStepState ==
  ASSUME NEW s \in Slots, LocalStep(s)
  PROVE  StateMove /\ ModuleMove
<1>1. ModuleMove
  <2>1. CASE Discovered(s)
    BY <2>1 DEF Discovered, ModuleMove
  <2>2. CASE ~Discovered(s)
    BY <2>2 DEF LocalStep, PollLock, Choose, Probed, VariantKnown, Fetched, BootCalled,
         ReadCalled, ReadSummed, Loaded, Written, VerifiedOk, WriteCallFailed, RebootCalled,
         DiagCalled, DebugCalled, CallThrew, moduleVars, ModuleMove
  <2>3. QED BY <2>1, <2>2
<1>2. {"idle", "done", "error", "detecting"} \subseteq States
  BY DEF States, BusyStates
<1>3. CASE CallThrew(s)
  BY <1>1, <1>2, <1>3 DEF CallThrew, Caught, StateMove
<1>4. CASE ~CallThrew(s)
  <2>1. \/ UNCHANGED stateVars
        \/ \E state \in {"idle", "done", "error", "detecting"} : SetState(state)
    <3>1. CASE PollLock(s) \/ Loaded(s) \/ DiagCalled(s) \/ DebugCalled(s)
      BY <3>1 DEF PollLock, Loaded, DiagCalled, DebugCalled
    <3>2. CASE Choose(s) \/ Discovered(s) \/ Probed(s) \/ VariantKnown(s)
      BY <3>2 DEF Choose, Discovered, AfterNoDevice, Probed, VariantKnown, Finish
    <3>3. CASE Fetched(s) \/ BootCalled(s)
      BY <3>3 DEF Fetched, BootCalled
    <3>4. CASE ReadCalled(s) \/ ReadSummed(s) \/ WriteCallFailed(s) \/ RebootCalled(s)
      BY <3>4 DEF ReadCalled, ReadSummed, WriteCallFailed, RebootCalled, Finish
    <3>5. CASE Written(s) \/ VerifiedOk(s)
      BY <3>5 DEF Written, VerifiedOk, RebootOrFinish, Finish
    <3>6. QED BY <1>4, <3>1, <3>2, <3>3, <3>4, <3>5 DEF LocalStep
  <2>2. QED BY <1>1, <1>2, <2>1 DEF StateMove
<1>5. QED BY <1>3, <1>4

\* Those of the daemon backend.
LEMMA RemoteStepState ==
  ASSUME NEW s \in Slots, RemoteStep(s)
  PROVE  StateMove /\ ModuleMove
<1>1. ModuleMove
  <2>1. CASE RemoteDiscovered(s) \/ RemotePolled(s)
    BY <2>1 DEF RemoteDiscovered, RemotePolled, Resolve, ModuleMove
  <2>2. CASE ~RemoteDiscovered(s) /\ ~RemotePolled(s)
    BY <2>2 DEF RemoteStep, RemoteBooted, RemoteReadAnswered, RemoteServed, RemoteAnswered,
         RemoteWriteFailed, RemoteRebooted, RemoteDiagAnswered, moduleVars, ModuleMove
  <2>3. QED BY <2>1, <2>2
<1>2. {"idle", "done", "error"} \subseteq States
  BY DEF States
<1>3. UNCHANGED stateVars \/ \E state \in {"idle", "done", "error"} : SetState(state)
  <2>1. CASE RemoteServed(s) \/ RemoteDiagAnswered(s)
    BY <2>1 DEF RemoteServed, RemoteDiagAnswered
  <2>2. CASE RemoteDiscovered(s)
    BY <2>2 DEF RemoteDiscovered, SelectRemoteDevice
  <2>3. CASE RemoteBooted(s) \/ RemotePolled(s)
    BY <2>3 DEF RemoteBooted, BootAnswered, RemotePolled
  <2>4. CASE RemoteReadAnswered(s) \/ RemoteWriteFailed(s) \/ RemoteRebooted(s)
    BY <2>4 DEF RemoteReadAnswered, RemoteWriteFailed, RemoteRebooted
  <2>5. CASE RemoteAnswered(s)
    BY <2>5 DEF RemoteAnswered, RemoteRebootOrFinish
  <2>6. QED BY <2>1, <2>2, <2>3, <2>4, <2>5 DEF RemoteStep
<1>4. QED BY <1>1, <1>2, <1>3 DEF StateMove

\* A flow that comes to a transfer or a boot.
LEMMA DoWriteState ==
  ASSUME NEW s, NEW job, NEW data,
         \/ DoWrite(s, job, data) \/ NextRow(s, job, data) \/ Transfer(s, job, data)
         \/ Boot(s, job)
  PROVE  UNCHANGED stateVars \/ \E state \in States : SetState(state)
<1>1. {"writing", "bootstrapping"} \subseteq States
  BY DEF States, BusyStates
<1>2. Transfer(s, job, data) => UNCHANGED stateVars \/ SetState("writing")
  BY DEF Transfer, LocalWrite, RemoteWrite
<1>3. Boot(s, job) => UNCHANGED stateVars \/ SetState("bootstrapping")
  BY DEF Boot, LocalBoot, RemoteBoot
<1>4. DoWrite(s, job, data) => UNCHANGED stateVars \/ SetState("writing")
  <2>1. ASSUME NEW rows, NextRow(s, rows, data)
        PROVE  UNCHANGED stateVars \/ SetState("writing")
    BY <2>1 DEF NextRow, Pause, Transfer, LocalWrite, RemoteWrite
  <2>2. QED BY <1>2, <2>1 DEF DoWrite
<1>5. NextRow(s, job, data) => UNCHANGED stateVars \/ SetState("writing")
  BY DEF NextRow, Pause, Transfer, LocalWrite, RemoteWrite
<1>6. QED BY <1>1, <1>2, <1>3, <1>4, <1>5

\* The page's own flows.
LEMMA PageStepState ==
  ASSUME NEW s \in Slots, Load(s) \/ PageStep(s)
  PROVE  StateMove /\ ModuleMove
<1>1. ModuleMove
  <2>1. CASE Load(s) \/ InitCalled(s)
    BY <2>1 DEF Load, InitCalled, moduleVars, ModuleMove
  <2>2. CASE ReleaseChecked(s)
    BY <2>2 DEF ReleaseChecked, EnsureDfuMode, Boot, LocalBoot, ModuleMove
  <2>3. CASE RowRead(s) \/ OverlayBaked(s) \/ Downloaded(s) \/ Awaited(s) \/ Settled(s)
    BY <2>3 DEF RowRead, OverlayBaked, Downloaded, Awaited, Settled, moduleVars, ModuleMove
  <2>4. QED BY <2>1, <2>2, <2>3 DEF PageStep
<1>2. CASE Load(s) \/ InitCalled(s)
  BY <1>1, <1>2 DEF Load, InitCalled, StateMove
<1>3. GiveUp(s) => StateMove
  BY DEF GiveUp, StateMove
<1>4. CASE Downloaded(s) \/ Awaited(s)
  BY <1>1, <1>3, <1>4 DEF Downloaded, Awaited, StateMove
<1>5. CASE OverlayBaked(s)
  BY <1>1, <1>5, DoWriteState DEF OverlayBaked, StateMove
<1>6. CASE ReleaseChecked(s)
  BY <1>1, <1>3, <1>6, DoWriteState DEF ReleaseChecked, EnsureDfuMode, StateMove
<1>7. CASE Settled(s)
  BY <1>1, <1>3, <1>7, DoWriteState DEF Settled, StateMove
<1>8. CASE RowRead(s)
  BY <1>1, <1>8, DoWriteState DEF RowRead, Pause, StateMove
<1>9. QED BY <1>2, <1>4, <1>5, <1>6, <1>7, <1>8 DEF PageStep

\* What users start.
LEMMA UserStepState ==
  ASSUME NEW s \in Slots, UserStep(s)
  PROVE  StateMove /\ ModuleMove
<1>1. ModuleMove
  <2>1. CASE DoBootstrap(s)
    BY <2>1 DEF DoBootstrap, Boot, LocalBoot, ModuleMove
  <2>2. CASE ~DoBootstrap(s)
    BY <2>2 DEF UserStep, ConnectDevice, DoRead, DoDiag, SelectFirmware, FirmwareSelected,
         FlashFromRelease, SetDebug, moduleVars, ModuleMove
  <2>3. QED BY <2>1, <2>2
<1>2. {"connecting", "reading", "idle"} \subseteq States
  BY DEF States, BusyStates
<1>3. CASE ConnectDevice(s)
  BY <1>1, <1>2, <1>3 DEF ConnectDevice, RemoteConnect, LocalConnect, StateMove
<1>4. CASE DoBootstrap(s) \/ FirmwareSelected(s)
  BY <1>1, <1>4, DoWriteState DEF DoBootstrap, FirmwareSelected, StateMove
<1>5. CASE DoRead(s)
  BY <1>1, <1>2, <1>5 DEF DoRead, RemoteRead, LocalRead, StateMove
<1>6. CASE DoDiag(s) \/ SelectFirmware(s) \/ FlashFromRelease(s) \/ SetDebug(s)
  BY <1>1, <1>6 DEF DoDiag, SelectFirmware, FlashFromRelease, SetDebug, StateMove
<1>7. QED BY <1>3, <1>4, <1>5, <1>6 DEF UserStep

\* What is set and entered: another backend starts from rest.
LEMMA SettingsStepState ==
  ASSUME StateOK, SettingsStep
  PROVE  StateMove /\ ModuleMove
<1>1. ModuleMove
  BY DEF SettingsStep, OpenSettings, CloseSettings, SaveSettings, Toggle, ReleaseChanged,
         EnterForm, PickRemoteDevice, ChooseLoaders, LoaderRead, ClearCustomBootloader,
         moduleVars, ModuleMove
<1>2. {"idle", "done", currentState} \subseteq States
  BY DEF States, StateOK
<1>3. CASE ReleaseChanged
  BY <1>1, <1>3 DEF ReleaseChanged, StateMove
<1>4. ASSUME NEW mode, SaveSettings(mode)
      PROVE  SetState("idle") \/ SetState(currentState)
  BY <1>4 DEF SaveSettings
<1>5. ASSUME NEW i, PickRemoteDevice(i)
      PROVE  SetState("done")
  BY <1>5 DEF PickRemoteDevice, SelectRemoteDevice
<1>6. CASE (\E mode : SaveSettings(mode)) \/ (\E i : PickRemoteDevice(i))
  BY <1>1, <1>2, <1>4, <1>5, <1>6 DEF StateMove
<1>7. CASE ~ReleaseChanged /\ ~(\E mode : SaveSettings(mode)) /\ ~\E i : PickRemoteDevice(i)
  BY <1>1, <1>7 DEF SettingsStep, OpenSettings, CloseSettings, Toggle, EnterForm,
       ChooseLoaders, LoaderRead, ClearCustomBootloader, StateMove
<1>8. QED BY <1>3, <1>6, <1>7

\* What boards do: a page that is open to it attaches them.
LEMMA BoardStepState ==
  ASSUME BoardStep
  PROVE  StateMove /\ ModuleMove
<1>1. ModuleMove
  BY DEF BoardStep, PlugIn, GadgetAppears, ConnectEvent, DaemonGadgetAppears, Unplug,
         moduleVars, ModuleMove
<1>2. {"done", "detecting"} \subseteq States
  BY DEF States, BusyStates
<1>3. UNCHANGED stateVars \/ SetState("done") \/ SetState("detecting")
  BY DEF BoardStep, PlugIn, GadgetAppears, ConnectEvent, AutoAttach, DaemonGadgetAppears,
         Unplug
<1>4. QED BY <1>1, <1>2, <1>3 DEF StateMove

-----------------------------------------------------------------------------
(* The device the page works with, and the daemon's list.                  *)

\* What the daemon lists of a device.
DeviceEntry(device) == device.board \in AtDaemon /\ device.rom \in BOOLEAN
ListOK(devices) ==
  \E n \in Nat : DOMAIN devices = 1..n /\ \A i \in 1..n : DeviceEntry(devices[i])

DeviceOK ==
  /\ inDfuMode \in BOOLEAN /\ selectedRemoteIndex \in Nat \ {0}
  /\ ListOK(remoteDevices)

\* The daemon's boards are finitely many.
LEMMA AtDaemonFinite == IsFiniteSet(AtDaemon)
<1>1. DaemonBoards \in Seq(AtDaemon)
  BY PageAssumption
<1>2. IsFiniteSet(1..Len(DaemonBoards))
  BY <1>1, FS_Interval
<1>3. DaemonBoards \in Surjection(1..Len(DaemonBoards), AtDaemon)
  BY <1>1 DEF Surjection, AtDaemon
<1>4. QED BY <1>2, <1>3, FS_Surjection

\* A list of as many of them as can be seen, or an empty one.
Answered(devices, n, known) ==
  \E list \in [1..n -> AtDaemon] : devices = [i \in 1..n |-> Entry(list[i], known)]

\* What discover answers is one of these.
LEMMA DiscoverableIs ==
  ASSUME NEW devices \in Discoverable, devices # << >>
  PROVE  \E n \in Nat : \E known : Answered(devices, n, known)
<1> DEFINE here == {b \in AtDaemon : stage[b] \in {"rom", "gadget"}}
           n == Cardinality(here)
<1>1. n \in Nat
  <2>1. IsFiniteSet(here)
    BY AtDaemonFinite, FS_Subset
  <2>2. QED BY <2>1, FS_CardinalityType
<1>2. Listings \subseteq [1..n -> AtDaemon]
  BY DEF Listings
<1>3. PICK list \in Listings :
        \E known : devices = [i \in DOMAIN list |-> Entry(list[i], known)]
  <2> DEFINE knowns == {TRUE} \union (IF Faults THEN {FALSE} ELSE {})
             lists == {[i \in DOMAIN list |-> Entry(list[i], known)] :
                         list \in Listings, known \in knowns}
             none == {<< >> : reply \in Replies(TRUE) \ {"payload"}}
  <2>1. Discoverable = lists \union none
    BY DEF Discoverable
  <2>2. \A empty \in none : empty = << >>
    OBVIOUS
  <2> HIDE DEF none, lists
  <2>3. devices \in lists
    BY <2>1, <2>2
  <2> HIDE DEF knowns
  <2>4. QED BY <2>3 DEF lists
<1>4. PICK known : devices = [i \in DOMAIN list |-> Entry(list[i], known)]
  BY <1>3
<1>5. DOMAIN list = 1..n
  BY <1>2
<1>6. Answered(devices, n, known)
  BY <1>2, <1>4, <1>5 DEF Answered
<1>7. QED BY <1>1, <1>6

\* What it answers is a list of them.
LEMMA DiscoverableOK ==
  ASSUME NEW devices \in Discoverable
  PROVE  ListOK(devices)
<1>1. CASE devices = << >>
  <2>1. DOMAIN devices = 1..0
    BY <1>1
  <2>2. QED BY <2>1 DEF ListOK
<1>2. CASE devices # << >>
  <2>1. PICK n \in Nat : \E known : Answered(devices, n, known)
    BY <1>2, DiscoverableIs
  <2>2. PICK known : Answered(devices, n, known)
    BY <2>1
  <2>3. PICK list \in [1..n -> AtDaemon] : devices = [i \in 1..n |-> Entry(list[i], known)]
    BY <2>2 DEF Answered
  <2>4. ASSUME NEW i \in 1..n
        PROVE  DeviceEntry(Entry(list[i], known))
    BY DEF DeviceEntry, Entry
  <2>5. DOMAIN devices = 1..n /\ \A i \in 1..n : devices[i] = Entry(list[i], known)
    BY <2>3
  <2>6. QED BY <2>4, <2>5 DEF ListOK
<1>3. QED BY <1>1, <1>2

\* The one that is selected is in the list.
LEMMA SelectOK ==
  ASSUME NEW devices, NEW i \in DOMAIN devices, ListOK(devices), SelectRemoteDevice(devices, i)
  PROVE  inDfuMode' \in BOOLEAN /\ selectedRemoteIndex' \in Nat \ {0}
<1>1. i \in Nat \ {0} /\ devices[i].rom \in BOOLEAN
  BY DEF ListOK, DeviceEntry
<1>2. QED BY <1>1 DEF SelectRemoteDevice

\* The USB backend finds out about its own device only.
LEMMA LocalStepDevice ==
  ASSUME NEW s \in Slots, DeviceOK, LocalStep(s)
  PROVE  DeviceOK'
<1>1. UNCHANGED remoteVars
  BY DEF LocalStep, PollLock, Choose, Discovered, Probed, VariantKnown, Fetched, BootCalled,
         ReadCalled, ReadSummed, Loaded, Written, VerifiedOk, WriteCallFailed, RebootCalled,
         DiagCalled, DebugCalled, CallThrew
<1>2. inDfuMode' \in BOOLEAN
  BY DEF LocalStep, PollLock, Choose, Discovered, Probed, VariantKnown, Fetched, BootCalled,
         ReadCalled, ReadSummed, Loaded, Written, VerifiedOk, WriteCallFailed, RebootCalled,
         DiagCalled, DebugCalled, CallThrew, deviceVars, DeviceOK
<1>3. QED BY <1>1, <1>2 DEF DeviceOK, remoteVars, ListOK, DeviceEntry

\* A list that is not empty has a first device.
LEMMA FirstListed ==
  ASSUME NEW devices \in Discoverable, devices # << >>
  PROVE  1 \in DOMAIN devices
<1>1. PICK n \in Nat : \E known : Answered(devices, n, known)
  BY DiscoverableIs
<1>2. PICK known : Answered(devices, n, known)
  BY <1>1
<1>3. PICK list \in [1..n -> AtDaemon] : devices = [i \in 1..n |-> Entry(list[i], known)]
  BY <1>2 DEF Answered
<1>4. n # 0
  <2>1. SUFFICES ASSUME n = 0
                 PROVE  FALSE
    OBVIOUS
  <2>2. devices = [i \in 1..0 |-> Entry(list[i], known)]
    BY <1>3, <2>1
  <2>3. devices \in Seq(STRING)
    BY <2>2
  <2>4. QED BY <2>2, <2>3
<1>5. QED BY <1>3, <1>4

\* The daemon backend selects what was listed.
LEMMA RemoteStepDevice ==
  ASSUME NEW s \in Slots, DeviceOK, RemoteStep(s)
  PROVE  DeviceOK'
<1>1. CASE RemoteDiscovered(s)
  <2>1. PICK devices \in Discoverable :
          /\ remoteDevices' = devices
          /\ IF devices = << >>
               THEN UNCHANGED <<deviceVars, selectedRemoteIndex>>
               ELSE SelectRemoteDevice(devices, 1)
    BY <1>1 DEF RemoteDiscovered
  <2>2. ListOK(devices)
    BY DiscoverableOK
  <2>3. inDfuMode' \in BOOLEAN /\ selectedRemoteIndex' \in Nat \ {0}
    BY <2>1, <2>2, SelectOK, FirstListed DEF DeviceOK, deviceVars
  <2>4. QED BY <2>1, <2>2, <2>3 DEF DeviceOK, ListOK, DeviceEntry
<1>2. CASE RemotePolled(s)
  <2>1. PICK devices \in IF remoteClient THEN Discoverable ELSE {<< >>} :
          /\ remoteDevices' = devices
          /\ IF NewGadgets(devices, jobs[s].before) # {}
               THEN /\ selectedRemoteIndex' = Min(NewGadgets(devices, jobs[s].before))
                    /\ inDfuMode' = TRUE
               ELSE UNCHANGED <<selectedRemoteIndex, inDfuMode>>
    BY <1>2 DEF RemotePolled
  <2>2. << >> \in Discoverable \/ ListOK(<< >>)
    <3>1. DOMAIN << >> = 1..0
      OBVIOUS
    <3>2. QED BY <3>1 DEF ListOK
  <2>3. ListOK(devices)
    BY <2>1, <2>2, DiscoverableOK
  <2>4. NewGadgets(devices, jobs[s].before) \subseteq Nat \ {0}
    BY <2>3 DEF NewGadgets, ListOK
  <2>5. inDfuMode' \in BOOLEAN /\ selectedRemoteIndex' \in Nat \ {0}
    BY <2>1, <2>4, LeastIn DEF DeviceOK
  <2>6. QED BY <2>1, <2>3, <2>5 DEF DeviceOK, ListOK, DeviceEntry
<1>3. CASE ~RemoteDiscovered(s) /\ ~RemotePolled(s)
  <2>1. UNCHANGED <<deviceVars, remoteVars>>
    BY <1>3 DEF RemoteStep, RemoteBooted, RemoteReadAnswered, RemoteServed, RemoteAnswered,
                RemoteWriteFailed, RemoteRebooted, RemoteDiagAnswered
  <2>2. QED BY <2>1 DEF DeviceOK, remoteVars, deviceVars, ListOK, DeviceEntry
<1>4. QED BY <1>1, <1>2, <1>3

\* The page's own flows leave the devices alone.
LEMMA PageStepDevice ==
  ASSUME NEW s \in Slots, DeviceOK, Load(s) \/ PageStep(s)
  PROVE  DeviceOK'
<1>1. UNCHANGED <<deviceVars, remoteVars>>
  BY DEF PageStep, Load, InitCalled, RowRead, OverlayBaked, Downloaded, ReleaseChecked,
         Awaited, Settled
<1>2. QED BY <1>1 DEF DeviceOK, remoteVars, deviceVars, ListOK, DeviceEntry

\* An empty list is one.
LEMMA NoneListed == ListOK(<< >>)
<1>1. DOMAIN << >> = 1..0
  OBVIOUS
<1>2. QED BY <1>1 DEF ListOK

\* A user may end the session, and with it the list.
LEMMA UserStepDevice ==
  ASSUME NEW s \in Slots, DeviceOK, UserStep(s)
  PROVE  DeviceOK'
<1>1. UNCHANGED <<inDfuMode, selectedRemoteIndex>>
  BY DEF UserStep, ConnectDevice, RemoteConnect, LocalConnect, DoBootstrap, DoRead, DoDiag,
         SelectFirmware, FirmwareSelected, FlashFromRelease, SetDebug, deviceVars, remoteVars
<1>2. remoteDevices' \in {remoteDevices, << >>}
  BY DEF UserStep, ConnectDevice, RemoteConnect, LocalConnect, DoBootstrap, DoRead, DoDiag,
         SelectFirmware, FirmwareSelected, FlashFromRelease, SetDebug, deviceVars, remoteVars
<1>3. ListOK(remoteDevices')
  BY <1>2, NoneListed DEF DeviceOK
<1>4. QED BY <1>1, <1>3 DEF DeviceOK, ListOK, DeviceEntry

\* So may another backend; and a user may pick another device.
LEMMA SettingsStepDevice ==
  ASSUME DeviceOK, SettingsStep
  PROVE  DeviceOK'
<1>1. ASSUME NEW mode, SaveSettings(mode)
      PROVE  DeviceOK'
  <2>1. inDfuMode' \in BOOLEAN /\ selectedRemoteIndex' = selectedRemoteIndex
    BY <1>1 DEF SaveSettings, deviceVars, DeviceOK
  <2>2. remoteDevices' \in {remoteDevices, << >>}
    BY <1>1 DEF SaveSettings, ApplyBackendMode
  <2>3. ListOK(remoteDevices')
    BY <2>2, NoneListed DEF DeviceOK
  <2>4. QED BY <2>1, <2>3 DEF DeviceOK, ListOK, DeviceEntry
<1>2. ASSUME NEW i, PickRemoteDevice(i)
      PROVE  DeviceOK'
  <2>1. inDfuMode' \in BOOLEAN /\ selectedRemoteIndex' \in Nat \ {0}
    BY <1>2, SelectOK DEF PickRemoteDevice, DeviceOK
  <2>2. QED BY <1>2, <2>1 DEF PickRemoteDevice, DeviceOK, ListOK, DeviceEntry
<1>3. CASE ~(\E mode : SaveSettings(mode)) /\ ~\E i : PickRemoteDevice(i)
  <2>1. UNCHANGED <<deviceVars, remoteVars>>
    BY <1>3 DEF SettingsStep, OpenSettings, CloseSettings, Toggle, ReleaseChanged, EnterForm,
         ChooseLoaders, LoaderRead, ClearCustomBootloader
  <2>2. QED BY <2>1 DEF DeviceOK, remoteVars, deviceVars, ListOK, DeviceEntry
<1>4. QED BY <1>1, <1>2, <1>3

\* A board that comes may be attached.
LEMMA BoardStepDevice ==
  ASSUME DeviceOK, BoardStep
  PROVE  DeviceOK'
<1>1. UNCHANGED remoteVars
  BY DEF BoardStep, PlugIn, GadgetAppears, ConnectEvent, DaemonGadgetAppears, Unplug
<1>2. inDfuMode' \in BOOLEAN
  BY DEF BoardStep, PlugIn, GadgetAppears, ConnectEvent, AutoAttach, DaemonGadgetAppears,
         Unplug, deviceVars, DeviceOK
<1>3. QED BY <1>1, <1>2 DEF DeviceOK, remoteVars, ListOK, DeviceEntry

-----------------------------------------------------------------------------
(* How often a job has looked for its gadget.                              *)

Rounds == 0..MaxPolls
PollsOK == \A s \in Slots : jobs[s].polls \in Rounds

\* A step that sets one job at most, and that to one that has not looked too often.
PollsMove(s) ==
  \/ jobs' = jobs
  \/ \E job : /\ job.polls \in Rounds
              /\ Set(s, job) \/ (SetTransfer(s, job) /\ DOMAIN job = Fields)

\* Such a step keeps the bound.
LEMMA PollsMoveKeeps ==
  ASSUME NEW s \in Slots, IInv, PollsOK, PollsMove(s)
  PROVE  PollsOK'
<1>1. CASE jobs' = jobs
  BY <1>1 DEF PollsOK
<1>2. ASSUME NEW job, Set(s, job), job.polls \in Rounds
      PROVE  PollsOK'
  <2>1. DOMAIN jobs = Slots /\ jobs' = [jobs EXCEPT ![s] = job]
    BY <1>2 DEF IInv, Set
  <2>2. \A r \in Slots : jobs'[r].polls = IF r = s THEN job.polls ELSE jobs[r].polls
    BY <2>1
  <2>3. QED BY <1>2, <2>2 DEF PollsOK, Rounds
<1>3. ASSUME NEW job, SetTransfer(s, job), job.polls \in Rounds, DOMAIN job = Fields
      PROVE  PollsOK'
  <2>1. ASSUME NEW r \in Slots
        PROVE  jobs'[r].polls \in Rounds
    <3>1. PICK busy : jobs'[r] \in {[job EXCEPT !.alone = busy],
                                   [jobs[r] EXCEPT !.alone = FALSE], jobs[r]}
      BY <1>3 DEF SetTransfer
    <3>2. [job EXCEPT !.alone = busy].polls = job.polls
      BY <1>3 DEF Fields
    <3>3. [jobs[r] EXCEPT !.alone = FALSE].polls = jobs[r].polls
      BY DEF IInv, JobOK, Fields
    <3>4. QED BY <1>3, <3>1, <3>2, <3>3 DEF PollsOK
  <2>2. QED BY <2>1 DEF PollsOK, Rounds
<1>4. QED BY <1>1, <1>2, <1>3 DEF PollsMove

\* A job that has just begun has not looked.
LEMMA FreshPolls ==
  ASSUME NEW kind, NEW pc
  PROVE  0 \in Rounds /\ NoJob.polls \in Rounds /\ Job(kind, pc).polls \in Rounds
<1>1. 0 \in Rounds
  BY PageAssumption DEF Rounds
<1>2. QED BY <1>1 DEF Job, NoJob

\* A job that ends, or goes into a call.
LEMMA EndPolls ==
  ASSUME NEW s, Set(s, NoJob)
  PROVE  PollsMove(s)
BY FreshPolls DEF PollsMove

LEMMA EnterPolls ==
  ASSUME NEW s, NEW job, DOMAIN job = Fields, job.polls \in Rounds,
         Enter(s, job) \/ Again(s, job)
  PROVE  PollsMove(s)
<1>1. PICK busy : Set(s, Entered(job, busy))
  BY DEF Enter, Again
<1>2. Entered(job, busy).polls = job.polls
  BY DEF Entered, Fields
<1>3. QED BY <1>1, <1>2 DEF PollsMove

\* After the boot of a release it begins to look.
LEMMA BootEndsPolls ==
  ASSUME NEW s \in Slots, IInv, BootEnds(s)
  PROVE  PollsMove(s)
<1> DEFINE job == [jobs[s] EXCEPT !.pc = "await", !.inCall = FALSE, !.polls = 0]
<1>1. DOMAIN jobs[s] = Fields
  BY DEF IInv, JobOK
<1>2. job.polls = 0
  BY <1>1 DEF Fields
<1>3. Set(s, NoJob) \/ Set(s, job)
  BY DEF BootEnds
<1> HIDE DEF job
<1>4. QED BY <1>2, <1>3, FreshPolls, EndPolls DEF PollsMove

\* The steps of the USB backend.
LEMMA LocalStepPolls ==
  ASSUME NEW s \in Slots, IInv, PollsOK, LocalStep(s)
  PROVE  PollsMove(s)
<1>1. DOMAIN jobs[s] = Fields /\ jobs[s].polls \in Rounds
  BY DEF IInv, JobOK, PollsOK
<1>2. ASSUME NEW pc
      PROVE  LET job == [jobs[s] EXCEPT !.pc = pc]
             IN  DOMAIN job = Fields /\ job.polls \in Rounds
  BY <1>1 DEF Fields
<1>3. ASSUME NEW pc, NEW name
      PROVE  LET job == [jobs[s] EXCEPT !.pc = pc, !.name = name]
             IN  DOMAIN job = Fields /\ job.polls \in Rounds
  BY <1>1 DEF Fields
<1>4. CASE PollLock(s)
  BY <1>1, <1>4, EnterPolls DEF PollLock
<1>5. CASE Choose(s)
  BY <1>2, <1>5, EnterPolls, EndPolls DEF Choose
<1>6. CASE Discovered(s)
  BY <1>3, <1>6, EnterPolls, EndPolls DEF Discovered, AfterNoDevice, Finish
<1>7. CASE Fetched(s)
  BY <1>3, <1>7, EnterPolls, BootEndsPolls DEF Fetched
<1>8. CASE BootCalled(s)
  BY <1>8, BootEndsPolls DEF BootCalled
<1>9. CASE ReadCalled(s)
  BY <1>9, FreshPolls, EndPolls DEF ReadCalled, PollsMove
<1>10. CASE VariantKnown(s) \/ ReadSummed(s) \/ WriteCallFailed(s) \/ RebootCalled(s)
  BY <1>10, EndPolls DEF VariantKnown, ReadSummed, WriteCallFailed, RebootCalled, Finish
<1>11. CASE DiagCalled(s) \/ DebugCalled(s)
  BY <1>11, EndPolls DEF DiagCalled, DebugCalled
<1>12. CASE Loaded(s)
  <2>1. PICK b : Set(s, [jobs[s] EXCEPT !.board = b, !.image = staged])
    BY <1>12 DEF Loaded
  <2>2. [jobs[s] EXCEPT !.board = b, !.image = staged].polls = jobs[s].polls
    BY <1>1 DEF Fields
  <2>3. QED BY <1>1, <2>1, <2>2 DEF PollsMove
<1>13. ASSUME RebootOrFinish(s)
       PROVE  PollsMove(s)
  <2> DEFINE job == [jobs[s] EXCEPT !.pc = "reboot", !.verified = At(s, "verify")]
  <2>1. PICK b \in BOOLEAN : b = At(s, "verify")
    BY DEF At
  <2>2. job = [jobs[s] EXCEPT !.pc = "reboot", !.verified = b]
    BY <2>1
  <2> HIDE DEF job
  <2>3. DOMAIN job = Fields /\ job.polls = jobs[s].polls
    BY <1>1, <2>2 DEF Fields
  <2>4. Set(s, NoJob) \/ Again(s, job)
    BY <1>13 DEF RebootOrFinish, Finish, job
  <2>5. QED BY <1>1, <2>3, <2>4, EndPolls, EnterPolls
<1>14. CASE Written(s)
  <2> DEFINE job == [jobs[s] EXCEPT !.pc = "verify", !.image = None]
  <2>1. DOMAIN job = Fields /\ job.polls = jobs[s].polls
    BY <1>1 DEF Fields
  <2>2. Again(s, job) \/ RebootOrFinish(s)
    BY <1>14 DEF Written
  <2> HIDE DEF job
  <2>3. QED BY <1>1, <1>13, <2>1, <2>2, EnterPolls
<1>15. CASE VerifiedOk(s)
  BY <1>13, <1>15 DEF VerifiedOk
<1>16. CASE Probed(s)
  BY <1>3, <1>16, EnterPolls, EndPolls DEF Probed, Finish
<1>17. CASE CallThrew(s)
  BY <1>17, EndPolls, BootEndsPolls DEF CallThrew
<1>18. QED BY <1>4, <1>5, <1>6, <1>7, <1>8, <1>9, <1>10, <1>11, <1>12, <1>14, <1>15, <1>16,
             <1>17
           DEF LocalStep

\* Those of the daemon backend: a search goes on only below the bound.
LEMMA RemoteStepPolls ==
  ASSUME NEW s \in Slots, IInv, PollsOK, RemoteStep(s)
  PROVE  PollsMove(s)
<1>1. DOMAIN jobs[s] = Fields /\ jobs[s].polls \in Rounds
  BY DEF IInv, JobOK, PollsOK
<1>2. CASE \/ RemoteDiscovered(s) \/ RemoteWriteFailed(s)
           \/ RemoteRebooted(s) \/ RemoteDiagAnswered(s)
  BY <1>2, EndPolls DEF RemoteDiscovered, RemoteWriteFailed, RemoteRebooted, RemoteDiagAnswered
<1>3. CASE RemoteBooted(s)
  <2> DEFINE job == [jobs[s] EXCEPT !.pc = "r-poll"]
  <2>1. job.polls = jobs[s].polls
    BY <1>1 DEF Fields
  <2>2. Set(s, job) \/ BootEnds(s)
    BY <1>3 DEF RemoteBooted, BootAnswered
  <2> HIDE DEF job
  <2>3. QED BY <1>1, <2>1, <2>2, BootEndsPolls DEF PollsMove
<1>4. CASE RemotePolled(s)
  <2> DEFINE job == [jobs[s] EXCEPT !.polls = @ + 1]
  <2>1. BootEnds(s) \/ (~(jobs[s].polls + 1 >= MaxPolls) /\ Set(s, job))
    BY <1>4 DEF RemotePolled
  <2>2. job.polls = jobs[s].polls + 1
    BY <1>1 DEF Fields
  <2> HIDE DEF job
  <2>3. CASE BootEnds(s)
    BY <2>3, BootEndsPolls
  <2>4. CASE ~(jobs[s].polls + 1 >= MaxPolls) /\ Set(s, job)
    <3>1. MaxPolls \in Nat
      BY PageAssumption
    <3>2. job.polls \in Rounds
      BY <1>1, <2>2, <2>4, <3>1 DEF Rounds
    <3>3. QED BY <2>4, <3>2 DEF PollsMove
  <2>5. QED BY <2>1, <2>3, <2>4
<1>5. CASE RemoteReadAnswered(s)
  BY <1>5, FreshPolls, EndPolls DEF RemoteReadAnswered, PollsMove
<1>6. CASE RemoteServed(s)
  <2> DEFINE job(b, v) == [jobs[s] EXCEPT !.pc = "r-answer", !.board = b, !.verified = v]
  <2>1. PICK b : Set(s, job(b, AskedToVerify(s)))
    BY <1>6 DEF RemoteServed
  <2>2. PICK v : v = AskedToVerify(s)
    OBVIOUS
  <2>3. job(b, v).polls = jobs[s].polls
    BY <1>1 DEF Fields
  <2>4. Set(s, job(b, v))
    BY <2>1, <2>2
  <2> HIDE DEF job
  <2>5. QED BY <1>1, <2>3, <2>4 DEF PollsMove
<1>7. CASE RemoteAnswered(s)
  <2> DEFINE job == [jobs[s] EXCEPT !.pc = "r-reboot", !.index = selectedRemoteIndex]
  <2>1. job.polls = jobs[s].polls
    BY <1>1 DEF Fields
  <2>2. Set(s, job) \/ Set(s, NoJob)
    BY <1>7 DEF RemoteAnswered, RemoteRebootOrFinish
  <2> HIDE DEF job
  <2>3. QED BY <1>1, <2>1, <2>2, EndPolls DEF PollsMove
<1>8. QED BY <1>2, <1>3, <1>4, <1>5, <1>6, <1>7 DEF RemoteStep

\* What comes to a boot.
LEMMA BootPolls ==
  ASSUME NEW s \in Slots, NEW job, DOMAIN job = Fields, job.polls \in Rounds, Boot(s, job)
  PROVE  PollsMove(s)
<1>1. CASE Set(s, [job EXCEPT !.pc = "await"]) \/ Set(s, NoJob)
  <2>1. [job EXCEPT !.pc = "await"].polls = job.polls
    BY DEF Fields
  <2>2. QED BY <1>1, <2>1, EndPolls DEF PollsMove
<1>2. CASE LocalBoot(s, job)
  <2> DEFINE custom1 == [job EXCEPT !.pc = "boot", !.name = "custom"]
             fetch == [job EXCEPT !.pc = "fetch", !.name = detected]
  <2>1. DOMAIN custom1 = Fields /\ custom1.polls = job.polls /\ fetch.polls = job.polls
    BY DEF Fields
  <2>2. \/ Enter(s, custom1) \/ Set(s, fetch)
        \/ Set(s, [job EXCEPT !.pc = "await"]) \/ Set(s, NoJob)
    BY <1>2 DEF LocalBoot
  <2> HIDE DEF custom1, fetch
  <2>3. QED BY <1>1, <2>1, <2>2, EnterPolls DEF PollsMove
<1>3. CASE RemoteBoot(s, job)
  <2> DEFINE going(name, before) ==
               [job EXCEPT !.pc = "r-boot", !.name = name, !.index = selectedRemoteIndex,
                           !.polls = 0, !.before = before]
  <2>1. ASSUME NEW name, NEW before
        PROVE  going(name, before).polls = 0
    BY DEF Fields
  <2>2. \/ \E name, before : Set(s, going(name, before))
        \/ Set(s, [job EXCEPT !.pc = "await"]) \/ Set(s, NoJob)
    BY <1>3 DEF RemoteBoot
  <2> HIDE DEF going
  <2>3. QED BY <1>1, <2>1, <2>2, FreshPolls DEF PollsMove
<1>4. QED BY <1>1, <1>2, <1>3 DEF Boot

\* What comes to a transfer.
LEMMA TransferPolls ==
  ASSUME NEW s \in Slots, NEW job, NEW data, DOMAIN job = Fields, job.polls \in Rounds,
         Transfer(s, job, data)
  PROVE  PollsMove(s)
<1>1. ASSUME NEW pc
      PROVE  DOMAIN Going(job, pc) = Fields /\ Going(job, pc).polls = job.polls
  BY DEF Going, Fields
<1>2. CASE \E busy : SetTransfer(s, Entered(Going(job, "write"), busy))
  <2>1. PICK busy : SetTransfer(s, Entered(Going(job, "write"), busy))
    BY <1>2
  <2>2. DOMAIN Entered(Going(job, "write"), busy) = Fields
        /\ Entered(Going(job, "write"), busy).polls = job.polls
    BY <1>1 DEF Entered, Fields
  <2>3. QED BY <2>1, <2>2 DEF PollsMove
<1>3. CASE \E i : SetTransfer(s, [Going(job, "r-write") EXCEPT !.index = i, !.image = data])
  <2>1. PICK i : SetTransfer(s, [Going(job, "r-write") EXCEPT !.index = i, !.image = data])
    BY <1>3
  <2> DEFINE new == [Going(job, "r-write") EXCEPT !.index = i, !.image = data]
  <2>2. DOMAIN new = Fields /\ new.polls = job.polls
    BY <1>1 DEF Fields
  <2>3. SetTransfer(s, new)
    BY <2>1
  <2> HIDE DEF new
  <2>4. QED BY <2>2, <2>3 DEF PollsMove
<1>4. \/ Set(s, NoJob)
      \/ \E busy : SetTransfer(s, Entered(Going(job, "write"), busy))
      \/ \E i : SetTransfer(s, [Going(job, "r-write") EXCEPT !.index = i, !.image = data])
  BY DEF Transfer, LocalWrite, RemoteWrite
<1>5. QED BY <1>2, <1>3, <1>4, EndPolls

\* What comes to a row, and past the last.
LEMMA NextRowPolls ==
  ASSUME NEW s \in Slots, NEW job, NEW data, DOMAIN job = Fields, job.polls \in Rounds,
         NextRow(s, job, data)
  PROVE  PollsMove(s)
<1> DEFINE rows(row, files) == [job EXCEPT !.pc = "rows", !.row = row, !.files = files]
           overlay(alone) == [job EXCEPT !.pc = "overlay", !.row = 0, !.rows = 0,
                                         !.image = data, !.alone = alone]
<1>1. ASSUME NEW row, NEW files
      PROVE  rows(row, files).polls = job.polls
  BY DEF Fields
<1>2. ASSUME NEW alone
      PROVE  overlay(alone).polls = job.polls
  BY DEF Fields
<1>3. CASE job.row < job.rows
  <2>1. PICK added : \/ Set(s, NoJob) \/ Set(s, rows(job.row + 1, job.files \union {added}))
    BY <1>3 DEF NextRow, Pause
  <2> HIDE DEF rows
  <2>2. QED BY <1>1, <2>1, EndPolls DEF PollsMove
<1>4. CASE ~(job.row < job.rows)
  <2>1. \/ Transfer(s, job, data) \/ Set(s, overlay(job.alone /\ data = job.pick))
    BY <1>4 DEF NextRow, Pause
  <2>2. PICK alone : alone = (job.alone /\ data = job.pick)
    OBVIOUS
  <2>3. Transfer(s, job, data) \/ Set(s, overlay(alone))
    BY <2>1, <2>2
  <2> HIDE DEF overlay
  <2>4. QED BY <1>2, <2>3, TransferPolls DEF PollsMove
<1>5. QED BY <1>3, <1>4

\* What comes to a write.
LEMMA DoWritePolls ==
  ASSUME NEW s \in Slots, NEW job, NEW data, DOMAIN job = Fields, job.polls \in Rounds,
         DoWrite(s, job, data)
  PROVE  PollsMove(s)
<1> DEFINE first == [job EXCEPT !.files = OverlayFilesFor(form), !.rows = Len(form.rows)]
<1>1. DOMAIN first = Fields /\ first.polls = job.polls
  BY DEF Fields
<1>2. Transfer(s, job, data) \/ NextRow(s, first, data)
  BY DEF DoWrite
<1> HIDE DEF first
<1>3. QED BY <1>1, <1>2, TransferPolls, NextRowPolls

\* A release's wait for the gadget goes on only below the bound.
LEMMA AwaitedPolls ==
  ASSUME NEW s \in Slots, IInv, PollsOK, Awaited(s)
  PROVE  PollsMove(s)
<1>1. DOMAIN jobs[s] = Fields /\ jobs[s].polls \in Rounds
  BY DEF IInv, JobOK, PollsOK
<1> DEFINE settle == [jobs[s] EXCEPT !.pc = "settle"]
           again == [jobs[s] EXCEPT !.polls = @ + 1]
<1>2. settle.polls = jobs[s].polls /\ again.polls = jobs[s].polls + 1
  BY <1>1 DEF Fields
<1>3. \/ Set(s, settle) \/ (jobs[s].polls < MaxPolls /\ Set(s, again))
      \/ Set(s, NoJob)
  BY DEF Awaited, Patient, GiveUp
<1> HIDE DEF settle, again
<1>4. CASE jobs[s].polls < MaxPolls /\ Set(s, again)
  <2>1. MaxPolls \in Nat
    BY PageAssumption
  <2>2. again.polls \in Rounds
    BY <1>1, <1>2, <1>4, <2>1 DEF Rounds
  <2>3. QED BY <1>4, <2>2 DEF PollsMove
<1>5. QED BY <1>1, <1>2, <1>3, <1>4, EndPolls DEF PollsMove

\* The page's own steps.
LEMMA PageStepPolls ==
  ASSUME NEW s \in Slots, IInv, PollsOK, Load(s) \/ PageStep(s)
  PROVE  PollsMove(s)
<1>1. DOMAIN jobs[s] = Fields /\ jobs[s].polls \in Rounds
  BY DEF IInv, JobOK, PollsOK
<1>2. ASSUME GiveUp(s) PROVE PollsMove(s)
  BY <1>2, EndPolls DEF GiveUp
<1>3. CASE Load(s)
  <2> DEFINE job == [jobs[s] EXCEPT !.pc = "init"]
  <2>1. DOMAIN job = Fields /\ job.polls = jobs[s].polls
    BY <1>1 DEF Fields
  <2>2. Enter(s, job)
    BY <1>3 DEF Load
  <2> HIDE DEF job
  <2>3. QED BY <1>1, <2>1, <2>2, EnterPolls
<1>4. CASE InitCalled(s)
  BY <1>4, EndPolls DEF InitCalled
<1>5. CASE RowRead(s)
  BY <1>1, <1>5, NextRowPolls, EndPolls DEF RowRead, Pause
<1>6. CASE OverlayBaked(s)
  BY <1>1, <1>6, TransferPolls, EndPolls DEF OverlayBaked
<1>7. CASE Downloaded(s)
  <2> DEFINE job(data) == [jobs[s] EXCEPT !.pc = "check", !.image = data]
  <2>1. ASSUME NEW data PROVE job(data).polls = jobs[s].polls
    BY <1>1 DEF Fields
  <2>2. GiveUp(s) \/ \E data : Set(s, job(data))
    BY <1>7 DEF Downloaded
  <2> HIDE DEF job
  <2>3. QED BY <1>1, <1>2, <2>1, <2>2 DEF PollsMove
<1>8. CASE ReleaseChecked(s)
  <2> DEFINE job == [jobs[s] EXCEPT !.pick = jobs[s].image, !.image = None]
  <2>1. DOMAIN job = Fields /\ job.polls = jobs[s].polls
    BY <1>1 DEF Fields
  <2>2. \/ GiveUp(s) \/ Boot(s, job) \/ DoWrite(s, job, jobs[s].image)
    BY <1>8 DEF ReleaseChecked, EnsureDfuMode
  <2> HIDE DEF job
  <2>3. QED BY <1>1, <1>2, <2>1, <2>2, BootPolls, DoWritePolls
<1>9. CASE Awaited(s)
  BY <1>9, AwaitedPolls
<1>10. CASE Settled(s)
  <2> DEFINE job(alone) == [jobs[s] EXCEPT !.alone = alone]
  <2>1. ASSUME NEW alone PROVE DOMAIN job(alone) = Fields /\ job(alone).polls = jobs[s].polls
    BY <1>1 DEF Fields
  <2>2. GiveUp(s) \/ \E alone : DoWrite(s, job(alone), firmwareData)
    BY <1>10 DEF Settled
  <2> HIDE DEF job
  <2>3. QED BY <1>1, <1>2, <2>1, <2>2, DoWritePolls
<1>11. QED BY <1>3, <1>4, <1>5, <1>6, <1>7, <1>8, <1>9, <1>10 DEF PageStep

\* What a user starts has not looked yet.
LEMMA UserStepPolls ==
  ASSUME NEW s \in Slots, IInv, PollsOK, UserStep(s)
  PROVE  PollsMove(s)
<1>1. DOMAIN jobs[s] = Fields /\ jobs[s].polls \in Rounds
  BY DEF IInv, JobOK, PollsOK
<1>2. ASSUME NEW kind, NEW pc
      PROVE  DOMAIN Job(kind, pc) = Fields /\ Job(kind, pc).polls \in Rounds
  BY FreshPolls DEF Job, NoJob, Fields
<1>3. CASE ConnectDevice(s)
  BY <1>2, <1>3 DEF ConnectDevice, RemoteConnect, LocalConnect, PollsMove
<1>4. CASE DoBootstrap(s)
  <2>1. Boot(s, Job("boot", "idle"))
    BY <1>4 DEF DoBootstrap
  <2>2. QED BY <1>2, <2>1, BootPolls
<1>5. ASSUME NEW kind, NEW pc, NEW i
      PROVE  [Job(kind, pc) EXCEPT !.index = i].polls \in Rounds
  BY <1>2 DEF Fields
<1>6. ASSUME NEW kind, NEW pc, NEW image
      PROVE  [Job(kind, pc) EXCEPT !.pick = image].polls \in Rounds
  BY <1>2 DEF Fields
<1>7. CASE DoRead(s)
  <2>1. \/ jobs' = jobs \/ Enter(s, Job("read", "read"))
        \/ Set(s, [Job("read", "r-read") EXCEPT !.index = selectedRemoteIndex])
    BY <1>7 DEF DoRead, RemoteRead, LocalRead
  <2>2. QED BY <1>2, <1>5, <2>1, EnterPolls DEF PollsMove
<1>8. CASE DoDiag(s)
  <2>1. \/ Enter(s, Job("diag", "diag"))
        \/ Set(s, [Job("diag", "r-diag") EXCEPT !.index = selectedRemoteIndex])
    BY <1>8 DEF DoDiag
  <2>2. QED BY <1>2, <1>5, <2>1, EnterPolls DEF PollsMove
<1>9. CASE SelectFirmware(s)
  BY <1>6, <1>9 DEF SelectFirmware, PollsMove
<1>10. CASE FirmwareSelected(s)
  <2> DEFINE job == [jobs[s] EXCEPT !.kind = "write"]
  <2>1. DOMAIN job = Fields /\ job.polls = jobs[s].polls
    BY <1>1 DEF Fields
  <2>2. DoWrite(s, job, jobs[s].pick)
    BY <1>10 DEF FirmwareSelected
  <2> HIDE DEF job
  <2>3. QED BY <1>1, <2>1, <2>2, DoWritePolls
<1>11. CASE FlashFromRelease(s)
  BY <1>6, <1>11 DEF FlashFromRelease, PollsMove
<1>12. CASE SetDebug(s)
  BY <1>2, <1>12, EnterPolls DEF SetDebug
<1>13. QED BY <1>3, <1>4, <1>7, <1>8, <1>9, <1>10, <1>11, <1>12 DEF UserStep

\* A board that comes may start a job; one that goes takes no look away.
LEMMA BoardStepPolls ==
  ASSUME IInv, PollsOK, BoardStep
  PROVE  PollsOK'
<1>1. ASSUME NEW s \in Slots, NEW b, PlugIn(s, b) \/ GadgetAppears(s, b)
      PROVE  PollsOK'
  <2>1. DOMAIN Job("attach", "discover") = Fields /\ Job("attach", "discover").polls \in Rounds
    BY FreshPolls DEF Job, NoJob, Fields
  <2>2. jobs' = jobs \/ Enter(s, Job("attach", "discover"))
    BY <1>1 DEF PlugIn, GadgetAppears, ConnectEvent, AutoAttach
  <2>3. PollsMove(s)
    BY <2>1, <2>2, EnterPolls DEF PollsMove
  <2>4. QED BY <2>3, PollsMoveKeeps
<1>2. ASSUME NEW b, Unplug(b)
      PROVE  PollsOK'
  <2>1. ASSUME NEW r \in Slots
        PROVE  jobs'[r].polls \in Rounds
    <3>1. jobs'[r] \in {jobs[r], [jobs[r] EXCEPT !.board = None]}
      BY <1>2 DEF Unplug
    <3>2. [jobs[r] EXCEPT !.board = None].polls = jobs[r].polls
      BY DEF IInv, JobOK, Fields
    <3>3. QED BY <3>1, <3>2 DEF PollsOK
  <2>2. QED BY <2>1 DEF PollsOK, Rounds
<1>3. ASSUME NEW b, DaemonGadgetAppears(b)
      PROVE  PollsOK'
  BY <1>3 DEF DaemonGadgetAppears, PollsOK
<1>4. QED BY <1>1, <1>2, <1>3 DEF BoardStep

-----------------------------------------------------------------------------
(* Every variable's type.                                                  *)

TypesInv == ModeOK /\ BoardOK /\ StateOK /\ DeviceOK /\ PollsOK

\* Flows and users keep the types.
LEMMA FlowTypes ==
  ASSUME NEW s \in Slots, IInv, TypesInv, Load(s) \/ JobStep(s) \/ UserStep(s)
  PROVE  TypesInv'
<1>1. ModeOK'
  BY JobStepMode, UserStepMode DEF TypesInv
<1>2. BoardOK'
  BY PageStepBoards, LocalStepBoards, RemoteStepBoards DEF TypesInv, JobStep
<1>3. StateOK'
  BY StateMoveOK, PageStepState, LocalStepState, RemoteStepState, UserStepState
     DEF TypesInv, JobStep, StateOK
<1>4. DeviceOK'
  BY PageStepDevice, LocalStepDevice, RemoteStepDevice, UserStepDevice DEF TypesInv, JobStep
<1>5. PollsOK'
  BY PageStepPolls, LocalStepPolls, RemoteStepPolls, UserStepPolls, PollsMoveKeeps
     DEF TypesInv, JobStep
<1>6. QED BY <1>1, <1>2, <1>3, <1>4, <1>5 DEF TypesInv

\* Every step does.
LEMMA NextTypes ==
  ASSUME IInv, TypesInv, [Next]_vars
  PROVE  TypesInv'
<1>1. CASE \E s \in Slots : Load(s) \/ JobStep(s) \/ UserStep(s)
  BY <1>1, FlowTypes
<1>2. CASE SettingsStep
  <2>1. ModeOK' /\ BoardOK' /\ StateOK' /\ DeviceOK'
    BY <1>2, SettingsStepMode, SettingsStepBoards, SettingsStepState, SettingsStepDevice,
       StateMoveOK DEF TypesInv, StateOK
  <2>2. jobs' = jobs
    BY <1>2, SettingsStepFree DEF FreeStep
  <2>3. QED BY <2>1, <2>2 DEF TypesInv, PollsOK
<1>3. CASE BoardStep
  <2>1. StateOK'
    BY <1>3, BoardStepState, StateMoveOK DEF TypesInv, StateOK
  <2>2. QED BY <1>3, <2>1, BoardStepMode, BoardStepBoards, BoardStepDevice, BoardStepPolls
            DEF TypesInv
<1>4. CASE UNCHANGED vars
  <2>1. ModeOK' /\ BoardOK'
    BY <1>4 DEF vars, modeVars, inputVars, remoteVars, boardVars, TypesInv, ModeOK, BoardOK
  <2>2. StateOK' /\ PollsOK'
    BY <1>4 DEF vars, moduleVars, stateVars, TypesInv, StateOK, PollsOK
  <2>3. DeviceOK'
    BY <1>4 DEF vars, deviceVars, remoteVars, TypesInv, DeviceOK, ListOK, DeviceEntry
  <2>4. QED BY <2>1, <2>2, <2>3 DEF TypesInv
<1>5. QED BY <1>1, <1>2, <1>3, <1>4 DEF Next

\* They hold as the page is loaded.
LEMMA InitTypes ==
  ASSUME Init
  PROVE  TypesInv
<1>1. ModeOK
  <2>1. Kept \subseteq SUBSET Toggles /\ MaxClicks \in Nat
    BY PageAssumption
  <2>2. options \subseteq Toggles
    BY <2>1 DEF Init
  <2>3. clicks = 0
    BY DEF Init
  <2>4. clicks \in 0..MaxClicks
    BY <2>1, <2>3
  <2>5. QED BY <2>2, <2>4 DEF Init, ModeOK
<1>2. BoardOK
  BY PageAssumption DEF Init, BoardOK
<1>3. StateOK
  BY DEF Init, StateOK, States
<1>4. DeviceOK
  <2>1. ListOK(remoteDevices)
    BY NoneListed DEF Init
  <2>2. inDfuMode = FALSE /\ selectedRemoteIndex = 1
    BY DEF Init
  <2>3. inDfuMode \in BOOLEAN
    BY <2>2
  <2>4. selectedRemoteIndex \in Nat \ {0}
    BY <2>2
  <2>5. QED BY <2>1, <2>3, <2>4 DEF DeviceOK
<1>5. PollsOK
  BY FreshPolls DEF Init, PollsOK
<1>6. QED BY <1>1, <1>2, <1>3, <1>4, <1>5 DEF TypesInv

\* What is known of each variable is its type.
LEMMA TypesOK ==
  ASSUME IInv, WInv, TypesInv
  PROVE  TypeOK
<1>1. \A i \in DOMAIN remoteDevices : remoteDevices[i].board \in AtDaemon
  BY DEF TypesInv, DeviceOK, ListOK, DeviceEntry
<1>2. DOMAIN NoJob = Fields
  BY DEF NoJob, Fields
<1>3. \A s \in Slots : DOMAIN jobs[s] = DOMAIN NoJob /\ jobs[s].inCall \in BOOLEAN
  BY <1>2 DEF IInv, JobOK
<1>4. \A s \in Slots : jobs[s].polls \in 0..MaxPolls
  BY DEF TypesInv, PollsOK, Rounds
<1>5. form \in Forms /\ chosen \in Assets \union {None} /\ wasmBusy \in BOOLEAN
      /\ DOMAIN jobs = Slots
  BY DEF IInv, WInv, Around, ChosenOK
<1>6. QED BY <1>1, <1>3, <1>4, <1>5 DEF TypesInv, ModeOK, BoardOK, StateOK, DeviceOK, TypeOK

\* Every variable of the page has its type, for every number of activations, boards and
\* clicks: a state is one of the page's, a release's or the daemon's gadget is looked for
\* no more often than the code does (ensureDfuMode, doRemoteBootstrap), the device
\* selected counts from 1, and a job has its fields.
THEOREM SpecTypeOK == Spec => []TypeOK
<1>1. Init => IInv /\ WInv /\ TypesInv
  BY InitIInv, InitWrites, InitTypes
<1>2. IInv /\ WInv /\ TypesInv /\ [Next]_vars => (IInv /\ WInv /\ TypesInv)'
  BY NextKeeps, NextWrites, NextTypes
<1>3. IInv /\ WInv /\ TypesInv => TypeOK
  BY TypesOK
<1>4. QED BY <1>1, <1>2, <1>3, PTL DEF Spec
=============================================================================
