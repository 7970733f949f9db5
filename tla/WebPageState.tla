---------------------------- MODULE WebPageState ----------------------------
(***************************************************************************)
(* The web page's module-scope state (app.js), its lock around the         *)
(* WebAssembly module, and the boards it can meet.  JavaScript runs one    *)
(* activation at a time and changes over at an await, so a job is an       *)
(* activation that has reached one, and pc names what it awaits.           *)
(***************************************************************************)
EXTENDS Overlay, FiniteSetsExt

CONSTANTS
  LocalBoards,   \* boards plugged into the user's computer, one at a time
  DaemonBoards,  \* the boards at the daemon's host, a sequence in bus order
  SocOf,         \* per board: its SoC
  MagicOf,       \* per board: the SoC its ROM's magic stands for
  Images,        \* files the user may pick
  Assets,        \* images of releases: [image, soc, official, sum : BOOLEAN]
  Forms,         \* what may be entered under Pre-configure, the empty one included
  Kept,          \* sets of toggles an earlier visit may have left on
  Found,         \* the stages the boards may be in as the page is loaded
  MaxJobs,       \* bound: activations under way at a time
  MaxClicks,     \* bound: what users do and boards do by themselves
  MaxPolls,      \* rounds of the loops that wait for a gadget (20 and 40 in the code)
  Faults,        \* BOOLEAN: transfers, fetches and commands may fail
  None

AtDaemon == {DaemonBoards[i] : i \in DOMAIN DaemonBoards}
Boards == LocalBoards \union AtDaemon
Stages == {"absent", "rom", "booting", "gadget", "dead"}

Toggles == {"verify", "reboot", "inject", "advanced"}
\* A row of the Pre-configure panel is a file to add, or is half-filled; one that is left
\* empty is no row.
Half == "half"
NoForm == [typed |-> {}, rows |-> << >>]

ASSUME PageAssumption ==
  /\ MaxJobs \in Nat /\ MaxClicks \in Nat /\ MaxPolls \in Nat
  /\ Faults \in BOOLEAN
  /\ None \notin LocalBoards \union Images
  /\ NoForm \in Forms
  /\ \A f \in Forms : IsFiniteSet(f.typed) /\ Len(f.rows) \in Nat /\ DOMAIN f.rows = 1..Len(f.rows)
  /\ \A image \in Images \union {asset.image : asset \in Assets} : IsImage(image)
  /\ DaemonBoards \in Seq(AtDaemon)
  /\ Kept \subseteq SUBSET Toggles /\ Found \subseteq [Boards -> Stages]

VARIABLES
  tdfuReady,
  crossed,        \* history: the module was entered with a call suspended in it
  currentState,
  relEnabled,     \* the release panel's Flash button
  stranded,       \* history: an automatic attach threw, in the state the page still is in
  inDfuMode,
  detected,       \* detectedVariantName, "" for none
  lastDiagText,   \* the board whose readout is cached, or None
  backendMode, remoteUrl, settingsOpen,
  options,        \* the toggles that are on
  form,           \* the Pre-configure panel
  custom,         \* per loader image: "none", "reading" or "loaded"
  chosen,         \* the release image selected, or None
  remoteClient,   \* connected, or null
  remoteDevices, selectedRemoteIndex,
  firmwareData,   \* the loaded image, or None
  staged,         \* /tmp/dfu-wr.bin, or None
  wasmBusy, jobs,
  stage,          \* per board
  grants,         \* what the browser lets the page use: a board in a stage
  flash,          \* per board
  clicks

inputVars == <<options, form, custom, chosen>>
modeVars == <<backendMode, remoteUrl, settingsOpen>>
deviceVars == <<inDfuMode, detected>>
remoteVars == <<remoteClient, remoteDevices, selectedRemoteIndex>>
moduleVars == <<tdfuReady, crossed>>
stateVars == <<currentState, relEnabled, stranded>>
imageVars == <<firmwareData, staged>>
boardVars == <<stage, grants, flash>>
vars == <<moduleVars, stateVars, deviceVars, lastDiagText, modeVars, inputVars, remoteVars,
          imageVars, wasmBusy, jobs, boardVars, clicks>>

Slots == 1..MaxJobs
Default == "t31x"  \* what the library says of a board it could not ask

\* name: the SoC found, or the loader sent; pick, files: what the user asked to write;
\* row, rows: the row of added files that is read, of how many; image: what is being sent;
\* opts: the snapshot of the toggles; index, before, polls: the
\* daemon's device, and the search for its gadget; asked, alone: kept for the properties
\* only, the toggles as the transfer begins, and that no other write came in between.
NoJob ==
  [kind |-> "none", pc |-> "idle", inCall |-> FALSE, name |-> "", pick |-> None, files |-> {},
   row |-> 0, rows |-> 0,
   image |-> None, opts |-> {}, board |-> None, verified |-> FALSE, index |-> 0,
   before |-> {}, polls |-> 0, asked |-> {}, alone |-> TRUE]

Job(kind, pc) == [NoJob EXCEPT !.kind = kind, !.pc = pc]

At(s, pc) == jobs[s].pc = pc
Set(s, job) == jobs' = [jobs EXCEPT ![s] = job]

FreeSlot(s) ==
  /\ s \in Slots /\ jobs[s] = NoJob
  /\ \A r \in Slots : r < s => jobs[r] # NoJob

-----------------------------------------------------------------------------
(* What is enabled on the page.                                            *)

BusyStates == {"connecting", "detecting", "bootstrapping", "writing", "reading"}
States == BusyStates \union {"idle", "done", "error"}
Busy(state) == state \in BusyStates

CanFlashRelease(state, asset) == state = "done" /\ asset # None

SetState(state) ==
  /\ currentState' = state
  /\ relEnabled' = CanFlashRelease(state, chosen)
  /\ stranded' = (stranded /\ state = currentState)

CanConnect == ~Busy(currentState)
CanBoot == currentState = "done" /\ ~inDfuMode
CanRW == currentState = "done" /\ inDfuMode
CanDiag == CanBoot \/ (lastDiagText # None /\ ~Busy(currentState))

Click == clicks < MaxClicks /\ clicks' = clicks + 1

-----------------------------------------------------------------------------
(* wasmCall: into the module at once, or poll until nobody else is.        *)

CallPcs == {"init", "discover", "probe", "variant", "boot", "read", "write", "verify",
            "reboot", "diag", "debug"}

\* Mutant of Entered: the lock is not looked at.
EnteredAlways(job, busy) == [job EXCEPT !.inCall = TRUE]

Entered(job, busy) == [job EXCEPT !.inCall = ~busy]

\* A job that awaits its first call, and one that goes from one call to the next: the lock
\* is given up and taken again before any other activation runs.
Enter(s, job) == Set(s, Entered(job, wasmBusy)) /\ wasmBusy' = TRUE
Again(s, job) == Set(s, Entered(job, FALSE)) /\ wasmBusy' = TRUE

Unlock == wasmBusy' = FALSE

\* Mutant of UnlockThrown: no finally.
UnlockThrownNever == UNCHANGED wasmBusy

\* A call that throws gives up the lock all the same.
UnlockThrown == Unlock

Called(s, pc) == At(s, pc) /\ jobs[s].inCall

PollLock(s) ==
  /\ jobs[s].pc \in CallPcs /\ ~jobs[s].inCall /\ ~wasmBusy
  /\ Enter(s, jobs[s])
  /\ UNCHANGED <<moduleVars, stateVars, deviceVars, lastDiagText, modeVars, inputVars,
                 remoteVars, imageVars, boardVars, clicks>>

\* The calls that suspend the module, for a device; the others return at once.
SuspendPcs == CallPcs \ {"init", "variant", "debug"}

\* A bare Module.ccall, of a function that suspends nowhere: it looks at no lock, and goes
\* past whatever is suspended.
EnterBare(s) ==
  crossed' = (crossed \/ \E r \in Slots \ {s} : jobs[r].inCall /\ jobs[r].pc \in SuspendPcs)

TransferPcs == {"write", "verify", "reboot", "r-write", "r-answer", "r-reboot"}

\* Set, for a job that begins a transfer.
SetTransfer(s, job) ==
  LET others == {r \in Slots \ {s} : jobs[r].pc \in TransferPcs}
  IN  jobs' = [r \in Slots |->
                 IF r = s THEN [job EXCEPT !.alone = job.alone /\ others = {}]
                 ELSE IF r \in others THEN [jobs[r] EXCEPT !.alone = FALSE]
                 ELSE jobs[r]]

-----------------------------------------------------------------------------
(* The boards.                                                             *)

Plugged == {b \in LocalBoards : stage[b] # "absent"}

\* What navigator.usb shows without asking: boards that are there and were granted.
Seen(st) == {b \in LocalBoards : stage[b] = st /\ <<b, st>> \in grants}

\* U-Boot of another SoC never comes back.
Started(b, loader) ==
  stage' = [stage EXCEPT ![b] = IF loader \in {"custom", SocOf[b]} THEN "booting" ELSE "dead"]

\* Contents that are nobody's image.
Factory == [layout |-> << >>, flash |-> <<{"factory"}>>, ubi |-> << >>]
Torn == [layout |-> << >>, flash |-> <<{"torn"}>>, ubi |-> << >>]
=============================================================================
