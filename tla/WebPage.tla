------------------------------- MODULE WebPage -------------------------------
(***************************************************************************)
(* The flasher page (app.js): what its users and its USB events start, and *)
(* the flows that end in the local or the daemon backend, next to the      *)
(* boards.  A click needs what enables its button, and a page that is not  *)
(* covered by the Settings dialog.                                         *)
(***************************************************************************)
EXTENDS WebRemote, ReleaseProxy

-----------------------------------------------------------------------------
(* The module is loaded.                                                   *)

ModuleLoaded == \A s \in Slots : ~At(s, "load")

Load(s) ==
  /\ At(s, "load")
  /\ EnterBare(s)
  /\ Enter(s, [jobs[s] EXCEPT !.pc = "init"])
  /\ UNCHANGED <<tdfuReady, stateVars, deviceVars, lastDiagText, modeVars, inputVars,
                 remoteVars, imageVars, boardVars, clicks>>

InitCalled(s) ==
  /\ Called(s, "init") /\ Unlock /\ Set(s, NoJob)
  /\ \/ tdfuReady' = TRUE /\ EnterBare(s)
     \/ Faults /\ UNCHANGED moduleVars
  /\ UNCHANGED <<stateVars, deviceVars, lastDiagText, modeVars, inputVars, remoteVars,
                 imageVars, boardVars, clicks>>

-----------------------------------------------------------------------------
(* Connect, Bootstrap, Read and Info.                                      *)

ClickOnPage == Click /\ ~settingsOpen

ConnectDevice(s) ==
  /\ ClickOnPage /\ CanConnect /\ FreeSlot(s)
  /\ IF backendMode = "remote" THEN RemoteConnect(s)
     ELSE LocalConnect(s) /\ UNCHANGED settingsOpen
  /\ UNCHANGED <<moduleVars, detected, backendMode, remoteUrl, inputVars, imageVars, boardVars>>

\* Without a backend that is ready nothing happens, but to a release it was for.
Boot(s, job) ==
  IF backendMode = "remote" THEN RemoteBoot(s, job) /\ UNCHANGED <<wasmBusy, crossed>>
  ELSE IF tdfuReady THEN LocalBoot(s, job)
  ELSE /\ Set(s, IF job.kind = "release" THEN [job EXCEPT !.pc = "await"] ELSE NoJob)
       /\ UNCHANGED <<stateVars, wasmBusy, crossed>>

DoBootstrap(s) ==
  /\ ClickOnPage /\ CanBoot /\ FreeSlot(s)
  /\ Boot(s, Job("boot", "idle"))
  /\ UNCHANGED <<tdfuReady, deviceVars, lastDiagText, modeVars, inputVars, remoteVars,
                 imageVars, boardVars>>

DoRead(s) ==
  /\ ClickOnPage /\ CanRW /\ FreeSlot(s)
  /\ IF backendMode = "remote" THEN RemoteRead(s) /\ UNCHANGED wasmBusy ELSE LocalRead(s)
  /\ UNCHANGED <<moduleVars, deviceVars, lastDiagText, modeVars, inputVars, remoteVars,
                 imageVars, boardVars>>

\* For a gadget only what is cached is shown.
DoDiag(s) ==
  /\ ClickOnPage /\ CanDiag /\ FreeSlot(s)
  /\ ~inDfuMode
  /\ IF backendMode = "remote"
       THEN /\ remoteClient
            /\ Set(s, [Job("diag", "r-diag") EXCEPT !.index = selectedRemoteIndex])
            /\ UNCHANGED wasmBusy
       ELSE ModuleLoaded /\ Enter(s, Job("diag", "diag"))
  /\ UNCHANGED <<moduleVars, stateVars, deviceVars, lastDiagText, modeVars, inputVars,
                 remoteVars, imageVars, boardVars>>

PickRemoteDevice(i) ==
  /\ ClickOnPage
  /\ Len(remoteDevices) > 1 /\ i \in DOMAIN remoteDevices /\ i # selectedRemoteIndex
  /\ SelectRemoteDevice(remoteDevices, i)
  /\ UNCHANGED <<moduleVars, lastDiagText, modeVars, inputVars, remoteClient, remoteDevices,
                 imageVars, wasmBusy, jobs, boardVars>>

-----------------------------------------------------------------------------
(* Write, with what is entered under Pre-configure baked in first.         *)

Transfer(s, job, data) ==
  IF backendMode = "remote" THEN RemoteWrite(s, job, data) /\ UNCHANGED <<staged, wasmBusy>>
  ELSE LocalWrite(s, job, data)

Pause(s, job) == Set(s, job) /\ UNCHANGED <<stateVars, staged, wasmBusy>>

\* What a row holds that a loop over the rows has come to: its input fields are looked at
\* only then, and a row that was removed meanwhile keeps what was last in it.
RowHolds(i) ==
  IF i \in DOMAIN form.rows THEN {form.rows[i]}
  ELSE {f.rows[i] : f \in {g \in Forms : i \in DOMAIN g.rows}}

\* The loop goes on to its next row: a half-filled one ends the write, a file is read.  After
\* the last the files are baked into what is loaded by then, when there are any.
NextRow(s, job, data) ==
  IF job.row < job.rows
    THEN \E added \in RowHolds(job.row + 1) :
           Pause(s, IF added = Half THEN NoJob
                    ELSE [job EXCEPT !.pc = "rows", !.row = @ + 1, !.files = @ \union {added}])
  ELSE IF job.files = {} THEN Transfer(s, job, data)
  ELSE Pause(s, [job EXCEPT !.pc = "overlay", !.row = 0, !.rows = 0, !.image = data,
                            !.alone = @ /\ data = job.pick])

\* doWrite, of the image data that is (to be) loaded.
DoWrite(s, job, data) ==
  IF "inject" \notin options THEN Transfer(s, job, data)
  ELSE NextRow(s, [job EXCEPT !.files = OverlayFilesFor(form), !.rows = Len(form.rows)], data)

\* The button opens the file chooser; no state tells that it is open.
SelectFirmware(s) ==
  /\ ClickOnPage /\ CanRW /\ FreeSlot(s)
  /\ \E image \in Images : Set(s, [Job("pick", "pick") EXCEPT !.pick = image])
  /\ UNCHANGED <<moduleVars, stateVars, deviceVars, lastDiagText, modeVars, inputVars,
                 remoteVars, imageVars, wasmBusy, boardVars>>

FirmwareSelected(s) ==
  /\ At(s, "pick")
  /\ firmwareData' = jobs[s].pick
  /\ DoWrite(s, [jobs[s] EXCEPT !.kind = "write"], jobs[s].pick)
  /\ UNCHANGED <<moduleVars, deviceVars, lastDiagText, modeVars, inputVars, remoteVars,
                 boardVars, clicks>>

\* A file was read; or it cannot be, and nobody catches what doWrite throws.
RowRead(s) ==
  /\ At(s, "rows")
  /\ NextRow(s, jobs[s], firmwareData) \/ (Faults /\ Pause(s, NoJob))
  /\ UNCHANGED <<moduleVars, deviceVars, lastDiagText, modeVars, inputVars,
                 remoteVars, firmwareData, boardVars, clicks>>

\* Mutant of Baked: the write goes on with the plain image.
BakedPlain(job) == Injected(job.image)

Baked(job) == InjectOverlay(job.image, job.files)

OverlayBaked(s) ==
  /\ At(s, "overlay")
  /\ LET result == Baked(jobs[s])
     IN  \/ /\ result.ok
            /\ firmwareData' = result.image
            /\ Transfer(s, jobs[s], result.image)
         \/ /\ Faults \/ ~result.ok
            /\ Set(s, NoJob)
            /\ UNCHANGED <<stateVars, imageVars, wasmBusy>>
  /\ UNCHANGED <<moduleVars, deviceVars, lastDiagText, modeVars, inputVars, remoteVars,
                 boardVars, clicks>>

-----------------------------------------------------------------------------
(* Flashing from a release.                                                *)

\* The list for the SoC known as it was made, or all.
ReleaseChanged ==
  /\ ClickOnPage
  /\ \E all \in BOOLEAN, asset \in Assets \ {chosen} :
       /\ all \/ detected \in {"", asset.soc}
       /\ chosen' = asset
       /\ relEnabled' = CanFlashRelease(currentState, asset)
  /\ UNCHANGED <<moduleVars, currentState, stranded, deviceVars, lastDiagText, modeVars, options, form,
                 custom, remoteVars, imageVars, wasmBusy, jobs, boardVars>>

FlashFromRelease(s) ==
  /\ ClickOnPage /\ relEnabled /\ FreeSlot(s)
  /\ currentState = "done"
  /\ relEnabled' = FALSE
  /\ Set(s, [Job("release", "download") EXCEPT !.pick = chosen])
  /\ UNCHANGED <<moduleVars, currentState, stranded, deviceVars, lastDiagText, modeVars, inputVars,
                 remoteVars, imageVars, wasmBusy, boardVars>>

GiveUp(s) ==
  /\ Set(s, NoJob)
  /\ relEnabled' = CanFlashRelease(currentState, chosen)
  /\ UNCHANGED <<currentState, stranded>>

Request(asset) ==
  [method |-> "GET", path |-> "/fw", officialTag |-> TRUE, officialName |-> asset.official]

Statuses(asset, there) ==
  {Answer(Request(asset), cached, upstream) :
     cached \in IF Faults /\ there THEN BOOLEAN ELSE {FALSE},
     upstream \in {IF there THEN 200 ELSE 404} \union (IF Faults THEN {500} ELSE {})}

\* downloadWithProgress: a body may break off, or arrive damaged.
Downloaded(s) ==
  /\ At(s, "download")
  /\ \/ /\ 200 \in Statuses(jobs[s].pick, TRUE)
        /\ \E data \in {jobs[s].pick.image} \union (IF Faults THEN {Torn} ELSE {}) :
             Set(s, [jobs[s] EXCEPT !.pc = "check", !.image = data])
        /\ UNCHANGED stateVars
     \/ /\ Faults \/ Statuses(jobs[s].pick, TRUE) # {200}
        /\ GiveUp(s)
  /\ UNCHANGED <<moduleVars, deviceVars, lastDiagText, modeVars, inputVars, remoteVars,
                 imageVars, wasmBusy, boardVars, clicks>>

\* What verifySha256 may say: a sum that cannot be had is skipped.
Verdicts(asset, data) ==
  (IF 200 \in Statuses(asset, asset.sum) THEN {data = asset.image} ELSE {})
    \union (IF Faults \/ Statuses(asset, asset.sum) # {200} THEN {TRUE} ELSE {})

\* Its boot is in the same activation.
EnsureDfuMode(s, job, data) ==
  IF inDfuMode THEN DoWrite(s, job, data) /\ UNCHANGED crossed
  ELSE Boot(s, job) /\ UNCHANGED staged

\* The image counts as loaded; a ROM is then booted into a gadget first.
ReleaseChecked(s) ==
  /\ At(s, "check")
  /\ LET data == jobs[s].image
         job == [jobs[s] EXCEPT !.pick = data, !.image = None]
     IN  \/ /\ TRUE \in Verdicts(jobs[s].pick, data)
            /\ firmwareData' = data
            /\ EnsureDfuMode(s, job, data)
         \/ /\ FALSE \in Verdicts(jobs[s].pick, data)
            /\ GiveUp(s)
            /\ UNCHANGED <<imageVars, wasmBusy, crossed>>
  /\ UNCHANGED <<tdfuReady, deviceVars, lastDiagText, modeVars, inputVars, remoteVars,
                 boardVars, clicks>>

\* Mutant of Patient: one round too many.
PatientOnce(s) == jobs[s].polls <= MaxPolls

Patient(s) == jobs[s].polls < MaxPolls

\* The gadget is looked for every half second, and then given time to settle.
Awaited(s) ==
  /\ At(s, "await")
  /\ IF inDfuMode THEN Set(s, [jobs[s] EXCEPT !.pc = "settle"]) /\ UNCHANGED stateVars
     ELSE IF Patient(s)
       THEN Set(s, [jobs[s] EXCEPT !.polls = @ + 1]) /\ UNCHANGED stateVars
     ELSE GiveUp(s)
  /\ UNCHANGED <<moduleVars, deviceVars, lastDiagText, modeVars, inputVars, remoteVars,
                 imageVars, wasmBusy, boardVars, clicks>>

\* What is loaded by now is written.
Settled(s) ==
  /\ At(s, "settle")
  /\ IF inDfuMode
       THEN DoWrite(s, [jobs[s] EXCEPT !.alone = @ /\ firmwareData = jobs[s].pick],
                    firmwareData)
     ELSE GiveUp(s) /\ UNCHANGED <<staged, wasmBusy>>
  /\ UNCHANGED <<moduleVars, deviceVars, lastDiagText, modeVars, inputVars, remoteVars,
                 firmwareData, boardVars, clicks>>

-----------------------------------------------------------------------------
(* Settings and what is entered on the page.                               *)

\* updateReleaseFlash is part of it; the state itself stays.
ApplyBackendMode(mode) ==
  /\ backendMode' = mode
  /\ IF mode # "remote"
       THEN /\ remoteClient' = FALSE
            /\ remoteDevices' = IF remoteClient THEN << >> ELSE remoteDevices
       ELSE UNCHANGED <<remoteClient, remoteDevices>>

OpenSettings ==
  /\ ClickOnPage /\ ~Busy(currentState)
  /\ settingsOpen' = TRUE
  /\ UNCHANGED <<moduleVars, stateVars, deviceVars, lastDiagText, backendMode, remoteUrl,
                 inputVars, remoteVars, imageVars, wasmBusy, jobs, boardVars>>

CloseSettings ==
  /\ settingsOpen /\ settingsOpen' = FALSE
  /\ UNCHANGED <<moduleVars, stateVars, deviceVars, lastDiagText, backendMode, remoteUrl,
                 inputVars, remoteVars, imageVars, wasmBusy, jobs, boardVars, clicks>>

\* A URL is kept with the remote backend only.
SaveSettings(mode) ==
  /\ settingsOpen /\ settingsOpen' = FALSE
  /\ remoteUrl' \in IF mode = "remote" THEN BOOLEAN ELSE {remoteUrl}
  /\ ApplyBackendMode(mode)
  /\ IF mode # backendMode
       THEN detected' = "" /\ inDfuMode' = FALSE /\ SetState("idle")
       ELSE UNCHANGED deviceVars /\ SetState(currentState)
  /\ UNCHANGED <<moduleVars, lastDiagText, inputVars, selectedRemoteIndex, imageVars,
                 wasmBusy, jobs, boardVars, clicks>>

Loaders == {"spl", "uboot"}

ClearedLoaders == [which \in Loaders |-> IF custom[which] = "loaded" THEN "none" ELSE custom[which]]

\* applyAdvanced: without the panel no loader may stay armed.
Toggle(option) ==
  /\ Click /\ settingsOpen
  /\ options' = IF option \in options THEN options \ {option} ELSE options \union {option}
  /\ custom' = IF option = "advanced" /\ option \in options THEN ClearedLoaders ELSE custom
  /\ UNCHANGED <<moduleVars, stateVars, deviceVars, lastDiagText, modeVars, form, chosen,
                 remoteVars, imageVars, wasmBusy, jobs, boardVars>>

\* The library is told through the lock.
SetDebug(s) ==
  /\ Click /\ settingsOpen /\ FreeSlot(s) /\ ModuleLoaded
  /\ Enter(s, Job("debug", "debug"))
  /\ UNCHANGED <<moduleVars, stateVars, deviceVars, lastDiagText, modeVars, inputVars,
                 remoteVars, imageVars, boardVars>>

EnterForm ==
  /\ ClickOnPage /\ "inject" \in options
  /\ form' \in Forms \ {form}
  /\ UNCHANGED <<moduleVars, stateVars, deviceVars, lastDiagText, modeVars, options, custom,
                 chosen, remoteVars, imageVars, wasmBusy, jobs, boardVars>>

ChooseLoaders ==
  /\ ClickOnPage /\ "advanced" \in options
  /\ \E which \in Loaders : custom' = [custom EXCEPT ![which] = "reading"]
  /\ UNCHANGED <<moduleVars, stateVars, deviceVars, lastDiagText, modeVars, options, form,
                 chosen, remoteVars, imageVars, wasmBusy, jobs, boardVars>>

LoaderRead(which) ==
  /\ custom[which] = "reading"
  /\ custom' = [custom EXCEPT ![which] = "loaded"]
  /\ UNCHANGED <<moduleVars, stateVars, deviceVars, lastDiagText, modeVars, options, form,
                 chosen, remoteVars, imageVars, wasmBusy, jobs, boardVars, clicks>>

ClearCustomBootloader ==
  /\ ClickOnPage /\ "advanced" \in options /\ custom # ClearedLoaders
  /\ custom' = ClearedLoaders
  /\ UNCHANGED <<moduleVars, stateVars, deviceVars, lastDiagText, modeVars, options, form,
                 chosen, remoteVars, imageVars, wasmBusy, jobs, boardVars>>

-----------------------------------------------------------------------------
(* The boards and their USB events.                                        *)

ConnectEvent(s, b, st) ==
  /\ stage' = [stage EXCEPT ![b] = st]
  /\ IF <<b, st>> \in grants THEN FreeSlot(s) /\ AutoAttach(s, st)
     ELSE UNCHANGED <<stateVars, inDfuMode, jobs, wasmBusy>>
  /\ UNCHANGED <<moduleVars, detected, lastDiagText, modeVars, inputVars, remoteVars,
                 imageVars, grants, flash>>

PlugIn(s, b) ==
  /\ Click /\ Plugged = {} /\ stage[b] = "absent"
  /\ ConnectEvent(s, b, "rom")

GadgetAppears(s, b) ==
  /\ stage[b] = "booting"
  /\ ConnectEvent(s, b, "gadget")
  /\ UNCHANGED clicks

DaemonGadgetAppears(b) ==
  /\ stage[b] = "booting"
  /\ stage' = [stage EXCEPT ![b] = "gadget"]
  /\ UNCHANGED <<moduleVars, stateVars, deviceVars, lastDiagText, modeVars, inputVars,
                 remoteVars, imageVars, wasmBusy, jobs, grants, flash, clicks>>

\* A transfer on its way loses its board; the page does not change its state.
Unplug(b) ==
  /\ Click /\ stage[b] # "absent"
  /\ stage' = [stage EXCEPT ![b] = "absent"]
  /\ jobs' = [r \in Slots |-> IF jobs[r].inCall /\ jobs[r].board = b
                              THEN [jobs[r] EXCEPT !.board = None] ELSE jobs[r]]
  /\ UNCHANGED <<moduleVars, stateVars, deviceVars, lastDiagText, modeVars, inputVars,
                 remoteVars, imageVars, wasmBusy, grants, flash>>

-----------------------------------------------------------------------------
(* The specification.                                                      *)

Init ==
  /\ tdfuReady = FALSE /\ crossed = FALSE
  /\ currentState = "idle" /\ relEnabled = FALSE /\ stranded = FALSE
  /\ inDfuMode = FALSE /\ detected = "" /\ lastDiagText = None
  /\ backendMode \in {"dfu", "remote"} /\ remoteUrl \in BOOLEAN /\ settingsOpen = FALSE
  /\ options \in Kept /\ form = NoForm
  /\ custom = [which \in Loaders |-> "none"] /\ chosen = None
  /\ remoteClient = FALSE /\ remoteDevices = << >> /\ selectedRemoteIndex = 1
  /\ firmwareData = None /\ staged = None
  /\ wasmBusy = FALSE
  /\ jobs = [s \in Slots |-> IF s = 1 THEN Job("init", "load") ELSE NoJob]
  /\ stage \in Found
  /\ grants \in {{}, LocalBoards \X {"rom", "gadget"}}
  /\ flash = [b \in Boards |-> Factory]
  /\ clicks = 0

PageStep(s) ==
  \/ InitCalled(s)
  \/ RowRead(s) \/ OverlayBaked(s)
  \/ Downloaded(s) \/ ReleaseChecked(s) \/ Awaited(s) \/ Settled(s)

JobStep(s) == PageStep(s) \/ LocalStep(s) \/ RemoteStep(s)

UserStep(s) ==
  \/ ConnectDevice(s) \/ DoBootstrap(s) \/ DoRead(s) \/ DoDiag(s)
  \/ SelectFirmware(s) \/ FirmwareSelected(s) \/ FlashFromRelease(s) \/ SetDebug(s)

SettingsStep ==
  \/ OpenSettings \/ CloseSettings \/ (\E mode \in {"dfu", "remote"} : SaveSettings(mode))
  \/ (\E option \in Toggles : Toggle(option))
  \/ ReleaseChanged \/ EnterForm \/ (\E i \in DOMAIN remoteDevices : PickRemoteDevice(i))
  \/ ChooseLoaders \/ (\E which \in Loaders : LoaderRead(which)) \/ ClearCustomBootloader

BoardStep ==
  \/ \E b \in LocalBoards :
       \/ (\E s \in Slots : PlugIn(s, b) \/ GadgetAppears(s, b))
       \/ Unplug(b)
  \/ \E b \in AtDaemon : DaemonGadgetAppears(b) \/ Unplug(b)

Next ==
  \/ \E s \in Slots : Load(s) \/ JobStep(s) \/ UserStep(s)
  \/ SettingsStep
  \/ BoardStep

\* A job under way goes on: its call or its request ends.  What waits for the user (the
\* device chooser is answered at last, the file chooser need not be) and for the module to
\* be loaded is not relied on otherwise.
Spec == Init /\ [][Next]_vars /\ \A s \in Slots : WF_vars(JobStep(s))

-----------------------------------------------------------------------------
(* Properties.                                                             *)

Stalled == {"r-discover", "r-boot", "r-poll", "r-read", "r-write", "r-answer", "r-reboot",
            "choose",
            "discover", "probe", "variant", "fetch", "boot", "read", "sum", "write", "verify", "reboot"}

\* Every variable has its type.
TypeOK ==
  /\ tdfuReady \in BOOLEAN /\ crossed \in BOOLEAN
  /\ currentState \in States /\ relEnabled \in BOOLEAN /\ stranded \in BOOLEAN
  /\ inDfuMode \in BOOLEAN /\ lastDiagText \in Boards \union {None}
  /\ backendMode \in {"dfu", "remote"} /\ remoteUrl \in BOOLEAN /\ settingsOpen \in BOOLEAN
  /\ options \subseteq Toggles /\ form \in Forms
  /\ custom \in [Loaders -> {"none", "reading", "loaded"}] /\ chosen \in Assets \union {None}
  /\ remoteClient \in BOOLEAN /\ selectedRemoteIndex \in Nat \ {0}
  /\ \A i \in DOMAIN remoteDevices : remoteDevices[i].board \in AtDaemon
  /\ wasmBusy \in BOOLEAN
  /\ DOMAIN jobs = Slots /\ \A s \in Slots : DOMAIN jobs[s] = DOMAIN NoJob
  /\ \A s \in Slots : jobs[s].inCall \in BOOLEAN /\ jobs[s].polls \in 0..MaxPolls
  /\ stage \in [Boards -> Stages] /\ grants \subseteq (LocalBoards \X {"rom", "gadget"})
  /\ clicks \in 0..MaxClicks

\* At most one call is suspended in the module, and wasmBusy says so exactly, also when
\* calls throw (wasmCall, app.js: "Asyncify only supports one at a time").
OneCallAtATime ==
  /\ wasmBusy <=> \E s \in Slots : jobs[s].inCall
  /\ \A r, s \in Slots : jobs[r].inCall /\ jobs[s].inCall => r = s

\* Nothing enters the module while a call is suspended in it (setDebug, app.js: "the module is
\* built ASYNCIFY=1 and every entry is serialized on wasmBusy").
EntriesSerialized == ~crossed

\* A page whose buttons are disabled has an activation that will enable them: no early
\* return, failure, exception or crossing of flows leaves a busy state behind with nobody to
\* end it.  Excepted is the state an attach leaves that threw: autoAttachDevice catches
\* nothing.
BusyHasOwner ==
  Busy(currentState) => stranded \/ \E s \in Slots : jobs[s].pc \in Stalled

\* A write that ends well, with no other write in between, leaves the board with the image
\* the user picked: outside the overlay unchanged, in the overlay the files that were
\* entered, read back if that was asked for as it began (doDfuWrite, doRemoteWrite,
\* applyOverlayInjection).
WroteWhatWasAsked(job, image) ==
  /\ job.verified <=> "verify" \in job.asked
  /\ IF job.files = {} THEN image = job.pick
     ELSE /\ Outside(image) = Outside(job.pick)
          /\ OverlayOf(image) \in {OverlayBlock(job.files), OverlayVolume(job.files)}

WriteDoneIsWhatWasAsked ==
  [][\A s \in Slots :
       jobs[s].pc \in TransferPcs /\ jobs[s].alone /\ jobs[s].board # None
         /\ jobs'[s] = NoJob /\ currentState' = "done"
       => WroteWhatWasAsked([jobs[s] EXCEPT !.verified = @ \/ At(s, "verify")],
                            flash'[jobs[s].board])]_vars

\* The loader that is started is one for the board's SoC: "upload the register probe to get
\* the true variant before we display/route" (connectDevice), and "the web runs this after a
\* bootrom-stage discover, before picking the DFU loader" (core.c).
LoaderFitsSoc == \A b \in Boards : stage[b] # "dead"

\* The page does not stay disabled for ever, unless an attach threw.
PageComesBack == Busy(currentState) ~> ~Busy(currentState) \/ stranded
=============================================================================
