------------------------------ MODULE WebLocal ------------------------------
(***************************************************************************)
(* The page's own USB backend: the flows of app.js that call the WebUSB    *)
(* chooser and the library compiled to WebAssembly.  Each action is what   *)
(* runs between two awaits.  At most one board is plugged in, as the shim  *)
(* assumes ("the local WebUSB path is single-device").                     *)
(***************************************************************************)
EXTENDS WebPageState

\* A call ends and so does the job.
Finish(s, state) == Set(s, NoJob) /\ SetState(state) /\ Unlock

-----------------------------------------------------------------------------
(* Connect, and attaching by itself.                                       *)

LocalConnect(s) ==
  /\ lastDiagText' = None
  /\ IF tdfuReady
       THEN SetState("connecting") /\ Set(s, Job("connect", "choose"))
       ELSE UNCHANGED <<stateVars, jobs>>
  /\ UNCHANGED <<inDfuMode, wasmBusy, remoteVars>>

\* The chooser shows every Ingenic device; choosing grants it.
Choose(s) ==
  /\ At(s, "choose")
  /\ \/ /\ Set(s, NoJob) /\ SetState("idle")
        /\ UNCHANGED <<inDfuMode, grants, wasmBusy>>
     \/ \E b \in Plugged :
          /\ grants' = grants \union {<<b, stage[b]>>}
          /\ \/ /\ stage[b] = "gadget"
                /\ inDfuMode' = TRUE
                /\ Set(s, NoJob) /\ SetState("done")
                /\ UNCHANGED wasmBusy
             \/ /\ stage[b] = "rom"
                /\ inDfuMode' = FALSE
                /\ SetState("detecting") /\ Enter(s, [jobs[s] EXCEPT !.pc = "discover"])
  /\ UNCHANGED <<moduleVars, detected, lastDiagText, modeVars, inputVars, remoteVars,
                 imageVars, stage, flash, clicks>>

\* What tdfu_discover_devices says of the first device: nothing without one; a gadget, and
\* a ROM that did not answer, are given the default variant.
Discoveries ==
  {[rom |-> TRUE, name |-> MagicOf[b]] : b \in Seen("rom")}
    \union {[rom |-> TRUE, name |-> Default] : b \in IF Faults THEN Seen("rom") ELSE {}}
    \union {[rom |-> FALSE, name |-> Default] : b \in Seen("gadget")}

\* Mutant of AfterNoDevice: an early return that sets no state.
AfterNoDeviceStays(s) == Set(s, NoJob) /\ UNCHANGED stateVars /\ Unlock

\* connectDevice and autoAttachDevice when there is no device, or discover failed.
AfterNoDevice(s) == Finish(s, "idle")

\* The list is read, and given back, by bare calls.
Discovered(s) ==
  /\ Called(s, "discover")
  /\ \/ /\ Faults
        /\ AfterNoDevice(s) /\ UNCHANGED <<detected, crossed>>
     \/ /\ Discoveries = {}
        /\ EnterBare(s)
        /\ AfterNoDevice(s) /\ UNCHANGED detected
     \/ /\ EnterBare(s)
        /\ \E info \in Discoveries :
             IF info.rom /\ jobs[s].kind = "connect"
               THEN /\ Again(s, [jobs[s] EXCEPT !.pc = "probe", !.name = info.name])
                    /\ UNCHANGED <<stateVars, detected>>
               ELSE detected' = info.name /\ Finish(s, "done")
  /\ UNCHANGED <<tdfuReady, inDfuMode, lastDiagText, modeVars, inputVars, remoteVars,
                 imageVars, boardVars, clicks>>

\* tdfu_web_detect_soc; without an answer the magic's name is kept, and a name other than
\* the magic's is taken back to the library for its number.
Probed(s) ==
  /\ Called(s, "probe")
  /\ \/ \E b \in Seen("rom") :
          /\ SocOf[b] # jobs[s].name
          /\ Again(s, [jobs[s] EXCEPT !.pc = "variant", !.name = SocOf[b]])
          /\ UNCHANGED <<detected, stateVars>>
     \/ /\ Faults \/ \A b \in Seen("rom") : SocOf[b] = jobs[s].name
        /\ detected' = jobs[s].name /\ Finish(s, "done")
  /\ UNCHANGED <<moduleVars, inDfuMode, lastDiagText, modeVars, inputVars, remoteVars,
                 imageVars, boardVars, clicks>>

VariantKnown(s) ==
  /\ Called(s, "variant")
  /\ detected' = jobs[s].name /\ Finish(s, "done")
  /\ UNCHANGED <<moduleVars, inDfuMode, lastDiagText, modeVars, inputVars, remoteVars,
                 imageVars, boardVars, clicks>>

\* The handler of a connect event, for a device that is or becomes st.
AutoAttach(s, st) ==
  IF ~tdfuReady \/ currentState \notin {"idle", "done"}
    THEN UNCHANGED <<stateVars, inDfuMode, jobs, wasmBusy>>
  ELSE IF st = "gadget"
    THEN /\ inDfuMode' = TRUE
         /\ SetState("done")
         /\ UNCHANGED <<jobs, wasmBusy>>
  ELSE /\ inDfuMode' = FALSE
       /\ SetState("detecting") /\ Enter(s, Job("attach", "discover"))

-----------------------------------------------------------------------------
(* Bootstrap.  Flash-from-release waits for it and then for the gadget.    *)

BootEnds(s) ==
  Set(s, IF jobs[s].kind = "release" THEN [jobs[s] EXCEPT !.pc = "await", !.inCall = FALSE, !.polls = 0]
         ELSE NoJob)

\* The name of the loader's directory comes from the module, by a bare call.
LocalBoot(s, job) ==
  IF custom = [spl |-> "loaded", uboot |-> "loaded"]
    THEN /\ SetState("bootstrapping")
         /\ Enter(s, [job EXCEPT !.pc = "boot", !.name = "custom"])
         /\ UNCHANGED crossed
  ELSE IF detected # ""
    THEN /\ SetState("bootstrapping")
         /\ EnterBare(s)
         /\ Set(s, [job EXCEPT !.pc = "fetch", !.name = detected])
         /\ UNCHANGED wasmBusy
  ELSE /\ Set(s, IF job.kind = "release" THEN [job EXCEPT !.pc = "await"] ELSE NoJob)
       /\ UNCHANGED <<stateVars, wasmBusy, crossed>>

\* The rest of loadDfuFirmwareToMemFS, and any exception of it; the call names the variant
\* anew.
Fetched(s) ==
  /\ At(s, "fetch")
  /\ \/ /\ Enter(s, [jobs[s] EXCEPT !.pc = "boot", !.name = detected])
        /\ UNCHANGED stateVars
     \/ /\ Faults
        /\ BootEnds(s) /\ SetState("error")
        /\ UNCHANGED wasmBusy
  /\ UNCHANGED <<moduleVars, deviceVars, lastDiagText, modeVars, inputVars, remoteVars,
                 imageVars, boardVars, clicks>>

\* It returns as soon as U-Boot was started, whether or not that is its board's.
BootCalled(s) ==
  /\ Called(s, "boot")
  /\ \/ \E b \in Seen("rom") :
          /\ jobs[s].name # ""
          /\ Started(b, jobs[s].name)
          /\ SetState("idle")
     \/ /\ Faults \/ Seen("rom") = {} \/ jobs[s].name = ""
        /\ SetState("error")
        /\ UNCHANGED stage
  /\ BootEnds(s) /\ Unlock
  /\ UNCHANGED <<moduleVars, deviceVars, lastDiagText, modeVars, inputVars, remoteVars,
                 imageVars, grants, flash, clicks>>

-----------------------------------------------------------------------------
(* Read.                                                                   *)

LocalRead(s) ==
  IF tdfuReady /\ inDfuMode
    THEN SetState("reading") /\ Enter(s, Job("read", "read"))
    ELSE UNCHANGED <<stateVars, jobs, wasmBusy>>

\* The dump is saved, then its sum is logged.
ReadCalled(s) ==
  /\ Called(s, "read") /\ Unlock
  /\ \/ /\ Seen("gadget") # {}
        /\ Set(s, Job("read", "sum")) /\ UNCHANGED stateVars
     \/ /\ Faults \/ Seen("gadget") = {}
        /\ Set(s, NoJob) /\ SetState("error")
  /\ UNCHANGED <<moduleVars, deviceVars, lastDiagText, modeVars, inputVars, remoteVars,
                 imageVars, boardVars, clicks>>

ReadSummed(s) ==
  /\ At(s, "sum") /\ jobs[s].kind = "read"
  /\ Set(s, NoJob) /\ SetState("done")
  /\ UNCHANGED <<moduleVars, deviceVars, lastDiagText, modeVars, inputVars, remoteVars,
                 imageVars, wasmBusy, boardVars, clicks>>

-----------------------------------------------------------------------------
(* Write.                                                                  *)

\* The options as the transfer begins.
Snapshot == options \intersect {"verify", "reboot"}

\* The job as its transfer begins.
Going(job, pc) ==
  [job EXCEPT !.kind = "write", !.pc = pc, !.opts = Snapshot, !.image = None,
              !.asked = options \intersect {"verify", "reboot"}]

LocalWrite(s, job, data) ==
  IF tdfuReady /\ inDfuMode
    THEN /\ SetState("writing")
         /\ staged' = data
         /\ SetTransfer(s, Entered(Going(job, "write"), wasmBusy))
         /\ wasmBusy' = TRUE
    ELSE /\ Set(s, NoJob)
         /\ UNCHANGED <<stateVars, staged, wasmBusy>>

\* The library opens the gadget and loads the staged file; a write destroys what was there.
Loaded(s) ==
  /\ Called(s, "write") \/ Called(s, "verify")
  /\ jobs[s].image = None /\ staged # None
  /\ \E b \in Seen("gadget") :
       /\ Set(s, [jobs[s] EXCEPT !.board = b, !.image = staged])
       /\ flash' = IF At(s, "write") THEN [flash EXCEPT ![b] = Torn] ELSE flash
  /\ UNCHANGED <<moduleVars, stateVars, deviceVars, lastDiagText, modeVars, inputVars,
                 remoteVars, imageVars, wasmBusy, stage, grants, clicks>>

Transferring(s) == jobs[s].image # None /\ jobs[s].board # None

\* After the write, and after the verification when there is one.
RebootOrFinish(s) ==
  IF "reboot" \in jobs[s].opts
    THEN /\ Again(s, [jobs[s] EXCEPT !.pc = "reboot", !.verified = At(s, "verify")])
         /\ UNCHANGED stateVars
    ELSE Finish(s, "done")

\* Mutant of AskedToVerify: the toggle is read after the transfer.
AskedToVerifyNow(s) == "verify" \in options

AskedToVerify(s) == "verify" \in jobs[s].opts

Written(s) ==
  /\ Called(s, "write") /\ Transferring(s)
  /\ flash' = [flash EXCEPT ![jobs[s].board] = jobs[s].image]
  /\ IF AskedToVerify(s)
       THEN /\ Again(s, [jobs[s] EXCEPT !.pc = "verify", !.image = None])
            /\ UNCHANGED <<stateVars, staged>>
       ELSE staged' = None /\ RebootOrFinish(s)
  /\ UNCHANGED <<moduleVars, deviceVars, lastDiagText, modeVars, inputVars, remoteVars,
                 firmwareData, stage, grants, clicks>>

VerifiedOk(s) ==
  /\ Called(s, "verify") /\ Transferring(s)
  /\ flash[jobs[s].board] = jobs[s].image
  /\ staged' = None /\ RebootOrFinish(s)
  /\ UNCHANGED <<moduleVars, deviceVars, lastDiagText, modeVars, inputVars, remoteVars,
                 firmwareData, boardVars, clicks>>

\* A fault, no gadget, no file, a board that went away, or a mismatch.
WriteCallFailed(s) ==
  /\ Called(s, "write") \/ Called(s, "verify")
  /\ \/ Faults
     \/ ~Transferring(s) /\ (staged = None \/ Seen("gadget") = {})
     \/ Transferring(s) /\ At(s, "verify") /\ flash[jobs[s].board] # jobs[s].image
     \/ jobs[s].image # None /\ jobs[s].board = None
  /\ staged' = None /\ Finish(s, "error")
  /\ UNCHANGED <<moduleVars, deviceVars, lastDiagText, modeVars, inputVars, remoteVars,
                 firmwareData, boardVars, clicks>>

\* Whatever the call says.
RebootCalled(s) ==
  /\ Called(s, "reboot") /\ Finish(s, "done")
  /\ \/ \E b \in Seen("gadget") : stage' = [stage EXCEPT ![b] = "absent"]
     \/ (Faults \/ Seen("gadget") = {}) /\ UNCHANGED stage
  /\ UNCHANGED <<moduleVars, deviceVars, lastDiagText, modeVars, inputVars, remoteVars,
                 imageVars, grants, flash, clicks>>

-----------------------------------------------------------------------------
(* Info, and the debug toggle.                                             *)

\* Only a ROM can be asked; what was read before stays cached.
DiagCalled(s) ==
  /\ Called(s, "diag") /\ Unlock
  /\ \/ \E b \in Seen("rom") : lastDiagText' = b
     \/ (Faults \/ Seen("rom") = {}) /\ UNCHANGED lastDiagText
  /\ Set(s, NoJob)
  /\ UNCHANGED <<moduleVars, stateVars, deviceVars, modeVars, inputVars, remoteVars,
                 imageVars, boardVars, clicks>>

DebugCalled(s) ==
  /\ Called(s, "debug") /\ Unlock /\ Set(s, NoJob)
  /\ UNCHANGED <<moduleVars, stateVars, deviceVars, lastDiagText, modeVars, inputVars,
                 remoteVars, imageVars, boardVars, clicks>>

-----------------------------------------------------------------------------
(* A call that throws.                                                     *)

\* autoAttachDevice.
Attaching(s) == At(s, "discover") /\ jobs[s].kind = "attach"

\* The catch of the flow that made it: an error on the page, but for a reboot, which is done
\* either way, for what does not show on the page, and for autoAttachDevice, which has no
\* catch.
Caught(s) ==
  \/ Attaching(s) /\ UNCHANGED <<currentState, relEnabled>> /\ stranded' = TRUE
  \/ /\ ~Attaching(s)
     /\ jobs[s].pc \in {"discover", "probe", "variant", "boot", "read", "write", "verify"}
     /\ SetState("error")
  \/ At(s, "reboot") /\ SetState("done")
  \/ jobs[s].pc \in {"init", "diag", "debug"} /\ UNCHANGED stateVars

CallThrew(s) ==
  /\ Faults /\ jobs[s].inCall
  /\ UnlockThrown /\ Caught(s)
  /\ IF At(s, "boot") THEN BootEnds(s) ELSE Set(s, NoJob)
  /\ staged' = IF jobs[s].pc \in {"write", "verify"} THEN None ELSE staged
  /\ UNCHANGED <<moduleVars, deviceVars, lastDiagText, modeVars, inputVars, remoteVars,
                 firmwareData, boardVars, clicks>>

LocalStep(s) ==
  \/ PollLock(s) \/ Choose(s) \/ Discovered(s) \/ Probed(s) \/ VariantKnown(s)
  \/ Fetched(s) \/ BootCalled(s) \/ ReadCalled(s) \/ ReadSummed(s)
  \/ Loaded(s) \/ Written(s) \/ VerifiedOk(s) \/ WriteCallFailed(s) \/ RebootCalled(s)
  \/ DiagCalled(s) \/ DebugCalled(s) \/ CallThrew(s)
=============================================================================
