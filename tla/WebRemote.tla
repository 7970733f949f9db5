------------------------------ MODULE WebRemote ------------------------------
(***************************************************************************)
(* The page's daemon backend: the client of remote.js, the flows of app.js *)
(* that use it, and the daemon as they see it.  A command is one POST; the *)
(* daemon serves one at a time.  A board that leaves the daemon's host     *)
(* does not return.                                                        *)
(***************************************************************************)
EXTENDS WebLocal, SequencesExt

-----------------------------------------------------------------------------
(* The daemon.                                                             *)

\* The library counts the boards in bus order that are in one of these stages, up to the
\* one asked for: there is one such board, or none.
Nth(n, stages) ==
  LET counted(i) == {j \in 1..i : stage[DaemonBoards[j]] \in stages}
      here == {i \in DOMAIN DaemonBoards : i \in counted(i) /\ Cardinality(counted(i)) = n}
  IN  {DaemonBoards[i] : i \in here}

\* All Ingenic devices, which bootstrap and discover count, and the gadgets, the only ones
\* counted where a DFU interface is opened.
Listed(n) == Nth(n, {"rom", "gadget"})
Gadget(n) == Nth(n, {"gadget"})

Entry(b, known) ==
  [board |-> b, rom |-> stage[b] = "rom", name |-> IF known THEN SocOf[b] ELSE Default]

\* What _command makes of the frames of a reply: the first final one counts, and a stream
\* that ends before it, or does not begin as a reply does, is an exception.
Reply(frames) ==
  LET final == SelectInSeq(frames, LAMBDA f : f \notin {"progress", "log"})
  IN  IF final = 0 \/ frames[final] = "garbage" THEN "exception"
      ELSE IF frames[final] = "ok" THEN "payload"
      ELSE "null"

\* A reply may be cut off after the work was done.
Replies(done) ==
  {Reply(frames) : frames \in
     {IF done THEN <<"progress", "log", "ok">> ELSE <<"log", "error">>}
       \union (IF Faults THEN {<<"progress">>, <<"garbage">>} ELSE {})}

\* The boards that are there, in bus order.
Listings ==
  LET here == {b \in AtDaemon : stage[b] \in {"rom", "gadget"}}
  IN  {list \in [1..Cardinality(here) -> here] : \A i \in DOMAIN list : list[i] \in Listed(i)}

\* discover: the list, or nothing when there is no payload or an exception.
Discoverable ==
  {[i \in DOMAIN list |-> Entry(list[i], known)] :
     list \in Listings, known \in {TRUE} \union (IF Faults THEN {FALSE} ELSE {})}
    \union {<< >> : reply \in Replies(TRUE) \ {"payload"}}

-----------------------------------------------------------------------------
(* Connect.                                                                *)

\* The names in an answer come from the module, by bare calls.
Resolve(s, devices) == IF devices = << >> THEN UNCHANGED crossed ELSE EnterBare(s)

\* Indexes count from 1 here.
SelectRemoteDevice(devices, i) ==
  /\ selectedRemoteIndex' = i
  /\ detected' = devices[i].name
  /\ inDfuMode' = ~devices[i].rom
  /\ SetState("done")

RemoteConnect(s) ==
  /\ lastDiagText' = None
  /\ IF remoteClient
       THEN /\ remoteClient' = FALSE /\ remoteDevices' = << >>
            /\ SetState("idle")
            /\ UNCHANGED <<jobs, settingsOpen>>
     ELSE IF ~remoteUrl
       THEN settingsOpen' = TRUE /\ UNCHANGED <<stateVars, jobs, remoteClient, remoteDevices>>
     ELSE /\ SetState("connecting")
          /\ remoteClient' = TRUE  \* nothing is sent yet
          /\ Set(s, Job("connect", "r-discover"))
          /\ UNCHANGED <<remoteDevices, settingsOpen>>
  /\ UNCHANGED <<inDfuMode, selectedRemoteIndex, wasmBusy>>

RemoteDiscovered(s) ==
  /\ At(s, "r-discover")
  /\ \E devices \in Discoverable :
       /\ remoteDevices' = devices
       /\ Resolve(s, devices)
       /\ IF devices = << >>
            THEN SetState("idle") /\ UNCHANGED <<deviceVars, selectedRemoteIndex>>
            ELSE SelectRemoteDevice(devices, 1)
  /\ Set(s, NoJob)
  /\ UNCHANGED <<tdfuReady, lastDiagText, modeVars, inputVars, remoteClient, imageVars,
                 wasmBusy, boardVars, clicks>>

-----------------------------------------------------------------------------
(* Bootstrap, then discover until the gadget is there.                     *)

LoaderName == IF custom = [spl |-> "loaded", uboot |-> "loaded"] THEN "custom" ELSE detected

RemoteBoot(s, job) ==
  IF remoteClient
    THEN /\ SetState("bootstrapping")
         /\ Set(s, [job EXCEPT !.pc = "r-boot", !.name = LoaderName,
                               !.index = selectedRemoteIndex, !.polls = 0,
                               !.before = {d.board : d \in {remoteDevices[i] :
                                             i \in {j \in DOMAIN remoteDevices :
                                                      ~remoteDevices[j].rom}}}])
    ELSE /\ Set(s, IF job.kind = "release" THEN [job EXCEPT !.pc = "await"] ELSE NoJob)
         /\ UNCHANGED stateVars

\* What an answer to the bootstrap command leads to.
BootAnswered(s, reply) ==
  IF reply = "payload"
    THEN Set(s, [jobs[s] EXCEPT !.pc = "r-poll"]) /\ UNCHANGED stateVars
    ELSE BootEnds(s) /\ SetState("error")

RemoteBooted(s) ==
  /\ At(s, "r-boot")
  /\ LET roms == {b \in Listed(jobs[s].index) : stage[b] = "rom"}
     IN  \/ /\ \E b \in roms : Started(b, jobs[s].name)
            /\ \E reply \in Replies(TRUE) : BootAnswered(s, reply)
         \/ /\ Faults \/ roms = {}
            /\ \E reply \in Replies(FALSE) : BootAnswered(s, reply)
            /\ UNCHANGED stage
  /\ UNCHANGED <<moduleVars, deviceVars, lastDiagText, modeVars, inputVars, remoteVars,
                 imageVars, wasmBusy, grants, flash, clicks>>

NewGadgets(devices, before) ==
  {i \in DOMAIN devices : ~devices[i].rom /\ devices[i].board \notin before}

\* One round; without a client, or an answer, the list is empty.
RemotePolled(s) ==
  /\ At(s, "r-poll")
  /\ \E devices \in IF remoteClient THEN Discoverable ELSE {<< >>} :
       LET new == NewGadgets(devices, jobs[s].before)
           last == jobs[s].polls + 1 >= MaxPolls
       IN  /\ remoteDevices' = devices
           /\ Resolve(s, devices)
           /\ IF new # {}
                THEN /\ selectedRemoteIndex' = Min(new)
                     /\ inDfuMode' = TRUE
                ELSE UNCHANGED <<selectedRemoteIndex, inDfuMode>>
           /\ IF new # {} \/ last
                THEN BootEnds(s) /\ SetState("done")
                ELSE /\ Set(s, [jobs[s] EXCEPT !.polls = @ + 1])
                     /\ UNCHANGED stateVars
  /\ UNCHANGED <<tdfuReady, detected, lastDiagText, modeVars, inputVars, remoteClient,
                 imageVars, wasmBusy, boardVars, clicks>>

-----------------------------------------------------------------------------
(* Read.                                                                   *)

RemoteRead(s) ==
  IF remoteClient
    THEN /\ SetState("reading")
         /\ Set(s, [Job("read", "r-read") EXCEPT !.index = selectedRemoteIndex])
    ELSE UNCHANGED <<stateVars, jobs>>

\* A payload whose CRC does not fit counts as none.
RemoteReadAnswered(s) ==
  /\ At(s, "r-read")
  /\ \E reply \in Replies(Gadget(jobs[s].index) # {})
                    \union (IF Faults THEN {"null"} ELSE {}) :
       IF reply = "payload"
         THEN Set(s, Job("read", "sum")) /\ UNCHANGED stateVars
         ELSE Set(s, NoJob) /\ SetState("error")
  /\ UNCHANGED <<moduleVars, deviceVars, lastDiagText, modeVars, inputVars, remoteVars,
                 imageVars, wasmBusy, boardVars, clicks>>

-----------------------------------------------------------------------------
(* Write.  The command carries the image, the index and the verify byte.   *)

RemoteWrite(s, job, data) ==
  IF remoteClient /\ inDfuMode
    THEN /\ SetState("writing")
         /\ SetTransfer(s, [Going(job, "r-write") EXCEPT !.index = selectedRemoteIndex,
                                                            !.image = data])
    ELSE Set(s, NoJob) /\ UNCHANGED stateVars

\* After a write, as RebootOrFinish; the reboot counts the device anew.
RemoteRebootOrFinish(s) ==
  IF "reboot" \in jobs[s].opts /\ remoteClient
    THEN /\ Set(s, [jobs[s] EXCEPT !.pc = "r-reboot", !.index = selectedRemoteIndex])
         /\ UNCHANGED stateVars
    ELSE Set(s, NoJob) /\ SetState("done")

\* The daemon writes, and reads back if it is asked to.
RemoteServed(s) ==
  /\ At(s, "r-write")
  /\ \E b \in Gadget(jobs[s].index) :
       /\ flash' = [flash EXCEPT ![b] = jobs[s].image]
       /\ Set(s, [jobs[s] EXCEPT !.pc = "r-answer", !.board = b,
                                 !.verified = AskedToVerify(s)])
  /\ UNCHANGED <<moduleVars, stateVars, deviceVars, lastDiagText, modeVars, inputVars,
                 remoteVars, imageVars, wasmBusy, stage, grants, clicks>>

RemoteAnswered(s) ==
  /\ At(s, "r-answer")
  /\ \E reply \in Replies(TRUE) :
       IF reply = "payload" THEN RemoteRebootOrFinish(s)
       ELSE Set(s, NoJob) /\ SetState("error")
  /\ UNCHANGED <<moduleVars, deviceVars, lastDiagText, modeVars, inputVars, remoteVars,
                 imageVars, wasmBusy, boardVars, clicks>>

\* Nothing was reached, no such gadget, or a failure on the way.
RemoteWriteFailed(s) ==
  /\ At(s, "r-write")
  /\ Faults \/ Gadget(jobs[s].index) = {}
  /\ flash' \in {flash} \union {[flash EXCEPT ![b] = Torn] : b \in Gadget(jobs[s].index)}
  /\ Set(s, NoJob) /\ SetState("error")
  /\ UNCHANGED <<moduleVars, deviceVars, lastDiagText, modeVars, inputVars, remoteVars,
                 imageVars, wasmBusy, stage, grants, clicks>>

\* Whatever the answer says.
RemoteRebooted(s) ==
  /\ At(s, "r-reboot")
  /\ \/ \E b \in Gadget(jobs[s].index) : stage' = [stage EXCEPT ![b] = "absent"]
     \/ (Faults \/ Gadget(jobs[s].index) = {}) /\ UNCHANGED stage
  /\ Set(s, NoJob) /\ SetState("done")
  /\ UNCHANGED <<moduleVars, deviceVars, lastDiagText, modeVars, inputVars, remoteVars,
                 imageVars, wasmBusy, grants, flash, clicks>>

-----------------------------------------------------------------------------
(* Info.                                                                   *)

RemoteDiagAnswered(s) ==
  /\ At(s, "r-diag")
  /\ LET roms == {b \in Listed(jobs[s].index) : stage[b] = "rom"}
     IN  \E reply \in Replies(roms # {}) :
           lastDiagText' \in IF reply = "payload" THEN roms ELSE {lastDiagText}
  /\ Set(s, NoJob)
  /\ UNCHANGED <<moduleVars, stateVars, deviceVars, modeVars, inputVars, remoteVars,
                 imageVars, wasmBusy, boardVars, clicks>>

RemoteStep(s) ==
  \/ RemoteDiscovered(s) \/ RemoteBooted(s) \/ RemotePolled(s)
  \/ RemoteReadAnswered(s) \/ RemoteServed(s) \/ RemoteAnswered(s) \/ RemoteWriteFailed(s)
  \/ RemoteRebooted(s) \/ RemoteDiagAnswered(s)
=============================================================================
