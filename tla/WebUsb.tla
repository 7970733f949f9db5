------------------------------- MODULE WebUsb -------------------------------
(***************************************************************************)
(* libusb for the page: the shim of libusb-webusb.js, between the library, *)
(* which makes one call at a time and is suspended in it, and the browser. *)
(* A device is an object of the browser: one that was plugged in again, or *)
(* has become a gadget, is another.  Device pointers are places in the     *)
(* last list, handles are numbers.                                         *)
(***************************************************************************)
EXTENDS Integers, Sequences, FiniteSets, SequencesExt

CONSTANTS
  Devices,      \* the device objects there will ever be
  Ours,         \* those with a vendor and a product that are Ingenic's
  IsDfu,        \* those that have a DFU interface
  MaxCalls,     \* bound: what the library calls
  MaxAttempts,  \* 16 in the code: the rounds that wait for a re-enumeration
  NoDevice

ASSUME UsbAssumption ==
  /\ Ours \subseteq Devices /\ IsDfu \subseteq Devices /\ NoDevice \notin Devices
  /\ MaxCalls \in Nat /\ MaxAttempts \in Nat

VARIABLES
  fresh,        \* devices still to come
  known,        \* what getDevices answers: granted and there
  extra,        \* window._webusb_devices
  devices, device_descriptors,  \* of the last list
  handles,      \* of the open handles: the device object
  handle_device_map,
  next_handle_id,
  opened, configured, claimed,  \* the browser's view of the objects
  queue,        \* per object: transfers not yet done
  call, calls,  \* the call under way, and how many there were
  buffer,       \* the library's memory: the transfer whose data was put there last
  boundTo       \* for the properties: what each handle was opened for

pageVars == <<fresh, known, extra>>
listVars == <<devices, device_descriptors>>
handleVars == <<handles, handle_device_map, next_handle_id, boundTo>>
browserVars == <<opened, configured, claimed>>
vars == <<pageVars, listVars, handleVars, browserVars, queue, call, calls, buffer>>

\* op: what was called; on: the object it is about; attempt: of a list; number: of a
\* transfer, 0 for other calls; result: what the call returned, while op is "returned".
NoCall == [op |-> "returned", on |-> NoDevice, attempt |-> 0, number |-> 0, result |-> 0]

Success == 0
IoError == -1
Access == -3
NoSuchDevice == -4
NotFound == -5
Busy == -6
TimedOut == -7
Pipe == -9
NotSupported == -12

Idle == call.op = "returned" /\ calls < MaxCalls
Begin(op, d) ==
  /\ calls' = calls + 1
  /\ call' = [NoCall EXCEPT !.op = op, !.on = d,
                           !.number = IF op = "transfer" THEN calls + 1 ELSE 0]
Return(result) == call' = [call EXCEPT !.op = "returned", !.result = result]
AtOnce(result) == calls' = calls + 1 /\ call' = [NoCall EXCEPT !.result = result]

There == known \union extra

-----------------------------------------------------------------------------
(* libusb_get_device_list                                                  *)

\* getDevices in whatever order, then what the page was given and getDevices misses, and of
\* these Ingenic's.
Candidates == There \intersect Ours
Lists == {list \in SetToSeqs(Candidates) :
            \A i, j \in DOMAIN list : list[i] \in known /\ list[j] \notin known => i < j}

GetDeviceList ==
  /\ Idle /\ Begin("list", NoDevice)
  /\ UNCHANGED <<pageVars, listVars, handleVars, browserVars, queue, buffer>>

\* Mutant of MayRetry: one round too many.
MayRetryOnce == call.attempt <= MaxAttempts

MayRetry == call.attempt < MaxAttempts

\* An empty answer is waited out when there was a device before.
ListAgain ==
  /\ call.op = "list"
  /\ Candidates = {} /\ devices # << >> /\ MayRetry
  /\ call' = [call EXCEPT !.attempt = @ + 1]
  /\ UNCHANGED <<pageVars, listVars, handleVars, browserVars, queue, calls, buffer>>

Listed ==
  /\ call.op = "list"
  /\ Candidates # {} \/ devices = << >> \/ ~MayRetry
  /\ devices' \in Lists
  /\ device_descriptors' = devices'
  /\ Return(Len(devices'))
  /\ UNCHANGED <<pageVars, handleVars, browserVars, queue, calls, buffer>>

-----------------------------------------------------------------------------
(* libusb_open, libusb_close                                               *)

OpenDevice(dev_ptr) ==
  /\ Idle
  /\ IF dev_ptr \in DOMAIN devices THEN Begin("open", devices[dev_ptr]) ELSE AtOnce(NotFound)
  /\ UNCHANGED <<pageVars, listVars, handleVars, browserVars, queue, buffer>>

\* An object that is opened already is not opened again.
Opened ==
  /\ call.op = "open"
  /\ call.on \in opened \union There
  /\ opened' = opened \union {call.on}
  /\ LET id == next_handle_id
     IN  /\ handles' = [h \in DOMAIN handles \union {id} |->
                          IF h = id THEN call.on ELSE handles[h]]
         /\ handle_device_map' = [h \in DOMAIN handle_device_map \union {id} |->
                                    IF h = id THEN CHOOSE i \in DOMAIN devices :
                                                     devices[i] = call.on
                                    ELSE handle_device_map[h]]
         /\ next_handle_id' = id + 1
         /\ boundTo' = [h \in DOMAIN boundTo \union {id} |->
                          IF h = id THEN call.on ELSE boundTo[h]]
  /\ Return(Success)
  /\ UNCHANGED <<pageVars, listVars, configured, claimed, queue, calls, buffer>>

\* The browser refuses, or the device is gone.
OpenFailed ==
  /\ call.op = "open" /\ call.on \notin opened
  /\ Return(IF call.on \in There THEN Access ELSE NoSuchDevice)
  /\ UNCHANGED <<pageVars, listVars, handleVars, browserVars, queue, calls, buffer>>

\* The object stays open for the next handle.
CloseDevice(h) ==
  /\ Idle /\ AtOnce(Success)
  /\ handles' = [k \in DOMAIN handles \ {h} |-> handles[k]]
  /\ handle_device_map' = [k \in DOMAIN handle_device_map \ {h} |-> handle_device_map[k]]
  /\ UNCHANGED <<pageVars, listVars, next_handle_id, boundTo, browserVars, queue, buffer>>

-----------------------------------------------------------------------------
(* Configuration and interface, and reset.                                 *)

\* Mutant of Target: the place in the list the handle was opened from.
TargetInList(h) ==
  IF h \in DOMAIN handle_device_map /\ handle_device_map[h] \in DOMAIN devices
    THEN devices[handle_device_map[h]] ELSE NoDevice

\* webusb_state.handles[handle_ptr]
Target(h) == IF h \in DOMAIN handles THEN handles[h] ELSE NoDevice

HandleCall(op, h) ==
  /\ Idle
  /\ IF Target(h) # NoDevice THEN Begin(op, Target(h)) ELSE AtOnce(NoSuchDevice)
  /\ UNCHANGED <<pageVars, listVars, handleVars, browserVars, queue, buffer>>

SetConfiguration(h) == HandleCall("configure", h)
ClaimInterface(h) == HandleCall("claim", h)
ReleaseInterface(h) == HandleCall("release", h)
ResetDevice(h) == HandleCall("reset", h)

GetConfiguration(h) ==
  /\ Idle
  /\ AtOnce(IF Target(h) # NoDevice THEN Success ELSE NoSuchDevice)
  /\ UNCHANGED <<pageVars, listVars, handleVars, browserVars, queue, buffer>>

Able(d) == d \in There /\ d \in opened

\* A failed configuration, release or reset is not told.
Configured ==
  /\ call.op = "configure"
  /\ \/ Able(call.on) /\ configured' = configured \union {call.on}
     \/ UNCHANGED configured
  /\ Return(Success)
  /\ UNCHANGED <<pageVars, listVars, handleVars, opened, claimed, queue, calls, buffer>>

Claimed ==
  /\ call.op = "claim"
  /\ \/ /\ Able(call.on) /\ call.on \in configured
        /\ claimed' = claimed \union {call.on} /\ Return(Success)
     \/ UNCHANGED claimed /\ Return(Busy)
  /\ UNCHANGED <<pageVars, listVars, handleVars, opened, configured, queue, calls, buffer>>

ReleasedOrReset ==
  /\ call.op \in {"release", "reset"}
  /\ claimed' = IF call.op = "release" THEN claimed \ {call.on} ELSE claimed
  /\ Return(Success)
  /\ UNCHANGED <<pageVars, listVars, handleVars, opened, configured, queue, calls, buffer>>

-----------------------------------------------------------------------------
(* libusb_control_transfer, libusb_bulk_transfer                           *)

Standards == {"configuration descriptor", "string descriptor", "device descriptor",
              "set interface", "set configuration", "other"}

\* Standard requests, which the browser does not let through, are emulated: the length of
\* what was made up of the object's own tree, in words, for a descriptor.
Emulated(d, request) ==
  CASE request = "configuration descriptor" -> IF d \in IsDfu THEN 3 ELSE 2
    [] request = "string descriptor" -> 1
    [] request = "device descriptor" -> Pipe
    [] OTHER -> NotSupported

\* Two of them are calls to the browser, which have no timeout.
Asks(request) ==
  CASE request = "set interface" -> "alternate"
    [] request = "set configuration" -> "configure"
    [] OTHER -> "nothing"

StandardRequest(h, request) ==
  /\ Idle
  /\ LET d == Target(h)
     IN  IF d = NoDevice THEN AtOnce(NoSuchDevice)
         ELSE IF Asks(request) = "nothing" THEN AtOnce(Emulated(d, request))
         ELSE Begin(Asks(request), d)
  /\ UNCHANGED <<pageVars, listVars, handleVars, browserVars, queue, buffer>>

\* An alternate setting that cannot be selected is a stall.
AlternateSelected ==
  /\ call.op = "alternate"
  /\ \/ Able(call.on) /\ call.on \in claimed /\ Return(Success)
     \/ Return(Pipe)
  /\ UNCHANGED <<pageVars, listVars, handleVars, browserVars, queue, calls, buffer>>

\* A transfer is handed to the browser, and raced against its timeout.
TransferBegins(h) ==
  /\ Idle
  /\ LET d == Target(h)
     IN  IF d = NoDevice
           THEN AtOnce(NoSuchDevice) /\ UNCHANGED queue
           ELSE /\ Begin("transfer", d)
                /\ queue' = [queue EXCEPT ![d] = Append(@, calls + 1)]
  /\ UNCHANGED <<pageVars, listVars, handleVars, browserVars, buffer>>

\* Mutant of Awaits: whatever transfer ends is the one that is waited for.
AwaitsAny(number) == call.op = "transfer"

\* Each call races the promise of its own transfer.
Awaits(number) == call.op = "transfer" /\ call.number = number

\* The call that waits for the transfer returns; if none does, nobody is told.
Settle(number, results) ==
  IF Awaits(number) THEN \E result \in results : Return(result) ELSE UNCHANGED call

\* The browser's side: the first transfer of a device is done, whether it is still waited
\* for or not, and its data is put where its call wanted it: in the worst case where every
\* call does, as dfu_get_status does with its six bytes.
TransferDone(d) ==
  /\ queue[d] # << >> /\ Able(d)
  /\ queue' = [queue EXCEPT ![d] = Tail(@)]
  /\ \/ /\ buffer' = [from |-> d, number |-> Head(queue[d])]
        /\ Settle(Head(queue[d]), {Success})
     \/ UNCHANGED buffer /\ Settle(Head(queue[d]), {Pipe, IoError})
  /\ UNCHANGED <<pageVars, listVars, handleVars, browserVars, calls>>

\* What is queued for a device that is gone, or was never opened, is rejected.
TransferRejected(d) ==
  /\ queue[d] # << >> /\ ~Able(d)
  /\ queue' = [queue EXCEPT ![d] = Tail(@)]
  /\ Settle(Head(queue[d]), {NoSuchDevice, Pipe, IoError})
  /\ UNCHANGED <<pageVars, listVars, handleVars, browserVars, calls, buffer>>

\* Mutant of HasTimeout: a timeout of 0 is for ever, as it is for libusb.
HasTimeoutNever == FALSE

\* Without one the shim takes 5 or 30 seconds.
HasTimeout == TRUE

\* The browser's transfer is left as it is.
TransferTimesOut ==
  /\ call.op = "transfer" /\ HasTimeout
  /\ Return(TimedOut)
  /\ UNCHANGED <<pageVars, listVars, handleVars, browserVars, queue, calls, buffer>>

-----------------------------------------------------------------------------
(* The page and the bus.                                                   *)

\* A granted device appears.
DeviceAppears(d) ==
  /\ d \in fresh /\ fresh' = fresh \ {d}
  /\ known' = known \union {d}
  /\ UNCHANGED <<extra, listVars, handleVars, browserVars, queue, call, calls, buffer>>

\* Or one is granted by the user; getDevices may show it as well.
DevicePicked(d) ==
  /\ d \in fresh /\ fresh' = fresh \ {d}
  /\ extra' = extra \union {d} /\ known' \in {known, known \union {d}}
  /\ UNCHANGED <<listVars, handleVars, browserVars, queue, call, calls, buffer>>

\* The page's disconnect handler drops it, too; the shim is not told.
DeviceGone(d) ==
  /\ d \in There
  /\ known' = known \ {d} /\ extra' = extra \ {d}
  /\ opened' = opened \ {d} /\ configured' = configured \ {d} /\ claimed' = claimed \ {d}
  /\ UNCHANGED <<fresh, listVars, handleVars, queue, call, calls, buffer>>

-----------------------------------------------------------------------------
Init ==
  /\ fresh = Devices /\ known = {} /\ extra = {}
  /\ devices = << >> /\ device_descriptors = << >>
  /\ handles = << >> /\ handle_device_map = << >> /\ next_handle_id = 1 /\ boundTo = << >>
  /\ opened = {} /\ configured = {} /\ claimed = {}
  /\ queue = [d \in Devices |-> << >>]
  /\ call = NoCall /\ calls = 0
  /\ buffer = [from |-> NoDevice, number |-> 0]

\* Handles the library has, or had.
Handles == 1..(next_handle_id - 1)

Library ==
  \/ GetDeviceList \/ (\E dev_ptr \in 1..Cardinality(Devices) : OpenDevice(dev_ptr))
  \/ \E h \in Handles :
       \/ CloseDevice(h) \/ GetConfiguration(h) \/ TransferBegins(h)
       \/ SetConfiguration(h) \/ ClaimInterface(h) \/ ReleaseInterface(h) \/ ResetDevice(h)
       \/ \E request \in Standards : StandardRequest(h, request)

Answers ==
  \/ ListAgain \/ Listed \/ Opened \/ OpenFailed \/ Configured \/ Claimed
  \/ ReleasedOrReset \/ AlternateSelected \/ TransferTimesOut

Bus ==
  \E d \in Devices :
    \/ TransferDone(d) \/ TransferRejected(d)
    \/ DeviceAppears(d) \/ DevicePicked(d) \/ DeviceGone(d)

Next == Library \/ Answers \/ Bus

\* The browser settles what is no transfer, and timers fire; a device need never answer.
Spec == Init /\ [][Next]_vars /\ WF_vars(Answers)

-----------------------------------------------------------------------------
(* Properties.                                                             *)

\* Every variable has its type.
TypeOK ==
  /\ fresh \subseteq Devices /\ There \subseteq Devices \ fresh
  /\ ToSet(devices) \subseteq Ours /\ ToSet(device_descriptors) \subseteq Ours
  /\ DOMAIN handles = DOMAIN handle_device_map /\ DOMAIN handles \subseteq Handles
  /\ next_handle_id \in 1..(MaxCalls + 1) /\ DOMAIN boundTo = Handles
  /\ opened \union configured \union claimed \subseteq There
  /\ \A d \in Devices : \A i \in DOMAIN queue[d] : queue[d][i] \in 1..calls
  /\ call.on \in Devices \union {NoDevice} /\ call.attempt \in 0..MaxAttempts
  /\ calls \in 0..MaxCalls
  /\ buffer.from \in Devices \union {NoDevice} /\ buffer.number \in 0..calls

\* What goes over a handle goes to the object it was opened for, also when the list was made
\* anew meanwhile and the object's place is another's (libusb_open, libusb_control_transfer).
UsesWhatWasOpened ==
  [][\A h \in Handles, d \in Devices :
       TransferBegins(h) /\ queue'[d] # queue[d] => d = boundTo[h]]_vars

\* A transfer that returns well has its own data in the library's buffer, not the late data
\* of an earlier one that was left behind by its timeout; and until the library calls again,
\* no late data of the same device comes over it, for a device ends its transfers in order
\* (libusb_control_transfer, libusb_bulk_transfer: the promise that loses the race goes on).
OwnAnswer ==
  [][/\ call.op = "transfer" /\ call'.op = "returned" /\ call'.result = Success
           => buffer' = [from |-> call.on, number |-> call.number]
     /\ call.op = "returned" /\ call.result = Success /\ call.number # 0 /\ call' = call
           => buffer' = buffer \/ buffer'.from # call.on]_vars

\* The library is not suspended for ever: a transfer comes back though the device never
\* answers, and a list though no device comes back.
CallsReturn == call.op # "returned" ~> call.op = "returned"
=============================================================================
