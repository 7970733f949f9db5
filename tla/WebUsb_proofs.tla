----------------------------- MODULE WebUsb_proofs -----------------------------
(***************************************************************************)
(* What a handle of the shim stands for, for every set of devices and      *)
(* every number of calls: UsesWhatWasOpened; the types of the shim's       *)
(* state; and whose data a transfer returns with: OwnAnswer.               *)
(***************************************************************************)
EXTENDS WebUsb, TLAPS

\* A handle is bound as it was opened, and none is given twice.
HandlesBound ==
  /\ next_handle_id \in Nat \ {0}
  /\ DOMAIN boundTo = Handles
  /\ DOMAIN handles \subseteq Handles
  /\ \A h \in DOMAIN handles : handles[h] = boundTo[h]

\* The inductive invariant: the descriptors are those of the list.
IInv ==
  /\ HandlesBound
  /\ DOMAIN queue = Devices
  /\ device_descriptors = devices

\* The library starts with no handle and no list.
LEMMA InitIInv ==
  ASSUME Init
  PROVE  IInv
<1>1. DOMAIN boundTo = {} /\ DOMAIN handles = {} /\ Handles = {}
  BY DEF Init, Handles
<1>2. QED BY <1>1 DEF Init, IInv, HandlesBound

\* A handle that is opened gets a number that was never used.
LEMMA OpenedKeeps ==
  ASSUME HandlesBound, Opened
  PROVE  HandlesBound'
<1> DEFINE id == next_handle_id
<1>1. /\ next_handle_id' = id + 1 /\ id \in Nat \ {0}
      /\ DOMAIN handles' = DOMAIN handles \union {id}
      /\ DOMAIN boundTo' = DOMAIN boundTo \union {id}
      /\ handles'[id] = call.on /\ boundTo'[id] = call.on
      /\ \A h \in DOMAIN handles : h # id => handles'[h] = handles[h]
      /\ \A h \in DOMAIN boundTo : h # id => boundTo'[h] = boundTo[h]
  BY DEF Opened, HandlesBound
<1>2. Handles' = Handles \union {id} /\ id \notin Handles
  BY <1>1 DEF Handles
<1>3. QED BY <1>1, <1>2 DEF HandlesBound

\* A handle that is closed leaves the numbers of the others.
LEMMA ClosedKeeps ==
  ASSUME NEW h, HandlesBound, CloseDevice(h)
  PROVE  HandlesBound'
BY DEF CloseDevice, HandlesBound, Handles

\* What else the library, the browser and the bus do leaves the handles alone.
LEMMA HandlesKept ==
  ASSUME HandlesBound, UNCHANGED handleVars
  PROVE  HandlesBound'
BY DEF handleVars, HandlesBound, Handles

\* Without a new list, descriptors and devices go on agreeing.
LEMMA ListKept ==
  ASSUME device_descriptors = devices, UNCHANGED listVars
  PROVE  device_descriptors' = devices'
BY DEF listVars

\* The library's calls keep the invariant.
LEMMA LibraryKeeps ==
  ASSUME IInv, Library
  PROVE  IInv'
<1>1. UNCHANGED listVars /\ DOMAIN queue' = DOMAIN queue
  BY DEF Library, GetDeviceList, OpenDevice, CloseDevice, GetConfiguration, TransferBegins,
         SetConfiguration, ClaimInterface, ReleaseInterface, ResetDevice, HandleCall,
         StandardRequest
<1>2. HandlesBound'
  <2>1. CASE \E h \in Handles : CloseDevice(h)
    BY <2>1, ClosedKeeps DEF IInv
  <2>2. CASE ~\E h \in Handles : CloseDevice(h)
    <3>1. UNCHANGED handleVars
      BY <2>2 DEF Library, GetDeviceList, OpenDevice, GetConfiguration, TransferBegins,
                  SetConfiguration, ClaimInterface, ReleaseInterface, ResetDevice,
                  HandleCall, StandardRequest
    <3>2. QED BY <3>1, HandlesKept DEF IInv
  <2>3. QED BY <2>1, <2>2
<1>3. QED BY <1>1, <1>2, ListKept DEF IInv

\* The browser's answers keep the invariant.
LEMMA AnswersKeep ==
  ASSUME IInv, Answers
  PROVE  IInv'
<1>1. queue' = queue
  BY DEF Answers, ListAgain, Listed, Opened, OpenFailed, Configured, Claimed,
         ReleasedOrReset, AlternateSelected, TransferTimesOut
<1>2. HandlesBound'
  <2>1. CASE Opened
    BY <2>1, OpenedKeeps DEF IInv
  <2>2. CASE ~Opened
    <3>1. UNCHANGED handleVars
      BY <2>2 DEF Answers, ListAgain, Listed, OpenFailed, Configured, Claimed,
                  ReleasedOrReset, AlternateSelected, TransferTimesOut
    <3>2. QED BY <3>1, HandlesKept DEF IInv
  <2>3. QED BY <2>1, <2>2
<1>3. device_descriptors' = devices'
  <2>1. CASE Listed
    BY <2>1 DEF Listed
  <2>2. CASE ~Listed
    <3>1. UNCHANGED listVars
      BY <2>2 DEF Answers, ListAgain, Opened, OpenFailed, Configured, Claimed,
                  ReleasedOrReset, AlternateSelected, TransferTimesOut
    <3>2. QED BY <3>1, ListKept DEF IInv
  <2>3. QED BY <2>1, <2>2
<1>4. QED BY <1>1, <1>2, <1>3 DEF IInv

\* What the bus and the devices do keeps the invariant.
LEMMA BusKeeps ==
  ASSUME IInv, Bus
  PROVE  IInv'
<1>1. UNCHANGED <<listVars, handleVars>> /\ DOMAIN queue' = DOMAIN queue
  BY DEF Bus, TransferDone, TransferRejected, DeviceAppears, DevicePicked, DeviceGone
<1>2. QED BY <1>1, ListKept, HandlesKept DEF IInv

\* Every step keeps the invariant.
LEMMA NextKeeps ==
  ASSUME IInv, [Next]_vars
  PROVE  IInv'
<1>1. CASE UNCHANGED vars
  <2>1. UNCHANGED <<listVars, handleVars, queue>>
    BY <1>1 DEF vars
  <2>2. QED BY <2>1, ListKept, HandlesKept DEF IInv
<1>2. QED BY <1>1, LibraryKeeps, AnswersKeep, BusKeeps DEF Next

\* The invariant holds in every state of the shim.
THEOREM SpecIInv == Spec => []IInv
<1>1. Init => IInv
  BY InitIInv
<1>2. IInv /\ [Next]_vars => IInv'
  BY NextKeeps
<1>3. QED BY <1>1, <1>2, PTL DEF Spec

\* A transfer goes to the device its handle was opened for, however often the list was made
\* anew since (libusb_control_transfer, libusb_bulk_transfer).
THEOREM SpecUsesWhatWasOpened == Spec => UsesWhatWasOpened
<1> DEFINE Used == \A h \in Handles, d \in Devices :
                     TransferBegins(h) /\ queue'[d] # queue[d] => d = boundTo[h]
<1>1. ASSUME IInv
      PROVE  Used
  <2>1. SUFFICES ASSUME NEW h \in Handles, NEW d \in Devices,
                        TransferBegins(h), queue'[d] # queue[d]
                 PROVE  d = boundTo[h]
    OBVIOUS
  <2>2. h \in DOMAIN handles /\ d = handles[h]
    BY <1>1, <2>1, UsbAssumption DEF TransferBegins, Target, IInv
  <2>3. QED BY <1>1, <2>2 DEF IInv, HandlesBound
<1>2. IInv => [Used]_vars
  BY <1>1
<1>3. QED BY <1>2, SpecIInv, PTL DEF UsesWhatWasOpened
-----------------------------------------------------------------------------
(* Types.                                                                  *)

\* What the page and the browser know of: devices that have come and are still there.
PageOK ==
  /\ fresh \subseteq Devices /\ There \subseteq Devices \ fresh
  /\ opened \union configured \union claimed \subseteq There
  /\ \A i \in DOMAIN devices : devices[i] \in Ours

\* Both tables have the open handles.
TablesOK ==
  /\ DOMAIN handles = DOMAIN handle_device_map
  /\ \A h \in DOMAIN handles : handles[h] \in Devices

\* Transfers have the numbers of the calls that made them.
QueueOK ==
  /\ queue \in [Devices -> Seq(Nat)]
  /\ \A d \in Devices : \A i \in DOMAIN queue[d] : queue[d][i] \in 1..calls

\* A handle takes a call, and the one under way has not got its handle yet.
CallOK ==
  /\ DOMAIN call = DOMAIN NoCall
  /\ call.on \in Devices \union {NoDevice} /\ call.attempt \in 0..MaxAttempts
  /\ calls \in 0..MaxCalls
  /\ next_handle_id <= calls + 1
  /\ call.op = "open" => next_handle_id <= calls

\* The buffer has the data of a transfer there was.
BufferOK == buffer.from \in Devices \union {NoDevice} /\ buffer.number \in 0..calls

\* The inductive invariant of the types.
TInv == IInv /\ PageOK /\ TablesOK /\ QueueOK /\ CallOK /\ BufferOK

\* The shim starts with nothing.
LEMMA InitTInv ==
  ASSUME Init
  PROVE  TInv
<1>1. IInv
  BY InitIInv
<1>2. PageOK
  BY DEF Init, PageOK, There
<1>3. TablesOK
  BY DEF Init, TablesOK
<1>4. QueueOK
  BY DEF Init, QueueOK
<1>5. CallOK
  BY UsbAssumption DEF Init, CallOK, NoCall
<1>6. BufferOK
  BY DEF Init, BufferOK
<1>7. QED BY <1>1, <1>2, <1>3, <1>4, <1>5, <1>6 DEF TInv

\* The library's calls leave the page's state alone.
LEMMA LibraryPage ==
  ASSUME PageOK, Library
  PROVE  PageOK'
<1>1. UNCHANGED <<pageVars, listVars, browserVars>>
  BY DEF Library, GetDeviceList, OpenDevice, CloseDevice, GetConfiguration, TransferBegins,
         SetConfiguration, ClaimInterface, ReleaseInterface, ResetDevice, HandleCall,
         StandardRequest
<1>2. QED BY <1>1 DEF PageOK, There, pageVars, listVars, browserVars

\* A list is of devices that are there and Ingenic's.
LEMMA ListedOurs ==
  ASSUME NEW list \in Lists, NEW i \in DOMAIN list
  PROVE  list[i] \in Ours
BY DEF Lists, SetToSeqs, Candidates

\* The browser's answers open, configure and claim what is there.
LEMMA AnswersPage ==
  ASSUME PageOK, Answers
  PROVE  PageOK'
<1>1. UNCHANGED pageVars
  BY DEF Answers, ListAgain, Listed, Opened, OpenFailed, Configured, Claimed,
         ReleasedOrReset, AlternateSelected, TransferTimesOut
<1>2. opened' \union configured' \union claimed' \subseteq There
  BY DEF Answers, ListAgain, Listed, Opened, OpenFailed, Configured, Claimed,
         ReleasedOrReset, AlternateSelected, TransferTimesOut, browserVars, Able, PageOK
<1>3. \A i \in DOMAIN devices' : devices'[i] \in Ours
  <2>1. CASE Listed
    BY <2>1, ListedOurs DEF Listed
  <2>2. CASE ~Listed
    BY <2>2 DEF Answers, ListAgain, Opened, OpenFailed, Configured, Claimed,
                ReleasedOrReset, AlternateSelected, TransferTimesOut, listVars, PageOK
  <2>3. QED BY <2>1, <2>2
<1>4. QED BY <1>1, <1>2, <1>3 DEF PageOK, There, pageVars

\* A device comes once, and takes with it what was opened of it.
LEMMA BusPage ==
  ASSUME PageOK, Bus
  PROVE  PageOK'
<1>1. PICK d \in Devices :
        \/ TransferDone(d) \/ TransferRejected(d)
        \/ DeviceAppears(d) \/ DevicePicked(d) \/ DeviceGone(d)
  BY DEF Bus
<1>2. UNCHANGED devices
  BY <1>1 DEF TransferDone, TransferRejected, DeviceAppears, DevicePicked, DeviceGone, listVars
<1>3. CASE TransferDone(d) \/ TransferRejected(d)
  BY <1>3 DEF TransferDone, TransferRejected, pageVars, listVars, browserVars, PageOK, There
<1>4. CASE DeviceAppears(d) \/ DevicePicked(d)
  BY <1>2, <1>4 DEF DeviceAppears, DevicePicked, browserVars, PageOK, There
<1>5. CASE DeviceGone(d)
  BY <1>2, <1>5 DEF DeviceGone, PageOK, There
<1>6. QED BY <1>1, <1>3, <1>4, <1>5

\* Every step keeps the two tables together.
LEMMA NextTables ==
  ASSUME TInv, Next
  PROVE  TablesOK'
<1>1. CASE Opened
  <2>1. call.on \in Devices
    BY <1>1 DEF Opened, TInv, PageOK
  <2>2. QED BY <1>1, <2>1 DEF Opened, TInv, TablesOK
<1>2. CASE \E h \in Handles : CloseDevice(h)
  BY <1>2 DEF CloseDevice, TInv, TablesOK
<1>3. CASE ~Opened /\ ~\E h \in Handles : CloseDevice(h)
  <2>1. UNCHANGED handleVars
    <3>1. CASE Library
      BY <1>3, <3>1 DEF Library, GetDeviceList, OpenDevice, GetConfiguration, TransferBegins,
                        SetConfiguration, ClaimInterface, ReleaseInterface, ResetDevice,
                        HandleCall, StandardRequest
    <3>2. CASE Answers
      BY <1>3, <3>2 DEF Answers, ListAgain, Listed, OpenFailed, Configured, Claimed,
                        ReleasedOrReset, AlternateSelected, TransferTimesOut
    <3>3. CASE Bus
      BY <3>3 DEF Bus, TransferDone, TransferRejected, DeviceAppears, DevicePicked, DeviceGone
    <3>4. QED BY <3>1, <3>2, <3>3 DEF Next
  <2>2. QED BY <2>1 DEF handleVars, TInv, TablesOK
<1>4. QED BY <1>1, <1>2, <1>3

\* The number of calls only grows.
LEMMA CallsGrow ==
  ASSUME CallOK, Next
  PROVE  calls' \in {calls, calls + 1}
<1>1. CASE Library
  BY <1>1 DEF Library, GetDeviceList, OpenDevice, CloseDevice, GetConfiguration,
              TransferBegins, SetConfiguration, ClaimInterface, ReleaseInterface,
              ResetDevice, HandleCall, StandardRequest, Begin, AtOnce
<1>2. CASE Answers
  BY <1>2 DEF Answers, ListAgain, Listed, Opened, OpenFailed, Configured, Claimed,
              ReleasedOrReset, AlternateSelected, TransferTimesOut
<1>3. CASE Bus
  BY <1>3 DEF Bus, TransferDone, TransferRejected, DeviceAppears, DevicePicked, DeviceGone
<1>4. QED BY <1>1, <1>2, <1>3 DEF Next

\* What a transfer is appended to, or taken from.
LEMMA QueueAppended ==
  ASSUME NEW d \in Devices, NEW n \in Nat, QueueOK, calls = n, calls' = n + 1,
         queue' = [queue EXCEPT ![d] = Append(@, n + 1)]
  PROVE  QueueOK'
<1>1. queue' \in [Devices -> Seq(Nat)]
  BY DEF QueueOK
<1>2. ASSUME NEW e \in Devices, NEW i \in DOMAIN queue'[e]
      PROVE  queue'[e][i] \in 1..(n + 1)
  <2>1. CASE e # d
    BY <2>1, <1>2 DEF QueueOK
  <2>2. CASE e = d
    <3>1. queue[d] \in Seq(Nat) /\ queue'[d] = Append(queue[d], n + 1)
      BY DEF QueueOK
    <3>2. CASE i = Len(queue[d]) + 1
      BY <2>2, <3>1, <3>2
    <3>3. CASE i \in DOMAIN queue[d]
      BY <2>2, <3>1, <3>3 DEF QueueOK
    <3>4. QED BY <1>2, <2>2, <3>1, <3>2, <3>3
  <2>3. QED BY <2>1, <2>2
<1>3. QED BY <1>1, <1>2 DEF QueueOK

LEMMA QueueTaken ==
  ASSUME NEW d \in Devices, QueueOK, calls' = calls, queue[d] # << >>,
         queue' = [queue EXCEPT ![d] = Tail(@)]
  PROVE  QueueOK'
<1>1. queue[d] \in Seq(Nat)
  BY DEF QueueOK
<1>2. /\ Tail(queue[d]) \in Seq(Nat)
      /\ \A i \in DOMAIN Tail(queue[d]) :
           i + 1 \in DOMAIN queue[d] /\ Tail(queue[d])[i] = queue[d][i + 1]
  BY <1>1
<1>3. queue' \in [Devices -> Seq(Nat)]
  BY <1>2 DEF QueueOK
<1>4. ASSUME NEW e \in Devices, NEW i \in DOMAIN queue'[e]
      PROVE  queue'[e][i] \in 1..calls
  BY <1>2, <1>4 DEF QueueOK
<1>5. QED BY <1>3, <1>4 DEF QueueOK

\* Every step keeps the queues.
LEMMA NextQueue ==
  ASSUME TInv, Next
  PROVE  QueueOK'
<1>1. calls \in Nat /\ calls' \in {calls, calls + 1}
  BY CallsGrow DEF TInv, CallOK
<1>2. ASSUME queue' = queue
      PROVE  QueueOK'
  BY <1>1, <1>2 DEF TInv, QueueOK
<1>3. ASSUME NEW h \in Handles, TransferBegins(h)
      PROVE  QueueOK'
  <2>1. CASE Target(h) = NoDevice
    BY <1>2, <1>3, <2>1 DEF TransferBegins
  <2>2. CASE Target(h) # NoDevice
    <3>1. Target(h) \in Devices
      BY <2>2 DEF Target, TInv, TablesOK
    <3>2. calls' = calls + 1 /\ queue' = [queue EXCEPT ![Target(h)] = Append(@, calls + 1)]
      BY <1>3, <2>2 DEF TransferBegins, Begin
    <3>3. QED BY <1>1, <3>1, <3>2, QueueAppended DEF TInv
  <2>3. QED BY <2>1, <2>2
<1>4. ASSUME NEW d \in Devices, TransferDone(d) \/ TransferRejected(d)
      PROVE  QueueOK'
  <2>1. queue[d] # << >> /\ queue' = [queue EXCEPT ![d] = Tail(@)] /\ calls' = calls
    BY <1>4 DEF TransferDone, TransferRejected
  <2>2. QED BY <2>1, QueueTaken DEF TInv
<1>5. CASE Library
  BY <1>2, <1>3, <1>5 DEF Library, GetDeviceList, OpenDevice, CloseDevice, GetConfiguration,
       SetConfiguration, ClaimInterface, ReleaseInterface, ResetDevice, HandleCall,
       StandardRequest
<1>6. CASE Answers
  BY <1>2, <1>6 DEF Answers, ListAgain, Listed, Opened, OpenFailed, Configured, Claimed,
       ReleasedOrReset, AlternateSelected, TransferTimesOut
<1>7. CASE Bus
  BY <1>2, <1>4, <1>7 DEF Bus, DeviceAppears, DevicePicked, DeviceGone
<1>8. QED BY <1>5, <1>6, <1>7 DEF Next

\* A call that begins, and one that is over at once.
LEMMA BeginCall ==
  ASSUME NEW op, NEW d \in Devices \union {NoDevice}, CallOK, next_handle_id \in Nat,
         Idle, Begin(op, d), next_handle_id' = next_handle_id
  PROVE  CallOK'
<1>1. /\ DOMAIN call' = DOMAIN NoCall
      /\ call'.on = d /\ call'.attempt = 0
  BY DEF Begin, NoCall
<1>2. QED BY <1>1, UsbAssumption DEF CallOK, Begin, Idle

LEMMA AtOnceCall ==
  ASSUME NEW result, CallOK, next_handle_id \in Nat,
         Idle, AtOnce(result), next_handle_id' = next_handle_id
  PROVE  CallOK'
<1>1. /\ DOMAIN call' = DOMAIN NoCall
      /\ call'.on = NoDevice /\ call'.attempt = 0 /\ call'.op = "returned"
  BY DEF AtOnce, NoCall
<1>2. QED BY <1>1, UsbAssumption DEF CallOK, AtOnce, Idle

\* One that returns.
LEMMA ReturnCall ==
  ASSUME NEW result, CallOK, next_handle_id \in Nat, Return(result), calls' = calls,
         \/ next_handle_id' = next_handle_id
         \/ call.op = "open" /\ next_handle_id' = next_handle_id + 1
  PROVE  CallOK'
<1>1. /\ DOMAIN call' = DOMAIN call /\ call'.op = "returned"
      /\ call'.on = call.on /\ call'.attempt = call.attempt
  BY DEF Return, CallOK, NoCall
<1>2. QED BY <1>1 DEF CallOK

\* The library's calls are counted.
LEMMA LibraryCall ==
  ASSUME TInv, Library
  PROVE  CallOK'
<1>1. next_handle_id \in Nat /\ next_handle_id' = next_handle_id
  BY DEF TInv, IInv, HandlesBound, Library, GetDeviceList, OpenDevice, CloseDevice,
         GetConfiguration, TransferBegins, SetConfiguration, ClaimInterface,
         ReleaseInterface, ResetDevice, HandleCall, StandardRequest, handleVars
<1>2. \A h \in Handles : Target(h) \in Devices \union {NoDevice}
  BY DEF Target, TInv, TablesOK
<1>3. \A i \in DOMAIN devices : devices[i] \in Devices
  BY UsbAssumption DEF TInv, PageOK
<1>4. Idle
  BY DEF Library, GetDeviceList, OpenDevice, CloseDevice, GetConfiguration, TransferBegins,
         SetConfiguration, ClaimInterface, ReleaseInterface, ResetDevice, HandleCall,
         StandardRequest
<1>5. \/ \E op \in {"list", "open", "configure", "claim", "release", "reset", "alternate",
                 "transfer"},
            d \in Devices \union {NoDevice} : Begin(op, d)
      \/ \E result : AtOnce(result)
  <2>1. \A request \in Standards : Asks(request) \in {"alternate", "configure", "nothing"}
    BY DEF Asks
  <2>2. ASSUME NEW h \in Handles, NEW request \in Standards, StandardRequest(h, request)
        PROVE  \/ \E op \in {"alternate", "configure"} : Begin(op, Target(h))
               \/ \E result : AtOnce(result)
    BY <2>1, <2>2 DEF StandardRequest
  <2>3. CASE \E h \in Handles, request \in Standards : StandardRequest(h, request)
    BY <1>2, <2>2, <2>3
  <2>4. CASE ~\E h \in Handles, request \in Standards : StandardRequest(h, request)
    BY <1>2, <1>3, <2>4 DEF Library, GetDeviceList, OpenDevice, CloseDevice,
       GetConfiguration, TransferBegins, SetConfiguration, ClaimInterface, ReleaseInterface,
       ResetDevice, HandleCall
  <2>5. QED BY <2>3, <2>4
<1>6. QED BY <1>1, <1>4, <1>5, BeginCall, AtOnceCall DEF TInv

\* An answer is to the call under way; a list may be asked for again.
LEMMA AnswersCall ==
  ASSUME TInv, Answers
  PROVE  CallOK'
<1>1. next_handle_id \in Nat /\ CallOK /\ calls' = calls
  BY DEF TInv, IInv, HandlesBound, Answers, ListAgain, Listed, Opened, OpenFailed, Configured,
         Claimed, ReleasedOrReset, AlternateSelected, TransferTimesOut
<1>2. CASE ListAgain
  <2>1. /\ DOMAIN call' = DOMAIN call /\ call'.op = call.op
        /\ call'.on = call.on /\ call'.attempt = call.attempt + 1
        /\ call.op = "list" /\ next_handle_id' = next_handle_id
    BY <1>1, <1>2 DEF ListAgain, CallOK, NoCall, handleVars
  <2>2. QED BY <1>1, <1>2, <2>1, UsbAssumption DEF CallOK, ListAgain, MayRetry
<1>3. CASE ~ListAgain
  <2>1. \/ next_handle_id' = next_handle_id
        \/ call.op = "open" /\ next_handle_id' = next_handle_id + 1
    BY <1>3 DEF Answers, Listed, Opened, OpenFailed, Configured, Claimed, ReleasedOrReset, AlternateSelected,
                TransferTimesOut, handleVars
  <2>2. \E result : Return(result)
    BY <1>3 DEF Answers, Listed, Opened, OpenFailed, Configured, Claimed, ReleasedOrReset, AlternateSelected,
                TransferTimesOut
  <2>3. QED BY <1>1, <2>1, <2>2, ReturnCall
<1>4. QED BY <1>2, <1>3

\* The bus answers a transfer.
LEMMA BusCall ==
  ASSUME TInv, Bus
  PROVE  CallOK'
<1>1. /\ next_handle_id \in Nat /\ CallOK /\ calls' = calls
      /\ next_handle_id' = next_handle_id
  BY DEF TInv, IInv, HandlesBound, Bus, TransferDone, TransferRejected, DeviceAppears,
         DevicePicked, DeviceGone, handleVars
<1>2. call' = call \/ \E result : Return(result)
  BY DEF Bus, TransferDone, TransferRejected, Settle, DeviceAppears, DevicePicked, DeviceGone
<1>3. QED BY <1>1, <1>2, ReturnCall DEF CallOK

\* What is put into the buffer comes out of a queue.
LEMMA NextBuffer ==
  ASSUME TInv, Next
  PROVE  BufferOK'
<1>1. calls \in Nat /\ calls' \in {calls, calls + 1}
  BY CallsGrow DEF TInv, CallOK
<1>2. ASSUME buffer' = buffer
      PROVE  BufferOK'
  BY <1>1, <1>2 DEF TInv, BufferOK
<1>3. ASSUME NEW d \in Devices, TransferDone(d)
      PROVE  BufferOK'
  <2>1. queue[d] \in Seq(Nat) /\ queue[d] # << >>
    BY <1>3 DEF TransferDone, TInv, QueueOK
  <2>2. Head(queue[d]) = queue[d][1] /\ 1 \in DOMAIN queue[d]
    BY <2>1
  <2>3. Head(queue[d]) \in 0..calls'
    BY <1>1, <2>2 DEF TInv, QueueOK
  <2>4. buffer' = buffer \/ buffer' = [from |-> d, number |-> Head(queue[d])]
    BY <1>3 DEF TransferDone
  <2>5. QED BY <1>2, <2>3, <2>4 DEF BufferOK
<1>4. CASE Library
  BY <1>2, <1>4 DEF Library, GetDeviceList, OpenDevice, CloseDevice, GetConfiguration,
       TransferBegins, SetConfiguration, ClaimInterface, ReleaseInterface, ResetDevice,
       HandleCall, StandardRequest
<1>5. CASE Answers
  BY <1>2, <1>5 DEF Answers, ListAgain, Listed, Opened, OpenFailed, Configured, Claimed,
       ReleasedOrReset, AlternateSelected, TransferTimesOut
<1>6. CASE Bus
  BY <1>2, <1>3, <1>6 DEF Bus, TransferRejected, DeviceAppears, DevicePicked, DeviceGone
<1>7. QED BY <1>4, <1>5, <1>6 DEF Next

\* Every step keeps the invariant of the types.
LEMMA NextTInv ==
  ASSUME TInv, [Next]_vars
  PROVE  TInv'
<1>1. IInv'
  BY NextKeeps DEF TInv
<1>2. CASE Next
  <2>1. PageOK'
    BY <1>2, LibraryPage, AnswersPage, BusPage DEF Next, TInv
  <2>2. CallOK'
    BY <1>2, LibraryCall, AnswersCall, BusCall DEF Next
  <2>3. QED BY <1>1, <1>2, <2>1, <2>2, NextTables, NextQueue, NextBuffer DEF TInv
<1>3. CASE UNCHANGED vars
  BY <1>1, <1>3 DEF vars, pageVars, listVars, handleVars, browserVars, TInv, PageOK, There,
                    TablesOK, QueueOK, CallOK, BufferOK
<1>4. QED BY <1>2, <1>3

\* Every variable has its type: in particular the two tables have the same handles, what is
\* opened, configured or claimed is there, and the shim waits for a list no longer than it
\* says (libusb_get_device_list, libusb_open, libusb_close).
THEOREM SpecTypeOK == Spec => []TypeOK
<1>1. TInv => TypeOK
  <2>1. SUFFICES ASSUME TInv
                 PROVE  TypeOK
    OBVIOUS
  <2>2. ToSet(devices) \subseteq Ours /\ ToSet(device_descriptors) \subseteq Ours
    BY <2>1 DEF TInv, IInv, PageOK, ToSet
  <2>3. DOMAIN handles = DOMAIN handle_device_map /\ DOMAIN handles \subseteq Handles
    BY <2>1 DEF TInv, TablesOK, IInv, HandlesBound
  <2>4. next_handle_id \in 1..(MaxCalls + 1) /\ DOMAIN boundTo = Handles
    BY <2>1, UsbAssumption DEF TInv, CallOK, IInv, HandlesBound
  <2>5. QED BY <2>1, <2>2, <2>3, <2>4 DEF TypeOK, TInv, PageOK, QueueOK, CallOK,
                                                  BufferOK
<1>2. Init => TInv
  BY InitTInv
<1>3. TInv /\ [Next]_vars => TInv'
  BY NextTInv
<1>4. QED BY <1>1, <1>2, <1>3, PTL DEF Spec
-----------------------------------------------------------------------------
(* Answers.                                                                *)

\* The library was given the data of its last call, and has not called again.
Given == call.op = "returned" /\ call.number # 0 /\ call.result = Success

\* Transfers wait in the order they were made.
Ordered ==
  \A d \in Devices : \A i, j \in DOMAIN queue[d] : i < j => queue[d][i] < queue[d][j]

\* The last transfer the library asked for is the last call, and waits at its own device.
LastCall ==
  /\ call.op = "transfer" => call.number # 0
  /\ call.number # 0 =>
       /\ call.op \in {"transfer", "returned"} /\ call.number = calls /\ call.on \in Devices
       /\ \A d \in Devices : \A i \in DOMAIN queue[d] : queue[d][i] = call.number => d = call.on

\* The inductive invariant: when it is done, nothing is left of its device's earlier ones.
AnswersOK == Ordered /\ LastCall /\ (Given => queue[call.on] = << >>)

\* A call that is no transfer has no number, when it begins and when it is over.
LEMMA NoNumber ==
  ASSUME AnswersOK, UNCHANGED queue, call'.number = 0, call'.op # "transfer"
  PROVE  AnswersOK'
BY DEF AnswersOK, Ordered, LastCall, Given

\* The library's calls.
LEMMA LibraryAnswers ==
  ASSUME TInv, AnswersOK, Library
  PROVE  AnswersOK'
<1>1. ASSUME NEW h \in Handles, TransferBegins(h), Target(h) # NoDevice
      PROVE  AnswersOK'
  <2> DEFINE d == Target(h)
  <2>1. d \in Devices /\ calls \in Nat
    BY <1>1 DEF Target, TInv, TablesOK, CallOK
  <2>2. /\ call'.op = "transfer" /\ call'.on = d /\ call'.number = calls + 1
        /\ calls' = calls + 1 /\ queue' = [queue EXCEPT ![d] = Append(@, calls + 1)]
    BY <1>1 DEF TransferBegins, Begin, NoCall
  <2>3. queue \in [Devices -> Seq(Nat)]
    BY DEF TInv, QueueOK
  <2>4. \A e \in Devices : \A i \in DOMAIN queue[e] : queue[e][i] <= calls /\ queue[e][i] \in Nat
    BY <2>1 DEF TInv, QueueOK
  <2> HIDE DEF d
  <2>5. /\ \A e \in Devices \ {d} : queue'[e] = queue[e]
        /\ queue'[d] = Append(queue[d], calls + 1)
        /\ DOMAIN queue'[d] = DOMAIN queue[d] \union {Len(queue[d]) + 1}
        /\ queue'[d][Len(queue[d]) + 1] = calls + 1
        /\ \A i \in DOMAIN queue[d] : queue'[d][i] = queue[d][i] /\ i < Len(queue[d]) + 1
    BY <2>1, <2>2, <2>3
  <2>6. Ordered'
    <3>1. SUFFICES ASSUME NEW e \in Devices, NEW i \in DOMAIN queue'[e],
                          NEW j \in DOMAIN queue'[e], i < j
                   PROVE  queue'[e][i] < queue'[e][j]
      BY DEF Ordered
    <3>2. CASE e # d
      BY <2>5, <3>1, <3>2 DEF AnswersOK, Ordered
    <3>3. CASE e = d /\ j = Len(queue[d]) + 1
      <4>1. i \in DOMAIN queue[d]
        BY <2>5, <3>1, <3>3
      <4>2. QED BY <2>1, <2>4, <2>5, <3>3, <4>1
    <3>4. CASE e = d /\ j \in DOMAIN queue[d]
      <4>1. i \in DOMAIN queue[d]
        <5>1. queue[d] \in Seq(Nat)
          BY <2>1, <2>3
        <5>2. QED BY <2>5, <3>1, <3>4, <5>1
      <4>2. QED BY <2>1, <2>5, <3>1, <3>4, <4>1 DEF AnswersOK, Ordered
    <3>5. QED BY <2>5, <3>1, <3>2, <3>3, <3>4
  <2>7. LastCall'
    <3>1. ASSUME NEW e \in Devices, NEW i \in DOMAIN queue'[e], queue'[e][i] = calls + 1
          PROVE  e = d
      BY <2>1, <2>4, <2>5, <3>1
    <3>2. QED BY <2>1, <2>2, <3>1 DEF LastCall
  <2>8. QED BY <2>2, <2>6, <2>7 DEF AnswersOK, Given
<1>2. ASSUME UNCHANGED queue, \/ \E op, e : op # "transfer" /\ Begin(op, e)
                              \/ \E result : AtOnce(result)
      PROVE  AnswersOK'
  BY <1>2, NoNumber DEF Begin, AtOnce, NoCall
<1>3. ASSUME NEW h \in Handles, NEW request \in Standards, StandardRequest(h, request)
      PROVE  AnswersOK'
  <2>1. Asks(request) \in {"alternate", "configure", "nothing"}
    BY DEF Asks
  <2>2. UNCHANGED queue /\ (\/ Asks(request) # "transfer" /\ Begin(Asks(request), Target(h))
                            \/ \E result : AtOnce(result))
    BY <1>3, <2>1 DEF StandardRequest
  <2>3. QED BY <1>2, <2>2
<1>4. ASSUME NEW h \in Handles, NEW op \in {"configure", "claim", "release", "reset"},
             HandleCall(op, h)
      PROVE  AnswersOK'
  <2>1. UNCHANGED queue /\ (\/ op # "transfer" /\ Begin(op, Target(h))
                            \/ \E result : AtOnce(result))
    BY <1>4 DEF HandleCall
  <2>2. QED BY <1>2, <2>1
<1>5. CASE GetDeviceList \/ \E dev_ptr \in 1..Cardinality(Devices) : OpenDevice(dev_ptr)
  <2>1. UNCHANGED queue /\ (\/ \E op, e : op # "transfer" /\ Begin(op, e)
                            \/ \E result : AtOnce(result))
    BY <1>5 DEF GetDeviceList, OpenDevice
  <2>2. QED BY <1>2, <2>1
<1>6. ASSUME NEW h \in Handles, CloseDevice(h) \/ GetConfiguration(h) \/ TransferBegins(h)
      PROVE  AnswersOK'
  <2>1. CASE CloseDevice(h)
    BY <1>2, <2>1 DEF CloseDevice
  <2>2. CASE GetConfiguration(h)
    BY <1>2, <2>2 DEF GetConfiguration
  <2>3. CASE TransferBegins(h)
    <3>1. CASE Target(h) = NoDevice
      BY <1>2, <2>3, <3>1 DEF TransferBegins
    <3>2. CASE Target(h) # NoDevice
      BY <1>1, <2>3, <3>2
    <3>3. QED BY <3>1, <3>2
  <2>4. QED BY <1>6, <2>1, <2>2, <2>3
<1>7. ASSUME NEW h \in Handles, \/ SetConfiguration(h) \/ ClaimInterface(h)
                               \/ ReleaseInterface(h) \/ ResetDevice(h)
      PROVE  AnswersOK'
  BY <1>4, <1>7 DEF SetConfiguration, ClaimInterface, ReleaseInterface, ResetDevice
<1>8. QED BY <1>3, <1>5, <1>6, <1>7 DEF Library

\* The answers that are no transfer's.
LEMMA AnswersAnswers ==
  ASSUME TInv, AnswersOK, Answers
  PROVE  AnswersOK'
<1>1. UNCHANGED <<queue, calls>> /\ DOMAIN call = DOMAIN NoCall
  BY DEF Answers, ListAgain, Listed, Opened, OpenFailed, Configured, Claimed, ReleasedOrReset,
         AlternateSelected, TransferTimesOut, TInv, CallOK
<1>2. CASE TransferTimesOut
  <2>1. call' = [call EXCEPT !.op = "returned", !.result = TimedOut]
    BY <1>2 DEF TransferTimesOut, Return
  <2>2. call'.op = "returned" /\ call'.result = TimedOut /\ call'.on = call.on
        /\ call'.number = call.number
    BY <1>1, <2>1 DEF NoCall
  <2>3. QED BY <1>1, <2>2 DEF AnswersOK, Ordered, LastCall, Given, TimedOut, Success
<1>3. CASE ~TransferTimesOut
  <2>1. call.op \notin {"transfer", "returned"}
    BY <1>3 DEF Answers, ListAgain, Listed, Opened, OpenFailed, Configured, Claimed,
                ReleasedOrReset, AlternateSelected
  <2>2. call.number = 0
    BY <2>1 DEF AnswersOK, LastCall
  <2>3. call' = [call EXCEPT !.attempt = @ + 1] \/ \E result : Return(result)
    BY <1>3 DEF Answers, ListAgain, Listed, Opened, OpenFailed, Configured, Claimed,
                ReleasedOrReset, AlternateSelected
  <2>4. call'.number = 0 /\ call'.op # "transfer"
    BY <1>1, <2>1, <2>2, <2>3 DEF NoCall, Return
  <2>5. QED BY <1>1, <2>4, NoNumber
<1>4. QED BY <1>2, <1>3

\* A transfer that ends: if it is the one that was waited for, it was its device's last.
LEMMA EndedAnswers ==
  ASSUME TInv, AnswersOK, NEW d \in Devices, queue[d] # << >>, calls' = calls,
         queue' = [queue EXCEPT ![d] = Tail(@)],
         IF Awaits(Head(queue[d])) THEN \E result : Return(result) ELSE UNCHANGED call
  PROVE  AnswersOK'
<1>1. queue[d] \in Seq(Nat) /\ queue \in [Devices -> Seq(Nat)] /\ calls \in Nat
      /\ DOMAIN call = DOMAIN NoCall
  BY DEF TInv, QueueOK, CallOK
<1>2. /\ \A e \in Devices \ {d} : queue'[e] = queue[e]
      /\ queue'[d] = Tail(queue[d])
      /\ \A i \in DOMAIN queue'[d] :
           /\ i \in Nat /\ i + 1 \in DOMAIN queue[d] /\ queue'[d][i] = queue[d][i + 1]
      /\ Head(queue[d]) = queue[d][1] /\ 1 \in DOMAIN queue[d]
  BY <1>1
<1>3. Ordered'
  <2>1. SUFFICES ASSUME NEW e \in Devices, NEW i \in DOMAIN queue'[e],
                        NEW j \in DOMAIN queue'[e], i < j
                 PROVE  queue'[e][i] < queue'[e][j]
    BY DEF Ordered
  <2>2. CASE e # d
    BY <1>2, <2>1, <2>2 DEF AnswersOK, Ordered
  <2>3. CASE e = d
    <3>1. i + 1 < j + 1
      BY <1>2, <2>1, <2>3
    <3>2. QED BY <1>2, <2>3, <3>1 DEF AnswersOK, Ordered
  <2>4. QED BY <2>2, <2>3
<1>4. \A e \in Devices : \A i \in DOMAIN queue'[e] :
        \E k \in DOMAIN queue[e] : queue'[e][i] = queue[e][k]
  BY <1>2
<1>5. CASE Awaits(Head(queue[d]))
  <2>1. /\ call.op = "transfer" /\ call.number = queue[d][1] /\ call.number # 0
        /\ call.number = calls /\ call.on = d
    BY <1>2, <1>5 DEF Awaits, AnswersOK, LastCall
  <2>2. call'.op = "returned" /\ call'.on = call.on /\ call'.number = call.number
    BY <1>1, <1>5 DEF Return, NoCall
  <2>3. queue'[d] = << >>
    <3>1. ASSUME 2 \in DOMAIN queue[d]
          PROVE  FALSE
      <4>1. queue[d][1] < queue[d][2]
        BY <1>2, <3>1 DEF AnswersOK, Ordered
      <4>2. queue[d][2] <= calls /\ queue[d][2] \in Nat /\ queue[d][1] = calls
        BY <1>1, <2>1, <3>1 DEF TInv, QueueOK
      <4>3. QED BY <1>1, <4>1, <4>2
    <3>2. Len(queue[d]) = 1
      <4>1. PICK n \in Nat : Len(queue[d]) = n /\ DOMAIN queue[d] = 1..n
        BY <1>1
      <4>2. n = 1
        BY <1>2, <3>1, <4>1
      <4>3. QED BY <4>1, <4>2
    <3>3. QED BY <1>1, <1>2, <3>2
  <2>4. LastCall'
    BY <1>4, <2>1, <2>2 DEF AnswersOK, LastCall
  <2>5. QED BY <1>3, <2>1, <2>2, <2>3, <2>4 DEF AnswersOK
<1>6. CASE ~Awaits(Head(queue[d]))
  <2>1. UNCHANGED call
    BY <1>6
  <2>2. LastCall'
    BY <1>4, <2>1 DEF AnswersOK, LastCall
  <2>3. Given => queue'[call.on] = << >>
    <3>1. SUFFICES ASSUME Given PROVE queue'[call.on] = << >>
      OBVIOUS
    <3>2. queue[call.on] = << >> /\ call.on \in Devices
      BY <3>1 DEF AnswersOK, LastCall, Given
    <3>3. QED BY <1>2, <3>2
  <2>4. QED BY <1>3, <2>1, <2>2, <2>3 DEF AnswersOK, Given
<1>7. QED BY <1>5, <1>6

\* Every step keeps transfers in order.
LEMMA NextAnswers ==
  ASSUME TInv, AnswersOK, [Next]_vars
  PROVE  AnswersOK'
<1>1. ASSUME NEW d \in Devices, TransferDone(d) \/ TransferRejected(d)
      PROVE  AnswersOK'
  <2>1. /\ queue[d] # << >> /\ calls' = calls /\ queue' = [queue EXCEPT ![d] = Tail(@)]
        /\ IF Awaits(Head(queue[d])) THEN \E result : Return(result) ELSE UNCHANGED call
    BY <1>1 DEF TransferDone, TransferRejected, Settle
  <2>2. QED BY <2>1, EndedAnswers
<1>2. ASSUME UNCHANGED <<queue, call, calls>>
      PROVE  AnswersOK'
  BY <1>2 DEF AnswersOK, Ordered, LastCall, Given
<1>3. CASE Bus
  BY <1>1, <1>2, <1>3 DEF Bus, DeviceAppears, DevicePicked, DeviceGone
<1>4. CASE UNCHANGED vars
  BY <1>2, <1>4 DEF vars
<1>5. QED BY <1>3, <1>4, LibraryAnswers, AnswersAnswers DEF Next

\* What a step does to the buffer: only the end of a transfer touches it.
LEMMA BufferStep ==
  ASSUME [Next]_vars, buffer' # buffer
  PROVE  \E d \in Devices : TransferDone(d) /\ buffer' = [from |-> d, number |-> Head(queue[d])]
<1>1. ~(Library \/ UNCHANGED vars)
  BY DEF Library, GetDeviceList, OpenDevice, CloseDevice, GetConfiguration, TransferBegins,
         SetConfiguration, ClaimInterface, ReleaseInterface, ResetDevice, HandleCall,
         StandardRequest, vars
<1>2. ~Answers
  BY DEF Answers, ListAgain, Listed, Opened, OpenFailed, Configured, Claimed, ReleasedOrReset,
         AlternateSelected, TransferTimesOut
<1>3. QED
  BY <1>1, <1>2 DEF Next, Bus, TransferDone, TransferRejected, DeviceAppears, DevicePicked,
     DeviceGone

\* A transfer's success is told where its data is put.
LEMMA SuccessStep ==
  ASSUME TInv, [Next]_vars, call.op = "transfer", call'.op = "returned", call'.result = Success
  PROVE  \E d \in Devices : /\ TransferDone(d) /\ Awaits(Head(queue[d]))
                           /\ buffer' = [from |-> d, number |-> Head(queue[d])]
<1>1. DOMAIN call = DOMAIN NoCall
  BY DEF TInv, CallOK
<1>2. \A result : Return(result) => call'.result = result
  BY <1>1 DEF Return, NoCall
<1>3. ~(Library \/ UNCHANGED vars)
  BY DEF Library, GetDeviceList, OpenDevice, CloseDevice, GetConfiguration, TransferBegins,
         SetConfiguration, ClaimInterface, ReleaseInterface, ResetDevice, HandleCall,
         StandardRequest, vars, Idle
<1>4. ~Answers
  BY <1>2 DEF Answers, ListAgain, Listed, Opened, OpenFailed, Configured, Claimed,
              ReleasedOrReset, AlternateSelected, TransferTimesOut, Success, TimedOut
<1>5. PICK d \in Devices : TransferDone(d) \/ TransferRejected(d)
  BY <1>3, <1>4 DEF Next, Bus, DeviceAppears, DevicePicked, DeviceGone
<1>6. Awaits(Head(queue[d])) /\ ~TransferRejected(d)
  BY <1>2, <1>5 DEF TransferDone, TransferRejected, Settle, Success, Pipe, IoError, NoSuchDevice
<1>7. QED
  BY <1>2, <1>5, <1>6 DEF TransferDone, Settle, Success, Pipe, IoError

\* A call that ends well has the data of its own transfer, and no late data of the same
\* device comes over it, however many calls were left behind by their timeouts before
\* (libusb_control_transfer, libusb_bulk_transfer).
THEOREM SpecOwnAnswer == Spec => OwnAnswer
<1> DEFINE Own == /\ call.op = "transfer" /\ call'.op = "returned" /\ call'.result = Success
                       => buffer' = [from |-> call.on, number |-> call.number]
                  /\ Given /\ call' = call => buffer' = buffer \/ buffer'.from # call.on
<1>1. Init => TInv /\ AnswersOK
  <2>1. Init => AnswersOK
    BY DEF Init, AnswersOK, Ordered, LastCall, Given, NoCall
  <2>2. QED BY <2>1, InitTInv
<1>2. TInv /\ AnswersOK /\ [Next]_vars => (TInv /\ AnswersOK)'
  BY NextTInv, NextAnswers
<1>3. ASSUME TInv, AnswersOK, [Next]_vars
      PROVE  Own
  <2>1. ASSUME call.op = "transfer", call'.op = "returned", call'.result = Success
        PROVE  buffer' = [from |-> call.on, number |-> call.number]
    <3>1. PICK d \in Devices : /\ TransferDone(d) /\ Awaits(Head(queue[d]))
                              /\ buffer' = [from |-> d, number |-> Head(queue[d])]
      BY <1>3, <2>1, SuccessStep
    <3>2. queue[d] \in Seq(Nat) /\ queue[d] # << >>
      BY <1>3, <3>1 DEF TransferDone, TInv, QueueOK
    <3>3. Head(queue[d]) = queue[d][1] /\ 1 \in DOMAIN queue[d] /\ call.number = queue[d][1]
      BY <3>1, <3>2 DEF Awaits
    <3>4. call.on = d
      BY <1>3, <2>1, <3>3 DEF AnswersOK, LastCall
    <3>5. QED BY <3>1, <3>3, <3>4
  <2>2. ASSUME Given, buffer' # buffer
        PROVE  buffer'.from # call.on
    <3>1. PICK d \in Devices : TransferDone(d) /\ buffer' = [from |-> d, number |-> Head(queue[d])]
      BY <1>3, <2>2, BufferStep
    <3>2. queue[d] # << >> /\ queue[call.on] = << >>
      BY <1>3, <2>2, <3>1 DEF TransferDone, AnswersOK
    <3>3. QED BY <3>1, <3>2
  <2>3. QED BY <2>1, <2>2
<1>4. Own <=> (/\ call.op = "transfer" /\ call'.op = "returned" /\ call'.result = Success
                    => buffer' = [from |-> call.on, number |-> call.number]
               /\ call.op = "returned" /\ call.result = Success /\ call.number # 0 /\ call' = call
                    => buffer' = buffer \/ buffer'.from # call.on)
  BY DEF Given
<1>5. QED BY <1>1, <1>2, <1>3, <1>4, PTL DEF Spec, OwnAnswer
=============================================================================
