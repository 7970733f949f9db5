# Verification of thingino-dfu

thingino-dfu flashes Ingenic camera SoCs over USB. A board in its mask ROM's USB
mode is sent a first stage (SPL) and a U-Boot; that U-Boot comes back on the bus
as a DFU gadget whose alt-settings are read, written or erased. The same C
library (`libtdfu`) is driven by a command line, a network daemon with its
clients, a web page (compiled to WebAssembly over WebUSB) and an Android app.

This directory holds TLA+ modules for that code, TLC configurations that check
them on small instances, and TLAPS proofs for every instance. `PROJECT.json`
maps each definition to the lines it stands for and lists the runs, mutants,
hazards, findings and theorems. Paths below are relative to the repository.

## The system's parts

| Part | State | Operations | Hard because |
|---|---|---|---|
| `libtdfu/src/dfu/dfu.c` | block counter, offset, attempt; the device's DFU state, the open transaction of each alt's entity | write, erase with blank check, read, verify, probe, reboot; each once more after a USB reset | lost answers, transactions left open by earlier operations, two generations of loaders, a 16-bit counter, three nested retry loops |
| `libtdfu/src/bootstrap.c`, `usb/protocol.c`, `core.c` | what was sent, whether stage 1 ran | detect the SoC, load and run two stages | requests retried though they were executed, bulk transfers that fail part-way, a ROM that runs its first stage once |
| `libtdfu/src/usb/device.c`, `manager.c` | handles, the enumeration's records | vendor requests, enumeration, reset, reopen | indices that mean different things to different callers |
| `dfu-remote/main.c`, `ws.c` | the client served, `g_state`, `g_log_client_fd`, a cache of SoCs | one handler per command, over TCP, WebSocket or HTTP | clients that vanish, log frames between answers, a board that re-enumerates meanwhile |
| `cli/main.c`, `cli/remote.c` | flags, one connection | local and remote sessions | several steps that must stop at the first failure; a board changes its identity between two of them |
| `web/src/app.js`, `remote.js`, `inject.js`, `libusb-webusb.js` | the page's state, a lock around the module | attach, detect, boot, read, write, disconnect | events and promises of one board interleaved with those of another |
| `android-jni/tdfu_jni.c` | none of its own | the library's calls on a device opened by the app | it skips the enumeration whose record the library reads |

They meet at four places: front ends call the library and see error codes; the
library speaks USB to the mask ROM or to the gadget, which keep state between
calls and outlive a killed process; clients speak a framed protocol to the
daemon; and the browser's events arrive between any two awaits. What makes each
part correct is stated as properties below; everything that is hard to test is
a hazard in `PROJECT.json`, at its line, with the properties that cover it.

## Modules

**Writing, erasing and reading over DFU.**

- `DfuGadget` - the loader's side (external: it is not in the repository). One
  operator per control transfer, each with the outcomes answered, lost on the
  way, or executed with the answer lost; `wedged` is an EP0 that answers
  nothing until a bus reset, `keepsTxn` an old loader whose ABORT leaves the
  transaction open. Data are block identities; what the last block of a medium
  holds may be shorter (`TailBytes`), and lengths are in bytes.
- `DfuLink` - what every operation of `dfu.c` begins and ends with:
  `dfu_open_device`, `dfu_claim_alt_ex`, `dfu_make_idle`, the GETSTATUS polls
  with their grace, and the reset-and-run-again wrapper. `pc` names the next
  control transfer, so anything can happen between two of them.
- `DfuDownload` (`tdfu_dfu_write_device`), `DfuErase` (`tdfu_dfu_erase_device`),
  `DfuUpload` (`tdfu_dfu_read_device`, `tdfu_dfu_verify_device`) - one operation
  each on top of `DfuLink`; an interruption may end it anywhere and the next
  call starts on whatever it left. `DfuUpload` has the file as stdio does: a
  position that `rewind` may fail to move, an `fwrite` that may be short, and an
  `fclose` that may lose what was buffered. The code looks at the second only.
- `FlashWrite` - what a caller of a write is promised, with USB left out.
  `DfuDownload` implements it under the mapping `Promise`.

**Booting.**

- `MaskRom` - the ROM (external), as `protocol.c` and `bootstrap.c` use it:
  an address, a length, memory, and the one run of stage 1.
- `Bootstrap` - `tdfu_dfu_bootstrap` with `protocol_detect_soc`,
  `bootstrap_load_data_to_memory`, `bootstrap_transfer_data` and the retries of
  `usb_device_vendor_request`, from the desktop's front end and from Android's.

**Remote sessions.**

- `Daemon` - `dfu-remote/main.c`: `dpc` follows the one thread through accept,
  receive, dispatch, the handler's steps and the reply. The library's calls are
  their outcomes, success or failure at any point; a write that "succeeded" need
  not have reached the flash. The board is there, away, or hung.
- `RemoteSession` - the clients: `cli/main.c` with `cli/remote.c` and the
  browser's `remote.js`. `Branch`, `LooksAt` and `Prepare` are the else-if chain
  of remote mode and `remote_prepare_transfer`; `Plan` is the set of requests
  they lead to, `Turn` the order in which the code makes them, and `Due` the
  first one that is left.

**The web page.** JavaScript runs one activation at a time and changes over at an
await, so a step of these modules is what the code runs between two awaits, and a
job in `jobs` is an activation that has reached one; `pc` names what it awaits.

- `WebPageState` - `app.js`' module-scope state, what it enables (`setState`),
  the lock around the WebAssembly module (`wasmCall`), and the boards. Calls that
  look at no lock (`Module.ccall`) are `EnterBare`: they return at once, and
  `crossed` keeps in mind that one came while a call was suspended in the module.
  Only calls that reach a device suspend it (`SuspendPcs`), as the shim says.
- `WebLocal` - the flows of the page's own USB backend: connect, probe, attach
  by itself, bootstrap, read, write with verify and reboot, info, debug. Any call
  may throw (`CallThrew`): the lock is given up, and `Caught` is what the flow's
  catch does. `autoAttachDevice` has none, and `stranded` keeps that in mind as
  long as the page stays in the state it was left in.
- `WebRemote` - the same over a daemon: `remote.js`, the flows that use it, the
  device picker, and the daemon as they see it, with its two ways of counting
  boards.
- `ReleaseProxy` - the worker that release downloads go through.
- `WebPage` - composes them: loading the module, what buttons, files, settings
  and connect events start, flash-from-release, and the specification. The files
  to add are read one at a time (`NextRow`, `RowRead`), each row's fields when the
  loop comes to it; a row that was removed by then may hold whatever a form has in
  its place, which is more than it can hold.
- `Overlay` - `inject.js`, as operators on images: the partition table, where the
  overlay is, and baking files into it on NOR and NAND. `WebPage` uses it for
  what a write sends.
- `WebUsb` - `libusb-webusb.js` between the suspended library and the browser:
  lists, handles, configuration, and transfers raced with their timeouts, whose
  leftovers stay in the browser's queue.

`MC*` modules give the sets TLC runs with, `*_proofs` modules hold the proofs.

## Runs

| Run | Question | Result |
|---|---|---|
| `download` | Two blocks to either program alt of a three-alt gadget, old and new loader, any transfer lost, half done or refused, one interruption | holds: success means flashed, nothing repeated or spliced, no other alt touched, a faultless write succeeds from any leftover, it returns, and it implements `FlashWrite` |
| `download_wrap` | The same with more blocks than block numbers | violated: the test `block != 0` takes block 65536 for block 0 and starts over mid-image |
| `erase` | The token erase, its blank check and its close, with and without the erase alt | holds: success means the boot flash starts blank and the loader is left clean |
| `erase_partial` | Does success mean that the whole chip is blank? | violated: a wipe that died past the first block, and a second token refused silently, pass the check of one block |
| `upload` | Reads and verifies shorter, equal and longer than the medium, to the byte and with a short last block, up to two in a row, with a disk that fails at each call | holds: exact contents up to the block in which the length ends, but for a disk that fails where the code does not look; and a verdict and an offset right both ways |
| `bootrom` | Up to three boots of a T10 or another SoC with every fault of the bus, an interruption and a power cycle | holds: nothing but whole images is run, clean runs boot, every run returns |
| `boot_stub` | Is a T10 never sent the detection program? | violated from Android, where the guard reads a default |
| `sessions` | Two clients, command lines and browsers, at one daemon; killed clients, a restarted daemon, a board that is late, hung or power-cycled | holds: order, atomicity and exit status of sessions; every session ends |
| `web_page` | A page with a board of its user's and two at a daemon's, two activations at a time, any transfer, fetch or command failing, any call throwing, boards plugged in and out | holds: one call of `wasmCall` in the module at a time, every busy state has someone to end it and is ended unless an automatic attach threw in it, and a write that ends well is the image that was picked with the files that were entered, verified if that was asked for as it began |
| `web_entries` | Is every entry to the module serialized? | violated: Bootstrap asks the module for the loader's directory by a bare call while Info is suspended in it |
| `web_attach` | Is a board booted with a loader for its SoC? | violated: a connect event attaches a board without the register probe, so a T32 in its ROM is booted as a T31 |
| `web_usb` | A ROM, the gadget it becomes and a foreign device that come, go, answer late or never | holds: handles stay with their device, a transfer that returns well has its own data and keeps it, every call returns |

The five violated runs state what a comment or a message says; `findings` quotes
it. Two more things the models show have no run of their own. Remote mode of the
command line takes one branch of an else-if chain (`Branches`, `LooksAt`): with
`--host`, `-b -r` never reads and `-b --reboot` never reboots, with exit status 0,
though the usage text offers them. And a call that throws in `autoAttachDevice`
leaves the page in `detecting` with every button disabled.

**Bounds.** `BlockModulus` is 3 where two blocks are sent (the counter never
wraps) and 2 where the wrap is the question. `MaxPolls`, `WriteGrace`,
`EraseGrace`, `IdleTries`, `BulkTries`, `VendorTries` are the code's loop limits
made small but never so small that a branch is lost: each loop can end by its
limit, by its grace and by success. One interruption (`MaxCrashes`; two calls
in a row for `upload`) is enough to reach every state an operation can leave,
because the state of the device is all that a killed process leaves and
`DfuErase`'s `leftovers` and `Init` start from such states directly. `MaxRuns`
is 3: a boot after a boot that was cut short, and one more. `upload` has three blocks of two bytes, in one of its flashes one byte in
the last, and lengths of zero, inside a block, at both ends and past them.
`MaxFrames` lets one log frame be unread before an answer. Two clients are enough for
atomicity, which relates one client to one other.

In `web_page`, `MaxJobs` 2 is two flows meeting at the lock, at the staged file
or at the page's state; `MaxClicks` 4 is what users and boards may do by
themselves: settings opened, changed and saved around a flow, or a file, its
entries, a write and an unplugged board. `MaxPolls` 1 makes the loops that wait
for a gadget (20 and 40 rounds) end both ways. The browser's grants are none or
all as the page is loaded; one local board is what the shim supports ("the local
WebUSB path is single-device"); the daemon has a ROM and a gadget, in that order,
and a board that leaves its host does not return. `web_usb` makes `MaxCalls` 5
calls (list, open, transfer, and two more: a list and an open, or transfers after one
that was left behind), and waits
`MaxAttempts` 1 (16 in the code) round for a re-enumeration. Each object appears
once, as a browser makes a new one for a device plugged in again.

Nothing is symmetric where
liveness is checked, so no symmetry is used.

**Fairness.** The host's steps are weakly fair: a call that runs goes on, as
libusb's synchronous transfers all have timeouts. The device, the bus, faults,
interruptions, users, log output and re-enumeration are not fair. On
the page each activation is weakly fair while it awaits what ends by itself:
transfers and polls, which have timeouts or limits, and answers of the daemon; the
chooser for a USB device is taken to be answered in the end, as nothing else on
the page works meanwhile. The file chooser and the loading of the module are not
relied on. In `WebUsb` the browser settles what is no transfer and timers fire;
a device need never answer. What is no transfer includes SET_INTERFACE and
SET_CONFIGURATION, which the shim passes on to the browser and awaits without a
timer (`libusb-webusb.js:342-349`): that the browser ends them is assumed. In
`RemoteSession` the daemon's thread and each client's are fair separately; that
a client goes on or closes its connection is an assumption the daemon has no
receive timeout to enforce, see the hazard at `dfu-remote/main.c:1132`.
Deadlock checking is off everywhere: calls end, and nobody has to make another.

## Proofs

`DfuDownload_proofs` proves, for every set of alts, size of image below the
number of block numbers, medium, loop limit and number of interruptions:
`TypeOK`, `SuccessMeansFlashed`, `BlocksInPlace`, `RetryOnlyBeforeProgress` and
`WritesOnlyTarget`, and that the download implements `FlashWrite`
(`WriteIsAtomicToCaller`).

`SuccessMeansFlashed` is not inductive: that the final poll's dfuIDLE means the
image is there depends on what every transfer before it found and left.
`IInv` (in `DfuDownload`, and checked by TLC before it was proved) adds, in the
order of the argument:

1. `EntitiesHoldPrefixes`: what an entity has received is a prefix of the image,
   and as long as its transaction says - kept by every request, also those whose
   answer is lost, because a block is only appended at its own offset.
2. `CountersAgree`: the block number is the offset, while numbers do not wrap.
   This is where `FitsBlockNumber` is needed; `download_wrap` shows that the
   retry rule is wrong without it.
3. `OnTarget`: between claim and end the selected alt is the target's.
4. `Sending`, `PollingBlock`, `PollingManifest`: before each transfer the device
   is in the state that transfer needs, or in dfuERROR where the poll will see it;
   in particular a manifest poll finds the whole image received, or flashed.
5. `IdleRounds`, `ResultSettled`: a result exists only when a call has ended.

`InitEstablishes` and `NextKeeps` (one lemma per action) give `Invariance`;
the listed theorems follow from it. For the refinement, `HostWrites` shows that no
step writes behind another alt than the target's and that a call's last step writes
nothing; `HostImplements` maps each step to `Program`, to `Return` or to a stutter,
with `SuccessMeansFlashed` as what `Return` needs. Assumptions are those the modules name:
`AltsAssumption`, `SizeAssumption`, `LinkAssumption`, `NBlocksAssumption`.

That a clean write succeeds (`DownloadCleanWriteSucceeds`) rests on a second
invariant, `CleanRun`, which says of a call that met no fault what is still in its
way: a hung gadget only before the reset (`HangsOnlyAtOpen`), a stale transaction
only on the first attempt (`SecondAttemptIsFresh`, `RefusedOnlyIfStale`), and
never more rounds of `dfu_make_idle` needed than are left (`IdlePath`). It assumes
`IdleTries >= 3`: `RoundsNeeded` is at most 2 and the last round only looks, so
the code's three are just enough; and `NBlocks > 0`, because the final zero-length
DNLOAD of an empty image would be refused in dfuIDLE.

`DfuGadget_proofs` has what the three proofs about transfers share: that a
manifest or a flush leaves every entity's data of its type, arithmetic of
block numbers, and `MakeIdleClean`: on a device that fails nothing, each round of
`dfu_make_idle` brings it nearer to dfuIDLE, whatever state an earlier call left.

`DfuUpload_proofs` proves `ReadIsExact`, `VerdictIsRight` and `TypeOK` for media
whose blocks have numbers of their own (`MediumFits`). The invariant's heart is
`InStep`: while blocks are read, the host's number and total and the entity's
position agree, the file holds the blocks so far (`FileInStep`), and so far all
compare equal and the image goes on (`ImageInStep`), so that the bytes of the block
that comes decide. `AtRest` says that uploads, aborts and resets leave the device in
one of three states, whatever is lost; a retry is then a `FreshAttempt`, whose file
is empty or begins with a piece the first block goes over. A read stops at the
block in which its length ends, as the code looks at the length when a whole block
is written (`StopsAt`), so its file may be longer than was asked for by less than
one block. Excepted from `ReadIsExact`, by `unseen`, are disks that fail at `rewind`
or `fclose`: the code ignores both results, and reports a truncated file as a
success. `UploadCleanAnswers` says that a read without a
fault succeeds and a verify gives its verdict, by the same argument as for writes.

`DfuErase_proofs` proves all of `DfuErase`'s safety properties, assuming that
block 1 is not taken for block 0 (`NumbersDiffer`), and for `CleanEraseSucceeds`
that `dfu_make_idle` has its three rounds. `ProbedBlank` carries the blank first block from the check to
the answer; `CleanPath` says, for an erase that lost nothing so far, what each
way of closing the probe's transaction finds and leaves on both kinds of loader;
`MissingPath` follows a loader without the erase alt; `Entities` and `OnAlt` keep
transactions one block long and on the alt they are for. An erase without a fault
gets past one thing in its way (`OneInTheWay`: a hung gadget, or a transaction left
open on either alt), because the reset of its retry leaves nothing (`NothingLeft`).

`Bootstrap_proofs` proves `TypeOK`, `SentIsStored`, `RomSurvives` and
`CleanBootSucceeds`, for all sizes of the images, units of transfer and numbers of
retries. The four are one invariant, because that the ROM is only given whole
images depends on what every call before left in its memory. `ImageInPlace`: between
two calls of a load, memory holds the image up to the host's offset, unless a unit
was sent twice or there is no DRAM yet. `StubInPlace`: the same for the detection
program and its results. `StageOneOK`: the ROM's one run of stage 1 was spent on
the SPL, but for a T10 that was sent the detection program. `TriesOK` bounds the
requests. A vendor request may be retried though it was executed, so each kind is
also shown to leave what its repetition needs (`Stays` in `RequestKeeps`).
Assumptions
are `ImageAssumption` and `HostAssumption`.

`RemoteSession_proofs` proves `SessionIsAtomic` for any number of clients,
commands and restarts: a connection is queued once, or served, or neither
(`OnePlace`), nothing was done for one that is not yet served (`NothingYet`), and
since the first operation for the one that is served nothing was done for others
(`ServedIsLast`). It also proves `TypeOK`, `StopsAtFailure`, `ExitZeroMeansDone` and
`VerifiedIsStored`, from the invariant `SInv`. A command on its way, or carried
out, may be tried: all that was asked before it was done and nothing failed
(`Fits`, in `SentFits` and `WorkFits`). A connection carries one command and its
answer at a time, also when a client is killed in between (`LineOK`). An answer of
success is on its way only for what was done (`OkComing` in `Kept`), so a step that
is no longer in `todo` was done. From the answer to its write on, the flash is the
client's that is served (`Stored`), as the others are not served. The last three
properties are about the order of a client's steps; `todo` is a set with an order
beside it rather than a sequence, as the provers know nothing of `SelectSeq`.
Assumptions are `ClientsAssumption` and `RequestsAssumption`.

`WebPage_proofs` proves, for every number of activations, boards, images and
clicks, `OneCallAtATime` and `BusyHasOwner`. The invariant adds to them that
`jobs` has a record per slot and that a job is in a call only where its `pc`
is one of a call. Both are about calls that throw as well. `OneCallAtATime` is about
`wasmCall`; the entries that go past it are `web_entries`'. `BusyHasOwner` excepts the
state an attach left that threw (`stranded`), which any step that changes the state
ends. `GoodStep` says what a step of one job may do: leave the lock
alone, take it or queue for it, go from one call straight to the next, or leave
it; and leave the page at rest, or busy with itself, or as it was.
`GoodStepKeeps` shows that this keeps the invariant, and one lemma per flow shows
that each of its ends is such a step. `PageAssumption` is all that is assumed.

`WebUsb_proofs` proves `UsesWhatWasOpened` and `OwnAnswer` for every
set of devices and number of calls: a handle's number is never given twice
(`HandlesBound`), a device's transfers are waiting in the order in which they were
made (`Ordered`), the last one is the library's (`LastCall`), and nothing waits
behind one that was answered (`AnswersOK`). It also
proves `TypeOK`, from `TInv`: a handle's number is never more than the number of
calls (`CallOK`), a transfer has the number of the call that made it (`QueueOK`),
and what is opened, configured or claimed is still there (`PageOK`). What is
granted is a set, and a list any order of it with the page's own devices last
(`Lists`), as `getDevices` promises no order. The assumption is `UsbAssumption`.

`WebPage_proofs` also proves that a bake of `Overlay` that succeeds changes nothing outside the
overlay and leaves exactly the files in it (`InjectOverlayBakes`), for every
image with an overlay partition and any finite set of files; on NAND for images
whose volumes are those of thingino (0 to 3), as the code drops any other. The
last clause of `WroteWhatWasAsked` rests on it.

It proves `WriteDoneIsWhatWasAsked` with it: a write that was alone
and ends well has put what the user asked for on the board the user saw, with
the form's files in it. Its invariant `WInv` follows an image through the
page, and its files from one row to the next. `WritesOK` says of each job what it knows by then: what was picked
(`PickOK`, `PlainOK`), what a bake that is waiting for the module is to make of it
(`BakeOK`), and what a transfer was given (`TransferOK`). A transfer that is not
alone may send another's staged file, so only one that overlapped no other is
claimed anything of: `SetTransfer` marks all those that overlap, and
`AloneIsOnly` says that one without the mark is the only one. `Around` is about
the page's own state, which every job reads: the form, what was chosen, and the
buttons that are only enabled once there is something to write. Assumed is
`PageAssumption`: forms hold finitely many files, and images are images
(`IsImage`).

Last, its `TypeOK` needs both invariants, for `form`, `chosen` and the fields of a job,
and `TypesInv`: what is set on the page (`ModeOK`), the boards (`BoardOK`), the
module, the state and its buttons (`StateOK`, every step of which is a `StateMove`
and a `ModuleMove`), the
daemon's list and the device selected in it (`DeviceOK`), and how often a job has
looked for its gadget (`PollsOK`, every step of which is a `PollsMove`). The device
selected after a search is the least new gadget of the list, which is there as
numbers are well-founded (`LeastIn`); and the list is never empty when its first
device is taken. `PageAssumption` says besides that the daemon's boards are a
sequence.

Liveness under fairness, ENABLED and what recursive definitions compute are
beyond the prover: `WriteReturns`, `PageComesBack`, `CallsReturn` and their like
are model-checked only. Every other property of a passing run is a theorem too.
The five violated properties have no theorem, of course.

## Not modelled, and why

- Byte codecs: frame parsing, authentication, WebSocket framing, payload
  encoding and checksums; the file-system tools `inject.js` calls.
- Tables and text: eFuse words to SoC names, variants, file names and
  directories, progress, logs, translations, dialogs.
- Several boards on one bus, for the library: `usb_manager_find_devices`'
  enumeration, `dfu_open_device`'s index, the daemon's cache of SoCs by port, and
  with them the local mode of the command line, which otherwise makes the same
  library calls as the daemon's handlers. `WebRemote` has the two ways of counting.
- On the page: the list of releases, and the bare call before
  `tdfu_init`'s that is only made with debugging on (`app.js:424`), which `Load` takes
  as always made.
  Rows of added files that are left empty are no rows. Writes that overlap share one staged file; that they
  may is modelled, and `WriteDoneIsWhatWasAsked` is about writes that do not.
- Loading the page across deployments: the service worker (`sw.js`), the stamps on
  the glue's and the module's addresses (`vite.config.js`), and with them the
  dictionaries (`i18n*.js`), whose fixed names are neither stamped nor revalidated.
- Build, packaging and binary loaders. The engines of `inject.js` are loaded on
  first use from `/wasm/` at the host's root (`inject.js:23-27`); `web/build.sh`
  builds them, `.github/workflows/pages.yml` and `build.yml` do not.

Some of what the web modules do is left without a property, because no line of
the repository promises otherwise: settings opened before a transfer and saved in
it make a busy page idle (`SaveSettings`); an unplugged board stays on the page
until the next operation fails (`Unplug`); a gadget that appears while the page
is busy is not attached later (`AutoAttach`); a loader's file that is still being
read as the loaders are cleared is set all the same (`LoaderRead`); the list of a
release's images is narrowed to the SoC known as it was built (`ReleaseChanged`);
a download whose sums cannot be fetched is flashed unchecked, and called verified
in the log (`Verdicts`); the gadget waited for after a bootstrap through the
daemon is any that is new there (`NewGadgets`); and CMD_CANCEL does nothing
(`Daemon`).

`PROJECT.json` has the list part by part. In the modelled parts, memory exhaustion
is one failure among others, a `libusb` call has the outcomes above, and the
daemon of `RemoteSession` serves one board.
