# TLA+ models of the LN882H SDK

This directory holds TLA+ specifications of the parts of the LN882H Wi-Fi/BLE
SDK that carry its own logic, TLC configurations that check them on small
instances, and TLAPS proofs of the results that matter most.  Paths below are
relative to the root of the repository.

## 1. The system

The SDK is firmware for a Wi-Fi and BLE microcontroller: a bootloader, drivers,
a FreeRTOS adapter, persistent storage on NOR flash, over-the-air update, an AT
command server on a serial port, network services on top of lwIP, and a BLE
application layer.  Most of the 3388 files are vendored (lwIP, mbedTLS,
FreeRTOS, coreMQTT/HTTP, CMSIS, BLE profiles) or closed libraries; the
components written for this SDK are these.

| component | state | operations | hard behaviour | what makes it correct |
|---|---|---|---|---|
| key/value store, `components/fs/kv` | flash blocks (header tags, item log), RAM index, workspace | `ln_kv_init`, `set`, `get`, `has_key`, `del`, `deinit`, gc | power loss between any two flash writes, torn items, interrupted gc and its redo, gc moving an item during its update, the last fresh block | a durable map; index agrees with flash; no erase loses data; calls return |
| NVDS, `components/fs/nvds` | two data sectors and a flag sector | `ln_nvds_init`, `read`, `write`, set/get functions | power loss in a write; no lock | writes are atomic; never unreadable again |
| OTA agent and bootloader, `components/fota`, `project/bootcode` | app and OTA partitions, upgrade state in NVDS | verify, erase, restore, jump | power loss in a restore; unsupported image types | a valid image can always be booted once both were valid |
| OTA downloader, `components/ln_at_cmd/ota` | sector buffer, static flags | HTTP callback, retry loop | stale flags between attempts, retries, a stream cut anywhere | only a whole, installable image sets DOWNLOAD_OK; what has been received is in its place; what can be written outside the OTA partition is known |
| AT server, `components/ln_at` | line buffer, index, BUSY, semaphores | receive interrupt, transfer task, parser task | parser task against the receiver, lost wakeups | a line is not changed while it is parsed; BUSY ends |
| FIFO and serial, `components/utils/fifo`, `components/serial` | ring buffer | push, pop, flush; putchar, write, flush | several tasks on one port without a lock, full buffer | a queue of bytes; every character is sent once |
| DHCP server, `components/net/dhcpd` | address pool; task flag | discover, request, release; start, stop, configure | repeated and lost messages, stations that leave; start and stop without a lock | two clients never use one address; one server and stops that return, unless the unlocked flag is raced for |
| Wi-Fi manager and AT+CWLAP, `components/wifi/wifi_manager`, `components/ln_at_cmd/wifi` | list of scan results, semaphore, callback | report, expire, change order; scan, print | bound of the list, list handed out unlocked, scan complete after the timeout, two tasks of one priority | sorted, bounded, no duplicates; what can free a node under the walk and use a dead semaphore is known; the command ends |
| power management, `components/utils/power_mgmt` | table of objects | register, veto, sleep | table at its limit | no veto is ignored |
| BLE application, `components/ble/ble_app` | bonded devices with most-recently-used ranks, their copy in the key/value store | connect, pair, encrypt, insert, delete, factory reset | full table, failed stores, repeated pairing | the ranks are 1..n without repetition; a bonded peer gets its key |

How they interact: the application calls `ln_nvds_init` and `ln_kv_port_init` at
start and goes on whatever they return (`project/wifi_mcu_basic_example/app/main.c:45-51`).
System parameters and the BLE bond list live in the key/value store.  The OTA
downloader writes the OTA partition and then the upgrade state in NVDS; the
bootloader reads that state and restores the application.  The AT server runs
commands, among them the downloader, in its parser task.

`PROJECT.json` lists the components, the hazards with their lines, and the
properties that cover each hazard.

## 2. Modules

| module | models | extends / instantiates | instances |
|---|---|---|---|
| `KvIndex`, `LnKv` | key/value store | `KvStore` (abstract) | `MCLnKv` |
| `LnNvds` | NVDS | `NvStore` (abstract) | `MCLnNvds` |
| `OtaFlash`, `OtaAgent`, `OtaDownload`, `Ota` | flash and images, bootloader, downloader, and their composition | `Firmware` (abstract) | `MCOta` |
| `Fifo` | ring buffer | `ByteQueue` (abstract) | with `SerialTx` |
| `SerialTx` | transmit side of a serial port, over the ring buffer | `SerialTx` extends `Fifo` | `MCSerialTx` |
| `AtServer` | AT server | | - |
| `DhcpdTask`, `DhcpPool` | DHCP server task, address pool | | `MCDhcpdTask`, `MCDhcpPool` |
| `ApList`, `AtScan` | scan results, and AT+CWLAP over them | `AtScan` extends `ApList` | `MCAtScan` |
| `BleBond` | bonds of the BLE application | | `MCBleBond` |
| `LnKvProofs`, `LnNvdsProofs`, `OtaProofs`, `AtServerProofs`, `AtScanProofs`, `BleBondProofs` | proofs | the module they are about | |
| `SerialTxProofs` | proofs about `Fifo` and `SerialTx` | `SerialTx` | |
| `DhcpProofs` | proofs about `DhcpPool` and `DhcpdTask` | both | |

A component is used by another through what it promises: `Ota` has the upgrade
state as one atomic variable because `LnNvds` implements `NvStore`; `BleBond` has
the stored list as one variable because `LnKv` implements `KvStore`; `AtServer` has a
sequence for its FIFO because `Fifo` implements `ByteQueue`.

Next, in this order:

1. A failing malloc in the gc of the key/value store.
2. Smartlink provisioning (`ln_smartcfg.c`, `ln_softapcfg.c`).

## 3. The key/value store

### Modules

* `KvIndex` - the RAM index as a record of sets and counters, with one operator
  per inline function of `ln_kv.h`.  Flags and counters are separate, as in the
  code, so that they can disagree.
* `LnKv` - flash, index, control.  `magic`, `gcSrc`, `gcDst`, `gcDone` are the
  blocks whose header has the tag; `items[b]` is the log of block b.  An item
  records offset, size, key, value, `prev_pos` and whether it is live and its
  checksum right.  `pc` is the point the code has reached; `at` is the cursor of
  its loops, `cur` the item found for the request, `gc` the arguments of
  `kv_do_gc` and the point it returns to.
* `KvStore` - the abstract specification: a map, requests applied at once or not
  at all, power loss.
* `MCLnKv` - instances for TLC; `LnKvProofs` - the proofs.

Each action makes at most one write to flash.  `kv_do_gc` is five actions and a
loop (`GcMarkSrc`, `GcMarkDst`, `GcCopy`, `GcErase`, `GcMagic`, `GcMarkDone`);
`ln_kv_init` is `PowerUp`, the scan (`ScanFormat`, `ScanSkip`, `ScanItem`,
`ScanEnd`), `kv_handle_incomplete_gc` (`StatusError`, `NothingToRedo`,
`RedoOnFresh`, `RedoOnDst`, `DstErase`, `DstMagic`) and
`kv_mgr_workspace_locate` (`LocateGc`, `Locate`).  A call is `Call`, the lookup
(`FindSkip`, `FindMiss`, `FindHit`, `WalkNone`), and for a set the search for a
block (`Enter`, `Search...`), the repair of a moved item (`Fix...`), `Save` and
`Discard`.  A walk that only reads is one action per block; it refreshes flags,
free size and counters as the code does.  `kv_lock` serialises the calls, so
there is one request at a time.  `ln_kv_has_key` takes the path of `get`.

`PowerLoss` may happen at any point, and tears the item being written: its header
without the magic, or header and part of the body, the key intact or not.
A program of a single write unit (a tag, a discarded flag) is taken to be atomic,
as the comments at `ln_kv.h:98-103` make any partial tag count as a tag; a block
erase is taken to be atomic.

Dead items keep only their size, because the code reads nothing else of them.
Walking over a torn header programs its discarded flag; the model has it dead from
the start.

### Abstractions and what is left out

A value stands for its bytes and its length class (`BodySize`); a key for its
bytes.  `Cap` units make a block, `Hdr` units an item header.  Left out: failing
malloc and HANGING blocks; errors from the flash driver (`ln_kv_port.c` never
reports one for an erase) and BAD blocks; `KV_ERR_BUF_TOO_SHORT`; values of length
zero, which `ln_kv_set` accepts and `kv_item_hdr_verify` rejects; CRC8
collisions; the debug dump `ln_kv.c:1224-1377`.

### Runs

Bounds: `NBlk = 3` blocks is the least with a source, a destination and a block
for the rest; the shipped partition has four.  `Cap = 4` and `Hdr = 1`: an item of
two units fills half a block, one of three leaves a remainder that is too small
for anything (`kv_blk_is_full`), so all cases of the end of a walk occur.
`CountBound = 3` stops a call when `num_inuse` has drifted past it; a bound of 2
gives the same number of states, so it is never reached.

| run | instance | what it shows |
|---|---|---|
| `kv_main` | 2 keys, 2 values of 2 units | `DurableMap`: `LnKv` implements `KvStore`. `OneIntactCopy`: between calls a key has one live, intact item. `IncompleteGcFixed`: boot leaves no unfinished gc. `EraseKeepsData`: no erase loses an item. |
| `kv_index` | 1 key, values of 2 and 3 units, `AnyLoss` | `IndexAgrees`, `LogsContiguous`, `CountersSound` with logs that end anywhere and a power loss everywhere |
| `kv_full` | 3 keys of 3 units | `DurableMap` in a store that runs full; `Responsive`: boot finishes, calls return |
| `kv_v_gc_redo` | 1 key of 3 units, `AnyLoss` | ends in a counterexample, see below |

`AnyLoss = FALSE` excludes a power loss at two places (`GcInDoubt`): after the
source of a gc was erased and before the gc_done tag is written, and while copying
to a destination that still has the gc_done tag of an earlier gc.  There the code
does lose data, see below; the other runs show that these are the only places.  The
theorems about the index do not need the exclusion; those about copies do.

Fairness (`FairSpec`): weak fairness of the steps of the code itself, which runs to
completion in its task with nothing to wait for but flash.  Calls, power loss and
`deinit` have none.  `Responsive` is conditional on the power not failing for ever.

Symmetry: keys are interchangeable, and so are the two values of equal size; it is
used only in runs without a liveness property.

### Where the code falls short of its comments

* `ln_kv.c:1041`, run `kv_v_gc_redo`.  "we should fix all incomplete gc when kv
  bootup" (`:1027-1030`): a power loss between the erase of the source and the
  gc_done tag leaves the destination, now with the only copies, outside the index;
  `kv_handle_incomplete_gc` returns because no block has gc_src.  Its items are
  still found, because lookups walk every block that is not fresh.  The next
  interrupted gc takes that block for its own destination and formats it.

The others are not runs of their own; where a constant is named, giving it that value
shows the case.

* `:1036`: with `AnyLoss`, two such blocks make every later `ln_kv_init` fail
  (`StatusError`).
* `:182`: with `AnyLoss`, after a failed init the workspace is zero, and a later set
  uses it as a block address.
* `:1420`: with the value `vHuge` of `MCLnKv`, which passes the length checks of
  `ln_kv_set`, an item is written across the end of its block (`LogsContiguous`).
* `:668`: after a gc with nothing to copy the empty destination is declared fresh
  with its tags still set, although a fresh block is "a totally virgin block"
  (`ln_kv.h`); the stale gc_done tag makes a later interruption invisible.  This is
  the second of the two places of `GcInDoubt`.
* `:182`: the last fresh block is given out while a dirty block could be collected,
  when it is the workspace.

### Proofs (`LnKvProofs`)

Theorem `KvInvariant`: `ItemsFit => (Spec => []IndexInv)`, for every number of
blocks, every `Cap > Hdr > 0`, all keys and values and both values of `AnyLoss`.
`ItemsFit` says that every item fits into a block; with `vHuge` the invariant fails,
so it cannot be dropped.  `KvTypeOK`, `KvIndexAgrees`, `KvLogsContiguous` and
`KvCountersSound` follow.

None of the four is inductive alone.  That a write lands right behind the log
(`IndexAgrees`) needs the cached free size to be right for every block a write may
choose, which includes the workspace when it is neither fresh nor in use: hence
`Exhausted`, a block that is neither never looks roomy.  That a gc destination does
not overflow needs `GcState`: what has been copied is no longer than what has been
read, so the copy of the next item ends no later than the item itself.  That the
scan may format a block needs `Formatted`: a block without magic has no tags and an
unfinished gc has left it blank.  `BootState` keeps the blocks of an unfinished gc
out of the index until they are redone; `CallState` carries what the search found
out to the write that relies on it.

The proof has a lemma per operator of `KvIndex` (what it preserves of a good
index), lemmas on logs (append, discard, end), and one per action or group of
actions (`SaveStep`, `CopyStep`, `EraseStep`, `LossStep`, ...), which `KvStep` puts
together.

Theorems `KvIncompleteGcFixed`, `KvOneIntactCopy`, `KvEraseKeepsData` and
`KvDurableMap` have the hypotheses `ItemsFit` and `~AnyLoss`; without the second one they
are false, as the run
`kv_v_gc_redo` shows for the first.  They rest on `CopyInv`, beside the invariant of the
index:

* `FlashShape`: offsets grow along a log, and a block without magic is blank.
* `GcTags`: at every point of a call, a gc, its redo and a boot, which blocks have
  gc_src or an open gc_dst tag; so the tags on flash tell a boot what is left to do.
* `CopyState`: what two live items of one key can be.  Outside gc, scan and discard
  there are none (`Sound`).  During a gc the second is the copy in the destination of
  an item in the source with the same key and value (`Copying`); after an interrupted
  gc every intact item of the destination still has such a twin in the source
  (`Mirrored`), which is why the destination may be formatted.  Between the write and
  the discard of a set the second is the old item, to which `prev_pos` of the new one
  points (`Replacing`), and so it is in front of a scan (`Recoverable`), which also
  has all items with a bad checksum in front of it.
* `FoundState`: a lookup has passed no live item of its key; a set that found none writes
  the only one; a set that found one knows, when it writes, where the item is now,
  also when a gc has moved it in between.

`EraseKeepsData` then says of each of the erases that every item of the block
has its equal elsewhere: in the destination for the source, in the source for the
destination.

Theorem `KvDurableMap` is the refinement: `LnKv` implements the map `KvStore`.  The
value of a key in `KvStore` is what a reader finds, the first live copy in the order of
the blocks, once the store is up; before, it is what the scan of `ln_kv_init` will
leave, the first of the copies that no other supersedes.  The proof does not follow
this choice through the steps.  It shows that nearly everywhere all intact copies of a
key have one value, so that the choice does not matter (`Worth`, `ViewIsSound`), and
then only what a step does to the set of values on flash (`CopyHolds`, `EraseHolds`,
`LossHolds`).  Copies differ in two places, which get an invariant of their own, `ViewInv`:

* `ScanState`: in front of a scan a key has two intact copies at most (`AtMostTwo`), and
  none that the scan has passed supersedes another (`Settled`).  So the scan has one
  pair to decide on, decides at the first of the two that names the other, and what
  is left is the value that was going to be left before (`DecidePair`, `ScanItemView`).
* `OldState`: from lookup to discard, gc in between included, the value that a set
  replaces stays on flash, `kv_item_fix` finds it where gc has put it, and the new
  value is on flash before the old one goes.  So a set changes the map at the discard,
  or at the write when the key is new, and a power loss between write and discard is
  resolved by the next scan, as the old value or the new one: the step `PowerLoss` of
  `KvStore`.

`StepRefines` has a lemma per group of actions: those of `ln_kv_init` are stutters up to
the last, those of gc are stutters, a lookup answers or goes on, `Save` and `Discard`
apply the request.

Only model-checked: `Responsive`, as liveness under fairness is beyond the prover.

## 4. NVDS

`LnNvds` has the two data sectors (`data`, `magic`) and the flag sector (`flag`).
`ln_nvds_write` is `StartWrite`, `EraseTarget`, `MarkTarget`, `Fill` field by field,
`EraseFlag`, `SetFlag`; `ln_nvds_init` either finds the store readable or erases
sector by sector (`InitWipe`, `InitFormat`) and writes the version.  The set
functions write only what differs (`Set`).  A power loss may come between any two
flash writes; it tears the field being written, and a torn flag or magic code reads
as none.  Initially the partition has neither flag nor magic code and any bytes
elsewhere.

Abstractions: the bytes of a sector are `NField` fields that are copied in order;
erased bytes stay erased, as the code skips 0xFF.  Calls are taken to be
serialised by the callers: the code has no lock.  The getters for calibration data
that prefer the flash OTP area are left out.

`nvds` (three fields, three values: one field before, one at and one behind the
written one) checks `AtomicWrites` - `LnNvds` implements `NvStore` - and
`StaysReadable`; `NeverGarbage`, which follows, and the inductive invariant `NvInv` are
proved.  The reason it
works is a small asymmetry: with no flag, `ln_nvds_read` takes sector 2 if it has
its magic code.  So while sector 1 is written the unflagged store still shows the
old content of sector 2, and while sector 2 is written the flag is on sector 1
until sector 2 is complete: erasing the flag is the commit in one case, setting it
in the other.

`LnNvdsProofs` proves all four for every number of fields and every set of values:
`NvInvariant` (one step per action), `NvNeverGarbage` and `NvStaysReadable` from
it, and `NvAtomicWrites`, the refinement: `ContentStep` says what each step does to
the readable content, and each step is then a step of `NvStore` or a stutter.
`NvInv` says that the target of a write is the sector that would not be read
(`Writing`), and how far it is filled (`Filled`).

## 5. Over-the-air update

### Modules

`OtaFlash` is what bootloader and downloader share: the APP partition, the OTA
partition and the cells behind them, images as a header cell and body cells, erase
and program of a sector, and the checks of `ota_image.c`.  A cell holds one unit of
a file and says which release, form (`orig`, `xz`, `diff`, an HTTP error page) and
position it is; a checksum is right exactly for the cells it was computed over.
Programming a cell that is not erased yields `Junk`.

`OtaAgent` is `ota_boot_upgrade` and `restore_image`: `AgentStart` (all the checks
up to the first erase or the jump), `AgentErase` sector by sector, `AgentHeader`,
`AgentCopy`, `AgentVerify`, `AgentSet`, then the application.  `OtaDownload` is the
AT command (`AtHttpOta`), the loop of `http_ota_entry` (`Connect`, `ConnectFails`,
`LoopEnd`, `TaskEnd`), and the HTTP callback (`Receive`, `ReceiveEnd`) with
`ota_persistent_start`, `_write` and `_finish`; the client below it may close early
(`PeerClose`) or fail (`ReadError`) at any chunk.  The static flags
`is_precheck_ok` and `is_ready_to_verify` survive from one download to the next, as
in the code.  `Ota` puts both over one flash: `Agent` runs after a reset, `Download`
while the application runs; `PowerLoss` may come at any step and tears the sector
being erased or programmed (`AgentTorn`, `DlTorn`).  `BleStart` is the command that
sets the idle register and resets: the bootloader then jumps to the image of the OTA
partition without a check (`main.c:84-93`, `pc = "ble"`), and only a power loss, which
clears the register, leads back.

A connection may be closed by the server at every position, the end of the file included
(`PeerClose`): a body without an announced length ends that way
(`httpsclient.c:442-443`, `:1495-1497`), and then all bytes have been counted and no
final callback comes.

The downloader does not ask whether a sector it saves is one of the OTA partition, and
`Save` does not either.  Once a sector behind the partition is written
(`dl = "overrun"`) the model ends: the NVDS is there in the shipped layout, with the
upgrade state in it, and what the device does next depends on image bytes read as
settings.

XZ decompression is `Restored`, which yields the
original unit by unit; the NVDS write of the upgrade state is atomic (section 4).

### The run

The layout of `ota` is like the shipped one: the APP partition (three sectors)
is larger than the OTA partition (two), so that an uncompressed image can be larger than
what it is saved to; one sector behind them.  Two cells to a sector, chunks of one or two
cells, so that chunks end before, at and behind a sector; images span sectors.

The server may answer with a compressed file that fits the partition, the same release
uncompressed, which is larger than it, one that fits uncompressed and fills it exactly
compressed, one that is too large compressed, a difference image and an error page.  Two
power losses, so that the recovery of a recovery is interrupted.

* `Bootable`: at every moment the application is whole, or the state leads the next
  boot to a whole image of a type that can be installed.
* `RunsWholeApp`: the jump, most of whose paths do not check, never reaches a torn
  application.
* `UpgradeIsAtomic`: `Ota` implements `Firmware`, in which a release is staged and
  then replaces the one that runs; power losses are not visible, and a staged release is
  not lost to a second download.
* `BootsToApp`: every boot ends in the application.
* `StreamInOrder`: every unit counted as received is in its place in the partition, or
  waits in the buffer, whatever an earlier attempt left there and however the stream
  ends.
* `OverrunsOnlyUnchecked`: the partition is left only by an uncompressed image, or by a
  file of exactly its size.

Fairness: weak fairness of the boot agent, which runs alone with nothing to wait
for; none for the network, the AT command or the download task.  The number of
power losses is bounded, as with endless ones no boot need finish.

Proofs (`OtaProofs`), for all images, every size of files, sectors, partitions and
chunks, and any number of power losses.  One hypothesis stands for a shortfall listed
below and holds in the runs: `ImagesFillSector`, no image file is smaller than a sector
(`ota_agent.c:330`).

* `OtaInvariant`, and from it `OtaBootable` and `OtaRunsWholeApp`.
  `BootInv` says what a state that promises an upgrade stands for: the OTA partition
  holds a whole installable image (`Pending`), and while the agent restores it, how
  many cells of the application are erased or are already those of the image
  (`AgentProgress`).  `is_precheck_ok` may be left from another download, so the
  invariant does not rely on it: every image header that is ever in the OTA
  partition is of a type that can be installed, and restored it fits the APP partition
  (`OtaHeaderGood`), because only such a file gets beyond its first sector (`DlInv`).
  An overrun writes behind both partitions and so leaves all of this alone.
* `OtaUpgradeIsAtomic`: each step of `Ota` is one of `Firmware` or a stutter.  This is the
  refinement without the fairness of `Firmware`, which only TLC checks.
* `OtaStreamInOrder` and `OtaOverruns`, for files of any size.  `StreamInv` says that the
  sectors written are the file, and by `DlInv` the buffer is what follows them up to the
  position received; a file that leaves the partition has passed the pre-check, so it is
  uncompressed or no larger than the partition.

Where the code falls short of its comments:

* `ln_at_cmd_ota.c:83`: "check file size" compares an uncompressed
  image with the size of the APP partition (1200 KB as shipped), not with that of the
  partition it is saved to (680 KB); the download goes on into what follows.  In the
  same way an image of exactly the size of the partition is followed by one more sector
  (`:187`).  These are the two cases that `OverrunsOnlyUnchecked` leaves, and the states with
  `dl = "overrun"` of the run show both.
* `ln_at_cmd_ota.c:310`: "just download once if everything is ok": when
  the connection is closed, early or to end a body without an announced length, the count
  returned is positive and what came last is still in `temp4K_buf`; the loop ends, the
  file is not whole and there is no "retry if something is wrong" (`:306`).  The image is
  not installed, as its checksum is wrong.  Modelled (`PeerClose`, `LoopEnd`).
* `ota_agent.c:330`: a difference image smaller than a sector, behind a download that
  passed its pre-check, is accepted unchecked, because `is_precheck_ok` is not reset;
  the application is erased before the type is found unsupported (`Bootable`).  In
  the run a difference image fills a sector.
* `ln_at_cmd_ota.c:352`: a bad parameter leaves `httpc_ota_started` set although no
  task runs, and "The ota task has been started!" refuses the command until a reboot.
  Modelled (`AtHttpOta`).
* `:286`: a failure to connect counts as a refused image, so there is no "retry if
  something is wrong" (`:306`).  Modelled (`ConnectFails`, `LoopEnd`).

## 6. FIFO and serial port

`Fifo` has `head` and `tail` as offsets into the buffer, one action per function of
`fifobuf.c`, each a critical section.  `IsByteQueue` - the ring implements `ByteQueue`,
a queue of one byte less than its size that drops what does not fit - is checked by the
run `serial`, in which a ring of three cells is used by three tasks: two bytes wait in any
order of their tasks, around the end of the buffer too, and the ring runs full.

`SerialTxProofs` proves it for every size and every set of bytes, with `PointersInside`,
which is inductive as it stands.  `ContentFacts` says what the bytes between head and tail
are, around the end of the buffer; `PushIsPush`, `PopIsPop` and `FlushIsFlush` show, by
the cases of the wrap, that each step is the abstract one.  `FifoPushKeepsContent` says more
of a push: it never costs a byte that waits.  A tail that caught up with head would make a
full ring empty, which the refinement takes for a flush; in the run it would strand
characters (`DrainedWhenIdle`).

`SerialTx` is `serial_putchar` over the polling driver of the basic example: a task
pushes its character and then empties the FIFO into the UART itself, test, pop and
send being separate steps, over the pointers of `Fifo` themselves.  `wire` counts how often the UART was given each character.

`serial` (a FIFO with two places, three tasks with two characters each, four in all)
checks `IsByteQueue` of the ring below, and `SentOnce`, `DrainedWhenIdle` (nothing is stranded), `DropsOnlyWhenCrowded` (a
character is lost only when more tasks are in `serial_putchar` than the FIFO has
places; with two places and three tasks this happens) and `PutReturns`.  Four characters
move the pointers once around the ring and on, one more than its cells.  No task in the
model calls `fifo_flush`; that it empties the queue is part of the theorem
`FifoIsByteQueue` only.  Fairness: every task in `serial_putchar` goes on.

`SerialTxProofs` proves `TxIsByteQueue`, `TxSentOnce`, `TxDrainedWhenIdle` and
`TxDropsOnlyWhenCrowded` for any finite set of tasks, every ring size and all characters.
`TxInv` has every character in one place (`OnePlace`: in the ring, in the hands of one
task, or sent) and none lost unless it was dropped (`Accounted`).  The idea behind the last
two theorems is `FewerThanTasks`: a task leaves only an empty ring, so each byte in
the ring stands for a task that has pushed since and has not returned.

Where the code falls short: two tasks can pass the emptiness test with one character
left, and the second one sends a NUL (`serial_hw.c:232`; `SentOnce` exempts it);
`serial_flush` looks at the FIFO only, and returns while another task still holds a
character it has popped (`serial.c:131`).

## 7. AT server

`AtServer` has the receive FIFO (`RxIsr`, which empties a full FIFO first, as the
interrupt does), the transfer task (`T...`: wait, read, test BUSY, edit the line, set
BUSY, notify, test for a full buffer) and the parser task (`P...`: wait, parse,
execute, clear the line, clear BUSY).  Characters are a printable one, CR, LF,
escape and backspace.  A command takes any time and ends.  The grammar of
`ln_at_parser.c` and the data transmit mode, which is compiled out, are not modelled.

`at`: lines of four characters, a FIFO of two, semaphores up to two: the FIFO, the
semaphore and the line all reach their limits.  `BusyIsOneParse`
(BUSY, the semaphore and the parser's position always add up to one parse),
`NoLostWakeup`, `LineStable`, `BusyEnds`.  Fairness: both tasks are scheduled; the
interrupt has none.

`AtServerProofs` proves the first three, and the types, for every length of the line, of
the FIFO and limit of the semaphores (`AtBusyIsOneParse`, `AtNoLostWakeup`, `AtLineStable`).
The inductive invariant `AtInv` adds that the transfer task never writes behind the buffer
(`RoomInLine`) and that the IDLE it has read still holds when it acts on it
(`IdleSeen`), as only that task sets BUSY.

Where the code falls short: an end mark typed on its own is kept as the start of the
next line, so that the CR of that line hands it to the parser unfinished
(`ln_at_server.c:572`); a line whose end mark fills the buffer is cleared by the test
for a full buffer, behind the notification (`:587`), which is why `LineStable` exempts
the full line.

## 8. DHCP server

`DhcpdTask` is the life of the server: `dhcpd_stop` and `dhcpd_start` as
`netdev_set_state` calls them, test and assignment of the flag being separate steps,
`dhcpd_curr_config_set`, and the task from its creation to its deletion.  Sockets
and thread creations may fail.  `Servers` bounds the number of tasks created.  Every task
can be preempted between two statements, the server between the reset of the flag and the
deletion of itself too (`dhcpd.c:166-167`): then it deletes its successor and returns from
its task function (`Deleted`).  A history variable, `raced`, notes which of the three races that
the unlocked flag leaves open (`Racing`) have been met; no action depends on it:
two controllers have both found the flag at NOT_CREATED ("start"), two wait for or are
about to stop one server, or one does while the other starts the next ("stop"), a
controller starts a server while the last has reset the flag and not deleted itself
("exit").

`dhcpd` (two controllers, three servers, so that a race can happen and be followed by
another; the configuration is not set at first):

* `OneServer`: two servers are at work only after the race "start".  The other two do not
  lead there.
* `StopReturns`: the wait of `dhcpd_stop` ends, unless one of the races is met.

Fairness: each task is scheduled; the receive timeout of 50 ms takes the server back to
the test of its flag.

Where the code falls short: two controllers can both pass the test of the flag
(`dhcpd.c:186`), the race "start" that `OneServer` exempts, and then there are two servers,
the bug that `CHANGELOG.md:203` lists as fixed; the run reaches such states.  After a race
one of them may poll for ever (`:236`).
A start that is refused because of its configuration leaves the flag set (`:191`;
`FirstConfig = "zero"`).  The configuration is accepted while a new server has not yet run (`:764`),
although `dhcpd_api.h:38` warns to "call it before start dhcpd".

`DhcpPool` is the pool of `ip_allocator.c` with the handlers of `dhcpd.c`, the
release by the Wi-Fi task when a station leaves, and a restart of the AP.  Stations
ask, retransmit, give up, leave and come back; every message may be lost, and what a
station has sent stays in the socket when it has left.  Packets are type, MAC address
and requested address; the server never expires a lease, so there is no time.  The
release for an unknown MAC address dereferences NULL: `Fault` (the device restarts).

`dhcp` (three stations, two addresses, one request at a time in the socket):
`NoSharedAddress`, and `OfferKept`: an offered address is given to another station
only when every address has been given to some station.  Then it may be, so that with
more stations than addresses a station is refused what it was offered (`dhcpd.c:506`,
against the comment "lookup the allocate IP by OFFER phase" above it).
`OneEntryPerMac` and `LeaseHeld` are the facts behind `NoSharedAddress`.

`DhcpProofs` proves both for every pool, every set of stations and every length of
the socket's queue (`PoolNoSharedAddress`, `PoolOfferKept`).  `LeaseHeld` would fail if an
old request of a station with a lease were answered with a NAK, which frees the entry;
`PoolInv` therefore says that whatever is left in the socket of such a station asks for its
lease (`OnlyRenewals`).  That holds when the lease begins because behind a copy of what
the station asks now there are only more copies of it (`CopiesBehind`).  `TaskOneServer`
proves `OneServer` of `DhcpdTask` for any number of controllers and servers, without a
condition; the invariant `TaskInv` counts who is between the test of the flag and the end of
a server: as long as the race "start" has not been met, one controller or one server at
most.
The module names the specification of the task `TaskSpec`, as it has both.

## 9. Scan results and AT+CWLAP

`ApList` is the list with its limit, its life time, its two sort rules and its
enable flag; every operation is one step under the mutex.  A node has the memory
cell it occupies, so that a pointer to a freed one can be told.  `AtScan` adds the
AT task - `ln_at_exec_scan` statement by statement, `output_ap_list` node by node
without the mutex - and the Wi-Fi task with its callbacks.  The library may report
access points at any time while it scans, and complete late or never; the wait has
a timeout.  Both tasks have the priority OS_PRIORITY_NORMAL (`wifi_port.c:477`,
`ln_at_cfg.h:27`), so each can be preempted between any two steps, the callback between its
test and its release too.  A station may connect at any moment, which empties the list
(`wifi_manager.c:209-219`).  The sort rule is changed by the function of the Wi-Fi manager
(`SetRule`), from any task; the AT command for it is compiled out.  A step that uses NULL,
or a freed node whose memory may be in use again, has two outcomes: it goes on, or the AT
task is at "fault" (`AtWaitNull`, `AtWalkFreed`).

`scan` (three access points for a list of two, two strengths, reports that expire
after two ticks):

* `ListSound`, and `ReportLosesTheWeakest`, which needs the list to stay sorted when the
  rule changes.
* `WalkLosesOnlyToCleanup`: while the walk stands on a node, disabling the list keeps reports
  from freeing it, and nothing else does but a station that connects and a change of the
  sort rule, neither of which looks at the enable flag.  These two do: that is where
  `AtWalkFreed` is reached.
* `DeadSemaphoreWindow`: the global points to a semaphore that does not exist only between
  its deletion and the next statement, and no callback can begin there; so a callback
  releases a dead semaphore only when it has tested the pointer before, or tests it in
  this window, and the AT task overtakes it.
* `ScanEnds`: the command ends or has faulted, with fairness of the AT task and of a
  callback that has begun, none of the library.

`AtScanProofs` proves the four safety properties, without a condition, for every list length, set
of access points, strengths and ages: `ScanListSound` and `ScanLosesTheWeakest` with
`ListInv`, which keeps the list sorted whenever the rule is by strength;
`ScanWalkLosesOnlyToCleanup` with `WalkInv`, the list is disabled until the walk has ended;
`ScanDeadSemaphoreWindow` with `SemInv`, which says at which statements the callback is
registered and the pointer set.

## 10. BLE bonds

`BleBond` has the pair list (`addr`, `ltk`, `mru`), its stored copy, and of a
connection the peer, `is_bonded` and the key in `con_env`.  One action per handler:
`Connect`, `Disconnect`, `LtkExch`, `PairingSucceed`, `PairingFailed`, the answer
`Found` to an encryption request, `Delete` (an interface no code in the repository
calls), the two halves of a factory reset, `Reboot`.  Every store may fail, as its
result is ignored; a reboot may come at any point and loads the stored list.  A key
stands for `ltk`, `ediv` and `randnb`.  Peers are external: each remembers the key of
its last pairing and may forget it.

`agreed`, a history variable, is the set of the peers whose last pairing put its key into
the list and the store; no action depends on it.

`bond` (four peers, three bonds, one connection; three bonds are the least in which a
device in the middle of the list is used, four peers the least that overfill it):
`MruRanked`, `OneSlotPerPeer`, `SlotForNewDevice`, `InsertDropsTheLast`, and
`ReconnectsEncrypted`, a peer of the list that has kept its key is answered with it when
it connects again, through repeated and failed pairings, stores that fail, deletions,
factory resets and reboots.  Peers are interchangeable.  Keys are only compared, and the
twelve of the run are one more than can be in use at a time, so that a new key differs from all
others.  Therefore it matters only which keys of the two lists are not those of a peer that
has agreed and not forgotten, and the run identifies states that are alike in
this (`VIEW BondView`).

Three things can set list and peer apart, and `ReconnectsEncrypted` names them:

* its last pairing found it in the list: `ln_ble_dev_insert` moves it to the front and
  keeps the old key (`ln_ble_device_manager.c:121`);
* that pairing was not stored, and a reboot brought the old list back;
* it has the last rank of a full list, and counts as not bonded when it connects
    (`ln_ble_connection_manager.c:195`).  It then pairs again while it is in the list,
  which is the first
  case: from then on the list has a stale key for it.

`BleBondProofs` proves all five for every list length, every finite set of peers, every
set of connections and any number of keys, without a condition.
The ranks alone are not inductive: that the list loses no device but the last one
needs to know that a free slot and a slot of the last rank never exist together, and
that a peer not in use has no slot at all.  `BondInv` has both lists ranked and with
one slot per peer (`GoodList`) - the stored one too, as `Reboot` makes it the list -
and the types of the connection state.  `RoomExists` and `FreeMeansNotLast` are the
pigeonhole arguments: ranks without gaps or ties fill a list whose last rank is in
use.  `AddKeepsRanking`, `UpdateKeepsRanking` and `DeleteKeepsRanking` are the three
rules of `ln_ble_dev_upadte_mru`.

`BondReconnectsEncrypted` needs `KeyInv` beside `BondInv`: both lists agree with every peer
of `agreed` that remembers a key (`AgreeOn`) - also the stored one between the two steps of a
factory reset, which a power loss makes the list again.

## 11. Only model-checked, and not modelled

All liveness properties (`Responsive`, `BootsToApp`, `BusyEnds`, `PutReturns`,
`StopReturns`, `ScanEnds`) are beyond the prover, and so is the fairness in
`UpgradeIsAtomic`.  Every safety property that a passing run checks is also a theorem.

Not modelled:

* power management (`ln_pm.c`): sequential register programming in the idle task
  with interrupts disabled; the objects that vote belong to the closed Wi-Fi
  library;
* smartlink provisioning: `airkiss.c` decodes third-party packets; the channel
  changes of `ln_smartcfg.c` are a candidate;
* system parameters: single keys of the key/value store with defaults;
* the grammar of AT commands, and the commands that parse parameters and make one
  call;
* the partition table, the RTOS adapter, drivers and board support: no state of
  their own, or register access;
* lwIP, mbedTLS, FreeRTOS, the MQTT and HTTP libraries, the BLE stack and profiles:
  third-party code, more than nine tenths of the repository.

## 12. Running

In this directory, `tlc -config <run>.cfg <module>` runs one configuration;
`PROJECT.json` lists runs with their modules.  With two workers `kv_main` takes about four
minutes, `kv_index` and `bond` two, `ota`, `scan` and `dhcpd` one, the others
seconds.  `kv_v_gc_redo` ends in a counterexample.  `tlapm LnKvProofs.tla` checks the proofs of a
module, here in about nine minutes; the other seven (`LnNvdsProofs`, `OtaProofs`,
`SerialTxProofs`, `AtServerProofs`, `DhcpProofs`, `AtScanProofs`, `BleBondProofs`) take
from seconds to a minute each.  The definitions marked "Mutant" are deliberate
faults: each property is violated when the definition it belongs to is replaced by
its mutant.
