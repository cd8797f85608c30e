# A formal model of rapi-bootloader

TLA+ modules, TLC configurations and TLAPS proofs for the two chain-loaders of
this repository: the **network-loader**, which boots what is pushed to it over
TFTP or HTTP and shares its card over WebDAV, and the **menu-loader**, which boots
the card's kernel with the defaults-string a person picks. Everything is
translated from the source under `src/`; Circle (USB, network, scheduler, FatFs)
is not part of the repository and is modelled from how the code uses it.

## 1. Inventory

| Component | Source | State | Operations | Modules |
|---|---|---|---|---|
| defaults block | `defaultsblock/defaultsblock.*` | the 0x800 block of a staged image | `PatchDefaults` | `DefaultsBlock`, `DefaultsWriter` |
| boot image | `defaultsblock/bootimage.*` | none of its own | `BootImageWithDefaults` | `StagedImage`, `DefaultsWriter` |
| TFTP boot server | `network-loader/tftpbootserver.*` | mode, kernel buffer, offset, hash, inject text, open file, write buffer | nine callbacks of `CTFTPDaemon` | `TftpBootServer` |
| HTTP boot server | `network-loader/httpbootserver.*` | the staged image; `g_bRebootRequested` | `GetContent` | `NetworkLoader` |
| main task | `network-loader/kernel.*` | where `Initialize()` and `Run()` are | `Initialize`, `WaitForNetwork`, `Run`, `QuiesceUSB` | `NetworkLoader`, `NetConfig` |
| network configuration | `network-loader/netconfig.*` | addresses parsed so far, section | `RapiReadNetConfig`, `ParseAddress` | `NetConfig` |
| WebDAV server | `network-loader/webdavserver.*` | per connection: request, buffers, open file; the instance count | listener, worker, seven methods | `WebDav` |
| chain-boot | `chainboot/rapi_chainboot.*` | armed image and size, `s_bLoaderMainReturned`, stub, DTB copy | `EnableChainBoot`, `CaptureDTB`, `IsChainBootEnabled`, `DoChainBoot`, the stub | `NetworkLoader`, `ChainBootHandoff` |
| staging memory | `chainboot/stagealloc.*` | Circle's two heaps | `StageAlloc` | `StagedImage`, `ChainBootHandoff` |
| menu-loader | `menu-loader/kernel.*` | menu position, intents, keyboard, staged image | `Run`, `DrawMenu`, `BootSelection`, two keyboard handlers | `MenuLoader` |
| boot menu file | `menu-loader/bootmenu.*` | labels and strings | `Load`, `ParseLine` | `BootMenu`, `MenuLoader` |
| EEE probe | `network-loader/eeeprobe.*` | none of its own | `EEEProbeRead`, `EEEProbeDisable` | not modelled, section 6 |
| tee device, build stamp, makefiles, card files | | none | | not modelled: no state that changes |

How they interact:

* Circle's `CTFTPDaemon` calls `CTFTPBootServer`'s callbacks, one transfer at a
  time; `CHTTPDaemon` calls `GetContent()` from a worker task per connection.
  Both end in `BootImageWithDefaults()`, which calls `PatchDefaults()` and then
  `EnableChainBoot()`: a pointer and a size in two static variables.
* The main task polls `IsChainBootEnabled()` and `g_bRebootRequested` between
  two yields. When it sees either it quiesces USB for two seconds and sleeps for
  one, *while the servers go on running*, and returns. `sysinit()` then asks
  `IsChainBootEnabled()` again; on the Pi 5 that call performs the hand-off.
* The loader is one core and a cooperative scheduler, so a callback, a request
  and each stretch of `Run()` or of a WebDAV worker between two yields are atomic.
  The menu-loader's keyboard handler is the exception: it runs in interrupt context
  and may come between any two memory accesses of the main loop.
* WebDAV's workers read and write the card between their sends and receives; nobody
  waits for them, or closes their files, when the loader hands off.
* `Initialize()` reads `config.txt` and hands what it states to Circle's network
  subsystem before any server is there; the menu-loader reads `bootmenu.cfg`.

What is hard here: the window between arming and hand-off; verdicts that arrive
in a callback other than the one that has the data; transfers that end early,
are refused or are repeated; buffered writes that fail; several workers on one
file; a blank line that arrives in two pieces; one-shot state that must neither
leak nor be lost; interrupts between a read and a write; several keys folded into
one round; list and page edges; caches that write back when they like.
`PROJECT.json` lists each hazard with its line and the properties that would show
it going wrong.

## 2. Modules and their correspondence to the code

`PROJECT.json` ("map") names the lines each definition stands for. Definitions
marked "Mutant" are wrong on purpose: each replaces one of the model's definitions to
show that a property would notice.

**`DefaultsBlock`** — the block and `PatchDefaults()` as operators: the verdict,
the bytes written, the message of `BootImageWithDefaults()`. No state; the other
modules instantiate it, each with its own unit of size.

**`DefaultsWriter`** (`MCDefaultsWriter`) — one staged image, byte by byte, and
any sequence of stamps on it.

**`StagedImage`** — images as sequences of cells, one per TFTP block:
`[of, no, text]` is block `no` of kernel `of` with the string stamped into it.
This is the least that tells a whole image from a mixture, a truncated or a
wrongly stamped one. `IsWholePush` says that a stretch of memory is one push.

**`TftpBootServer`** (`MCTftpBootServer`) — one action per callback and case:
`FileCreateKernel`/`-Inject`/`-SD`, `FileOpen`, `FileWrite*`, `FileRead`,
`FileClose*`, `UpdateStatus*`. Variables are the class's members under their own
names (`m_nCurrentOffset` is `currentOffset`). `xfer` is the daemon with its
client: which transfer is open, how many blocks were sent, and its verdict. A
client may fall silent after any block; a refused block ends the transfer
without `FileClose`, as the code's own cleanup in `FileWrite` implies. `FlushWriteBuf`
may write any part of the batch. The hash is the sequence of blocks it was
computed over. `promised` is a history variable.

**`NetworkLoader`** (`MCNetworkLoader`) — extends `TftpBootServer`, all of whose steps
(`Next`) are steps of the server task, and adds the HTTP server, `/reboot`,
`CKernel::Run()` and what `sysinit()` does after `main()` returned, for the Pi 5 and for
the boards that use Circle's own chain-boot (`board`). Its own formulas are `LoaderInit`,
`LoaderNext`, `LoaderSpec`, `FairLoader` and `LoaderTypeOK`. A form is a sequence of
parts in any order; the loop over them, the staging that may fail in it, and what is
left in `Defaults[]` are `GetContentForm`. It is shown to implement **`PushToBoot`**, the
abstract promise: the machine starts the image armed last, whole, and resets only when
none is armed. `WholeImages`, what may be armed, is every kernel as it was pushed or with a
string somebody pushed and its block takes.

**`BootMenu`** — `CBootMenu::Load()` and `ParseLine()` as operators on lines of characters,
and beside them what `bootmenu.h` says of a file, in other words: `EntryLines`, `IsStringOf`.
The loops over a file's lines (`Walk`) and over a form's parts (`Defaults` in
`NetworkLoader`) are recursive functions of how much was read.

**`MenuLoader`** (`MCMenuLoader`) — extends `BootMenu`: the picker's main loop on the menu it
loads, with one action per access to an intent that an interrupt may come before or after,
the serial console's batches, plug-and-play, and `BootSelection()`. `wanted` and `hasty` are
history variables: the menu if each keystroke were acted on before the next, and
whether somebody keyed before the screen showed what the last keystroke did (`AllShown`),
or unplugged a keyboard with a key down.

**`NetConfig`** (`MCNetConfig`) — `Initialize()`: what may fail, and `RapiReadNetConfig()`
line by line. The file is chosen as the loop reaches it; a value is a sequence of numbers,
dots and other text, and `ParseAddress()` stores octet by octet what it finds, into memory
whose first content is `Garbage`. Then `ConfigureNetwork()` and what Circle makes of it.

**`WebDav`** (`MCWebDav`) — the listener, the workers and the card. A step of a worker is
everything from one `Receive()` or `Send()` to the next; each of these may fail, and a
`Receive()` may return any number of units of what the client sends. Requests are header
block, body, and what `ParseRequest()` makes of the header block. FatFs's directory entry
takes what was written when the handle is closed, if the card lets it; whether FatFs
refuses to open a file twice (`FF_FS_LOCK`) is not in the repository, so `fsLock` is
either. The listener counts as an instance, a worker until its destructor ran (`Reap`),
and `MainReturns` stops all of it at any moment. `promised` is the body of the last PUT
answered with 201 or 204, per path; `excused` are paths whose entry FatFs did not update.

**`ChainBootHandoff`** (`MCChainBootHandoff`) — what `EnableChainBoot()` writes and what
`DoChainBoot()` and its stub then do to memory on the Pi 5, in cache lines. A line is
DRAM, a copy in the memory-side system cache, a copy in the core's caches, and which
copies are dirty. Arming stages image, device tree and stub through `StageAlloc()`'s two
heaps; each maintenance step and each line copied is an action, and between any two the
caches may write back and drop, or take in, a line by themselves (`CachesChange`), and
the loader may store to its stack (`LoaderStore`). A read or store of the stub, which
runs with the caches of the core off, may go past the system cache or into it, either
way, each time. Maintenance of a range is one action because it does to each line
what it does whatever the others hold; the copy relates lines and goes one by one.
The module refines the same `PushToBoot`. Left out: the instruction caches, the checks
of the device tree's header (`dtbFound` is their verdict), exception levels and registers,
and the older boards, which use Circle's own chain-boot.

**`DefaultsWriterProofs`**, **`TftpBootServerProofs`**, **`NetworkLoaderProofs`**,
**`BootMenuProofs`**, **`MenuLoaderProofs`**, **`NetConfigProofs`**, **`WebDavProofs`**,
**`ChainBootHandoffProofs`** — section 5.

## 3. Runs

| Run | Checks | Shows |
|---|---|---|
| `defaults_writer` | `TypeOK` `ReaderSeesAccepted` `CapacityHonoured` | the payload reads the string accepted last; nothing outside Capacity is written |
| `tftp` | `TypeOK` `HashCoversImage` `KernelBufferHoldsPush` `InjectIsAllOrNothing` `CardHoldsPrefix` `ModeFollowsTransfer` `ArmedIsWholePush` `StampIsPromised` `ServerRecovers` | transfers of every kind in any order, cut off, refused, too long, repeated after arming, with writes that fail; the server is always free again |
| `loader` | `LoaderTypeOK` `StartedIsWholePush` `NoResetOverPush` `CoherentUnlessReboot` `FormStampsAsked` `ArmedStaysWhole` `PromiseKept` `RebootEndsLoader` | pushes over TFTP and HTTP, `/reboot`, the main task and the hand-off interleaved, on the Pi 4 and the Pi 5 |
| `menu_loop` | `TypeOK` `ScreenShowsSelection` `ArmedIsSelection` `NothingBootsUnasked` `PatientKeysBoot` `EnterBoots` | every interleaving of the main loop with keys, console and unplugging, on files of none to six entries; who waits for the screen after each key gets what was keyed |
| `chainboot_handoff` | `TypeOK` `PayloadReadsImage` `LoaderEvicted` `SlotPointsAtCopy` `StubFetchesStub` `HandoffKeepsPromise` | from arming to the payload, whatever the caches do by themselves, on boards with and without high memory and with heaps nearly full |
| `webdav` | `TypeOK` `AnsweredIsOnCard` `GetSendsFile` `AnsweredUnlessCut` `ClientLimit` `SlotFreed` | two workers on one file and its directory, clients that split, stall and leave, a card that fails, until the loader hands off |
| `net_config` | `TypeOK` `NetworkGetsStated` | every `config.txt` of up to four lines, and none |
| `tftp_inject` `loader_overwrite` `loader_reboot` `menu_script` `config_typo` | one property each | a counterexample; section 4 |

Bounds, and why they are enough:

* `DefaultsWriter`: bytes scaled to a block at 2, a header of 2 and `Text[3]`;
  Capacities 0, 1, 3 and 5 lie below, at and above that size, image sizes below,
  at and above offset plus `sizeof`. Strings up to 5 characters cover each limit.
* TFTP: a buffer of three blocks with the 0x800 block in the second. Of five kernels one
  is empty, one too short for the block, one declares a little Capacity, one no magic, one is
  longer than the buffer; the strings fit, need trimming, exceed the block's Capacity and
  exceed `m_InjectText`. Files of 0 and 3 blocks, on one path, meet a batch buffer of
  two: no flush before the close, and one. `PushWhileArmed` is TRUE: clients push again
  whatever is armed. `BlockBytes >= InjectBytes` is an assumption of the
  module (both are 512 in the code) and the reason why no string is armed in part.
* Loader: two kernels, with and without a block, are enough to mix two images; forms of up
  to four parts put the string before the image, after it, overrule it by a blank field,
  exceed Capacity and exceed `Defaults[]`, and hold two images. The SD card is left out
  (`Uploads = {}`): it shares no state with the hand-off. `PushWhileArmed = FALSE` says that
  clients push no kernel over TFTP once one of theirs is armed; `loader_overwrite` lifts
  that and fails.
* Menu: pages of two rows, at most five entries; files that are missing, of none, one,
  two and six usable lines between blank, commented and malformed ones, with empty labels
  and strings, a second pipe and a string beyond `MaxString` (idle, unattended, one full page,
  more than two pages with a short rest, one entry too many). Two keystrokes
  (`MaxPresses`) and scripts of up to three bytes in a buffer of two, two keys down at
  once. The script of two moves is what brings the cursor below the page, so that a key
  may meet a window that has not been scrolled yet. `PatientKeysBoot` says nothing of
  a `hasty` person: it fails for those who key ahead and for those who unplug a keyboard
  with a key down.
* WebDAV: buffers of five units hold a blank line and one unit more. Header blocks end
  before the end of the buffer, with it, and not at all; a body is shorter than a buffer or
  longer by one; a file's length is no multiple of the chunk's. Two clients and three task
  identities let a third connection find the server full and find a slot again. One file and
  the directory it is in: workers meet only on a path, or where one is above the other.
* Network configuration: four lines of fifteen are enough for a heading, an address,
  another heading or a typo, and an address again.
* Hand-off: fourteen lines. The slot; a copy region of two (`KernelStart` 1, `KernelEnd` 3)
  and a line of stacks below `HeapStart` 4; a low heap up to `Gigabyte` 9, empty or with
  two lines gone; high memory of 0, 2 or 5 lines, three of them below `FourGB` 12. So an
  image goes to either heap or to none, a device tree of two lines too, and one copy
  lies out of the slot's reach. One image fills the copy region, one is longer by a line.
  Two are armed at most, so the second finds stub and copy there. One line is
  restless (`MaxRestless`), any line: lines depend on each other only through the copy,
  which reads one line whose content the properties fix and writes another. With
  two restless lines the model has 2.4 million states and no error either.

What the proofs of section 5 cover they prove without any of these bounds.

`CHECK_DEADLOCK FALSE` is said where the system ends: the loader's and the hand-off's
models stop when the machine has started something, `WebDav` when `main()` has returned,
`NetConfig` when the network is up or the loader has halted. The menu-loader halts in loops
of its own (`Halted`).

Fairness: `Serve` of the TFTP server is weakly fair because the daemon's receive timeout
ends a silent transfer; `Run` and `Sysinit` because the scheduler is round-robin over tasks
that all yield, and `sysinit()` is straight-line code; `Serve` and `Reap` of the WebDAV
workers, together, because every `Receive()` and `Send()` has a timeout of 30 seconds, so
some task goes on; the picker's `Main` because an interrupt handler returns;
`IsChainBootEnabled` and `Handoff` of the hand-off because `main()` returns once something
is armed and what follows is straight-line code with interrupts masked. No fairness is
assumed of clients, people or the card.

## 4. Where code and documentation disagree

Each of these is a run that ends in a counterexample; `PROJECT.json` ("findings")
quotes both sides.

* `tftp_inject` — a refused or aborted inject push takes an armed string away.
* `loader_overwrite` — a TFTP push in the three seconds between arming and hand-off is
  received over the armed image, and the mixture starts.
* `loader_reboot` — on the Pi 5 a push that completes while `/reboot` quiesces is handed
  off after the teardown the hand-off is documented to precede.
* `menu_script` — the bytes of one serial batch are not acted on in order.
* `config_typo` — a line that only begins like an address is reported as ignored and
  changes the octets of the one before.

Observed while modelling, and kept out of the runs because each is a variation of a
question a run already asks, a matter of taste, or outside what the models tell apart:

* The form cuts a string that exceeds `Defaults[]`, and its page says "defaults stamped".
  `FormStampsAsked` speaks of strings that fit.
* `PatchDefaults()` holds an image against the fixed `sizeof (TDefaultsBlock)`, where
  `README.md` asks for `0x800 + 4 + 2 + 2 + Capacity` bytes: with a Capacity above 512 a
  stamp may lie behind the end of the image.
* "File closed, N bytes on card" counts the last batch also when its flush failed.
* In the menu: a key that interrupts the drain of its own intent is lost; Enter overtakes a
  cursor key that arrives after the drains of a round; a page key that arrives between a
  cursor key's drain and its drawing pages from the window as it was before the scroll; a
  key held while its keyboard is unplugged is dead for one press, because `m_PrevRawKeys`
  outlives the keyboard. `hasty` exempts each from `PatientKeysBoot`.
* `bootmenu.h`'s limits of 96 and 1024 include the terminator, so 95 and 1023 characters are
  kept, and a longer string is cut silently; a file beyond `MaxConfigBytes` is cut in the
  middle of a line, which then is an entry.
* A `config.txt` beyond `CONFIG_MAX_BYTES` is cut in the middle of a line, which may shorten
  the address on it. An address of 0.0.0.0 may or may not mean DHCP to Circle.
* WebDAV: what `f_close()` returns is not looked at, so 201 may be said of a file whose
  entry was not written (`excused`); an upload that is interrupted leaves an empty or short
  file under the final name; `Content-Length` goes through `atoi()`, so a negative or
  huge one is taken as it comes out of that.

## 5. Proofs

Each proof module extends the module it is about, and its theorems hold for every value
of the constants that meets the module's named assumptions. TLC has evaluated those
assumptions, and every invariant below, on the instances of section 3.

**`TftpBootServerProofs`** — every set of kernels, strings and uploads, every buffer size and
every interleaving of transfers. Assumptions: `TftpAssumption`, `StagedImageAssumption`,
`DefaultsBlockAssumption`.

| Theorem | Property | Invariant behind it |
|---|---|---|
| `TypeCorrect` | `TypeOK` | `TypeInv` |
| `ModeAlwaysFollowsTransfer` | `ModeFollowsTransfer` | `TypeInv` |
| `KernelBufferAlwaysHoldsPush` | `KernelBufferHoldsPush` | `TypeInv /\ PushInv` |
| `HashAlwaysCoversImage` | `HashCoversImage` | `TypeInv /\ PushInv` |
| `TruncatedNeverArmed` | `ArmedIsWholePush` | `TypeInv /\ PushInv` |
| `ArmedRemainsWhole` (if `~PushWhileArmed`) | `ArmedStaysWhole` | these and `ArmedInv` |
| `InjectAlwaysAllOrNothing` | `InjectIsAllOrNothing` | `TypeInv /\ PushInv`, itself |
| `StampAlwaysPromised` | `StampIsPromised` | the same |
| `CardAlwaysHoldsPrefix` | `CardHoldsPrefix` | `TypeInv`, itself |

* `TypeInv` is `TypeOK`, `ModeFollowsTransfer` and `OpenFile`. The type invariant alone is
  not inductive: that a block is appended to a *file* needs to know that the file the
  transfer writes is there, and that the block belongs to an upload needs the mode
  to follow the transfer.
* `PushInv` is `KernelBufferHoldsPush` and `HashCoversImage`: the buffer, the offset, the
  hash and the daemon's block count move together, so a completed verdict with
  `m_bKernelClosed` set means that the buffer holds the push to its last block. That is
  the argument for "a truncated payload must never boot".
* `ArmedInv` adds that no kernel transfer is open once one is armed.
* A string is armed whole or not at all because one that fits `m_InjectText` fits the
  first TFTP block, so a transfer that ends early has all of it or none
  (`FirstChunk`, `InjectNextKeeps`).

**`NetworkLoaderProofs`** — extends the former, whose step lemmas it uses for the server's
part of a step. Beside the assumptions above: `LoaderAssumption`, and `MarksAssumption`, that
"none" and "reset" are no images. Three theorems suppose `~PushWhileArmed`, which
`loader_overwrite` shows to be needed.

| Theorem | Shows |
|---|---|
| `NoPushLostToReset` | `NoResetOverPush` |
| `CoherentWithoutReboot` | `CoherentUnlessReboot` |
| `WholePushStarts` (if `~PushWhileArmed`) | `StartedIsWholePush` |
| `ArmedRemainsWholeInLoader` (if `~PushWhileArmed`) | `ArmedStaysWhole` |
| `FormAlwaysStampsAsked` | `FormStampsAsked` |
| `LoaderTypeCorrect` | `LoaderTypeOK` |
| `LoaderImplementsPromise` (if `~PushWhileArmed`) | `LoaderSpec` implies `PushToBoot`'s `Init` and `[][Next]_vars` |

The first two need only where the main task is (`Progress`). For those that suppose
`~PushWhileArmed` `ServerInv` is
the server's own invariant, `ArmedWhole` says that the armed memory, the server's buffer or
the form's copy, holds one whole push, and `StringInv` and `KnownArmed` that the string in
it is one somebody pushed, so that what is armed is in `WholeImages`. Every step then either
arms such an image (`Arm`), starts what is armed (`Start`), resets with nothing armed
(`GiveUp`), or changes neither.

`FormAlwaysStampsAsked` rests on `DefaultsIs`: whatever the parts and their order,
`Defaults[]` ends as the last string, cut to what fits it, because each part either leaves it
alone or replaces all of it with its NUL (`HeldStep`). `PageInv` holds page and image of the last form
together; a TFTP push only takes the pointer elsewhere. `LoaderTypeCorrect` adds
`ControlInv`, the types of the main task's variables.

**`ChainBootHandoffProofs`** — every memory map, heap, set of images and number of armings,
and caches that are restless in every line. Assumptions: `HandoffAssumption`, the order of
the memory map's marks and that an image fits between `MEM_KERNEL_START` and the heap;
`NoneAssumption` and `WholeAssumption`, that "none" is neither a content nor an image.

| Theorem | Shows |
|---|---|
| `HandoffTypeCorrect` | `TypeOK` |
| `PayloadAlwaysReadsImage` | `PayloadReadsImage` |
| `LoaderAlwaysEvicted` | `LoaderEvicted` |
| `SlotAlwaysPointsAtCopy` | `SlotPointsAtCopy` |
| `StubAlwaysFetchesStub` | `StubFetchesStub` |
| `HandoffImplementsPromise` | `Spec` implies `PushToBoot`'s `Init` and `[][Next]_vars` |

One invariant carries all six, `IInv`. None of the properties says anything before the
end, so it follows each line through the hand-off:

* `Layout`: image, device tree and stub lie in memory of their own, below what the heaps
  have handed out (`StageAllocProperties`); a staged line lies above the copy region.
* `CoherentWhileOn`: as long as the core's caches are on, a copy that is not dirty agrees
  with what lies below, so a staged line is *held*: the loader reads what it staged.
* The cleans by address turn *held* into *settled* (`CleanedSettles`): DRAM has the value and
  no cache has another. Nothing a cache does by itself, and no sweep, changes a settled
  line (`SettledKept`). Source, stub, device tree and slot stay settled to the end.
* The first sweep makes the target *quiet* (`EvictedIsQuiet`): no copy in the core, nothing
  dirty. A store of the stub leaves it quiet and is its newest content, in the system cache
  or in DRAM (`QuietStored`, `QuietKept`). Without that sweep a dirty line of the loader's
  could come down on the copy afterwards.
* The second sweep settles the target at its newest content, the image, and leaves
  nothing else of the first gigabyte in a cache.
* So the payload finds exactly the image armed last (`AlwaysStartsWhole`), which makes the
  jump a `Start`; whatever a cache does afterwards changes nothing anybody can read.

`SlotPointsAtCopy` has nothing to say when no device tree was captured, or its copy lies
out of the slot's reach: `DoChainBoot()` then leaves the slot alone.

**`BootMenuProofs`** — files of any number of lines of any length. Assumption:
`BootMenuAssumption`, that the limits are positive, `MaxEntries` more than one (it is 64), and that pipe,
hash and blank are different characters, and "missing" is no file. `MenuIsTheFile`: the menu has as many entries as
the file, up to `MaxEntries`, and the i-th is made of the line that is the i-th entry of the
file. `StringIs` adds that its string is that line's in the sense of `IsStringOf`, and `EntryTypes`
that label and string fit their buffers.

The provers have no induction over data, so it is done by hand, here and for
`DefaultsIs`: a recursive function is a CHOOSE, which means something once one function that
satisfies the equation is exhibited (`WalkExists`), and what it holds after n lines is
shown by the least n for which it would not (`LeastMember`, `WalkMakes`).

**`MenuLoaderProofs`** — files, menus and pages of any length, any number of keystrokes and
scripts, interrupts at every point. Assumptions: `MenuAssumption` and `BootMenuAssumption`.

| Theorem | Property | Invariant behind it |
|---|---|---|
| `ScreenAlwaysShowsSelection` | `ScreenShowsSelection` | `TypeInv /\ Phases /\ ScreenInv` |
| `PatientKeysAlwaysBoot` | `PatientKeysBoot` | all of `IInv` |
| `TypesAlwaysHold` | `TypeOK` | `IInv /\ RunInv` |
| `ArmedIsAlwaysSelection` | `ArmedIsSelection` | `IInv /\ RunInv` |
| `NothingEverBootsUnasked` | `NothingBootsUnasked` | `IInv /\ RunInv` |

* `ScreenInv`: outside the drains cursor and window are those on the screen; inside them
  they are, or a redraw is due. What is drawn is a window of the list that shows the cursor
  (`ScrolledShows`, `PagedShows`, `MovedInList`).
* `PatientInv`: without haste at most one keystroke is on its way. Either every one is in
  the cursor, at most a scroll away from the screen (`Drained`), or one is in its
  intent, or in the register it is drained through, and the screen shows the state it will
  act on (`Pending`). A drain turns `Pending` into `Drained`, a key or byte that waited for
  the screen turns `Drained` into `Pending` (`RecordedInLoop`, `ReportOfOne`), and a
  release records nothing (`ReportOfNone`).
* `RunInv` asks for no patience, and for `IInv` only to know that the cursor is in the list.
  `PlaceInv`: the menu is the one of the file that was read, and nothing boots from an empty one.
  `ChosenInv`: an Enter that waits to be taken has chosen, and so has whoever boots from more
  than one entry; keys that are still down choose nothing, since they are in
  `prevRawKeys` (`KeysInv`). `ImageInv`: an image is armed only when all of it was read, for
  the entry at the cursor. `MenuHeld` then leads from the entry to its line.

**`WebDavProofs`** — any number of workers and clients, any requests and files, buffers of any
size, with and without `FF_FS_LOCK`. Assumption: `WebDavAssumption`, in which the write
buffer is no smaller than a chunk, as in the code.

| Theorem | Property |
|---|---|
| `TypeCorrect` | `TypeOK` |
| `AnsweredStaysOnCard` | `AnsweredIsOnCard` |
| `GetIsFaithful` | `GetSendsFile` |
| `AnswersWhatFits` | `AnsweredUnlessCut` |
| `ClientsAreLimited` | `ClientLimit` |

`IInv` has a part per worker, `WorkerInv` (what its variables hold at each place: a PUT's
blocks and buffer are the body so far, a GET's are what it has sent of the file, the headers
heard so far have no blank line in them), and parts about all of them: `CountInv`, the instance
count is the listener, the busy workers and nothing else; `LockInv`, with locking a file has
one writer or some readers; `CardTypes`; and `AnsweredIsOnCard` itself. `StepKeeps` reduces a
step to the worker that makes it and the handles it may hurt. The search for the blank line
goes back three units, which is enough for any split (`SearchedAll`).

**`NetConfigProofs`** — files of any number of lines. `TypeCorrect` (`TypeOK`) and
`NetworkAlwaysGetsStated` (`NetworkGetsStated`): line by line the loop holds, per key,
what a reader of the whole file would say it states so far (`KeyStated`, `KeyIgnored`,
`KeyKept`), unless a later line tore it.

**`DefaultsWriterProofs`** — blocks, strings and Capacities of any size. `TypeCorrect`
(`TypeOK`), `ReaderAlwaysSeesAccepted` (`ReaderSeesAccepted`) and `CapacityAlwaysHonoured`
(`CapacityHonoured`). `TypeOK /\ ReaderSeesAccepted` is inductive: what a reader finds up to
the first NUL depends only on what a stamp wrote (`ReadTo`, `Written`).

Only model-checked:

* Liveness: `ServerRecovers`, `RebootEndsLoader`, `EnterBoots`, `SlotFreed`, and the fairness
  half of `PromiseKept` and `HandoffKeepsPromise`. Liveness under fairness is beyond the
  installed provers.

Every invariant and every action property of a passing run is proved.

## 6. Not modelled

* The EEE probe: a fixed sequence of accesses to the Ethernet PHY of the Pi 4, once, at
  start-up. Whether it works depends on what the MDIO controller does with a command
  written over one that timed out, of which the source says nothing; a model would check
  assumptions about that controller only. Its results are only logged.
* The tee device, the build stamp, the makefiles and the card's files: no state that changes.
* The wording and layout of pages, log lines and menu rows; device initialisation beyond
  what may fail in the network-loader's `Initialize()`; the mapping of TFTP names to card
  paths and the directories made for them; escapes, header fields and XML in WebDAV, and the
  recursion of a listing's depth; the parsing of multipart forms, which is Circle's.
* Circle and FatFs, beyond what the modules say of them where they are used.

## 7. Plan

What the plan of this project named is done. What would be worth adding:

1. WebDAV and the TFTP server on one card: they meet in FatFs as two WebDAV workers do, so
   `WebDav`'s argument carries over, but no run composes them.
2. The older boards' hand-off, should Circle's chain-boot move into this repository.
