# catplay-firmware: a TLA+ verification project

The repository builds firmware for CarPlay dongles (i.MX6, Ingenic "Mini Ultra", Allwinner V821). Its
own logic is in `carlinkit_otalib`, one static Rust binary that is PID 1, boot orchestrator, module
loader, flash tool, property web server and development shell; the rest is build metadata, kernel
patches, host side flashing scripts and a few small C programs. Paths below that start with `OTA/` are in
`src/meta-carlinkit/recipes-bsp/carlinkit-otalib/src/`.

## 1. Inventory

| component | state | operations | hard part | what makes it correct |
|---|---|---|---|---|
| flash access, `OTA/flash.rs`, `OTA/nostd/small_fd.rs`, commands of `OTA/main.rs` | partitions, page cache, chip, backup file | backup, flash, flash_nosign, sb, `Flash::write` | power loss, writeback at any time, msync errors, partition and block boundaries | success means the image is on the chip; blocks that do not change are not touched; a backup is a copy |
| PID 1, `OTA/boot/boot_tail.rs` | stored signal, children, shutdown shell | reap, handle signal, shut down | signals at any instruction, EINTR | the right command, run after a clean unmount; no zombies; no forgotten signal |
| modprobe, `OTA/modprobe_util.rs`, `OTA/nostd/modules_info.rs` | dependency table, two explicit stacks, marks | validate, resolve_load_order | cycles, diamonds, builtins, fixed vectors | dependencies first, exactly what is needed, no false cycle |
| radio detection, `OTA/radio.rs` | sysfs attribute, uevent socket, deadline | detect, detect_or_timeout | lost wakeups, buffer overrun, EINTR, timeout | a card is noticed when it appears; Offline only after the timeout |
| boot flow, `OTA/boot/boot_ultra.rs`, `boot_radio.rs`, `recovery_gadget.rs`, `boot_persist.rs`, `hostapd`, `udhcpd`, `catplay` | up to six processes, Wi-Fi driver, bus, BlueZ, AP, CatPlay, USB gadget | boot_early, boot_radio_early, boot_radio, RecoveryGadget::start, watchdog | processes that are ordered only by files and timeouts; every command can fail | one gadget, a complete AP, a way into the device whatever fails |
| property store, `OTA/web/props.rs` | definitions, values, override file | load, get, set | a rewrite in place that is cut or overlaps another, roll back, values that do not read back | a register per property; what a clean write saved is read back |
| web server, `OTA/web/mod.rs` | accept queue, one connection | accept, read, answer | a client that stalls or leaves, SIGPIPE | who sends a request is answered |
| OTA images, `OTA/mini/*`, commands of `OTA/main.rs` | image file, output folder | mini_pack, mini_unpack | files that are not truncated, cut or damaged images, checksums that cancel | parse inverts pack; what is extracted is what was packed |
| host tools, `src/meta-sunxi/recipes-kernel/sunxi-flasher/files`, `src/meta-carlinkit-mini/recipes-bsp/carlinkit-mini-flasher/files` | backup on the host, image on the device | backup, upload, flash, reboot | connection loss, second run while the device works | no flash without a backup on the host |
| overlay init, `src/meta-carplay/recipes-core/c2a-overlay-init` | mounts | overlay, fall back | failure between mounts | the system boots on the overlay or on the plain root |
| telnet, signer, HWID, templates, LED, no_std support | little or none | | | see PROJECT.json |

Interactions. PID 1 runs the overlay init, forks the boot flow and then only reaps and waits for signals
(`BootTail`). The boot flow (`BootFlow`) calls modprobe (`ModulesInfo`) and waits for the card (`Radio`) from
two processes at once; these two are modelled in full in their own modules and appear in `BootFlow` by
their outcomes. The flash commands (`Flash`) are run from a shell on a booted device and meet the boot flow
only through `/persist`; the host tools call them over SSH (`FlashSession`, where they are seen by their steps
on a linear flash). The web server is started by hand or by a script and shares only its property file with a
second one. Processes share no memory: they interact through the kernel (module state, sysfs,
the bus socket, pid files, USB device controller), child exits and signals.

## 2. Modules

Each component module declares its state as VARIABLES, has one action per step between two points where
another actor can be seen or can interfere, and ends with its properties. Operators whose name has a suffix
(`Backup_Overwrite`) and the comment *Mutant* are plausible bugs: each property is shown to notice one.

### Flash, LinearFlash

`Flash` models the flash as partitions of sectors. A sector is the smallest unit the MTD driver erases;
`FLASH_BLOCK_SIZE` is the unit of comparison (64 KB in the code). `disk` is the chip, `cache` the page
cache of each mtdblock, `dirty` what the kernel has still to write. A command (`Backup`, `FlashNosign`,
`FlashAutosign`, `Softbrick`, `LibWrite`) checks sizes and layout and enters the partition loop
(`SkipPartition`, `OpenPartition`, `NextPartition`), in it the block loop of `write_if_different`
(`WriteBlock`), then `Msync`; `Finish` is the `sync` and the return. The kernel's `Erase` and `Program` of a
dirty sector may come at any moment from the copy on. `MsyncFails` is an I/O error: the command reports it,
and the cache of the device is dropped on its last close. `PowerLoss` may come at any step; the backup file
is in the device's tmpfs and goes with it. Signing is seen as the replacement of the sectors it patches.
`orig`, `ncmds` and `file.complete` are history variables.

`LinearFlash` is the abstract specification: sectors at linear addresses; a write may damage and land
sectors of its range only, may fail at any moment and reports success only when all of the range is as
wanted; a completed backup is a copy and does not change. `LinearSpec` in `Flash` is the refinement, with the
partition table folded into the mapping `MemView` (address by address: `SectorAt`).

### BootTail

`main` as PID 1: `boot_head`, the fork of the boot flow (inline when it fails), the handlers and the loop of
`boot_tail`. The swap of the stored signal, the entry into `waitpid` and its return are separate steps, because
a handler may run between any two instructions. The child `run_shell` forks at shutdown is an
actor of its own: `ShellExec` (execve, or `_exit(127)`), `ShellStep` (rcK, swapoff, umount, each whatever the one
before returned) and `ShellFails` (killed, or umount leaves a busy file system). `boot_tail_shutdown` ignores how
it ends and goes on to `sync` and the reboot; `cut` records why PID 1 did not wait for its end.

### ModulesInfo

One modprobe call: `Check`, the walk of `validate_dependency_paths` (`SkipOwner`, `VisitOwner`, `CheckDep`,
`EndDeps`) and the iterative depth first search of `resolve_load_order` (`PopBuiltin`, `Emit`, `Examine`).
The table is an input. Recursion-free, so it can be proved about. `Needed` is the reference definition: the
least set closed under dependencies.

### Radio

`detect_or_timeout`: the first look, the bind of the uevent socket, the second look, the poll and recv loops,
the polling fallback. The kernel makes the card visible, then broadcasts its uevent; other uevents fill the
socket buffer, and a full buffer drops messages and makes the next receive fail. `Deadline` may pass at any
time and is the only clock.

### BootFlow

`boot_early` with every process it forks: the MMC loader, the child that patches the BlueZ configuration,
starts the bus and preloads the AIC driver, the watchdog, and the recovery gadget, which the main flow or the
watchdog may call. A command is one action with the outcomes the code tells apart. Loading the Wi-Fi driver
takes two steps, because two processes do it: the second one waits for the first, as the kernel does.
CatPlay's launch is in the background, so the pid file, the shell and the exec are steps of their own. The
flow chart in `boot_ultra.rs` (lines 68-128) shows CatPlay started before the radio child and `/persist`;
the model follows the code, which starts it after both. The Wi-Fi Direct branch is left out: `p2p_allow` is
false on every platform.

### FileText, PropStore, PropRegister, WebServer

`FileText` says what `ftruncate` and `write` do to a file, as a sequence of cells. `PropStore` is the data side
of `props.rs` as operators: which values a type accepts and how it normalises them (`Valid`, `Normal`), the file
`set` writes (`Serialize`), and what `load` makes of any text (`LineAt`, `Entries`, `Entry`, `Loaded`), also of one
that an interrupted write left; the lines of a text go by the cell where they begin, which is also their order. A line is the cell of its name, the cell of its type and spec, and the cells of its
value; white space, length and line ends are kept because they decide what is read back. The definitions are
an input: files with two properties, one of every type, and none.

`WebServer` has two servers (`web <port>` twice), each a process that serves one client at a time, and their
common file in `/tmp`, which outlives the processes and not the machine. `set` replaces the value in memory
(`HandleSet`), cuts the file to its new length (`TruncateFile`), writes it page by page (`WriteSome`) and rolls the
value back when a call fails (`PersistFails`, at every point). A client connects, sends its request sooner, later
or never, and may leave; `BrokenPipe` is the SIGPIPE of the second write of an answer to a client that has
left, which ends a process without a std runtime. What a request says is chosen when it is read. `stored` and
`solo` are history: the properties that the last write saved if no other write overlapped it.

`PropRegister` is the abstract specification, with the operators of the property types as parameters: GET and PUT
act on registers at one moment while the client waits, a refusal changes nothing, a restarted server holds
acceptable values. `RegisterSpec` is the refinement;
under it a set takes place when the file is complete, so the value in memory does not count before that.

### OtaImage, OtaTool

`OtaImage` holds packer and reader as operators. A header is a sequence of lines, an MD5 is the data it was
computed from, and the CRC of a section is the set of blocks that occur an odd number of times: this is what
the xor of block CRCs can tell apart, so that cancelling blocks and exchanged blocks exist in the model. The parts
of a header (`split("\n\n")`) go by the cells where they begin (`PartStarts`, `SectionStarts`). `Parse`
has the reader's early return at a section that reaches beyond the file. `Describes` is what a header says
of the sections it was made for; images of other tools are assumed to satisfy it. `OtaTool` is the two commands on their
files: `PackStart`, `PackHeader`, `PackData`, `PackDone`; `UnpackParsed` (or `UnpackHangs`), `ExtractOpen`,
`ExtractCopy`, `UnpackDone`. `Stop` may end a command between two steps; `Damage` and `Cut` happen to the image
between commands. Images of other tools are inputs, because the reader was written for them: other block
sizes, no checksums, more sections than `MAX_IMAGES`, names that collide after `sanitize_filename`.

### FlashSession

The steps of `flash.py` (both copies of it have the same ones) and the processes they start on the device. `Break`
ends a session at any step; the backup or flash process of that session goes on, dies, or reboots the
device while the next session is under way. The files in `/tmp` are what the two sides share: a removed backup
is kept by the process that has it open, and the flash process sees the image file through its mapping while
the next upload empties it (`FlashBus`) or fills it with another image. `PersistWrite` is the running system,
until `/persist` is read-only. The flash is linear, as `LinearFlash` promises; the devices these tools are for do
not sign. A sector is copied from the mapped file in one step: no process is held up in the middle of a page for
as long as an upload takes.

## 3. Runs

| run | states | result |
|---|---|---|
| `flash` | 143 thousand | all layouts (modern, NOR with four partitions of which one has a whole and a partial block, legacy with four and with three, NAND, unknown), two images that share some blocks, two commands: `WriteExact`, `UnchangedBlocksSafe`, `PartitionsInOrder`, `BackupFaithful`, `NothingPending`, `CommandsEnd`, `LinearSpec` hold |
| `flash_legacy` | violation | `RecognisedLayoutOnline`: a legacy device with three partitions, as documented, is recognised and then refused |
| `boottail` | 7 thousand | two children, three signals, a shell that may fail at any step: `CommandIsLastRequest`, `CleanUnlessCut`, `ZombiesReaped`, `SignalActs`, `ShutdownEnds` hold |
| `boottail_lost` | violation | `ShutdownHonoured`: a signal between the swap and waitpid waits for the next child to exit |
| `modulesinfo` | 68 thousand | all 10,648 tables over three modules: `DepsFirst`, `OrderExact`, `CycleIsReal`, `ValidatedPaths`, `CallReturns` hold |
| `radio` | 1.8 thousand | buffer of two, three other uevents, two interruptions: `NoLostWakeup`, `OfflineJustified`, `CardNoticed`, `DeadlineKept` hold |
| `bootflow` | 245 thousand | three platforms, both targets, five kinds of card: `GadgetOnce`, `BluezReadsPatched`, `ApComplete`, `LoadersAgree`, `WayIn`, `BootEnds`, `CrashCaught` hold |
| `bootflow_bluez` | violation | `BluezHasPersist`: BlueZ runs without `/persist` in recovery and after a failed mount |
| `bootflow_leftover` | violation | `NoLeftover`: CatPlay can start after the recovery cleanup has killed leftovers |
| `webserver` | 116 thousand | two servers, two clients, four definition files: `ReadBack`, `RegisterSpec`, `Answered` hold |
| `otatool` | 294 thousand | two mini_packs, any number of mini_unpacks, images cut at any cell of their data, one damaged cell, six vendor images, a foreign file: `RoundTrip`, `ExtractedExact`, `CommandEnds` hold |
| `flashsession` | 161 thousand | two sessions, three sectors, two images, one power failure: `OriginalSafe`, `SuccessMeansFlashed` hold |

The runs `flash`, `boottail`, `modulesinfo` and `bootflow` also check the `TypeOK` of their modules.

What the exceptions in the properties say. They are the places where the code promises less than one would
hope, and each is needed: without it TLC finds a violation.
- `ReadBack`: a string that is empty, blank, or too short once its trailing blanks are gone makes the whole
  file unreadable for the next start, which then uses the defaults for every property.
- `Answered`: a client that is connected and silent stops the server for everybody.
- `RoundTrip`: a new header over a longer old one keeps the old one's last lines.
- `ExtractedExact`: a damaged MD5 line is not noticed when the packet MD5 does not count either (the image is
  cut too, or an old packet MD5 line is read) and the CRC cannot tell the sections apart; an image that is cut
  between sections is accepted with the sections it still has. What a longer header leaves behind a new one may
  describe a further section; it is read once a stopped mini_pack has made the file longer (needs `MAX_IMAGES` of
  3 or more, which the code has).
- `CommandEnds`: a header with blocks of size 0 makes the reader loop for ever.
- `SuccessMeansFlashed`: a failed remount leaves `/persist` to the running system.
- `CleanUnlessCut`: the machine also goes down with file systems mounted when the shell cannot be forked, when its
  child fails (execve, a kill, a busy file system), whose result is ignored, and when a second signal cuts the wait
  for it. In no other case: PID 1 does wait for rcK and umount.

Bounds. `flash`: six sectors and blocks of two give partitions smaller than, equal to and larger than a
block, a partial last block, ranges that begin and end inside partitions; the second command meets whatever
the first left. `boottail`: three signals are one that is stranded or starts the shutdown, one that
follows and one more; two children let one exit while the other lives. `modulesinfo`: three modules are
enough for a diamond without its bottom, self loops, two- and three-cycles, and a stack at its capacity
(`VecCap` stands for 512); the proofs have no bound. `radio`: more messages than the buffer holds.
`bootflow`: only hostapd's attempts are counted, and they have the code's limit of five. `webserver`: a page of six
cells splits the file into two writes, so that kills, failures and the other server
fall between them; files of different length come from values of different length; restarts are not counted.
`otatool`: the 14 lines of a header hold three sections of a vendor or two of mini_pack (12 lines), so an older
header may be longer; sections of zero to three cells with blocks of one and two give partial, equal and
cancelling blocks. `flashsession`: two sessions are a broken one and its repetition, three sectors let processes
overtake each other; three sessions on two sectors without a power failure (4.1 million states) hold as well.

Deadlock. Only `flash` checks it: its system never stops. The others end (machine off, call returned, boot
over), so their configurations say `CHECK_DEADLOCK FALSE`; that they do end is a property of its own.

Fairness. `Flash`: the command continues and the kernel writes dirty sectors, nothing on errors or power.
`BootTail`: PID 1 and the shutdown shell are scheduled; signals, child exits and failures of the shell are not
promised. `ModulesInfo`:
the call continues. `Radio`: the caller continues (but calls need not fail), and a card that is visible is
announced; the clock need not advance, so `CardNoticed` cannot rest on the timeout. `BootFlow`: every process
is scheduled and every command it waits for returns, which is what the code assumes (it has no timeouts on
them); cards, interfaces, background launches and crashes happen or not. `WebServer`: a server process that can go
on does; clients owe nothing, and nothing is killed or started by promise. `OtaTool`: a command that was begun goes
on. `FlashSession` has no liveness property: neither `_stream_exec` nor SSH has a timeout for a device that falls
silent, so the tool may wait for ever.

## 4. Theorems

The proofs hold for every value of the constants. Their assumptions are the named ASSUMEs of the component
modules, which TLC evaluates on the run's instance: sizes are natural numbers, images fill the flash, tables
are over the modules. `PropStore` and `WebServer` assume more, because their constants are data. A definition file
has one line per name, and its values are acceptable and normalised (`DefSetsAssumption`: `parse_line` read it). Texts
are sequences, and the cells that stand for names and types occur in no value (`CellsAssumption`,
`InputsAssumption`: in the code a tab sets them apart, and no value holds a tab). The decimal text of an integer reads
back as that integer (`IntTextAssumption`: `to_string` against `parse`; evaluated for every integer of the
instance's ranges, not proved). `OtaTool` assumes that a header has room for the 12 lines of two sections
(`RoomAssumption`), that file contents are sequences (`ContentsAssumption`), that an image of another tool has the
sections its header describes (`VendorAssumption`), and that a hole is text without a key (`NulAssumption`: zeros).

| module | inductive invariant | theorems |
|---|---|---|
| `FlashProofs` | `LoopInv` ties the loop variables to linear addresses (offset + written = Base(i) + off); `DirtyInv`: only the mapped partition is dirty and clean sectors equal the chip; `CacheInv`: the cache is the old contents overwritten up to the loop's position | `TypeCorrect`, `WriteIsExact`, `NothingLeftPending` |
| `FlashProofs` | `JInv`, on top of that: `Aligned`, the block loop stands between two blocks; `TouchInv`, what differs from before or is dirty is in the range and in a block that changes; `PartitionsInOrder`; `FileInv`, a running backup has copied the flash up to `written` | `UnchangedBlocksAreSafe`, `PartitionsAreOrdered`, `BackupIsFaithful`, `ImplementsLinearFlash` |
| `BootTailProofs` | `ShellInv`: the shell runs only during a shutdown, PID 1 passes it only when it has ended or the wait was cut, a shell that is done has unmounted, and a wait that a signal cut leaves that signal stored | `TypeCorrect`, `RightCommand`, `CleanShutdown` |
| `ModulesInfoProofs` | `WalkInv`: what a visited module needs is visited, stacked or ahead in the loop; `MarkInv` and `StackInv`: the stack is a path of VISITING modules from the root, done dependencies are in the order | `TypeCorrect`, `DependenciesFirst`, `OrderIsExact`, `CycleReportIsReal`, `OrderHasPaths` |
| `RadioProofs` | `OrderInv`: the uevent follows the attribute and the socket is bound before the second look | `WakeupsKept`, `FullTimeout` |
| `BootFlowProofs` | `DriverInv`: who initialises the driver; `ApInv`: how far the access point is by the place of the main flow; `BusInv`: the early child's order; `CountInv`: which callers have started the gadget | `TypeCorrect`, `GadgetStartedOnce`, `BluezConfigured`, `OneLoader`, `AccessPointComplete`, `AlwaysAWayIn` |
| `FlashSessionProofs` | `Untouched` and `BackupInv`: while the host has no copy of the device as it came, no flash process runs, the flash is old, and so is the file a download would fetch; `HostInv`: no session overwrites such a copy; `FwInv` and `FlashedInv`: from the end of the upload on /tmp/fw.bin is the session's image, so that every flash process, of whichever session, writes that image | `TypeCorrect`, `OriginalKept`, `SuccessIsFlashed` |
| `WebServerProofs` | `WInv`: a connection is in one queue or served by one server (`ConnInv`), answers exist only between decision and close (`AnsInv`), during a write memory holds what the PUT asks for and `wr` what a failure brings back (`WriteInv`), all values are acceptable (`ValueInv`). `FileInv`: the text being written is that of memory; a write that met no other has the file for itself, and the file has the text's length and its cells up to the offset; while the last undisturbed write counts, the file is its text and nobody is writing | `TypeCorrect`, `ImplementsPropRegister`, `ReadsBack` |
| `OtaToolProofs` | `PackInv`: a running mini_pack has written the cells of `out` up to `k`, and nothing is behind its lines when it replaced all of an older header; a whole image is `Good`, its header describes its data. `HeadInv`: while nothing is damaged the header gives the names, sizes and MD5s of the sections it was made for. `OwnInv`: the header of a mini_pack differs from `BuildHeader` in at most one cell while at most one was damaged. `ExtractInv`: the sections mini_unpack has extracted are in the folder unless a later one has the same file name | `PackedIsRead`, `UndamagedIsExact`, `PackedIsExact` |

None of the safety properties is inductive by itself: `WriteExact`, for instance, speaks only of a command
that has returned, and `GadgetOnce` only of a counter, while the reason it stays at one is where each caller
is and which flags it has set. Each strengthened invariant has also been model-checked on the run's instance.

`ReadsBack` is also a fact about data, for definition files and values of any length: load inverts what `Serialize`
wrote (`LoadedSerialize`). The proof lays the text out (`Laid`: line i ends with cell P[i]), finds its line feeds
(`LaidFeeds`), hence its lines, hence the entries load keeps (`LaidEntries`), and reads each of them (`KeptEntry`).
Where it needs induction, over the pieces of a concatenation or for the first line feed, it takes a least
counterexample (lemma `Least`, from the well-foundedness of the natural numbers).

`PackedIsRead` is of the same kind: the reader inverts the packer for contents, headers and sizes of any length, with
the images of other tools included (`ParseGood`: a header that describes the data behind it makes `Parse` return exactly
that). `ConcatLaid` places the data of the sections, `OffsetIs` shows that the reader's running offset is
that place, `FitsPrefix` that the sections which fit the file are the first ones, and `LinesDescribe` that the
lines of `build_header` describe what was packed.

`ExtractedExact` is false for arbitrary constants, so two theorems state where it is true. `UndamagedIsExact`: without
damage, for every image whose header gives the MD5 of each section (`Signed`; mini_pack's always do). The
hypothesis is needed: TLC finds an image with CRCs only whose lost end, two equal blocks, is filled by a stopped
mini_pack with two blocks of zeros, which cancel as well. `PackedIsExact`: for images of mini_pack with one cell
damaged, anywhere. Its proof goes through the lines of the header. A damaged cell that is not text
makes the reader refuse the header. A damaged name, size or blank line changes how many sections are described or
how long they are, so the data they cover has another length than what the packet MD5 was made for
(`DamageFound`). A damaged MD5 line leaves the sizes right, and the packet MD5 then fixes the data of both
sections (`SameData`). Any other damage leaves both MD5 lines to be compared (`NearMarked`).

What proof attempts changed in the model. `BackupFaithful` was false beyond the run's bound of
two commands: after a backup and a flash a second backup is refused because the file exists, and that file is old;
the property now speaks of a backup that returned Ok. `Reply` in `WebServer` had a CASE whose arms overlapped, which leaves the choice open; they
are disjoint now. `ExtractedExact` was false beyond the run's `MaxImages` of 2: the rest of a longer header may describe a
third section, for which a stopped mini_pack can make room in the file; the property now excepts this. Two
constants of `OtaTool` had been any data at all; that the images of other tools describe themselves is now an
assumption with a name. `FlashSession`, `PropRegister` and the splitting of headers in `OtaImage` were rewritten where a definition could not be reasoned
about (parameters instead of built-in operators, functions instead of nested updates).

Only model-checked: everything under fairness (`CommandsEnd`, `ZombiesReaped`, `SignalActs`, `ShutdownEnds`,
`CallReturns`, `CardNoticed`, `DeadlineKept`, `BootEnds`, `CrashCaught`, `Answered`, `CommandEnds`), which the prover
does not handle; and two parts of `ExtractedExact`: images of other tools with a damaged cell, and images of other
tools without MD5 lines. Both hold on the run's instance and depend on which checksums such an image has. With two
damaged cells nothing is promised: a section's MD5 line and the packet's can be damaged together.

## 5. Not modelled

The hardware below the kernel interfaces, the text of configuration files, the parsing of `modules.dep` lines,
the signer's cryptography, USB boot ROM protocols, build metadata and third-party patches. A command whose
result the code ignores is taken to do its work in `BootFlow`, except where a property depends on its failure.
`boot_late` (ten attempts to start dropbear), LEDs, sysctls and the telnet shell change nothing the
properties speak of. A client of the web server that does not read its answer may block the server's write; the
model writes an answer in one step, so `Answered` says nothing of such a client. The loop that drains the
uevent socket (`OTA/radio.rs:118`) does not look at the deadline: `DeadlineKept` rests on other uevents being
finitely many. `WayIn` counts the call of `RecoveryGadget::start`, not a gadget that works. The overlay init mounts or falls back, one step after the other and before anything else
runs. `wizard.py` asks the user and calls `flash.py`.

Behaviours that are left open on purpose: a card whose uevent comes just after the deadline is reported offline
(`OTA/radio.rs:101`, the recovery gadget then takes over); hostapd that dies after the watchdog's only look is
not noticed (`OTA/boot/boot_ultra.rs:292`); parameters for a module that is already loaded are dropped
(`OTA/modprobe_util.rs:216`, only a driver that no other process loads is given any); `wait_file` measures with
the wall clock (`OTA/system_util.rs:242`; `BootFlow` lets the wait end or not at any moment).

## 6. Plan

All invariants of the runs have theorems; what is left is more of the system.
1. `boot_late` and the telnet server, if their children are to be seen by PID 1.
2. Damaged images of other tools: a form of `ExtractedExact` that says which of their checksums have to be there.
