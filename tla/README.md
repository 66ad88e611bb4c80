# Verification of the SidecarTridge drives emulator

TLA+ models, TLC runs and TLAPS proofs for the drives emulator: firmware for an
RP2040 in the cartridge port of an Atari ST (`src/rp/src`) and the drivers the
Atari runs from the cartridge's ROM (`src/target/atarist/src`). The RP emulates
floppy drives A and B, an ACSI hard disk and a GEMDOS drive from files on an SD
card, and sets the Atari's clock.

## The system

| Part | State | Operations | Talks to |
|---|---|---|---|
| Command words (`commemul.c`, `tprotocol.h`) | ROM3 sample ring, parser step, header time stamp, frame being read | DMA appends a word; `commemul_poll` consumes; the parser hands over a frame | the Atari's ROM3 reads, chandler |
| Command link (`chandler.c`, `sidecart_functions.s`, `sidecart_macros.s`) | pending frame, token, seed, retry counters | `send_sync` with retries; `chandler_loop` runs the callbacks and publishes the token | every driver and every emulator |
| Floppy (`floppy.c`, `floppy.s`) | two drives (state, open file, geometry), slot of A, media-change flag, dirty flags and failure counts | mount, swap by SELECT, sector read and write, deferred flush | link, settings, FatFs |
| ACSI (`acsi.c`, `acsi.s`) | image, partition and BPB tables, image buffer, status, media-change mask, dirty flag | scan of the image, batched reads and writes in chunks, media change, deferred flush | link, settings, FatFs |
| GEMDRIVE (`gemdrive.c`, `gemdrive.s`) | file descriptors, searches by DTA, the current folder, parameters of a Pexec | the GEMDOS calls on files, searches, folders, programs | link, FatFs |
| Application (`emul.c`) | status, countdown, menu, settings being edited | set-up menu, start-up of the emulators, main loop | all |
| SELECT (`select.c`), LED (`blink.c`) | press; count of flashes, activity | core 1 sets flags for core 0 | application, floppy |
| Settings (`settings.c`, `aconfig.c`, `gconfig.c`) | entries in RAM, sector in flash | load, put, save, erase | application, all emulators |
| RTC (`rtc.c`, `rtc.s`), network (`network.c`) | DNS query, NTP request, connection | start, poll, time out, stop | application, lwIP |
| Terminal (`term.c`), display (`display*.c`) | command level, input line, screen | keys and lines to the menu's handlers | application |
| USB mass storage (`usb_mass.c`) | mounted, attached | start, mount, unmount, suspend | application, SD card |
| SD card, ROM emulation, start-up | wrappers and PIO set-up | run once | - |

What makes it hard. The two processors share nothing but ROM reads and a block
of memory, so every call is a timed message that may be sent again; the Atari's
time-out is a loop count, so the RP may still be busy with a call the Atari
repeats. Images are swapped by a button under a running TOS. Writes are answered
before they are flushed. The card may refuse anything. Two cores, a USB host, a
network that may never answer and a user at a terminal all act on the
application's state. Settings are rewritten in place in flash.

What makes the parts correct is stated by the properties below, and the hazards
they are for are listed in `PROJECT.json`, each at its line.

## Modules

| Module | Models |
|---|---|
| `TProtocol` | The words: wire format, ring, parser with its restart timer |
| `CommandLink` | `send_sync` and `chandler_loop`; a frame is one element of the ring |
| `CommandService` | What a driver may rely on: calls carried out in order before they are answered |
| `Floppy` | Drives A and B, SELECT, the flush |
| `AcsiImage` | What the bytes of a hard disk image are to the scan, and the layouts of `atari_hd.py` |
| `AcsiScan` | `acsiRefreshVolumeDriveRange`: partition tables, chains, drive letters, BPBs |
| `Acsi` | The disk above `CommandService`: driver, handler, shared buffer, flush |
| `AcsiDisk` | `AcsiScan` and then `Acsi` |
| `GemDrive` | File handles, reads and writes in chunks, searches, FatFs' locks, reset |
| `GemPexec` | Programs: Pexec in the driver, and what happens when a program ends |
| `SetupMenu` | The menu's handlers, and how `term.c` finds them |
| `EmulApp` | The main loop with the menu, the start of the emulation, NTP, Wi-Fi, USB, SELECT and the LED |
| `Settings` | Loading, putting, saving and erasing, with power cuts and other releases |
| `TProtocol_proofs`, `CommandLink_proofs`, `Floppy_proofs`, `AcsiDisk_proofs`, `GemDrive_proofs`, `GemPexec_proofs`, `EmulApp_proofs`, `Settings_proofs` | Theorems |
| `MC...` | Constants for TLC |

How they fit together. `TProtocol` and `CommandLink` are two levels of one
mechanism: what the first says of words (a frame arrives whole or not at all) is
`SendFrame` and `LoseFrame` of the second. `CommandLink` implements
`CommandService` (proved), and `Acsi` and `GemDrive` are written on top of that
service: a call is open until the RP has carried it out and answered, may fail
with its command carried out or not, and a command that has run may run again
until the next one has (a repetition is a stuttering step of the link).
`EmulApp` extends `SetupMenu`. It starts where `Settings` has loaded the
configuration and ends where the loop of `Floppy`, `Acsi` and `GemDrive` begins.

Definitions that begin with `Deviation:` are mistakes the code could have had;
no specification uses them. They show that each property can fail.

### TProtocol

A word of the ring carries its value and, for the properties only, the frame and
the place it came from. `SendWord` models the write index of the DMA: a lap of
unread words looks like an empty ring. `Step` is the restart timer evaluated
before each word, on a clock that wraps. `ReadHeader` ... `ReadChecksum` are the
cases of `tprotocol_parse`; `got` is the `transmission` its callback gets. A word the
PIO misses is `MissWord`: one missed before the size leaves a payload word in its
place, often an odd one, and of an odd size `ChecksumOK` sums all words but the last,
as the code does. `NoPhantom` with missed words is a claim about the frames of the
instance, since two frames may share their 16-bit sum; `WholeFrames` is about all.

### CommandLink

`pc` follows the Atari: `read` the seed, `send` the frame, `wait` for the
token, `copy` the results. `Retry` is the `dbf` of the macro; after it the
caller calls again (`Reissue`) or not (`GiveUp`). With `Patient` callers give up
only on commands the RP never got. `link_false_ack` shows what happens
otherwise, so the results that need it say so. The RP's `phase` follows
`chandler_loop`: `Poll` takes the first frame and drops the others of the same
drain, `Execute` runs the callbacks, `Reply` publishes token and next seed.

### Floppy

One pass of core 0's loop is `Cycle`, `Command`, `FloppyTick`; `Select` comes
from core 1. What a handler does to one drive is a function of a context
(drive, FatFs' lock table, history of losses), named as in the code: `Open` is
`floppyMountDrivePath`, `ImgClose`, `Unmount`, `VDriveOpen`. `Faults` says what
the card may refuse. FatFs is external: an image that is writable cannot be
opened twice (FF_FS_LOCK), and an `f_open` on a FIL that is open forgets what
it held: `lost` keeps those images. The RP answers every command, so TOS sees no
failure, and a write may be answered and dropped: on a drive opened for reading, one
that does not mount, after a refused seek or write. `dropped` holds the write of the
last step if no FIL took it, with the image it was meant for and whether the card
refused. `NothingLost` says that otherwise the image could not be written at all
(`Unwritable`): the drives' own closing and opening is never in a write's way. A write
to a drive that has strayed reaches another image; that is the finding. `strayed` marks
the states after `vDriveOpen` has mounted slot 1's image for another slot (the
finding below), about which `SwapServed` and `MediaHonest` say nothing until the
next swap.

### ACSI

`AcsiImage` has a sector as the code sees it: as an MBR table, an AHDI table and
a boot sector at once. `BuildImage` is the layout of the repository's image
tool, to which the scan's result is compared (`AsPlanned`): an image is built from
what the tool is asked for (`Asked`), or comes from elsewhere, with any sectors
(`Disks`). `AcsiScan` has an
action for each sector the scan reads and for each partition it announces; any
read may fail. In `Acsi` a block is a chunk of ACSI_WRITE_CHUNK_SIZE bytes and one
logical sector; its byte order is part of the data. Reads are two steps on the
RP, `ReadLoads` and `ReadSwaps`, because the Atari may be copying the buffer
(`CopyBlock`) while a repetition runs; the other handlers are one step, nobody
reads the buffer during them. `Repeats` names the kinds of command the link runs
again: a `part` of a batch, a `whole` batch in one chunk, the `last` of several, a
`read`, a `mask`.

### GemDrive

A call is the driver's loop (`Ask...`, `...Returns`) and the RP's handlers named
as the commands. The descriptor's offset and the FIL's pointer are two fields,
as in the code (`seek_dirty`). FatFs is external: its lock table, a FIL that
refuses everything after an error but being closed, clusters added by a seek past
the end. `owned` is what the programs hold. A reset may come at any moment.
A file for writing may refuse to close (`CloseFails`) and then keeps its lock. Where the
code ignores that and forgets the file - a reset, an Fopen or Fcreate without memory
for the descriptor - the lock's holder becomes `Stray`, for good.
`Repeats` holds only the commands that may run twice without harm; for the
others the code's answer is a longer time-out, which is timing the model has not.

### GemPexec

`stack` is TOS' stack of programs, `owner` its memory, `shared` what the RP keeps of
a Pexec, `call` where the driver is in one. On TOS 1.04 and later the program
owns its block (PE_GO_AND_FREE). On older ones the driver takes over the return
from Pexec: it has the RP keep the block (EXEC_PD) and the return address
(PEXEC_RESTORE), and frees the block when the program is over. Both are single
cells, so a Pexec that the program makes itself overwrites them: `spoilt` marks
the programs to which that has happened, and `ExitsClean` is what holds of the
others. TOS is external. It may have no memory for the basepage (`NoBasepage`): the
driver does not look at what its Pexec(5) returned and writes through the error code,
TOS ends the caller, and the file stays open. `opened` are the handles of program files,
`handle` the one of the Pexec under way, `stranded` those left that way: `PexecTidy`
says that no other way leaves one.

### SetupMenu and EmulApp

`KeyAtMenu`, `KeyReentry`, `DataLine` and `CommandLine` find the handler by the command
level, as `term.c` does: a key, the answer to a prompt, a whole line. Each handler
changes settings another part depends on, in memory (`cfg`) and, when it saves, in
flash; handlers of other settings are there for what they do to the terminal and the
countdown. `PutLine` and `SaveLine` are the hidden put_bool, put_str and save: a
put checks nothing and saves nothing. `EmulApp` follows core 0 through
the loop: countdown, NTP with its Wi-Fi connection, DNS query and request, the
start of the emulators, the runtime loop, or the way to the Booster. The host, the
network, the user and core 1 act in between. State is forgotten when the code
never reads it again (a dialogue that is over, the countdown once it is stopped).

### Settings

A save erases the sector and programs it page by page; a power cut is a step at
every point, after which what was being written is garbled and the next start
may be of another release. `Load` is the loader: entries are matched by key, up
to the number of entries of the release.

## Runs

| Run | Checks | Bounds |
|---|---|---|
| `link_safety` | a call succeeds only with its own results, no stale command, refinement of the service, every call returns | 2 commands, 5 seeds, 2 attempts per call, 4 early time-outs |
| `link_false_ack` | **finding** | the same, impatient callers |
| `proto_parse` | no phantom frame, unbroken frames are delivered, the parser starts over after a silence | 3 frames, 1 missed word, ring of 7, clock of 4 ticks |
| `floppy_drives` | the swapped image is served, TOS is told, no image locked, no write lost but those the card refuses or no image can take, flushed in the end, every slot comes | 4 slots (one empty), root sectors 0, 1, 2, flush interval 2, 2 failures, every operation may fail |
| `floppy_wrong_image` | **finding** | 2 slots, read past the end |
| `acsi_rw` | the scan ends with the right drives and BPBs; what TOS wrote is in the image and is read back; flushed in the end | 20 images; 2 drives of 4 blocks, buffer of 2, every operation and call may fail |
| `acsi_retry` | **finding** | the same, the last chunk may run again |
| `gem_files` | handles are descriptors, locks are owned but those of files that would not close, one writer, searches live, exact reads and writes, calls return | 2 files, 2 handles, 1 DTA, lock table of 2, chunks of 2 and 1, files of 2 bytes |
| `gem_full` | **finding** | the same, a full card |
| `gem_pexec` | programs end cleanly, a Pexec keeps its parameters and leaves nothing behind, but a file when TOS has no memory | both kinds of TOS, 3 blocks, 3 programs on top of one another, 2 handles |
| `app_life` | only put_* brings the two letters together, emulation runs alone, no press lost, the LED shows the slot, the start goes on | 2 letters, 2 slots, put_bool of ACSI's switch, countdown of 2, 2 connection attempts |
| `settings_power` | saved settings return on every release, cuts do not mix, RAM agrees with flash | 3 releases, 5 entries, pages of 2 |

Why the bounds are enough.

* Link: with two commands a result can be somebody else's. Tokens in flight are
  never older than three answers (proved), so five seeds wrap and still tell them
  apart as 2^32 do. Four time-outs fill the ring with more copies than a poll
  consumes.
* Words: three frames of different contents give every overlap of an old tail, a
  broken frame and a new one; a ring of 7 is lapped by two frames.
* Floppy: intervals and failure limits of 2 separate the first from the last; a
  gap between the slots exercises wrapping and skipping; root sector 0 is a
  malformed image.
* ACSI: `MaxPartitions` is 6 instead of 16 and the last letter H, so both limits
  are hit by images of 6 parts; the cluster limits are small, so both sides of them
  occur. Six images are the tool's, of its three formats; two of the fourteen
  others are hybrids whose second boot sector has one FAT or is too short for a
  cluster. Three blocks with a buffer of two give a batch of two chunks followed
  by one of one chunk. TOS works with one of the images only, whose two
  partitions make the offset matter and share the mask.
* GEMDRIVE: two handles on two files meet every pair of modes; a lock table of
  two is full with a handle and a search. Three bytes take two chunks to read, two
  bytes two chunks to write. `LongMod` 16 stands for 2^32.
* Pexec: three programs are a program, one it starts, and one that this starts or
  loads. Three blocks are one for each of them, so that TOS runs out; two handles
  are one left open and one in use. The exchanges of the driver with the RP succeed,
  and `Fclose` of a file that was only read does not fail.
* Application: two letters make a conflict and its absence, two slots a cycle; both
  letters are C at first, so that a put of ACSI's switch makes one (`PutKeys`). A
  long press is one step.
* Settings: a release with one entry more, one with one less and the rest moved,
  and a sector with room for one more than the longest.

Deadlock is checked in all runs but `proto_parse`, which ends after its frames.
`ScanEnds` is a measure every step of the scan decreases; with the check for
deadlock it says that the scan ends without any assumption of fairness.

Fairness.

* Link: both processors keep running. A frame is lost only when a poll
  splits it in time, so of infinitely many attempts some arrive (strong fairness
  of `SendFrame`). Nobody has to call.
* Floppy: core 0 goes round its loop and time passes. ACSI: time passes, handlers
  return, and a flush tried again and again works in the end (strong fairness of
  `TickSyncs`: the code retries for ever, so this is what it hopes for).
* GEMDRIVE: the RP and the driver go on.
* Application: each step that ends by itself or by a time-out ends: the start of
  NTP, a connection attempt, a query, the end of NTP, the start of the emulators,
  `finishAppLoop`. Nothing is assumed of the user, the host or the network.
* `TProtocol`, `Settings` and `GemPexec` state none.

## Proofs

For every value of the constants that the named assumptions allow:

| Theorem | Says | Needs |
|---|---|---|
| `TProtocol_proofs!TypeCorrect`, `FollowedDelivered`, `HeardWhenSilent` | `[]TypeOK`, `[]FollowedIsDelivered`, `HeardAfterSilence` | |
| `TProtocol_proofs!WholeFrames` | `[](misses = 0 => NoPhantom)` | `HeaderUnique` |
| `CommandLink_proofs!TypeCorrect`, `LinkInvariant`, `FreshToken` | `[]TypeOK`, `[]LinkInv`, `[]TokenFresh` | |
| `CommandLink_proofs!AckSound`, `NoStaleRun` | `[]AckMeansExecuted`, `[]NothingStaleBehind` | `Patient` |
| `CommandLink_proofs!LinkImplementsService` | the link implements `CommandService` | `Patient` |
| `Floppy_proofs!Typed`, `SlotKept`, `ChangeSeen`, `NoLockLeft`, `WritesKept` | `[]TypeOK`, `[]SwapServed`, `[]MediaHonest`, `[]NoHandleLeak`, `[]NothingLost` | |
| `AcsiDisk_proofs!NoDriveOutside`, `ScanTerminates`, `FilesAreFound` | `[]DrivesInside`, `ScanEnds`, `[]TosFindsTheFiles` | |
| `AcsiDisk_proofs!PartsGetTheirLetters` | `[]AsPlanned` | |
| `AcsiDisk_proofs!WritesArrive`, `ReadsDeliver` | `[]DiskAsWritten`, `[]ReadBack` | `HarmlessRepeats` |
| `GemDrive_proofs!LocksOwned`, `WriterAlone`, `OpenStays` | `[]LocksMatch`, `[]ExclusiveWriter`, `[]OpenFileExists` | |
| `GemDrive_proofs!HandlesKept`, `SearchesKept`, `ReadsExact`, `WritesExact`, `Typed` | `[]HandlesAgree`, `[]SearchLives`, `[]ReadExact`, `[]WriteExact`, `[]TypeOK` | `Harmless` |
| `GemPexec_proofs!Typed`, `ParametersKept`, `NothingLeft`, `CleanEnds` | `[]TypeOK`, `[]OwnParameters`, `[]PexecTidy`, `[]ExitsClean` | |
| `EmulApp_proofs!Typed`, `ConflictChecked`, `Alone`, `PressKept`, `CountIsSlot` | `[]TypeOK`, `[]NoNewConflict`, `[]RuntimeAlone`, `[]NoPressLost`, `SlotShown` | |
| `Settings_proofs!Typed`, `InStepAlways`, `SavedIsRemembered`, `CutsNeverMix` | `[]TypeOK`, `[]InStep`, `Remembered`, `SaveCut` | |

What the constants are assumed to be is in each module's `ASSUME`. The ones that are
not mere types: a payload's size fits its 16-bit word, the ring has room for more
than one unread word, and the clock wraps later than the restart gap and the longest
silence (`ProtocolAssumption`); the image tool is asked for no more parts than the
scan takes (14 at most, of 16), they end where 32 bits can name them, and each holds
a FAT16 file system whose BPB fits (`AskedAssumption`); GEMDOS offsets are signed
32-bit numbers and files are smaller than 2^31 bytes (`GemAssumption`). `Patient`,
`HarmlessRepeats`, `Harmless` and `HeaderUnique` are hypotheses of theorems, on what
callers do, on what the link repeats and on what frames hold.

The arguments.

* Words. Each word in the ring or on the bus is what its frame has at its place
  (`AllGenuine`) and comes after the one before it (`InOrder`). As long as the parser
  consumes a frame word by word, its step and what it has put together are a function
  of how many words those are (`HasRead`): the payload's length is the second word
  after the header, and the checksum it computes is the frame's. `InOrder` survives a
  lap of the ring only because a ring of more than two words that looks empty is
  empty. `AgeInv`: while a frame is being read, the header's time stamp is at least
  as old as the silence and at most that and the restart gap, so the difference
  of two clock readings does not wrap before the timer has seen it.
* Words, none missed. The words consumed, waiting and still to be sent are then whole
  frames (`Unbroken`, `Joined`, `Ended`): one begins only where the last has ended.
  `Aligned`: a parser that is inside a frame has followed that frame from its first
  word, or is about to start over because the ring was lapped; it leaves
  `HEADER_DETECTION` for a frame's first word only, nothing else looking like a header.
  So the word it takes for a checksum is that frame's, without any appeal to the
  checksum: what the 16-bit sum has to catch are missed words and data that looks
  like a header.
* Link. Tokens are seeds, and a seed is a counter that wraps, so a token
  identifies an attempt only if no older attempt with the same value is about.
  `Age(t)` counts the answers since t was the seed. A poll empties the ring, so one
  answer is published per drain (`AgeBounds`): the token in memory is between 1
  and 3 answers old, and so never the seed (age 0) for a counter of more than
  three values. Without `AgeBounds` `TokenFresh` is not inductive: a frame with
  the next seed's token in the ring would be published beside itself. `AgeOrder`:
  tokens are answered in the order they were read. `TokenOwner` and `CallOrder`
  need patient callers: tokens equal to the current attempt's belong to the
  current command, and queued commands are copies of the previous call followed
  by copies of the current one.
* Floppy. `WriteInv`: a drive has open only what its own settings name (`Own`), so a
  lock in a drive's way that is not a refused image's is the other drive's, and the
  image is set for both. `Sound` says what a drive's state tells of its image: a
  drive that is not mounted has nothing open, or an image the card refused to flush,
  and only a drive mounted for writing has data to flush. `Good` adds that every
  lock is one drive's, or of a refused image. `DirectoryKnown`: while no media
  change is announced the directory the Atari has is that of the slot's image, also
  while A is not mounted; `PendingRoot`: the sector whose read will clear the
  announcement is that image's root directory.
* ACSI, the scan. `ScanInv`: the partitions found lie in the image, and the
  drives given out lie in their partitions. `ScanTerminates` measures what is left
  (`Left`): a chain of partitions may run in a circle, but the count of links
  bounds it, and a slot of the table is worth as much as the longest chain.
* ACSI, the BPBs. `VolumesShow`: a drive shows the boot sector it starts with, and that
  one places FAT, root directory and data where the partition's own boot sector
  does, by `IsHybrid` in the TOS view. The rest is arithmetic of logical sectors,
  multiplied by a ratio: `Scaled` and `ClustersInside`.
* ACSI, the tool's images. `PlanEquation` takes the recursive layout apart: each part
  begins behind the one before it, after a sector for its descriptor if it is in the
  chain. By `WellPlaced` no boot sector, descriptor or root sector is written over
  another (`Apart`), so the scan reads back what the tool wrote (`ToolImage`,
  `RootEntries4`, `ChainEntries`). `OnThePlan` then says how many parts have been found
  at each slot and link, and that nothing of the tool's is ever rejected: the steps
  `BadSlot` and `BadChain` cannot happen. Part i's letter is the first one and the
  number of parts before it that can be served (`Letters`); `Given` says which drives
  there are when part k is next, and `PartIsFat16` that a part is announced exactly
  if its logical sectors can be served.
* ACSI, the transfers. `Sent` counts the chunks of the batch that the RP has: their
  data is in the buffer (`Chunks`), unless the batch is complete, and then it is in
  the image (`BatchWritten`), as are the batches before (`BatchesWritten`). What the
  link may repeat is the command whose effect is in memory: between two chunks that
  is the chunk before (`OwnEffect`), so that repeating it stores what is there; a
  write of one chunk writes what is there (`Harmless`). Two repetitions are not
  harmless, of a read and of the last chunk of several: `HarmlessRepeats` excludes
  them, and `acsi_retry` shows why.
* GEMDRIVE. A lock is an element of a set; that nothing is leaked is the equality of
  two sets, once the `Stray` ones are taken out, which are for writing and only of a
  card that may fail to sync (`WriteLock`). The invariant says it in two directions
  for each descriptor and search (`EachHolds`, `EachHeld`), with the types of
  commands and tables (`Commands`, `Tables`, `SearchKeys`). `OpenFileExists` is
  needed because a descriptor's lock is what refuses the Fdelete of its file.
* GEMDRIVE, what programs get. Between a command and its answer the handles on both
  sides differ: `Due` is what the programs will hold, and where, once the answer that
  is in memory has returned, and it is `Due` that agrees with the descriptors
  (`Agree`; `FoundDue` is the same for searches). `Placed`: the FIL's pointer is
  at the descriptor's offset, at the end of the file, or will be set by the next
  transfer (`seek_dirty`), and the offset is in the file, or so large that a seek
  before its begin has left it (`Beyond`), from where reads return nothing. `Reading`
  and `Writing` say what is done of the call in progress, counting the chunk whose
  answer is in memory, and `Calling` that the command sent is its next chunk. The
  commands the link may repeat (`Harmless`) have each their reason to change nothing
  the second time: an Fseek from begin or end gives the same offset (`LateSeek`), an
  Fsfirst of a live search can open its folder again (`LateSearch`), and a release
  is of a DTA no program goes on with (`LateCommand`). With any other kind repeated
  one of the properties fails.
* Pexec. `Held` says at which steps the lock is held, and which file is open at which
  step besides the stranded ones, `Loading` that
  the block being loaded is allocated and no program's. `NewTos`: programs are in
  blocks of their own, each owned by its program or by one below it, which is why
  the end of a program frees none of the blocks of those below. `OldTos`: the two
  cells of the RP belong to the only trapped program that is not spoilt, whose
  starter is the program below it.
* Application. `Fits` ties the state of the loop to the countdown, USB, network and
  LED: which of them may be up at which step. `RuntimeAlone` is inductive only with
  it, and `SlotShown` with `LedFits` (flashes left and flashes shown add up to the
  slot). `NoNewConflict` is about steps: each of the five handlers that change a part
  of the conflict looks at all the others at that moment (`HandlerKeeps`), whatever
  settings it finds, and a start takes what is in flash (`NoConflictComes`).
  `NoPressLost` holds because core 0 clears the request before it cycles.
* Settings. The magic is the first entry (`MagicFirst`); while a save is under way
  the sector is a prefix of the new image (`Saving`); `Arrived` and `CutShort` say
  what the last save left.

Only model-checked. Liveness (`Answered`, `KeepsAnswering`, `EverySlotComes`,
`EventuallyFlushed`, `CallsReturn`, `Settles`) is out of the prover's reach, as
`ENABLED` is. `NoPhantom` is no theorem once words are missed or data looks
like a header (`WholeFrames` has the rest): a 16-bit sum cannot tell every broken frame
from a whole one, and it holds of the payloads of the run. All other safety properties
of the runs are proved. Where a `TypeOK` is in no run, it is proved or
part of a proved invariant.

## Findings

* `AckMeansExecuted` (`link_false_ack`): the seed changes only when the RP
  answers. A caller that gives up on A and sends B sends it with A's seed; A's
  late answer completes B.
* `SlotServed` (`floppy_wrong_image`): after an error on slot k, `vDriveOpen`
  mounts the main setting, slot 1, without a media change.
* `DiskAsWritten` (`acsi_retry`): the last chunk swaps the shared buffer in
  place, so running it twice writes the earlier chunks with their bytes
  exchanged.
* `FwriteReturns` (`gem_full`): `Fwrite` never looks at how many bytes were
  stored, and sends the same chunk for ever to a full card.

## Observations

What the models made visible and no run reports as a finding, because nothing in
the repository says otherwise, or because it lies outside of what is modelled.

* Floppy. `floppyMountDrivePath` drops a pending clear before it knows whether the
  mount works, and the fallback does not arm it again: a media change may stay
  raised though the root directory is read. A SELECT between two sectors of one
  `Rwabs` splits it over two images. `floppy.s` 330-367 overwrites the drive number
  with the side's sector count, so `Floprd` and `Flopwr` on B, side 0, reach A. As
  the RP answers every command, read failures and writes to read-only images are
  not seen by TOS. A retransmitted write may land in the image SELECT put in.
* ACSI. Hybrid images of the repository's own tool never get the TOS view: the file
  system fills its partition, and the view, which starts a sector late, must fit
  behind it (`acsi.c` near 676). TOS is then given 512-byte records, of which 16-bit
  numbers cannot name all in a large partition. More than 16 partitions or one
  out of range reject the whole image; a chain in a circle announces a partition
  several times; a boot sector that cannot be read shifts the later letters. A root
  sector that cannot be read as an MBR is read again as an AHDI table, where HDDRIVER's
  marker stands for the first partition from its second sector on: after one read
  that fails C may be that view, without the other partitions. Volumes
  with one FAT get a `fatrec` behind it, and so does a hybrid volume whose second boot
  sector has one FAT twice as long as the two of the first: `TosFindsTheFiles` holds
  of the FATs only where the boot sector served has two. A second boot sector is not
  asked whether it leaves room for a cluster, so a TOS view may be announced with
  none. An image shorter than a sector stays open.
* GEMDRIVE. On TOS 1.00 and 1.02 a program that the driver started, and that makes
  the driver load another, ends in a return to the wrong place: see `spoilt`. There
  is one current folder for all processes; a reset of the Atari leaves it unless the
  drive is C. A failed `reentry_gem_unlock` takes every later GEMDOS call past the
  driver. Retransmitted Fopen and Fcreate leak a descriptor. A file for writing that
  will not close when memory is out, or at a reset, keeps its entry in FatFs' table
  of eight for good (`gemdrive.c` 1548, 1627). A Pexec for which TOS has no memory
  ends the caller and leaves the program's file open (`gemdrive.s` 1094). A search
  that is not finished pins its folder until its DTA is used again.
* Application. `README.md` 97 speaks of the letter ACSI starts at, and 106 lets its
  further partitions take the letters that follow: those may reach GEMDRIVE's, which
  nothing checks. Nor does anything check what put_* stores. A redraw of the menu
  while a prompt is open (a host comes or goes, the terminal starts) turns what is
  typed into commands. A DNS answer that lwIP has at once gives no callback, so the
  synchronisation ends by its time-out. A long press erases settings on core 1
  wherever core 0 is.
* Settings. After `settings_erase` a save would program from address 0. A release with
  fewer entries loses those behind its count. A cut between the entries of ACSI's
  switch and letter may leave both drives on C. Menu handlers ignore the result of a
  save. `gconfig_init` reads past the end of its array of defaults.

## Not modelled

* FatFs, the SD card driver and the other submodules are not in the repository;
  FatFs is modelled as far as the code uses it. u8g2, more than half of the
  repository's lines, and lwIP's configuration are vendored.
* PIO programs and bus timing; DMA set-up; ROM emulation; drawing; the blocks of
  USB transfers (one core, one caller, no state between them).
* GEMDRIVE: Dfree, Dcreate, Ddelete, Dsetpath, Dgetpath, Fattrib, Fdatime and the
  conversion of names. The models know files by what their names stand for.
* Floppy: BIOS and XBIOS hooks beyond the commands they send, the arithmetic of the
  BPB, copying an image. ACSI: PUN_INFO, the BCB buffers.
* RTC: what the Atari reads of the time. Settings: the Booster's global settings,
  garbled keys that are well formed (see `Damaged`). Menu: the hidden `erase` (it is in
  `Settings`), `put_int`, and put_* of settings no step looks at.
* RESET reaches the RP: the driver sends it once (`main.s` 219). Hardware resets
  of the RP alone.
* A link and an emulator in one model: the service stands between them.

What is left of the plan: the folders and names of GEMDRIVE, with one current
folder for a stack of programs; a floppy write sent again across a swap.
