------------------------------- MODULE Floppy -------------------------------
(***************************************************************************)
(* Drives A and B of the floppy emulation (floppy.c) and the SELECT button   *)
(* that swaps the image in A (emul.c, select.c).                            *)
(*                                                                         *)
(* Each pass of the main loop cycles A if SELECT asked for it, runs at most  *)
(* one command of the Atari and lets floppy_tick flush.  chandler answers    *)
(* every command, whatever the handler did: the Atari sees no error.        *)
(*                                                                         *)
(* FatFs is external: an image opened for writing is entered in a lock table *)
(* (FF_FS_LOCK) until its FIL is closed, and cannot be opened again before;  *)
(* f_open on a live FIL forgets what that FIL held.  Closing or syncing a    *)
(* FIL with nothing unwritten needs no access to the card and succeeds.      *)
(***************************************************************************)
EXTENDS Integers, FiniteSets, Sequences

CONSTANTS
  NoImage,        \* no image: an empty setting, or a FIL that is not open
  Images,         \* image files named in the settings
  RWImages,       \* those whose name ends in .rw
  Present,        \* those that are on the card
  RootSector,     \* where the root directory starts; 0 if the BPB is malformed
  Size,           \* sectors of an image
  Sectors,        \* logical sectors the Atari reads, up to the one after the last
  SlotPath,       \* image configured for each slot of drive A
  PathB,          \* image configured for drive B
  FlushInterval,  \* FLOPPY_FLUSH_INTERVAL_MS, in ticks of the clock
  FailMax,        \* FLOPPY_FLUSH_FAIL_MAX
  Faults          \* bound: what the card may refuse

Slots  == DOMAIN SlotPath
Drives == {"A", "B"}

ASSUME FloppyAssumption ==
  /\ NoImage \notin Images
  /\ RWImages \subseteq Images /\ Present \subseteq Images
  /\ RootSector \in [Images -> Nat] /\ Size \in [Images -> Nat]
  /\ Sectors \subseteq Nat /\ \A s \in Sectors, i \in Images : s <= Size[i]
  /\ SlotPath \in Seq(Images \cup {NoImage}) /\ SlotPath # <<>>
  /\ PathB \in Images \cup {NoImage}
  /\ FlushInterval \in Nat /\ FailMax \in Nat \ {0}
  /\ Faults \subseteq {"mount", "reopen", "read", "write", "sync"}

VARIABLES
  phase,         \* where core 0 is in its main loop
  pendingCycle,  \* pendingDriveACycle, set by core 1
  slot,          \* currentDriveASlot
  drive,         \* per drive: its state and its FIL
  locked,        \* images in FatFs' lock table
  media,         \* SVAR_MEDIA_CHANGED_A: FLOPPY_MEDIA_CHANGED?
  clearSector,   \* sector whose read clears it; 0 when not pending
  dirty,         \* floppyDirty
  dirtyAge,      \* time since floppyDirtyAtMs, up to FlushInterval
  failCount,     \* floppyFlushFailCount
  tosImage,      \* history: the image whose root directory the Atari has
  lost,          \* history: images that lost data their FIL had taken
  dropped,       \* history: the write answered last, if it reached no FIL
  refused,       \* history: images the card refused to flush
  strayed        \* history: drive A was mounted again while another slot than
                 \* the first was current, and SELECT has not swapped it since

flush   == <<dirty, dirtyAge, failCount>>
change  == <<media, clearSector>>
history == <<lost, dropped, refused, strayed>>
vars    == <<phase, pendingCycle, slot, drive, locked, change, flush, tosImage, history>>

Mounted(s) == s.state \in {"RW", "RO"}

\* emulated: the drive's bit in SVAR_EMULATION_MODE; bpb: whose geometry the
\* Atari is given; file: what the FIL has open
Closed == [state |-> "UNMOUNTED", file |-> NoImage, unsynced |-> FALSE,
           emulated |-> FALSE, bpb |-> NoImage]

(***************************************************************************)
(* What a handler does to one drive is a function of a context c: the        *)
(* drive's record d, the lock table and the history of losses.              *)
(***************************************************************************)
Context(d) == [d |-> drive[d], lk |-> locked, lost |-> lost, refused |-> refused]

\* The FIL is overwritten while it is open: its lock and its data stay behind.
Forgotten(c) == IF c.d.unsynced THEN c.lost \cup {c.d.file} ELSE c.lost

OpenSucceeds(c, i, ok) == ok /\ i \in Present /\ i \notin c.lk

\* floppyMountDrivePath
Open(c, i, ok) ==
  IF i = NoImage THEN [c EXCEPT !.d.state = "ERROR"]
  ELSE IF OpenSucceeds(c, i, ok)
  THEN [c EXCEPT !.d = [state |-> IF i \in RWImages THEN "RW" ELSE "RO",
                        file |-> i, unsynced |-> FALSE, emulated |-> TRUE, bpb |-> i],
                 !.lk = @ \cup ({i} \cap RWImages),
                 !.lost = Forgotten(c)]
  ELSE [c EXCEPT !.d.state = "ERROR", !.d.file = NoImage, !.d.unsynced = FALSE,
                 !.lost = Forgotten(c)]

\* floppyImgClose; f_close syncs first, and leaves the FIL open if that fails
ImgClose(c, ok) ==
  IF c.d.unsynced /\ ~ok THEN [c EXCEPT !.refused = @ \cup {c.d.file}]
  ELSE [c EXCEPT !.d.file = NoImage, !.d.unsynced = FALSE, !.lk = @ \ {c.d.file}]

\* Deviation: the drive is marked failed and its file left open.
FailedOpen(c, ok) == [c EXCEPT !.d.state = "ERROR"]

\* a transfer failed: close the image and mark the drive
Failed(c, ok) == [ImgClose(c, ok) EXCEPT !.d.state = "ERROR"]

\* Deviation: swapping forgets the image instead of closing it.
UnmountUnclosed(c, ok) ==
  [c EXCEPT !.d = [Closed EXCEPT !.bpb = c.d.bpb], !.lost = Forgotten(c)]

\* floppyUnmountDrive
Unmount(c, ok) ==
  IF Mounted(c.d)
  THEN LET e == ImgClose(c, ok)
       IN IF e.d.file # NoImage THEN [e EXCEPT !.d.state = "ERROR"]
          ELSE [e EXCEPT !.d = [Closed EXCEPT !.bpb = c.d.bpb]]
  ELSE [c EXCEPT !.d = [Closed EXCEPT !.bpb = c.d.bpb], !.lost = Forgotten(c)]

\* The file name vDriveOpen takes: for A the main setting, which is slot 1.
MainPath(d) == IF d = "A" THEN SlotPath[1] ELSE PathB

VDriveOpen(c, d, ok) == Open(c, MainPath(d), ok)

\* A transfer to a drive that is not mounted tries to mount it.
EnsureMounted(c, d, ok) == IF Mounted(c.d) THEN c ELSE VDriveOpen(c, d, ok)

\* The outcomes the card may give an operation of a kind.
Outcome(kind) == IF kind \in Faults THEN BOOLEAN ELSE {TRUE}

SetDrive(d, c) ==
  /\ drive' = [drive EXCEPT ![d] = c.d]
  /\ locked' = c.lk
  /\ lost' = c.lost
  /\ refused' = c.refused
-----------------------------------------------------------------------------
(* floppy_init *)

InitA == LET c == VDriveOpen([d |-> Closed, lk |-> {}, lost |-> {}, refused |-> {}], "A", TRUE)
         IN IF Mounted(c.d) THEN c ELSE [c EXCEPT !.d = Closed]
InitB == LET c == VDriveOpen([d |-> Closed, lk |-> InitA.lk, lost |-> {}, refused |-> {}], "B", TRUE)
         IN IF Mounted(c.d) THEN c ELSE [c EXCEPT !.d = Closed]

Init ==
  /\ phase = "cycle" /\ pendingCycle = FALSE /\ slot = 1
  /\ drive = [d \in Drives |-> IF d = "A" THEN InitA.d ELSE InitB.d]
  /\ locked = InitB.lk
  /\ media = FALSE /\ clearSector = 0
  /\ dirty = [d \in Drives |-> FALSE]
  /\ dirtyAge = [d \in Drives |-> 0]
  /\ failCount = [d \in Drives |-> 0]
  /\ tosImage = InitA.d.file /\ lost = {} /\ dropped = {} /\ refused = {} /\ strayed = FALSE
-----------------------------------------------------------------------------
(* SELECT *)

Configured == {k \in Slots : SlotPath[k] # NoImage}

\* handleSelectShortPress with floppy_canCycleDriveA
Select ==
  /\ Cardinality(Configured) >= 2
  /\ pendingCycle' = TRUE
  /\ UNCHANGED <<phase, slot, drive, locked, change, flush, tosImage, history>>

\* Deviation: after the last slot the search starts at slot 2.
NextSlotPastFirst(k) ==
  LET after(j) == {i \in Configured : i > j}
  IN IF after(k) = {} THEN CHOOSE j \in after(1) : \A i \in after(1) : j <= i
     ELSE CHOOSE j \in after(k) : \A i \in after(k) : j <= i

\* floppyFindNextConfiguredDriveASlot
NextSlot(k) ==
  LET steps(j) == IF j > k THEN j - k ELSE j - k + Cardinality(Slots)
  IN CHOOSE j \in Configured : \A i \in Configured : steps(j) <= steps(i)

\* Deviation: the fallback is vDriveOpen's image.
FallbackToMain(c, previous, ok) == Open(c, SlotPath[1], ok)

\* The new image did not mount: go back to the previous one, if it was good.
\* (One that floppy_init could not mount would fail again.)
Fallback(c, previous, ok) ==
  IF previous.file # NoImage /\ previous.state # "ERROR"
  THEN Open(c, previous.file, ok)
  ELSE c

\* pendingDriveACycle is clear, or nothing else to cycle to
NoCycle ==
  /\ phase = "cycle"
  /\ ~pendingCycle \/ NextSlot(slot) = slot
  /\ phase' = "serve"
  /\ pendingCycle' = FALSE
  /\ UNCHANGED <<slot, drive, locked, change, flush, tosImage, history>>

\* floppy_cycleDriveA, the image in the drive cannot be closed
CycleFails ==
  LET c == Unmount(Context("A"), FALSE)
  IN /\ phase = "cycle" /\ pendingCycle /\ NextSlot(slot) # slot
     /\ "sync" \in Faults
     /\ c.d.state = "ERROR"
     /\ phase' = "serve" /\ pendingCycle' = FALSE
     /\ SetDrive("A", c) /\ dropped' = {}
     /\ UNCHANGED <<slot, change, flush, tosImage, strayed>>

\* floppy_cycleDriveA, the image in the drive is closed
CycleDriveA ==
  \E mountOK \in Outcome("mount"), reopenOK \in Outcome("reopen") :
    LET next  == NextSlot(slot)
        empty == Unmount(Context("A"), TRUE)
        new   == Open(empty, SlotPath[next], mountOK)
        ok    == Mounted(new.d)
        root  == RootSector[SlotPath[next]]
    IN /\ phase = "cycle" /\ pendingCycle /\ next # slot
       /\ phase' = "serve" /\ pendingCycle' = FALSE
       /\ SetDrive("A", IF ok THEN new ELSE Fallback(new, drive["A"], reopenOK))
       /\ dropped' = {}
       /\ slot' = IF ok THEN next ELSE slot
       /\ strayed' = (strayed /\ ~ok)
       /\ media' = (ok \/ media)
       /\ clearSector' = IF ok THEN root ELSE 0
       /\ UNCHANGED <<flush, tosImage>>
-----------------------------------------------------------------------------
(* Commands of the Atari *)

\* floppyTransferSizeIsValid holds of the sector sizes TOS knows.
Serving == phase = "serve" /\ phase' = "tick"

NoCommand ==
  /\ Serving
  /\ UNCHANGED <<pendingCycle, slot, drive, locked, change, flush, tosImage, history>>

\* What a transfer leaves of a drive; mounting it again is vDriveOpen's work.
TransferEnds(d, c) ==
  /\ SetDrive(d, c)
  /\ strayed' = (strayed \/ (d = "A" /\ ~Mounted(drive["A"]) /\ Mounted(c.d) /\ slot # 1))

\* The command returned early, or left the drive with an error.
Refused(d, c) ==
  /\ TransferEnds(d, c)
  /\ UNCHANGED <<pendingCycle, slot, change, flush, tosImage>>

\* Deviation: any read of the new disk counts as seen.
ClearsOnAnyRead(d, s) == d = "A" /\ clearSector # 0

\* floppyMaybeClearMediaChangeAfterRead
Clears(d, s) == d = "A" /\ clearSector # 0 /\ s = clearSector

\* FLOPPYEMUL_READ_SECTORS; the sector after the last is a short read.
ReadSector(d, s) ==
  \E mountOK \in Outcome("mount"), readOK \in Outcome("read"), closeOK \in Outcome("sync") :
    LET c == EnsureMounted(Context(d), d, mountOK)
    IN /\ Serving /\ dropped' = {}
       /\ IF ~Mounted(c.d) THEN Refused(d, c)
          ELSE IF s = Size[c.d.file] \/ ~readOK THEN Refused(d, Failed(c, closeOK))
          ELSE /\ TransferEnds(d, c)
               /\ media' = (media /\ ~Clears(d, s))
               /\ clearSector' = IF Clears(d, s) THEN 0 ELSE clearSector
               /\ tosImage' = IF d = "A" /\ s = RootSector[c.d.file] THEN c.d.file ELSE tosImage
               /\ UNCHANGED <<pendingCycle, slot, flush>>

\* Deviation: every write opens the flush window anew.
MarkWriteDirtyAnew(d) ==
  /\ dirty' = [dirty EXCEPT ![d] = TRUE]
  /\ dirtyAge' = [dirtyAge EXCEPT ![d] = 0]

\* floppyMarkWriteDirty
MarkWriteDirty(d) ==
  /\ dirty' = [dirty EXCEPT ![d] = TRUE]
  /\ dirtyAge' = [dirtyAge EXCEPT ![d] = IF dirty[d] THEN @ ELSE 0]

\* The image a transfer is for
Meant(d) == IF Mounted(drive[d]) THEN drive[d].file ELSE MainPath(d)

\* FLOPPYEMUL_WRITE_SECTORS, within the image: the sector itself is abstracted
\* away.  (A write after the last sector makes the image longer.)  The write is
\* answered whichever branch it takes; card: the card refused the mount or the write.
WriteSector(d) ==
  \E mountOK \in Outcome("mount"), writeOK \in Outcome("write"), closeOK \in Outcome("sync") :
    LET c == EnsureMounted(Context(d), d, mountOK)
        written == [c EXCEPT !.d.unsynced = TRUE]
    IN /\ Serving
       /\ dropped' = IF c.d.state = "RW" /\ writeOK THEN {}
                     ELSE {[image |-> Meant(d),
                            card  |-> IF Mounted(c.d) THEN c.d.state = "RW" ELSE ~mountOK]}
       /\ IF c.d.state # "RW" THEN Refused(d, c)
          ELSE IF ~writeOK THEN Refused(d, Failed(c, closeOK))
          ELSE /\ TransferEnds(d, written)
               /\ MarkWriteDirty(d)
               /\ UNCHANGED <<pendingCycle, slot, change, failCount, tosImage>>
-----------------------------------------------------------------------------
(* floppy_tick *)

\* n failures were counted before this one
GivesUp(n) == n + 1 >= FailMax

Due(d)     == dirty[d] /\ drive[d].state = "RW" /\ dirtyAge[d] = FlushInterval
Dropped(d) == dirty[d] /\ drive[d].state # "RW"

\* One call looks at both drives; bad are those whose f_sync fails.
FloppyTick ==
  \E bad \in SUBSET {d \in Drives : Due(d) /\ drive[d].unsynced /\ "sync" \in Faults} :
    LET synced(d) == Due(d) /\ d \notin bad
        gaveUp(d) == d \in bad /\ GivesUp(failCount[d])
    IN /\ phase = "tick"
       /\ phase' = "cycle"
       /\ dirty' = [d \in Drives |-> dirty[d] /\ ~Dropped(d) /\ ~synced(d) /\ ~gaveUp(d)]
       /\ dirtyAge' = [d \in Drives |-> IF d \in bad THEN 0 ELSE dirtyAge[d]]
       /\ failCount' = [d \in Drives |-> IF Dropped(d) \/ synced(d) \/ gaveUp(d) THEN 0
                                         ELSE IF d \in bad THEN failCount[d] + 1
                                         ELSE failCount[d]]
       /\ refused' = refused \cup {drive[d].file : d \in bad}
       /\ drive' = [d \in Drives |->
            IF synced(d) THEN [drive[d] EXCEPT !.unsynced = FALSE]
            ELSE IF gaveUp(d) THEN [drive[d] EXCEPT !.state = "ERROR"]
            ELSE drive[d]]
       /\ dropped' = {}
       /\ UNCHANGED <<pendingCycle, slot, locked, change, tosImage, lost, strayed>>

Older(n) == IF n < FlushInterval THEN n + 1 ELSE n

Clock ==
  /\ dirtyAge' = [d \in Drives |-> IF dirty[d] THEN Older(dirtyAge[d]) ELSE dirtyAge[d]]
  /\ UNCHANGED <<phase, pendingCycle, slot, drive, locked, change, dirty, failCount,
                 tosImage, history>>
-----------------------------------------------------------------------------
Cycle   == NoCycle \/ CycleFails \/ CycleDriveA
Command == \/ NoCommand
           \/ \E d \in Drives, s \in Sectors : ReadSector(d, s)
           \/ \E d \in Drives : WriteSector(d)
Next    == Select \/ Cycle \/ Command \/ FloppyTick \/ Clock

Spec == Init /\ [][Next]_vars

\* Core 0 keeps going round its loop and time passes; nobody has to press
\* SELECT or to read or write.
FairSpec == Spec /\ WF_vars(Cycle \/ Command \/ FloppyTick) /\ WF_vars(Clock)
-----------------------------------------------------------------------------
(* Properties *)

TypeOK ==
  /\ phase \in {"cycle", "serve", "tick"} /\ pendingCycle \in BOOLEAN /\ slot \in Slots
  /\ drive \in [Drives -> [state : {"UNMOUNTED", "RW", "RO", "ERROR"},
                           file : Images \cup {NoImage}, unsynced : BOOLEAN,
                           emulated : BOOLEAN, bpb : Images \cup {NoImage}]]
  /\ locked \subseteq RWImages
  /\ media \in BOOLEAN /\ clearSector \in Nat
  /\ dirty \in [Drives -> BOOLEAN]
  /\ dirtyAge \in [Drives -> 0 .. FlushInterval]
  /\ failCount \in [Drives -> 0 .. FailMax - 1]
  /\ tosImage \in Images \cup {NoImage} /\ strayed \in BOOLEAN
  /\ lost \subseteq Images /\ refused \subseteq Images
  /\ dropped \subseteq [image : Images \cup {NoImage}, card : BOOLEAN]

\* Drive A serves the image of the slot that is current: the one the LED
\* announced and the next press of SELECT counts from.
SlotServed == Mounted(drive["A"]) => drive["A"].file = SlotPath[slot]

\* Whatever swaps, failed opens and fallbacks come in a row, the slot that is
\* current is that of the image drive A serves; only a drive mounted again by a
\* transfer (see SlotServed) strays, and the next swap puts it right.
SwapServed == strayed \/ SlotServed

\* When the Atari is told that the disk has not changed, the directory it has
\* is that of the image its reads and writes go to, whatever swaps, failed opens
\* and fallbacks came in between.
MediaHonest ==
  (Mounted(drive["A"]) /\ ~strayed /\ ~media /\ tosImage # NoImage) => drive["A"].file = tosImage

\* An image is locked only as long as a drive has it open, so that it can be
\* mounted again after an error or a swap; only an image the card refused to
\* flush may stay locked.
NoHandleLeak == \A i \in locked \ refused : \E d \in Drives : drive[d].file = i

\* No image is there to take a write, or it is only opened for reading, or it is
\* locked: the card refused to flush it, or the other drive is set to it as well.
Unwritable(i) ==
  \/ i \notin RWImages \cap Present
  \/ i \in refused
  \/ i = PathB /\ \E k \in Slots : i = SlotPath[k]

\* Every write is answered.  One whose data an image's FIL has taken is not lost
\* before it is flushed, unless the card refuses to flush that image; one that no
\* FIL takes is the card's refusal, or its image could not take any: no swap,
\* failed mount, failed transfer or unmount leaves a lock behind that costs a write.
NothingLost ==
  /\ lost \subseteq refused
  /\ \A w \in dropped : w.card \/ Unwritable(w.image)

\* Writes are flushed in the end, or the drive is marked in error, even if
\* writes keep coming (needs FairSpec).
EventuallyFlushed ==
  \A d \in Drives : (drive[d].state = "RW" /\ drive[d].unsynced)
                      ~> ~(drive[d].state = "RW" /\ drive[d].unsynced)

\* As long as SELECT keeps changing the slot, every configured slot comes:
\* cycling skips none and goes back to the first after the last.
EverySlotComes ==
  ([]<><<slot' # slot>>_slot) => \A k \in Configured : []<>(slot = k)
=============================================================================
