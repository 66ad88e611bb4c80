---------------------------- MODULE Floppy_proofs ----------------------------
(* Proofs about Floppy: whatever order swaps, transfers, flushes and failures   *)
(* of the card come in, drive A serves the image of the current slot, the Atari *)
(* is told when its directory is out of date, and no image is left locked or    *)
(* loses an answered write - for any images, slots and limits.                 *)
EXTENDS Floppy, FiniteSetTheorems, WellFoundedInduction, TLAPS

DriveStates == [state : {"UNMOUNTED", "RW", "RO", "ERROR"},
                file : Images \cup {NoImage}, unsynced : BOOLEAN,
                emulated : BOOLEAN, bpb : Images \cup {NoImage}]
Contexts    == [d : DriveStates, lk : SUBSET RWImages,
                lost : SUBSET Images, refused : SUBSET Images]

\* A drive that is not mounted has nothing open, or what could not be flushed.
Sound(s, refusals) ==
  /\ s.state = "UNMOUNTED" => s.file = NoImage
  /\ Mounted(s) => s.file # NoImage
  /\ s.unsynced => s.file # NoImage /\ (s.state = "RW" \/ s.file \in refusals)
  /\ s.state = "ERROR" => s.file \in refusals \cup {NoImage}

\* other: what the other drive has open
Good(c, other) ==
  /\ c \in Contexts
  /\ Sound(c.d, c.refused)
  /\ c.lost \subseteq c.refused
  /\ \A i \in c.lk \ c.refused : i = c.d.file \/ i = other

Other(d)   == IF d = "A" THEN "B" ELSE "A"
BothGood   == \A d \in Drives : Good(Context(d), drive[Other(d)].file)

\* What core 1 checked before it asked for a cycle.
CycleReady == pendingCycle => Configured # {}

\* The sector whose read clears the media change is the root of the image that
\* was announced.
PendingRoot == clearSector # 0 => clearSector = RootSector[SlotPath[slot]]

\* The directory the Atari has is that of the slot, even while A is not mounted.
DirectoryKnown == (~strayed /\ ~media /\ tosImage # NoImage) => tosImage = SlotPath[slot]

IInv == TypeOK /\ BothGood /\ CycleReady /\ PendingRoot /\ DirectoryKnown /\ SwapServed

MaybeImage == Images \cup {NoImage}
Drops      == [image : MaybeImage, card : BOOLEAN]
-----------------------------------------------------------------------------
(* One drive                                                                *)

LEMMA SlotFacts ==
  /\ 1 \in Slots /\ Slots = 1..Len(SlotPath) /\ Len(SlotPath) \in Nat
  /\ \A k \in Slots : SlotPath[k] \in MaybeImage
  /\ \A d \in Drives : MainPath(d) \in MaybeImage
BY FloppyAssumption DEF Slots, MainPath, MaybeImage

\* Opening keeps a drive sound that is not mounted, whatever it had open.
LEMMA OpenKeeps ==
  ASSUME NEW c, NEW o, Good(c, o), ~Mounted(c.d), NEW i \in MaybeImage, NEW ok \in BOOLEAN
  PROVE  /\ Good(Open(c, i, ok), o)
         /\ Open(c, i, ok).refused = c.refused
         /\ Mounted(Open(c, i, ok).d) => i \in Images /\ Open(c, i, ok).d.file = i
<1> DEFINE e == Open(c, i, ok)
<1>1. c \in Contexts /\ c.d \in DriveStates BY DEF Good, Contexts
<1>2. Forgotten(c) \subseteq c.refused /\ Forgotten(c) \subseteq Images
  BY <1>1 DEF Good, Sound, Forgotten, Mounted, Contexts, DriveStates
<1>3. \A j \in c.lk \ c.refused : j = o
  BY <1>1, FloppyAssumption DEF Good, Sound, Mounted, Contexts, DriveStates
<1>4. CASE i = NoImage
  <2>1. e = [c EXCEPT !.d = [c.d EXCEPT !.state = "ERROR"]] BY <1>1, <1>4 DEF Open, Contexts
  <2>2. /\ e.lk = c.lk /\ e.lost = c.lost /\ e.refused = c.refused
        /\ e.d = [c.d EXCEPT !.state = "ERROR"] /\ e \in Contexts
    BY <1>1, <2>1 DEF Contexts, DriveStates
  <2>3. /\ e.d.state = "ERROR" /\ e.d.file = c.d.file /\ e.d.unsynced = c.d.unsynced
    BY <1>1, <2>2 DEF DriveStates
  <2> QED BY <1>1, <2>2, <2>3 DEF Good, Sound, Mounted, DriveStates
<1>5. CASE i # NoImage /\ OpenSucceeds(c, i, ok)
  <2> DEFINE f == [state |-> IF i \in RWImages THEN "RW" ELSE "RO",
                   file |-> i, unsynced |-> FALSE, emulated |-> TRUE, bpb |-> i]
  <2>1. e = [c EXCEPT !.d = f, !.lk = c.lk \cup ({i} \cap RWImages), !.lost = Forgotten(c)]
    BY <1>1, <1>5 DEF Open, Contexts
  <2>2. i \in Images BY <1>5, FloppyAssumption DEF OpenSucceeds
  <2>3. f \in DriveStates BY <2>2 DEF DriveStates
  <2> HIDE DEF f
  <2>4. /\ e.d = f /\ e.lk = c.lk \cup ({i} \cap RWImages)
        /\ e.lost = Forgotten(c) /\ e.refused = c.refused /\ e \in Contexts
    BY <1>1, <1>2, <2>1, <2>3 DEF Contexts
  <2>5. f.state # "UNMOUNTED" /\ f.state # "ERROR" /\ f.file = i /\ ~f.unsynced BY DEF f
  <2> QED BY <1>2, <1>3, <1>5, <2>2, <2>4, <2>5 DEF Good, Sound, Mounted
<1>6. CASE i # NoImage /\ ~OpenSucceeds(c, i, ok)
  <2> DEFINE f == [c.d EXCEPT !.state = "ERROR", !.file = NoImage, !.unsynced = FALSE]
  <2>1. e = [c EXCEPT !.d = f, !.lost = Forgotten(c)]
    BY <1>1, <1>6 DEF Open, Contexts, DriveStates
  <2>2. f \in DriveStates /\ f.state = "ERROR" /\ f.file = NoImage /\ f.unsynced = FALSE
    BY <1>1 DEF DriveStates
  <2> HIDE DEF f
  <2>3. /\ e.d = f /\ e.lk = c.lk /\ e.lost = Forgotten(c) /\ e.refused = c.refused
        /\ e \in Contexts
    BY <1>1, <1>2, <2>1, <2>2 DEF Contexts
  <2> QED BY <1>2, <1>3, <2>2, <2>3 DEF Good, Sound, Mounted
<1> QED BY <1>4, <1>5, <1>6

\* Closing empties the drive, or what it has open was refused.
LEMMA CloseKeeps ==
  ASSUME NEW c, NEW o, Good(c, o), Mounted(c.d), NEW ok \in BOOLEAN
  PROVE  LET e == ImgClose(c, ok)
         IN  /\ e \in Contexts /\ c.refused \subseteq e.refused /\ e.lost \subseteq e.refused
             /\ \A i \in e.lk \ e.refused : i = o
             /\ e.d.file = NoImage => ~e.d.unsynced
             /\ e.d.file # NoImage => e.d.file \in e.refused /\ ~ok
             /\ e.d.bpb = c.d.bpb /\ e.d.state = c.d.state
<1> DEFINE e == ImgClose(c, ok)
<1>1. c \in Contexts /\ c.d \in DriveStates /\ c.d.file \in Images
  BY DEF Good, Sound, Contexts, DriveStates
<1>2. CASE c.d.unsynced /\ ~ok
  <2>1. e = [c EXCEPT !.refused = c.refused \cup {c.d.file}] BY <1>1, <1>2 DEF ImgClose, Contexts
  <2>2. /\ e.d = c.d /\ e.lk = c.lk /\ e.lost = c.lost /\ e.refused = c.refused \cup {c.d.file}
        /\ e \in Contexts
    BY <1>1, <2>1 DEF Contexts
  <2> QED BY <1>1, <1>2, <2>2, FloppyAssumption DEF Good
<1>3. CASE ~(c.d.unsynced /\ ~ok)
  <2> DEFINE f == [c.d EXCEPT !.file = NoImage, !.unsynced = FALSE]
  <2>1. e = [c EXCEPT !.d = f, !.lk = c.lk \ {c.d.file}]
    BY <1>1, <1>3 DEF ImgClose, Contexts, DriveStates
  <2>2. /\ f \in DriveStates /\ f.file = NoImage /\ f.unsynced = FALSE
        /\ f.bpb = c.d.bpb /\ f.state = c.d.state
    BY <1>1 DEF DriveStates
  <2> HIDE DEF f
  <2>3. /\ e.d = f /\ e.lk = c.lk \ {c.d.file} /\ e.lost = c.lost /\ e.refused = c.refused
        /\ e \in Contexts
    BY <1>1, <2>1, <2>2 DEF Contexts
  <2> QED BY <1>1, <2>2, <2>3 DEF Good
<1> QED BY <1>2, <1>3

\* A transfer that fails closes the image and marks the drive.
LEMMA FailedKeeps ==
  ASSUME NEW c, NEW o, Good(c, o), Mounted(c.d), NEW ok \in BOOLEAN
  PROVE  /\ Good(Failed(c, ok), o)
         /\ c.refused \subseteq Failed(c, ok).refused
         /\ ~Mounted(Failed(c, ok).d)
<1> DEFINE e == ImgClose(c, ok)
           g == Failed(c, ok)
<1>1. /\ e \in Contexts /\ e.d \in DriveStates
      /\ c.refused \subseteq e.refused /\ e.lost \subseteq e.refused
      /\ \A i \in e.lk \ e.refused : i = o
      /\ e.d.file = NoImage => ~e.d.unsynced
      /\ e.d.file # NoImage => e.d.file \in e.refused
  BY CloseKeeps DEF Contexts
<1> HIDE DEF e
<1>2. g = [e EXCEPT !.d = [e.d EXCEPT !.state = "ERROR"]] BY <1>1 DEF Failed, Contexts, e
<1>3. /\ g.lk = e.lk /\ g.lost = e.lost /\ g.refused = e.refused
      /\ g.d = [e.d EXCEPT !.state = "ERROR"] /\ g \in Contexts
  BY <1>1, <1>2 DEF Contexts, DriveStates
<1>4. g.d.state = "ERROR" /\ g.d.file = e.d.file /\ g.d.unsynced = e.d.unsynced
  BY <1>1, <1>3 DEF DriveStates
<1> QED BY <1>1, <1>3, <1>4 DEF Good, Sound, Mounted

LEMMA UnmountKeeps ==
  ASSUME NEW c, NEW o, Good(c, o), NEW ok \in BOOLEAN
  PROVE  /\ Good(Unmount(c, ok), o)
         /\ c.refused \subseteq Unmount(c, ok).refused
         /\ ~Mounted(Unmount(c, ok).d)
<1> DEFINE g == Unmount(c, ok)
           f == [Closed EXCEPT !.bpb = c.d.bpb]
<1>1. c \in Contexts /\ c.d \in DriveStates BY DEF Good, Contexts
<1>2. f \in DriveStates /\ f.state = "UNMOUNTED" /\ f.file = NoImage /\ f.unsynced = FALSE
  BY <1>1 DEF Closed, DriveStates
<1> HIDE DEF f
<1>3. CASE Mounted(c.d)
  <2> DEFINE e == ImgClose(c, ok)
  <2>1. /\ e \in Contexts /\ e.d \in DriveStates
        /\ c.refused \subseteq e.refused /\ e.lost \subseteq e.refused
        /\ \A i \in e.lk \ e.refused : i = o
        /\ e.d.file # NoImage => e.d.file \in e.refused
    BY <1>3, CloseKeeps DEF Contexts
  <2> HIDE DEF e
  <2>2. CASE e.d.file # NoImage
    <3>1. g = [e EXCEPT !.d = [e.d EXCEPT !.state = "ERROR"]]
      BY <1>3, <2>1, <2>2 DEF Unmount, Contexts, e
    <3>2. /\ g.lk = e.lk /\ g.lost = e.lost /\ g.refused = e.refused
          /\ g.d = [e.d EXCEPT !.state = "ERROR"] /\ g \in Contexts
      BY <2>1, <3>1 DEF Contexts, DriveStates
    <3>3. g.d.state = "ERROR" /\ g.d.file = e.d.file BY <2>1, <3>2 DEF DriveStates
    <3> QED BY <2>1, <2>2, <3>2, <3>3 DEF Good, Sound, Mounted
  <2>3. CASE e.d.file = NoImage
    <3>1. g = [e EXCEPT !.d = f] BY <1>3, <2>3 DEF Unmount, e, f
    <3>2. /\ g.lk = e.lk /\ g.lost = e.lost /\ g.refused = e.refused
          /\ g.d = f /\ g \in Contexts
      BY <1>2, <2>1, <3>1 DEF Contexts
    <3> QED BY <1>2, <2>1, <3>2 DEF Good, Sound, Mounted
  <2> QED BY <2>2, <2>3
<1>4. CASE ~Mounted(c.d)
  <2>1. Forgotten(c) \subseteq c.refused /\ Forgotten(c) \subseteq Images
    BY <1>1, <1>4 DEF Good, Sound, Forgotten, Mounted, Contexts, DriveStates
  <2>2. \A j \in c.lk \ c.refused : j = o
    BY <1>1, <1>4, FloppyAssumption DEF Good, Sound, Mounted, Contexts, DriveStates
  <2>3. g = [c EXCEPT !.d = f, !.lost = Forgotten(c)] BY <1>4 DEF Unmount, f
  <2>4. /\ g.lk = c.lk /\ g.lost = Forgotten(c) /\ g.refused = c.refused
        /\ g.d = f /\ g \in Contexts
    BY <1>1, <1>2, <2>1, <2>3 DEF Contexts
  <2> QED BY <1>2, <2>1, <2>2, <2>4 DEF Good, Sound, Mounted
<1> QED BY <1>3, <1>4

LEMMA FallbackKeeps ==
  ASSUME NEW c, NEW o, Good(c, o), ~Mounted(c.d), NEW p \in DriveStates, NEW ok \in BOOLEAN
  PROVE  LET g == Fallback(c, p, ok)
         IN  /\ Good(g, o) /\ g.refused = c.refused
             /\ Mounted(g.d) => p.state # "ERROR" /\ p.file # NoImage /\ g.d.file = p.file
BY OpenKeeps DEF Fallback, DriveStates, MaybeImage
-----------------------------------------------------------------------------
(* Both drives                                                              *)

LEMMA Pair ==
  /\ Drives = {"A", "B"} /\ Other("A") = "B" /\ Other("B") = "A"
  /\ \A d \in Drives : Other(d) \in Drives /\ Other(d) # d /\ Other(Other(d)) = d
  /\ \A d, e \in Drives : e = d \/ e = Other(d)
BY DEF Drives, Other

LEMMA Typing ==
  ASSUME TypeOK
  PROVE  drive \in [Drives -> DriveStates] /\ \A d \in Drives : drive[d] \in DriveStates
BY DEF TypeOK, DriveStates

\* What a handler leaves of one drive does not disturb the other.
LEMMA SetDriveKeeps ==
  ASSUME TypeOK, BothGood, NEW d \in Drives, NEW c, Good(c, drive[Other(d)].file),
         refused \subseteq c.refused, SetDrive(d, c)
  PROVE  /\ BothGood' /\ drive' \in [Drives -> DriveStates]
         /\ drive'[d] = c.d /\ drive'[Other(d)] = drive[Other(d)]
         /\ locked' \subseteq RWImages /\ lost' \subseteq Images /\ refused' \subseteq Images
<1> DEFINE o == Other(d)
<1>1. o \in Drives /\ o # d /\ Other(o) = d /\ \A e \in Drives : e = d \/ e = o BY Pair
<1>2. c.d \in DriveStates /\ c.lk \subseteq RWImages /\ c.lost \subseteq Images
      /\ c.refused \subseteq Images
  BY DEF Good, Contexts
<1>3. /\ drive' = [drive EXCEPT ![d] = c.d]
      /\ locked' = c.lk /\ lost' = c.lost /\ refused' = c.refused
  BY DEF SetDrive
<1>4. drive'[d] = c.d /\ drive'[o] = drive[o] /\ drive' \in [Drives -> DriveStates]
  BY <1>1, <1>2, <1>3, Typing
<1>5. Context(d)' = c
  <2>1. c = [d |-> c.d, lk |-> c.lk, lost |-> c.lost, refused |-> c.refused]
    BY DEF Good, Contexts
  <2> QED BY <1>3, <1>4, <2>1 DEF Context
<1>6. Good(Context(d)', drive'[o].file) BY <1>4, <1>5
<1>7. Good(Context(o)', drive'[d].file)
  <2>1. Sound(drive[o], refused) BY <1>1 DEF BothGood, Good, Context
  <2>2. Sound(drive'[o], refused') BY <1>3, <1>4, <2>1 DEF Sound
  <2>3. \A i \in locked' \ refused' : i = drive'[o].file \/ i = drive'[d].file
    BY <1>3, <1>4 DEF Good
  <2>4. lost' \subseteq refused' BY <1>3 DEF Good
  <2>5. Context(o)' = [d |-> drive'[o], lk |-> locked', lost |-> lost', refused |-> refused']
    BY DEF Context
  <2>6. Context(o)' \in Contexts BY <1>1, <1>2, <1>3, <1>4, <2>5 DEF Contexts
  <2> QED BY <2>2, <2>3, <2>4, <2>5, <2>6 DEF Good
<1>8. BothGood' BY <1>1, <1>6, <1>7 DEF BothGood
<1> QED BY <1>2, <1>3, <1>4, <1>8

LEMMA SameDrives ==
  ASSUME BothGood, UNCHANGED <<drive, locked, lost, refused>> PROVE BothGood'
BY DEF BothGood, Context

\* A transfer's drive before the transfer: as it was, or mounted by its main setting.
LEMMA EnsureKeeps ==
  ASSUME TypeOK, BothGood, NEW d \in Drives, NEW ok \in BOOLEAN
  PROVE  LET c == EnsureMounted(Context(d), d, ok)
         IN  /\ Good(c, drive[Other(d)].file) /\ c.refused = refused
             /\ Mounted(drive[d]) => c.d = drive[d]
             /\ ~Mounted(drive[d]) /\ Mounted(c.d) => c.d.file = MainPath(d)
             /\ Mounted(c.d) => c.d.file \in Images
<1> DEFINE c == EnsureMounted(Context(d), d, ok)
<1>1. Good(Context(d), drive[Other(d)].file) BY DEF BothGood
<1>2. Context(d).d = drive[d] /\ Context(d).refused = refused BY DEF Context
<1>3. MainPath(d) \in MaybeImage BY SlotFacts
<1>4. Good(c, drive[Other(d)].file) /\ c.refused = refused
      /\ (Mounted(drive[d]) => c.d = drive[d])
      /\ (~Mounted(drive[d]) /\ Mounted(c.d) => c.d.file = MainPath(d))
  BY <1>1, <1>2, <1>3, OpenKeeps DEF EnsureMounted, VDriveOpen
<1>5. Mounted(c.d) => c.d.file \in Images
  BY <1>4 DEF Good, Sound, Contexts, DriveStates
<1> QED BY <1>4, <1>5

\* The end of a transfer, for the drive and for which image A serves.
LEMMA TransferKeeps ==
  ASSUME IInv, NEW d \in Drives, NEW ok \in BOOLEAN, NEW c,
         Good(c, drive[Other(d)].file), refused \subseteq c.refused,
         Mounted(c.d) => /\ Mounted(EnsureMounted(Context(d), d, ok).d)
                         /\ c.d.file = EnsureMounted(Context(d), d, ok).d.file,
         TransferEnds(d, c), slot' = slot
  PROVE  /\ BothGood' /\ drive' \in [Drives -> DriveStates] /\ strayed' \in BOOLEAN
         /\ locked' \subseteq RWImages /\ lost' \subseteq Images /\ refused' \subseteq Images
         /\ SwapServed' /\ (strayed => strayed') /\ drive'[d] = c.d
<1> USE DEF IInv
<1>1. SetDrive(d, c)
      /\ strayed' = (strayed \/ (d = "A" /\ ~Mounted(drive["A"]) /\ Mounted(c.d) /\ slot # 1))
  BY DEF TransferEnds
<1>2. /\ BothGood' /\ drive' \in [Drives -> DriveStates]
      /\ drive'[d] = c.d /\ drive'[Other(d)] = drive[Other(d)]
      /\ locked' \subseteq RWImages /\ lost' \subseteq Images /\ refused' \subseteq Images
  BY <1>1, SetDriveKeeps
<1>3. strayed' \in BOOLEAN /\ (strayed => strayed') BY <1>1 DEF TypeOK
<1>4. SwapServed'
  <2>1. CASE d = "B" BY <1>1, <1>2, <2>1, Pair DEF SwapServed, SlotServed
  <2>2. CASE d = "A"
    <3>1. CASE Mounted(drive["A"]) BY <1>1, <1>2, <2>2, <3>1, EnsureKeeps DEF SwapServed, SlotServed
    <3>2. CASE ~Mounted(drive["A"])
      BY <1>1, <1>2, <2>2, <3>2, EnsureKeeps DEF SwapServed, SlotServed, MainPath
    <3> QED BY <3>1, <3>2
  <2> QED BY <2>1, <2>2 DEF Drives
<1> QED BY <1>2, <1>3, <1>4
-----------------------------------------------------------------------------
(* The slot that comes next                                                 *)

LEMMA SmallestMember ==
  ASSUME NEW T, T \subseteq Nat, T # {} PROVE \E x \in T : \A y \in T : x <= y
<1> DEFINE R == OpToRel(<, Nat)
<1>1. PICK x \in T : \A y \in T : <<y, x>> \notin R BY NatLessThanWellFounded, WFMin
<1>2. ASSUME NEW y \in T, y < x PROVE <<y, x>> \in R
  <2>1. <<y, x>> \in Nat \X Nat OBVIOUS
  <2>2. \E p \in Nat \X Nat : p = <<y, x>> /\ p[1] < p[2] BY <1>2, <2>1
  <2> QED BY <2>1, <2>2, Zenon DEF OpToRel
<1> HIDE DEF R
<1>3. \A y \in T : ~(y < x) BY <1>1, <1>2, Zenon
<1> QED BY <1>3

\* Going round the slots from k ends at a configured one, if there is any.
LEMMA NextSlotConfigured ==
  ASSUME NEW k \in Slots, Configured # {} PROVE NextSlot(k) \in Configured
<1> DEFINE steps(j) == IF j > k THEN j - k ELSE j - k + Cardinality(Slots)
           T == {steps(j) : j \in Configured}
<1>1. Configured \subseteq Slots BY DEF Configured
<1>2. Cardinality(Slots) = Len(SlotPath) BY SlotFacts, FS_Interval
<1>3. \A j \in Slots : steps(j) \in Nat BY <1>2, SlotFacts
<1>4. T \subseteq Nat /\ T # {} BY <1>1, <1>3
<1>5. PICK x \in T : \A y \in T : x <= y
  <2> HIDE DEF T
  <2> QED BY <1>4, SmallestMember
<1>6. \E j \in Configured : \A i \in Configured : steps(j) <= steps(i) BY <1>5
<1> HIDE DEF steps
<1>7. (CHOOSE j \in Configured : \A i \in Configured : steps(j) <= steps(i)) \in Configured
  BY <1>6
<1> QED BY <1>7 DEF NextSlot, steps
-----------------------------------------------------------------------------
(* The steps                                                                *)

\* floppy_init: A is opened first, then B beside it.
LEMMA InitInv == Init => IInv
<1> SUFFICES ASSUME Init PROVE IInv OBVIOUS
<1> DEFINE Start(lk) == [d |-> Closed, lk |-> lk, lost |-> {}, refused |-> {}]
           Opened(lk, d) == LET c == VDriveOpen(Start(lk), d, TRUE)
                            IN IF Mounted(c.d) THEN c ELSE [c EXCEPT !.d = Closed]
<1>1. Closed \in DriveStates /\ Closed.state = "UNMOUNTED" /\ Closed.file = NoImage
      /\ Closed.unsynced = FALSE /\ ~Mounted(Closed)
  BY DEF Closed, DriveStates, Mounted
<1>2. ASSUME NEW lk \in SUBSET RWImages, NEW o, \A i \in lk : i = o
      PROVE  Good(Start(lk), o)
  <2>1. Start(lk) \in Contexts BY <1>1 DEF Contexts
  <2> QED BY <1>1, <1>2, <2>1 DEF Good, Sound
<1>3. ASSUME NEW o, NEW d \in Drives, NEW lk \in SUBSET RWImages, Good(Start(lk), o)
      PROVE  /\ Good(Opened(lk, d), o) /\ Opened(lk, d).refused = {} /\ Opened(lk, d).lost = {}
             /\ Mounted(Opened(lk, d).d) \/ Opened(lk, d).d = Closed
             /\ Mounted(Opened(lk, d).d) => Opened(lk, d).d.file = MainPath(d)
  <2> DEFINE c == VDriveOpen(Start(lk), d, TRUE)
             e == Opened(lk, d)
  <2>1. Good(c, o) /\ c.refused = {} /\ (Mounted(c.d) => c.d.file = MainPath(d))
    BY <1>1, <1>3, SlotFacts, OpenKeeps DEF VDriveOpen
  <2>2. CASE Mounted(c.d) BY <1>3, <2>1, <2>2 DEF Good
  <2>3. CASE ~Mounted(c.d)
    <3>1. e = [c EXCEPT !.d = Closed] BY <1>3, <2>3
    <3> HIDE DEF c, e
    <3>2. /\ e.d = Closed /\ e.lk = c.lk /\ e.lost = c.lost /\ e.refused = c.refused
          /\ e \in Contexts
      BY <1>1, <2>1, <3>1 DEF Good, Contexts
    <3>3. c.d.file = NoImage \/ c.d.file \notin c.lk
      BY <2>1, <2>3 DEF Good, Sound, Mounted, Contexts, DriveStates
    <3>4. \A i \in c.lk : i = o
      BY <2>1, <3>3, FloppyAssumption DEF Good, Contexts
    <3>5. c.lost = {} BY <2>1 DEF Good
    <3>6. Good(e, o) /\ e.refused = {} /\ e.lost = {}
      BY <1>1, <2>1, <3>2, <3>4, <3>5 DEF Good, Sound
    <3>7. ~Mounted(e.d) BY <1>1, <3>2
    <3> QED BY <3>2, <3>6, <3>7 DEF e
  <2> QED BY <2>2, <2>3
<1>4. InitA = Opened({}, "A") /\ InitB = Opened(InitA.lk, "B") BY DEF InitA, InitB
<1> HIDE DEF Start, Opened
<1>5. /\ Good(InitA, NoImage) /\ InitA.refused = {} /\ InitA.lost = {}
      /\ Mounted(InitA.d) \/ InitA.d = Closed
      /\ Mounted(InitA.d) => InitA.d.file = MainPath("A")
  <2>1. Good(Start({}), NoImage) BY <1>2
  <2> QED BY <1>3, <1>4, <2>1, Pair
<1>6. /\ Good(InitB, InitA.d.file) /\ InitB.refused = {} /\ InitB.lost = {}
      /\ Mounted(InitB.d) \/ InitB.d = Closed
  <2>1. InitA.lk \subseteq RWImages /\ \A i \in InitA.lk : i = InitA.d.file
    BY <1>5, FloppyAssumption DEF Good, Contexts
  <2>2. Good(Start(InitA.lk), InitA.d.file) BY <1>2, <2>1
  <2> QED BY <1>3, <1>4, <2>1, <2>2, Pair
<1>7. /\ drive["A"] = InitA.d /\ drive["B"] = InitB.d
      /\ locked = InitB.lk /\ lost = {} /\ refused = {}
  BY DEF Init, Drives
<1>8. drive["A"] \in DriveStates /\ drive["B"] \in DriveStates /\ locked \subseteq RWImages
  BY <1>5, <1>6, <1>7 DEF Good, Contexts
<1>9. Good(Context("B"), drive["A"].file)
  <2>1. InitB = [d |-> InitB.d, lk |-> InitB.lk, lost |-> InitB.lost, refused |-> InitB.refused]
    BY <1>6 DEF Good, Contexts
  <2>2. Context("B") = InitB BY <1>6, <1>7, <2>1 DEF Context
  <2> QED BY <1>6, <1>7, <2>2
<1>10. Good(Context("A"), drive["B"].file)
  <2>1. Context("A") = [d |-> InitA.d, lk |-> InitB.lk, lost |-> {}, refused |-> {}]
    BY <1>7 DEF Context
  <2>2. Context("A") \in Contexts BY <1>7, <1>8, <2>1 DEF Contexts
  <2>3. Sound(InitA.d, {}) BY <1>5 DEF Good
  <2>4. \A i \in InitB.lk : i = InitB.d.file \/ i = InitA.d.file BY <1>6 DEF Good
  <2> QED BY <1>7, <2>1, <2>2, <2>3, <2>4 DEF Good
<1>11. BothGood BY <1>9, <1>10 DEF BothGood, Drives, Other
<1>12. TypeOK
  <2>1. drive \in [Drives -> DriveStates] BY <1>8 DEF Init, Drives
  <2>2. tosImage \in Images \cup {NoImage} BY <1>7, <1>8 DEF Init, DriveStates
  <2>3. /\ dirty \in [Drives -> BOOLEAN] /\ dirtyAge \in [Drives -> 0 .. FlushInterval]
        /\ failCount \in [Drives -> 0 .. FailMax - 1]
    BY FloppyAssumption DEF Init
  <2>4. /\ phase = "cycle" /\ pendingCycle \in BOOLEAN /\ slot \in Slots /\ media \in BOOLEAN
        /\ clearSector = 0 /\ strayed \in BOOLEAN /\ dropped = {}
    BY SlotFacts DEF Init
  <2> QED BY <1>7, <1>8, <2>1, <2>2, <2>3, <2>4 DEF TypeOK, DriveStates
<1>13. SwapServed /\ DirectoryKnown
  <2>1. Mounted(InitA.d) => InitA.d.file = SlotPath[1] BY <1>5 DEF MainPath
  <2>2. InitA.d.file # NoImage => Mounted(InitA.d) BY <1>1, <1>5
  <2> QED BY <1>7, <2>1, <2>2 DEF Init, SwapServed, SlotServed, DirectoryKnown
<1>14. CycleReady /\ PendingRoot BY DEF Init, CycleReady, PendingRoot
<1> QED BY <1>11, <1>12, <1>13, <1>14 DEF IInv

LEMMA SelectInv == ASSUME IInv, Select PROVE IInv'
<1> USE DEF IInv
<1>1. UNCHANGED <<drive, slot, strayed>> /\ BothGood'
  BY SameDrives DEF Select, history
<1>2. Configured # {}
  <2>1. CASE Configured = {} BY <2>1, FS_EmptySet DEF Select
  <2> QED BY <2>1
<1>3. CycleReady' BY <1>2 DEF CycleReady, Configured
<1>4. TypeOK' BY DEF Select, TypeOK, change, flush, history
<1>5. PendingRoot' /\ DirectoryKnown' /\ SwapServed'
  BY DEF Select, PendingRoot, DirectoryKnown, SwapServed, SlotServed, change, history
<1> QED BY <1>1, <1>3, <1>4, <1>5

\* Steps that leave drives, slot and media change alone.
LEMMA IdleInv ==
  ASSUME IInv, UNCHANGED <<slot, drive, locked, change, flush, tosImage, history>>,
         phase' \in {"cycle", "serve", "tick"}, pendingCycle' \in {pendingCycle, FALSE}
  PROVE  IInv'
<1> USE DEF IInv
<1>1. BothGood' BY SameDrives DEF history
<1>2. TypeOK' BY DEF TypeOK, change, flush, history
<1>3. CycleReady' BY DEF CycleReady, Configured
<1>4. PendingRoot' /\ DirectoryKnown' /\ SwapServed'
  BY DEF PendingRoot, DirectoryKnown, SwapServed, SlotServed, change, history
<1> QED BY <1>1, <1>2, <1>3, <1>4

LEMMA CycleFailsInv == ASSUME IInv, CycleFails PROVE IInv'
<1> USE DEF IInv
<1> DEFINE c == Unmount(Context("A"), FALSE)
<1>1. Good(Context("A"), drive[Other("A")].file) /\ Context("A").refused = refused
  BY Pair DEF BothGood, Context
<1>2. Good(c, drive[Other("A")].file) /\ refused \subseteq c.refused /\ ~Mounted(c.d)
  BY <1>1, UnmountKeeps
<1>3. /\ SetDrive("A", c) /\ phase' = "serve" /\ ~pendingCycle' /\ pendingCycle' \in BOOLEAN
      /\ dropped' = {}
      /\ UNCHANGED <<slot, change, flush, tosImage, strayed>>
  BY DEF CycleFails
<1> HIDE DEF c
<1>4. /\ BothGood' /\ drive' \in [Drives -> DriveStates] /\ drive'["A"] = c.d
      /\ locked' \subseteq RWImages /\ lost' \subseteq Images /\ refused' \subseteq Images
  BY <1>2, <1>3, SetDriveKeeps, Pair
<1>5. TypeOK' BY <1>3, <1>4 DEF TypeOK, DriveStates, change, flush
<1>6. SwapServed' BY <1>2, <1>4 DEF SwapServed, SlotServed
<1>7. CycleReady' /\ PendingRoot' /\ DirectoryKnown'
  BY <1>3 DEF CycleReady, PendingRoot, DirectoryKnown, change
<1> QED BY <1>4, <1>5, <1>6, <1>7

\* The next image is mounted, or the previous one again: if A was serving its
\* slot, the slot that is current afterwards is that of what it serves.
LEMMA CycleDriveAInv == ASSUME IInv, CycleDriveA PROVE IInv'
<1> USE DEF IInv
<1>1. PICK mountOK \in Outcome("mount"), reopenOK \in Outcome("reopen") :
        LET next  == NextSlot(slot)
            empty == Unmount(Context("A"), TRUE)
            new   == Open(empty, SlotPath[next], mountOK)
            ok    == Mounted(new.d)
            root  == RootSector[SlotPath[next]]
        IN /\ phase = "cycle" /\ pendingCycle /\ next # slot
           /\ phase' = "serve" /\ pendingCycle' = FALSE
           /\ SetDrive("A", IF ok THEN new ELSE Fallback(new, drive["A"], reopenOK))
           /\ dropped' = {}
           /\ slot' = IF ok THEN next ELSE slot
           /\ strayed' = (strayed /\ ~ok)
           /\ media' = (ok \/ media)
           /\ clearSector' = IF ok THEN root ELSE 0
           /\ UNCHANGED <<flush, tosImage>>
  BY DEF CycleDriveA
<1> DEFINE next  == NextSlot(slot)
           empty == Unmount(Context("A"), TRUE)
           new   == Open(empty, SlotPath[next], mountOK)
           back  == Fallback(new, drive["A"], reopenOK)
           o     == drive[Other("A")].file
<1>2. mountOK \in BOOLEAN /\ reopenOK \in BOOLEAN BY DEF Outcome
<1>3. next \in Slots /\ SlotPath[next] \in MaybeImage
  <2>1. slot \in Slots /\ Configured # {} BY <1>1 DEF TypeOK, CycleReady
  <2>2. next \in Configured BY <2>1, NextSlotConfigured
  <2> QED BY <2>2, SlotFacts DEF Configured
<1>4. /\ Good(Context("A"), o) /\ Context("A").refused = refused
      /\ Context("A").d = drive["A"] /\ drive["A"] \in DriveStates
  BY Pair, Typing DEF BothGood, Context
<1>5. Good(empty, o) /\ refused \subseteq empty.refused /\ ~Mounted(empty.d)
  BY <1>4, UnmountKeeps
<1> HIDE DEF next, empty
<1>6. /\ Good(new, o) /\ refused \subseteq new.refused
      /\ Mounted(new.d) => SlotPath[next] \in Images /\ new.d.file = SlotPath[next]
  BY <1>2, <1>3, <1>5, OpenKeeps
<1> HIDE DEF new
<1>7. ~Mounted(new.d) =>
        /\ Good(back, o) /\ refused \subseteq back.refused
        /\ Mounted(back.d) => /\ drive["A"].state # "ERROR" /\ drive["A"].file # NoImage
                              /\ back.d.file = drive["A"].file
  BY <1>2, <1>4, <1>6, FallbackKeeps
<1> HIDE DEF back
<1> DEFINE c == IF Mounted(new.d) THEN new ELSE back
<1>8. /\ phase' = "serve" /\ pendingCycle' = FALSE /\ SetDrive("A", c) /\ dropped' = {}
      /\ slot' = IF Mounted(new.d) THEN next ELSE slot
      /\ strayed' = (strayed /\ ~Mounted(new.d))
      /\ media' = (Mounted(new.d) \/ media)
      /\ clearSector' = IF Mounted(new.d) THEN RootSector[SlotPath[next]] ELSE 0
      /\ UNCHANGED <<flush, tosImage>>
  BY <1>1 DEF next, empty, new, back
<1>9. Good(c, o) /\ refused \subseteq c.refused BY <1>6, <1>7
<1>10. /\ BothGood' /\ drive' \in [Drives -> DriveStates] /\ drive'["A"] = c.d
       /\ locked' \subseteq RWImages /\ lost' \subseteq Images /\ refused' \subseteq Images
  BY <1>8, <1>9, SetDriveKeeps, Pair
<1>11. TypeOK'
  <2>1. slot' \in Slots /\ media' \in BOOLEAN /\ strayed' \in BOOLEAN
    BY <1>3, <1>8 DEF TypeOK
  <2>2. clearSector' \in Nat BY <1>6, <1>8, FloppyAssumption
  <2> QED BY <1>8, <1>10, <2>1, <2>2 DEF TypeOK, DriveStates, flush
<1>12. SwapServed'
  <2>1. CASE Mounted(new.d) BY <1>6, <1>8, <1>10, <2>1 DEF SwapServed, SlotServed
  <2>2. CASE ~Mounted(new.d)
    <3>1. SUFFICES ASSUME ~strayed, Mounted(back.d) PROVE back.d.file = SlotPath[slot]
      BY <1>8, <1>10, <2>2 DEF SwapServed, SlotServed
    <3>2. drive["A"].state # "ERROR" /\ drive["A"].file # NoImage
          /\ back.d.file = drive["A"].file
      BY <1>7, <2>2, <3>1
    <3>3. Mounted(drive["A"]) BY <1>4, <3>2 DEF Good, Sound, Mounted, DriveStates
    <3> QED BY <3>1, <3>2, <3>3 DEF SwapServed, SlotServed
  <2> QED BY <2>1, <2>2
<1>13. CycleReady' /\ PendingRoot' /\ DirectoryKnown'
  BY <1>8 DEF CycleReady, PendingRoot, DirectoryKnown
<1> QED BY <1>10, <1>11, <1>12, <1>13
\* A transfer that ends early, or with an error.
LEMMA RefusedInv ==
  ASSUME IInv, NEW d \in Drives, NEW ok \in BOOLEAN, NEW c,
         Good(c, drive[Other(d)].file), refused \subseteq c.refused,
         Mounted(c.d) => /\ Mounted(EnsureMounted(Context(d), d, ok).d)
                         /\ c.d.file = EnsureMounted(Context(d), d, ok).d.file,
         Serving, Refused(d, c), dropped' \subseteq Drops
  PROVE  IInv'
<1> USE DEF IInv
<1>1. /\ TransferEnds(d, c) /\ phase' = "tick"
      /\ UNCHANGED <<pendingCycle, slot, change, flush, tosImage>>
  BY DEF Refused, Serving
<1>2. /\ BothGood' /\ drive' \in [Drives -> DriveStates] /\ strayed' \in BOOLEAN
      /\ locked' \subseteq RWImages /\ lost' \subseteq Images /\ refused' \subseteq Images
      /\ SwapServed' /\ (strayed => strayed')
  BY <1>1, TransferKeeps
<1>3. TypeOK' BY <1>1, <1>2 DEF TypeOK, DriveStates, MaybeImage, Drops, change, flush
<1>4. CycleReady' /\ PendingRoot' /\ DirectoryKnown'
  BY <1>1, <1>2 DEF CycleReady, Configured, PendingRoot, DirectoryKnown, change
<1> QED BY <1>2, <1>3, <1>4

\* A read of the root directory that clears the media change gives the Atari
\* the directory of the image that was announced.
LEMMA ReadSectorInv ==
  ASSUME IInv, NEW d \in Drives, NEW s \in Sectors, ReadSector(d, s) PROVE IInv'
<1> USE DEF IInv
<1>1. PICK mountOK \in Outcome("mount"), readOK \in Outcome("read"), closeOK \in Outcome("sync") :
        LET c == EnsureMounted(Context(d), d, mountOK)
        IN /\ Serving /\ dropped' = {}
           /\ IF ~Mounted(c.d) THEN Refused(d, c)
              ELSE IF s = Size[c.d.file] \/ ~readOK THEN Refused(d, Failed(c, closeOK))
              ELSE /\ TransferEnds(d, c)
                   /\ media' = (media /\ ~Clears(d, s))
                   /\ clearSector' = IF Clears(d, s) THEN 0 ELSE clearSector
                   /\ tosImage' = IF d = "A" /\ s = RootSector[c.d.file]
                                  THEN c.d.file ELSE tosImage
                   /\ UNCHANGED <<pendingCycle, slot, flush>>
  BY DEF ReadSector
<1> DEFINE c == EnsureMounted(Context(d), d, mountOK)
           o == drive[Other(d)].file
<1>2. mountOK \in BOOLEAN /\ closeOK \in BOOLEAN BY DEF Outcome
<1>3. /\ Good(c, o) /\ refused = c.refused
      /\ Mounted(c.d) => c.d.file \in Images
  BY <1>2, EnsureKeeps
<1> dropped' = {} BY <1>1
<1>4. CASE ~Mounted(c.d) BY <1>1, <1>2, <1>3, <1>4, RefusedInv
<1>5. CASE Mounted(c.d) /\ (s = Size[c.d.file] \/ ~readOK)
  <2>1. /\ Good(Failed(c, closeOK), o) /\ refused \subseteq Failed(c, closeOK).refused
        /\ ~Mounted(Failed(c, closeOK).d)
    BY <1>2, <1>3, <1>5, FailedKeeps
  <2> QED BY <1>1, <1>2, <1>5, <2>1, RefusedInv
<1>6. CASE Mounted(c.d) /\ ~(s = Size[c.d.file] \/ ~readOK)
  <2>1. /\ TransferEnds(d, c) /\ phase' = "tick"
        /\ media' = (media /\ ~Clears(d, s))
        /\ clearSector' = IF Clears(d, s) THEN 0 ELSE clearSector
        /\ tosImage' = IF d = "A" /\ s = RootSector[c.d.file] THEN c.d.file ELSE tosImage
        /\ UNCHANGED <<pendingCycle, slot, flush>>
    BY <1>1, <1>6 DEF Serving
  <2>2. /\ BothGood' /\ drive' \in [Drives -> DriveStates] /\ strayed' \in BOOLEAN
        /\ locked' \subseteq RWImages /\ lost' \subseteq Images /\ refused' \subseteq Images
        /\ SwapServed' /\ (strayed => strayed') /\ drive'[d] = c.d
    BY <1>2, <1>3, <2>1, TransferKeeps
  <2>3. TypeOK'
    <3>1. /\ media' \in BOOLEAN /\ clearSector' \in Nat /\ tosImage' \in Images \cup {NoImage}
      BY <1>3, <1>6, <2>1 DEF TypeOK
    <3> QED BY <2>1, <2>2, <3>1 DEF TypeOK, DriveStates, flush
  <2>4. CycleReady' /\ PendingRoot' BY <2>1 DEF CycleReady, Configured, PendingRoot
  <2>5. DirectoryKnown'
    <3>1. SUFFICES ASSUME ~strayed', ~media', tosImage' # NoImage PROVE tosImage' = SlotPath[slot]
      BY <2>1 DEF DirectoryKnown
    <3>2. ~strayed BY <2>2, <3>1
    <3>3. CASE d = "A" /\ s = RootSector[c.d.file]
      <4>1. c.d.file = SlotPath[slot]
        BY <1>6, <2>1, <2>2, <3>1, <3>3 DEF SwapServed, SlotServed
      <4> QED BY <2>1, <3>3, <4>1
    <3>4. CASE ~(d = "A" /\ s = RootSector[c.d.file])
      <4>1. tosImage' = tosImage BY <2>1, <3>4
      <4>2. ~Clears(d, s)
        <5>1. SUFFICES ASSUME Clears(d, s) PROVE FALSE OBVIOUS
        <5>2. d = "A" /\ s = RootSector[SlotPath[slot]] BY <5>1 DEF Clears, PendingRoot
        <5>3. c.d.file = SlotPath[slot]
          BY <1>6, <2>1, <2>2, <3>1, <5>2 DEF SwapServed, SlotServed
        <5> QED BY <3>4, <5>2, <5>3
      <4>3. ~media BY <2>1, <3>1, <4>2
      <4> QED BY <3>1, <3>2, <4>1, <4>3 DEF DirectoryKnown
    <3> QED BY <3>3, <3>4
  <2> QED BY <2>2, <2>3, <2>4, <2>5
<1> QED BY <1>4, <1>5, <1>6

LEMMA WriteSectorInv ==
  ASSUME IInv, NEW d \in Drives, WriteSector(d) PROVE IInv'
<1> USE DEF IInv
<1>1. PICK mountOK \in Outcome("mount"), writeOK \in Outcome("write"), closeOK \in Outcome("sync") :
        LET c == EnsureMounted(Context(d), d, mountOK)
            written == [c EXCEPT !.d.unsynced = TRUE]
        IN /\ Serving
           /\ dropped' = IF c.d.state = "RW" /\ writeOK THEN {}
                         ELSE {[image |-> Meant(d),
                                card  |-> IF Mounted(c.d) THEN c.d.state = "RW" ELSE ~mountOK]}
           /\ IF c.d.state # "RW" THEN Refused(d, c)
              ELSE IF ~writeOK THEN Refused(d, Failed(c, closeOK))
              ELSE /\ TransferEnds(d, written)
                   /\ MarkWriteDirty(d)
                   /\ UNCHANGED <<pendingCycle, slot, change, failCount, tosImage>>
  BY DEF WriteSector
<1> DEFINE c == EnsureMounted(Context(d), d, mountOK)
           o == drive[Other(d)].file
           written == [c EXCEPT !.d.unsynced = TRUE]
<1>2. mountOK \in BOOLEAN /\ closeOK \in BOOLEAN BY DEF Outcome
<1>3. /\ Good(c, o) /\ refused = c.refused BY <1>2, EnsureKeeps
<1> dropped' \subseteq Drops
  <2>1. Meant(d) \in MaybeImage BY Typing, SlotFacts DEF Meant, DriveStates, MaybeImage
  <2>2. (IF Mounted(c.d) THEN c.d.state = "RW" ELSE ~mountOK) \in BOOLEAN BY <1>2
  <2> HIDE DEF c
  <2> QED BY <1>1, <2>1, <2>2 DEF Drops, c
<1>4. CASE c.d.state # "RW" BY <1>1, <1>2, <1>3, <1>4, RefusedInv
<1>5. CASE c.d.state = "RW" /\ ~writeOK
  <2>1. /\ Good(Failed(c, closeOK), o) /\ refused \subseteq Failed(c, closeOK).refused
        /\ ~Mounted(Failed(c, closeOK).d)
    BY <1>2, <1>3, <1>5, FailedKeeps DEF Mounted
  <2> QED BY <1>1, <1>2, <1>5, <2>1, RefusedInv
<1>6. CASE c.d.state = "RW" /\ writeOK
  <2>1. c \in Contexts /\ c.d \in DriveStates BY <1>3 DEF Good, Contexts
  <2>2. written = [c EXCEPT !.d = [c.d EXCEPT !.unsynced = TRUE]] BY <2>1 DEF Contexts
  <2>3. /\ written.lk = c.lk /\ written.lost = c.lost /\ written.refused = c.refused
        /\ written.d = [c.d EXCEPT !.unsynced = TRUE] /\ written \in Contexts
    BY <2>1, <2>2 DEF Contexts, DriveStates
  <2>4. written.d.state = "RW" /\ written.d.file = c.d.file BY <1>6, <2>1, <2>3 DEF DriveStates
  <2>5. /\ TransferEnds(d, written) /\ MarkWriteDirty(d) /\ phase' = "tick"
        /\ UNCHANGED <<pendingCycle, slot, change, failCount, tosImage>>
    BY <1>1, <1>6 DEF Serving
  <2> HIDE DEF written
  <2>6. Good(written, o) BY <1>3, <1>6, <2>3, <2>4 DEF Good, Sound, Mounted
  <2>7. /\ BothGood' /\ drive' \in [Drives -> DriveStates] /\ strayed' \in BOOLEAN
        /\ locked' \subseteq RWImages /\ lost' \subseteq Images /\ refused' \subseteq Images
        /\ SwapServed' /\ (strayed => strayed')
    BY <1>2, <1>3, <1>6, <2>3, <2>4, <2>5, <2>6, TransferKeeps DEF Mounted
  <2>8. dirty' \in [Drives -> BOOLEAN] /\ dirtyAge' \in [Drives -> 0 .. FlushInterval]
    BY <2>5, FloppyAssumption DEF MarkWriteDirty, TypeOK
  <2>9. TypeOK' BY <2>5, <2>7, <2>8 DEF TypeOK, DriveStates, MaybeImage, Drops, change
  <2>10. CycleReady' /\ PendingRoot' /\ DirectoryKnown'
    BY <2>5, <2>7 DEF CycleReady, Configured, PendingRoot, DirectoryKnown, change
  <2> QED BY <2>7, <2>9, <2>10
<1> QED BY <1>4, <1>5, <1>6

\* A drive that gives up keeps an image the card refused to flush.
LEMMA FloppyTickInv == ASSUME IInv, FloppyTick PROVE IInv'
<1> USE DEF IInv
<1> DEFINE synced(bad, d) == Due(d) /\ d \notin bad
           gaveUp(bad, d) == d \in bad /\ GivesUp(failCount[d])
<1>1. PICK bad \in SUBSET {d \in Drives : Due(d) /\ drive[d].unsynced /\ "sync" \in Faults} :
        /\ phase' = "cycle"
        /\ dirty' = [d \in Drives |-> dirty[d] /\ ~Dropped(d) /\ ~synced(bad, d) /\ ~gaveUp(bad, d)]
        /\ dirtyAge' = [d \in Drives |-> IF d \in bad THEN 0 ELSE dirtyAge[d]]
        /\ failCount' = [d \in Drives |->
             IF Dropped(d) \/ synced(bad, d) \/ gaveUp(bad, d) THEN 0
             ELSE IF d \in bad THEN failCount[d] + 1 ELSE failCount[d]]
        /\ refused' = refused \cup {drive[d].file : d \in bad}
        /\ drive' = [d \in Drives |->
             IF synced(bad, d) THEN [drive[d] EXCEPT !.unsynced = FALSE]
             ELSE IF gaveUp(bad, d) THEN [drive[d] EXCEPT !.state = "ERROR"]
             ELSE drive[d]]
        /\ dropped' = {}
        /\ UNCHANGED <<pendingCycle, slot, locked, change, tosImage, lost, strayed>>
  BY DEF FloppyTick
<1>2. \A d \in Drives : /\ Good(Context(d), drive[Other(d)].file) /\ drive[d] \in DriveStates
                        /\ Sound(drive[d], refused)
  BY Typing DEF BothGood, Good, Context
<1>3. \A d \in bad : drive[d].file \in Images /\ drive[d].file \in refused' /\ d \in Drives
  BY <1>1, <1>2 DEF Sound, DriveStates
<1>4. refused' \subseteq Images /\ refused \subseteq refused' BY <1>1, <1>3 DEF TypeOK
<1>5. ASSUME NEW d \in Drives
      PROVE  /\ drive'[d] \in DriveStates /\ drive'[d].file = drive[d].file
             /\ Sound(drive'[d], refused')
             /\ Mounted(drive'[d]) => Mounted(drive[d])
  <2>1. CASE synced(bad, d)
    <3>1. drive'[d] = [drive[d] EXCEPT !.unsynced = FALSE] BY <1>1, <2>1
    <3>2. /\ drive'[d] \in DriveStates /\ drive'[d].file = drive[d].file
          /\ drive'[d].state = drive[d].state /\ drive'[d].unsynced = FALSE
      BY <1>2, <3>1 DEF DriveStates
    <3> QED BY <1>2, <1>4, <3>2 DEF Sound, Mounted
  <2>2. CASE ~synced(bad, d) /\ gaveUp(bad, d)
    <3>1. drive'[d] = [drive[d] EXCEPT !.state = "ERROR"] BY <1>1, <2>2
    <3>2. /\ drive'[d] \in DriveStates /\ drive'[d].file = drive[d].file
          /\ drive'[d].state = "ERROR" /\ drive'[d].unsynced = drive[d].unsynced
      BY <1>2, <3>1 DEF DriveStates
    <3> QED BY <1>2, <1>3, <2>2, <3>2, FloppyAssumption DEF Sound, Mounted
  <2>3. CASE ~synced(bad, d) /\ ~gaveUp(bad, d)
    <3>1. drive'[d] = drive[d] BY <1>1, <2>3
    <3> QED BY <1>2, <1>4, <3>1 DEF Sound
  <2> QED BY <2>1, <2>2, <2>3
<1>6. drive' \in [Drives -> DriveStates] BY <1>1, <1>5
<1>7. BothGood'
  <2>1. SUFFICES ASSUME NEW d \in Drives PROVE Good(Context(d)', drive'[Other(d)].file)
    BY DEF BothGood
  <2>2. Context(d)' = [d |-> drive'[d], lk |-> locked, lost |-> lost, refused |-> refused']
    BY <1>1 DEF Context
  <2>3. Context(d)' \in Contexts BY <1>4, <1>5, <2>2 DEF Contexts, TypeOK
  <2>4. \A i \in locked \ refused : i = drive[d].file \/ i = drive[Other(d)].file
    BY <1>2 DEF Good, Context
  <2>5. lost \subseteq refused BY <1>2 DEF Good, Context
  <2>6. drive'[Other(d)].file = drive[Other(d)].file BY <1>5, Pair
  <2> QED BY <1>4, <1>5, <2>2, <2>3, <2>4, <2>5, <2>6 DEF Good
<1>8. TypeOK'
  <2>1. dirty' \in [Drives -> BOOLEAN] BY <1>1 DEF TypeOK
  <2>2. dirtyAge' \in [Drives -> 0 .. FlushInterval] BY <1>1, FloppyAssumption DEF TypeOK
  <2>3. failCount' \in [Drives -> 0 .. FailMax - 1]
    BY <1>1, FloppyAssumption DEF TypeOK, GivesUp
  <2> QED BY <1>1, <1>4, <1>6, <2>1, <2>2, <2>3 DEF TypeOK, DriveStates, change
<1>9. SwapServed' BY <1>1, <1>5, Pair DEF SwapServed, SlotServed
<1>10. CycleReady' /\ PendingRoot' /\ DirectoryKnown'
  BY <1>1 DEF CycleReady, Configured, PendingRoot, DirectoryKnown, change
<1> QED BY <1>7, <1>8, <1>9, <1>10

LEMMA ClockInv == ASSUME IInv, Clock PROVE IInv'
<1> USE DEF IInv
<1>1. BothGood' BY SameDrives DEF Clock, history
<1>2. dirtyAge' \in [Drives -> 0 .. FlushInterval]
  BY FloppyAssumption DEF Clock, Older, TypeOK
<1>3. TypeOK' BY <1>2 DEF Clock, TypeOK, change, history
<1>4. CycleReady' /\ PendingRoot' /\ DirectoryKnown' /\ SwapServed'
  BY DEF Clock, CycleReady, Configured, PendingRoot, DirectoryKnown, SwapServed, SlotServed,
         change, history
<1> QED BY <1>1, <1>3, <1>4

LEMMA NextInv == ASSUME IInv, [Next]_vars PROVE IInv'
<1>1. CASE Select BY <1>1, SelectInv
<1>2. CASE NoCycle BY <1>2, IdleInv DEF NoCycle
<1>3. CASE CycleFails BY <1>3, CycleFailsInv
<1>4. CASE CycleDriveA BY <1>4, CycleDriveAInv
<1>5. CASE NoCommand BY <1>5, IdleInv DEF NoCommand, Serving
<1>6. ASSUME NEW d \in Drives, NEW s \in Sectors, ReadSector(d, s) PROVE IInv'
  BY <1>6, ReadSectorInv
<1>7. ASSUME NEW d \in Drives, WriteSector(d) PROVE IInv' BY <1>7, WriteSectorInv
<1>8. CASE FloppyTick BY <1>8, FloppyTickInv
<1>9. CASE Clock BY <1>9, ClockInv
<1>10. CASE UNCHANGED vars
  <2>1. phase' \in {"cycle", "serve", "tick"} BY <1>10 DEF vars, IInv, TypeOK
  <2> QED BY <1>10, <2>1, IdleInv DEF vars
<1> QED BY <1>1, <1>2, <1>3, <1>4, <1>5, <1>6, <1>7, <1>8, <1>9, <1>10
     DEF Next, Cycle, Command
-----------------------------------------------------------------------------
(* The writes that reach no FIL                                             *)

\* What drive d may have open: its setting, for A that of any slot; and what is
\* opened for reading only is no image for writing.
FileOf(d) == IF d = "A" THEN {NoImage} \cup {SlotPath[k] : k \in Slots} ELSE {NoImage, PathB}
Own(d, s) == s.file \in FileOf(d) /\ (s.state = "RO" => s.file \notin RWImages)

DropsExcused == \A w \in dropped : w.card \/ Unwritable(w.image)

WriteInv == (\A d \in Drives : Own(d, drive[d])) /\ DropsExcused

LEMMA MainOf == \A d \in Drives : MainPath(d) \in FileOf(d)
BY SlotFacts DEF MainPath, FileOf, Drives

LEMMA OpenOwn ==
  ASSUME NEW d \in Drives, NEW c \in Contexts, Own(d, c.d), NEW i \in FileOf(d),
         NEW ok \in BOOLEAN
  PROVE  Own(d, Open(c, i, ok).d)
<1> DEFINE e == Open(c, i, ok)
<1>1. c.d \in DriveStates /\ NoImage \in FileOf(d) BY DEF Contexts, FileOf
<1>2. CASE i = NoImage
  <2>1. e.d = [c.d EXCEPT !.state = "ERROR"] BY <1>1, <1>2 DEF Open, Contexts, DriveStates
  <2> QED BY <1>1, <2>1 DEF Own, DriveStates
<1>3. CASE i # NoImage /\ OpenSucceeds(c, i, ok)
  <2>1. e.d = [state |-> IF i \in RWImages THEN "RW" ELSE "RO", file |-> i,
               unsynced |-> FALSE, emulated |-> TRUE, bpb |-> i]
    BY <1>3 DEF Open, Contexts
  <2>2. e.d.file = i /\ (e.d.state = "RO" => i \notin RWImages) BY <2>1
  <2> QED BY <2>2 DEF Own
<1>4. CASE i # NoImage /\ ~OpenSucceeds(c, i, ok)
  <2>1. e.d = [c.d EXCEPT !.state = "ERROR", !.file = NoImage, !.unsynced = FALSE]
    BY <1>1, <1>4 DEF Open, Contexts, DriveStates
  <2>2. e.d.state = "ERROR" /\ e.d.file = NoImage BY <1>1, <2>1 DEF DriveStates
  <2> QED BY <1>1, <2>2 DEF Own
<1> QED BY <1>2, <1>3, <1>4

\* Closing empties the drive, or the card refuses and the image is noted.
Refusing == [d : DriveStates, lk : SUBSET RWImages, lost : SUBSET Images, refused : SUBSET MaybeImage]

LEMMA Closing ==
  ASSUME NEW c \in Contexts, NEW ok \in BOOLEAN
  PROVE  LET e == ImgClose(c, ok)
         IN  /\ e \in Refusing /\ e.d.file \in {NoImage, c.d.file} /\ c.refused \subseteq e.refused
             /\ Failed(c, ok).d = [e.d EXCEPT !.state = "ERROR"]
             /\ Failed(c, ok).refused = e.refused
<1> DEFINE e == ImgClose(c, ok)
           f == [c.d EXCEPT !.file = NoImage, !.unsynced = FALSE]
<1> USE DEF Refusing, MaybeImage
<1>1. c.d \in DriveStates BY DEF Contexts
<1>2. e \in Refusing /\ e.d.file \in {NoImage, c.d.file} /\ c.refused \subseteq e.refused
  <2>1. CASE c.d.unsynced /\ ~ok
    <3>1. e = [c EXCEPT !.refused = c.refused \cup {c.d.file}] BY <2>1 DEF ImgClose, Contexts
    <3> QED BY <1>1, <3>1 DEF Contexts, DriveStates
  <2>2. CASE ~(c.d.unsynced /\ ~ok)
    <3>1. f \in DriveStates /\ f.file = NoImage BY <1>1 DEF DriveStates
    <3>2. e = [c EXCEPT !.d = f, !.lk = c.lk \ {c.d.file}]
      BY <2>2 DEF ImgClose, Contexts, DriveStates
    <3> HIDE DEF f
    <3> QED BY <3>1, <3>2 DEF Contexts
  <2> QED BY <2>1, <2>2
<1> HIDE DEF e
<1>3. Failed(c, ok) = [e EXCEPT !.d = [e.d EXCEPT !.state = "ERROR"]]
  BY <1>2 DEF Failed, e
<1> QED BY <1>2, <1>3 DEF e

LEMMA CloseOwn ==
  ASSUME NEW d \in Drives, NEW c \in Contexts, Own(d, c.d), NEW ok \in BOOLEAN
  PROVE  Own(d, Failed(c, ok).d) /\ Own(d, Unmount(c, ok).d)
<1> DEFINE e == ImgClose(c, ok)
           Gone(s) == s.state \in {"ERROR", "UNMOUNTED"} /\ s.file \in FileOf(d)
<1>1. NoImage \in FileOf(d) /\ c.d.file \in FileOf(d) BY DEF FileOf, Own
<1>2. e \in Refusing /\ e.d.file \in FileOf(d) /\ Failed(c, ok).d = [e.d EXCEPT !.state = "ERROR"]
  BY <1>1, Closing
<1> HIDE DEF e
<1>3. e.d \in DriveStates BY <1>2 DEF Refusing
<1>4. Gone([e.d EXCEPT !.state = "ERROR"]) BY <1>2, <1>3 DEF DriveStates
<1>5. Gone([Closed EXCEPT !.bpb = c.d.bpb]) BY <1>1 DEF Closed
<1>6. \A s : Gone(s) => Own(d, s) BY DEF Own
<1> HIDE DEF Gone
<1>7. Unmount(c, ok).d \in {[e.d EXCEPT !.state = "ERROR"], [Closed EXCEPT !.bpb = c.d.bpb]}
  BY <1>2 DEF Unmount, Contexts, Refusing, e
<1> QED BY <1>2, <1>4, <1>5, <1>6, <1>7

\* An open that the card allows fails for an image that is missing or locked.
LEMMA OpenMounts ==
  ASSUME NEW c \in Contexts, NEW i, i # NoImage, NEW ok \in BOOLEAN, ~Mounted(Open(c, i, ok).d)
  PROVE  ~OpenSucceeds(c, i, ok)
<1>1. SUFFICES ASSUME OpenSucceeds(c, i, ok) PROVE FALSE OBVIOUS
<1>2. Open(c, i, ok).d = [state |-> IF i \in RWImages THEN "RW" ELSE "RO", file |-> i,
                          unsynced |-> FALSE, emulated |-> TRUE, bpb |-> i]
  BY <1>1 DEF Open, Contexts
<1> QED BY <1>2 DEF Mounted

LEMMA EnsureOwn ==
  ASSUME IInv, WriteInv, NEW d \in Drives, NEW ok \in BOOLEAN
  PROVE  LET c == EnsureMounted(Context(d), d, ok) IN c \in Contexts /\ Own(d, c.d)
<1>1. Context(d) \in Contexts /\ Context(d).d = drive[d] BY DEF IInv, BothGood, Good, Context
<1>2. EnsureMounted(Context(d), d, ok) \in Contexts BY EnsureKeeps DEF IInv, Good
<1>3. Own(d, Context(d).d) BY <1>1 DEF WriteInv
<1> QED BY <1>1, <1>2, <1>3, MainOf, OpenOwn DEF EnsureMounted, VDriveOpen

LEMMA SetOwn ==
  ASSUME TypeOK, WriteInv, NEW d \in Drives, NEW c, SetDrive(d, c), Own(d, c.d)
  PROVE  \A e \in Drives : Own(e, drive'[e])
BY Typing, Pair DEF SetDrive, WriteInv

\* A write that is dropped found its image opened for reading, missing, or locked; and a
\* lock that is no refused image's is the other drive's.
LEMMA WriteDrops ==
  ASSUME IInv, WriteInv, NEW d \in Drives, WriteSector(d) PROVE WriteInv'
<1> USE DEF IInv
<1>1. PICK mountOK \in Outcome("mount"), writeOK \in Outcome("write"), closeOK \in Outcome("sync") :
        LET c == EnsureMounted(Context(d), d, mountOK)
            written == [c EXCEPT !.d.unsynced = TRUE]
        IN /\ dropped' = IF c.d.state = "RW" /\ writeOK THEN {}
                         ELSE {[image |-> Meant(d),
                                card  |-> IF Mounted(c.d) THEN c.d.state = "RW" ELSE ~mountOK]}
           /\ \E e \in {c, Failed(c, closeOK), written} : SetDrive(d, e)
  BY DEF WriteSector, Refused, TransferEnds
<1> DEFINE c == EnsureMounted(Context(d), d, mountOK)
           written == [c EXCEPT !.d.unsynced = TRUE]
<1>2. mountOK \in BOOLEAN /\ closeOK \in BOOLEAN BY DEF Outcome
<1>3. c \in Contexts /\ Own(d, c.d) /\ c.d \in DriveStates BY <1>2, EnsureOwn DEF Contexts
<1>4. /\ Good(c, drive[Other(d)].file) /\ refused = c.refused
      /\ Mounted(drive[d]) => c.d = drive[d]
      /\ ~Mounted(drive[d]) /\ Mounted(c.d) => c.d.file = MainPath(d)
  BY <1>2, EnsureKeeps
<1>5. Own(d, written.d)
  <2> HIDE DEF c
  <2>1. written.d = [c.d EXCEPT !.unsynced = TRUE] BY <1>3 DEF Contexts
  <2> QED BY <1>3, <2>1 DEF Own, DriveStates
<1>6. Own(d, Failed(c, closeOK).d) BY <1>2, <1>3, CloseOwn
<1>7. \A e \in Drives : Own(e, drive'[e])
  <2>1. PICK e \in {c, Failed(c, closeOK), written} : SetDrive(d, e) BY <1>1
  <2>2. Own(d, e.d) BY <1>3, <1>5, <1>6, <2>1
  <2> QED BY <2>1, <2>2, SetOwn
<1>8. refused \subseteq refused'
  <2>1. PICK e \in {c, Failed(c, closeOK), written} : SetDrive(d, e) BY <1>1
  <2>2. refused' = e.refused BY <2>1 DEF SetDrive
  <2>3. written.refused = c.refused
    <3> HIDE DEF c
    <3> QED BY <1>3 DEF Contexts
  <2>4. c.refused \subseteq Failed(c, closeOK).refused
    <3> HIDE DEF c
    <3> QED BY <1>2, <1>3, Closing
  <2> QED BY <1>4, <2>1, <2>2, <2>3, <2>4
<1>9. Unwritable(Meant(d)) \/ c.d.state = "RW" \/ (~Mounted(c.d) /\ ~mountOK)
  <2>1. CASE c.d.state = "RO"
    <3>1. c.d.file = Meant(d) /\ c.d.file \notin RWImages
      BY <1>3, <1>4, <2>1 DEF Meant, Mounted, Own
    <3> QED BY <3>1 DEF Unwritable
  <2>2. CASE ~Mounted(c.d) /\ mountOK
    <3> DEFINE i == MainPath(d)
    <3>1. ~Mounted(drive[d]) /\ Meant(d) = i BY <1>4, <2>2 DEF Meant
    <3>2. c = Open(Context(d), i, mountOK) /\ Context(d) \in Contexts
          /\ Context(d).d = drive[d] /\ Context(d).lk = locked
      BY <3>1 DEF EnsureMounted, VDriveOpen, Context, BothGood, Good
    <3>3. i = NoImage \/ i \notin Present \/ i \in locked
      BY <2>2, <3>2, OpenMounts DEF OpenSucceeds
    <3>4. SUFFICES ASSUME i \in locked, i \in RWImages, i \notin refused PROVE Unwritable(i)
      BY <3>1, <3>3, FloppyAssumption DEF Unwritable
    <3>5. /\ Good(Context(d), drive[Other(d)].file)
          /\ Context(d).lk = locked /\ Context(d).refused = refused
      BY DEF BothGood, Context
    <3>6. i = drive[d].file \/ i = drive[Other(d)].file BY <3>4, <3>5, <3>2 DEF Good
    <3>7. i # NoImage BY <3>4, FloppyAssumption
    <3>8. drive[d].file \in refused \cup {NoImage}
      BY <3>1, <3>2, <3>5, Typing DEF Good, Sound, Mounted, DriveStates
    <3>9. i = drive[Other(d)].file BY <3>4, <3>6, <3>7, <3>8
    <3>10. i \in FileOf(Other(d)) /\ i \in FileOf(d) BY <3>9, MainOf, Pair DEF WriteInv, Own
    <3> QED BY <3>7, <3>10, Pair DEF FileOf, Unwritable, Other
  <2> QED BY <1>3, <2>1, <2>2 DEF DriveStates, Mounted
<1>10. DropsExcused'
  <2>1. SUFFICES ASSUME NEW w \in dropped' PROVE w.card \/ Unwritable(w.image)'
    BY DEF DropsExcused
  <2>2. /\ w.image = Meant(d) /\ (c.d.state = "RW" => ~writeOK)
        /\ w.card = IF Mounted(c.d) THEN c.d.state = "RW" ELSE ~mountOK
    <3> HIDE DEF c
    <3> QED BY <1>1, <2>1 DEF c
  <2>3. CASE Unwritable(Meant(d)) BY <1>8, <2>2, <2>3 DEF Unwritable
  <2>4. CASE c.d.state = "RW" BY <2>2, <2>4 DEF Mounted
  <2>5. CASE ~Mounted(c.d) /\ ~mountOK BY <2>2, <2>5
  <2> QED BY <1>9, <2>3, <2>4, <2>5
<1> QED BY <1>7, <1>10 DEF WriteInv
LEMMA WriteNext == ASSUME IInv, WriteInv, [Next]_vars PROVE WriteInv'
<1> USE DEF IInv
<1>1. ASSUME UNCHANGED <<drive, dropped, refused>> PROVE WriteInv'
  BY <1>1 DEF WriteInv, DropsExcused, Unwritable
<1>2. ASSUME dropped' = {}, \A d \in Drives : Own(d, drive'[d]) PROVE WriteInv'
  BY <1>2 DEF WriteInv, DropsExcused
<1>3. Context("A") \in Contexts /\ Own("A", Context("A").d) /\ "A" \in Drives
  BY Pair DEF BothGood, Good, Context, WriteInv
<1>4. CASE CycleFails
  <2>1. SetDrive("A", Unmount(Context("A"), FALSE)) /\ dropped' = {} BY <1>4 DEF CycleFails
  <2>2. Own("A", Unmount(Context("A"), FALSE).d) BY <1>3, CloseOwn
  <2> QED BY <1>2, <1>3, <2>1, <2>2, SetOwn
<1>5. CASE CycleDriveA
  <2> DEFINE next  == NextSlot(slot)
             empty == Unmount(Context("A"), TRUE)
  <2>1. PICK mountOK \in BOOLEAN, reopenOK \in BOOLEAN :
          LET new == Open(empty, SlotPath[next], mountOK)
          IN /\ dropped' = {}
             /\ \E c \in {new, Fallback(new, drive["A"], reopenOK)} : SetDrive("A", c)
    BY <1>5 DEF CycleDriveA, Outcome
  <2>2. next \in Slots
    <3>1. slot \in Slots /\ Configured # {} BY <1>5 DEF CycleDriveA, TypeOK, CycleReady
    <3> QED BY <3>1, NextSlotConfigured DEF Configured
  <2>3. /\ Good(empty, drive["B"].file) /\ ~Mounted(empty.d) /\ Own("A", empty.d)
        /\ empty \in Contexts
    <3>1. Good(Context("A"), drive["B"].file) BY Pair DEF BothGood
    <3>2. Good(empty, drive["B"].file) /\ ~Mounted(empty.d) BY <3>1, UnmountKeeps
    <3>3. Own("A", empty.d) BY <1>3, CloseOwn
    <3> QED BY <3>2, <3>3 DEF Good
  <2> DEFINE new == Open(empty, SlotPath[next], mountOK)
  <2>4. SlotPath[next] \in FileOf("A") /\ SlotPath[next] \in MaybeImage
    BY <2>2, SlotFacts DEF FileOf
  <2> HIDE DEF next, empty
  <2>5. Own("A", new.d) BY <1>3, <2>3, <2>4, OpenOwn
  <2>6. new \in Contexts BY <2>3, <2>4, OpenKeeps DEF Good
  <2>7. drive["A"].file \in FileOf("A") BY <1>3 DEF WriteInv, Own
  <2> HIDE DEF new
  <2>8. Own("A", Fallback(new, drive["A"], reopenOK).d)
    BY <1>3, <2>5, <2>6, <2>7, OpenOwn DEF Fallback
  <2>9. PICK c \in {new, Fallback(new, drive["A"], reopenOK)} : SetDrive("A", c)
    BY <2>1 DEF new
  <2> QED BY <1>2, <1>3, <2>1, <2>5, <2>8, <2>9, SetOwn
<1>6. ASSUME NEW d \in Drives, NEW s \in Sectors, ReadSector(d, s) PROVE WriteInv'
  <2>1. PICK mountOK \in BOOLEAN, closeOK \in BOOLEAN :
          LET c == EnsureMounted(Context(d), d, mountOK)
          IN dropped' = {} /\ \E e \in {c, Failed(c, closeOK)} : SetDrive(d, e)
    BY <1>6 DEF ReadSector, Refused, TransferEnds, Outcome
  <2> DEFINE c == EnsureMounted(Context(d), d, mountOK)
  <2>2. c \in Contexts /\ Own(d, c.d) BY EnsureOwn
  <2>3. Own(d, Failed(c, closeOK).d) BY <2>2, CloseOwn
  <2>4. PICK e \in {c, Failed(c, closeOK)} : SetDrive(d, e) BY <2>1
  <2>5. Own(d, e.d) BY <2>2, <2>3, <2>4
  <2> QED BY <1>2, <2>1, <2>4, <2>5, SetOwn
<1>7. ASSUME NEW d \in Drives, WriteSector(d) PROVE WriteInv' BY <1>7, WriteDrops
<1>8. CASE FloppyTick
  <2>1. dropped' = {} BY <1>8 DEF FloppyTick
  <2>2. ASSUME NEW d \in Drives PROVE Own(d, drive'[d])
    <3>1. drive'[d] \in {drive[d], [drive[d] EXCEPT !.unsynced = FALSE],
                         [drive[d] EXCEPT !.state = "ERROR"]}
      BY <1>8 DEF FloppyTick
    <3>2. Own(d, drive[d]) /\ drive[d] \in DriveStates BY Typing DEF WriteInv
    <3> QED BY <3>1, <3>2 DEF Own, DriveStates
  <2> QED BY <1>2, <2>1, <2>2
<1>9. CASE Select \/ NoCycle \/ NoCommand \/ Clock \/ UNCHANGED vars
  BY <1>1, <1>9 DEF Select, NoCycle, NoCommand, Clock, vars, history
<1> QED BY <1>4, <1>5, <1>6, <1>7, <1>8, <1>9 DEF Next, Cycle, Command

\* floppy_init locks no image but the one A has open.
LEMMA InitLocks == InitA.lk \subseteq RWImages
<1>1. InitA.lk \in SUBSET RWImages
  BY FloppyAssumption DEF InitA, VDriveOpen, Open
<1> QED BY <1>1

LEMMA WriteInit == Init => WriteInv
<1> SUFFICES ASSUME Init PROVE WriteInv OBVIOUS
<1> DEFINE Start(lk) == [d |-> Closed, lk |-> lk, lost |-> {}, refused |-> {}]
<1>1. Closed \in DriveStates /\ \A d \in Drives : Own(d, Closed)
  BY DEF Closed, DriveStates, Own, FileOf
<1>2. ASSUME NEW d \in Drives, NEW lk \in SUBSET RWImages,
             NEW e, e = LET c == VDriveOpen(Start(lk), d, TRUE)
                        IN IF Mounted(c.d) THEN c ELSE [c EXCEPT !.d = Closed]
      PROVE  Own(d, e.d)
  <2> DEFINE c == VDriveOpen(Start(lk), d, TRUE)
  <2>1. Start(lk) \in Contexts /\ Start(lk).d = Closed BY <1>1 DEF Contexts
  <2>2. Own(d, c.d) BY <1>1, <2>1, MainOf, OpenOwn DEF VDriveOpen
  <2>3. "d" \in DOMAIN c
    <3> HIDE DEF Start
    <3> QED BY <2>1 DEF VDriveOpen, Open, Contexts
  <2> HIDE DEF c
  <2>4. [c EXCEPT !.d = Closed].d = Closed BY <2>3
  <2> QED BY <1>1, <1>2, <2>2, <2>4 DEF c
<1>3. InitA.lk \subseteq RWImages BY InitLocks
<1>4. Own("A", InitA.d)
  <2>1. {} \in SUBSET RWImages OBVIOUS
  <2> QED BY <1>2, <2>1, Pair DEF InitA
<1>5. Own("B", InitB.d) BY <1>2, <1>3, Pair DEF InitB
<1> QED BY <1>4, <1>5 DEF Init, WriteInv, DropsExcused, Drives
-----------------------------------------------------------------------------
(* The theorems                                                             *)

LEMMA Inductive == Spec => []IInv
<1>1. IInv /\ [Next]_vars => IInv' BY NextInv
<1> QED BY InitInv, <1>1, PTL DEF Spec

\* Both drives, the media change and the flush windows stay in their types: a
\* SELECT never leads to a slot that is not there, and a drive fails to flush
\* less than FLOPPY_FLUSH_FAIL_MAX times before it is given up.
THEOREM Typed == Spec => []TypeOK
<1>1. IInv => TypeOK BY DEF IInv
<1> QED BY Inductive, <1>1, PTL

\* floppy_cycleDriveA keeps slot and image together: unless a transfer mounted
\* A again, A serves the image of the slot that is current.
THEOREM SlotKept == Spec => []SwapServed
<1>1. IInv => SwapServed BY DEF IInv
<1> QED BY Inductive, <1>1, PTL

\* An Atari that is told that nothing changed has the directory of the image
\* its reads and writes go to.
THEOREM ChangeSeen == Spec => []MediaHonest
<1>1. IInv => MediaHonest
  BY DEF IInv, MediaHonest, DirectoryKnown, SwapServed, SlotServed
<1> QED BY Inductive, <1>1, PTL

\* Every swap, failed transfer and failed mount closes what it leaves: no image
\* stays locked that no drive has open, but those the card refused to flush.
THEOREM NoLockLeft == Spec => []NoHandleLeak
<1>1. IInv => NoHandleLeak
  <2>1. SUFFICES ASSUME IInv, NEW i \in locked \ refused PROVE \E d \in Drives : drive[d].file = i
    BY DEF NoHandleLeak
  <2>2. Good(Context("A"), drive["B"].file) BY <2>1, Pair DEF IInv, BothGood
  <2>3. i = drive["A"].file \/ i = drive["B"].file BY <2>2 DEF Good, Context
  <2> QED BY <2>3, Pair
<1> QED BY Inductive, <1>1, PTL

\* No swap, failed mount, failed transfer or unmount costs an answered write: data a
\* FIL has taken is flushed unless the card refused to flush that image, and a write
\* that no FIL took was refused by the card, or its image is missing, opened for
\* reading only, refused, or set for both drives.
THEOREM WritesKept == Spec => []NothingLost
<1>1. IInv /\ WriteInv => NothingLost
  <2>1. SUFFICES ASSUME IInv PROVE lost \subseteq refused BY DEF NothingLost, WriteInv, DropsExcused
  <2>2. Good(Context("A"), drive["B"].file) BY <2>1, Pair DEF IInv, BothGood
  <2> QED BY <2>2 DEF Good, Context
<1>2. IInv /\ WriteInv /\ [Next]_vars => WriteInv' BY WriteNext
<1> QED BY <1>1, <1>2, WriteInit, Inductive, PTL DEF Spec
=============================================================================
