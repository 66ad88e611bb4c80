--------------------------- MODULE AcsiDisk_proofs ---------------------------
(* Proofs about the ACSI hard disk.  The scan: whatever the tables of an      *)
(* image say and whichever reads fail, it comes to an end and every drive it  *)
(* announces lies in its partition and in the image, with a BPB that finds    *)
(* its files; and the parts of an image of the image tool get their drives in *)
(* their order.  The transfers: what TOS wrote is on the disk and what it     *)
(* reads is what it wrote, whatever the card refuses, whichever calls fail,   *)
(* and however often a part of a batch, a write of one chunk or a change of   *)
(* the mask is repeated.                                                      *)
EXTENDS AcsiDisk, FiniteSetTheorems, NaturalsInduction, WellFoundedInduction, TLAPS

Partitions == [kind : EntryKinds, first : Nat, count : Nat]
StepNames  == {"open", "root", "slot", "chain", "announce", "done", "published"}

ScanTypes ==
  /\ img \in Images /\ first \in Nat
  /\ step \in StepNames /\ table \in {"mbr", "ahdi"}
  /\ slot \in 0 .. 5 /\ base \in Nat /\ lba \in Nat /\ links \in 0 .. MaxPartitions - 1
  /\ partitions \in Seq(Partitions) /\ Len(partitions) <= MaxPartitions
  /\ index \in Nat /\ drive \in Nat /\ misread \in BOOLEAN

\* Where the walk is.
OnItsWay ==
  /\ step = "slot" => slot \in 1 .. 5
  /\ step = "chain" => slot \in 1 .. 4
  /\ step = "announce" => index \in 1 .. Len(partitions) + 1

PartitionsInside == \A i \in 1 .. Len(partitions) : InImage(partitions[i])

\* A drive in its partition, to its last logical sector.
Lies(v, p) == p.first <= v.start /\ End(v) \in Int /\ End(v) <= p.first + p.count

VolumesInside ==
  \A d \in DOMAIN volumes :
    /\ volumes[d].part \in 1 .. Len(partitions)
    /\ Lies(volumes[d], partitions[volumes[d].part])

ScanInv == ScanTypes /\ OnItsWay /\ PartitionsInside /\ VolumesInside
-----------------------------------------------------------------------------
(* What is read                                                             *)

LEMMA SectorType == ASSUME ScanInv, NEW n PROVE Sector(n) \in Sectors
<1>1. Blank \in Sectors
  <2>1. NoEntry \in Entries BY DEF NoEntry, Entries, EntryKinds
  <2>2. NoTable \in [1 .. 4 -> Entries] BY <2>1 DEF NoTable
  <2>3. NoBoot \in Boots BY DEF NoBoot, Boots
  <2> QED BY <2>2, <2>3 DEF Blank, Sectors
<1>2. \A k \in DOMAIN img.sectors : img.sectors[k] \in Sectors
  BY ImagesAssumption DEF ScanInv, ScanTypes
<1> QED BY <1>1, <1>2 DEF Sector

LEMMA EntryType ==
  ASSUME ScanInv, NEW n, NEW k \in 1 .. 4
  PROVE  Table(n)[k] \in Entries
<1>1. Sector(n).mbr \in [1 .. 4 -> Entries] /\ Sector(n).ahdi \in [1 .. 4 -> Entries]
  BY SectorType DEF Sectors
<1> QED BY <1>1 DEF Table

LEMMA BootType == ASSUME ScanInv, NEW n PROVE Boot(n) \in Boots
BY SectorType DEF Boot, Sectors

LEMMA ParseType ==
  ASSUME NEW e \in Entries, NEW from \in Nat
  PROVE  Parse(e, from) \in Partitions
<1>1. NoPartition \in Partitions BY DEF NoPartition, Partitions, EntryKinds
<1>2. e.kind \in EntryKinds /\ e.start \in Nat /\ e.count \in Nat BY DEF Entries
<1>3. [kind |-> e.kind, first |-> from + e.start, count |-> e.count] \in Partitions
  BY <1>2 DEF Partitions
<1> QED BY <1>1, <1>3 DEF Parse

LEMMA ReadTypes ==
  ASSUME ScanInv
  PROVE  /\ step = "slot" /\ slot <= 4 => Root \in Partitions
         /\ Logical \in Partitions /\ NextLink \in Partitions
         /\ img.size \in Nat
<1>1. step = "slot" /\ slot <= 4 => slot \in 1 .. 4 BY DEF ScanInv, OnItsWay
<1>2. step = "slot" /\ slot <= 4 => Root \in Partitions
  BY <1>1, EntryType, ParseType DEF Root
<1>3. Logical \in Partitions /\ NextLink \in Partitions
  BY EntryType, ParseType DEF Logical, NextLink, ScanInv, ScanTypes
<1>4. img.size \in Nat BY ImagesAssumption DEF ScanInv, ScanTypes
<1> QED BY <1>2, <1>3, <1>4
-----------------------------------------------------------------------------
(* The steps keep the partitions and drives inside                          *)

LEMMA ScanSame ==
  ASSUME ScanInv, UNCHANGED <<img, first, partitions, volumes>>, 
         step' \in StepNames, table' \in {"mbr", "ahdi"}, slot' \in 0 .. 5,
         base' \in Nat, lba' \in Nat, links' \in 0 .. MaxPartitions - 1,
         index' \in Nat, drive' \in Nat, misread' \in BOOLEAN,
         step' = "slot" => slot' \in 1 .. 5,
         step' = "chain" => slot' \in 1 .. 4,
         step' = "announce" => index' \in 1 .. Len(partitions) + 1
  PROVE  ScanInv'
<1>1. ScanTypes' /\ OnItsWay' BY DEF ScanInv, ScanTypes, OnItsWay
<1>2. PartitionsInside' BY DEF ScanInv, PartitionsInside, InImage
<1>3. VolumesInside' BY DEF ScanInv, VolumesInside, Lies, End, Ratio
<1> QED BY <1>1, <1>2, <1>3 DEF ScanInv

\* A partition that was taken lies in the image, and is not announced yet.
LEMMA TakenKeeps ==
  ASSUME ScanInv, NEW p \in Partitions, InImage(p), Len(partitions) < MaxPartitions,
         partitions' = Append(partitions, p), UNCHANGED <<img, volumes>>
  PROVE  /\ partitions' \in Seq(Partitions) /\ Len(partitions') <= MaxPartitions
         /\ Len(partitions') = Len(partitions) + 1
         /\ PartitionsInside' /\ VolumesInside'
<1>1. /\ partitions \in Seq(Partitions) /\ Len(partitions) \in Nat /\ MaxPartitions \in Nat
  BY ScanAssumption DEF ScanInv, ScanTypes
<1>2. /\ partitions' \in Seq(Partitions) /\ Len(partitions') = Len(partitions) + 1
      /\ \A i \in 1 .. Len(partitions) : partitions'[i] = partitions[i]
      /\ partitions'[Len(partitions) + 1] = p
  BY <1>1
<1>3. PartitionsInside'
  <2>1. SUFFICES ASSUME NEW i \in 1 .. Len(partitions') PROVE InImage(partitions[i])'
    BY DEF PartitionsInside
  <2>2. CASE i = Len(partitions) + 1 BY <1>2, <2>2 DEF InImage
  <2>3. CASE i \in 1 .. Len(partitions)
    BY <1>2, <2>3 DEF InImage, ScanInv, PartitionsInside
  <2> QED BY <1>1, <1>2, <2>1, <2>2, <2>3
<1>4. VolumesInside'
  <2>1. SUFFICES ASSUME NEW d \in DOMAIN volumes
                 PROVE  /\ volumes[d].part \in 1 .. Len(partitions')
                        /\ Lies(volumes[d], partitions'[volumes[d].part])
    BY DEF VolumesInside, Lies, End, Ratio
  <2>2. volumes[d].part \in 1 .. Len(partitions) /\ Lies(volumes[d], partitions[volumes[d].part])
    BY DEF ScanInv, VolumesInside
  <2> QED BY <1>1, <1>2, <2>2
<1> QED BY <1>1, <1>2, <1>3, <1>4

LEMMA ScanInitInv == ScanInit => ScanInv
<1> SUFFICES ASSUME ScanInit PROVE ScanInv OBVIOUS
<1>1. first \in Nat BY ScanAssumption DEF ScanInit
<1>2. partitions \in Seq(Partitions) /\ Len(partitions) = 0 BY DEF ScanInit
<1>3. ScanTypes
  <2>1. MaxPartitions \in Nat /\ MaxPartitions >= 1 BY ScanAssumption
  <2>2. /\ slot \in 0 .. 5 /\ base \in Nat /\ lba \in Nat /\ links \in 0 .. MaxPartitions - 1
        /\ Len(partitions) <= MaxPartitions /\ index \in Nat /\ drive \in Nat
    BY <1>2, <2>1 DEF ScanInit
  <2>3. img \in Images /\ step \in StepNames /\ table \in {"mbr", "ahdi"} /\ misread \in BOOLEAN
    BY DEF ScanInit, StepNames
  <2> QED BY <1>1, <1>2, <2>2, <2>3 DEF ScanTypes
<1>4. OnItsWay /\ PartitionsInside /\ VolumesInside
  BY DEF ScanInit, OnItsWay, PartitionsInside, VolumesInside
<1> QED BY <1>4, <1>3 DEF ScanInv

LEMMA RejectInv == ASSUME ScanInv, Reject, misread' \in BOOLEAN PROVE ScanInv'
<1>1. /\ step' = "done" /\ UNCHANGED <<img, first, table, slot, base, lba, links, partitions,
                                       index, drive, volumes>>
  BY DEF Reject, walk, announce
<1> QED BY <1>1, ScanSame DEF ScanInv, ScanTypes, StepNames

LEMMA OpenInv == ASSUME ScanInv, NEW ok \in BOOLEAN, Open(ok) PROVE ScanInv'
<1>1. CASE ~ok /\ Reject BY <1>1, RejectInv DEF Open
<1>2. CASE step' = "root" /\ UNCHANGED <<img, first, walk, announce>>
  BY <1>2, ScanSame DEF Open, ScanInv, ScanTypes, StepNames, walk, announce
<1> QED BY <1>1, <1>2 DEF Open

LEMMA ReadRootInv == ASSUME ScanInv, NEW ok \in BOOLEAN, ReadRoot(ok) PROVE ScanInv'
<1>1. misread' \in BOOLEAN BY DEF ReadRoot, ScanInv, ScanTypes
<1>2. CASE /\ step' = "slot" /\ slot' = 1
           /\ UNCHANGED <<img, first, table, base, lba, links, partitions, announce>>
  BY <1>1, <1>2, ScanSame DEF ScanInv, ScanTypes, StepNames, announce
<1>3. CASE /\ table' = "ahdi"
           /\ UNCHANGED <<img, first, step, slot, base, lba, links, partitions, announce>>
  BY <1>1, <1>3, ScanSame DEF ReadRoot, ScanInv, ScanTypes, StepNames, announce
<1>4. CASE Reject BY <1>1, <1>4, RejectInv
<1> QED BY <1>2, <1>3, <1>4 DEF ReadRoot

LEMMA SlotInv ==
  ASSUME ScanInv, SkipSlot \/ BadSlot \/ EnterChain \/ SlotsDone PROVE ScanInv'
<1>1. CASE SkipSlot
  BY <1>1, ScanSame DEF SkipSlot, ScanInv, ScanTypes, OnItsWay, StepNames, announce
<1>2. CASE BadSlot BY <1>2, RejectInv DEF BadSlot, ScanInv, ScanTypes
<1>3. CASE EnterChain
  <2>1. Root.first \in Nat BY <1>3, ReadTypes DEF EnterChain, Partitions
  <2>2. slot \in 1 .. 4 BY <1>3 DEF EnterChain, ScanInv, OnItsWay
  <2> QED BY <1>3, <2>1, <2>2, ScanSame, ScanAssumption
       DEF EnterChain, ScanInv, ScanTypes, StepNames, announce
<1>4. CASE SlotsDone
  <2>1. CASE /\ step' = "announce" /\ index' = 1 /\ drive' = first
             /\ UNCHANGED <<img, first, walk, volumes>>
    <3>1. 1 \in 1 .. Len(partitions) + 1 BY DEF ScanInv, ScanTypes
    <3> QED BY <1>4, <2>1, <3>1, ScanSame DEF SlotsDone, ScanInv, ScanTypes, StepNames, walk
  <2>2. CASE /\ step' = "root" /\ table' = "ahdi"
             /\ UNCHANGED <<img, first, slot, base, lba, links, partitions, announce>>
    BY <1>4, <2>2, ScanSame DEF SlotsDone, ScanInv, ScanTypes, StepNames, announce
  <2>3. CASE Reject BY <1>4, <2>3, RejectInv DEF SlotsDone, ScanInv, ScanTypes
  <2> QED BY <1>4, <2>1, <2>2, <2>3 DEF SlotsDone
<1> QED BY <1>1, <1>2, <1>3, <1>4

LEMMA TakeSlotInv == ASSUME ScanInv, TakeSlot PROVE ScanInv'
<1>1. Root \in Partitions BY ReadTypes DEF TakeSlot
<1>2. /\ partitions' \in Seq(Partitions) /\ Len(partitions') <= MaxPartitions
      /\ PartitionsInside' /\ VolumesInside'
  BY <1>1, TakenKeeps DEF TakeSlot, announce
<1>3. slot \in 1 .. 4 BY DEF TakeSlot, ScanInv, OnItsWay
<1>4. ScanTypes' /\ OnItsWay'
  BY <1>2, <1>3 DEF TakeSlot, ScanInv, ScanTypes, OnItsWay, announce
<1> QED BY <1>2, <1>4 DEF ScanInv

LEMMA FollowChainInv == ASSUME ScanInv, FollowChain PROVE ScanInv'
<1>1. /\ partitions' \in Seq(Partitions) /\ Len(partitions') <= MaxPartitions
      /\ PartitionsInside' /\ VolumesInside'
  <2>1. CASE Logical = NoPartition
    <3>1. UNCHANGED <<img, partitions, volumes>> BY <2>1 DEF FollowChain, Taken, announce
    <3> QED BY <3>1 DEF ScanInv, ScanTypes, PartitionsInside, InImage, VolumesInside, Lies, End, Ratio
  <2>2. CASE Logical # NoPartition
    <3>1. partitions' = Append(partitions, Logical) /\ UNCHANGED <<img, volumes>>
      BY <2>2 DEF FollowChain, Taken, announce
    <3>2. InImage(Logical) /\ Len(partitions) < MaxPartitions
      BY <2>2 DEF FollowChain, GoodDescriptor
    <3> QED BY <3>1, <3>2, ReadTypes, TakenKeeps
  <2> QED BY <2>1, <2>2
<1>2. slot \in 1 .. 4 /\ step = "chain" BY DEF FollowChain, ScanInv, OnItsWay
<1>3. /\ step' \in {"chain", "slot"} /\ slot' \in 1 .. 5 /\ lba' \in Nat
      /\ links' \in 0 .. MaxPartitions - 1 /\ (step' = "chain" => slot' = slot)
  <2>1. CASE NextLink # NoPartition /\ Counted(Logical) < MaxPartitions
    <3>1. NextLink.first \in Nat BY ReadTypes DEF Partitions
    <3> QED BY <1>2, <2>1, <3>1, ScanAssumption DEF FollowChain, Counted, ScanInv, ScanTypes
  <2>2. CASE ~(NextLink # NoPartition /\ Counted(Logical) < MaxPartitions)
    BY <1>2, <2>2 DEF FollowChain, ScanInv, ScanTypes
  <2> QED BY <2>1, <2>2
<1>4. ScanTypes' /\ OnItsWay'
  BY <1>1, <1>2, <1>3 DEF FollowChain, ScanInv, ScanTypes, OnItsWay, StepNames, announce
<1> QED BY <1>1, <1>4 DEF ScanInv

LEMMA BadChainInv == ASSUME ScanInv, BadChain PROVE ScanInv'
BY RejectInv DEF BadChain, ScanInv, ScanTypes

\* A drive that is announced lies in the partition whose number it gets; lbn is
\* where it starts.
LEMMA GiveInv ==
  ASSUME ScanInv, step = "announce", index \in DOMAIN partitions, NEW b \in Boots,
         NEW view, NEW lbn \in Nat, partitions[index].first <= lbn,
         lbn + b.total * Ratio(b.bps) <= partitions[index].first + partitions[index].count,
         Give(Volume(view, b, lbn)), misread' \in BOOLEAN
  PROVE  ScanInv'
<1> DEFINE v == Volume(view, b, lbn)
<1>1. /\ v.part = index /\ v.start = lbn /\ v.count = b.total /\ v.bpb.recsize = b.bps
  BY DEF Volume, Bpb
<1>2. Lies(v, partitions[index])
  <2>1. b.total * Ratio(b.bps) \in Int BY ImageAssumption DEF Boots, Ratio
  <2> QED BY <1>1, <2>1 DEF Lies, End
<1> HIDE DEF v
<1>3. /\ volumes' = [d \in DOMAIN volumes \cup {drive} |-> IF d = drive THEN v ELSE volumes[d]]
      /\ drive' = drive + 1 /\ index' = index + 1
      /\ UNCHANGED <<img, first, step, table, slot, base, lba, links, partitions>>
  BY DEF Give, walk, v
<1>4. index \in 1 .. Len(partitions) /\ Len(partitions) \in Nat BY DEF ScanInv, ScanTypes
<1>5. ScanTypes' /\ OnItsWay' BY <1>3, <1>4 DEF ScanInv, ScanTypes, OnItsWay
<1>6. PartitionsInside' BY <1>3 DEF ScanInv, PartitionsInside, InImage
<1>7. VolumesInside'
  <2>1. SUFFICES ASSUME NEW d \in DOMAIN volumes \cup {drive}
                 PROVE  /\ volumes'[d].part \in 1 .. Len(partitions)
                        /\ Lies(volumes'[d], partitions[volumes'[d].part])
    BY <1>3 DEF VolumesInside, Lies, End, Ratio
  <2>2. CASE d = drive
    <3>1. volumes'[d] = v BY <1>3, <2>2
    <3> QED BY <1>1, <1>2, <1>4, <3>1
  <2>3. CASE d # drive
    <3>1. volumes'[d] = volumes[d] /\ d \in DOMAIN volumes BY <1>3, <2>3
    <3> QED BY <3>1 DEF ScanInv, VolumesInside
  <2> QED BY <2>2, <2>3
<1> QED BY <1>5, <1>6, <1>7 DEF ScanInv

LEMMA AnnounceInv ==
  ASSUME ScanInv, NEW p \in Upcoming, NEW dos, dos = Boot(p.first), NEW tos, tos = Boot(p.first + 1),
         AnnounceTos(p, dos, tos) \/ AnnounceDos(p, dos, tos) \/ SkipPartition(p, dos, tos)
  PROVE  ScanInv'
<1>1. /\ step = "announce" /\ index \in DOMAIN partitions /\ p = partitions[index]
      /\ p.first \in Nat /\ p.count \in Nat /\ index \in 1 .. Len(partitions)
  <2>1. step = "announce" BY DEF Upcoming
  <2>2. index \in DOMAIN partitions /\ p = partitions[index] BY <2>1 DEF Upcoming
  <2>3. index \in 1 .. Len(partitions) /\ partitions[index] \in Partitions
    BY <2>2 DEF ScanInv, ScanTypes
  <2> QED BY <2>1, <2>2, <2>3 DEF Partitions
<1>2. dos \in Boots /\ tos \in Boots BY BootType
<1>3. /\ dos.total * Ratio(dos.bps) \in Int /\ tos.total * Ratio(tos.bps) \in Int
  BY <1>2, ImageAssumption DEF Boots, Ratio
<1>4. CASE AnnounceTos(p, dos, tos)
  <2>1. 1 + tos.total * Ratio(tos.bps) <= p.count BY <1>4 DEF AnnounceTos, ServesTos, TosFits
  <2>2. /\ p.first + 1 \in Nat /\ p.first <= p.first + 1
        /\ (p.first + 1) + tos.total * Ratio(tos.bps) <= p.first + p.count
    BY <1>1, <1>3, <2>1
  <2> QED BY <1>1, <1>2, <1>4, <2>2, GiveInv DEF AnnounceTos, ScanInv, ScanTypes
<1>5. CASE AnnounceDos(p, dos, tos)
  <2>1. dos.total * Ratio(dos.bps) <= p.count BY <1>5 DEF AnnounceDos, IsFat16
  <2>2. p.first + dos.total * Ratio(dos.bps) <= p.first + p.count BY <1>1, <1>3, <2>1
  <2>3. misread' \in BOOLEAN BY <1>5 DEF AnnounceDos, ScanInv, ScanTypes
  <2> QED BY <1>1, <1>2, <1>5, <2>2, <2>3, GiveInv DEF AnnounceDos
<1>6. CASE SkipPartition(p, dos, tos)
  <2>1. misread' \in BOOLEAN /\ index' = index + 1
        /\ UNCHANGED <<img, first, step, table, slot, base, lba, links, partitions, drive, volumes>>
    BY <1>6 DEF SkipPartition, ScanInv, ScanTypes, walk
  <2>2. index' \in 1 .. Len(partitions) + 1 BY <1>1, <2>1 DEF ScanInv, ScanTypes
  <2> QED BY <1>1, <2>1, <2>2, ScanSame DEF ScanInv, ScanTypes
<1> QED BY <1>4, <1>5, <1>6

LEMMA AnnouncedInv == ASSUME ScanInv, Announced PROVE ScanInv'
BY ScanSame DEF Announced, ScanInv, ScanTypes, StepNames, walk, announce

LEMMA ScanNextInv == ASSUME ScanInv, [ScanNext]_scanVars PROVE ScanInv'
<1>1. ASSUME NEW ok \in Reads, Open(ok) PROVE ScanInv' BY <1>1, OpenInv DEF Reads
<1>2. ASSUME NEW ok \in Reads, ReadRoot(ok) PROVE ScanInv' BY <1>2, ReadRootInv DEF Reads
<1>3. CASE SkipSlot \/ BadSlot \/ EnterChain \/ SlotsDone BY <1>3, SlotInv
<1>4. CASE TakeSlot BY <1>4, TakeSlotInv
<1>5. CASE FollowChain BY <1>5, FollowChainInv
<1>6. CASE BadChain BY <1>6, BadChainInv
<1>7. ASSUME NEW p \in Upcoming, NEW dos \in {Boot(p.first)}, NEW tos \in {Boot(p.first + 1)},
             AnnounceTos(p, dos, tos) \/ AnnounceDos(p, dos, tos) \/ SkipPartition(p, dos, tos)
      PROVE  ScanInv'
  BY <1>7, AnnounceInv
<1>8. CASE Announced BY <1>8, AnnouncedInv
<1>9. CASE UNCHANGED scanVars
  BY <1>9, ScanSame DEF ScanInv, ScanTypes, OnItsWay, scanVars, walk, announce
<1> QED BY <1>1, <1>2, <1>3, <1>4, <1>5, <1>6, <1>7, <1>8, <1>9 DEF ScanNext

\* The scan's part of a step of the whole: once the drives are published
\* nothing of it changes.
LEMMA DiskStepInv == ASSUME ScanInv, [DiskNext]_diskVars PROVE ScanInv'
<1>1. CASE Publish
  BY <1>1, ScanSame DEF Publish, ScanInv, ScanTypes, StepNames, walk, announce
<1>2. CASE [ScanNext]_scanVars BY <1>2, ScanNextInv
<1> QED BY <1>1, <1>2 DEF DiskNext, Scan, Unused, Work, diskVars

LEMMA ScanInductive == DiskSpec => []ScanInv
<1>1. DiskInit => ScanInv BY ScanInitInv DEF DiskInit
<1> QED BY <1>1, DiskStepInv, PTL DEF DiskSpec

\* No table, chain or boot sector, and no read that fails, makes the scan
\* announce a drive that reaches out of its partition or of the image.
THEOREM NoDriveOutside == DiskSpec => []DrivesInside
<1>1. ScanInv => DrivesInside
  <2>1. SUFFICES ASSUME ScanInv, NEW d \in DOMAIN volumes
                 PROVE  LET v == volumes[d]
                            p == partitions[v.part]
                        IN p.first <= v.start /\ End(v) <= p.first + p.count /\ End(v) <= img.size
    BY DEF DrivesInside
  <2> DEFINE v == volumes[d]
             p == partitions[v.part]
  <2>2. v.part \in 1 .. Len(partitions) /\ p.first <= v.start /\ End(v) <= p.first + p.count
    BY <2>1 DEF ScanInv, VolumesInside, Lies
  <2>3. p.first + p.count <= img.size
    BY <2>1, <2>2 DEF ScanInv, PartitionsInside, InImage
  <2>4. p \in Partitions BY <2>1, <2>2 DEF ScanInv, ScanTypes
  <2>5. End(v) \in Int BY <2>1 DEF ScanInv, VolumesInside, Lies
  <2> HIDE DEF v, p
  <2>6. End(v) <= img.size BY <2>1, <2>2, <2>3, <2>4, <2>5, ReadTypes DEF Partitions
  <2> QED BY <2>2, <2>6 DEF v, p
<1> QED BY ScanInductive, <1>1, PTL
-----------------------------------------------------------------------------
(* The scan ends                                                            *)

Chain == MaxPartitions + 2
Rest  == IF table = "mbr" THEN 12 * Chain ELSE 0

\* What is left, step by step.
Measured ==
  LET whole == MaxPartitions + 2 + Rest
  IN  /\ Left \in Nat /\ (step \notin {"done", "published"} => Left > 0)
      /\ step = "open" => Left = whole + 6 * Chain + 1
      /\ step = "root" => Left = whole + 6 * Chain
      /\ step = "slot" => Left = whole + (5 - slot) * Chain + MaxPartitions + 1
      /\ step = "chain" => Left = whole + (5 - slot) * Chain + MaxPartitions - links
      /\ step = "announce" => Left = 1 + Len(partitions) + 1 - index
      /\ step \in {"done", "published"} => Left = 0

LEMMA LeftIs == ScanInv => Measured
<1> SUFFICES ASSUME ScanInv PROVE Measured OBVIOUS
<1>1. /\ MaxPartitions \in Nat /\ Chain \in Nat /\ Rest \in Nat /\ links \in 0 .. MaxPartitions - 1
      /\ Rest = (IF table = "mbr" THEN 2 * (6 * Chain) ELSE 0)
  BY ScanAssumption DEF ScanInv, ScanTypes, Chain, Rest
<1>2. /\ step = "open" => Left = MaxPartitions + 2 + Rest + 6 * Chain + 1
      /\ step = "root" => Left = MaxPartitions + 2 + Rest + 6 * Chain
  BY <1>1 DEF Left, Chain
<1>3. /\ step = "slot" =>
           Left = MaxPartitions + 2 + Rest + (5 - slot) * Chain + MaxPartitions + 1
      /\ step = "chain" =>
           Left = MaxPartitions + 2 + Rest + (5 - slot) * Chain + MaxPartitions - links
  BY <1>1 DEF Left, Chain
<1>4. /\ step = "announce" => Left = 1 + Len(partitions) + 1 - index
      /\ step \in {"done", "published"} => Left = 0
  BY DEF Left
<1>5. \A k \in 1 .. 5 : (5 - k) * Chain \in Nat
  BY <1>1
<1>6. Left \in Nat /\ (step \notin {"done", "published"} => Left > 0)
  <2>1. CASE step \in {"open", "root"} BY <1>1, <1>2, <2>1
  <2>2. CASE step \in {"slot", "chain"}
    <3>1. (5 - slot) * Chain \in Nat BY <1>5, <2>2 DEF ScanInv, OnItsWay
    <3> DEFINE m == (5 - slot) * Chain
    <3> HIDE DEF m
    <3>2. Left = MaxPartitions + 2 + Rest + m + MaxPartitions + 1
          \/ Left = MaxPartitions + 2 + Rest + m + MaxPartitions - links
      BY <1>3, <2>2 DEF m
    <3> QED BY <1>1, <3>1, <3>2 DEF m
  <2>3. CASE step = "announce"
    <3>1. index \in 1 .. Len(partitions) + 1 /\ Len(partitions) \in Nat
      BY <2>3 DEF ScanInv, OnItsWay, ScanTypes
    <3> QED BY <1>4, <2>3, <3>1
  <2>4. CASE step \in {"done", "published"} BY <1>4, <2>4
  <2> QED BY <2>1, <2>2, <2>3, <2>4 DEF ScanInv, ScanTypes, StepNames
<1> QED BY <1>1, <1>2, <1>3, <1>4, <1>6 DEF Measured

\* A slot costs a chain.
LEMMA SlotCosts ==
  /\ Chain = MaxPartitions + 2 /\ MaxPartitions \in Nat \ {0}
  /\ \A k \in 1 .. 5 : (5 - k) * Chain \in Nat
  /\ \A k \in 1 .. 4 : (5 - k) * Chain = (5 - (k + 1)) * Chain + Chain
  /\ (5 - 5) * Chain = 0 /\ (5 - 1) * Chain = 4 * Chain
BY ScanAssumption DEF Chain

LEMMA RejectForward ==
  ASSUME ScanInv, Measured, Measured', step \notin {"done", "published"}, Reject PROVE Left' \in 0 .. Left - 1
BY DEF Reject, Measured

\* Every step takes the scan forward.
LEMMA Forward ==
  ASSUME ScanInv, ScanInv', Measured, Measured', ScanNext, step \notin {"done", "published"}
  PROVE  Left' \in 0 .. Left - 1
<1> USE SlotCosts
<1>1. Rest \in Nat /\ (table' = table => Rest' = Rest)
      /\ (table = "mbr" => Rest = 12 * Chain) /\ (table' = "ahdi" => Rest' = 0)
  BY DEF Rest, Chain
<1>2. Left \in Nat /\ Left' \in Nat /\ Left > 0 BY DEF Measured
<1>3. ASSUME NEW ok \in Reads, Open(ok) PROVE Left' < Left
  BY <1>1, <1>2, <1>3, RejectForward DEF Open, Measured, walk
<1>4. ASSUME NEW ok \in Reads, ReadRoot(ok) PROVE Left' < Left
  <2>1. CASE /\ step' = "slot" /\ slot' = 1
             /\ UNCHANGED <<img, first, table, base, lba, links, partitions, announce>>
    BY <1>1, <1>4, <2>1 DEF ReadRoot, Measured
  <2>2. CASE /\ table = "mbr" /\ table' = "ahdi"
             /\ UNCHANGED <<img, first, step, slot, base, lba, links, partitions, announce>>
    BY <1>1, <1>4, <2>2 DEF ReadRoot, Measured
  <2>3. CASE Reject BY <1>2, <2>3, RejectForward
  <2> QED BY <1>4, <2>1, <2>2, <2>3 DEF ReadRoot
<1>5. CASE SkipSlot \/ TakeSlot
  <2>1. /\ step = "slot" /\ step' = "slot" /\ slot \in 1 .. 4 /\ slot' = slot + 1
        /\ table' = table
    BY <1>5 DEF SkipSlot, TakeSlot, ScanInv, OnItsWay
  <2>2. /\ Left = MaxPartitions + 2 + Rest + (5 - slot) * Chain + MaxPartitions + 1
        /\ Left' = MaxPartitions + 2 + Rest + (5 - (slot + 1)) * Chain + MaxPartitions + 1
        /\ (5 - slot) * Chain = (5 - (slot + 1)) * Chain + Chain
    BY <1>1, <2>1 DEF Measured
  <2> DEFINE m == (5 - (slot + 1)) * Chain
  <2>3. m \in Nat /\ (5 - slot) * Chain = m + Chain BY <2>1
  <2> HIDE DEF m
  <2>4. Left = MaxPartitions + 2 + Rest + (m + Chain) + MaxPartitions + 1
        /\ Left' = MaxPartitions + 2 + Rest + m + MaxPartitions + 1
    BY <2>2, <2>3 DEF m
  <2> QED BY <1>1, <2>3, <2>4
<1>6. CASE BadSlot BY <1>2, <1>6, RejectForward DEF BadSlot
<1>7. CASE EnterChain
  <2>1. /\ step = "slot" /\ step' = "chain" /\ slot' = slot /\ table' = table /\ links' = 0
        /\ slot \in 1 .. 4
    BY <1>7 DEF EnterChain, ScanInv, OnItsWay
  <2> DEFINE m == (5 - slot) * Chain
  <2>2. m \in Nat BY <2>1
  <2>3. /\ Left = MaxPartitions + 2 + Rest + m + MaxPartitions + 1
        /\ Left' = MaxPartitions + 2 + Rest + m + MaxPartitions - 0
    BY <1>1, <2>1 DEF Measured
  <2> HIDE DEF m
  <2> QED BY <1>1, <2>2, <2>3
<1>8. CASE SlotsDone
  <2>1. step = "slot" /\ slot = 5 BY <1>8 DEF SlotsDone
  <2>2. Left = MaxPartitions + 2 + Rest + 0 + MaxPartitions + 1 BY <2>1 DEF Measured
  <2>3. CASE step' = "announce" /\ index' = 1 /\ partitions' = partitions
    <3>1. Left' = 1 + Len(partitions) + 1 - 1 BY <2>3 DEF Measured
    <3>2. Len(partitions) \in Nat /\ Len(partitions) <= MaxPartitions BY DEF ScanInv, ScanTypes
    <3> QED BY <1>1, <2>2, <3>1, <3>2
  <2>4. CASE step' = "root" /\ table = "mbr" /\ table' = "ahdi"
    BY <1>1, <2>2, <2>4 DEF Measured
  <2>5. CASE Reject BY <1>2, <2>5, RejectForward
  <2> QED BY <1>8, <2>3, <2>4, <2>5 DEF SlotsDone, walk
<1>9. CASE FollowChain
  <2>1. step = "chain" /\ slot \in 1 .. 4 /\ table' = table /\ links \in 0 .. MaxPartitions - 1
    BY <1>9 DEF FollowChain, ScanInv, OnItsWay, ScanTypes
  <2> DEFINE m == (5 - (slot + 1)) * Chain
  <2>2. m \in Nat /\ (5 - slot) * Chain = m + Chain BY <2>1
  <2>3. Left = MaxPartitions + 2 + Rest + (m + Chain) + MaxPartitions - links
    BY <2>1, <2>2 DEF Measured
  <2>4. CASE step' = step /\ slot' = slot /\ links' = links + 1
    <3>1. Left' = MaxPartitions + 2 + Rest + (m + Chain) + MaxPartitions - (links + 1)
      BY <1>1, <2>1, <2>2, <2>4 DEF Measured
    <3> HIDE DEF m
    <3> QED BY <1>1, <2>1, <2>2, <2>3, <3>1
  <2>5. CASE step' = "slot" /\ slot' = slot + 1
    <3>1. Left' = MaxPartitions + 2 + Rest + m + MaxPartitions + 1
      BY <1>1, <2>1, <2>2, <2>5 DEF Measured
    <3> HIDE DEF m
    <3> QED BY <1>1, <2>1, <2>2, <2>3, <3>1
  <2> QED BY <1>9, <2>4, <2>5 DEF FollowChain, Counted
<1>10. CASE BadChain BY <1>2, <1>10, RejectForward DEF BadChain
<1>11. ASSUME NEW p \in Upcoming, NEW dos, NEW tos,
              AnnounceTos(p, dos, tos) \/ AnnounceDos(p, dos, tos) \/ SkipPartition(p, dos, tos)
       PROVE  Left' < Left
  <2>1. step = "announce" /\ step' = step /\ partitions' = partitions /\ index' = index + 1
    BY <1>11 DEF Upcoming, AnnounceTos, AnnounceDos, SkipPartition, Give, walk
  <2>2. index \in Nat /\ Len(partitions) \in Nat BY DEF ScanInv, ScanTypes
  <2> QED BY <2>1, <2>2 DEF Measured
<1>12. CASE Announced BY <1>2, <1>12 DEF Announced, Measured
<1> QED BY <1>2, <1>3, <1>4, <1>5, <1>6, <1>7, <1>8, <1>9, <1>10, <1>11, <1>12 DEF ScanNext

\* acsi_enumerate_partitions and acsiRefreshVolumeDriveRange come to an end on
\* every image, also one whose chain runs in a circle: what is left of the scan
\* shrinks with every step.
THEOREM ScanTerminates == DiskSpec => ScanEnds
<1>1. ASSUME ScanInv, ScanInv', Measured, Measured', [DiskNext]_diskVars
      PROVE  [Scanned \/ Left' \in 0 .. Left - 1]_scanVars
  <2>1. CASE step = "done" BY <2>1 DEF Scanned
  <2>2. CASE step = "published" /\ ScanNext
    BY <2>2 DEF ScanNext, Open, ReadRoot, SkipSlot, TakeSlot, BadSlot, EnterChain, SlotsDone,
                FollowChain, BadChain, Upcoming, Announced
  <2>3. CASE step \notin {"done", "published"} /\ ScanNext BY <1>1, <2>3, Forward
  <2>4. CASE UNCHANGED scanVars BY <2>4
  <2>5. CASE Publish BY <2>5 DEF Publish
  <2> QED BY <1>1, <2>1, <2>2, <2>3, <2>4, <2>5
       DEF DiskNext, Scan, Unused, Work, diskVars
<1>2. ScanInv => Measured BY LeftIs
<1> QED BY ScanInductive, <1>1, <1>2, PTL DEF DiskSpec, ScanEnds
-----------------------------------------------------------------------------
(* Transfers: the state between two steps                                    *)

\* What may be repeated without harm: not a read, whose blocks are swapped in
\* the buffer, and not the last chunk of several, which swaps the others.
HarmlessRepeats == Repeats \cap {"read", "last"} = {}

MaskJobs  == [op : {"mask"}, mask : SUBSET Drives]
ReadJobs  == [op : {"read"}, drive : Drives, rec : Nat, count : Nat \ {0}]
WriteJobs ==
  {j \in [op : {"write"}, drive : Drives, rec : Nat, count : Nat \ {0}, data : Seq(Values)] :
     Len(j.data) = j.count /\ j.rec + j.count <= Count[j.drive]}

DiskTypes ==
  /\ cur \in Cmds \cup {NoCmd} /\ effect \in Cmds \cup {NoCmd} /\ done \in BOOLEAN
  /\ pc \in {"idle", "send", "wait", "status", "copy"}
  /\ job \in {NoJob} \cup MaskJobs \cup ReadJobs \cup WriteJobs
  /\ at \in Nat /\ off \in Nat /\ got \in Seq(Copies)
  /\ buffer \in [1 .. MaxBatch -> Copies] /\ image \in [Blocks -> Copies]
  /\ status \in {0, -8, -10, -11}
  /\ disk \in [Blocks -> Values \cup {Unknown}] /\ mask \subseteq Drives

\* The command the Atari sends next, or has sent.
Expected == IF job.op = "read" THEN ReadCommand
            ELSE IF job.op = "write" THEN ChunkCommand
            ELSE [op |-> "mask", mask |-> job.mask]

InStep ==
  /\ pc = "idle" <=> job = NoJob
  /\ pc \in {"idle", "send"} => call = "none"
  /\ pc = "wait" => call = "open" /\ cur = Expected /\ (done => effect = cur)
  /\ pc \in {"status", "copy"} => call = "answered" /\ done /\ cur = Expected /\ effect = cur
  /\ pc = "copy" => job.op = "read"

Progress ==
  /\ job.op \in {"none", "mask"} => at = 0 /\ off = 0 /\ got = <<>>
  /\ job.op \in {"read", "write"} => at < job.count
  /\ job.op = "write" => off < Batch /\ got = <<>>
  /\ job.op = "read" => off <= Batch /\ (pc # "copy" => off = 0) /\ Len(got) = at + off

JobBlock(k) == Block(job.drive, job.rec + k - 1)

\* The RP has carried out the command the Atari waits for.
Performed == pc \in {"wait", "status"} /\ done

\* Chunks of the batch that the RP has.
Sent == IF Performed THEN off + 1 ELSE off

\* A read that is loaded and not swapped is not over, and none of a batch of
\* writes is in the buffer.
Busy ==
  running # NoCmd =>
    /\ ~done /\ ~(job.op = "write" /\ off > 0)
    /\ running \in ReadCmds /\ running.count <= MaxBatch
    /\ running.rec + running.count <= Count[running.drive]
    /\ \A i \in 1 .. running.count :
         buffer[i] = image[Block(running.drive, running.rec + i - 1)]

\* Between two chunks, what may be repeated is the chunk before.
Previous == [op |-> "write", drive |-> job.drive, rec |-> job.rec + at, off |-> off - 1,
             total |-> Batch, data |-> job.data[at + off]]
OwnEffect == job.op = "write" /\ off > 0 /\ ~Performed => effect = Previous

Chunks ==
  job.op = "write" /\ Sent < Batch =>
    \A i \in 1 .. Sent : buffer[i] = [val |-> job.data[at + i], le |-> FALSE]

BatchesWritten ==
  job.op = "write" =>
    \A k \in 1 .. at : image[JobBlock(k)] = [val |-> job.data[k], le |-> TRUE]

BatchWritten ==
  job.op = "write" /\ Sent = Batch /\ status = 0 =>
    \A i \in 1 .. Batch : image[JobBlock(at + i)] = [val |-> job.data[at + i], le |-> TRUE]

\* A write of one chunk may be repeated: it writes what is there.
Whole(c) == c \in WriteCmds /\ Kind(c) = "whole"
Harmless ==
  Whole(effect) =>
    \A b \in Blocks : b = Block(effect.drive, effect.rec) =>
      /\ b \notin InFlux => disk[b] \in {effect.data, Unknown}
      /\ job.op = "write" => \A k \in 1 .. at : JobBlock(k) = b => effect.data = job.data[k]

ReadReady ==
  job.op = "read" /\ (pc = "copy" \/ (Performed /\ status = 0)) =>
    \A i \in 1 .. Batch : disk[JobBlock(at + i)] # Unknown =>
      buffer[i] = [val |-> disk[JobBlock(at + i)], le |-> FALSE]

\* The parts about what is written and read.
Contents == Chunks /\ BatchesWritten /\ BatchWritten /\ Harmless /\ ReadReady
            /\ DiskAsWritten /\ ReadBack

DiskInv == DiskTypes /\ InStep /\ Progress /\ Busy /\ OwnEffect /\ Contents
-----------------------------------------------------------------------------
(* Jobs, batches and blocks                                                  *)

LEMMA JobTypes ==
  ASSUME DiskInv
  PROVE  /\ job = NoJob <=> job.op = "none"
         /\ job.op = "mask" => job \in MaskJobs
         /\ job.op = "read" => job \in ReadJobs
         /\ job.op = "write" => job \in WriteJobs
         /\ job.op \in {"none", "mask", "read", "write"}
<1>1. CASE job = NoJob BY <1>1 DEF NoJob
<1>2. CASE job \in MaskJobs BY <1>2 DEF MaskJobs, NoJob
<1>3. CASE job \in ReadJobs BY <1>3 DEF ReadJobs, NoJob
<1>4. CASE job \in WriteJobs BY <1>4 DEF WriteJobs, NoJob
<1> QED BY <1>1, <1>2, <1>3, <1>4 DEF DiskInv, DiskTypes

LEMMA BatchFacts ==
  ASSUME DiskInv, job.op \in {"read", "write"}
  PROVE  /\ at \in Nat /\ job.count \in Nat /\ job.rec \in Nat /\ job.drive \in Drives
         /\ Batch \in 1 .. MaxBatch /\ at + Batch <= job.count /\ MaxBatch \in Nat
         /\ (at + Batch < job.count \/ at + Batch = job.count)
<1>1. /\ job.count \in Nat \ {0} /\ job.rec \in Nat /\ job.drive \in Drives
  BY JobTypes DEF ReadJobs, WriteJobs
<1>2. at \in Nat /\ at < job.count BY DEF DiskInv, DiskTypes, Progress
<1>3. MaxBatch \in Nat \ {0} BY AcsiAssumption
<1> QED BY <1>1, <1>2, <1>3 DEF Batch

LEMMA InRange ==
  ASSUME NEW s \in Nat, NEW r \in Nat, NEW n \in Nat, NEW c \in Nat, NEW size \in Nat,
         r + n <= c, s + c <= size, NEW k \in 1 .. n
  PROVE  s + r + k - 1 \in 0 .. size - 1
OBVIOUS

\* The blocks of a write: each in the image, no two the same.
LEMMA WriteBlocks ==
  ASSUME DiskInv, job.op = "write"
  PROVE  /\ \A k \in 1 .. job.count :
              /\ JobBlock(k) \in Blocks /\ JobBlock(k) \in JobBlocks
              /\ JobBlock(k) = Start[job.drive] + job.rec + k - 1
              /\ DataAt(JobBlock(k)) = job.data[k] /\ job.data[k] \in Values
         /\ \A k, l \in 1 .. job.count : JobBlock(k) = JobBlock(l) => k = l
         /\ \A b \in JobBlocks : \E k \in 1 .. job.count : b = JobBlock(k)
         /\ job.rec + job.count <= Count[job.drive] /\ Start[job.drive] \in Nat
<1>1. /\ job \in WriteJobs /\ job.count \in Nat /\ job.rec \in Nat /\ job.drive \in Drives
      /\ job.data \in Seq(Values) /\ Len(job.data) = job.count
      /\ job.rec + job.count <= Count[job.drive]
  BY JobTypes DEF WriteJobs
<1>2. Start[job.drive] \in Nat /\ Count[job.drive] \in Nat /\ ImageSize \in Nat
      /\ Start[job.drive] + Count[job.drive] <= ImageSize
  BY <1>1, AcsiAssumption
<1>3. \A k \in 1 .. job.count : JobBlock(k) = Start[job.drive] + job.rec + k - 1
  BY <1>1, <1>2 DEF JobBlock, Block
<1>4. \A k \in 1 .. job.count : JobBlock(k) \in Blocks /\ JobBlock(k) \in JobBlocks
  <2> SUFFICES ASSUME NEW k \in 1 .. job.count
               PROVE  JobBlock(k) \in Blocks /\ JobBlock(k) \in JobBlocks
    OBVIOUS
  <2>1. JobBlock(k) \in JobBlocks BY Zenon DEF JobBlocks, JobBlock
  <2>2. JobBlock(k) = Start[job.drive] + job.rec + k - 1 BY <1>3
  <2>3. job.count \in Nat /\ job.rec \in Nat /\ job.rec + job.count <= Count[job.drive]
    BY <1>1
  <2>4. Start[job.drive] + job.rec + k - 1 \in 0 .. ImageSize - 1 BY <1>2, <2>3, InRange
  <2> QED BY <2>1, <2>2, <2>4 DEF Blocks
<1>5. \A k \in 1 .. job.count : DataAt(JobBlock(k)) = job.data[k] /\ job.data[k] \in Values
  <2> SUFFICES ASSUME NEW k \in 1 .. job.count
               PROVE  DataAt(JobBlock(k)) = job.data[k] /\ job.data[k] \in Values
    OBVIOUS
  <2>1. job.data[k] \in Values BY <1>1
  <2> DEFINE s == Start[job.drive]
             r == job.rec
             b == JobBlock(k)
  <2>2. b = s + r + k - 1 /\ s \in Nat /\ r \in Nat /\ k \in Nat BY <1>1, <1>2, <1>3
  <2>3. DataAt(b) = job.data[b - (s + r) + 1] BY DEF DataAt, Block
  <2> HIDE DEF s, r, b
  <2>4. b - (s + r) + 1 = k BY <2>2
  <2>5. DataAt(b) = job.data[k] BY <2>3, <2>4
  <2> QED BY <2>1, <2>5 DEF b
<1>6. \A k, l \in 1 .. job.count : JobBlock(k) = JobBlock(l) => k = l
  BY <1>1, <1>2, <1>3
<1>7. \A b \in JobBlocks : \E k \in 1 .. job.count : b = JobBlock(k)
  BY DEF JobBlocks, JobBlock
<1> QED BY <1>1, <1>2, <1>3, <1>4, <1>5, <1>6, <1>7

LEMMA ExpectedType ==
  ASSUME DiskInv, job # NoJob
  PROVE  /\ Expected \in Cmds
         /\ Expected.op = job.op
         /\ job.op = "read" => Expected = ReadCommand
         /\ job.op = "write" => Expected = ChunkCommand /\ Expected \in WriteCmds
<1>1. CASE job.op = "read"
  <2>1. ReadCommand \in ReadCmds BY <1>1, BatchFacts DEF ReadCommand, ReadCmds
  <2> QED BY <1>1, <2>1 DEF Expected, Cmds, ReadCommand
<1>2. CASE job.op = "write"
  <2>1. off \in Nat /\ at + off + 1 \in 1 .. job.count
    BY <1>2, BatchFacts DEF DiskInv, DiskTypes, Progress
  <2>2. job.data[at + off + 1] \in Values BY <1>2, <2>1, WriteBlocks
  <2>3. job.rec + at \in Nat /\ Batch \in Nat /\ job.drive \in Drives
    BY <1>2, BatchFacts
  <2>4. ChunkCommand \in WriteCmds BY <2>1, <2>2, <2>3 DEF ChunkCommand, WriteCmds
  <2> QED BY <1>2, <2>4 DEF Expected, Cmds, ChunkCommand
<1>3. CASE job.op = "mask"
  <2>1. job \in MaskJobs BY <1>3, JobTypes
  <2>2. [op |-> "mask", mask |-> job.mask] \in MaskCmds BY <2>1 DEF MaskJobs, MaskCmds
  <2> QED BY <1>3, <2>2 DEF Expected, Cmds
<1> QED BY <1>1, <1>2, <1>3, JobTypes

\* Commands by their op.
LEMMA CmdTypes ==
  ASSUME NEW c \in Cmds
  PROVE  /\ c.op \in {"read", "write", "mask"}
         /\ c.op = "read" => c \in ReadCmds /\ Kind(c) = "read"
         /\ c.op = "write" => c \in WriteCmds
         /\ c.op = "mask" => c \in MaskCmds
         /\ c \in WriteCmds => c.op = "write"
         /\ c \in ReadCmds => c.op = "read"
<1>1. CASE c \in ReadCmds BY <1>1 DEF ReadCmds, WriteCmds, MaskCmds, Kind
<1>2. CASE c \in WriteCmds BY <1>2 DEF ReadCmds, WriteCmds, MaskCmds, Kind
<1>3. CASE c \in MaskCmds BY <1>3 DEF ReadCmds, WriteCmds, MaskCmds, Kind
<1> QED BY <1>1, <1>2, <1>3 DEF Cmds

LEMMA WriteKind ==
  ASSUME NEW c \in WriteCmds
  PROVE  /\ Kind(c) = IF c.off + 1 < c.total THEN "part" ELSE IF c.total = 1 THEN "whole" ELSE "last"
         /\ c.off \in Nat /\ c.total \in Nat /\ c.rec \in Nat /\ c.drive \in Drives
         /\ c.data \in Values
BY DEF WriteCmds, Kind
-----------------------------------------------------------------------------
(* A handler of the RP: the command of the call, or the last one again        *)

First(c) == /\ pc = "wait" /\ ~done /\ job # NoJob /\ c = Expected /\ c = cur
            /\ effect' = c /\ done' = TRUE /\ cur' = cur /\ call' = call
Again(c) == c = effect /\ Kind(c) \in Repeats /\ UNCHANGED link

\* While the call is open the Atari waits for what it expects.
LEMMA OpenCall ==
  ASSUME DiskInv, call = "open"
  PROVE  pc = "wait" /\ cur = Expected /\ job # NoJob
BY DEF DiskInv, InStep, DiskTypes

LEMMA DueIs ==
  ASSUME DiskInv, NEW c \in {cur, effect} \ {NoCmd}, Due(c)
  PROVE  /\ c \in Cmds /\ running = NoCmd
         /\ Ran(c) => First(c) \/ Again(c)
         /\ \/ c = cur /\ call = "open" /\ ~done /\ c = Expected /\ job # NoJob /\ pc = "wait"
            \/ c = effect /\ Kind(c) \in Repeats
<1>1. c \in Cmds BY DEF DiskInv, DiskTypes
<1>2. running = NoCmd
      /\ \/ c = cur /\ call = "open" /\ ~done
         \/ c = effect /\ Kind(c) \in Repeats
  BY DEF Due
<1>3. ASSUME Ran(c) PROVE First(c) \/ Again(c)
  <2>1. CASE c = cur /\ call = "open"
    <3>1. effect' = cur /\ done' = TRUE /\ cur' = cur /\ call' = call
      BY <1>3, <2>1 DEF Ran, Service!Perform
    <3>2. CASE done
      <4>1. c = effect /\ Kind(c) \in Repeats BY <1>2, <3>2
      <4> QED BY <2>1, <3>1, <3>2, <4>1 DEF Again, link, DiskInv, DiskTypes
    <3>3. CASE ~done BY <2>1, <3>1, <3>3, OpenCall DEF First
    <3> QED BY <3>2, <3>3
  <2>2. CASE ~(c = cur /\ call = "open") BY <1>2, <1>3, <2>2 DEF Ran, Again
  <2> QED BY <2>1, <2>2
<1> QED BY <1>1, <1>2, <1>3, OpenCall

\* What the Atari keeps to itself stays.
LEMMA AtariWaits ==
  ASSUME DiskInv, UNCHANGED <<atari, disk>>
  PROVE  /\ Batch' = Batch /\ InFlux' = InFlux /\ Expected' = Expected /\ Previous' = Previous
         /\ \A k : JobBlock(k)' = JobBlock(k)
         /\ Progress' /\ ReadBack'
         /\ pc' = pc /\ job' = job /\ at' = at /\ off' = off /\ got' = got /\ disk' = disk
<1>1. pc' = pc /\ job' = job /\ at' = at /\ off' = off /\ got' = got /\ disk' = disk BY DEF atari
<1>2. Batch' = Batch /\ InFlux' = InFlux BY <1>1 DEF Batch, InFlux, JobBlocks, Block
<1>3. Expected' = Expected /\ Previous' = Previous
  BY <1>1, <1>2 DEF Expected, Previous, ReadCommand, ChunkCommand
<1>4. \A k : JobBlock(k)' = JobBlock(k) BY <1>1 DEF JobBlock, Block
<1>5. Progress' BY <1>1, <1>2 DEF DiskInv, Progress
<1>6. ReadBack' BY <1>1 DEF DiskInv, Contents, ReadBack, Block
<1> QED BY <1>1, <1>2, <1>3, <1>4, <1>5, <1>6

\* And so does the step it is at.
LEMMA HandlerSteps ==
  ASSUME DiskInv, NEW c \in Cmds, First(c) \/ Again(c), UNCHANGED <<atari, disk>>
  PROVE  /\ InStep' /\ OwnEffect'
         /\ cur' \in Cmds \cup {NoCmd} /\ effect' \in Cmds \cup {NoCmd} /\ done' \in BOOLEAN
         /\ First(c) => Performed' /\ ~Performed /\ Sent' = off + 1 /\ Sent = off
         /\ Again(c) => (Performed' <=> Performed) /\ Sent' = Sent
<1> USE AtariWaits
<1>1. CASE First(c)
  <2>1. InStep' BY <1>1 DEF First, DiskInv, InStep
  <2>2. Performed' /\ ~Performed BY <1>1 DEF First, Performed
  <2> QED BY <1>1, <2>1, <2>2 DEF First, Again, link, OwnEffect, Sent, DiskInv, DiskTypes
<1>2. CASE Again(c)
  <2>1. cur' = cur /\ call' = call /\ done' = done /\ effect' = effect BY <1>2 DEF Again, link
  <2>2. InStep' BY <2>1 DEF DiskInv, InStep
  <2>3. (Performed' <=> Performed) /\ Sent' = Sent BY <2>1 DEF Performed, Sent
  <2>4. OwnEffect' BY <2>1, <2>3 DEF DiskInv, OwnEffect
  <2> QED BY <2>1, <2>2, <2>3, <2>4 DEF First, DiskInv, DiskTypes
<1> QED BY <1>1, <1>2

\* A read that follows a repetition is not what is repeated.
LEMMA AgainIsNoRead ==
  ASSUME DiskInv, HarmlessRepeats, NEW c \in Cmds, Again(c)
  PROVE  c.op # "read" /\ Kind(c) # "last"
BY CmdTypes DEF HarmlessRepeats, Again

\* What the Atari reads after a call is the answer to the call.
LEMMA EffectNow ==
  ASSUME DiskInv, Performed \/ pc = "copy"
  PROVE  effect = Expected /\ job # NoJob /\ done
BY DEF DiskInv, InStep, DiskTypes, Performed
-----------------------------------------------------------------------------
(* Reads and the mask                                                        *)

LEMMA ReadFailsStep ==
  ASSUME DiskInv, HarmlessRepeats, NEW c \in {cur, effect} \ {NoCmd}, ReadFails(c)
  PROVE  DiskInv'
<1>1. /\ Due(c) /\ Ran(c) /\ c.op = "read" /\ status' \in {-8, -11}
      /\ UNCHANGED <<running, buffer, mask, image>> /\ UNCHANGED <<atari, disk>>
  BY DEF ReadFails
<1>2. c \in Cmds /\ running = NoCmd /\ First(c)
  BY <1>1, DueIs, AgainIsNoRead
<1>3. job.op = "read" /\ pc = "wait" /\ effect' = c
  BY <1>1, <1>2, ExpectedType DEF First
<1>4. InStep' /\ OwnEffect' BY <1>1, <1>2, HandlerSteps
<1>5. DiskTypes' BY <1>1, <1>2, HandlerSteps, AtariWaits DEF DiskInv, DiskTypes
<1>6. Busy' BY <1>1, <1>2 DEF Busy
<1>7. Contents'
  <2>1. job' = job /\ pc' = "wait" BY <1>1, <1>3, AtariWaits
  <2>2. Chunks' /\ BatchesWritten' /\ BatchWritten'
    BY <1>3, <2>1 DEF Chunks, BatchesWritten, BatchWritten
  <2>3. ~Whole(effect)'
    BY <1>2, <1>3, <1>1, CmdTypes DEF Whole
  <2>4. Harmless' BY <2>3 DEF Harmless
  <2>5. ReadReady' BY <1>1, <2>1 DEF ReadReady
  <2>6. DiskAsWritten' BY <1>1, AtariWaits DEF DiskInv, Contents, DiskAsWritten
  <2> QED BY <1>1, <2>2, <2>4, <2>5, <2>6, AtariWaits DEF Contents
<1> QED BY <1>1, <1>4, <1>5, <1>6, <1>7, AtariWaits DEF DiskInv

LEMMA ReadLoadsStep ==
  ASSUME DiskInv, HarmlessRepeats, NEW c \in {cur, effect} \ {NoCmd}, ReadLoads(c)
  PROVE  DiskInv'
<1>1. /\ Due(c) /\ c.op = "read" /\ c.rec + c.count <= Count[c.drive]
      /\ running' = c /\ buffer' = Loaded(c)
      /\ UNCHANGED <<link, status, mask, image>> /\ UNCHANGED <<atari, disk>>
  BY DEF ReadLoads
<1>2. c \in ReadCmds /\ Kind(c) = "read" /\ c \in Cmds BY <1>1, DueIs, CmdTypes
<1>3. c = Expected /\ ~done /\ pc = "wait" /\ job # NoJob
  BY <1>1, <1>2, DueIs DEF HarmlessRepeats
<1>4. job.op = "read" /\ c = ReadCommand BY <1>1, <1>3, ExpectedType
<1>5. /\ cur' = cur /\ call' = call /\ done' = done /\ effect' = effect
      /\ image' = image /\ status' = status /\ mask' = mask
  BY <1>1 DEF link
<1>6. InStep' /\ OwnEffect' /\ (Performed' <=> Performed)
  BY <1>1, <1>5, AtariWaits DEF DiskInv, InStep, OwnEffect, Performed
<1>7. \A i \in 1 .. c.count : Block(c.drive, c.rec + i - 1) \in Blocks
  <2>1. /\ Start[c.drive] \in Nat /\ Count[c.drive] \in Nat /\ ImageSize \in Nat
        /\ Start[c.drive] + Count[c.drive] <= ImageSize
        /\ c.rec \in Nat /\ c.count \in Nat
    BY <1>2, AcsiAssumption DEF ReadCmds
  <2> QED BY <1>1, <2>1 DEF Block, Blocks
<1>8. DiskTypes'
  <2>1. buffer \in [1 .. MaxBatch -> Copies] /\ image \in [Blocks -> Copies]
    BY DEF DiskInv, DiskTypes
  <2>2. c.count \in Nat /\ MaxBatch \in Nat BY <1>2, AcsiAssumption DEF ReadCmds
  <2>3. \A i \in 1 .. MaxBatch : i <= c.count => image[Block(c.drive, c.rec + i - 1)] \in Copies
    BY <1>7, <2>1, <2>2
  <2>4. buffer' \in [1 .. MaxBatch -> Copies] BY <1>1, <2>1, <2>3 DEF Loaded
  <2> QED BY <1>1, <1>2, <1>5, <2>4, AtariWaits DEF DiskInv, DiskTypes
<1>9. Busy'
  <2>1. c.count = Batch /\ Batch \in 1 .. MaxBatch BY <1>4, BatchFacts DEF ReadCommand
  <2>2. \A i \in 1 .. c.count : buffer'[i] = image[Block(c.drive, c.rec + i - 1)]
    <3>1. \A i \in 1 .. c.count : i \in DOMAIN buffer /\ i <= c.count
      BY <2>1, AcsiAssumption DEF DiskInv, DiskTypes
    <3> QED BY <1>1, <3>1 DEF Loaded
  <2>3. c.count <= MaxBatch BY <2>1
  <2> QED BY <1>1, <1>2, <1>3, <1>4, <1>5, <2>2, <2>3, AtariWaits DEF Busy, Block
<1>10. Contents'
  <2>1. Chunks' /\ BatchesWritten' /\ BatchWritten'
    BY <1>1, <1>4, AtariWaits DEF Chunks, BatchesWritten, BatchWritten
  <2>2. Harmless'
    BY <1>1, <1>4, <1>5, AtariWaits DEF DiskInv, Contents, Harmless, Whole, Block, Kind
  <2>3. ReadReady' BY <1>1, <1>3, <1>5, AtariWaits DEF ReadReady, Performed
  <2>4. DiskAsWritten' BY <1>1, <1>5, AtariWaits DEF DiskInv, Contents, DiskAsWritten
  <2> QED BY <1>1, <2>1, <2>2, <2>3, <2>4, AtariWaits DEF Contents
<1> QED BY <1>1, <1>6, <1>8, <1>9, <1>10, AtariWaits DEF DiskInv

LEMMA SwapTypes ==
  ASSUME NEW buf \in [1 .. MaxBatch -> Copies], NEW n \in Nat
  PROVE  /\ Swap(buf, n) \in [1 .. MaxBatch -> Copies]
         /\ \A i \in 1 .. MaxBatch : i <= n => Swap(buf, n)[i] = [val |-> buf[i].val, le |-> ~buf[i].le]
BY DEF Swap, Copies

LEMMA ReadSwapsStep ==
  ASSUME DiskInv, ReadSwaps
  PROVE  DiskInv'
<1>1. /\ running # NoCmd /\ Ran(running) /\ buffer' = Swap(buffer, running.count)
      /\ status' = 0 /\ running' = NoCmd
      /\ UNCHANGED <<mask, image>> /\ UNCHANGED <<atari, disk>>
  BY DEF ReadSwaps
<1>2. /\ ~done /\ ~(job.op = "write" /\ off > 0)
      /\ running \in ReadCmds /\ running.count <= MaxBatch
      /\ running.rec + running.count <= Count[running.drive]
      /\ \A i \in 1 .. running.count :
           buffer[i] = image[Block(running.drive, running.rec + i - 1)]
  BY <1>1 DEF DiskInv, Busy
<1>3. running \in Cmds /\ running.count \in Nat BY <1>2 DEF Cmds, ReadCmds
<1>4. First(running) \/ UNCHANGED link
  <2>1. CASE running = cur /\ call = "open"
    BY <1>1, <1>2, <2>1, OpenCall DEF Ran, Service!Perform, First
  <2>2. CASE ~(running = cur /\ call = "open") BY <1>1, <2>2 DEF Ran
  <2> QED BY <2>1, <2>2
<1>5. buffer \in [1 .. MaxBatch -> Copies] /\ buffer' \in [1 .. MaxBatch -> Copies]
  BY <1>1, <1>3, SwapTypes DEF DiskInv, DiskTypes
<1>6. ASSUME First(running) PROVE DiskInv'
  <2>1. InStep' /\ OwnEffect' BY <1>1, <1>3, <1>6, HandlerSteps
  <2>2. DiskTypes' BY <1>1, <1>3, <1>5, <1>6, HandlerSteps, AtariWaits DEF DiskInv, DiskTypes
  <2>3. running = ReadCommand /\ job.op = "read"
    BY <1>2, <1>3, <1>6, ExpectedType, CmdTypes DEF First
  <2>4. running.count = Batch /\ running.drive = job.drive /\ running.rec = job.rec + at
    BY <2>3 DEF ReadCommand
  <2>5. ReadReady'
    <3> SUFFICES ASSUME NEW i \in 1 .. Batch, disk[JobBlock(at + i)] # Unknown
                 PROVE  buffer'[i] = [val |-> disk[JobBlock(at + i)], le |-> FALSE]
      BY <1>1, AtariWaits DEF ReadReady
    <3>1. /\ at \in Nat /\ job.rec \in Nat /\ Batch \in Nat /\ job.drive \in Drives
          /\ Start[job.drive] \in Nat /\ Count[job.drive] \in Nat /\ ImageSize \in Nat
          /\ Start[job.drive] + Count[job.drive] <= ImageSize
          /\ MaxBatch \in Nat
      BY <2>3, BatchFacts, AcsiAssumption
    <3>2. JobBlock(at + i) = Block(running.drive, running.rec + i - 1)
      BY <2>4, <3>1 DEF JobBlock, Block
    <3>3. JobBlock(at + i) = Start[job.drive] + job.rec + at + i - 1
      BY <3>1 DEF JobBlock, Block
    <3>4. JobBlock(at + i) \in 0 .. ImageSize - 1 BY <1>2, <2>4, <3>1, <3>3
    <3>5. image[JobBlock(at + i)] = [val |-> disk[JobBlock(at + i)], le |-> TRUE]
      BY <2>3, <3>4 DEF DiskInv, Contents, DiskAsWritten, InFlux, Blocks
    <3>6. i \in 1 .. MaxBatch /\ i <= running.count BY <1>2, <2>4, <3>1
    <3>7. buffer[i] = [val |-> disk[JobBlock(at + i)], le |-> TRUE]
      BY <1>2, <2>4, <3>2, <3>5
    <3>8. buffer'[i] = [val |-> buffer[i].val, le |-> ~buffer[i].le]
      BY <1>1, <1>3, <1>5, <3>6, SwapTypes
    <3>9. buffer[i].val = disk[JobBlock(at + i)] /\ buffer[i].le = TRUE BY <3>7
    <3>10. (~buffer[i].le) = FALSE BY <3>9
    <3> QED BY <3>8, <3>9, <3>10
  <2>6. Chunks' /\ BatchesWritten' /\ BatchWritten'
    BY <1>1, <2>3, AtariWaits DEF Chunks, BatchesWritten, BatchWritten
  <2>7. Harmless'
    <3>1. effect' = running BY <1>6 DEF First
    <3>2. ~Whole(effect)' BY <1>2, <1>3, <3>1, CmdTypes DEF Whole
    <3> QED BY <3>2 DEF Harmless
  <2>8. DiskAsWritten' BY <1>1, AtariWaits DEF DiskInv, Contents, DiskAsWritten
  <2>9. Busy' BY <1>1 DEF Busy
  <2> QED BY <1>1, <2>1, <2>2, <2>5, <2>6, <2>7, <2>8, <2>9, AtariWaits DEF DiskInv, Contents
<1>7. ASSUME UNCHANGED link PROVE DiskInv'
  <2>1. cur' = cur /\ call' = call /\ done' = done /\ effect' = effect /\ image' = image
    BY <1>1, <1>7 DEF link
  <2>2. InStep' /\ OwnEffect' /\ ~Performed /\ ~Performed'
    BY <1>1, <1>2, <2>1, AtariWaits DEF DiskInv, InStep, OwnEffect, Performed
  <2>3. DiskTypes' BY <1>1, <1>5, <2>1, AtariWaits DEF DiskInv, DiskTypes
  <2>4. job.op = "write" => Sent' = 0
    BY <1>1, <1>2, <2>2, AtariWaits DEF Sent, DiskInv, DiskTypes
  <2>5. Chunks' /\ BatchWritten' BY <1>1, <2>4, AtariWaits DEF Chunks, BatchWritten
  <2>6. BatchesWritten' BY <2>1, <1>1, AtariWaits DEF DiskInv, Contents, BatchesWritten
  <2>7. ReadReady'
    <3>1. pc # "copy" BY <1>2 DEF DiskInv, InStep
    <3> QED BY <1>1, <2>2, <3>1, AtariWaits DEF ReadReady
  <2>8. Harmless'
    BY <1>1, <2>1, AtariWaits DEF DiskInv, Contents, Harmless, Whole, Block, Kind
  <2>9. DiskAsWritten' BY <1>1, AtariWaits DEF DiskInv, Contents, DiskAsWritten
  <2>10. Busy' BY <1>1 DEF Busy
  <2> QED BY <1>1, <2>2, <2>3, <2>5, <2>6, <2>7, <2>8, <2>9, <2>10, AtariWaits DEF DiskInv, Contents
<1> QED BY <1>4, <1>6, <1>7

LEMMA SetMaskStep ==
  ASSUME DiskInv, NEW c \in {cur, effect} \ {NoCmd}, SetMask(c)
  PROVE  DiskInv'
<1>1. /\ Due(c) /\ Ran(c) /\ c.op = "mask" /\ mask' = c.mask
      /\ UNCHANGED <<running, buffer, status, image>> /\ UNCHANGED <<atari, disk>>
  BY DEF SetMask
<1>2. c \in MaskCmds /\ c \in Cmds /\ running = NoCmd /\ (First(c) \/ Again(c))
  BY <1>1, DueIs, CmdTypes
<1>3. InStep' /\ OwnEffect' BY <1>1, <1>2, HandlerSteps
<1>4. DiskTypes'
  <2>1. mask' \subseteq Drives BY <1>1, <1>2 DEF MaskCmds
  <2> QED BY <1>1, <1>2, <2>1, HandlerSteps, AtariWaits DEF DiskInv, DiskTypes
<1>5. Busy' BY <1>1, <1>2 DEF Busy
<1>6. DiskAsWritten' BY <1>1, AtariWaits DEF DiskInv, Contents, DiskAsWritten
<1>7. Harmless'
  <2>1. effect' = c BY <1>2 DEF First, Again, link
  <2>2. ~Whole(effect)' BY <1>1, <1>2, <2>1, CmdTypes DEF Whole
  <2> QED BY <2>2 DEF Harmless
<1>8. Chunks' /\ BatchesWritten' /\ BatchWritten' /\ ReadReady'
  <2>1. CASE First(c)
    <3>1. job.op = "mask" BY <1>1, <2>1, ExpectedType DEF First
    <3> QED BY <1>1, <3>1, AtariWaits DEF Chunks, BatchesWritten, BatchWritten, ReadReady
  <2>2. CASE Again(c)
    <3>1. (Performed' <=> Performed) /\ Sent' = Sent BY <1>1, <1>2, <2>2, HandlerSteps
    <3>2. UNCHANGED <<buffer, status, image, pc, job, at, off, disk>> /\ Batch' = Batch
          /\ \A k : JobBlock(k)' = JobBlock(k)
      BY <1>1, AtariWaits
    <3>3. Chunks' BY <3>1, <3>2 DEF DiskInv, Contents, Chunks
    <3>4. BatchesWritten' BY <3>1, <3>2 DEF DiskInv, Contents, BatchesWritten
    <3>5. BatchWritten' BY <3>1, <3>2 DEF DiskInv, Contents, BatchWritten
    <3>6. ReadReady' BY <3>1, <3>2 DEF DiskInv, Contents, ReadReady
    <3> QED BY <3>3, <3>4, <3>5, <3>6
  <2> QED BY <1>2, <2>1, <2>2
<1> QED BY <1>1, <1>3, <1>4, <1>5, <1>6, <1>7, <1>8, AtariWaits DEF DiskInv, Contents
-----------------------------------------------------------------------------
(* Writes                                                                    *)

LEMMA ChunkIs ==
  ASSUME DiskInv, job.op = "write"
  PROVE  /\ ChunkCommand.op = "write" /\ ChunkCommand \in WriteCmds
         /\ ChunkCommand.off = off /\ ChunkCommand.total = Batch
         /\ ChunkCommand.data = job.data[at + off + 1] /\ at + off + 1 \in 1 .. job.count
         /\ off \in 0 .. Batch - 1 /\ Batch \in 1 .. MaxBatch /\ MaxBatch \in Nat
         /\ \A i \in 1 .. Batch :
              /\ JobBlock(at + i) = Block(ChunkCommand.drive, ChunkCommand.rec) + i - 1
              /\ at + i \in 1 .. job.count /\ JobBlock(at + i) \in JobBlocks
              /\ JobBlock(at + i) \in Blocks
         /\ at \in 0 .. job.count - 1 /\ job.count \in Nat
<1>1. /\ at \in Nat /\ job.count \in Nat /\ job.rec \in Nat /\ job.drive \in Drives
      /\ Batch \in 1 .. MaxBatch /\ at + Batch <= job.count /\ MaxBatch \in Nat
  BY BatchFacts
<1>2. off \in 0 .. Batch - 1 /\ at < job.count BY <1>1 DEF DiskInv, DiskTypes, Progress
<1>3. ChunkCommand \in WriteCmds BY ExpectedType DEF NoJob
<1>4. \A i \in 1 .. Batch :
        /\ JobBlock(at + i) = Block(ChunkCommand.drive, ChunkCommand.rec) + i - 1
        /\ at + i \in 1 .. job.count /\ JobBlock(at + i) \in JobBlocks
        /\ JobBlock(at + i) \in Blocks
  <2> SUFFICES ASSUME NEW i \in 1 .. Batch
               PROVE  /\ JobBlock(at + i) = Block(ChunkCommand.drive, ChunkCommand.rec) + i - 1
                      /\ at + i \in 1 .. job.count /\ JobBlock(at + i) \in JobBlocks
                      /\ JobBlock(at + i) \in Blocks
    OBVIOUS
  <2>1. at + i \in 1 .. job.count BY <1>1
  <2>2. JobBlock(at + i) = Start[job.drive] + job.rec + (at + i) - 1 /\ Start[job.drive] \in Nat
        /\ JobBlock(at + i) \in JobBlocks /\ JobBlock(at + i) \in Blocks
    BY <2>1, WriteBlocks
  <2>3. Block(ChunkCommand.drive, ChunkCommand.rec) = Start[job.drive] + (job.rec + at)
    BY DEF Block, ChunkCommand
  <2> QED BY <1>1, <2>1, <2>2, <2>3
<1> QED BY <1>1, <1>2, <1>3, <1>4 DEF ChunkCommand

\* The effect of a write that is not over: a part of the batch that is in the
\* buffer, or its last chunk.
LEMMA EffectOfJob ==
  ASSUME DiskInv, job.op = "write", effect \in WriteCmds
  PROVE  /\ Performed => effect = ChunkCommand /\ Sent = off + 1
         /\ ~Performed /\ off > 0 => effect = Previous /\ Sent = off
         /\ ~Performed /\ off = 0 => Sent = 0
         /\ Sent \in Nat /\ Sent <= Batch
<1>1. Performed => effect = ChunkCommand BY EffectNow, ExpectedType
<1>2. ~Performed /\ off > 0 => effect = Previous BY DEF DiskInv, OwnEffect
<1> QED BY <1>1, <1>2, ChunkIs DEF Sent

\* A repetition of a write changes nothing of a read or of the mask.
LEMMA OtherEffect ==
  ASSUME DiskInv, job.op # "write", effect \in WriteCmds
  PROVE  ~Performed /\ pc # "copy"
<1>1. ASSUME Performed \/ pc = "copy" PROVE FALSE
  <2>1. effect = Expected /\ Expected.op = job.op BY <1>1, EffectNow, ExpectedType
  <2> QED BY <2>1 DEF WriteCmds
<1> QED BY <1>1

LEMMA WriteChunkStep ==
  ASSUME DiskInv, HarmlessRepeats, NEW c \in {cur, effect} \ {NoCmd}, WriteChunk(c)
  PROVE  DiskInv'
<1>1. /\ Due(c) /\ Ran(c) /\ c.op = "write" /\ c.off + 1 < c.total
      /\ buffer' = WithChunk(c)
      /\ UNCHANGED <<running, status, mask, image>> /\ UNCHANGED <<atari, disk>>
  BY DEF WriteChunk
<1>2. c \in WriteCmds /\ c \in Cmds /\ running = NoCmd /\ (First(c) \/ Again(c))
  BY <1>1, DueIs, CmdTypes
<1>3. /\ c.off \in Nat /\ c.data \in Values /\ ~Whole(c)
  BY <1>1, <1>2, WriteKind DEF Whole
<1>4. InStep' /\ OwnEffect' BY <1>1, <1>2, HandlerSteps
<1>5. buffer \in [1 .. MaxBatch -> Copies] /\ buffer' \in [1 .. MaxBatch -> Copies]
      /\ \A i \in 1 .. MaxBatch :
           buffer'[i] = IF i = c.off + 1 THEN [val |-> c.data, le |-> FALSE] ELSE buffer[i]
  <2>1. buffer \in [1 .. MaxBatch -> Copies] BY DEF DiskInv, DiskTypes
  <2>2. [val |-> c.data, le |-> FALSE] \in Copies BY <1>3 DEF Copies
  <2> QED BY <1>1, <2>1, <2>2 DEF WithChunk
<1>6. DiskTypes' BY <1>1, <1>2, <1>5, HandlerSteps, AtariWaits DEF DiskInv, DiskTypes
<1>7. Busy' BY <1>1, <1>2 DEF Busy
<1>8. DiskAsWritten' BY <1>1, AtariWaits DEF DiskInv, Contents, DiskAsWritten
<1>9. BatchesWritten' BY <1>1, AtariWaits DEF DiskInv, Contents, BatchesWritten
<1>10. Harmless'
  <2>1. effect' = c BY <1>2 DEF First, Again, link
  <2>2. ~Whole(effect)' BY <1>3, <2>1 DEF Whole, Kind
  <2> QED BY <2>2 DEF Harmless
<1>11. CASE First(c)
  <2>1. job.op = "write" /\ c = ChunkCommand BY <1>1, <1>11, ExpectedType DEF First
  <2>2. Sent = off /\ Sent' = off + 1 BY <1>1, <1>2, <1>11, HandlerSteps
  <2>3. off + 1 < Batch /\ c.off = off /\ c.data = job.data[at + off + 1]
    BY <1>1, <2>1, ChunkIs
  <2>4. \A i \in 1 .. off + 1 : buffer'[i] = [val |-> job.data[at + i], le |-> FALSE]
    <3> SUFFICES ASSUME NEW i \in 1 .. off + 1
                 PROVE  buffer'[i] = [val |-> job.data[at + i], le |-> FALSE]
      OBVIOUS
    <3>1. i \in 1 .. MaxBatch /\ off \in Nat /\ at \in Nat BY <2>1, <2>3, ChunkIs
    <3>2. CASE i = off + 1
      <4>1. at + i = at + off + 1 BY <3>1, <3>2
      <4> QED BY <1>5, <2>3, <3>1, <3>2, <4>1
    <3>3. CASE i # off + 1
      <4>1. i \in 1 .. Sent /\ Sent < Batch BY <2>1, <2>2, <2>3, <3>1, <3>3, ChunkIs
      <4> QED BY <1>5, <2>1, <2>3, <3>1, <3>3, <4>1 DEF DiskInv, Contents, Chunks
    <3> QED BY <3>2, <3>3
  <2>5. Chunks' BY <1>1, <2>2, <2>4, AtariWaits DEF Chunks
  <2>6. BatchWritten' BY <1>1, <2>1, <2>2, <2>3, AtariWaits, ChunkIs DEF BatchWritten
  <2>7. ReadReady' BY <1>1, <2>1, AtariWaits DEF ReadReady
  <2> QED BY <1>1, <1>4, <1>6, <1>7, <1>8, <1>9, <1>10, <2>5, <2>6, <2>7, AtariWaits
       DEF DiskInv, Contents
<1>12. CASE Again(c)
  <2>1. (Performed' <=> Performed) /\ Sent' = Sent /\ effect \in WriteCmds /\ c = effect
    BY <1>1, <1>2, <1>12, HandlerSteps DEF Again
  <2>2. Chunks'
    <3> SUFFICES ASSUME job.op = "write", Sent < Batch, NEW i \in 1 .. Sent
                 PROVE  buffer'[i] = [val |-> job.data[at + i], le |-> FALSE]
      BY <1>1, <2>1, AtariWaits DEF Chunks
    <3>1. buffer[i] = [val |-> job.data[at + i], le |-> FALSE] /\ i \in 1 .. MaxBatch
      <4>1. buffer[i] = [val |-> job.data[at + i], le |-> FALSE]
        BY DEF DiskInv, Contents, Chunks
      <4>2. Sent \in Nat /\ Batch \in 1 .. MaxBatch /\ MaxBatch \in Nat
        BY <2>1, EffectOfJob, ChunkIs
      <4> QED BY <4>1, <4>2
    <3>2. CASE i = c.off + 1
      <4>1. c.data = job.data[at + i]
        <5>1. CASE Performed
          <6>1. c = ChunkCommand BY <2>1, <5>1, EffectOfJob
          <6>2. at + i = at + off + 1 BY <3>2, <6>1, ChunkIs
          <6> QED BY <6>1, <6>2, ChunkIs
        <5>2. CASE ~Performed
          <6>1. off \in Nat /\ at \in Nat BY ChunkIs
          <6>2. off > 0 BY <2>1, <5>2, <6>1, EffectOfJob
          <6>3. c = Previous BY <2>1, <5>2, <6>2, EffectOfJob
          <6>4. at + i = at + off BY <3>2, <6>1, <6>3 DEF Previous
          <6> QED BY <6>3, <6>4 DEF Previous
        <5> QED BY <5>1, <5>2
      <4> QED BY <1>5, <3>1, <3>2, <4>1
    <3>3. CASE i # c.off + 1 BY <1>5, <3>1, <3>3
    <3> QED BY <3>2, <3>3
  <2>3. BatchWritten' BY <1>1, <2>1, AtariWaits DEF DiskInv, Contents, BatchWritten
  <2>4. ReadReady'
    <3>1. job.op = "read" => ~Performed /\ pc # "copy" BY <2>1, OtherEffect
    <3> QED BY <1>1, <2>1, <3>1, AtariWaits DEF ReadReady
  <2> QED BY <1>1, <1>4, <1>6, <1>7, <1>8, <1>9, <1>10, <2>2, <2>3, <2>4, AtariWaits
       DEF DiskInv, Contents
<1> QED BY <1>2, <1>11, <1>12

LEMMA WriteLastStep ==
  ASSUME DiskInv, HarmlessRepeats, NEW c \in {cur, effect} \ {NoCmd}, WriteLast(c)
  PROVE  DiskInv'
<1> DEFINE buf == Swap(WithChunk(c), c.total)
           first_ == Block(c.drive, c.rec)
<1>1. /\ Due(c) /\ Ran(c) /\ c.op = "write" /\ c.off + 1 = c.total
      /\ buffer' = buf /\ status' \in {0, -10, -11}
      /\ UNCHANGED <<running, mask>> /\ UNCHANGED <<atari, disk>>
  BY DEF WriteLast
<1>2. c \in WriteCmds /\ c \in Cmds /\ running = NoCmd /\ (First(c) \/ Again(c))
  BY <1>1, DueIs, CmdTypes
<1>3. c.off \in Nat /\ c.total \in Nat \ {0} /\ c.data \in Values
  BY <1>1, <1>2, WriteKind
<1>4. PICK n \in 0 .. c.total : image' = Written(c, buf, n) /\ (status' = 0 => n = c.total)
  <2>1. image \in [Blocks -> Copies] BY DEF DiskInv, DiskTypes
  <2>2. CASE UNCHANGED image /\ status' = -11
    <3>1. image = Written(c, buf, 0) BY <2>1 DEF Written
    <3> QED BY <1>3, <2>2, <3>1
  <2>3. CASE status' = -10 /\ \E n \in 0 .. c.total - 1 : image' = Written(c, buf, n)
    BY <1>3, <2>3
  <2>4. CASE status' = 0 /\ image' = Written(c, buf, c.total) BY <1>3, <2>4
  <2> QED BY <2>2, <2>3, <2>4 DEF WriteLast
<1>5. \A b \in Blocks :
        /\ image'[b] = IF b - first_ + 1 \in 1 .. n THEN buf[b - first_ + 1] ELSE image[b]
        /\ \/ image'[b] \in Copies
           \/ image'[b] = buf[b - first_ + 1] /\ b - first_ + 1 \in 1 .. n
  <2>1. image \in [Blocks -> Copies] BY DEF DiskInv, DiskTypes
  <2>2. \A b \in Blocks :
          image'[b] = IF b - first_ + 1 \in 1 .. n THEN buf[b - first_ + 1] ELSE image[b]
    <3> HIDE DEF buf
    <3> QED BY <1>4 DEF Written
  <2> HIDE DEF buf, first_
  <2> QED BY <2>1, <2>2
<1>6. InStep' /\ OwnEffect' BY <1>1, <1>2, HandlerSteps
<1>7. Busy' BY <1>1, <1>2 DEF Busy
<1>8. WithChunk(c) \in [1 .. MaxBatch -> Copies]
      /\ \A i \in 1 .. MaxBatch :
           WithChunk(c)[i] = IF i = c.off + 1 THEN [val |-> c.data, le |-> FALSE] ELSE buffer[i]
  <2>1. buffer \in [1 .. MaxBatch -> Copies] BY DEF DiskInv, DiskTypes
  <2>2. [val |-> c.data, le |-> FALSE] \in Copies BY <1>3 DEF Copies
  <2> QED BY <2>1, <2>2 DEF WithChunk
<1>9. buf \in [1 .. MaxBatch -> Copies]
      /\ \A i \in 1 .. MaxBatch : i <= c.total =>
           buf[i] = [val |-> WithChunk(c)[i].val, le |-> ~WithChunk(c)[i].le]
  <2>1. c.total \in Nat BY <1>3
  <2>2. WithChunk(c) \in [1 .. MaxBatch -> Copies] BY <1>8
  <2> QED BY <2>1, <2>2, SwapTypes
<1> HIDE DEF buf, first_
\* All of it, once its parts are known.
<1>10. ASSUME c.total <= MaxBatch, Chunks', BatchesWritten', BatchWritten', Harmless', ReadReady',
              DiskAsWritten'
       PROVE  DiskInv'
  <2>1. image' \in [Blocks -> Copies]
    <3>1. \A b \in Blocks : image'[b] \in Copies
      <4> SUFFICES ASSUME NEW b \in Blocks, b - first_ + 1 \in 1 .. n,
                          image'[b] = buf[b - first_ + 1]
                   PROVE  image'[b] \in Copies
        BY <1>5
      <4>1. b - first_ + 1 \in 1 .. MaxBatch BY <1>3, <1>10, AcsiAssumption
      <4> QED BY <1>9, <4>1
    <3> QED BY <1>4, <3>1 DEF Written
  <2>2. status' \in {0, -8, -10, -11} BY <1>1
  <2>3. DiskTypes'
    BY <1>1, <1>2, <1>9, <2>1, <2>2, HandlerSteps, AtariWaits DEF DiskInv, DiskTypes
  <2> QED BY <1>1, <1>6, <1>7, <1>10, <2>3, AtariWaits DEF DiskInv, Contents
<1>11. CASE First(c)
  <2>1. job.op = "write" /\ c = ChunkCommand BY <1>1, <1>11, ExpectedType DEF First
  <2>2. Sent = off /\ Sent' = off + 1 BY <1>1, <1>2, <1>11, HandlerSteps
  <2>3. off + 1 = Batch /\ c.off = off /\ c.data = job.data[at + off + 1] /\ c.total = Batch
        /\ Batch \in 1 .. MaxBatch /\ MaxBatch \in Nat /\ at \in Nat /\ off \in Nat
    BY <1>1, <2>1, ChunkIs
  <2>4. \A i \in 1 .. Batch : buf[i] = [val |-> job.data[at + i], le |-> TRUE]
    <3> SUFFICES ASSUME NEW i \in 1 .. Batch
                 PROVE  buf[i] = [val |-> job.data[at + i], le |-> TRUE]
      OBVIOUS
    <3>1. i \in 1 .. MaxBatch /\ i <= c.total BY <2>3
    <3>2. WithChunk(c)[i] = [val |-> job.data[at + i], le |-> FALSE]
      <4>1. CASE i = off + 1
        <5>1. at + i = at + off + 1 BY <2>3, <4>1
        <5> QED BY <1>8, <2>3, <3>1, <4>1, <5>1
      <4>2. CASE i # off + 1
        <5>1. i \in 1 .. Sent /\ Sent < Batch BY <2>2, <2>3, <4>2
        <5>2. buffer[i] = [val |-> job.data[at + i], le |-> FALSE]
          BY <2>1, <5>1 DEF DiskInv, Contents, Chunks
        <5> QED BY <1>8, <2>3, <3>1, <4>2, <5>2
      <4> QED BY <4>1, <4>2
    <3>3. buf[i] = [val |-> WithChunk(c)[i].val, le |-> ~WithChunk(c)[i].le] BY <1>9, <3>1
    <3>4. WithChunk(c)[i].val = job.data[at + i] /\ (~WithChunk(c)[i].le) = TRUE BY <3>2
    <3> QED BY <3>3, <3>4
  \* The blocks that change are those of the batch.
  <2>5. /\ \A b \in Blocks : image'[b] # image[b] => \E i \in 1 .. Batch : b = JobBlock(at + i)
        /\ \A i \in 1 .. n : image'[JobBlock(at + i)] = [val |-> job.data[at + i], le |-> TRUE]
    <3>1. \A i \in 1 .. Batch : JobBlock(at + i) = first_ + i - 1 /\ JobBlock(at + i) \in Blocks
      BY <2>1, ChunkIs DEF first_
    <3>2. n \in 0 .. Batch /\ Batch \in Nat BY <2>3
    <3>3. first_ \in Int /\ \A b \in Blocks : b \in Int
      <4>1. first_ = JobBlock(at + 1) BY <2>1, ChunkIs DEF first_, Block, ChunkCommand, JobBlock
      <4>2. ImageSize \in Nat BY AcsiAssumption
      <4> QED BY <2>1, <2>3, <3>1, <4>1, <4>2 DEF Blocks
    <3>4. ASSUME NEW b \in Blocks, image'[b] # image[b]
          PROVE  \E i \in 1 .. Batch : b = JobBlock(at + i)
      <4>1. b - first_ + 1 \in 1 .. n BY <1>5, <3>4
      <4>2. b - first_ + 1 \in 1 .. Batch BY <3>2, <4>1
      <4>3. b = first_ + (b - first_ + 1) - 1 BY <3>3
      <4> QED BY <3>1, <4>2, <4>3
    <3>5. ASSUME NEW i \in 1 .. n
          PROVE  image'[JobBlock(at + i)] = [val |-> job.data[at + i], le |-> TRUE]
      <4>1. i \in 1 .. Batch /\ i \in Int BY <3>2
      <4>2. JobBlock(at + i) - first_ + 1 = i BY <3>1, <3>3, <4>1
      <4>3. image'[JobBlock(at + i)] = buf[i] BY <1>5, <3>1, <4>1, <4>2
      <4> QED BY <2>4, <4>1, <4>3
    <3> QED BY <3>4, <3>5
  <2>6. Chunks' BY <1>1, <2>2, <2>3, AtariWaits DEF Chunks
  <2>7. BatchesWritten'
    <3> SUFFICES ASSUME NEW k \in 1 .. at
                 PROVE  image'[JobBlock(k)] = [val |-> job.data[k], le |-> TRUE]
      BY <1>1, AtariWaits DEF BatchesWritten
    <3>1. image[JobBlock(k)] = [val |-> job.data[k], le |-> TRUE]
      BY <2>1 DEF DiskInv, Contents, BatchesWritten
    <3>2. k \in 1 .. job.count /\ JobBlock(k) \in Blocks BY <2>1, ChunkIs, WriteBlocks
    <3>3. \A i \in 1 .. Batch : at + i \in 1 .. job.count /\ k # at + i BY <2>1, <2>3, ChunkIs
    <3>4. \A i \in 1 .. Batch : JobBlock(k) # JobBlock(at + i)
      BY <2>1, <3>2, <3>3, WriteBlocks
    <3> QED BY <2>5, <3>1, <3>2, <3>4
  <2>8. BatchWritten'
    <3> SUFFICES ASSUME status' = 0, NEW i \in 1 .. Batch
                 PROVE  image'[JobBlock(at + i)] = [val |-> job.data[at + i], le |-> TRUE]
      BY <1>1, AtariWaits DEF BatchWritten
    <3> QED BY <1>4, <2>3, <2>5
  <2>9. Harmless'
    <3> SUFFICES ASSUME Whole(c), NEW b \in Blocks, b = first_
                 PROVE  /\ b \in InFlux
                        /\ \A k \in 1 .. at : JobBlock(k) # b
      BY <1>1, <1>11, AtariWaits DEF Harmless, First, Whole, Kind, Block, first_
    <3>1. JobBlock(at + 1) = first_ /\ JobBlock(at + 1) \in JobBlocks
      <4>1. 1 \in 1 .. Batch BY <2>3
      <4>2. JobBlock(at + 1) = Block(ChunkCommand.drive, ChunkCommand.rec) + 1 - 1
            /\ JobBlock(at + 1) \in JobBlocks /\ JobBlock(at + 1) \in Blocks
        BY <2>1, <4>1, ChunkIs
      <4>3. first_ = Block(ChunkCommand.drive, ChunkCommand.rec) BY <2>1 DEF first_
      <4>4. Block(ChunkCommand.drive, ChunkCommand.rec) \in Int
        BY <2>1, ChunkIs, AcsiAssumption DEF WriteCmds, Block
      <4> QED BY <4>2, <4>3, <4>4
    <3>2. \A k \in 1 .. at : k \in 1 .. job.count /\ k # at + 1 BY <2>1, <2>3, ChunkIs
    <3>3. at + 1 \in 1 .. job.count BY <2>1, <2>3, ChunkIs
    <3> QED BY <2>1, <3>1, <3>2, <3>3, WriteBlocks DEF InFlux
  <2>10. ReadReady' BY <1>1, <2>1, AtariWaits DEF ReadReady
  <2>11. DiskAsWritten'
    <3> SUFFICES ASSUME NEW b \in Blocks \ InFlux
                 PROVE  image'[b] = image[b]
      BY <1>1, AtariWaits DEF DiskInv, Contents, DiskAsWritten
    <3> QED BY <2>1, <2>5, ChunkIs DEF InFlux
  <2> QED BY <1>10, <2>3, <2>6, <2>7, <2>8, <2>9, <2>10, <2>11
<1>12. CASE Again(c)
  <2>1. /\ (Performed' <=> Performed) /\ Sent' = Sent
        /\ effect \in WriteCmds /\ c = effect /\ effect' = effect
    BY <1>1, <1>2, <1>12, HandlerSteps DEF Again, link
  \* One chunk, whose data is what is there.
  <2>2. c.total = 1 /\ c.off = 0 /\ Whole(effect)
    BY <1>1, <1>2, <1>12, <2>1, AgainIsNoRead, WriteKind DEF Whole
  <2>3. MaxBatch \in Nat \ {0} BY AcsiAssumption
  <2>4. buf[1] = [val |-> c.data, le |-> TRUE]
    <3>1. WithChunk(c)[1] = [val |-> c.data, le |-> FALSE]
      <4>1. 1 \in 1 .. MaxBatch /\ 1 = c.off + 1 BY <2>2, <2>3
      <4> QED BY <1>8, <4>1
    <3>2. buf[1] = [val |-> WithChunk(c)[1].val, le |-> ~WithChunk(c)[1].le]
      BY <1>9, <2>2, <2>3
    <3>3. WithChunk(c)[1].val = c.data /\ (~WithChunk(c)[1].le) = TRUE BY <3>1
    <3> QED BY <3>2, <3>3
  <2>5. first_ \in Int /\ \A b \in Blocks : b \in Int
    BY <1>2, AcsiAssumption DEF first_, Block, Blocks, WriteCmds
  <2>6. \A b \in Blocks :
          /\ b # first_ => image'[b] = image[b]
          /\ b = first_ => image'[b] = image[b] \/ image'[b] = [val |-> c.data, le |-> TRUE]
          /\ b = first_ /\ status' = 0 => image'[b] = [val |-> c.data, le |-> TRUE]
    <3> SUFFICES ASSUME NEW b \in Blocks
                 PROVE  /\ b # first_ => image'[b] = image[b]
                        /\ b = first_ => image'[b] = image[b] \/ image'[b] = [val |-> c.data, le |-> TRUE]
                        /\ b = first_ /\ status' = 0 => image'[b] = [val |-> c.data, le |-> TRUE]
      OBVIOUS
    <3>1. n = 0 \/ n = 1 BY <2>2
    <3>2. b - first_ + 1 \in 1 .. n <=> b = first_ /\ n = 1 BY <2>5, <3>1
    <3>3. b = first_ => b - first_ + 1 = 1 BY <2>5
    <3>4. image'[b] = IF b - first_ + 1 \in 1 .. n THEN buf[b - first_ + 1] ELSE image[b]
      BY <1>5
    <3> QED BY <1>4, <2>2, <2>4, <3>2, <3>3, <3>4
  <2>7. ASSUME NEW b \in Blocks, b = first_
        PROVE  /\ b \notin InFlux => disk[b] \in {c.data, Unknown}
               /\ job.op = "write" => \A k \in 1 .. at : JobBlock(k) = b => c.data = job.data[k]
    BY <2>1, <2>2, <2>7 DEF DiskInv, Contents, Harmless, first_
  <2>8. Chunks'
    <3> SUFFICES ASSUME job.op = "write", Sent < Batch
                 PROVE  Sent = 0
      BY <1>1, <2>1, AtariWaits DEF Chunks
    <3>1. off \in Nat /\ Batch \in Nat BY ChunkIs
    <3>2. ~Performed
      <4> SUFFICES ASSUME Performed PROVE FALSE OBVIOUS
      <4>1. c = ChunkCommand /\ Sent = off + 1 BY <2>1, EffectOfJob
      <4> QED BY <2>2, <3>1, <4>1, ChunkIs
    <3>3. off = 0
      <4> SUFFICES ASSUME off > 0 PROVE FALSE BY <3>1
      <4>1. c.total = Batch /\ Sent = off BY <2>1, <3>2, EffectOfJob DEF Previous
      <4> QED BY <2>2, <3>1, <4>1
    <3> QED BY <2>1, <3>2, <3>3, EffectOfJob
  <2>9. BatchesWritten'
    <3> SUFFICES ASSUME job.op = "write", NEW k \in 1 .. at
                 PROVE  image'[JobBlock(k)] = [val |-> job.data[k], le |-> TRUE]
      BY <1>1, AtariWaits DEF BatchesWritten
    <3>1. image[JobBlock(k)] = [val |-> job.data[k], le |-> TRUE]
      BY DEF DiskInv, Contents, BatchesWritten
    <3>2. k \in 1 .. job.count BY ChunkIs
    <3>3. JobBlock(k) \in Blocks BY <3>2, WriteBlocks
    <3>4. JobBlock(k) = first_ => c.data = job.data[k] BY <2>7, <3>3
    <3> QED BY <2>6, <3>1, <3>3, <3>4
  <2>10. BatchWritten'
    <3> SUFFICES ASSUME job.op = "write", Sent = Batch, status' = 0, NEW i \in 1 .. Batch
                 PROVE  image'[JobBlock(at + i)] = [val |-> job.data[at + i], le |-> TRUE]
      BY <1>1, <2>1, AtariWaits DEF BatchWritten
    <3>1. off \in 0 .. Batch - 1 /\ Batch \in 1 .. MaxBatch /\ at \in Nat BY ChunkIs
    <3>2. Performed BY <2>3, <3>1 DEF Sent
    <3>3. c = ChunkCommand BY <2>1, <3>2, EffectOfJob
    <3>4. Batch = 1 /\ off = 0 /\ i = 1 BY <2>2, <3>3, ChunkIs
    <3>5. JobBlock(at + i) = Block(ChunkCommand.drive, ChunkCommand.rec) + i - 1
          /\ JobBlock(at + i) \in Blocks
      BY ChunkIs
    <3>6. JobBlock(at + i) = first_ + 1 - 1 BY <3>3, <3>4, <3>5 DEF first_
    <3>7. at + i = at + off + 1 BY <3>1, <3>4
    <3>8. c.data = job.data[at + i] BY <3>3, <3>7, ChunkIs
    <3>9. JobBlock(at + i) = first_ BY <2>5, <3>6
    <3> QED BY <2>6, <3>5, <3>8, <3>9
  <2>11. Harmless'
    BY <1>1, <2>1, AtariWaits DEF DiskInv, Contents, Harmless, Whole, Block, Kind
  <2>12. ReadReady'
    <3>1. job.op = "read" => ~Performed /\ pc # "copy" BY <2>1, OtherEffect
    <3> QED BY <1>1, <2>1, <3>1, AtariWaits DEF ReadReady
  <2>13. DiskAsWritten'
    <3> SUFFICES ASSUME NEW b \in Blocks \ InFlux, disk[b] # Unknown
                 PROVE  image'[b] = [val |-> disk[b], le |-> TRUE]
      BY <1>1, AtariWaits DEF DiskAsWritten
    <3>1. image[b] = [val |-> disk[b], le |-> TRUE] BY DEF DiskInv, Contents, DiskAsWritten
    <3>2. b = first_ => disk[b] = c.data BY <2>7
    <3> QED BY <2>6, <3>1, <3>2
  <2> QED BY <1>10, <2>2, <2>3, <2>8, <2>9, <2>10, <2>11, <2>12, <2>13
<1> QED BY <1>2, <1>11, <1>12
-----------------------------------------------------------------------------
(* The Atari                                                                 *)

LEMMA DiskStart == Init => DiskInv
<1> SUFFICES ASSUME Init PROVE DiskInv OBVIOUS
<1>1. cur = NoCmd /\ call = "none" /\ done = FALSE /\ effect = NoCmd
  BY DEF Init, Service!Init
<1>2. /\ pc = "idle" /\ job = NoJob /\ at = 0 /\ off = 0 /\ got = <<>> /\ running = NoCmd
      /\ buffer = [i \in 1 .. MaxBatch |-> [val |-> Old, le |-> FALSE]]
      /\ status = 0 /\ mask = Drives
      /\ image = [b \in Blocks |-> [val |-> Old, le |-> TRUE]] /\ disk = [b \in Blocks |-> Old]
  BY DEF Init
<1>3. NoJob.op = "none" BY DEF NoJob
<1>4. DiskTypes
  <2>1. [val |-> Old, le |-> FALSE] \in Copies /\ [val |-> Old, le |-> TRUE] \in Copies
        /\ Old \in Values
    BY AcsiAssumption DEF Copies
  <2>2. got \in Seq(Copies) BY <1>2
  <2> QED BY <1>1, <1>2, <2>1, <2>2 DEF DiskTypes
<1>5. InStep /\ Progress /\ Busy /\ OwnEffect
  BY <1>1, <1>2, <1>3 DEF InStep, Progress, Busy, OwnEffect
<1>6. Chunks /\ BatchesWritten /\ BatchWritten /\ ReadReady /\ ReadBack
  BY <1>2, <1>3 DEF Chunks, BatchesWritten, BatchWritten, ReadReady, ReadBack
<1>7. Harmless
  <2>1. ~Whole(effect) BY <1>1, NoCmdAssumption DEF Whole, Cmds
  <2> QED BY <2>1 DEF Harmless
<1>8. DiskAsWritten BY <1>2 DEF DiskAsWritten
<1> QED BY <1>4, <1>5, <1>6, <1>7, <1>8 DEF DiskInv, Contents

\* A step of the Atari leaves the RP as it is.
LEMMA RpWaits ==
  ASSUME UNCHANGED rp
  PROVE  UNCHANGED <<running, buffer, status, mask, image>>
BY DEF rp

LEMMA EnterStep ==
  ASSUME DiskInv, NEW j \in MaskJobs \cup ReadJobs \cup WriteJobs, Enter(j)
  PROVE  DiskInv'
<1>1. /\ pc = "idle" /\ pc' = "send" /\ job' = j /\ at' = at /\ off' = off /\ got' = got
      /\ disk' = disk /\ cur' = cur /\ call' = call /\ done' = done /\ effect' = effect
      /\ UNCHANGED <<running, buffer, status, mask, image>>
  BY RpWaits DEF Enter, link
<1>2. job = NoJob /\ job.op = "none" /\ call = "none" /\ at = 0 /\ off = 0 /\ got = <<>>
  BY <1>1 DEF DiskInv, InStep, Progress, NoJob
<1>3. /\ j.op \in {"mask", "read", "write"} /\ j # NoJob
      /\ j.op \in {"read", "write"} => j.count \in Nat \ {0}
  BY DEF MaskJobs, ReadJobs, WriteJobs, NoJob
<1>4. Sent' = 0 /\ ~Performed /\ ~Performed' BY <1>1, <1>2 DEF Sent, Performed
<1>5. j.op \in {"read", "write"} => Batch' \in Nat \ {0}
  BY <1>1, <1>2, <1>3, AcsiAssumption DEF Batch
<1>6. DiskTypes' BY <1>1 DEF DiskInv, DiskTypes
<1>7. InStep' BY <1>1, <1>2, <1>3 DEF InStep
<1>8. Progress' BY <1>1, <1>2, <1>3, <1>5 DEF Progress
<1>9. Busy' BY <1>1, <1>2 DEF DiskInv, Busy, Block
<1>10. OwnEffect' BY <1>1, <1>2 DEF OwnEffect
<1>11. Chunks' /\ BatchesWritten' BY <1>1, <1>2, <1>4 DEF Chunks, BatchesWritten
<1>12. BatchWritten' BY <1>1, <1>3, <1>4, <1>5 DEF BatchWritten
<1>13. Harmless'
  <2>1. Whole(effect)' => Whole(effect) BY <1>1 DEF Whole, Kind
  <2>2. Whole(effect) =>
          \A b \in Blocks : b = Block(effect.drive, effect.rec) => disk[b] \in {effect.data, Unknown}
    BY <1>2 DEF DiskInv, Contents, Harmless, InFlux
  <2> QED BY <1>1, <1>2, <2>1, <2>2 DEF Harmless, Block
<1>14. ReadReady' BY <1>1, <1>4 DEF ReadReady
<1>15. DiskAsWritten' BY <1>1, <1>2 DEF DiskInv, Contents, DiskAsWritten, InFlux
<1>16. ReadBack' BY <1>1, <1>2 DEF ReadBack
<1> QED BY <1>6, <1>7, <1>8, <1>9, <1>10, <1>11, <1>12, <1>13, <1>14, <1>15, <1>16
     DEF DiskInv, Contents

\* The parts that speak of the image, the disk and what may be repeated, when a
\* step changes none of them nor the job's progress.
LEMMA ContentsStay ==
  ASSUME DiskInv, UNCHANGED <<job, at, effect, image, disk>>
  PROVE  /\ Batch' = Batch /\ InFlux' = InFlux /\ \A k : JobBlock(k)' = JobBlock(k)
         /\ BatchesWritten' /\ Harmless' /\ DiskAsWritten'
<1>1. Batch' = Batch /\ InFlux' = InFlux BY DEF Batch, InFlux, JobBlocks, Block
<1>2. \A k : JobBlock(k)' = JobBlock(k) BY DEF JobBlock, Block
<1>3. BatchesWritten' BY <1>2 DEF DiskInv, Contents, BatchesWritten
<1>4. Harmless' BY <1>1, <1>2 DEF DiskInv, Contents, Harmless, Whole, Kind, Block
<1>5. DiskAsWritten' BY <1>1 DEF DiskInv, Contents, DiskAsWritten
<1> QED BY <1>1, <1>2, <1>3, <1>4, <1>5

LEMMA SendStep ==
  ASSUME DiskInv, Send
  PROVE  DiskInv'
<1>1. /\ pc = "send" /\ pc' = "wait" /\ job' = job /\ at' = at /\ off' = off /\ got' = got
      /\ disk' = disk /\ UNCHANGED <<running, buffer, status, mask, image>>
  BY RpWaits DEF Send
<1>2. job # NoJob BY <1>1 DEF DiskInv, InStep
<1>3. Expected \in Cmds /\ Expected' = Expected
  BY <1>1, <1>2, ExpectedType DEF Expected, ReadCommand, ChunkCommand, Batch
<1>4. cur' = Expected /\ call' = "open" /\ done' = FALSE /\ effect' = effect
  <2>1. CASE job.op = "read" BY <2>1 DEF Send, Service!Submit, Expected
  <2>2. CASE job.op = "write" BY <2>2 DEF Send, Service!Submit, Expected
  <2>3. CASE job.op = "mask" BY <2>3 DEF Send, Service!Submit, Expected
  <2> QED BY <1>2, <2>1, <2>2, <2>3, JobTypes
<1>5. ~Performed /\ ~Performed' /\ Sent' = Sent BY <1>1, <1>4 DEF Performed, Sent
<1>6. DiskTypes' BY <1>1, <1>3, <1>4 DEF DiskInv, DiskTypes
<1>7. InStep' BY <1>1, <1>2, <1>3, <1>4 DEF InStep
<1>8. Progress' BY <1>1, <1>4, ContentsStay DEF DiskInv, Progress
<1>9. Busy' BY <1>1, <1>4 DEF DiskInv, Busy, Block
<1>10. OwnEffect' BY <1>1, <1>4, <1>5, ContentsStay DEF DiskInv, OwnEffect, Previous
<1>11. Chunks' BY <1>1, <1>4, <1>5, ContentsStay DEF DiskInv, Contents, Chunks
<1>12. BatchWritten' BY <1>1, <1>4, <1>5, ContentsStay DEF DiskInv, Contents, BatchWritten
<1>13. ReadReady' BY <1>1, <1>5 DEF ReadReady
<1>14. ReadBack' BY <1>1 DEF DiskInv, Contents, ReadBack, Block
<1> QED BY <1>1, <1>4, <1>6, <1>7, <1>8, <1>9, <1>10, <1>11, <1>12, <1>13, <1>14, ContentsStay
     DEF DiskInv, Contents

LEMMA AnsweredStep ==
  ASSUME DiskInv, Answered
  PROVE  DiskInv'
<1>1. /\ pc = "wait" /\ pc' = "status" /\ job' = job /\ at' = at /\ off' = off /\ got' = got
      /\ disk' = disk /\ UNCHANGED <<running, buffer, status, mask, image>>
      /\ done /\ effect = cur
      /\ cur' = cur /\ call' = "answered" /\ done' = done /\ effect' = effect
  BY RpWaits DEF Answered, Service!Answer
<1>2. Expected' = Expected BY <1>1 DEF Expected, ReadCommand, ChunkCommand, Batch
<1>3. Performed /\ Performed' /\ Sent' = Sent BY <1>1 DEF Performed, Sent
<1>4. DiskTypes' BY <1>1 DEF DiskInv, DiskTypes
<1>5. InStep' BY <1>1, <1>2 DEF DiskInv, InStep
<1>6. Progress' BY <1>1, ContentsStay DEF DiskInv, Progress
<1>7. Busy' BY <1>1 DEF DiskInv, Busy, Block
<1>8. OwnEffect' BY <1>3 DEF OwnEffect
<1>9. Chunks' BY <1>1, <1>3, ContentsStay DEF DiskInv, Contents, Chunks
<1>10. BatchWritten' BY <1>1, <1>3, ContentsStay DEF DiskInv, Contents, BatchWritten
<1>11. ReadReady' BY <1>1, <1>3, ContentsStay DEF DiskInv, Contents, ReadReady
<1>12. ReadBack' BY <1>1 DEF DiskInv, Contents, ReadBack, Block
<1> QED BY <1>1, <1>4, <1>5, <1>6, <1>7, <1>8, <1>9, <1>10, <1>11, <1>12, ContentsStay
     DEF DiskInv, Contents

LEMMA ChunkDoneStep ==
  ASSUME DiskInv, ChunkDone
  PROVE  DiskInv'
<1>1. /\ pc = "status" /\ job.op = "write" /\ off + 1 < Batch
      /\ pc' = "send" /\ job' = job /\ at' = at /\ off' = off + 1 /\ got' = got
      /\ disk' = disk /\ UNCHANGED <<running, buffer, status, mask, image>>
      /\ cur' = cur /\ call' = "none" /\ done' = done /\ effect' = effect
  BY RpWaits DEF ChunkDone, Service!Return
<1>2. done /\ Performed /\ ~Performed' /\ Sent' = Sent /\ Sent = off + 1
  BY <1>1 DEF DiskInv, InStep, Performed, Sent
<1>3. effect = ChunkCommand BY <1>1, <1>2, EffectNow, ExpectedType
<1>4. off \in Nat /\ at \in Nat /\ off' \in Nat BY <1>1, ChunkIs
<1>5. job # NoJob BY <1>1 DEF NoJob
<1>6. DiskTypes' BY <1>1, <1>4 DEF DiskInv, DiskTypes
<1>7. InStep' BY <1>1, <1>5 DEF InStep
<1>8. Progress' BY <1>1, ContentsStay DEF DiskInv, Progress
<1>9. Busy' BY <1>1, <1>2 DEF DiskInv, Busy, Block
<1>10. OwnEffect'
  <2>1. off' - 1 = off /\ at + off' = at + off + 1 BY <1>1, <1>4
  <2>2. Previous' = ChunkCommand BY <1>1, <2>1, ContentsStay DEF Previous, ChunkCommand
  <2> QED BY <1>1, <1>3, <2>2 DEF OwnEffect
<1>11. Chunks' BY <1>1, <1>2, ContentsStay DEF DiskInv, Contents, Chunks
<1>12. BatchWritten' BY <1>1, <1>2, ContentsStay, ChunkIs DEF BatchWritten
<1>13. ReadReady' BY <1>1 DEF ReadReady
<1>14. ReadBack' BY <1>1 DEF ReadBack
<1> QED BY <1>1, <1>6, <1>7, <1>8, <1>9, <1>10, <1>11, <1>12, <1>13, <1>14, ContentsStay
     DEF DiskInv, Contents

\* The end of a call.
LEMMA JobOver ==
  ASSUME DiskInv, job' = NoJob, pc' = "idle", at' = 0, off' = 0, got' = <<>>,
         call' = "none", cur' = cur, done' = done, effect' = effect,
         UNCHANGED <<running, buffer, status, mask, image>>,
         disk' \in [Blocks -> Values \cup {Unknown}], DiskAsWritten',
         Whole(effect) => \A b \in Blocks : b = Block(effect.drive, effect.rec) =>
                            disk'[b] \in {effect.data, Unknown}
  PROVE  DiskInv'
<1>1. job'.op = "none" BY DEF NoJob
<1>2. DiskTypes'
  <2>1. got' \in Seq(Copies) OBVIOUS
  <2> QED BY <2>1 DEF DiskInv, DiskTypes
<1>3. InStep' /\ Progress' /\ OwnEffect' BY <1>1 DEF InStep, Progress, OwnEffect
<1>4. Busy' BY <1>1 DEF DiskInv, Busy, Block
<1>5. Chunks' /\ BatchesWritten' /\ BatchWritten' /\ ReadReady' /\ ReadBack'
  BY <1>1 DEF Chunks, BatchesWritten, BatchWritten, ReadReady, ReadBack
<1>6. Harmless' BY <1>1 DEF Harmless, Whole, Kind, Block
<1> QED BY <1>2, <1>3, <1>4, <1>5, <1>6 DEF DiskInv, Contents

LEMMA MaskDoneStep ==
  ASSUME DiskInv, MaskDone
  PROVE  DiskInv'
<1>1. /\ job.op = "mask" /\ pc' = "idle" /\ job' = NoJob /\ at' = at /\ off' = off /\ got' = got
      /\ disk' = disk /\ UNCHANGED <<running, buffer, status, mask, image>>
      /\ cur' = cur /\ call' = "none" /\ done' = done /\ effect' = effect
  BY RpWaits DEF MaskDone, Service!Return, Service!Fail
<1>2. at = 0 /\ off = 0 /\ got = <<>> BY <1>1 DEF DiskInv, Progress
<1>3. DiskAsWritten' BY <1>1 DEF DiskInv, Contents, DiskAsWritten, InFlux, NoJob
<1>4. Whole(effect) => \A b \in Blocks : b = Block(effect.drive, effect.rec) =>
                         disk'[b] \in {effect.data, Unknown}
  BY <1>1 DEF DiskInv, Contents, Harmless, InFlux
<1>5. disk' \in [Blocks -> Values \cup {Unknown}] BY <1>1 DEF DiskInv, DiskTypes
<1> QED BY <1>1, <1>2, <1>3, <1>4, <1>5, JobOver

LEMMA BatchFailedStep ==
  ASSUME DiskInv, BatchFailed
  PROVE  DiskInv'
<1>1. /\ pc' = "idle" /\ job' = NoJob /\ at' = 0 /\ off' = 0 /\ got' = <<>>
      /\ UNCHANGED <<running, buffer, status, mask, image>>
      /\ cur' = cur /\ call' = "none" /\ done' = done /\ effect' = effect
  BY RpWaits DEF BatchFailed, Service!Return, Service!Fail
<1>2. disk \in [Blocks -> Values \cup {Unknown}] BY DEF DiskInv, DiskTypes
<1>3. \A b \in Blocks : disk'[b] = IF b \in InFlux THEN Unknown ELSE disk[b]
  BY <1>2 DEF BatchFailed, InFlux
<1>4. disk' \in [Blocks -> Values \cup {Unknown}] BY <1>2 DEF BatchFailed
<1>5. DiskAsWritten' BY <1>1, <1>3 DEF DiskInv, Contents, DiskAsWritten
<1>6. Whole(effect) => \A b \in Blocks : b = Block(effect.drive, effect.rec) =>
                         disk'[b] \in {effect.data, Unknown}
  BY <1>3 DEF DiskInv, Contents, Harmless
<1> QED BY <1>1, <1>4, <1>5, <1>6, JobOver

LEMMA WriteSucceedsStep ==
  ASSUME DiskInv, WriteSucceeds
  PROVE  DiskInv'
<1>1. /\ pc = "status" /\ job.op = "write" /\ status = 0 /\ off + 1 = Batch
      /\ UNCHANGED <<running, buffer, status, mask, image>>
      /\ cur' = cur /\ call' = "none" /\ done' = done /\ effect' = effect
      /\ off' = 0
  BY RpWaits DEF WriteSucceeds, AtStatus, Service!Return, BatchDone
<1>2. done /\ Performed /\ Sent = off + 1 BY <1>1 DEF DiskInv, InStep, Performed, Sent
<1>3. effect = ChunkCommand BY <1>1, <1>2, EffectNow, ExpectedType
<1>4. /\ off \in Nat /\ at \in Nat /\ Batch \in Nat \ {0} /\ job.count \in Nat
      /\ at + Batch <= job.count
  BY <1>1, ChunkIs, BatchFacts
<1>5. \A k \in 1 .. at + Batch : image[JobBlock(k)] = [val |-> job.data[k], le |-> TRUE]
  <2> SUFFICES ASSUME NEW k \in 1 .. at + Batch
               PROVE  image[JobBlock(k)] = [val |-> job.data[k], le |-> TRUE]
    OBVIOUS
  <2>1. CASE k <= at
    <3>1. k \in 1 .. at BY <1>4, <2>1
    <3> QED BY <1>1, <3>1 DEF DiskInv, Contents, BatchesWritten
  <2>2. CASE ~(k <= at)
    <3>1. k - at \in 1 .. Batch /\ at + (k - at) = k BY <1>4, <2>2
    <3>2. \A i \in 1 .. Batch : image[JobBlock(at + i)] = [val |-> job.data[at + i], le |-> TRUE]
      BY <1>1, <1>2 DEF DiskInv, Contents, BatchWritten
    <3>3. image[JobBlock(at + (k - at))] = [val |-> job.data[at + (k - at)], le |-> TRUE]
      BY <3>1, <3>2
    <3> QED BY <3>1, <3>3
  <2> QED BY <2>1, <2>2
\* The block of a write of one chunk.
<1>6. ASSUME Whole(effect), NEW b \in Blocks, b = Block(effect.drive, effect.rec)
      PROVE  /\ b = JobBlock(at + 1) /\ at + 1 \in 1 .. job.count /\ b \in JobBlocks
             /\ effect.data = job.data[at + 1] /\ Batch = 1
  <2>1. effect.off = off /\ effect.total = Batch /\ effect \in WriteCmds BY <1>1, <1>3, ChunkIs
  <2>2. Kind(effect) = "whole" BY <1>6 DEF Whole
  <2>3. Batch = 1 BY <1>1, <2>1, <2>2, WriteKind
  <2>4. off = 0 BY <1>1, <1>4, <2>3
  <2>5. at + 1 = at + off + 1 BY <1>4, <2>4
  <2>6. JobBlock(at + 1) = b + 1 - 1 /\ at + 1 \in 1 .. job.count /\ JobBlock(at + 1) \in JobBlocks
    BY <1>1, <1>3, <1>4, <1>6, ChunkIs
  <2>7. b \in Int BY AcsiAssumption DEF Blocks
  <2> QED BY <1>1, <1>3, <2>3, <2>5, <2>6, <2>7, ChunkIs
<1>7. CASE at + Batch < job.count
  <2>1. pc' = "send" /\ at' = at + Batch /\ job' = job /\ got' = got /\ disk' = disk
    BY <1>7 DEF WriteSucceeds, BatchDone
  <2>2. ~Performed' /\ Sent' = 0 BY <1>1, <2>1 DEF Sent, Performed
  <2>3. Batch' \in Nat \ {0} BY <1>4, <1>7, <2>1, AcsiAssumption DEF Batch
  <2>4. InFlux' = InFlux /\ \A k : JobBlock(k)' = JobBlock(k)
    BY <2>1 DEF InFlux, JobBlocks, JobBlock, Block
  <2>5. DiskTypes' BY <1>1, <1>4, <2>1 DEF DiskInv, DiskTypes
  <2>6. InStep' BY <1>1, <2>1 DEF DiskInv, InStep
  <2>7. Progress' BY <1>1, <1>7, <2>1, <2>3 DEF DiskInv, Progress
  <2>8. Busy' BY <1>1, <1>2 DEF DiskInv, Busy, Block
  <2>9. OwnEffect' BY <1>1 DEF OwnEffect
  <2>10. Chunks' BY <2>2 DEF Chunks
  <2>11. BatchesWritten' BY <1>1, <1>5, <2>1, <2>4 DEF BatchesWritten
  <2>12. BatchWritten' BY <2>2, <2>3 DEF BatchWritten
  <2>13. Harmless'
    <3> SUFFICES ASSUME Whole(effect), NEW b \in Blocks, b = Block(effect.drive, effect.rec)
                 PROVE  /\ b \in InFlux
                        /\ \A k \in 1 .. at + Batch : JobBlock(k) = b => effect.data = job.data[k]
      BY <1>1, <2>1, <2>4 DEF Harmless, Whole, Kind, Block
    <3>1. /\ b = JobBlock(at + 1) /\ at + 1 \in 1 .. job.count /\ b \in JobBlocks
          /\ effect.data = job.data[at + 1] /\ Batch = 1
      BY <1>6
    <3>2. \A k \in 1 .. at + Batch : k \in 1 .. job.count BY <1>4
    <3> QED BY <1>1, <3>1, <3>2, WriteBlocks DEF InFlux
  <2>14. ReadReady' BY <1>1, <2>1 DEF ReadReady
  <2>15. DiskAsWritten' BY <1>1, <2>1, <2>4 DEF DiskInv, Contents, DiskAsWritten
  <2>16. ReadBack' BY <1>1, <2>1 DEF ReadBack
  <2> QED BY <2>5, <2>6, <2>7, <2>8, <2>9, <2>10, <2>11, <2>12, <2>13, <2>14, <2>15, <2>16
       DEF DiskInv, Contents
<1>8. CASE ~(at + Batch < job.count)
  <2>1. /\ pc' = "idle" /\ job' = NoJob /\ at' = 0 /\ got' = <<>>
        /\ disk' = [b \in Blocks |-> IF b \in JobBlocks THEN DataAt(b) ELSE disk[b]]
    BY <1>1, <1>8 DEF WriteSucceeds, BatchDone
  <2>2. at + Batch = job.count BY <1>4, <1>8
  <2>3. \A b \in JobBlocks : \E k \in 1 .. job.count :
          /\ b = JobBlock(k) /\ DataAt(b) = job.data[k] /\ job.data[k] \in Values
          /\ image[b] = [val |-> job.data[k], le |-> TRUE]
    BY <1>1, <1>5, <2>2, WriteBlocks
  <2>4. disk \in [Blocks -> Values \cup {Unknown}] BY DEF DiskInv, DiskTypes
  <2>5. disk' \in [Blocks -> Values \cup {Unknown}] BY <2>1, <2>3, <2>4
  <2>6. DiskAsWritten'
    <3> SUFFICES ASSUME NEW b \in Blocks, disk'[b] # Unknown
                 PROVE  image[b] = [val |-> disk'[b], le |-> TRUE]
      BY <1>1 DEF DiskAsWritten
    <3>1. CASE b \in JobBlocks
      <4>1. disk'[b] = DataAt(b) BY <2>1, <3>1
      <4> QED BY <2>3, <3>1, <4>1
    <3>2. CASE b \notin JobBlocks
      <4>1. disk'[b] = disk[b] BY <2>1, <3>2
      <4> QED BY <1>1, <3>2, <4>1 DEF DiskInv, Contents, DiskAsWritten, InFlux
    <3> QED BY <3>1, <3>2
  <2>7. ASSUME Whole(effect), NEW b \in Blocks, b = Block(effect.drive, effect.rec)
        PROVE  disk'[b] \in {effect.data, Unknown}
    <3>1. /\ b = JobBlock(at + 1) /\ at + 1 \in 1 .. job.count /\ b \in JobBlocks
          /\ effect.data = job.data[at + 1]
      BY <1>6, <2>7
    <3>2. DataAt(b) = job.data[at + 1] BY <1>1, <3>1, WriteBlocks
    <3> QED BY <2>1, <3>1, <3>2
  <2> QED BY <1>1, <2>1, <2>5, <2>6, <2>7, JobOver
<1> QED BY <1>7, <1>8

LEMMA StartCopyStep ==
  ASSUME DiskInv, StartCopy
  PROVE  DiskInv'
<1>1. /\ pc = "status" /\ status = 0 /\ job.op = "read" /\ pc' = "copy" /\ off' = 0
      /\ job' = job /\ at' = at /\ got' = got /\ disk' = disk
      /\ UNCHANGED <<running, buffer, status, mask, image>>
      /\ cur' = cur /\ call' = call /\ done' = done /\ effect' = effect
  BY RpWaits DEF StartCopy, AtStatus, link
<1>2. off = 0 /\ done /\ Performed BY <1>1 DEF DiskInv, Progress, InStep, Performed
<1>3. Expected' = Expected BY <1>1 DEF Expected, ReadCommand, Batch
<1>4. DiskTypes' BY <1>1 DEF DiskInv, DiskTypes
<1>5. InStep' BY <1>1, <1>3 DEF DiskInv, InStep
<1>6. Progress' BY <1>1, <1>2, ContentsStay DEF DiskInv, Progress
<1>7. Busy' /\ OwnEffect' BY <1>1, <1>2 DEF DiskInv, Busy, OwnEffect
<1>8. Chunks' /\ BatchWritten' BY <1>1 DEF Chunks, BatchWritten
<1>9. ReadReady' BY <1>1, <1>2, ContentsStay DEF DiskInv, Contents, ReadReady
<1>10. ReadBack' BY <1>1 DEF DiskInv, Contents, ReadBack, Block
<1> QED BY <1>1, <1>4, <1>5, <1>6, <1>7, <1>8, <1>9, <1>10, ContentsStay DEF DiskInv, Contents

LEMMA CopyBlockStep ==
  ASSUME DiskInv, CopyBlock
  PROVE  DiskInv'
<1>1. /\ pc = "copy" /\ off < Batch /\ pc' = pc /\ off' = off + 1
      /\ got' = Append(got, buffer[off + 1])
      /\ job' = job /\ at' = at /\ disk' = disk
      /\ UNCHANGED <<running, buffer, status, mask, image>>
      /\ cur' = cur /\ call' = call /\ done' = done /\ effect' = effect
  BY RpWaits DEF CopyBlock, link
<1>2. done /\ job.op = "read" BY <1>1 DEF DiskInv, InStep
<1>3. /\ Batch \in 1 .. MaxBatch /\ MaxBatch \in Nat /\ off \in Nat /\ at \in Nat
      /\ got \in Seq(Copies) /\ Len(got) = at + off
  BY <1>2, BatchFacts DEF DiskInv, DiskTypes, Progress
<1>4. off + 1 \in 1 .. Batch /\ buffer[off + 1] \in Copies
  BY <1>1, <1>3 DEF DiskInv, DiskTypes
<1>5. /\ got' \in Seq(Copies) /\ Len(got') = at + (off + 1)
      /\ \A i \in 1 .. at + off : got'[i] = got[i]
      /\ got'[at + (off + 1)] = buffer[off + 1]
  BY <1>1, <1>3, <1>4
<1>6. Expected' = Expected BY <1>1, <1>2 DEF Expected, ReadCommand, Batch
<1>7. DiskTypes' BY <1>1, <1>3, <1>5 DEF DiskInv, DiskTypes
<1>8. InStep' BY <1>1, <1>6 DEF DiskInv, InStep
<1>9. Progress' BY <1>1, <1>2, <1>3, <1>4, <1>5, ContentsStay DEF DiskInv, Progress
<1>10. Busy' /\ OwnEffect' BY <1>1, <1>2 DEF DiskInv, Busy, OwnEffect
<1>11. Chunks' /\ BatchWritten' BY <1>1, <1>2 DEF Chunks, BatchWritten
<1>12. ReadReady' BY <1>1, ContentsStay DEF DiskInv, Contents, ReadReady
<1>13. ReadBack'
  <2> SUFFICES ASSUME NEW i \in 1 .. at + (off + 1), disk[JobBlock(i)] # Unknown
               PROVE  got'[i] = [val |-> disk[JobBlock(i)], le |-> FALSE]
    BY <1>1, <1>5 DEF ReadBack, JobBlock, Block
  <2>1. CASE i \in 1 .. at + off
    BY <1>2, <1>3, <1>5, <2>1 DEF DiskInv, Contents, ReadBack, JobBlock
  <2>2. CASE i = at + (off + 1)
    BY <1>1, <1>2, <1>4, <1>5, <2>2 DEF DiskInv, Contents, ReadReady
  <2> QED BY <1>3, <2>1, <2>2
<1> QED BY <1>1, <1>7, <1>8, <1>9, <1>10, <1>11, <1>12, <1>13, ContentsStay
     DEF DiskInv, Contents

LEMMA CopyDoneStep ==
  ASSUME DiskInv, CopyDone
  PROVE  DiskInv'
<1>1. /\ pc = "copy" /\ off = Batch /\ off' = 0 /\ BatchDone
      /\ UNCHANGED <<running, buffer, status, mask, image>>
      /\ cur' = cur /\ call' = "none" /\ done' = done /\ effect' = effect
  BY RpWaits DEF CopyDone, Service!Return, BatchDone
<1>2. done /\ job.op = "read" BY <1>1 DEF DiskInv, InStep
<1>3. disk' = disk BY <1>1, <1>2 DEF BatchDone
<1>4. /\ at \in Nat /\ Batch \in Nat /\ job.count \in Nat /\ at + Batch <= job.count
      /\ Len(got) = at + Batch
  BY <1>1, <1>2, BatchFacts DEF DiskInv, Progress
<1>5. InFlux = {} /\ ~(job.op = "write") BY <1>2 DEF InFlux
<1>6. CASE at + Batch < job.count
  <2>1. pc' = "send" /\ at' = at + Batch /\ job' = job /\ got' = got BY <1>1, <1>6 DEF BatchDone
  <2>2. DiskTypes' BY <1>1, <1>3, <1>4, <2>1 DEF DiskInv, DiskTypes
  <2>3. InStep' BY <1>1, <1>2, <2>1 DEF DiskInv, InStep
  <2>4. Batch' \in Nat BY <1>4, <1>6, <2>1, AcsiAssumption DEF Batch
  <2>5. Progress' BY <1>1, <1>2, <1>4, <1>6, <2>1, <2>4 DEF Progress
  <2>6. Busy' /\ OwnEffect' BY <1>1, <1>2, <2>1 DEF DiskInv, Busy, OwnEffect
  <2>7. Chunks' /\ BatchesWritten' /\ BatchWritten'
    BY <1>2, <2>1 DEF Chunks, BatchesWritten, BatchWritten
  <2>8. Harmless'
    BY <1>1, <1>2, <1>3, <1>5, <2>1 DEF DiskInv, Contents, Harmless, Whole, Kind, Block, InFlux
  <2>9. ReadReady' BY <1>1, <2>1 DEF ReadReady, Performed
  <2>10. DiskAsWritten' BY <1>1, <1>2, <1>3, <2>1 DEF DiskInv, Contents, DiskAsWritten, InFlux
  <2>11. ReadBack' BY <1>3, <2>1 DEF DiskInv, Contents, ReadBack, Block
  <2> QED BY <2>2, <2>3, <2>5, <2>6, <2>7, <2>8, <2>9, <2>10, <2>11 DEF DiskInv, Contents
<1>7. CASE ~(at + Batch < job.count)
  <2>1. pc' = "idle" /\ job' = NoJob /\ at' = 0 /\ got' = <<>> BY <1>1, <1>7 DEF BatchDone
  <2>2. DiskAsWritten' BY <1>1, <1>3, <1>5, <2>1 DEF DiskInv, Contents, DiskAsWritten, InFlux
  <2>3. Whole(effect) => \A b \in Blocks : b = Block(effect.drive, effect.rec) =>
                           disk'[b] \in {effect.data, Unknown}
    BY <1>3, <1>5 DEF DiskInv, Contents, Harmless
  <2>4. disk' \in [Blocks -> Values \cup {Unknown}] BY <1>3 DEF DiskInv, DiskTypes
  <2> QED BY <1>1, <2>1, <2>2, <2>3, <2>4, JobOver
<1> QED BY <1>6, <1>7

\* acsi_tick and the clock touch none of it.
LEMMA NothingHappens ==
  ASSUME DiskInv, UNCHANGED <<link, atari, running, buffer, status, mask, image, disk>>
  PROVE  DiskInv'
<1>1. /\ cur' = cur /\ call' = call /\ done' = done /\ effect' = effect
      /\ pc' = pc /\ job' = job /\ at' = at /\ off' = off /\ got' = got
      /\ UNCHANGED <<running, buffer, status, mask, image, disk>>
      /\ UNCHANGED <<atari, disk>>
  BY DEF link, atari
<1>2. (Performed' <=> Performed) /\ Sent' = Sent BY <1>1 DEF Performed, Sent
<1>3. DiskTypes' BY <1>1 DEF DiskInv, DiskTypes
<1>4. InStep' BY <1>1, AtariWaits DEF DiskInv, InStep
<1>5. Busy' BY <1>1 DEF DiskInv, Busy, Block
<1>6. OwnEffect' BY <1>1, <1>2, AtariWaits DEF DiskInv, OwnEffect
<1>7. Chunks' BY <1>1, <1>2, ContentsStay DEF DiskInv, Contents, Chunks
<1>8. BatchWritten' BY <1>1, <1>2, ContentsStay DEF DiskInv, Contents, BatchWritten
<1>9. ReadReady' BY <1>1, <1>2, ContentsStay DEF DiskInv, Contents, ReadReady
<1> QED BY <1>1, <1>3, <1>4, <1>5, <1>6, <1>7, <1>8, <1>9, AtariWaits, ContentsStay
     DEF DiskInv, Contents
-----------------------------------------------------------------------------
(* The theorems                                                              *)

LEMMA TosAsks ==
  ASSUME DiskInv, Tos
  PROVE  \E j \in MaskJobs \cup ReadJobs \cup WriteJobs : Enter(j)
<1>1. ASSUME NEW q \in Requests, RwabsRead(q)
      PROVE  \E j \in ReadJobs : Enter(j)
  <2> DEFINE j == [op |-> "read", drive |-> q.drive, rec |-> q.rec, count |-> q.count]
  <2>1. j \in ReadJobs BY AcsiAssumption DEF ReadJobs
  <2> QED BY <1>1, <2>1 DEF RwabsRead
<1>2. ASSUME NEW q \in Requests, NEW words \in WriteData, RwabsWrite(q, words)
      PROVE  \E j \in WriteJobs : Enter(j)
  <2> DEFINE j == [op |-> "write", drive |-> q.drive, rec |-> q.rec, count |-> q.count,
                   data |-> words]
  <2>1. /\ q.drive \in Drives /\ q.rec \in Nat /\ q.count \in Nat \ {0} /\ words \in Seq(Values)
    BY AcsiAssumption
  <2>2. Len(words) = q.count /\ q.rec + q.count <= Count[q.drive] BY <1>2 DEF RwabsWrite
  <2>3. j \in WriteJobs BY <2>1, <2>2 DEF WriteJobs
  <2> QED BY <1>2, <2>3 DEF RwabsWrite
<1>3. ASSUME NEW d \in Drives, Mediach(d)
      PROVE  \E j \in MaskJobs : Enter(j)
  <2> DEFINE j == [op |-> "mask", mask |-> MaskWithout(d)]
  <2>1. j \in MaskJobs BY DEF DiskInv, DiskTypes, MaskJobs, MaskWithout
  <2> QED BY <1>3, <2>1 DEF Mediach
<1> QED BY <1>1, <1>2, <1>3 DEF Tos

LEMMA DiskStep ==
  ASSUME DiskInv, HarmlessRepeats, Next
  PROVE  DiskInv'
<1>1. CASE Tos BY <1>1, TosAsks, EnterStep
<1>2. CASE Driver
  BY <1>2, SendStep, AnsweredStep, ChunkDoneStep, MaskDoneStep, BatchFailedStep,
     WriteSucceedsStep, StartCopyStep, CopyBlockStep, CopyDoneStep DEF Driver
<1>3. ASSUME NEW c \in {cur, effect} \ {NoCmd}, Run(c) PROVE DiskInv'
  BY <1>3, ReadFailsStep, ReadLoadsStep, WriteChunkStep, WriteLastStep, SetMaskStep DEF Run
<1>4. CASE ReadSwaps BY <1>4, ReadSwapsStep
<1>5. CASE TickSyncs \/ TickFails \/ Clock
  BY <1>5, NothingHappens DEF TickSyncs, TickFails, Clock
<1> QED BY <1>1, <1>2, <1>3, <1>4, <1>5 DEF Next, Rp

LEMMA DiskInductive == ASSUME HarmlessRepeats PROVE DiskSpec => []DiskInv
<1>1. DiskInit => DiskInv BY DiskStart DEF DiskInit
<1>2. ASSUME DiskInv, [DiskNext]_diskVars PROVE DiskInv'
  <2>1. CASE Work BY <1>2, <2>1, DiskStep DEF Work
  <2>2. CASE UNCHANGED vars BY <1>2, <2>2, NothingHappens DEF vars, rp
  <2> QED BY <1>2, <2>1, <2>2 DEF DiskNext, Scan, Publish, Unused, diskVars
<1> QED BY <1>1, <1>2, PTL DEF DiskSpec

\* hdv_rw, ACSIEMUL_WRITE_SECTOR_BATCH: what TOS wrote with success is in the
\* image, each block in its place and byte order.
THEOREM WritesArrive == ASSUME HarmlessRepeats PROVE DiskSpec => []DiskAsWritten
<1>1. DiskInv => DiskAsWritten BY DEF DiskInv, Contents
<1> QED BY <1>1, DiskInductive, PTL

\* hdv_rw, ACSIEMUL_READ_SECTOR_BATCH: what a read delivers is what TOS wrote.
THEOREM ReadsDeliver == ASSUME HarmlessRepeats PROVE DiskSpec => []ReadBack
<1>1. DiskInv => ReadBack BY DEF DiskInv, Contents
<1> QED BY <1>1, DiskInductive, PTL
-----------------------------------------------------------------------------
(* What a step of the scan does to the drives                               *)

Adds(p, dos, tos) == AnnounceTos(p, dos, tos) \/ AnnounceDos(p, dos, tos)

\* The image stays, what was found stays found, and drives are only added.
LEMMA VolumesStep ==
  ASSUME ScanInv, [DiskNext]_diskVars
  PROVE  /\ img' = img /\ first' = first
         /\ \A i \in 1 .. Len(partitions) :
              i \in 1 .. Len(partitions') /\ partitions'[i] = partitions[i]
         /\ \/ volumes' = volumes
            \/ \E p \in Upcoming : Adds(p, Boot(p.first), Boot(p.first + 1))
<1> DEFINE Same == img' = img /\ first' = first /\ partitions' = partitions
           Kept == \A i \in 1 .. Len(partitions) :
                     i \in 1 .. Len(partitions') /\ partitions'[i] = partitions[i]
           Goal == /\ img' = img /\ first' = first /\ Kept
                   /\ \/ volumes' = volumes
                      \/ \E p \in Upcoming : Adds(p, Boot(p.first), Boot(p.first + 1))
<1> SUFFICES Goal OBVIOUS
<1>1. partitions \in Seq(Partitions) /\ Len(partitions) \in Nat BY DEF ScanInv, ScanTypes
<1>2. ASSUME Same, volumes' = volumes PROVE Goal BY <1>2
<1>3. ASSUME NEW part \in Partitions, partitions' = Append(partitions, part),
             UNCHANGED <<img, first, volumes>>
      PROVE  Goal
  BY <1>1, <1>3
<1>4. CASE Reject BY <1>2, <1>4 DEF Reject, walk, announce
<1>5. ASSUME NEW ok \in Reads, Open(ok) \/ ReadRoot(ok) PROVE Goal
  BY <1>2, <1>4, <1>5 DEF Open, ReadRoot, walk, announce
<1>6. CASE SkipSlot \/ BadSlot \/ EnterChain \/ SlotsDone \/ BadChain
  BY <1>2, <1>4, <1>6 DEF SkipSlot, BadSlot, EnterChain, SlotsDone, BadChain, walk, announce
<1>7. CASE TakeSlot
  <2>1. Root \in Partitions BY <1>7, ReadTypes DEF TakeSlot
  <2>2. partitions' = Append(partitions, Root) /\ UNCHANGED <<img, first, volumes>>
    BY <1>7 DEF TakeSlot, announce
  <2> HIDE DEF Goal
  <2> QED BY <1>3, <2>1, <2>2
<1>8. CASE FollowChain
  <2>1. UNCHANGED <<img, first, volumes>> /\ partitions' = Taken BY <1>8 DEF FollowChain, announce
  <2>2. CASE Logical = NoPartition BY <1>2, <2>1, <2>2 DEF Taken
  <2>3. CASE Logical # NoPartition
    <3>1. partitions' = Append(partitions, Logical) BY <2>1, <2>3 DEF Taken
    <3>2. Logical \in Partitions BY ReadTypes
    <3> HIDE DEF Goal
    <3> QED BY <1>3, <2>1, <3>1, <3>2
  <2> QED BY <2>2, <2>3
<1>9. ASSUME NEW p \in Upcoming, NEW dos \in {Boot(p.first)}, NEW tos \in {Boot(p.first + 1)},
             AnnounceTos(p, dos, tos) \/ AnnounceDos(p, dos, tos) \/ SkipPartition(p, dos, tos)
      PROVE  Goal
  <2>1. dos = Boot(p.first) /\ tos = Boot(p.first + 1) OBVIOUS
  <2>2. CASE SkipPartition(p, dos, tos) BY <1>2, <2>2 DEF SkipPartition, walk
  <2>3. CASE Adds(p, dos, tos)
    <3>1. img' = img /\ first' = first /\ partitions' = partitions
      BY <2>3 DEF Adds, AnnounceTos, AnnounceDos, Give, walk
    <3>2. \E q \in Upcoming : Adds(q, Boot(q.first), Boot(q.first + 1)) BY <2>1, <2>3
    <3> QED BY <1>1, <3>1, <3>2
  <2> QED BY <1>9, <2>2, <2>3 DEF Adds
<1>10. CASE Announced BY <1>2, <1>10 DEF Announced, walk, announce
<1>11. CASE Publish \/ Unused \/ Work \/ UNCHANGED diskVars
  BY <1>2, <1>11 DEF Publish, Unused, Work, diskVars, scanVars, walk, announce
<1>12. CASE ScanNext
  <2> HIDE DEF Goal
  <2> QED BY <1>5, <1>6, <1>7, <1>8, <1>9, <1>10, <1>12 DEF ScanNext
<1> HIDE DEF Goal
<1> QED BY <1>11, <1>12 DEF DiskNext, Scan
-----------------------------------------------------------------------------
(* What TOS is told of a volume                                             *)

\* A volume shows the boot sector it starts with, and that one puts the file
\* system where the boot sector of the partition puts it.
Shows(v, p) ==
  /\ v.count = Boot(v.start).total /\ v.bpb = Bpb(Boot(v.start))
  /\ v.start \in Nat /\ Boot(v.start).bps # 0 /\ Boot(v.start).spc # 0
  /\ Places(Boot(v.start), v.start) = Places(Boot(p.first), p.first)

VolumesShow == \A d \in DOMAIN volumes : Shows(volumes[d], partitions[volumes[d].part])

LEMMA UpcomingIs ==
  ASSUME ScanInv, NEW p \in Upcoming
  PROVE  step = "announce" /\ index \in 1 .. Len(partitions) /\ p = partitions[index]
<1>1. step = "announce" BY DEF Upcoming
<1>2. index \in DOMAIN partitions /\ p = partitions[index] BY <1>1 DEF Upcoming
<1> QED BY <1>1, <1>2 DEF ScanInv, ScanTypes

\* What is announced shows its boot sector.
LEMMA AddedShows ==
  ASSUME ScanInv, NEW p \in Upcoming, Adds(p, Boot(p.first), Boot(p.first + 1))
  PROVE  \E v : /\ Give(v) /\ v.part = index /\ Shows(v, p)
<1>1. p.first \in Nat
  <2>1. index \in 1 .. Len(partitions) /\ p = partitions[index]
    BY UpcomingIs
  <2>2. partitions[index] \in Partitions BY <2>1 DEF ScanInv, ScanTypes
  <2> QED BY <2>1, <2>2 DEF Partitions
<1> DEFINE dos == Boot(p.first)
           tos == Boot(p.first + 1)
<1>2. CASE AnnounceTos(p, dos, tos)
  <2> DEFINE v == Volume("TOS", tos, p.first + 1)
  <2>1. /\ IsFat16(p, dos) /\ Places(dos, p.first) = Places(tos, p.first + 1)
        /\ tos.bps >= SectorSize /\ tos.spc # 0
    BY <1>2, Zenon DEF AnnounceTos, ServesTos, IsHybrid, IsTosBoot
  <2>2. tos.bps # 0 BY <2>1, BootType, ImageAssumption DEF Boots
  <2>3. /\ v.start = p.first + 1 /\ v.count = tos.total /\ v.bpb = Bpb(tos) /\ v.part = index
        /\ p.first + 1 \in Nat
    BY <1>1 DEF Volume
  <2>4. Give(v) BY <1>2 DEF AnnounceTos
  <2> HIDE DEF v
  <2>5. Shows(v, p) BY <2>1, <2>2, <2>3 DEF Shows
  <2> QED BY <2>3, <2>4, <2>5
<1>3. CASE AnnounceDos(p, dos, tos)
  <2> DEFINE v == Volume("DOS", dos, p.first)
  <2>1. dos.bps \in LogicalSizes /\ dos.spc # 0 BY <1>3, Zenon DEF AnnounceDos, IsFat16
  <2>2. dos.bps # 0 BY <2>1, BootType, ImageAssumption, ScanAssumption DEF Boots
  <2>3. v.start = p.first /\ v.count = dos.total /\ v.bpb = Bpb(dos) /\ v.part = index
    BY <1>1 DEF Volume
  <2>4. Give(v) BY <1>3 DEF AnnounceDos
  <2> HIDE DEF v
  <2>5. Shows(v, p) BY <1>1, <2>1, <2>2, <2>3 DEF Shows
  <2> QED BY <2>3, <2>4, <2>5
<1> QED BY <1>2, <1>3 DEF Adds

LEMMA VolumesShowStep ==
  ASSUME ScanInv, VolumesShow, [DiskNext]_diskVars
  PROVE  VolumesShow'
<1>1. /\ img' = img
      /\ \A i \in 1 .. Len(partitions) : partitions'[i] = partitions[i]
  BY VolumesStep
<1>2. \A n : Boot(n)' = Boot(n) BY <1>1 DEF Boot, Sector
<1>3. SUFFICES ASSUME NEW d \in DOMAIN volumes'
               PROVE  Shows(volumes'[d], partitions'[volumes'[d].part])
  BY <1>2 DEF VolumesShow, Shows
<1>4. ASSUME NEW e \in DOMAIN volumes
      PROVE  Shows(volumes[e], partitions'[volumes[e].part])
  BY <1>1 DEF VolumesShow, ScanInv, VolumesInside
<1>5. CASE volumes' = volumes BY <1>4, <1>5
<1>6. ASSUME NEW p \in Upcoming, Adds(p, Boot(p.first), Boot(p.first + 1))
      PROVE  Shows(volumes'[d], partitions'[volumes'[d].part])
  <2>1. PICK v : Give(v) /\ v.part = index /\ Shows(v, p) BY <1>6, AddedShows
  <2>2. volumes' = [c \in DOMAIN volumes \cup {drive} |-> IF c = drive THEN v ELSE volumes[c]]
    BY <2>1 DEF Give
  <2>3. CASE d = drive
    <3>1. volumes'[d] = v BY <2>2, <2>3
    <3>2. p = partitions[index] /\ partitions'[index] = partitions[index] BY <1>1, UpcomingIs
    <3> QED BY <2>1, <3>1, <3>2
  <2>4. CASE d # drive
    <3>1. d \in DOMAIN volumes /\ volumes'[d] = volumes[d] BY <2>2, <2>4
    <3> QED BY <1>4, <3>1
  <2> QED BY <2>3, <2>4
<1> QED BY <1>5, <1>6, VolumesStep

LEMMA WholeClusters == \A n \in Nat, c \in Nat \ {0} : (n \div c) \in Nat /\ (n \div c) * c <= n
OBVIOUS

\* The clusters that are counted lie between the root directory and the end.
LEMMA ClustersInside ==
  ASSUME NEW b \in Boots, b.bps # 0, b.spc # 0
  PROVE  /\ RootSectors(b) \in Nat /\ NonData(b) \in Nat
         /\ Clusters(b) > 0 => NonData(b) + Clusters(b) * b.spc <= b.total
<1>1. RootSectors(b) \in Nat
  <2>1. /\ b.roots * RootEntry + b.bps - 1 \in Nat /\ b.bps \in Nat \ {0}
    BY ImageAssumption DEF Boots
  <2> DEFINE n == b.roots * RootEntry + b.bps - 1
  <2> HIDE DEF n
  <2> QED BY <2>1, WholeClusters DEF RootSectors, n
<1>2. NonData(b) \in Nat
  <2>1. b.res \in Nat /\ b.fats * b.spf \in Nat BY DEF Boots
  <2> QED BY <1>1, <2>1 DEF NonData
<1>3. ASSUME Clusters(b) > 0 PROVE NonData(b) + Clusters(b) * b.spc <= b.total
  <2>1. b.total >= NonData(b) /\ Clusters(b) = (b.total - NonData(b)) \div b.spc
    BY <1>3 DEF Clusters
  <2> DEFINE n == b.total - NonData(b)
  <2>2. n \in Nat /\ b.spc \in Nat \ {0} /\ b.total \in Nat BY <1>2, <2>1 DEF Boots
  <2>3. (n \div b.spc) \in Nat /\ (n \div b.spc) * b.spc <= n BY <2>2, WholeClusters
  <2> DEFINE m == (n \div b.spc) * b.spc
  <2>4. m \in Nat /\ m <= n /\ n = b.total - NonData(b) BY <2>2, <2>3
  <2>5. Clusters(b) * b.spc = m BY <2>1
  <2> HIDE DEF m, n
  <2> QED BY <1>2, <2>2, <2>4, <2>5
<1> QED BY <1>1, <1>2, <1>3

LEMMA Scaled ==
  \A a, b, c, r \in Nat : /\ (a + b) * r = a * r + b * r
                          /\ (a + b + c) * r = a * r + b * r + c * r
OBVIOUS

LEMMA VolumesShown == DiskSpec => [](ScanInv /\ VolumesShow)
<1>1. DiskInit => ScanInv /\ VolumesShow
  BY ScanInitInv DEF DiskInit, ScanInit, VolumesShow
<1>2. ScanInv /\ VolumesShow /\ [DiskNext]_diskVars => (ScanInv /\ VolumesShow)'
  BY DiskStepInv, VolumesShowStep
<1> QED BY <1>1, <1>2, PTL DEF DiskSpec

\* Whatever image is scanned, and in both views, TOS finds the FATs, the root
\* directory and the clusters of a volume where its partition's boot sector
\* puts them, and no cluster behind its end.
THEOREM FilesAreFound == DiskSpec => []TosFindsTheFiles
<1>1. ScanInv /\ VolumesShow => TosFindsTheFiles
  <2> SUFFICES ASSUME ScanInv, VolumesShow, NEW d \in DOMAIN volumes
               PROVE  LET v  == volumes[d]
                          p  == partitions[v.part]
                          home == Places(Boot(p.first), p.first)
                          r  == Ratio(v.bpb.recsize)
                      IN /\ v.start + v.bpb.datrec * r = home.data
                         /\ Boot(v.start).fats = 2 =>
                              /\ v.start + (v.bpb.fatrec - v.bpb.fsiz) * r = home.fat
                              /\ v.start + (v.bpb.fatrec + v.bpb.fsiz) * r = home.root
                         /\ v.bpb.numcl > 0 => v.bpb.datrec + v.bpb.numcl * v.bpb.clsiz <= v.count
    BY DEF TosFindsTheFiles
  <2> DEFINE v == volumes[d]
             p == partitions[v.part]
             b == Boot(v.start)
             s == v.start
             r == Ratio(b.bps)
             f == b.fats * b.spf
             q == RootSectors(b)
             home == Places(Boot(p.first), p.first)
  <2>1. /\ v.count = b.total /\ v.bpb = Bpb(b) /\ s \in Nat /\ b.bps # 0 /\ b.spc # 0
        /\ home = Places(b, s)
    BY DEF VolumesShow, Shows
  <2>2. /\ v.bpb.recsize = b.bps /\ v.bpb.fsiz = b.spf /\ v.bpb.fatrec = b.res + b.spf
        /\ v.bpb.datrec = NonData(b) /\ v.bpb.numcl = Clusters(b) /\ v.bpb.clsiz = b.spc
    BY <2>1 DEF Bpb
  <2>3. b \in Boots BY BootType
  <2>4. /\ b.res \in Nat /\ b.spf \in Nat /\ f \in Nat /\ q \in Nat /\ r \in Nat
        /\ NonData(b) = b.res + f + q
    <3>1. b.res \in Nat /\ b.spf \in Nat /\ b.fats \in Nat /\ b.bps \in Nat BY <2>3 DEF Boots
    <3>2. r \in Nat BY <3>1, ImageAssumption, WholeClusters DEF Ratio
    <3>3. q \in Nat BY <2>1, <2>3, ClustersInside
    <3>4. f \in Nat BY <3>1
    <3> QED BY <3>1, <3>2, <3>3, <3>4 DEF NonData
  <2>5. /\ home.fat = s + b.res * r /\ home.root = (s + b.res * r) + f * r
        /\ home.data = ((s + b.res * r) + f * r) + q * r
    BY <2>1 DEF Places
  <2>6. v.bpb.numcl > 0 => v.bpb.datrec + v.bpb.numcl * v.bpb.clsiz <= v.count
    BY <2>1, <2>2, <2>3, ClustersInside
  <2>7. b.fats = 2 => f = b.spf + b.spf
    <3>1. b.spf \in Nat BY <2>4
    <3> QED BY <3>1
  <2> HIDE DEF v, p, b, s, r, f, q, home
  <2>8. v.start = s /\ r = Ratio(v.bpb.recsize) BY <2>2 DEF s, r
  <2>9. v.start + v.bpb.datrec * r = home.data
    BY <2>1, <2>2, <2>4, <2>5, <2>8, Scaled
  <2>10. ASSUME b.fats = 2
         PROVE  /\ v.start + (v.bpb.fatrec - v.bpb.fsiz) * r = home.fat
                /\ v.start + (v.bpb.fatrec + v.bpb.fsiz) * r = home.root
    <3>1. v.bpb.fatrec - v.bpb.fsiz = b.res /\ v.bpb.fatrec + v.bpb.fsiz = b.res + f
      BY <2>2, <2>4, <2>7, <2>10
    <3> QED BY <2>1, <2>4, <2>5, <2>8, <3>1, Scaled
  <2> QED BY <2>6, <2>8, <2>9, <2>10 DEF v, p, b, s, r, home
<1> QED BY VolumesShown, <1>1, PTL
-----------------------------------------------------------------------------
(* The plan of the image tool                                               *)

LEMMA UpTo ==
  ASSUME NEW N \in Nat, NEW S, 0 \in S, \A n \in 1 .. N : n - 1 \in S => n \in S
  PROVE  0 .. N \subseteq S
<1> DEFINE R   == OpToRel(<, Nat)
           Bad == (0 .. N) \ S
<1>1. SUFFICES ASSUME Bad # {} PROVE FALSE OBVIOUS
<1>2. Bad \subseteq Nat OBVIOUS
<1>3. PICK x \in Bad : \A y \in Bad : <<y, x>> \notin R
  BY <1>1, <1>2, NatLessThanWellFounded, WFMin
<1>4. ASSUME NEW y \in Bad, y < x PROVE <<y, x>> \in R
  <2>1. <<y, x>> \in Nat \X Nat BY <1>2
  <2>2. \E q \in Nat \X Nat : q = <<y, x>> /\ q[1] < q[2] BY <1>4, <2>1
  <2> QED BY <2>1, <2>2, Zenon DEF OpToRel
<1> HIDE DEF R
<1>5. \A y \in Bad : ~(y < x) BY <1>3, <1>4, Zenon
<1>6. x \in 1 .. N BY <1>3
<1>7. x - 1 \in Bad /\ x - 1 < x BY <1>6
<1> QED BY <1>5, <1>7

Parts == [size : Nat \ {0}, bps : {k * SectorSize : k \in 1 .. 32}, slack : Nat]

\* A logical part leaves a sector for its descriptor.
Gap(primary, i) == IF i > primary THEN 1 ELSE 0

\* The plan with the parts at the given places.
PlanAt(start, format, parts, primary) ==
  /\ start \in [1 .. Len(parts) -> Nat \ {0}]
  /\ \A i \in 1 .. Len(parts) :
       start[i] = (IF i = 1 THEN FirstLba(format) ELSE start[i - 1] + parts[i - 1].size)
                  + Gap(primary, i)
  /\ Planned(format, parts) =
       [i \in 1 .. Len(parts) |->
          [start |-> start[i], desc |-> start[i] - 1, size |-> parts[i].size,
           bps |-> parts[i].bps, slack |-> parts[i].slack]]

\* What Planned computes satisfies the equation it is computed by.
LEMMA PlanEquation ==
  ASSUME NEW format, NEW parts \in Seq(Parts), NEW primary \in Nat,
         primary = PrimaryCount(format, Len(parts)), FirstLba(format) \in Nat \ {0}
  PROVE  \E start : PlanAt(start, format, parts, primary)
<1> DEFINE N       == Len(parts)
           F       == FirstLba(format)
           Pos     == Nat \ {0}
           At(g, i) == (IF i = 1 THEN F ELSE g[i - 1] + parts[i - 1].size) + Gap(primary, i)
           Partial(n, g) == g \in [1 .. n -> Pos] /\ \A i \in 1 .. n : g[i] = At(g, i)
           Has(n)  == \E g : Partial(n, g)
           Round(g) == [i \in 1 .. N |-> (IF i = 1 THEN FirstLba(format) ELSE g[i - 1] + parts[i - 1].size)
                                         + (IF i > PrimaryCount(format, Len(parts)) THEN 1 ELSE 0)]
           start   == CHOOSE g : g = Round(g)
           S       == {n \in 0 .. N : Has(n)}
           T       == {n \in 0 .. N : n = 0 \/ start[n] \in Pos}
<1>1. N \in Nat /\ \A i \in 1 .. N : parts[i].size \in Pos
  <2>1. \A part \in Parts : part.size \in Pos BY DEF Parts
  <2>2. N \in Nat /\ \A i \in 1 .. N : parts[i] \in Parts OBVIOUS
  <2> QED BY <2>1, <2>2
<1>2. \A g : Round(g) = [i \in 1 .. N |-> At(g, i)] BY DEF Gap
<1>3. Planned(format, parts) =
        [i \in 1 .. N |-> [start |-> start[i], desc |-> start[i] - 1, size |-> parts[i].size,
                           bps |-> parts[i].bps, slack |-> parts[i].slack]]
  BY DEF Planned
<1>4. ASSUME NEW g, NEW i \in 1 .. N, i = 1 \/ g[i - 1] \in Pos PROVE At(g, i) \in Pos
  <2>1. Gap(primary, i) \in 0 .. 1 BY DEF Gap
  <2>2. CASE i = 1 BY <2>1, <2>2
  <2>3. CASE i # 1
    <3>1. i - 1 \in 1 .. N BY <1>1, <2>3
    <3>2. parts[i - 1].size \in Pos BY <1>1, <3>1
    <3> QED BY <1>4, <2>1, <2>3, <3>2
  <2> QED BY <2>2, <2>3
<1>5. ASSUME NEW g, NEW h, NEW i \in Nat, i = 1 \/ g[i - 1] = h[i - 1] PROVE At(g, i) = At(h, i)
  BY <1>5
<1> HIDE DEF N, Pos, At, Round, start
<1>6. Has(0)
  <2>1. Partial(0, [i \in 1 .. 0 |-> 1]) OBVIOUS
  <2> HIDE DEF Partial
  <2> QED BY <2>1
<1>7. ASSUME NEW n \in 1 .. N, Has(n - 1) PROVE Has(n)
  <2>1. PICK g : Partial(n - 1, g) BY <1>7
  <2> DEFINE h == [i \in 1 .. n |-> IF i = n THEN At(g, n) ELSE g[i]]
  <2>2. n \in Nat /\ \A i \in 1 .. n : i # n => i \in 1 .. n - 1 BY <1>1
  <2>3. n = 1 \/ n - 1 \in 1 .. n - 1 BY <1>1
  <2>4. At(g, n) \in Pos BY <1>4, <2>1, <2>3
  <2>5. h \in [1 .. n -> Pos] BY <2>1, <2>2, <2>4
  <2>6. ASSUME NEW i \in 1 .. n PROVE h[i] = At(h, i)
    <3>1. i = 1 \/ (i - 1 \in 1 .. n - 1 /\ i - 1 # n /\ i - 1 \in 1 .. n) BY <2>2
    <3>2. i = 1 \/ g[i - 1] = h[i - 1] BY <3>1
    <3>3. At(g, i) = At(h, i) BY <1>5, <2>2, <3>2
    <3>4. CASE i = n BY <3>3, <3>4
    <3>5. CASE i # n
      <4>1. i \in 1 .. n - 1 BY <2>2, <3>5
      <4>2. g[i] = At(g, i) BY <2>1, <4>1
      <4> QED BY <3>3, <3>5, <4>2
    <3> QED BY <3>4, <3>5
  <2> HIDE DEF h
  <2>7. Partial(n, h) BY <2>5, <2>6, Zenon
  <2> HIDE DEF Partial
  <2> QED BY <2>7
<1>8. PICK g : Partial(N, g)
  <2> HIDE DEF Has
  <2>1. 0 \in S BY <1>1, <1>6
  <2>2. \A n \in 1 .. N : n - 1 \in S => n \in S BY <1>1, <1>7
  <2> HIDE DEF S
  <2>3. 0 .. N \subseteq S BY <1>1, <2>1, <2>2, UpTo
  <2>4. Has(N) BY <1>1, <2>3 DEF S
  <2> QED BY <2>4 DEF Has
<1>9. g = Round(g) BY <1>2, <1>8
<1>10. start = Round(start) BY <1>9, Zenon DEF start
<1>11. start = [i \in 1 .. N |-> At(start, i)] BY <1>2, <1>10, Zenon
<1>12. ASSUME NEW i \in 1 .. N PROVE start[i] \in Pos
  <2>1. 0 \in T BY <1>1
  <2>2. ASSUME NEW n \in 1 .. N, n - 1 \in T PROVE n \in T
    <3>1. n = 1 \/ start[n - 1] \in Pos BY <2>2
    <3>2. start[n] = At(start, n) BY <1>11
    <3>3. At(start, n) \in Pos BY <1>4, <3>1
    <3> QED BY <1>1, <3>2, <3>3
  <2> HIDE DEF T
  <2>3. 0 .. N \subseteq T BY <1>1, <2>1, <2>2, UpTo
  <2>4. i \in T BY <1>1, <2>3
  <2> QED BY <1>1, <2>4 DEF T
<1>13. start \in [1 .. N -> Pos] BY <1>11, <1>12
<1>14. \A i \in 1 .. N : start[i] = At(start, i) BY <1>11
<1> QED BY <1>3, <1>13, <1>14 DEF N, Pos, At, PlanAt

\* What the image tool is asked for.
AskedFor(format, parts) ==
  /\ format \in Formats /\ parts \in Seq(Parts) /\ Len(parts) \in 1 .. MaxPartitions
  /\ Behind(Planned(format, parts)[Len(Planned(format, parts))]) <= MaxLba
  /\ \A i \in 1 .. Len(parts) :
       /\ parts[i].slack <= parts[i].size
       /\ Clusters(BootSector(format, parts[i]).boot) \in MinClusters .. MaxClusters - 1
       /\ FitsBpb(BootSector(format, parts[i]).boot)

LEMMA ImageIsBuilt ==
  ASSUME ScanInv, IsPlanned
  PROVE  \E format, parts : AskedFor(format, parts) /\ img = BuildImage(format, parts)
<1>1. img \in Images BY DEF ScanInv, ScanTypes
<1>2. img \notin Disks
  <2>1. img \in Disks => Len(img.plan) = 0 BY <1>1, ImagesAssumption DEF Images
  <2> QED BY <2>1 DEF IsPlanned
<1>3. PICK asked \in Asked : img = BuildImage(asked[1], asked[2]) BY <1>1, <1>2 DEF Images
<1>4. AskedFor(asked[1], asked[2]) BY AskedAssumption, Zenon DEF AskedFor, Parts
<1> QED BY <1>3, <1>4

\* The parts follow one another.
Behinds(plan, primary) ==
  \A j \in 1 .. Len(plan) : \A i \in 1 .. j - 1 :
    Behind(plan[i]) + Gap(primary, j) <= plan[j].start

WellPlaced(plan, primary) ==
  /\ Len(plan) \in 1 .. MaxPartitions /\ primary \in 1 .. 4 /\ primary <= Len(plan)
  /\ primary < Len(plan) => primary <= 3
  /\ \A i \in 1 .. Len(plan) :
       /\ plan[i].start \in Nat \ {0} /\ plan[i].size \in Nat \ {0}
       /\ plan[i].desc = plan[i].start - 1
       /\ i > primary => plan[i].desc \in Nat \ {0}
       /\ Behind(plan[i]) <= Behind(plan[Len(plan)])
  /\ Behinds(plan, primary)

LEMMA PrimaryRange ==
  ASSUME NEW format \in Formats, NEW n \in Nat \ {0}
  PROVE  /\ PrimaryCount(format, n) \in 1 .. 4 /\ PrimaryCount(format, n) <= n
         /\ PrimaryCount(format, n) < n => PrimaryCount(format, n) <= 3
         /\ FirstLba(format) \in 1 .. 2
BY DEF PrimaryCount, MaxPrimary, Formats, FirstLba

LEMMA PlanPlaced ==
  ASSUME NEW format, NEW parts, AskedFor(format, parts), NEW plan, plan = Planned(format, parts),
         NEW primary, primary = PrimaryCount(format, Len(parts))
  PROVE  /\ WellPlaced(plan, primary) /\ Len(plan) = Len(parts)
         /\ \A i \in 1 .. Len(plan) :
              plan[i].size = parts[i].size /\ plan[i].bps = parts[i].bps /\ plan[i].slack = parts[i].slack
<1> DEFINE N == Len(parts)
<1>1. /\ format \in Formats /\ parts \in Seq(Parts) /\ N \in 1 .. MaxPartitions /\ N \in Nat \ {0}
  BY ScanAssumption DEF AskedFor
<1>2. /\ primary \in 1 .. 4 /\ primary <= N /\ (primary < N => primary <= 3)
      /\ FirstLba(format) \in Nat \ {0}
  BY <1>1, PrimaryRange
<1>3. PICK start : PlanAt(start, format, parts, primary)
  <2>1. parts \in Seq(Parts) /\ primary \in Nat /\ FirstLba(format) \in Nat \ {0} BY <1>1, <1>2
  <2> QED BY <2>1, PlanEquation
<1>4. \A i \in 1 .. N : parts[i].size \in Nat \ {0}
  <2>1. \A part \in Parts : part.size \in Nat \ {0} BY DEF Parts
  <2>2. \A i \in 1 .. N : parts[i] \in Parts BY <1>1
  <2> QED BY <2>1, <2>2
<1>5. /\ Len(plan) = N
      /\ \A i \in 1 .. N :
           /\ plan[i].start = start[i] /\ plan[i].desc = start[i] - 1 /\ plan[i].size = parts[i].size
           /\ plan[i].bps = parts[i].bps /\ plan[i].slack = parts[i].slack
           /\ Behind(plan[i]) = start[i] + parts[i].size
  BY <1>1, <1>3 DEF Behind, PlanAt
<1>6. \A i \in 1 .. N : start[i] \in Nat \ {0} /\ Gap(primary, i) \in 0 .. 1
  BY <1>3 DEF Gap, PlanAt
<1>7. \A i \in 2 .. N : i - 1 \in 1 .. N /\ start[i] = start[i - 1] + parts[i - 1].size + Gap(primary, i)
  BY <1>1, <1>3 DEF PlanAt
<1> DEFINE Before(n) == \A i \in 1 .. n - 1 : start[i] + parts[i].size + Gap(primary, n) <= start[n]
           S == {n \in 0 .. N : n = 0 \/ Before(n)}
<1> HIDE DEF N
<1>8. ASSUME NEW n \in 1 .. N, n - 1 \in S PROVE n \in S
  <2>1. SUFFICES ASSUME NEW i \in 1 .. n - 1
                 PROVE  start[i] + parts[i].size + Gap(primary, n) <= start[n]
    BY <1>1
  <2>2. n \in 2 .. N /\ n - 1 \in 1 .. N /\ i \in 1 .. N BY <1>1
  <2>3. start[n] = start[n - 1] + parts[n - 1].size + Gap(primary, n) BY <1>7, <2>2
  <2>4. CASE i = n - 1 BY <1>4, <1>6, <2>2, <2>3, <2>4
  <2>5. CASE i # n - 1
    <3>1. i \in 1 .. (n - 1) - 1 BY <1>1, <2>2, <2>5
    <3>2. start[i] + parts[i].size + Gap(primary, n - 1) <= start[n - 1]
      BY <1>8, <2>2, <3>1
    <3>3. /\ start[i] \in Nat /\ start[n] \in Nat /\ start[n - 1] \in Nat
          /\ parts[i].size \in Nat /\ parts[n - 1].size \in Nat
          /\ Gap(primary, n) \in 0 .. 1 /\ Gap(primary, n - 1) \in 0 .. 1
      BY <1>4, <1>6, <2>2
    <3> DEFINE a == start[i] + parts[i].size
               b == start[n - 1]
               c == parts[n - 1].size
               x == Gap(primary, n)
               y == Gap(primary, n - 1)
    <3>4. a \in Nat /\ b \in Nat /\ c \in Nat /\ x \in 0 .. 1 /\ y \in 0 .. 1 BY <3>3
    <3>5. a + y <= b /\ start[n] = b + c + x BY <2>3, <3>2
    <3>6. a + x <= start[n]
      <4> HIDE DEF a, b, c, x, y
      <4> QED BY <3>4, <3>5
    <3> QED BY <3>6
  <2> QED BY <2>4, <2>5
<1>9. \A n \in 1 .. N : Before(n)
  <2> HIDE DEF Before
  <2>1. 0 \in S BY <1>1
  <2> HIDE DEF S
  <2>2. 0 .. N \subseteq S BY <1>1, <1>8, <2>1, UpTo
  <2> QED BY <1>1, <2>2 DEF S
<1>10. Behinds(plan, primary) BY <1>1, <1>5, <1>9 DEF Behinds
<1>11. ASSUME NEW i \in 1 .. N PROVE Behind(plan[i]) <= Behind(plan[N])
  <2>1. N \in 1 .. N /\ start[N] \in Nat /\ parts[N].size \in Nat BY <1>1, <1>4, <1>6
  <2>2. CASE i = N BY <1>5, <2>1, <2>2
  <2>3. CASE i # N
    <3>1. i \in 1 .. N - 1 BY <1>1, <2>3
    <3>2. start[i] + parts[i].size + Gap(primary, N) <= start[N] BY <1>9, <2>1, <3>1
    <3>3. start[i] \in Nat /\ parts[i].size \in Nat /\ Gap(primary, N) \in 0 .. 1
      BY <1>4, <1>6, <2>1
    <3>4. start[i] + parts[i].size <= start[N] + parts[N].size BY <2>1, <3>2, <3>3
    <3> QED BY <1>5, <2>1, <3>4
  <2> QED BY <2>2, <2>3
<1>12. ASSUME NEW i \in 1 .. N, i > primary PROVE start[i] - 1 \in Nat \ {0}
  <2>1. i \in 2 .. N /\ Gap(primary, i) = 1 BY <1>1, <1>2, <1>12 DEF Gap
  <2>2. start[i] = start[i - 1] + parts[i - 1].size + Gap(primary, i) /\ i - 1 \in 1 .. N
    BY <1>7, <2>1
  <2>3. start[i - 1] \in Nat \ {0} /\ parts[i - 1].size \in Nat \ {0} BY <1>4, <1>6, <2>2
  <2> QED BY <2>1, <2>2, <2>3
<1>13. ASSUME NEW i \in 1 .. N
       PROVE  /\ plan[i].start \in Nat \ {0} /\ plan[i].size \in Nat \ {0}
              /\ plan[i].desc = plan[i].start - 1
              /\ i > primary => plan[i].desc \in Nat \ {0}
              /\ Behind(plan[i]) <= Behind(plan[Len(plan)])
  <2>1. /\ plan[i].start \in Nat \ {0} /\ plan[i].size \in Nat \ {0}
        /\ plan[i].desc = plan[i].start - 1
    BY <1>4, <1>5, <1>6
  <2>2. i > primary => plan[i].desc \in Nat \ {0} BY <1>5, <1>12
  <2> QED BY <1>5, <1>11, <2>1, <2>2
<1>14. WellPlaced(plan, primary) BY <1>1, <1>2, <1>5, <1>10, <1>13 DEF WellPlaced
<1>15. Len(plan) = Len(parts) BY <1>5 DEF N
<1> QED BY <1>5, <1>14, <1>15

\* No two places of a plan are the same sector.
LEMMA Apart ==
  ASSUME NEW plan, NEW primary, WellPlaced(plan, primary)
  PROVE  \A i, j \in 1 .. Len(plan) :
           /\ plan[i].start = plan[j].start => i = j
           /\ j > primary => plan[i].start # plan[j].desc
           /\ plan[i].desc = plan[j].desc => i = j
<1>1. /\ Len(plan) \in Nat /\ primary \in Nat
      /\ \A i \in 1 .. Len(plan) :
           /\ plan[i].start \in Nat \ {0} /\ plan[i].size \in Nat \ {0}
           /\ plan[i].desc = plan[i].start - 1
      /\ Behinds(plan, primary)
  BY ScanAssumption DEF WellPlaced
<1>2. ASSUME NEW i \in 1 .. Len(plan), NEW j \in 1 .. Len(plan), i < j
      PROVE  plan[i].start < plan[j].start /\ (j > primary => plan[i].start < plan[j].desc)
  <2>1. plan[i].start + plan[i].size + Gap(primary, j) <= plan[j].start
    <3>1. i \in 1 .. j - 1 BY <1>2
    <3> QED BY <1>1, <3>1 DEF Behinds, Behind
  <2>2. /\ plan[i].start \in Nat /\ plan[j].start \in Nat /\ plan[i].size \in Nat \ {0}
        /\ plan[j].desc = plan[j].start - 1 /\ Gap(primary, j) \in 0 .. 1
        /\ j > primary => Gap(primary, j) = 1
    BY <1>1 DEF Gap
  <2> QED BY <2>1, <2>2
<1>3. SUFFICES ASSUME NEW i \in 1 .. Len(plan), NEW j \in 1 .. Len(plan)
               PROVE  /\ plan[i].start = plan[j].start => i = j
                      /\ j > primary => plan[i].start # plan[j].desc
                      /\ plan[i].desc = plan[j].desc => i = j
  OBVIOUS
<1>4. /\ plan[i].start \in Nat /\ plan[j].start \in Nat
      /\ plan[i].desc = plan[i].start - 1 /\ plan[j].desc = plan[j].start - 1
  BY <1>1
<1>5. CASE i < j BY <1>2, <1>4, <1>5
<1>6. CASE j < i BY <1>2, <1>4, <1>6
<1>7. CASE i = j BY <1>4, <1>7
<1> QED BY <1>5, <1>6, <1>7

\* What build_image has written where.
LEMMA ToolSectors ==
  ASSUME NEW format, NEW parts, AskedFor(format, parts), NEW i, i = BuildImage(format, parts),
         NEW plan, plan = Planned(format, parts), NEW primary, primary = PrimaryCount(format, Len(plan))
  PROVE  /\ i.plan = plan /\ i.format = format /\ i.size = Behind(plan[Len(plan)])
         /\ 0 \in DOMAIN i.sectors /\ i.sectors[0] = RootSector(format, plan)
         /\ \A k \in 1 .. Len(plan) :
              /\ plan[k].start \in DOMAIN i.sectors
              /\ i.sectors[plan[k].start] = BootSector(format, plan[k])
              /\ k > primary => /\ plan[k].desc \in DOMAIN i.sectors
                                /\ i.sectors[plan[k].desc] = Descriptor(format, plan, k)
<1> DEFINE n       == Len(plan)
           logical == primary + 1 .. n
           At(lbn) ==
             IF lbn = 0 THEN RootSector(format, plan)
             ELSE IF \E k \in 1 .. n : plan[k].start = lbn
             THEN BootSector(format, plan[CHOOSE k \in 1 .. n : plan[k].start = lbn])
             ELSE IF \E k \in logical : plan[k].desc = lbn
             THEN Descriptor(format, plan, CHOOSE k \in logical : plan[k].desc = lbn)
             ELSE TosSector(format, plan[CHOOSE k \in 1 .. n : plan[k].start + 1 = lbn])
           written == {0} \cup {plan[k].start : k \in 1 .. n} \cup {plan[k].desc : k \in logical}
                      \cup (IF format = "AHDI" THEN {} ELSE {plan[k].start + 1 : k \in 1 .. n})
<1>1. /\ i.plan = plan /\ i.format = format /\ i.size = Behind(plan[n])
      /\ i.sectors = [lbn \in written |-> At(lbn)]
  BY DEF BuildImage
<1>2. WellPlaced(plan, primary)
  <2>1. Len(plan) = Len(parts) BY PlanPlaced
  <2> QED BY <2>1, PlanPlaced
<1>3. /\ n \in Nat /\ primary \in Nat
      /\ \A k \in 1 .. n : plan[k].start # 0 /\ (k > primary => plan[k].desc # 0)
  BY <1>2, ScanAssumption DEF WellPlaced
<1>4. ASSUME NEW k \in 1 .. n
      PROVE  plan[k].start \in written /\ At(plan[k].start) = BootSector(format, plan[k])
  <2>1. plan[k].start # 0 BY <1>3
  <2>2. k = CHOOSE l \in 1 .. n : plan[l].start = plan[k].start BY <1>2, Apart
  <2> QED BY <2>1, <2>2
<1>5. ASSUME NEW k \in 1 .. n, k > primary
      PROVE  plan[k].desc \in written /\ At(plan[k].desc) = Descriptor(format, plan, k)
  <2>1. k \in logical /\ logical \subseteq 1 .. n BY <1>3, <1>5
  <2>2. plan[k].desc # 0 BY <1>3, <1>5
  <2>3. ~ \E l \in 1 .. n : plan[l].start = plan[k].desc BY <1>2, <1>5, Apart
  <2>4. k = CHOOSE l \in logical : plan[l].desc = plan[k].desc BY <1>2, <2>1, Apart
  <2> QED BY <2>1, <2>2, <2>3, <2>4
<1>6. 0 \in written /\ At(0) = RootSector(format, plan) OBVIOUS
<1> HIDE DEF written, At
<1> QED BY <1>1, <1>4, <1>5, <1>6

\* A part that is served, as the emulation sees its boot sector.
Sound(format, part) ==
  /\ part.size \in Nat /\ part.slack \in Nat /\ part.slack <= part.size
  /\ \E k \in 1 .. 32 : part.bps = k * SectorSize
  /\ Clusters(BootSector(format, part).boot) \in MinClusters .. MaxClusters - 1
  /\ FitsBpb(BootSector(format, part).boot)

Primary == PrimaryCount(img.format, Len(img.plan))

\* What the scan meets on an image of the tool.
LEMMA ToolImage ==
  ASSUME ScanInv, IsPlanned
  PROVE  /\ img.format \in Formats /\ WellPlaced(img.plan, Primary)
         /\ img.size = Behind(img.plan[Len(img.plan)]) /\ img.size <= MaxLba
         /\ Sector(0) = RootSector(img.format, img.plan)
         /\ \A k \in 1 .. Len(img.plan) :
              /\ Sector(img.plan[k].start) = BootSector(img.format, img.plan[k])
              /\ k > Primary => Sector(img.plan[k].desc) = Descriptor(img.format, img.plan, k)
              /\ Sound(img.format, img.plan[k])
<1>1. PICK format, parts : AskedFor(format, parts) /\ img = BuildImage(format, parts)
  BY ImageIsBuilt
<1> DEFINE plan    == Planned(format, parts)
           primary == PrimaryCount(format, Len(parts))
<1>2. /\ WellPlaced(plan, primary) /\ Len(plan) = Len(parts)
      /\ \A k \in 1 .. Len(plan) :
           plan[k].size = parts[k].size /\ plan[k].bps = parts[k].bps /\ plan[k].slack = parts[k].slack
  BY <1>1, PlanPlaced
<1>3. primary = PrimaryCount(format, Len(plan)) BY <1>2
<1> HIDE DEF plan, primary
<1>4. /\ img.plan = plan /\ img.format = format /\ img.size = Behind(plan[Len(plan)])
      /\ 0 \in DOMAIN img.sectors /\ img.sectors[0] = RootSector(format, plan)
      /\ \A k \in 1 .. Len(plan) :
           /\ plan[k].start \in DOMAIN img.sectors
           /\ img.sectors[plan[k].start] = BootSector(format, plan[k])
           /\ k > primary => /\ plan[k].desc \in DOMAIN img.sectors
                             /\ img.sectors[plan[k].desc] = Descriptor(format, plan, k)
  BY <1>1, <1>3, ToolSectors DEF plan
<1>5. Primary = primary BY <1>3, <1>4 DEF Primary
<1>6. img.size <= MaxLba BY <1>1, <1>4 DEF AskedFor, plan
<1>7. ASSUME NEW k \in 1 .. Len(plan) PROVE Sound(format, plan[k])
  <2>1. parts \in Seq(Parts) /\ k \in 1 .. Len(parts) BY <1>1, <1>2 DEF AskedFor
  <2>2. parts[k] \in Parts BY <2>1
  <2>3. \A part \in Parts : /\ part.size \in Nat /\ part.slack \in Nat
                            /\ part.bps \in {m * SectorSize : m \in 1 .. 32}
    BY Zenon DEF Parts
  <2>4. \E m \in 1 .. 32 : plan[k].bps = m * SectorSize BY <1>2, <2>2, <2>3
  <2>5. /\ parts[k].slack <= parts[k].size
        /\ Clusters(BootSector(format, parts[k]).boot) \in MinClusters .. MaxClusters - 1
        /\ FitsBpb(BootSector(format, parts[k]).boot)
    BY <1>1, <2>1 DEF AskedFor
  <2>6. BootSector(format, plan[k]) = BootSector(format, parts[k]) BY <1>2 DEF BootSector
  <2> QED BY <1>2, <2>2, <2>3, <2>4, <2>5, <2>6 DEF Sound
<1>8. format \in Formats BY <1>1 DEF AskedFor
<1>9. /\ Sector(0) = RootSector(format, plan)
      /\ \A k \in 1 .. Len(plan) :
           /\ Sector(plan[k].start) = BootSector(format, plan[k])
           /\ k > primary => Sector(plan[k].desc) = Descriptor(format, plan, k)
  BY <1>4 DEF Sector
<1> QED BY <1>2, <1>4, <1>5, <1>6, <1>7, <1>8, <1>9
-----------------------------------------------------------------------------
(* The walk over an image of the tool                                       *)

\* The table that the format of the image uses is being walked.
RightTable == table = IF img.format = "AHDI" THEN "ahdi" ELSE "mbr"

AsPartition(part) == [kind |-> "fat", first |-> part.start, count |-> part.size]

Chained == img.plan[Primary + 1].desc

\* Where the parts are, as numbers.
LEMMA Numbers ==
  ASSUME ScanInv, IsPlanned
  PROVE  /\ Len(img.plan) \in 1 .. MaxPartitions /\ Primary \in 1 .. 4 /\ Primary <= Len(img.plan)
         /\ Primary < Len(img.plan) => Primary <= 3
         /\ MaxPartitions \in Nat /\ MaxLba \in Nat /\ img.size \in Nat /\ img.size <= MaxLba
         /\ \A k \in 1 .. Len(img.plan) :
              /\ img.plan[k].start \in Nat \ {0} /\ img.plan[k].size \in Nat \ {0}
              /\ img.plan[k].desc = img.plan[k].start - 1
              /\ k > Primary => img.plan[k].desc \in Nat \ {0}
              /\ img.plan[k].start + img.plan[k].size <= img.size
<1>1. WellPlaced(img.plan, Primary) /\ img.size = Behind(img.plan[Len(img.plan)]) /\ img.size <= MaxLba
  BY ToolImage
<1>2. MaxPartitions \in Nat /\ MaxLba \in Nat /\ img.size \in Nat BY ScanAssumption, ReadTypes
<1> QED BY <1>1, <1>2 DEF WellPlaced, Behind

\* The root sector names the first parts, then the chain of the others.
LEMMA RootEntries4 ==
  ASSUME ScanInv, IsPlanned, RightTable, NEW s \in 1 .. 4
  PROVE  /\ s <= Primary => Parse(Table(0)[s], 0) = AsPartition(img.plan[s])
         /\ s = Primary + 1 /\ s <= Len(img.plan) =>
              Parse(Table(0)[s], 0).kind = "ext" /\ Parse(Table(0)[s], 0).first = Chained
         /\ s > Primary + 1 \/ s > Len(img.plan) => Parse(Table(0)[s], 0) = NoPartition
<1> DEFINE plan == img.plan
           e    == Table(0)[s]
           size == Behind(plan[Len(plan)]) - plan[Primary + 1].desc
<1>1. e = IF s <= Primary THEN Entry("fat", plan[s].start, plan[s].size)
          ELSE IF s = Primary + 1 /\ s <= Len(plan) THEN Entry("ext", plan[Primary + 1].desc, size)
          ELSE NoEntry
  <2>1. Table(0) = RootTable(img.format, plan)
    <3>1. Sector(0) = RootSector(img.format, plan) BY ToolImage
    <3>2. CASE img.format = "AHDI" BY <3>1, <3>2 DEF Table, RightTable, RootSector, Blank
    <3>3. CASE img.format # "AHDI" BY <3>1, <3>3 DEF Table, RightTable, RootSector, Blank
    <3> QED BY <3>2, <3>3
  <2> QED BY <2>1 DEF RootTable, Primary
<1>2. /\ Len(plan) \in Nat /\ Primary \in 1 .. 4 /\ Primary <= Len(plan) /\ MaxLba \in Nat
      /\ \A k \in 1 .. Len(plan) :
           /\ plan[k].start \in Nat \ {0} /\ plan[k].size \in Nat \ {0} /\ plan[k].desc = plan[k].start - 1
           /\ plan[k].start + plan[k].size <= MaxLba
           /\ plan[k].start + plan[k].size <= Behind(plan[Len(plan)])
           /\ Behind(plan[Len(plan)]) \in Nat
  BY Numbers, ToolImage
<1> HIDE DEF plan, e
<1>3. ASSUME s <= Primary PROVE Parse(e, 0) = AsPartition(plan[s])
  <2>1. /\ e.kind = "fat" /\ e.start = plan[s].start /\ e.count = plan[s].size
    BY <1>1, <1>3 DEF Entry
  <2>2. s \in 1 .. Len(plan) BY <1>2, <1>3
  <2>3. /\ plan[s].start \in Nat /\ plan[s].size \in Nat \ {0} /\ MaxLba \in Nat
        /\ plan[s].start + plan[s].size <= MaxLba
    BY <1>2, <2>2
  <2>4. 0 + e.start = plan[s].start /\ ~(0 + e.start > MaxLba) /\ e.count # 0 BY <2>1, <2>3
  <2> QED BY <2>1, <2>4 DEF Parse, AsPartition
<1>4. ASSUME s = Primary + 1, s <= Len(plan)
      PROVE  Parse(e, 0).kind = "ext" /\ Parse(e, 0).first = plan[Primary + 1].desc
  <2>1. e.kind = "ext" /\ e.start = plan[s].desc /\ e.count = size
    BY <1>1, <1>2, <1>4 DEF Entry
  <2>2. s \in 1 .. Len(plan) BY <1>2, <1>4
  <2>3. /\ plan[s].start \in Nat \ {0} /\ plan[s].size \in Nat \ {0} /\ MaxLba \in Nat
        /\ plan[s].desc = plan[s].start - 1
        /\ plan[s].start + plan[s].size <= MaxLba
        /\ plan[s].start + plan[s].size <= Behind(plan[Len(plan)])
        /\ Behind(plan[Len(plan)]) \in Nat
    BY <1>2, <2>2
  <2> DEFINE end == Behind(plan[Len(plan)])
             d   == plan[s].desc
  <2>4. e.count = end - d /\ e.start = d BY <1>4, <2>1
  <2>5. d \in Nat /\ d < end /\ d < MaxLba /\ end \in Nat BY <2>3
  <2>6. 0 + e.start = d /\ ~(0 + e.start > MaxLba) /\ e.count # 0
    <3> HIDE DEF d, end
    <3> QED BY <2>3, <2>4, <2>5
  <2> QED BY <1>4, <2>1, <2>6 DEF Parse
<1>5. ASSUME s > Primary + 1 \/ s > Len(plan) PROVE Parse(e, 0) = NoPartition
  <2>1. e.kind = "none" BY <1>1, <1>2, <1>5 DEF NoEntry
  <2> QED BY <2>1 DEF Parse
<1> QED BY <1>3, <1>4, <1>5 DEF e, plan, Chained

\* Descriptor k of the chain names part k, and the descriptor after it.
LEMMA ChainEntries ==
  ASSUME ScanInv, IsPlanned, RightTable, NEW k \in 1 .. Len(img.plan), k > Primary
  PROVE  LET d == img.plan[k].desc
         IN /\ Parse(Table(d)[1], d) = AsPartition(img.plan[k])
            /\ k = Len(img.plan) => Parse(Table(d)[2], Chained) = NoPartition
            /\ k < Len(img.plan) =>
                 Parse(Table(d)[2], Chained) = [kind |-> "ext", first |-> img.plan[k + 1].desc,
                                                count |-> img.plan[k + 1].size + 1]
            /\ table = "mbr" => Sector(d).sig
<1> DEFINE plan == img.plan
           d    == plan[k].desc
           c    == plan[Primary + 1].desc
<1>1. /\ Table(d)[1] = Entry("fat", plan[k].start - d, plan[k].size)
      /\ Table(d)[2] = IF k = Len(plan) THEN NoEntry
                       ELSE Entry("ext", plan[k + 1].desc - c, plan[k + 1].size + 1)
      /\ table = "mbr" => Sector(d).sig
  <2>1. Sector(d) = Descriptor(img.format, plan, k) BY ToolImage
  <2> DEFINE t == [NoTable EXCEPT
                     ![1] = Entry("fat", plan[k].start - plan[k].desc, plan[k].size),
                     ![2] = IF k = Len(plan) THEN NoEntry
                            ELSE Entry("ext", plan[k + 1].desc - c, plan[k + 1].size + 1)]
  <2>2. Descriptor(img.format, plan, k) = IF img.format = "AHDI" THEN [Blank EXCEPT !.ahdi = t]
                                          ELSE [Blank EXCEPT !.sig = TRUE, !.mbr = t]
    BY DEF Descriptor, Primary
  <2>3. /\ t[1] = Entry("fat", plan[k].start - d, plan[k].size)
        /\ t[2] = IF k = Len(plan) THEN NoEntry
                  ELSE Entry("ext", plan[k + 1].desc - c, plan[k + 1].size + 1)
    BY DEF NoTable
  <2> HIDE DEF t
  <2>4. Table(d) = t /\ (table = "mbr" => Sector(d).sig)
    <3>1. CASE img.format = "AHDI" BY <2>1, <2>2, <3>1 DEF Table, RightTable, Blank
    <3>2. CASE img.format # "AHDI" BY <2>1, <2>2, <3>2 DEF Table, RightTable, Blank
    <3> QED BY <3>1, <3>2
  <2> QED BY <2>3, <2>4
<1>2. /\ Len(plan) \in Nat /\ Primary \in Nat /\ MaxLba \in Nat /\ Primary + 1 \in 1 .. Len(plan)
      /\ \A j \in 1 .. Len(plan) :
           /\ plan[j].start \in Nat \ {0} /\ plan[j].size \in Nat \ {0} /\ plan[j].desc = plan[j].start - 1
           /\ plan[j].start + plan[j].size <= MaxLba
  BY Numbers
<1>3. c \in Nat BY <1>2
<1> HIDE DEF plan, c
<1>4. Parse(Table(d)[1], d) = AsPartition(plan[k])
  <2> DEFINE e == Table(d)[1]
  <2>1. e.kind = "fat" /\ e.start = plan[k].start - d /\ e.count = plan[k].size BY <1>1 DEF Entry
  <2>2. /\ plan[k].start \in Nat \ {0} /\ plan[k].size \in Nat \ {0} /\ d = plan[k].start - 1
        /\ plan[k].start + plan[k].size <= MaxLba /\ MaxLba \in Nat
    BY <1>2 DEF plan
  <2> HIDE DEF d, e
  <2>3. d + e.start = plan[k].start /\ ~(d + e.start > MaxLba) /\ e.count # 0 BY <2>1, <2>2
  <2>4. Parse(e, d) = AsPartition(plan[k]) BY <2>1, <2>3 DEF Parse, AsPartition
  <2> QED BY <2>4 DEF e
<1>5. ASSUME k = Len(plan) PROVE Parse(Table(d)[2], c) = NoPartition
  <2>1. Table(d)[2].kind = "none" BY <1>1, <1>5 DEF NoEntry
  <2> QED BY <2>1 DEF Parse
<1>6. ASSUME k < Len(plan)
      PROVE  Parse(Table(d)[2], c) = [kind |-> "ext", first |-> plan[k + 1].desc,
                                      count |-> plan[k + 1].size + 1]
  <2> DEFINE e == Table(d)[2]
  <2>1. /\ e.kind = "ext" /\ e.start = plan[k + 1].desc - c /\ e.count = plan[k + 1].size + 1
    BY <1>1, <1>6 DEF Entry
  <2>2. k + 1 \in 1 .. Len(plan) BY <1>2, <1>6 DEF plan
  <2>3. /\ plan[k + 1].start \in Nat \ {0} /\ plan[k + 1].size \in Nat \ {0}
        /\ plan[k + 1].desc = plan[k + 1].start - 1
        /\ plan[k + 1].start + plan[k + 1].size <= MaxLba /\ MaxLba \in Nat
    BY <1>2, <2>2
  <2> HIDE DEF d, e
  <2>4. c + e.start = plan[k + 1].desc /\ ~(c + e.start > MaxLba) /\ e.count # 0
    BY <1>3, <2>1, <2>3
  <2>5. Parse(e, c) = [kind |-> e.kind, first |-> c + e.start, count |-> e.count]
    BY <2>1, <2>4 DEF Parse
  <2>6. Parse(e, c) = [kind |-> "ext", first |-> plan[k + 1].desc, count |-> plan[k + 1].size + 1]
    BY <2>1, <2>4, <2>5
  <2> QED BY <2>6 DEF e
<1> QED BY <1>1, <1>4, <1>5, <1>6 DEF plan, d, c, Chained

\* The first k parts were found.
Found(k) == Len(partitions) = k /\ \A i \in 1 .. k : partitions[i] = AsPartition(img.plan[i])

\* Where the walk is on the plan.
OnThePlan ==
  /\ step = "open" => table = "mbr" /\ Found(0)
  /\ step = "root" => (table = "mbr" \/ RightTable) /\ Found(0)
  /\ step = "slot" => RightTable /\ Found(IF slot <= Primary + 1 THEN slot - 1 ELSE Len(img.plan))
  /\ step = "chain" =>
       /\ RightTable /\ slot = Primary + 1 /\ base = Chained
       /\ links < Len(img.plan) - Primary /\ lba = img.plan[Primary + 1 + links].desc
       /\ Found(Primary + links)
  /\ step \in {"announce", "done", "published"} => Found(Len(img.plan))

\* The parts before part k have their drives.
Given(k) ==
  /\ DOMAIN volumes = {Letter(i) : i \in {j \in Served : j < k}}
  /\ \A i \in Served : i < k => Letter(i) <= LastDrive /\ volumes[Letter(i)].part = i

LettersOnThePlan ==
  /\ step \in {"open", "root", "slot", "chain"} => volumes = <<>>
  /\ step = "announce" => drive = Letter(index) /\ Given(index)
  /\ step \in {"done", "published"} =>
       \E k \in 1 .. Len(img.plan) + 1 : Given(k) /\ (k = Len(img.plan) + 1 \/ Letter(k) > LastDrive)

PlanInv ==
  /\ step = "open" => ~misread
  /\ ~misread /\ IsPlanned => OnThePlan /\ LettersOnThePlan

\* A part takes a letter when it can be served.
LEMMA Letters ==
  ASSUME ScanInv, IsPlanned
  PROVE  /\ Letter(1) = first
         /\ \A k \in 1 .. Len(img.plan) :
              Letter(k + 1) = IF k \in Served THEN Letter(k) + 1 ELSE Letter(k)
         /\ \A k \in 1 .. Len(img.plan) + 1 : Letter(k) \in Nat
         /\ \A j, k \in 1 .. Len(img.plan) + 1 : j <= k => Letter(j) <= Letter(k)
         /\ \A j, k \in 1 .. Len(img.plan) + 1 : j < k /\ j \in Served => Letter(j) < Letter(k)
<1> DEFINE N == Len(img.plan)
           S == Served
           B(k) == {j \in S : j < k}
<1>1. N \in Nat /\ first \in Nat BY Numbers DEF ScanInv, ScanTypes
<1>2. S \subseteq 1 .. N BY DEF Served
<1>3. IsFiniteSet(1 .. N) BY <1>1, FS_Interval
<1>4. \A k : Letter(k) = first + Cardinality(B(k)) BY DEF Letter
<1> HIDE DEF N, S
<1>5. ASSUME NEW k PROVE IsFiniteSet(B(k)) /\ Cardinality(B(k)) \in Nat
  <2>1. B(k) \subseteq 1 .. N BY <1>2
  <2> QED BY <1>3, <2>1, FS_Subset, FS_CardinalityType
<1>6. Letter(1) = first
  <2>1. \A j \in 1 .. N : ~(j < 1) BY <1>1
  <2>2. B(1) = {} BY <1>2, <2>1, Zenon
  <2> HIDE DEF B
  <2> QED BY <1>1, <1>4, <2>2, FS_EmptySet
<1>7. ASSUME NEW k \in 1 .. N
      PROVE  Letter(k + 1) = IF k \in S THEN Letter(k) + 1 ELSE Letter(k)
  <2>1. \A j \in 1 .. N : j < k + 1 <=> j < k \/ j = k BY <1>1
  <2>2. ~(k < k) BY <1>1
  <2>3. CASE k \in S
    <3>1. B(k + 1) = B(k) \cup {k} /\ k \notin B(k) BY <1>2, <2>1, <2>2, <2>3, Zenon
    <3>2. IsFiniteSet(B(k)) /\ Cardinality(B(k)) \in Nat BY <1>5
    <3> HIDE DEF B
    <3>3. Cardinality(B(k + 1)) = Cardinality(B(k)) + 1 BY <3>1, <3>2, FS_AddElement
    <3> QED BY <1>1, <1>4, <2>3, <3>2, <3>3
  <2>4. CASE k \notin S
    <3>1. B(k + 1) = B(k) BY <1>2, <2>1, <2>4, Zenon
    <3> QED BY <1>4, <2>4, <3>1
  <2> QED BY <2>3, <2>4
<1>8. \A k : Letter(k) \in Nat
  <2> HIDE DEF B
  <2> QED BY <1>1, <1>4, <1>5
<1>9. ASSUME NEW j \in 1 .. N + 1, NEW k \in 1 .. N + 1, j <= k PROVE Letter(j) <= Letter(k)
  <2>1. \A i \in 1 .. N : i < j => i < k BY <1>1, <1>9
  <2>2. B(j) \subseteq B(k) BY <1>2, <2>1, Zenon
  <2>3. IsFiniteSet(B(k)) /\ Cardinality(B(k)) \in Nat /\ Cardinality(B(j)) \in Nat BY <1>5
  <2> HIDE DEF B
  <2>4. Cardinality(B(j)) <= Cardinality(B(k)) BY <2>2, <2>3, FS_Subset
  <2> QED BY <1>1, <1>4, <2>3, <2>4
<1>10. ASSUME NEW j \in 1 .. N + 1, NEW k \in 1 .. N + 1, j < k, j \in S
       PROVE  Letter(j) < Letter(k)
  <2>1. j \in 1 .. N /\ j + 1 \in 1 .. N + 1 /\ j + 1 <= k BY <1>1, <1>2, <1>10
  <2>2. Letter(j + 1) = Letter(j) + 1 BY <1>7, <1>10, <2>1
  <2>3. Letter(j + 1) <= Letter(k) BY <1>9, <2>1
  <2>4. Letter(j + 1) \in Nat /\ Letter(j) \in Nat /\ Letter(k) \in Nat BY <1>8
  <2> QED BY <2>2, <2>3, <2>4
<1> QED BY <1>6, <1>7, <1>8, <1>9, <1>10 DEF N, S

LEMMA Quotient == \A k \in 1 .. 32, s \in Nat \ {0} : (k * s) \div s = k
OBVIOUS

\* The partition of a part that can be served is taken for the FAT16
\* file system it is, and the others are not.
LEMMA PartIsFat16 ==
  ASSUME ScanInv, IsPlanned, NEW k \in 1 .. Len(img.plan),
         NEW p, p = AsPartition(img.plan[k])
  PROVE  IF k \in Served THEN IsFat16(p, Boot(p.first)) /\ FitsBpb(Boot(p.first))
         ELSE ~IsFat16(p, Boot(p.first))
<1> DEFINE part  == img.plan[k]
           b     == Boot(p.first)
           ratio == part.bps \div SectorSize
           whole == part.size - part.slack
<1>1. p.kind = "fat" /\ p.first = part.start /\ p.count = part.size BY DEF AsPartition
<1>2. /\ part.size \in Nat /\ part.slack \in Nat /\ part.slack <= part.size
      /\ Clusters(b) \in MinClusters .. MaxClusters - 1 /\ FitsBpb(b)
      /\ Sector(p.first) = BootSector(img.format, part) /\ b = BootSector(img.format, part).boot
  <2>1. Sector(p.first) = BootSector(img.format, part) BY <1>1, ToolImage
  <2>2. Sound(img.format, part) BY ToolImage
  <2>3. b = BootSector(img.format, part).boot BY <2>1 DEF Boot
  <2> QED BY <2>1, <2>2, <2>3 DEF Sound
<1>3. PICK m \in 1 .. 32 : part.bps = m * SectorSize
  <2>1. Sound(img.format, part) BY ToolImage
  <2> QED BY <2>1 DEF Sound
<1>4. SectorSize \in Nat \ {0} /\ ratio = m
  <2>1. SectorSize \in Nat \ {0} BY ImageAssumption
  <2> QED BY <1>3, <2>1, Quotient
<1>5. b = IF img.format = "AHDI"
          THEN [bps |-> part.bps, spc |-> 2, res |-> 1, fats |-> 2, roots |-> RootEntries,
                total |-> whole \div ratio, spf |-> FatSectors, cyl |-> 1, ppg |-> FALSE]
          ELSE [bps |-> SectorSize, spc |-> 2 * ratio, res |-> ratio + 1, fats |-> 2,
                roots |-> RootEntries, total |-> whole, spf |-> ratio * FatSectors,
                cyl |-> 1, ppg |-> img.format = "PPDRIVER"]
  BY <1>2 DEF BootSector, Blank
<1>6. Sector(p.first).sig BY <1>2 DEF BootSector, Blank
<1>7. whole \in Nat /\ whole <= part.size BY <1>2
<1> HIDE DEF part, b, ratio, whole
<1>8. /\ b.bps = IF img.format = "AHDI" THEN part.bps ELSE SectorSize
      /\ b.fats = 2 /\ b.roots # 0 /\ b.spc # 0 /\ b.res # 0 /\ b.spf # 0
  <2>1. RootEntries # 0 /\ FatSectors \in Nat \ {0} BY ImageAssumption
  <2>2. 2 * m # 0 /\ m + 1 # 0 /\ m * FatSectors # 0 BY <2>1
  <2> QED BY <1>4, <1>5, <2>1, <2>2
<1>9. b \in Boots BY BootType DEF b
<1>10. b.bps # 0
  <2>1. m * SectorSize # 0 BY <1>4
  <2> QED BY <1>3, <1>4, <1>8, <2>1
<1>11. b.total > NonData(b) /\ b.total # 0
  <2>1. Clusters(b) \in Nat \ {0} BY <1>2, ScanAssumption
  <2>2. NonData(b) + Clusters(b) * b.spc <= b.total /\ NonData(b) \in Nat
    BY <1>8, <1>9, <1>10, <2>1, ClustersInside
  <2>3. b.spc \in Nat \ {0} /\ b.total \in Nat BY <1>8, <1>9 DEF Boots
  <2>4. Clusters(b) * b.spc \in Nat \ {0} BY <2>1, <2>3
  <2> QED BY <2>2, <2>3, <2>4
<1>12. b.total * Ratio(b.bps) <= p.count
  <2>1. CASE img.format = "AHDI"
    <3>1. b.total = whole \div m /\ Ratio(b.bps) = m BY <1>4, <1>5, <2>1 DEF Ratio, ratio
    <3>2. (whole \div m) * m <= whole BY <1>7, WholeClusters
    <3>3. b.total * Ratio(b.bps) <= whole BY <3>1, <3>2
    <3>4. b.total * Ratio(b.bps) \in Int
      <4>1. b.total \in Nat BY <1>9 DEF Boots
      <4> QED BY <3>1, <4>1
    <3> QED BY <1>1, <1>2, <1>7, <3>3, <3>4 DEF part
  <2>2. CASE img.format # "AHDI"
    <3>1. Ratio(SectorSize) = 1
      <4>1. (1 * SectorSize) \div SectorSize = 1 BY <1>4, Quotient
      <4> QED BY <1>4, <4>1 DEF Ratio
    <3>2. b.total = whole /\ Ratio(b.bps) = 1 BY <1>5, <1>8, <2>2, <3>1
    <3> QED BY <1>1, <1>7, <3>2 DEF part
  <2> QED BY <2>1, <2>2
<1>13. p.first < img.size
  <2>1. /\ part.start \in Nat /\ part.size \in Nat \ {0} /\ part.start + part.size <= img.size
        /\ img.size \in Nat
    BY Numbers DEF part
  <2> QED BY <1>1, <2>1 DEF part
<1>14. k \in Served <=> b.bps \in LogicalSizes
  <2>1. SectorSize \in LogicalSizes BY ScanAssumption
  <2> QED BY <1>8, <2>1 DEF Served, part
<1>15. CASE k \in Served
  <2>1. 0 \notin {b.spc, b.res, b.fats, b.roots, b.total, b.spf} BY <1>8, <1>11
  <2>2. Clusters(b) >= MinClusters /\ Clusters(b) < MaxClusters BY <1>2, ScanAssumption DEF b, part
  <2>3. IsFat16(p, b)
    BY <1>1, <1>6, <1>11, <1>12, <1>13, <1>14, <1>15, <2>1, <2>2, Zenon DEF IsFat16
  <2> QED BY <1>2, <1>15, <2>3 DEF b
<1>16. CASE k \notin Served BY <1>14, <1>16 DEF IsFat16, b
<1> QED BY <1>15, <1>16

\* The plan and the letters of its parts do not change.
LEMMA PlanStays ==
  ASSUME UNCHANGED <<img, first>>
  PROVE  /\ (IsPlanned' <=> IsPlanned) /\ Primary' = Primary /\ Chained' = Chained
         /\ Served' = Served /\ \A k : Letter(k)' = Letter(k)
         /\ table' = table => (RightTable' <=> RightTable)
         /\ partitions' = partitions => \A k : Found(k)' <=> Found(k)
         /\ volumes' = volumes => \A k : Given(k)' <=> Given(k)
<1>1. Primary' = Primary BY DEF Primary
<1>2. Chained' = Chained BY <1>1 DEF Chained
<1>3. Served' = Served BY DEF Served
<1>4. \A k : Letter(k)' = Letter(k) BY <1>3 DEF Letter
<1>5. table' = table => (RightTable' <=> RightTable) BY DEF RightTable
<1>6. partitions' = partitions => \A k : Found(k)' <=> Found(k) BY DEF Found
<1>7. volumes' = volumes => \A k : Given(k)' <=> Given(k) BY <1>3, <1>4 DEF Given
<1>8. IsPlanned' <=> IsPlanned BY DEF IsPlanned
<1> QED BY <1>1, <1>2, <1>3, <1>4, <1>5, <1>6, <1>7, <1>8

\* One more part was found.
LEMMA FoundNext ==
  ASSUME ScanInv, NEW k \in 1 .. Len(img.plan), Found(k - 1), img' = img,
         partitions' = Append(partitions, AsPartition(img.plan[k]))
  PROVE  Found(k)'
<1>1. partitions \in Seq(Partitions) /\ Len(partitions) = k - 1 /\ k \in Nat
  BY DEF ScanInv, ScanTypes, Found
<1>2. /\ Len(partitions') = k /\ partitions'[k] = AsPartition(img.plan[k])
      /\ \A i \in 1 .. k - 1 : partitions'[i] = partitions[i]
  BY <1>1
<1>3. \A i \in 1 .. k : i = k \/ i \in 1 .. k - 1 BY <1>1
<1>4. \A i \in 1 .. k : partitions'[i] = AsPartition(img.plan[i]) BY <1>2, <1>3 DEF Found
<1> QED BY <1>2, <1>4 DEF Found, AsPartition
-----------------------------------------------------------------------------
(* The steps of the walk                                                    *)

\* The open and the root sector: the table of the image's format is taken.
LEMMA RootOnThePlan ==
  ASSUME ScanInv, IsPlanned, ~misread, ~misread', OnThePlan, LettersOnThePlan, UNCHANGED <<img, first>>,
         NEW ok, Open(ok) \/ ReadRoot(ok)
  PROVE  OnThePlan' /\ LettersOnThePlan'
<1>1. ok /\ partitions' = partitions /\ volumes' = volumes
  BY DEF Open, ReadRoot, walk, announce, Reject, ScanInv, ScanTypes
<1>2. Found(0) /\ volumes = <<>> BY DEF Open, ReadRoot, OnThePlan, LettersOnThePlan
<1>3. Found(0)' BY <1>1, <1>2, PlanStays
<1>4. Sector(0).sig <=> img.format # "AHDI"
  <2>1. Sector(0) = RootSector(img.format, img.plan) BY ToolImage
  <2> QED BY <2>1 DEF RootSector, Blank
<1>5. CASE Open(ok)
  <2>1. step' = "root" /\ table' = "mbr" BY <1>1, <1>5 DEF Open, walk, OnThePlan
  <2> QED BY <1>1, <1>2, <1>3, <2>1 DEF OnThePlan, LettersOnThePlan
<1>6. CASE ReadRoot(ok)
  <2>1. table = "mbr" \/ RightTable BY <1>6 DEF ReadRoot, OnThePlan
  <2>2. CASE step' = "slot" /\ slot' = 1 /\ table' = table /\ (table = "mbr" => Sector(0).sig)
    <3>1. RightTable BY <1>4, <2>1, <2>2 DEF RightTable
    <3>2. RightTable' BY <2>2, <3>1, PlanStays
    <3>3. slot' <= Primary' + 1 /\ slot' - 1 = 0
      <4>1. Primary \in 1 .. 4 BY Numbers
      <4> QED BY <2>2, <4>1, PlanStays
    <3> QED BY <1>1, <1>2, <1>3, <2>2, <3>2, <3>3 DEF OnThePlan, LettersOnThePlan
  <2>3. CASE table = "mbr" /\ ~Sector(0).sig /\ table' = "ahdi" /\ step' = "root"
    <3>1. RightTable' BY <1>4, <2>3 DEF RightTable
    <3> QED BY <1>1, <1>2, <1>3, <2>3, <3>1 DEF OnThePlan, LettersOnThePlan
  <2> QED BY <1>1, <1>6, <2>2, <2>3 DEF ReadRoot
<1> QED BY <1>5, <1>6

\* A slot of the root sector.
LEMMA SlotIs ==
  ASSUME ScanInv, IsPlanned, OnThePlan, step = "slot", slot <= 4
  PROVE  /\ slot \in 1 .. 4 /\ RightTable
         /\ Root.kind = "fat" \/ Root.kind = "other" =>
              /\ slot <= Primary /\ slot \in 1 .. Len(img.plan)
              /\ Root = AsPartition(img.plan[slot]) /\ Found(slot - 1)
              /\ InImage(Root) /\ Len(partitions) < MaxPartitions
         /\ Root.kind = "ext" =>
              slot = Primary + 1 /\ slot <= Len(img.plan) /\ Root.first = Chained /\ Found(Primary)
         /\ Root = NoPartition => slot > Primary /\ Found(Len(img.plan))
<1>1. slot \in 1 .. 4 /\ RightTable /\ Found(IF slot <= Primary + 1 THEN slot - 1 ELSE Len(img.plan))
  BY DEF OnThePlan, ScanInv, OnItsWay
<1>2. /\ Len(img.plan) \in 1 .. MaxPartitions /\ Primary \in 1 .. 4 /\ Primary <= Len(img.plan)
      /\ MaxPartitions \in Nat /\ img.size \in Nat
  BY Numbers
<1>3. /\ slot <= Primary => Root = AsPartition(img.plan[slot])
      /\ slot = Primary + 1 /\ slot <= Len(img.plan) => Root.kind = "ext" /\ Root.first = Chained
      /\ slot > Primary + 1 \/ slot > Len(img.plan) => Root = NoPartition
  BY <1>1, RootEntries4 DEF Root
<1>4. NoPartition.kind = "none" BY DEF NoPartition
<1>5. AsPartition(img.plan[slot]).kind = "fat" BY DEF AsPartition
<1>6. slot <= Primary \/ slot = Primary + 1 \/ slot > Primary + 1 BY <1>1, <1>2
<1>7. CASE slot <= Primary
  <2>1. slot \in 1 .. Len(img.plan) /\ Found(slot - 1) /\ Root.kind = "fat"
    BY <1>1, <1>2, <1>3, <1>5, <1>7
  <2>2. Len(partitions) = slot - 1 BY <2>1 DEF Found
  <2>3. Len(partitions) < MaxPartitions BY <1>2, <2>1, <2>2
  <2>4. InImage(Root)
    <3>1. img.plan[slot].start + img.plan[slot].size <= img.size BY <2>1, Numbers
    <3> QED BY <1>3, <1>7, <3>1 DEF InImage, AsPartition
  <2> QED BY <1>1, <1>3, <1>4, <1>7, <2>1, <2>3, <2>4
<1>8. CASE slot = Primary + 1
  <2>1. Found(Primary) BY <1>1, <1>2, <1>8
  <2>2. CASE slot <= Len(img.plan) BY <1>1, <1>2, <1>3, <1>4, <1>8, <2>1, <2>2
  <2>3. CASE slot > Len(img.plan)
    <3>1. Primary = Len(img.plan) BY <1>2, <1>8, <2>3
    <3> QED BY <1>1, <1>2, <1>3, <1>4, <1>8, <2>1, <2>3, <3>1
  <2> QED BY <1>1, <1>2, <2>2, <2>3
<1>9. CASE slot > Primary + 1
  <2>1. Found(Len(img.plan)) /\ Root = NoPartition /\ slot > Primary BY <1>1, <1>2, <1>3, <1>9
  <2> QED BY <1>1, <1>4, <2>1
<1> QED BY <1>6, <1>7, <1>8, <1>9

LEMMA SlotOnThePlan ==
  ASSUME ScanInv, IsPlanned, OnThePlan, LettersOnThePlan, UNCHANGED <<img, first>>,
         SkipSlot \/ TakeSlot \/ BadSlot \/ EnterChain
  PROVE  OnThePlan' /\ LettersOnThePlan'
<1>1. step = "slot" /\ slot <= 4 /\ volumes = <<>>
  BY DEF SkipSlot, TakeSlot, BadSlot, EnterChain, LettersOnThePlan
<1>2. /\ Len(img.plan) \in Nat /\ Primary \in 1 .. 4 /\ Primary <= Len(img.plan) /\ slot \in 1 .. 4
      /\ RightTable
  BY <1>1, Numbers, SlotIs
<1>3. Primary' = Primary /\ Chained' = Chained BY PlanStays
<1>4. CASE SkipSlot
  <2>1. slot > Primary /\ Found(Len(img.plan)) BY <1>1, <1>4, SlotIs DEF SkipSlot
  <2>2. /\ step' = "slot" /\ slot' = slot + 1 /\ table' = table /\ partitions' = partitions
        /\ volumes' = volumes
    BY <1>1, <1>4 DEF SkipSlot, announce
  <2>3. RightTable' /\ Found(Len(img.plan))' /\ img'.plan = img.plan BY <1>2, <2>1, <2>2, PlanStays
  <2>4. ~(slot' <= Primary' + 1) BY <1>2, <1>3, <2>1, <2>2
  <2> QED BY <1>1, <2>2, <2>3, <2>4 DEF OnThePlan, LettersOnThePlan
<1>5. CASE TakeSlot
  <2>1. PICK k \in 1 .. Len(img.plan) :
          k = slot /\ k <= Primary /\ Root = AsPartition(img.plan[k]) /\ Found(k - 1)
    BY <1>1, <1>5, SlotIs DEF TakeSlot
  <2>2. /\ step' = "slot" /\ slot' = k + 1 /\ table' = table /\ volumes' = volumes
        /\ partitions' = Append(partitions, AsPartition(img.plan[k]))
    BY <1>1, <1>5, <2>1 DEF TakeSlot, announce
  <2>3. RightTable' BY <1>2, <2>2, PlanStays
  <2>4. Found(k)' BY <2>1, <2>2, FoundNext
  <2>5. slot' <= Primary' + 1 /\ slot' - 1 = k BY <1>2, <1>3, <2>1, <2>2
  <2> QED BY <1>1, <2>2, <2>3, <2>4, <2>5 DEF OnThePlan, LettersOnThePlan, Found
<1>6. CASE BadSlot BY <1>1, <1>6, SlotIs DEF BadSlot
<1>7. CASE EnterChain
  <2>1. slot = Primary + 1 /\ slot <= Len(img.plan) /\ Root.first = Chained /\ Found(Primary)
    BY <1>1, <1>7, SlotIs DEF EnterChain
  <2>2. /\ step' = "chain" /\ slot' = slot /\ base' = Chained /\ lba' = Chained /\ links' = 0
        /\ table' = table /\ partitions' = partitions /\ volumes' = volumes
    BY <1>7, <2>1 DEF EnterChain, announce
  <2>3. RightTable' /\ Found(Primary)' BY <1>2, <2>1, <2>2, PlanStays
  <2>4. /\ slot' = Primary' + 1 /\ base' = Chained' /\ links' < Len(img'.plan) - Primary'
        /\ Primary' + 1 + links' = Primary + 1 /\ Primary' + links' = Primary
    BY <1>2, <1>3, <2>1, <2>2
  <2>5. lba' = img'.plan[Primary' + 1 + links'].desc BY <2>2, <2>4 DEF Chained
  <2> QED BY <1>1, <2>2, <2>3, <2>4, <2>5 DEF OnThePlan, LettersOnThePlan, Found
<1> QED BY <1>4, <1>5, <1>6, <1>7

\* A descriptor of the chain: part k, and the link to the next one.
LEMMA ChainIs ==
  ASSUME ScanInv, IsPlanned, OnThePlan, step = "chain"
  PROVE  /\ GoodDescriptor /\ RightTable /\ slot = Primary + 1 /\ base = Chained
         /\ \E k \in 1 .. Len(img.plan) :
              /\ k = Primary + links + 1 /\ Found(k - 1)
              /\ Logical # NoPartition /\ Logical = AsPartition(img.plan[k])
              /\ k = Len(img.plan) => NextLink = NoPartition
              /\ k < Len(img.plan) => /\ NextLink # NoPartition /\ NextLink.first = img.plan[k + 1].desc
                                      /\ Counted(Logical) < MaxPartitions
<1>1. /\ RightTable /\ slot = Primary + 1 /\ base = Chained
      /\ links < Len(img.plan) - Primary /\ lba = img.plan[Primary + 1 + links].desc
      /\ Found(Primary + links)
  BY DEF OnThePlan
<1>2. /\ Len(img.plan) \in 1 .. MaxPartitions /\ Primary \in 1 .. 4 /\ Primary <= Len(img.plan)
      /\ MaxPartitions \in Nat /\ img.size \in Nat /\ links \in Nat
  BY Numbers, ScanAssumption DEF ScanInv, ScanTypes
<1>3. PICK k \in 1 .. Len(img.plan) : k = Primary + links + 1 BY <1>1, <1>2
<1>4. /\ k > Primary /\ k - 1 = Primary + links /\ Primary + 1 + links = k
      /\ lba = img.plan[k].desc /\ Found(k - 1)
  BY <1>1, <1>2, <1>3
<1>5. /\ Logical = AsPartition(img.plan[k])
      /\ k = Len(img.plan) => NextLink = NoPartition
      /\ k < Len(img.plan) => NextLink = [kind |-> "ext", first |-> img.plan[k + 1].desc,
                                          count |-> img.plan[k + 1].size + 1]
      /\ table = "mbr" => Sector(lba).sig
  BY <1>1, <1>4, ChainEntries DEF Logical, NextLink
<1>6. Logical.kind = "fat" /\ NoPartition.kind = "none" BY <1>5 DEF AsPartition, NoPartition
<1>7. /\ img.plan[k].start \in Nat \ {0} /\ img.plan[k].size \in Nat \ {0}
      /\ img.plan[k].desc = img.plan[k].start - 1
      /\ img.plan[k].start + img.plan[k].size <= img.size
  BY Numbers
<1>8. lba < img.size BY <1>2, <1>4, <1>7
<1>9. InImage(Logical) BY <1>5, <1>7 DEF InImage, AsPartition
<1>10. Len(partitions) < MaxPartitions
  <2>1. Len(partitions) = k - 1 BY <1>4 DEF Found
  <2> QED BY <1>2, <2>1
<1>11. ASSUME k < Len(img.plan)
       PROVE  /\ NextLink # NoPartition /\ NextLink.first = img.plan[k + 1].desc
              /\ NextLink.kind = "ext" /\ InImage(NextLink) /\ NextLink.first # lba
              /\ Counted(Logical) < MaxPartitions
  <2>1. NextLink.kind = "ext" /\ NextLink.first = img.plan[k + 1].desc
        /\ NextLink.count = img.plan[k + 1].size + 1
    BY <1>5, <1>11
  <2>2. k + 1 \in 1 .. Len(img.plan) BY <1>2, <1>11
  <2>3. /\ img.plan[k + 1].start \in Nat \ {0} /\ img.plan[k + 1].size \in Nat \ {0}
        /\ img.plan[k + 1].desc = img.plan[k + 1].start - 1
        /\ img.plan[k + 1].start + img.plan[k + 1].size <= img.size
    BY <2>2, Numbers
  <2>4. InImage(NextLink)
    <3> DEFINE s == img.plan[k + 1].start
               c == img.plan[k + 1].size
    <3>1. s \in Nat /\ c \in Nat /\ NextLink.first = s - 1 /\ NextLink.count = c + 1 /\ s + c <= img.size
      BY <2>1, <2>3
    <3> HIDE DEF s, c
    <3>2. (s - 1) + (c + 1) = s + c BY <3>1
    <3> QED BY <3>1, <3>2 DEF InImage
  <2>5. NextLink.first # lba
    <3>1. WellPlaced(img.plan, Primary) BY ToolImage
    <3>2. k + 1 # k BY <1>2
    <3> QED BY <1>4, <2>1, <2>2, <3>1, <3>2, Apart
  <2>6. Counted(Logical) < MaxPartitions BY <1>2, <1>3, <1>11 DEF Counted
  <2> QED BY <1>6, <2>1, <2>4, <2>5, <2>6
<1>12. k = Len(img.plan) \/ k < Len(img.plan) BY <1>2
<1>13. GoodDescriptor
  BY <1>5, <1>6, <1>8, <1>9, <1>10, <1>11, <1>12 DEF GoodDescriptor
<1> QED BY <1>1, <1>3, <1>4, <1>5, <1>6, <1>11, <1>13

LEMMA ChainOnThePlan ==
  ASSUME ScanInv, IsPlanned, ~misread', OnThePlan, LettersOnThePlan, UNCHANGED <<img, first>>,
         FollowChain \/ BadChain
  PROVE  OnThePlan' /\ LettersOnThePlan'
<1>1. step = "chain" /\ volumes = <<>> BY DEF FollowChain, BadChain, LettersOnThePlan
<1>2. GoodDescriptor /\ RightTable /\ slot = Primary + 1 /\ base = Chained BY <1>1, ChainIs
<1>3. PICK k \in 1 .. Len(img.plan) :
        /\ k = Primary + links + 1 /\ Found(k - 1)
        /\ Logical # NoPartition /\ Logical = AsPartition(img.plan[k])
        /\ k = Len(img.plan) => NextLink = NoPartition
        /\ k < Len(img.plan) => /\ NextLink # NoPartition /\ NextLink.first = img.plan[k + 1].desc
                                /\ Counted(Logical) < MaxPartitions
  BY <1>1, ChainIs
<1>4. CASE BadChain BY <1>2, <1>4 DEF BadChain
<1>5. CASE FollowChain
  <2>1. /\ partitions' = Append(partitions, AsPartition(img.plan[k]))
        /\ table' = table /\ base' = base /\ volumes' = volumes
    BY <1>3, <1>5 DEF FollowChain, Taken, announce
  <2>2. Found(k)' BY <1>3, <2>1, FoundNext
  <2>3. RightTable' /\ Primary' = Primary /\ Chained' = Chained BY <1>2, <2>1, PlanStays
  <2>4. Len(img.plan) \in Nat /\ Primary \in 1 .. 4 /\ links \in Nat
    BY Numbers, ScanAssumption DEF ScanInv, ScanTypes
  <2>5. CASE k < Len(img.plan)
    <3>1. /\ step' = "chain" /\ slot' = slot /\ links' = links + 1
          /\ lba' = img.plan[k + 1].desc
      BY <1>3, <1>5, <2>5 DEF FollowChain, Counted
    <3>2. /\ slot' = Primary' + 1 /\ base' = Chained' /\ links' < Len(img'.plan) - Primary'
          /\ Primary' + 1 + links' = k + 1 /\ Primary' + links' = k
      BY <1>2, <1>3, <2>1, <2>3, <2>4, <2>5, <3>1
    <3>3. lba' = img'.plan[Primary' + 1 + links'].desc BY <3>1, <3>2
    <3> QED BY <1>1, <2>1, <2>2, <2>3, <3>1, <3>2, <3>3 DEF OnThePlan, LettersOnThePlan, Found
  <2>6. CASE k = Len(img.plan)
    <3>1. step' = "slot" /\ slot' = slot + 1 BY <1>3, <1>5, <2>6 DEF FollowChain
    <3>2. ~(slot' <= Primary' + 1) BY <1>2, <2>3, <2>4, <3>1
    <3> QED BY <1>1, <2>1, <2>2, <2>3, <2>6, <3>1, <3>2 DEF OnThePlan, LettersOnThePlan, Found
  <2> QED BY <2>4, <2>5, <2>6
<1> QED BY <1>4, <1>5

\* All parts are found: they are announced from the first letter on.
LEMMA DoneOnThePlan ==
  ASSUME ScanInv, IsPlanned, OnThePlan, LettersOnThePlan, UNCHANGED <<img, first>>, SlotsDone
  PROVE  OnThePlan' /\ LettersOnThePlan'
<1>1. step = "slot" /\ slot = 5 /\ volumes = <<>> BY DEF SlotsDone, LettersOnThePlan
<1>2. /\ Len(img.plan) \in Nat \ {0} /\ Primary \in 1 .. 4 /\ Primary <= Len(img.plan)
      /\ Primary < Len(img.plan) => Primary <= 3
  BY Numbers
<1>3. Found(Len(img.plan))
  <2>1. Found(IF slot <= Primary + 1 THEN slot - 1 ELSE Len(img.plan)) BY <1>1 DEF OnThePlan
  <2>2. CASE Primary = 4
    <3> DEFINE n == Len(img.plan)
    <3>1. n \in Nat /\ ~(4 < n) /\ 4 <= n BY <1>2, <2>2
    <3> HIDE DEF n
    <3>2. n = 4 BY <3>1
    <3> QED BY <1>1, <2>1, <2>2, <3>2 DEF n
  <2>3. CASE Primary # 4
    <3>1. ~(slot <= Primary + 1) BY <1>1, <1>2, <2>3
    <3> QED BY <2>1, <3>1
  <2> QED BY <2>2, <2>3
<1>4. partitions # <<>>
  <2>1. Len(partitions) # 0 BY <1>2, <1>3 DEF Found
  <2> QED BY <2>1
<1>5. /\ step' = "announce" /\ index' = 1 /\ drive' = first
      /\ partitions' = partitions /\ volumes' = volumes
  BY <1>4 DEF SlotsDone, walk
<1>6. Found(Len(img.plan))' BY <1>3, <1>5, PlanStays
<1>7. Letter(1) = first /\ Letter(1)' = Letter(1) BY Letters, PlanStays
<1>8. Given(1)
  <2>1. \A i \in Served : ~(i < 1) BY <1>2 DEF Served
  <2>2. DOMAIN volumes = {} BY <1>1
  <2> QED BY <2>1, <2>2, Zenon DEF Given
<1>9. Given(1)' BY <1>5, <1>8, PlanStays
<1> QED BY <1>5, <1>6, <1>7, <1>9 DEF OnThePlan, LettersOnThePlan
-----------------------------------------------------------------------------
(* The announcements                                                        *)

\* The drives with the letters before part k's, and part k's with its own.
LEMMA GivenNext ==
  ASSUME ScanInv, IsPlanned, NEW k \in 1 .. Len(img.plan), Given(k), UNCHANGED <<img, first>>
  PROVE  /\ k \notin Served /\ volumes' = volumes => Given(k + 1)'
         /\ \A v : /\ k \in Served /\ Letter(k) <= LastDrive /\ v.part = k
                   /\ volumes' = [d \in DOMAIN volumes \cup {Letter(k)} |->
                                    IF d = Letter(k) THEN v ELSE volumes[d]]
                   => Given(k + 1)'
<1>1. Served \subseteq 1 .. Len(img.plan) /\ Len(img.plan) \in Nat BY Numbers DEF Served
<1>2. \A i \in Served : (i < k + 1 <=> i < k \/ i = k) /\ ~(k < k) BY <1>1
<1>3. Served' = Served /\ \A i : Letter(i)' = Letter(i) BY PlanStays
<1>4. ASSUME k \notin Served, volumes' = volumes PROVE Given(k + 1)'
  <2>1. \A i \in Served : i < k + 1 <=> i < k BY <1>2, <1>4
  <2>2. {j \in Served : j < k + 1} = {j \in Served : j < k} BY <2>1, Zenon
  <2> QED BY <1>3, <1>4, <2>1, <2>2, Zenon DEF Given
<1>5. ASSUME NEW v, k \in Served, Letter(k) <= LastDrive, v.part = k,
             volumes' = [d \in DOMAIN volumes \cup {Letter(k)} |->
                           IF d = Letter(k) THEN v ELSE volumes[d]]
      PROVE  Given(k + 1)'
  <2>1. \A i \in Served : i < k => Letter(i) # Letter(k)
    <3>1. ASSUME NEW i \in Served, i < k PROVE Letter(i) # Letter(k)
      <4>1. i \in 1 .. Len(img.plan) + 1 /\ k \in 1 .. Len(img.plan) + 1 BY <1>1
      <4>2. Letter(i) < Letter(k) /\ Letter(i) \in Nat /\ Letter(k) \in Nat
        BY <3>1, <4>1, Letters
      <4> QED BY <4>2
    <3> QED BY <3>1
  <2>2. {j \in Served : j < k + 1} = {j \in Served : j < k} \cup {k} BY <1>2, <1>5, Zenon
  <2>3. DOMAIN volumes = {Letter(i) : i \in {j \in Served : j < k}} BY Zenon DEF Given
  <2>4. DOMAIN volumes' = {Letter(i) : i \in {j \in Served : j < k + 1}}
    <3>1. DOMAIN volumes' = DOMAIN volumes \cup {Letter(k)} BY <1>5
    <3> QED BY <2>2, <2>3, <3>1, Zenon
  <2>5. ASSUME NEW i \in Served, i < k + 1
        PROVE  Letter(i) <= LastDrive /\ volumes'[Letter(i)].part = i
    <3>1. CASE i = k BY <1>5, <3>1
    <3>2. CASE i < k
      <4>1. Letter(i) \in DOMAIN volumes BY <2>3, <3>2, Zenon
      <4>2. Letter(i) <= LastDrive /\ volumes[Letter(i)].part = i BY <3>2 DEF Given
      <4>3. volumes'[Letter(i)] = volumes[Letter(i)] BY <1>5, <2>1, <3>2, <4>1
      <4> QED BY <4>2, <4>3
    <3> QED BY <1>2, <2>5, <3>1, <3>2
  <2> QED BY <1>3, <2>4, <2>5, Zenon DEF Given
<1> QED BY <1>4, <1>5

LEMMA AnnounceOnThePlan ==
  ASSUME ScanInv, IsPlanned, ~misread', OnThePlan, LettersOnThePlan, UNCHANGED <<img, first>>,
         NEW p \in Upcoming, NEW dos, dos = Boot(p.first), NEW tos, tos = Boot(p.first + 1),
         Adds(p, dos, tos) \/ SkipPartition(p, dos, tos)
  PROVE  OnThePlan' /\ LettersOnThePlan'
<1>1. step = "announce" /\ index \in 1 .. Len(partitions) /\ p = partitions[index]
  BY UpcomingIs
<1>2. drive = Letter(index) /\ Given(index) /\ Found(Len(img.plan))
  BY <1>1 DEF OnThePlan, LettersOnThePlan
<1>3. PICK k \in 1 .. Len(img.plan) : k = index /\ p = AsPartition(img.plan[k])
  BY <1>1, <1>2 DEF Found
<1>4. drive = Letter(k) /\ Given(k) BY <1>2, <1>3
<1>5. IF k \in Served THEN IsFat16(p, dos) /\ FitsBpb(dos) ELSE ~IsFat16(p, dos)
  BY <1>3, PartIsFat16
<1>6. Letter(k + 1) = IF k \in Served THEN Letter(k) + 1 ELSE Letter(k) BY Letters
<1>7. p.kind = "fat" BY <1>3 DEF AsPartition
<1>8. ASSUME index' = index + 1, step' = step, partitions' = partitions,
             drive' = Letter(k + 1), Given(k + 1)'
      PROVE  OnThePlan' /\ LettersOnThePlan'
  <2>1. step' = "announce" /\ index' = k + 1 BY <1>1, <1>3, <1>8
  <2>2. Found(Len(img.plan))' BY <1>2, <1>8, PlanStays
  <2>3. drive' = Letter(k + 1)' BY <1>8, PlanStays
  <2>4. drive' = Letter(index)' /\ Given(index)' BY <1>8, <2>1, <2>3 DEF Letter, Given
  <2> QED BY <2>1, <2>2, <2>4 DEF OnThePlan, LettersOnThePlan
<1>9. CASE Adds(p, dos, tos)
  <2>1. IsFat16(p, dos) /\ HasLetter BY <1>9 DEF Adds, AnnounceTos, AnnounceDos
  <2>2. PICK v : Give(v) /\ v.part = index BY <1>9, AddedShows
  <2>3. /\ volumes' = [d \in DOMAIN volumes \cup {drive} |-> IF d = drive THEN v ELSE volumes[d]]
        /\ drive' = drive + 1 /\ index' = index + 1 /\ step' = step /\ partitions' = partitions
    BY <2>2 DEF Give, walk
  <2>4. k \in Served BY <1>5, <2>1
  <2>5. drive' = Letter(k + 1) BY <1>4, <1>6, <2>3, <2>4
  <2>6. Letter(k) <= LastDrive BY <1>4, <2>1 DEF HasLetter
  <2>7. Given(k + 1)' BY <1>3, <1>4, <2>2, <2>3, <2>4, <2>6, GivenNext
  <2> QED BY <1>8, <2>3, <2>5, <2>7
<1>10. CASE SkipPartition(p, dos, tos)
  <2>1. /\ index' = index + 1 /\ step' = step /\ partitions' = partitions
        /\ drive' = drive /\ volumes' = volumes
    BY <1>10 DEF SkipPartition, walk
  <2>2. ~(IsFat16(p, dos) /\ (ServesTos(p, dos, tos) \/ FitsBpb(dos)))
    BY <1>7, <1>10 DEF SkipPartition
  <2>3. k \notin Served BY <1>5, <2>2
  <2>4. drive' = Letter(k + 1) BY <1>4, <1>6, <2>1, <2>3
  <2>5. Given(k + 1)' BY <1>4, <2>1, <2>3, GivenNext
  <2> QED BY <1>8, <2>1, <2>4, <2>5
<1> QED BY <1>9, <1>10

\* The end: every part had its turn, or the letters ran out.
LEMMA EndOnThePlan ==
  ASSUME ScanInv, IsPlanned, OnThePlan, LettersOnThePlan, UNCHANGED <<img, first>>, Announced
  PROVE  OnThePlan' /\ LettersOnThePlan'
<1>1. /\ step = "announce" /\ step' = "done" /\ partitions' = partitions /\ volumes' = volumes
      /\ \A p \in Upcoming : ~HasLetter
  BY DEF Announced, walk, announce
<1>2. drive = Letter(index) /\ Given(index) /\ Found(Len(img.plan))
  BY <1>1 DEF OnThePlan, LettersOnThePlan
<1>3. index \in 1 .. Len(img.plan) + 1 /\ Len(img.plan) \in Nat
  BY <1>1, <1>2, Numbers DEF ScanInv, OnItsWay, Found
<1>4. PICK k \in 1 .. Len(img.plan) + 1 : k = index BY <1>3
<1>5. k = Len(img.plan) + 1 \/ Letter(k) > LastDrive
  <2>1. SUFFICES ASSUME k # Len(img.plan) + 1 PROVE Letter(k) > LastDrive OBVIOUS
  <2>2. index \in DOMAIN partitions BY <1>2, <1>3, <1>4, <2>1 DEF Found, ScanInv, ScanTypes
  <2>3. partitions[index] \in Upcoming BY <1>1, <2>2 DEF Upcoming
  <2>4. ~(Letter(k) <= LastDrive) BY <1>1, <1>2, <1>4, <2>3 DEF HasLetter
  <2>5. Letter(k) \in Nat /\ LastDrive \in Nat BY Letters, ScanAssumption
  <2> QED BY <2>4, <2>5
<1>6. Given(k) BY <1>2, <1>4
<1>7. Given(k)' /\ Found(Len(img.plan))' /\ Letter(k)' = Letter(k) BY <1>1, <1>2, <1>6, PlanStays
<1> QED BY <1>1, <1>5, <1>7 DEF OnThePlan, LettersOnThePlan

\* A read that failed is not forgotten.
LEMMA MisreadStep ==
  ASSUME ScanInv, PlanInv, [DiskNext]_diskVars
  PROVE  (misread => misread') /\ (step' = "open" => ~misread')
<1> DEFINE Goal == (misread => misread') /\ (step' = "open" => ~misread')
<1> SUFFICES Goal OBVIOUS
<1>1. ASSUME misread' = misread, step' # "open" \/ step' = step PROVE Goal BY <1>1 DEF PlanInv
<1>2. ASSUME NEW ok \in Reads, Open(ok) PROVE Goal
  BY <1>2 DEF Open, Reject, PlanInv
<1>3. ASSUME NEW ok \in Reads, ReadRoot(ok) PROVE Goal
  BY <1>3 DEF ReadRoot, Reject, ScanInv, ScanTypes
<1>4. CASE SkipSlot \/ TakeSlot \/ BadSlot \/ EnterChain \/ SlotsDone
  <2> HIDE DEF Goal
  <2> QED BY <1>1, <1>4 DEF SkipSlot, TakeSlot, BadSlot, EnterChain, SlotsDone, Reject
<1>5. CASE FollowChain
  <2> HIDE DEF Goal
  <2> QED BY <1>1, <1>5 DEF FollowChain
<1>6. CASE BadChain BY <1>6 DEF BadChain, Reject
<1>7. ASSUME NEW p, NEW dos, NEW tos, Adds(p, dos, tos) \/ SkipPartition(p, dos, tos),
             step = "announce"
      PROVE  Goal
  BY <1>7 DEF Adds, AnnounceTos, AnnounceDos, SkipPartition, Give
<1>8. CASE Announced
  <2> HIDE DEF Goal
  <2> QED BY <1>1, <1>8 DEF Announced
<1>9. CASE Publish \/ Unused \/ Work \/ UNCHANGED diskVars
  <2> HIDE DEF Goal
  <2> QED BY <1>1, <1>9 DEF Publish, Unused, Work, diskVars, scanVars
<1>10. CASE ScanNext
  <2> HIDE DEF Goal
  <2>1. \A p \in Upcoming : step = "announce" BY UpcomingIs
  <2> QED BY <1>2, <1>3, <1>4, <1>5, <1>6, <1>7, <1>8, <1>10, <2>1 DEF ScanNext, Adds
<1> HIDE DEF Goal
<1> QED BY <1>9, <1>10 DEF DiskNext, Scan

LEMMA PlanStep ==
  ASSUME ScanInv, PlanInv, [DiskNext]_diskVars
  PROVE  PlanInv'
<1> DEFINE Goal == OnThePlan' /\ LettersOnThePlan'
<1>1. UNCHANGED <<img, first>> BY VolumesStep
<1>2. SUFFICES ASSUME ~misread', IsPlanned' PROVE Goal BY MisreadStep DEF PlanInv
<1>3. ~misread /\ IsPlanned /\ OnThePlan /\ LettersOnThePlan
  BY <1>1, <1>2, MisreadStep, PlanStays DEF PlanInv
<1> HIDE DEF Goal
<1>4. ASSUME NEW ok \in Reads, Open(ok) \/ ReadRoot(ok) PROVE Goal
  BY <1>1, <1>2, <1>3, <1>4, RootOnThePlan DEF Goal
<1>5. CASE SkipSlot \/ TakeSlot \/ BadSlot \/ EnterChain
  BY <1>1, <1>3, <1>5, SlotOnThePlan DEF Goal
<1>6. CASE SlotsDone BY <1>1, <1>3, <1>6, DoneOnThePlan DEF Goal
<1>7. CASE FollowChain \/ BadChain BY <1>1, <1>2, <1>3, <1>7, ChainOnThePlan DEF Goal
<1>8. ASSUME NEW p \in Upcoming, NEW dos \in {Boot(p.first)}, NEW tos \in {Boot(p.first + 1)},
             AnnounceTos(p, dos, tos) \/ AnnounceDos(p, dos, tos) \/ SkipPartition(p, dos, tos)
      PROVE  Goal
  BY <1>1, <1>2, <1>3, <1>8, AnnounceOnThePlan DEF Goal, Adds
<1>9. CASE Announced BY <1>1, <1>3, <1>9, EndOnThePlan DEF Goal
<1>10. ASSUME UNCHANGED <<walk, announce>>, step' = step \/ (step = "done" /\ step' = "published")
       PROVE  Goal
  <2>1. /\ Primary' = Primary /\ Chained' = Chained /\ (RightTable' <=> RightTable)
        /\ \A k : Letter(k)' = Letter(k)
        /\ \A k : Found(k)' <=> Found(k)
        /\ \A k : Given(k)' <=> Given(k)
    BY <1>1, <1>10, PlanStays DEF walk, announce
  <2>2. /\ UNCHANGED <<table, slot, base, lba, links, partitions, index, drive, volumes, img>>
    BY <1>1, <1>10 DEF walk, announce
  <2>3. OnThePlan' BY <1>3, <1>10, <2>1, <2>2 DEF OnThePlan, Found
  <2>4. LettersOnThePlan' BY <1>3, <1>10, <2>1, <2>2 DEF LettersOnThePlan, Given, Letter
  <2> QED BY <2>3, <2>4 DEF Goal
<1>11. CASE Publish \/ Unused \/ Work \/ UNCHANGED diskVars
  BY <1>10, <1>11 DEF Publish, Unused, Work, diskVars, scanVars, Scanned
<1>12. CASE ScanNext
  BY <1>4, <1>5, <1>6, <1>7, <1>8, <1>9, <1>12 DEF ScanNext
<1> QED BY <1>11, <1>12 DEF DiskNext, Scan

LEMMA PlanKept == DiskSpec => [](ScanInv /\ PlanInv)
<1>1. DiskInit => ScanInv /\ PlanInv
  <2> SUFFICES ASSUME ScanInit PROVE ScanInv /\ PlanInv BY DEF DiskInit
  <2>1. PlanInv BY DEF ScanInit, PlanInv, OnThePlan, LettersOnThePlan, Found
  <2> QED BY <2>1, ScanInitInv
<1>2. ASSUME ScanInv /\ PlanInv, [DiskNext]_diskVars PROVE (ScanInv /\ PlanInv)'
  BY <1>2, DiskStepInv, PlanStep
<1> QED BY <1>1, <1>2, PTL DEF DiskSpec

\* acsiRefreshVolumeDriveRange, on the images scripts/atari-hd writes: if every
\* read works each part that can be served becomes a drive, in the order of
\* the parts and under the letters from the configured one on, until the
\* letters run out.
THEOREM PartsGetTheirLetters == DiskSpec => []AsPlanned
<1>1. ASSUME ScanInv, PlanInv PROVE AsPlanned
  <2>1. SUFFICES ASSUME step = "done", ~misread, IsPlanned
                 PROVE  /\ DOMAIN volumes = {Letter(i) : i \in Served} \cap first .. LastDrive
                        /\ \A i \in Served : Letter(i) <= LastDrive =>
                             LET p == partitions[volumes[Letter(i)].part]
                             IN p.first = img.plan[i].start /\ p.count = img.plan[i].size
    BY DEF AsPlanned, Scanned
  <2> DEFINE N == Len(img.plan)
  <2>2. PICK k \in 1 .. N + 1 : Given(k) /\ (k = N + 1 \/ Letter(k) > LastDrive)
    BY <1>1, <2>1 DEF PlanInv, LettersOnThePlan
  <2>3. Found(N) BY <1>1, <2>1 DEF PlanInv, OnThePlan
  <2>4. /\ N \in Nat /\ first \in Nat /\ LastDrive \in Nat /\ Served \subseteq 1 .. N
        /\ \A i \in 1 .. N + 1 : Letter(i) \in Nat /\ first <= Letter(i)
    <3>1. N \in Nat /\ N >= 1 BY <1>1, <2>1, Numbers
    <3>2. 1 \in 1 .. N + 1 /\ \A i \in 1 .. N + 1 : 1 <= i BY <3>1
    <3>3. \A i \in 1 .. N + 1 : Letter(i) \in Nat /\ first <= Letter(i)
      BY <1>1, <2>1, <3>2, Letters
    <3> QED BY <1>1, <3>1, <3>3, ScanAssumption DEF Served, ScanInv, ScanTypes
  <2>5. \A i \in Served : i < k <=> Letter(i) <= LastDrive
    <3>1. SUFFICES ASSUME NEW i \in Served, ~(i < k) PROVE ~(Letter(i) <= LastDrive)
      BY <2>2 DEF Given
    <3>2. i \in 1 .. N + 1 /\ k <= i /\ k # N + 1 BY <2>4, <3>1
    <3>3. Letter(k) <= Letter(i) /\ Letter(k) > LastDrive BY <1>1, <2>1, <2>2, <3>2, Letters
    <3>4. Letter(k) \in Nat /\ Letter(i) \in Nat BY <2>4, <3>2
    <3> QED BY <2>4, <3>3, <3>4
  <2>6. DOMAIN volumes = {Letter(i) : i \in Served} \cap first .. LastDrive
    <3>1. \A i \in Served : Letter(i) \in first .. LastDrive <=> i < k
      <4>1. \A i \in Served : Letter(i) \in Nat /\ first <= Letter(i) BY <2>4
      <4> QED BY <2>4, <2>5, <4>1
    <3>2. DOMAIN volumes = {Letter(i) : i \in {j \in Served : j < k}} BY <2>2, Zenon DEF Given
    <3> QED BY <3>1, <3>2, Zenon
  <2>7. ASSUME NEW i \in Served, Letter(i) <= LastDrive
        PROVE  partitions[volumes[Letter(i)].part] = AsPartition(img.plan[i])
    <3>1. volumes[Letter(i)].part = i BY <2>2, <2>5, <2>7 DEF Given
    <3> QED BY <2>3, <2>4, <3>1 DEF Found
  <2>8. \A part : AsPartition(part).first = part.start /\ AsPartition(part).count = part.size
    BY DEF AsPartition
  <2> QED BY <2>6, <2>7, <2>8, Zenon
<1> QED BY <1>1, PlanKept, PTL
=============================================================================
