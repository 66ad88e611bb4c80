------------------------------ MODULE AcsiScan ------------------------------
(***************************************************************************)
(* The scan of the hard disk image when the emulation is prepared:           *)
(* acsiRefreshVolumeDriveRange of acsi.c.  It walks the partition table of   *)
(* the image, MBR or AHDI, follows the chains of extended partitions, and  *)
(* gives every FAT16 partition it can serve the next drive letter and a BPB. *)
(*                                                                         *)
(* One action per sector of the tables and one per partition that may be     *)
(* announced; any read may fail.                                            *)
(***************************************************************************)
EXTENDS AcsiImage, FiniteSets

CONSTANTS
  Asked,          \* bound: the format and the parts the image tool is asked for,
  Disks,          \* bound: and the images made elsewhere
  Firsts,         \* bound: the settings of the first drive letter, C = 2
  LastDrive,      \* P = ACSI_PUN_INFO_MAXUNITS - 1
  MaxPartitions,  \* ACSI_MAX_PARTITIONS
  MaxLba,         \* what 32 bits hold
  MaxWord,        \* what 16 bits hold
  LogicalSizes,   \* the logical sector sizes served
  MinClusters,    \* a FAT16 volume has MinClusters or more clusters,
  MaxClusters,    \* and fewer than MaxClusters
  Misreads        \* whether reads of the image may fail

EntryKinds == {"none", "fat", "ext", "other"}
Entries == [kind : EntryKinds, start : Nat, count : Nat]
Boots   == [bps : Nat, spc : Nat, res : Nat, fats : Nat, roots : Nat, total : Nat,
            spf : Nat, cyl : Nat, ppg : BOOLEAN]
Sectors == [sig : BOOLEAN, mbr : [1 .. 4 -> Entries], ahdi : [1 .. 4 -> Entries], boot : Boots]

ASSUME ScanAssumption ==
  /\ Firsts \subseteq 2 .. LastDrive /\ LastDrive \in Nat
  /\ MaxPartitions \in Nat \ {0} /\ MaxLba \in Nat /\ MaxWord \in Nat
  /\ LogicalSizes \subseteq {k * SectorSize : k \in 1 .. 16} /\ SectorSize \in LogicalSizes
  /\ MinClusters \in Nat \ {0} /\ MaxClusters \in Nat /\ Misreads \in BOOLEAN

\* The images that may be configured.
Images == Disks \cup {BuildImage(asked[1], asked[2]) : asked \in Asked}

\* An image is at least one sector long: acsi_image_open checks it.
ASSUME ImagesAssumption ==
  /\ \A i \in Images :
       /\ i.size \in Nat \ {0}
       /\ \A n \in DOMAIN i.sectors : n \in Nat /\ i.sectors[n] \in Sectors
  /\ \A i \in Disks : i.plan = <<>>

VARIABLES
  img,         \* the image that is configured
  first,       \* the setting of the first drive letter
  step,        \* "open", "root", "slot", "chain", "announce", "done" or "published"
  table,       \* the table being walked: "mbr" or "ahdi"
  slot,        \* the slot of the root sector
  base,        \* where the chain begins: extendedBaseLBA, xgmBaseLBA
  lba,         \* the descriptor the chain has come to
  links,       \* descriptors read in the chain
  partitions,  \* usablePartitions
  index,       \* the partition to announce next
  drive,       \* the drive letter it gets
  volumes,     \* what is announced, by drive letter
  misread      \* history: a read failed

walk     == <<table, slot, base, lba, links, partitions>>
announce == <<index, drive, volumes>>
scanVars == <<img, first, step, walk, announce, misread>>

Sector(n) == IF n \in DOMAIN img.sectors THEN img.sectors[n] ELSE Blank
Boot(n)   == Sector(n).boot
Table(n)  == IF table = "mbr" THEN Sector(n).mbr ELSE Sector(n).ahdi
Reads     == IF Misreads THEN BOOLEAN ELSE {TRUE}

NoPartition == [kind |-> "none", first |-> 0, count |-> 0]

\* acsiParsePartitionEntry and acsiParseAhdiEntry, which takes an entry of
\* another file system for none.
Parse(e, from) ==
  IF \/ e.kind = "none" \/ (table = "ahdi" /\ e.kind = "other")
     \/ e.count = 0 \/ from + e.start > MaxLba
  THEN NoPartition
  ELSE [kind |-> e.kind, first |-> from + e.start, count |-> e.count]

\* acsiPartitionRangeIsValid
InImage(p) == p.first + p.count <= img.size

ScanInit ==
  /\ img \in Images /\ first \in Firsts
  /\ step = "open" /\ table = "mbr" /\ slot = 0
  /\ base = 0 /\ lba = 0 /\ links = 0 /\ partitions = <<>>
  /\ index = 0 /\ drive = 0 /\ volumes = <<>>
  /\ misread = FALSE
-----------------------------------------------------------------------------
(* acsi_enumerate_partitions *)

Reject == step' = "done" /\ UNCHANGED <<img, first, walk, announce>>

\* acsi_image_open
Open(ok) ==
  /\ step = "open"
  /\ misread' = ~ok
  /\ \/ ~ok /\ Reject
     \/ ok /\ step' = "root" /\ UNCHANGED <<img, first, walk, announce>>

\* Sector 0.  Without a signature there it is read again as an AHDI table.
ReadRoot(ok) ==
  /\ step = "root"
  /\ misread' = (misread \/ ~ok)
  /\ \/ /\ ok /\ (table = "mbr" => Sector(0).sig)
        /\ step' = "slot" /\ slot' = 1
        /\ UNCHANGED <<img, first, table, base, lba, links, partitions, announce>>
     \/ /\ table = "mbr" /\ ~(ok /\ Sector(0).sig)
        /\ table' = "ahdi"
        /\ UNCHANGED <<img, first, step, slot, base, lba, links, partitions, announce>>
     \/ table = "ahdi" /\ ~ok /\ Reject

Root == Parse(Table(0)[slot], 0)

SkipSlot ==
  /\ step = "slot" /\ slot <= 4 /\ Root = NoPartition
  /\ slot' = slot + 1
  /\ UNCHANGED <<img, first, step, table, base, lba, links, partitions, announce, misread>>

TakeSlot ==
  /\ step = "slot" /\ slot <= 4 /\ Root.kind \in {"fat", "other"}
  /\ InImage(Root) /\ Len(partitions) < MaxPartitions
  /\ partitions' = Append(partitions, Root)
  /\ slot' = slot + 1
  /\ UNCHANGED <<img, first, step, table, base, lba, links, announce, misread>>

\* One partition out of bounds, or one too many, and the image has no drives.
BadSlot ==
  /\ step = "slot" /\ slot <= 4 /\ Root.kind \in {"fat", "other"}
  /\ ~(InImage(Root) /\ Len(partitions) < MaxPartitions)
  /\ Reject /\ UNCHANGED misread

EnterChain ==
  /\ step = "slot" /\ slot <= 4 /\ Root.kind = "ext"
  /\ step' = "chain"
  /\ base' = Root.first /\ lba' = Root.first /\ links' = 0
  /\ UNCHANGED <<img, first, table, slot, partitions, announce, misread>>

\* Nothing found behind an MBR: the AHDI table is tried.
SlotsDone ==
  /\ step = "slot" /\ slot = 5
  /\ \/ /\ partitions # <<>>
        /\ step' = "announce" /\ index' = 1 /\ drive' = first
        /\ UNCHANGED <<img, first, walk, volumes>>
     \/ /\ partitions = <<>> /\ table = "mbr"
        /\ step' = "root" /\ table' = "ahdi"
        /\ UNCHANGED <<img, first, slot, base, lba, links, partitions, announce>>
     \/ partitions = <<>> /\ table = "ahdi" /\ Reject
  /\ UNCHANGED misread
-----------------------------------------------------------------------------
(* acsiAppendExtendedPartitions and acsiAppendAhdiExtendedPartitions *)

Logical == Parse(Table(lba)[1], lba)

\* Deviation: the link is taken relative to the descriptor it is in.
NextLinkFromHere == Parse(Table(lba)[2], lba)

NextLink == Parse(Table(lba)[2], base)

GoodDescriptor ==
  /\ lba < img.size
  /\ table = "mbr" => Sector(lba).sig
  /\ Logical # NoPartition =>
       Logical.kind # "ext" /\ InImage(Logical) /\ Len(partitions) < MaxPartitions
  /\ NextLink # NoPartition => NextLink.kind = "ext" /\ InImage(NextLink) /\ NextLink.first # lba

\* Deviation: a link is not counted when its descriptor holds no partition.
CountedUnlessEmpty(part) == IF part = NoPartition THEN links ELSE links + 1

\* linkIndex: at most MaxPartitions descriptors of a chain are read.
Counted(part) == links + 1

Taken == IF Logical = NoPartition THEN partitions ELSE Append(partitions, Logical)

\* A descriptor: its partition, and the link to the next one.
FollowChain ==
  /\ step = "chain" /\ GoodDescriptor
  /\ partitions' = Taken
  /\ IF NextLink # NoPartition /\ Counted(Logical) < MaxPartitions
     THEN lba' = NextLink.first /\ links' = Counted(Logical) /\ UNCHANGED <<step, slot>>
     ELSE step' = "slot" /\ slot' = slot + 1 /\ UNCHANGED <<lba, links>>
  /\ UNCHANGED <<img, first, table, base, announce, misread>>

BadChain ==
  /\ step = "chain"
  /\ \/ ~GoodDescriptor /\ UNCHANGED misread
     \/ Misreads /\ misread' = TRUE
  /\ Reject
-----------------------------------------------------------------------------
(* acsiBuildAnnouncedVolumeData *)

Ratio(bps) == bps \div SectorSize

RootSectors(b) == (b.roots * RootEntry + b.bps - 1) \div b.bps
NonData(b)     == b.res + b.fats * b.spf + RootSectors(b)
Clusters(b)    == IF b.total >= NonData(b) THEN (b.total - NonData(b)) \div b.spc ELSE 0

\* Where the FAT, the root directory and the data of a volume lie.
Places(b, at) ==
  LET fat  == at + b.res * Ratio(b.bps)
      root == fat + b.fats * b.spf * Ratio(b.bps)
  IN [fat |-> fat, root |-> root, data |-> root + RootSectors(b) * Ratio(b.bps)]

\* acsi_parse_fat16_geometry: partition p, with the boot sector dos, is served.
IsFat16(p, dos) ==
  /\ p.kind = "fat" /\ p.first < img.size
  /\ dos.bps = SectorSize => Sector(p.first).sig
  /\ dos.bps \in LogicalSizes
  /\ 0 \notin {dos.spc, dos.res, dos.fats, dos.roots, dos.total, dos.spf}
  /\ dos.total > NonData(dos)
  /\ dos.total * Ratio(dos.bps) <= p.count
  /\ Clusters(dos) >= MinClusters /\ Clusters(dos) < MaxClusters

\* acsiParseTosBootSector
IsTosBoot(tos) ==
  /\ tos.bps >= SectorSize /\ tos.bps % SectorSize = 0
  /\ \E k \in 0 .. 7 : tos.spc = 2 ^ k
  /\ 0 \notin {tos.spc, tos.res, tos.fats, tos.roots, tos.total, tos.spf}
  /\ tos.total <= MaxWord

\* acsiSectorHasHddriverTosDosMarkers
HddriverMarker ==
  LET Real(e, kind) == e.kind = kind /\ e.start # 0 /\ e.count # 0
  IN /\ Sector(0).sig
     /\ Real(Sector(0).ahdi[3], "fat") \/ Real(Sector(0).ahdi[4], "ext")

\* acsiDetectTosDosStyle: a second boot sector, tos, describes the same volume.
IsHybrid(p, dos, tos) ==
  /\ p.first + 1 < img.size
  /\ IsTosBoot(tos)
  /\ Places(dos, p.first) = Places(tos, p.first + 1)
  /\ HddriverMarker \/ (dos.ppg /\ tos.ppg)

\* acsiBuildBpbData and acsiBuildTosBpbData: a BPB has 16-bit fields.
FitsBpb(b) ==
  /\ b.bps * b.spc <= MaxWord /\ b.res + b.spf <= MaxWord /\ NonData(b) <= MaxWord
  /\ Clusters(b) <= MaxWord /\ b.cyl <= MaxWord

\* Deviation: it is not counted that the view starts a sector late.
TosFitsFromStart(p, tos) == tos.total * Ratio(tos.bps) <= p.count

\* The TOS view starts a sector after the partition does.
TosFits(p, tos) == 1 + tos.total * Ratio(tos.bps) <= p.count

ServesTos(p, dos, tos) ==
  IsHybrid(p, dos, tos) /\ FitsBpb(tos) /\ tos.bps \in LogicalSizes /\ TosFits(p, tos)

\* Deviation: the data is said to begin behind the FATs.
BpbWithoutRoot(b) ==
  [recsize |-> b.bps, clsiz |-> b.spc, rdlen |-> RootSectors(b), fsiz |-> b.spf,
   fatrec |-> b.res + b.spf, datrec |-> b.res + b.fats * b.spf, numcl |-> Clusters(b)]

\* The BPB that hdv_bpb hands to TOS; fatrec is the second FAT.
Bpb(b) ==
  [recsize |-> b.bps, clsiz |-> b.spc, rdlen |-> RootSectors(b), fsiz |-> b.spf,
   fatrec |-> b.res + b.spf, datrec |-> NonData(b), numcl |-> Clusters(b)]

\* The image tool makes no more parts than the emulation takes, and in each a
\* FAT16 file system whose BPB fits (partition_layout, compute_partition_geometry).
ASSUME AskedAssumption ==
  \A asked \in Asked :
    LET format == asked[1]
        parts  == asked[2]
        plan   == Planned(format, parts)
    IN /\ format \in Formats
       /\ parts \in Seq([size : Nat \ {0}, bps : {k * SectorSize : k \in 1 .. 32}, slack : Nat])
       /\ Len(parts) \in 1 .. MaxPartitions
       /\ Behind(plan[Len(plan)]) <= MaxLba
       /\ \A i \in 1 .. Len(parts) :
            LET boot == BootSector(format, parts[i]).boot
            IN /\ parts[i].slack <= parts[i].size
               /\ Clusters(boot) \in MinClusters .. MaxClusters - 1
               /\ FitsBpb(boot)

Volume(view, b, start) ==
  [part |-> index, view |-> view, start |-> start, count |-> b.total, bpb |-> Bpb(b)]

Give(v) ==
  /\ volumes' = [d \in DOMAIN volumes \cup {drive} |-> IF d = drive THEN v ELSE volumes[d]]
  /\ drive' = drive + 1 /\ index' = index + 1
  /\ UNCHANGED <<img, first, step, walk>>

\* The partition to announce next.
Upcoming  == IF step = "announce" THEN {partitions[i] : i \in {index} \cap DOMAIN partitions} ELSE {}
HasLetter == drive <= LastDrive

AnnounceTos(p, dos, tos) ==
  /\ HasLetter /\ IsFat16(p, dos) /\ ServesTos(p, dos, tos)
  /\ Give(Volume("TOS", tos, p.first + 1))
  /\ UNCHANGED misread

\* Also when the second boot sector cannot be read.
AnnounceDos(p, dos, tos) ==
  /\ HasLetter /\ IsFat16(p, dos) /\ FitsBpb(dos)
  /\ IF ServesTos(p, dos, tos) THEN Misreads /\ misread' = TRUE ELSE UNCHANGED misread
  /\ Give(Volume("DOS", dos, p.first))

SkipPartition(p, dos, tos) ==
  /\ \/ p.kind # "fat" /\ UNCHANGED misread
     \/ /\ p.kind = "fat" /\ HasLetter
        /\ \/ ~(IsFat16(p, dos) /\ (ServesTos(p, dos, tos) \/ FitsBpb(dos))) /\ UNCHANGED misread
           \/ Misreads /\ misread' = TRUE
  /\ index' = index + 1
  /\ UNCHANGED <<img, first, step, walk, drive, volumes>>

Announced ==
  /\ step = "announce"
  /\ \A p \in Upcoming : p.kind = "fat" /\ ~HasLetter
  /\ step' = "done"
  /\ UNCHANGED <<img, first, walk, announce, misread>>
-----------------------------------------------------------------------------
ScanNext ==
  \/ \E ok \in Reads : Open(ok) \/ ReadRoot(ok)
  \/ SkipSlot \/ TakeSlot \/ BadSlot \/ EnterChain \/ SlotsDone
  \/ FollowChain \/ BadChain
  \/ \E p \in Upcoming : \E dos \in {Boot(p.first)}, tos \in {Boot(p.first + 1)} :
       AnnounceTos(p, dos, tos) \/ AnnounceDos(p, dos, tos) \/ SkipPartition(p, dos, tos)
  \/ Announced

ScanSpec == ScanInit /\ [][ScanNext]_scanVars
-----------------------------------------------------------------------------
(* Properties *)

Scanned   == step = "done"
IsPlanned == Len(img.plan) > 0
End(v)    == v.start + v.count * Ratio(v.bpb.recsize)

\* Every drive lies in its partition and in the image, to its last logical
\* sector, whatever the tables say and whichever reads fail.
DrivesInside ==
  Scanned => \A d \in DOMAIN volumes :
    LET v == volumes[d]
        p == partitions[v.part]
    IN p.first <= v.start /\ End(v) <= p.first + p.count /\ End(v) <= img.size

\* The parts of a planned image that can be served at all, and the letter
\* that is left for a part by the ones before it.
Served    == {i \in 1 .. Len(img.plan) : img.format = "AHDI" => img.plan[i].bps \in LogicalSizes}
Letter(i) == first + Cardinality({j \in Served : j < i})

\* If every read works, the drives of an image of the image tool are its
\* parts, in their order, from the configured letter on and up to P.
AsPlanned ==
  Scanned /\ ~misread /\ IsPlanned =>
    /\ DOMAIN volumes = {Letter(i) : i \in Served} \cap first .. LastDrive
    /\ \A i \in Served : Letter(i) <= LastDrive =>
         LET p == partitions[volumes[Letter(i)].part]
         IN p.first = img.plan[i].start /\ p.count = img.plan[i].size

\* With the BPB it is given TOS looks for the FATs, the root directory and
\* the clusters where the boot sector of the partition puts them, in the DOS
\* view and in the TOS view, if the boot sector served has two FATs; and no
\* cluster lies behind the volume's end.
TosFindsTheFiles ==
  Scanned => \A d \in DOMAIN volumes :
    LET v  == volumes[d]
        p  == partitions[v.part]
        at == Places(Boot(p.first), p.first)
        r  == Ratio(v.bpb.recsize)
    IN /\ v.start + v.bpb.datrec * r = at.data
       /\ Boot(v.start).fats = 2 =>
            /\ v.start + (v.bpb.fatrec - v.bpb.fsiz) * r = at.fat
            /\ v.start + (v.bpb.fatrec + v.bpb.fsiz) * r = at.root
       /\ v.bpb.numcl > 0 => v.bpb.datrec + v.bpb.numcl * v.bpb.clsiz <= v.count

\* What is left of the scan at most, in steps.
Left ==
  LET chain == MaxPartitions + 2
      root  == 6 * chain
      whole == MaxPartitions + 2 + IF table = "mbr" THEN 2 * root ELSE 0
  IN CASE step = "open"     -> whole + root + 1
       [] step = "root"     -> whole + root
       [] step = "slot"     -> whole + (5 - slot) * chain + MaxPartitions + 1
       [] step = "chain"    -> whole + (5 - slot) * chain + MaxPartitions - links
       [] step = "announce" -> 1 + Len(partitions) + 1 - index
       [] OTHER             -> 0

\* The scan comes to an end, also on an image whose chain runs in a circle:
\* every step takes it forward (that there is a step until the end is TLC's
\* check for deadlock).
ScanEnds == [][Scanned \/ Left' \in 0 .. Left - 1]_scanVars
=============================================================================
