----------------------------- MODULE AcsiImage -----------------------------
(***************************************************************************)
(* Hard disk images: what acsi.c can tell their sectors apart by, and the    *)
(* three layouts that scripts/atari-hd/atari_hd.py writes.                   *)
(*                                                                         *)
(* A sector is seen in three ways at once, as in the code: as an MBR table    *)
(* with its signature, as an AHDI table, and as a boot sector with a BPB.    *)
(* The bytes of the two tables overlap; an entry that the writer leaves or   *)
(* makes unusable by the overlap is NoEntry.                                 *)
(***************************************************************************)
EXTENDS Integers, Sequences

CONSTANTS
  SectorSize,    \* bytes of a physical sector
  RootEntry,     \* bytes of a directory entry
  RootEntries,   \* entries of the root directory mkfs.vfat makes
  FatSectors     \* logical sectors of a FAT mkfs.vfat makes

ASSUME ImageAssumption ==
  /\ SectorSize \in Nat \ {0} /\ RootEntry \in Nat \ {0}
  /\ RootEntries \in Nat \ {0} /\ FatSectors \in Nat \ {0}

Formats == {"AHDI", "PPDRIVER", "HDDRIVER"}

NoEntry == [kind |-> "none", start |-> 0, count |-> 0]
NoTable == <<NoEntry, NoEntry, NoEntry, NoEntry>>
NoBoot  == [bps |-> 0, spc |-> 0, res |-> 0, fats |-> 0, roots |-> 0, total |-> 0,
            spf |-> 0, cyl |-> 0, ppg |-> FALSE]
Blank   == [sig |-> FALSE, mbr |-> NoTable, ahdi |-> NoTable, boot |-> NoBoot]

Entry(kind, start, count) == [kind |-> kind, start |-> start, count |-> count]
-----------------------------------------------------------------------------
(* plan_image.  A part is asked for by its size in sectors, the size of its  *)
(* logical sectors and the sectors mkfs.vfat leaves unused at its end.       *)

MaxPrimary(format) == IF format = "HDDRIVER" THEN 1 ELSE 4

\* partition_layout: how many of n parts have an entry in the root sector.
PrimaryCount(format, n) ==
  IF n <= MaxPrimary(format) THEN n
  ELSE IF format = "HDDRIVER" THEN 1 ELSE MaxPrimary(format) - 1

FirstLba(format) == IF format = "AHDI" THEN 2 ELSE 1

\* The parts where they are placed: a logical part follows its descriptor.
Planned(format, parts) ==
  LET primary == PrimaryCount(format, Len(parts))
      start[i \in 1 .. Len(parts)] ==
        (IF i = 1 THEN FirstLba(format) ELSE start[i - 1] + parts[i - 1].size)
        + (IF i > primary THEN 1 ELSE 0)
  IN [i \in 1 .. Len(parts) |->
        [start |-> start[i], desc |-> start[i] - 1, size |-> parts[i].size,
         bps |-> parts[i].bps, slack |-> parts[i].slack]]

Behind(part) == part.start + part.size
-----------------------------------------------------------------------------
(* The tables *)

\* The root sector's slots: the primary parts, then the chain of the others.
RootTable(format, plan) ==
  LET primary == PrimaryCount(format, Len(plan))
      chain   == plan[primary + 1].desc
  IN [i \in 1 .. 4 |->
        IF i <= primary THEN Entry("fat", plan[i].start, plan[i].size)
        ELSE IF i = primary + 1 /\ i <= Len(plan)
             THEN Entry("ext", chain, Behind(plan[Len(plan)]) - chain)
             ELSE NoEntry]

\* build_root_sector_ahdi, _ppdriver and _hddriver.  HDDRIVER's marker covers
\* the third and the fourth MBR slot.
RootSector(format, plan) ==
  LET table == RootTable(format, plan)
  IN [Blank EXCEPT
        !.sig  = format # "AHDI",
        !.mbr  = IF format = "AHDI" THEN NoTable ELSE table,
        !.ahdi = CASE format = "AHDI"     -> table
                   [] format = "PPDRIVER" -> NoTable
                   [] format = "HDDRIVER" ->
                        [NoTable EXCEPT ![3] = Entry("fat", plan[1].start + 1, plan[1].size - 1)]]

\* build_ebr_sector and build_xgm_descriptor_sector, of logical part i: the
\* part relative to the descriptor, the next link relative to the first one.
Descriptor(format, plan, i) ==
  LET base  == plan[PrimaryCount(format, Len(plan)) + 1].desc
      table == [NoTable EXCEPT
                  ![1] = Entry("fat", plan[i].start - plan[i].desc, plan[i].size),
                  ![2] = IF i = Len(plan) THEN NoEntry
                         ELSE Entry("ext", plan[i + 1].desc - base, plan[i + 1].size + 1)]
  IN IF format = "AHDI" THEN [Blank EXCEPT !.ahdi = table]
     ELSE [Blank EXCEPT !.sig = TRUE, !.mbr = table]
-----------------------------------------------------------------------------
(* The boot sectors *)

\* mkfs.vfat with the parameters of compute_partition_geometry.
BootSector(format, part) ==
  LET ratio == part.bps \div SectorSize
      whole == part.size - part.slack
      boot  == IF format = "AHDI"
               THEN [bps |-> part.bps, spc |-> 2, res |-> 1, fats |-> 2, roots |-> RootEntries,
                     total |-> whole \div ratio, spf |-> FatSectors, cyl |-> 1, ppg |-> FALSE]
               ELSE [bps |-> SectorSize, spc |-> 2 * ratio, res |-> ratio + 1, fats |-> 2,
                     roots |-> RootEntries, total |-> whole, spf |-> ratio * FatSectors,
                     cyl |-> 1, ppg |-> format = "PPDRIVER"]
  IN [Blank EXCEPT !.sig = TRUE, !.boot = boot]

\* synthesize_tos_bpb_from_dos512
TosSector(format, part) ==
  LET dos   == BootSector(format, part).boot
      ratio == part.bps \div SectorSize
  IN [Blank EXCEPT !.sig = TRUE,
                   !.boot = [dos EXCEPT !.bps = part.bps, !.spc = 2, !.res = 1,
                                        !.total = dos.total \div ratio, !.spf = dos.spf \div ratio]]

\* build_image.  An image made elsewhere has an empty plan.
BuildImage(format, parts) ==
  LET plan    == Planned(format, parts)
      n       == Len(plan)
      logical == PrimaryCount(format, n) + 1 .. n
      At(lba) ==
        IF lba = 0 THEN RootSector(format, plan)
        ELSE IF \E i \in 1 .. n : plan[i].start = lba
        THEN BootSector(format, plan[CHOOSE i \in 1 .. n : plan[i].start = lba])
        ELSE IF \E i \in logical : plan[i].desc = lba
        THEN Descriptor(format, plan, CHOOSE i \in logical : plan[i].desc = lba)
        ELSE TosSector(format, plan[CHOOSE i \in 1 .. n : plan[i].start + 1 = lba])
      written == {0} \cup {plan[i].start : i \in 1 .. n} \cup {plan[i].desc : i \in logical}
                 \cup (IF format = "AHDI" THEN {} ELSE {plan[i].start + 1 : i \in 1 .. n})
  IN [size |-> Behind(plan[n]), sectors |-> [lba \in written |-> At(lba)], plan |-> plan, format |-> format]
=============================================================================
