------------------------------ MODULE AcsiDisk ------------------------------
(***************************************************************************)
(* The ACSI hard disk from the start of the emulation: acsi_init scans the   *)
(* image (AcsiScan), and when it gave the image's drives their letters TOS   *)
(* reads and writes them (Acsi).  A block of the image is a sector here.     *)
(***************************************************************************)
EXTENDS AcsiScan, Acsi

ASSUME DiskAssumption == Drives \subseteq 2 .. LastDrive

diskVars == <<scanVars, vars>>

DiskInit == ScanInit /\ Init

Scan == ScanNext /\ UNCHANGED vars

IsDrive(d) == /\ volumes[d].start = Start[d] /\ volumes[d].count = Count[d]
              /\ volumes[d].bpb.recsize = SectorSize

\* acsi_init: the drives are published to the Atari.
\* Bound: TOS works with one image, whose drives the constants say.
Publish ==
  /\ Scanned
  /\ DOMAIN volumes = Drives /\ \A d \in Drives : IsDrive(d)
  /\ step' = "published"
  /\ UNCHANGED <<img, first, walk, announce, misread, vars>>

Unused == /\ Scanned
          /\ ~(DOMAIN volumes = Drives /\ \A d \in Drives : IsDrive(d))
          /\ UNCHANGED diskVars

Work == step = "published" /\ Next /\ UNCHANGED scanVars

DiskNext == Scan \/ Publish \/ Unused \/ Work

DiskSpec == DiskInit /\ [][DiskNext]_diskVars

\* As in Acsi.
FairDisk == DiskSpec /\ WF_vars(Clock) /\ WF_vars(ReadSwaps) /\ SF_vars(TickSyncs)
=============================================================================
