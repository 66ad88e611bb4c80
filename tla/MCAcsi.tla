------------------------------- MODULE MCAcsi -------------------------------
(* Instances of AcsiDisk for TLC.  TOS works with the two drives of one      *)
(* small image; a call may take two batches, one of them of two chunks.  The *)
(* other images are only scanned: some of the image tool, hybrids, and some   *)
(* with tables that are wrong or go round in circles.                        *)
EXTENDS AcsiDisk, TLC

MCDrives    == {2, 3}
MCStart     == [d \in MCDrives |-> IF d = 2 THEN 1 ELSE 5]
MCCount     == [d \in MCDrives |-> 4]
MCWriteData == {<<"x">>, <<"x", "old", "x">>}
\* the last one reaches past the partition
MCRequests  == {[drive |-> 2, rec |-> 1, count |-> 3], [drive |-> 2, rec |-> 3, count |-> 1],
                [drive |-> 2, rec |-> 3, count |-> 2]}

Part(size, bps, slack) == [size |-> size, bps |-> bps, slack |-> slack]

Fat(start, count) == Entry("fat", start, count)
Ext(start, count) == Entry("ext", start, count)
Mbr(entries)      == [Blank EXCEPT !.sig = TRUE, !.mbr = entries]
Fs(total)         == [Blank EXCEPT !.sig = TRUE,
                        !.boot = [NoBoot EXCEPT !.bps = 2, !.spc = 1, !.res = 1, !.fats = 1,
                                    !.roots = 2, !.total = total, !.spf = 1, !.cyl = 1]]

\* An image with the given sectors, made elsewhere.
Other(size, sectors) == [size |-> size, sectors |-> sectors, plan |-> <<>>, format |-> "none"]

\* Of the image tool: primary parts and a chain, with small and large sectors;
\* the last two have room behind their file systems for the view that starts
\* a sector late.
MCAsked == {
  <<"PPDRIVER", <<Part(8, 2, 0), Part(16, 4, 0), Part(8, 2, 0), Part(16, 4, 0),
                  Part(8, 2, 0), Part(8, 2, 0)>>>>,
  <<"HDDRIVER", <<Part(16, 4, 0), Part(16, 4, 0), Part(8, 2, 0), Part(8, 2, 0)>>>>,
  <<"HDDRIVER", <<Part(16, 4, 0)>>>>,
  <<"AHDI", <<Part(9, 2, 1), Part(16, 4, 0), Part(40, 8, 0), Part(8, 2, 0), Part(16, 4, 2),
              Part(8, 2, 0)>>>>,
  <<"PPDRIVER", <<Part(18, 4, 2), Part(10, 2, 1)>>>>,
  <<"HDDRIVER", <<Part(18, 4, 2), Part(18, 4, 2)>>>>
}

\* A partition with two boot sectors; the second one has fats FATs of spf
\* sectors and total sectors in all.
Hybrid(fats, spf, total) ==
  LET dos == [bps |-> 2, spc |-> 1, res |-> 2, fats |-> 2, roots |-> 4, total |-> 15,
              spf |-> 2, cyl |-> 1, ppg |-> TRUE]
  IN Other(17, 0 :> Mbr(<<Fat(1, 16), NoEntry, NoEntry, NoEntry>>)
               @@ 1 :> [Blank EXCEPT !.sig = TRUE, !.boot = dos]
               @@ 2 :> [Blank EXCEPT !.boot = [dos EXCEPT !.res = 1, !.fats = fats, !.spf = spf,
                                                          !.total = total]])

MCDisks == {
  \* the image TOS works with
  Other(9, 0 :> Mbr(<<Fat(1, 4), Fat(5, 4), NoEntry, NoEntry>>) @@ 1 :> Fs(4) @@ 5 :> Fs(4)),
  \* a chain in a circle: of empty descriptors, of one partition, of one descriptor
  Other(12, 0 :> Mbr(<<Fat(1, 4), Ext(6, 6), NoEntry, NoEntry>>) @@ 1 :> Fs(4)
            @@ 6 :> Mbr(<<NoEntry, Ext(1, 1), NoEntry, NoEntry>>)
            @@ 7 :> Mbr(<<NoEntry, Ext(0, 1), NoEntry, NoEntry>>)),
  Other(12, 0 :> Mbr(<<Ext(6, 6), NoEntry, NoEntry, NoEntry>>) @@ 8 :> Fs(4)
            @@ 6 :> Mbr(<<Fat(2, 4), Ext(1, 1), NoEntry, NoEntry>>)
            @@ 7 :> Mbr(<<NoEntry, Ext(0, 1), NoEntry, NoEntry>>)),
  Other(12, 0 :> Mbr(<<Ext(6, 6), NoEntry, NoEntry, NoEntry>>)
            @@ 6 :> Mbr(<<Fat(2, 4), Ext(0, 1), NoEntry, NoEntry>>)),
  \* a chain that leaves the image, a table where no descriptor is
  Other(12, 0 :> Mbr(<<Ext(6, 6), NoEntry, NoEntry, NoEntry>>)
            @@ 6 :> Mbr(<<Fat(2, 4), Ext(90, 1), NoEntry, NoEntry>>)),
  Other(12, 0 :> Mbr(<<Ext(20, 6), NoEntry, NoEntry, NoEntry>>)),
  \* other file systems, a hole in the table, a FAT that does not fit its partition
  Other(20, 0 :> Mbr(<<Entry("other", 1, 2), NoEntry, Fat(3, 4), Fat(8, 4)>>)
            @@ 3 :> Fs(5) @@ 8 :> Fs(4)),
  \* a partition behind the image's end, and one that starts past the last LBA
  Other(9, 0 :> Mbr(<<Fat(1, 4), Fat(6, 4), NoEntry, NoEntry>>) @@ 1 :> Fs(4)),
  Other(9, 0 :> Mbr(<<Fat(1, 4), Fat(1000, 4), NoEntry, NoEntry>>) @@ 1 :> Fs(4)),
  \* an empty MBR before an AHDI table, and neither
  Other(9, 0 :> [Mbr(NoTable) EXCEPT !.ahdi = <<Entry("other", 5, 20), Fat(1, 4), NoEntry, NoEntry>>] @@ 1 :> Fs(4)),
  Other(1, 0 :> Blank),
  \* a BPB with a number that does not fit its field, a file system without a cluster
  Other(12, 0 :> Mbr(<<Fat(1, 4), Fat(6, 4), NoEntry, NoEntry>>)
            @@ 1 :> [Fs(4) EXCEPT !.boot.cyl = 1000] @@ 6 :> [Fs(4) EXCEPT !.boot.spc = 2]),
  \* a second boot sector that has one FAT instead of two, or too few sectors
  Hybrid(1, 4, 14), Hybrid(2, 2, 3)
}
=============================================================================
