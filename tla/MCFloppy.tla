------------------------------ MODULE MCFloppy ------------------------------
(* Instances of Floppy for TLC.  Sector 1 or 2 is a root directory, 0 the    *)
(* boot sector, and 3 lies beyond the end of every image.                   *)
EXTENDS Floppy

CONSTANTS imgA, imgB, imgC, imgW

MCSize == [i \in Images |-> 3]
MCRoot == [i \in Images |-> IF i = imgC THEN 2 ELSE 1]
MCRootMalformed == [MCRoot EXCEPT ![imgB] = 0]

\* Three images, and an empty slot between them.
MCThreeSlots == <<imgA, NoImage, imgB, imgC>>
\* Only two slots.
MCTwoSlots == <<imgA, imgB>>
=============================================================================
