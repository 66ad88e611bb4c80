---------------------------- MODULE MCTProtocol ----------------------------
(* Instances of TProtocol for TLC.  A payload starts with the token; two    *)
(* attempts of one command differ in it, two commands of the same length    *)
(* differ in code and data.  The codes are CMD_SAVE_VECTORS-like values.    *)
EXTENDS TProtocol

MCCommands == {1025}
MCHeader   == 43981              \* 0xABCD
\* A token read for a size that was missed is odd in two of them; the last one
\* holds a data word that looks like a header.
MCPayloads == {<<1>>, <<7>>, <<8, MCHeader>>}
=============================================================================
