----------------------------- MODULE MCGemDrive -----------------------------
(* Instances of GemDrive for TLC: chunks of two bytes, so that three bytes    *)
(* take two of them.                                                         *)
EXTENDS GemDrive

CONSTANTS f1, f2, d1, d2

MCContents == [p \in {f1} |-> <<1, 2>>]
MCAsked    == {3}
MCData     == {<<1, 2>>}
MCSeeks    == {<<"set", 1>>, <<"cur", -1>>, <<"end", 0>>}
=============================================================================
