--------------------------- MODULE MCCommandLink ---------------------------
(* Instances of CommandLink for TLC: two commands, so that a result can be  *)
(* somebody else's, and five seeds, so that the counter wraps often.        *)
EXTENDS CommandLink
=============================================================================
