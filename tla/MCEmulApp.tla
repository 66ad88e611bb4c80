----------------------------- MODULE MCEmulApp -----------------------------
(* Two drive letters and two slots: enough for a conflict and for a cycle.  *)
EXTENDS EmulApp

MCLetters == {"C", "D"}
MCSlots   == {1, 2}
=============================================================================
