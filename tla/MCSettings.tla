----------------------------- MODULE MCSettings -----------------------------
(* Three releases: one adds a setting in the middle, and one drops a setting *)
(* and moves another.                                                       *)
EXTENDS Settings, TLC

CONSTANTS first, adds, drops, kA, kB, kC, on, off

Of(k) == [key |-> k, val |-> off]

MCDefaults == (first :> <<Of(kA), Of(kC)>>) @@ (adds :> <<Of(kA), Of(kB), Of(kC)>>)
                @@ (drops :> <<Of(kC), Of(kB)>>)
=============================================================================
