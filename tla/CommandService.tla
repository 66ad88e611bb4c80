--------------------------- MODULE CommandService ---------------------------
(***************************************************************************)
(* What a driver on the Atari may rely on when it calls send_sync: one      *)
(* command at a time, carried out before it is answered, and no effect of   *)
(* an older command after that.  A call may fail, and its command may have  *)
(* been carried out all the same, but not after the failure.  A command may *)
(* be carried out several times; a repetition of the last one leaves this   *)
(* state as it is, so it is a stuttering step here.                         *)
(***************************************************************************)
CONSTANTS Cmds,    \* the commands a driver can send
          NoCmd    \* not a command: what has been carried out at power-on

VARIABLES
  cur,     \* the command of the last call
  call,    \* "none", "open", or "answered": the token came back
  done,    \* the command has been carried out since the call
  effect   \* the command whose effects the shared memory holds

vars == <<cur, call, done, effect>>

Init == /\ cur = NoCmd
        /\ call = "none"
        /\ done = FALSE
        /\ effect = NoCmd

Submit(c) == /\ call = "none"
             /\ cur' = c
             /\ call' = "open"
             /\ done' = FALSE
             /\ UNCHANGED effect

Perform == /\ call = "open"
           /\ effect' = cur
           /\ done' = TRUE
           /\ UNCHANGED <<cur, call>>

Answer == /\ call = "open"
          /\ done
          /\ effect = cur
          /\ call' = "answered"
          /\ UNCHANGED <<cur, done, effect>>

\* The driver has read the results.
Return == /\ call = "answered"
          /\ effect = cur
          /\ call' = "none"
          /\ UNCHANGED <<cur, done, effect>>

Fail == /\ call = "open"
        /\ call' = "none"
        /\ UNCHANGED <<cur, done, effect>>

Next == \/ \E c \in Cmds : Submit(c)
        \/ Perform
        \/ Answer
        \/ Return
        \/ Fail

Spec == Init /\ [][Next]_vars
=============================================================================
