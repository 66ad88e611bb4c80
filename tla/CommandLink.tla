---------------------------- MODULE CommandLink ----------------------------
(***************************************************************************)
(* The command link between a driver in the Atari's ROM and the RP2040.     *)
(*                                                                         *)
(* Atari: send_sync_command_to_sidecart reads the seed, sends a frame that  *)
(* carries it and polls the token until it equals the seed it read; the     *)
(* send_sync macro repeats that up to CMD_RETRIES_COUNT + 1 times.          *)
(* RP2040: chandler_loop drains the ROM3 ring, keeps the first frame, runs  *)
(* the callbacks and publishes the frame's token with a new seed.           *)
(*                                                                         *)
(* A frame is one element of the ring: module TProtocol is about its words. *)
(* Seeds are numbered by publication: 0 is the random one an emulator's     *)
(* init writes, n the value n of incrementalCmdCount; this module assumes   *)
(* the random one is neither the initial token nor about to be counted to.  *)
(***************************************************************************)
EXTENDS Integers, Sequences

CONSTANTS
  Cmds,         \* the commands (code and payload without the token)
  NoCmd,        \* not a command
  CounterMod,   \* number of seed values before incrementalCmdCount wraps
  MaxTries,     \* CMD_RETRIES_COUNT + 1, the attempts of one send_sync
  MaxEarly,     \* bound: timeouts between two answers while one is owed
  Patient       \* callers give up only on commands the RP has never got

ASSUME LinkAssumption ==
  /\ NoCmd \notin Cmds
  /\ CounterMod \in Nat /\ CounterMod > 3
  /\ MaxTries \in Nat \ {0}
  /\ MaxEarly \in Nat
  /\ Patient \in BOOLEAN

Tokens  == 0 .. CounterMod - 1
NoToken == CounterMod                   \* TPROTO_SET_RANDOM_TOKEN(.., 0)
Frames  == [tok : Tokens, cmd : Cmds]
NoFrame == [tok |-> 0, cmd |-> NoCmd]   \* chandler_clear_pending_protocol

\* incrementalCmdCount++ on a uint32_t
Bump(n) == IF n = CounterMod - 1 THEN 0 ELSE n + 1

VARIABLES
  pc,       \* where the Atari is in send_sync
  cmd,      \* the command of the current, or last, send_sync
  tok,      \* d2: the seed read for the current attempt
  tries,    \* attempts started by the current send_sync
  early,    \* timeouts since the last answer that came before the RP was done
  ring,     \* frames in the ROM3 ring not yet consumed
  phase,    \* where the RP is in chandler_loop
  pending,  \* pendingProtocol
  token,    \* the word at CHANDLER_RANDOM_TOKEN_OFFSET
  seed,     \* the word at CHANDLER_RANDOM_TOKEN_SEED_OFFSET
  result,   \* whose results the shared memory holds: the last command run
  served    \* history: a command equal to cmd has run since it was issued

atariVars == <<pc, cmd, tok, tries, early>>
rpVars    == <<phase, pending, token, seed, result>>
vars      == <<atariVars, ring, rpVars, served>>

TypeOK ==
  /\ pc \in {"idle", "read", "send", "wait", "copy"}
  /\ cmd \in Cmds \cup {NoCmd}
  /\ tok \in Tokens
  /\ tries \in 0 .. MaxTries
  /\ early \in 0 .. MaxEarly
  /\ ring \in Seq(Frames)
  /\ phase \in {"poll", "run", "reply"}
  /\ pending \in Frames \cup {NoFrame}
  /\ (phase = "poll") <=> (pending = NoFrame)
  /\ token \in Tokens \cup {NoToken}
  /\ seed \in Tokens
  /\ result \in Cmds \cup {NoCmd}
  /\ served \in BOOLEAN
  /\ (pc # "idle") => (cmd \in Cmds)

Init ==
  /\ pc = "idle" /\ cmd = NoCmd /\ tok = 0 /\ tries = 0 /\ early = 0
  /\ ring = <<>>
  /\ phase = "poll" /\ pending = NoFrame
  /\ token = NoToken /\ seed = 0
  /\ result = NoCmd /\ served = FALSE
-----------------------------------------------------------------------------
(* Deviations a change to the code could introduce; no specification uses   *)
(* them, each shows that a property notices the mistake.                    *)

\* A driver that takes any new token for its own.
TokenFoundAny ==
  /\ pc = "wait"
  /\ token # NoToken
  /\ pc' = "copy"
  /\ early' = 0
  /\ UNCHANGED <<cmd, tok, tries, ring, rpVars, served>>

\* The answer is published when the frame is taken, before the callbacks run.
PollAnswersFirst ==
  /\ phase = "poll"
  /\ ring # <<>>
  /\ phase' = "run"
  /\ pending' = Head(ring)
  /\ ring' = <<>>
  /\ token' = Head(ring).tok
  /\ seed' = Bump(seed)
  /\ UNCHANGED <<atariVars, result, served>>

\* Draining stops at the newest frame and keeps the older ones for later.
PollNewestFirst ==
  /\ phase = "poll"
  /\ ring # <<>>
  /\ phase' = "run"
  /\ pending' = ring[Len(ring)]
  /\ ring' = SubSeq(ring, 1, Len(ring) - 1)
  /\ UNCHANGED <<atariVars, token, seed, result, served>>

\* The token is published without counting the command.
ReplySameSeed ==
  /\ phase = "reply"
  /\ phase' = "poll"
  /\ token' = pending.tok
  /\ pending' = NoFrame
  /\ UNCHANGED <<atariVars, ring, seed, result, served>>

\* An early return leaves the token unpublished.
ReplySilent ==
  /\ phase = "reply"
  /\ phase' = "poll"
  /\ pending' = NoFrame
  /\ UNCHANGED <<atariVars, ring, token, seed, result, served>>
-----------------------------------------------------------------------------
(* The Atari *)

\* A driver calls send_sync for c.
Issue(c) ==
  /\ pc = "idle"
  /\ pc' = "read"
  /\ cmd' = c
  /\ tries' = 1
  /\ served' = FALSE
  /\ UNCHANGED <<tok, early, ring, rpVars>>

\* move.l RANDOM_TOKEN_SEED_ADDR, d2
ReadSeed ==
  /\ pc = "read"
  /\ pc' = "send"
  /\ tok' = seed
  /\ UNCHANGED <<cmd, tries, early, ring, rpVars, served>>

\* The checksum word of the frame has gone out.
SendFrame ==
  /\ pc = "send"
  /\ pc' = "wait"
  /\ ring' = Append(ring, [tok |-> tok, cmd |-> cmd])
  /\ UNCHANGED <<cmd, tok, tries, early, rpVars, served>>

\* The parser dropped the frame: two polls split it and lie more than
\* PROTOCOL_READ_RESTART_MICROSECONDS apart, or its checksum did not match.
LoseFrame ==
  /\ pc = "send"
  /\ pc' = "wait"
  /\ UNCHANGED <<cmd, tok, tries, early, ring, rpVars, served>>

\* cmp.l (a1), d2: the token is the seed that was sent.
TokenFound ==
  /\ pc = "wait"
  /\ token = tok
  /\ pc' = "copy"
  /\ early' = 0
  /\ UNCHANGED <<cmd, tok, tries, ring, rpVars, served>>

\* The driver has read its results from the shared memory; send_sync is over.
CopyResult ==
  /\ pc = "copy"
  /\ pc' = "idle"
  /\ UNCHANGED <<cmd, tok, tries, early, ring, rpVars, served>>

\* The RP has a frame to run, or has not published the answer of the last one.
AnswerOwed == ring # <<>> \/ phase # "poll"

\* COMMAND_TIMEOUT loops without the token.  A timeout while an answer is
\* owed is one the RP was too slow for: MaxEarly bounds those.
TimedOut ==
  /\ pc = "wait"
  /\ token # tok
  /\ AnswerOwed => early < MaxEarly
  /\ early' = IF AnswerOwed THEN early + 1 ELSE early
  /\ UNCHANGED <<cmd, tok, ring, rpVars, served>>

\* dbf d7, retry
Retry ==
  /\ TimedOut
  /\ tries < MaxTries
  /\ tries' = tries + 1
  /\ pc' = "read"

\* The last attempt failed and the caller repeats the call.
Reissue ==
  /\ TimedOut
  /\ tries = MaxTries
  /\ tries' = 1
  /\ pc' = "read"

\* The last attempt failed and the caller returns an error to GEMDOS.  If the
\* tries of a call last longer than the RP needs for a frame (Patient), nothing
\* of the call is left to be answered then.
GiveUp ==
  /\ TimedOut
  /\ tries = MaxTries
  /\ Patient => ~AnswerOwed
  /\ pc' = "idle"
  /\ UNCHANGED tries
-----------------------------------------------------------------------------
(* The RP2040 *)

\* commemul_poll drains the ring; handle_protocol_command copies the first
\* frame into pendingProtocol and ignores the others.
Poll ==
  /\ phase = "poll"
  /\ ring # <<>>
  /\ phase' = "run"
  /\ pending' = Head(ring)
  /\ ring' = <<>>
  /\ UNCHANGED <<atariVars, token, seed, result, served>>

\* The callbacks run the command and leave its results in shared memory.
Execute ==
  /\ phase = "run"
  /\ phase' = "reply"
  /\ result' = pending.cmd
  /\ served' = (served \/ pending.cmd = cmd)
  /\ UNCHANGED <<atariVars, ring, pending, token, seed>>

\* incrementalCmdCount++, TPROTO_SET_RANDOM_TOKEN64, clear the pending slot.
Reply ==
  /\ phase = "reply"
  /\ phase' = "poll"
  /\ token' = pending.tok
  /\ seed' = Bump(seed)
  /\ pending' = NoFrame
  /\ UNCHANGED <<atariVars, ring, result, served>>
-----------------------------------------------------------------------------
Atari == \/ \E c \in Cmds : Issue(c)
         \/ ReadSeed \/ SendFrame \/ LoseFrame
         \/ TokenFound \/ CopyResult
         \/ Retry \/ Reissue \/ GiveUp
Rp    == Poll \/ Execute \/ Reply
Next  == Atari \/ Rp

Spec == Init /\ [][Next]_vars

(***************************************************************************)
(* Both processors keep running: core 0 spins in chandler_loop and the      *)
(* 68000 in the wait loop or its macro.  A frame is lost only when a poll   *)
(* splits it, so of infinitely many attempts some arrive: strong fairness   *)
(* of SendFrame.  Nothing obliges a driver to issue a command.              *)
(***************************************************************************)
FairSpec ==
  /\ Spec
  /\ WF_vars(Rp)
  /\ WF_vars(ReadSeed) /\ WF_vars(SendFrame \/ LoseFrame) /\ SF_vars(SendFrame)
  /\ WF_vars(TokenFound) /\ WF_vars(CopyResult)
  /\ WF_vars(Retry \/ Reissue \/ GiveUp)
-----------------------------------------------------------------------------
(* Properties *)

Queued == {ring[i] : i \in DOMAIN ring} \cup
          (IF phase = "poll" THEN {} ELSE {pending})

\* The token in memory is never the seed a new attempt would read: an old
\* answer cannot complete an attempt that has sent nothing (chandler.c
\* publishes the token and the next seed together).
TokenFresh == token # seed

\* send_sync returns success only for a command that was run after the call,
\* and the results the driver then copies from shared memory are that
\* command's own, whatever the RP still does with retransmissions of it.
AckMeansExecuted == pc = "copy" => served /\ result = cmd

\* A command that has run is not followed by a run of any other until the
\* driver issues one: no late copy of an older command changes what it did.
NothingStaleBehind == served => \A f \in Queued : f.cmd = cmd

\* Every send_sync returns, with an answer or an error (needs FairSpec).
Answered == (pc = "read") ~> (pc \in {"copy", "idle"})

\* Drivers that keep calling, though each may give up, keep getting answers
\* (needs FairSpec).
KeepsAnswering == ([]<>(pc = "read")) => []<>(pc = "copy")

-----------------------------------------------------------------------------
(***************************************************************************)
(* The inductive invariant.  Age(t) counts the answers published since t    *)
(* was the seed.  A poll empties the ring and only a polled frame is        *)
(* answered, so no token in flight gets older than three answers: that is   *)
(* why a wrapping counter is harmless.                                      *)
(***************************************************************************)
AgeFrom(s, t) == IF t <= s THEN s - t ELSE s + CounterMod - t
Age(t) == AgeFrom(seed, t)

Busy    == IF phase = "poll" THEN 0 ELSE 1
Backlog == IF ring = <<>> THEN 0 ELSE 1
Sent    == pc \in {"send", "wait", "copy"}     \* tok is the current attempt's

\* How old the tokens in each place can be.
AgeBounds ==
  /\ pc = "send" => Age(tok) + Busy + Backlog <= 2
  /\ \A i \in 1 .. Len(ring) : Age(ring[i].tok) + Busy <= 2
  /\ phase # "poll" => Age(pending.tok) <= 2
  /\ token # NoToken => Age(token) \in 1 .. 3

\* Frames are sent, run and answered in the order their seeds were read.
AgeOrder ==
  /\ \A i, j \in 1 .. Len(ring) : i < j => Age(ring[i].tok) >= Age(ring[j].tok)
  /\ \A i \in 1 .. Len(ring) :
       /\ phase # "poll" => Age(pending.tok) >= Age(ring[i].tok)
       /\ token # NoToken => Age(token) >= Age(ring[i].tok)
       /\ Sent => Age(ring[i].tok) >= Age(tok)
  /\ phase # "poll" /\ token # NoToken => Age(token) >= Age(pending.tok)
  /\ phase # "poll" /\ Sent => Age(pending.tok) >= Age(tok)
  /\ token # NoToken /\ Sent => Age(token) >= Age(tok)

\* The tokens of the current call, and no others, answer it.
MineAt(f) ==
  /\ Sent => (f.tok = tok => f.cmd = cmd)
  /\ pc = "read" => (f.tok = seed => f.cmd = cmd)
  /\ pc = "idle" => f.tok # seed

TokenOwner ==
  /\ \A i \in 1 .. Len(ring) : MineAt(ring[i])
  /\ phase # "poll" => MineAt(pending)
  /\ phase = "reply" =>
       /\ result = pending.cmd
       /\ Sent /\ pending.tok = tok => served
       /\ pc = "read" /\ pending.tok = seed => served
  /\ Sent /\ token = tok => served
  /\ pc = "copy" => token = tok

\* Of the commands queued, those of the previous call come first, and they
\* have been run before.
CallOrder ==
  /\ \A i, j \in 1 .. Len(ring) :
       i < j /\ ring[i].cmd = cmd => ring[j].cmd = cmd
  /\ \A i \in 1 .. Len(ring) :
       /\ phase # "poll" /\ pending.cmd = cmd => ring[i].cmd = cmd
       /\ ring[i].cmd \in {cmd, result}
       /\ served => ring[i].cmd = cmd
  /\ phase # "poll" =>
       /\ pending.cmd \in {cmd, result}
       /\ served => pending.cmd = cmd
  /\ served => result = cmd
  /\ pc = "idle" => served \/ (ring = <<>> /\ phase = "poll")

LinkInv ==
  /\ TypeOK
  /\ AgeBounds
  /\ AgeOrder
  /\ Patient => TokenOwner /\ CallOrder
-----------------------------------------------------------------------------
CallState == IF pc = "idle" THEN "none" ELSE IF pc = "copy" THEN "answered" ELSE "open"

Service == INSTANCE CommandService
  WITH cur <- cmd, call <- CallState, done <- served, effect <- result

\* The link implements the service of module CommandService.
ImplementsService == Service!Spec
=============================================================================
