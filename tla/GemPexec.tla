------------------------------ MODULE GemPexec ------------------------------
(***************************************************************************)
(* Starting programs from the GEMDOS drive: the Pexec of gemdrive.s, which   *)
(* loads the program itself, with the RP keeping its parameters between the  *)
(* steps (gemdrive.c), and what happens when the program ends.               *)
(*                                                                         *)
(* TOS is external: it gives a new program a block of memory with the        *)
(* basepage at its start, runs it on top of the one that started it, and     *)
(* when it ends frees the blocks it owns and goes on after the Pexec.        *)
(* TOS 1.04 and later can make the new program the owner of its block        *)
(* (PE_GO_AND_FREE); on TOS 1.00 and 1.02 the block stays with its starter,  *)
(* and the driver takes over the return from Pexec to free it.               *)
(***************************************************************************)
EXTENDS Sequences, FiniteSets, Integers

CONSTANTS
  Pages,     \* basepages: a program is known by the address of its own
  Desktop,   \* the program TOS starts first
  MaxDepth,  \* bound: programs that run on top of one another
  NoPage,
  Inside,    \* parameters on the driver's stack, not on a program's
  Handles,   \* bound: files the RP has open at a time
  NoHandle

ASSUME PexecAssumption ==
  /\ Desktop \notin Pages /\ NoPage \notin Pages \cup {Desktop} /\ MaxDepth \in Nat
  /\ Inside \notin Pages \cup {Desktop, NoPage} /\ NoHandle \notin Handles

VARIABLES
  newTos,   \* SVERSION is at least $1500
  stack,    \* the programs, the running one last
  owner,    \* TOS' memory: who owns each block that is allocated
  shared,   \* the RP's shared memory: PEXEC_MODE, PEXEC_STACK_ADDR, EXEC_PD, PEXEC_RESTORE
  locked,   \* REENTRY_TRAP: GEMDOS calls pass the driver by
  opened,   \* handles of the program files open on the RP
  handle,   \* the RP's shared memory: FOPEN_HANDLE
  stranded, \* history: handles of Pexecs that TOS cut short
  call,     \* the Pexec the driver is in
  spoilt,   \* history: trapped programs after which another was loaded
  amiss     \* history: programs that ended without their block freed or their starter running

vars == <<newTos, stack, owner, shared, locked, opened, handle, stranded, call, spoilt, amiss>>

Idle == [at |-> "none", mode |-> "none", pd |-> NoPage]
Top  == stack[Len(stack)]
Below == SubSeq(stack, 1, Len(stack) - 1)

\* drive: the program's current drive; gem: the driver started it;
\* trapped: its end leads to pexec_mshrink_exit
Program(pd, drive, gem, trapped) ==
  [pd |-> pd, drive |-> drive, gem |-> gem, trapped |-> trapped]

Init ==
  /\ newTos \in BOOLEAN
  /\ stack = <<Program(Desktop, "ours", FALSE, FALSE)>>
  /\ owner = [p \in {} |-> Desktop]
  /\ shared = [mode |-> "none", frame |-> NoPage, pd |-> NoPage, restore |-> NoPage]
  /\ locked = FALSE /\ opened = {} /\ handle = NoHandle /\ call = Idle
  /\ spoilt = {} /\ amiss = {} /\ stranded = {}
-----------------------------------------------------------------------------
(* TOS *)

Allocated == DOMAIN owner
Give(p, who) == [q \in Allocated \cup {p} |-> IF q = p THEN who ELSE owner[q]]
Free(o, ps)  == [q \in DOMAIN o \ ps |-> o[q]]
OwnedBy(pd)  == {p \in Allocated : owner[p] = pd}

Fresh == Pages \ Allocated

Runs(program) == Len(stack) < MaxDepth /\ stack' = Append(stack, program)

\* The program sets its current drive.
Dsetdrv ==
  /\ call = Idle
  /\ \E d \in {"ours", "other"} \ {Top.drive} : stack' = [stack EXCEPT ![Len(stack)].drive = d]
  /\ UNCHANGED <<newTos, owner, shared, locked, opened, handle, stranded, call, spoilt, amiss>>

\* The program that runs ends: TOS frees what it owns and returns to the one below,
\* or to the driver.
ProgramEnds ==
  /\ owner' = Free(owner, OwnedBy(Top.pd))
  /\ stack' = Below
  /\ IF Top.trapped
     THEN call' = [Idle EXCEPT !.at = "freed", !.pd = Top.pd] /\ UNCHANGED amiss
     ELSE /\ amiss' = IF Top.gem /\ Top.pd \in DOMAIN owner' THEN amiss \cup {Top.pd} ELSE amiss
          /\ call' = Idle

\* TOS' own Pexec: a program of another drive is loaded, or loaded and started,
\* or one that is loaded is started; or it fails.
TosPexec(mode) ==
  \/ UNCHANGED <<owner, stack>>
  \/ \E p \in Fresh :
       \/ mode = "load" /\ owner' = Give(p, Top.pd) /\ UNCHANGED stack
       \/ mode = "loadgo" /\ owner' = Give(p, p) /\ Runs(Program(p, Top.drive, FALSE, FALSE))
  \/ \E p \in OwnedBy(Top.pd) \ {stack[i].pd : i \in DOMAIN stack} :
       mode = "go" /\ Runs(Program(p, Top.drive, FALSE, FALSE)) /\ UNCHANGED owner
-----------------------------------------------------------------------------
(* Pexec in the driver *)

\* The driver looks at the current drive: a4 holds the parameters, not the name.
Served == Top.drive = "ours"

\* It tells the RP, and loads the program itself for PE_LOAD_GO and PE_LOAD.
Pexec ==
  /\ call = Idle
  /\ \E mode \in {"loadgo", "load", "go"} :
       /\ shared' = IF Served THEN [shared EXCEPT !.mode = mode, !.frame = Top.pd] ELSE shared
       /\ IF Served /\ mode # "go"
          THEN call' = [Idle EXCEPT !.at = "open", !.mode = mode] /\ UNCHANGED <<owner, stack>>
          ELSE TosPexec(mode) /\ UNCHANGED call
  /\ UNCHANGED <<newTos, locked, opened, handle, stranded, spoilt, amiss>>

At(step)   == call.at = step
Goto(step) == call' = [call EXCEPT !.at = step]

Fopen ==
  /\ At("open")
  /\ \/ \E h \in Handles \ opened :
          opened' = opened \cup {h} /\ handle' = h /\ Goto("header")
     \/ call' = Idle /\ handle' = NoHandle /\ UNCHANGED opened
  /\ UNCHANGED <<newTos, stack, owner, shared, locked, stranded, spoilt, amiss>>

\* Deviation: GEMDOS is called with the driver still in the way.
LockedNot == FALSE

\* reentry_gem_lock
Locked == TRUE

\* The file has a whole header with the right magic, or is no program.
ReadHeader ==
  /\ At("header")
  /\ \/ Goto("base") /\ locked' = Locked
     \/ Goto("nogo") /\ UNCHANGED locked
  /\ UNCHANGED <<newTos, stack, owner, shared, opened, handle, stranded, spoilt, amiss>>

\* Pexec(PE_CREATE_BASEPAGE), and the lock is off.  A call the driver does not let
\* pass goes through it first.
InnerPexec ==
  /\ At("base")
  /\ shared' = IF locked THEN shared ELSE [shared EXCEPT !.mode = "base", !.frame = Inside]
  /\ locked' = FALSE

\* The block belongs to the program that runs.
CreateBasepage ==
  /\ InnerPexec
  /\ \E p \in Fresh :
       /\ owner' = Give(p, Top.pd)
       /\ call' = [call EXCEPT !.at = "save", !.pd = p]
  /\ UNCHANGED <<newTos, stack, opened, handle, stranded, spoilt, amiss>>

\* TOS has no memory for it.  The driver does not look at what Pexec returned and
\* writes the sizes of the segments where that points to, which the processor refuses: TOS
\* ends the program that called, or starts the desktop anew.
NoBasepage ==
  /\ InnerPexec
  /\ IF Len(stack) > 1 THEN ProgramEnds
     ELSE owner' = Free(owner, OwnedBy(Top.pd)) /\ call' = Idle /\ UNCHANGED <<stack, amiss>>
  /\ stranded' = stranded \cup {handle}
  /\ UNCHANGED <<newTos, opened, handle, spoilt>>

Trapped == {stack[i].pd : i \in {i \in DOMAIN stack : stack[i].trapped}}

\* GEMDRVEMUL_SAVE_BASEPAGE
SaveBasepage ==
  /\ At("save")
  /\ shared' = [shared EXCEPT !.pd = call.pd]
  /\ spoilt' = spoilt \cup Trapped
  /\ Goto("rest")
  /\ UNCHANGED <<newTos, stack, owner, locked, opened, handle, stranded, amiss>>

\* The rest of the file is read, whatever comes of it, and the file closed, which
\* cannot fail for a file that is only read.
CloseFile ==
  /\ At("rest")
  /\ opened' = opened \ {handle}
  /\ Goto("go")
  /\ UNCHANGED <<newTos, stack, owner, shared, locked, handle, stranded, spoilt, amiss>>

\* Deviation: a file that is no program is left open.
LeavesFile == opened

\* pexec_close_exit_fix_hdr_buf: the file is closed, and Pexec returns the status
\* of that: 0.
ClosesFile == opened \ {handle}

NoProgram ==
  /\ At("nogo")
  /\ opened' = ClosesFile
  /\ call' = Idle
  /\ UNCHANGED <<newTos, stack, owner, shared, locked, handle, stranded, spoilt, amiss>>

\* Deviation: PE_GO is taken to free the block.
WithoutTrap == FALSE

\* Without PE_GO_AND_FREE the return from Pexec is the driver's.
TrapsExit == ~newTos

\* pexec_pexec_go: PE_LOAD returns the basepage; otherwise the caller's parameters
\* become those of PE_GO_AND_FREE or of PE_GO, and TOS starts the program.
Go ==
  /\ At("go")
  /\ call' = Idle
  /\ IF shared.mode = "load"
     THEN UNCHANGED <<stack, owner, shared>>
     ELSE /\ Runs(Program(shared.pd, Top.drive, TRUE, TrapsExit))
          /\ owner' = IF newTos THEN Give(shared.pd, shared.pd) ELSE owner
          /\ shared' = IF TrapsExit THEN [shared EXCEPT !.restore = Top.pd] ELSE shared
  /\ UNCHANGED <<newTos, locked, opened, handle, stranded, spoilt, amiss>>
-----------------------------------------------------------------------------
(* The end of a program *)

\* Pterm and Pterm0
Pterm ==
  /\ call = Idle /\ Len(stack) > 1
  /\ ProgramEnds
  /\ UNCHANGED <<newTos, shared, locked, opened, handle, stranded, spoilt>>

\* pexec_mshrink_exit: the block of EXEC_PD is freed and PEXEC_RESTORE jumped to.
\* If that is not in the program that runs, nothing can be said of what follows.
MshrinkExit ==
  /\ At("freed")
  /\ owner' = Free(owner, {shared.pd})
  /\ amiss' = IF shared.pd = call.pd /\ shared.restore = Top.pd THEN amiss
              ELSE amiss \cup {call.pd}
  /\ IF shared.restore = Top.pd THEN call' = Idle ELSE Goto("astray")
  /\ UNCHANGED <<newTos, stack, shared, locked, opened, handle, stranded, spoilt>>

\* The Atari is reset: the driver unlocks and the RP closes its files, all of them
\* only read; EXEC_PD and the rest stay.
Reboot ==
  /\ stack' = <<Program(Desktop, "ours", FALSE, FALSE)>>
  /\ owner' = [p \in {} |-> Desktop]
  /\ locked' = FALSE /\ opened' = {} /\ call' = Idle
  /\ spoilt' = {} /\ amiss' = {} /\ stranded' = {}
  /\ UNCHANGED <<newTos, shared, handle>>

Driver == \/ Fopen \/ ReadHeader \/ CreateBasepage \/ NoBasepage \/ SaveBasepage
          \/ CloseFile \/ NoProgram \/ Go \/ MshrinkExit

Next == Dsetdrv \/ Pexec \/ Driver \/ Pterm \/ Reboot

Spec == Init /\ [][Next]_vars
-----------------------------------------------------------------------------
(* Properties *)

Programs == Pages \cup {Desktop}

\* The stack of programs is never empty, blocks of memory are basepages, and the
\* driver and the RP hold what their fields are for.
Steps == {"none", "open", "header", "base", "save", "rest", "go", "nogo", "freed", "astray"}
PexecModes == {"none", "loadgo", "load", "go"}

ProgramType ==
  [pd : Programs, drive : {"ours", "other"}, gem : BOOLEAN, trapped : BOOLEAN]

CallType == [at : Steps, mode : PexecModes, pd : Pages \cup {Desktop, NoPage}]
SharedType ==
  [mode : PexecModes \cup {"base"}, frame : Pages \cup {Desktop, NoPage, Inside},
   pd : Pages \cup {Desktop, NoPage}, restore : Pages \cup {Desktop, NoPage}]

TypeOK ==
  /\ stack \in Seq(ProgramType) /\ Len(stack) > 0
  /\ DOMAIN owner \subseteq Pages
  /\ call \in CallType /\ shared \in SharedType
  /\ newTos \in BOOLEAN /\ locked \in BOOLEAN
  /\ opened \subseteq Handles /\ stranded \subseteq Handles /\ handle \in Handles \cup {NoHandle}

\* A program that the driver started ends with its own block freed and its
\* starter running: on any TOS with PE_GO_AND_FREE, whatever it starts or loads in
\* between, and on an older one unless the driver loaded another program for it.
ExitsClean == amiss \subseteq spoilt /\ (newTos => spoilt = {})

\* While a Pexec is under way, what the RP keeps of it is its own, though the
\* driver calls Pexec again in its middle: it starts or only loads as it was
\* asked to, writes to its caller's parameters, and starts the block it loaded.
OwnParameters ==
  /\ call.at \in {"open", "header", "base", "save", "rest", "go"} =>
       shared.mode = call.mode /\ shared.frame = Top.pd
  /\ call.at \in {"rest", "go"} => shared.pd = call.pd

\* However a Pexec ends, and wherever a reset cuts it short, GEMDOS calls go to the
\* driver again and the file it opened is closed on the RP - but for a Pexec that
\* TOS had no memory for, when the program that called is ended inside the driver:
\* its file stays open until a reset, and no later Pexec takes its handle for its own.
PexecTidy == call = Idle => ~locked /\ opened = stranded
=============================================================================
