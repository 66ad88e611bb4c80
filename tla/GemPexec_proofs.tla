--------------------------- MODULE GemPexec_proofs ---------------------------
(* Proofs about GemPexec: what the RP keeps of a Pexec stays that Pexec's, a   *)
(* Pexec leaves nothing behind, and programs end cleanly - for any number of   *)
(* blocks of memory and of programs on top of one another, on both kinds of    *)
(* TOS.                                                                      *)
EXTENDS GemPexec, TLAPS

\* The lock is set for the inner Pexec only, and the file open between its opening
\* and its closing, with a handle that no other has.
Held ==
  /\ locked <=> call.at = "base"
  /\ IF call.at \in {"header", "base", "save", "rest", "nogo"}
     THEN handle \in Handles \ stranded /\ opened = stranded \cup {handle}
     ELSE opened = stranded

\* A block that is being loaded is allocated, and no program runs in it.
Loading ==
  call.at \in {"save", "rest", "go"} =>
    call.pd \in DOMAIN owner /\ (newTos => \A i \in DOMAIN stack : stack[i].pd # call.pd)

\* On a new TOS nothing is trapped.  The programs are in blocks of their own, of
\* which each belongs to its program or to one below, and to its program if the
\* driver started that.
NewTos ==
  newTos =>
    /\ spoilt = {} /\ amiss = {} /\ call.at \notin {"freed", "astray"}
    /\ \A i \in DOMAIN stack : ~stack[i].trapped
    /\ \A i, j \in DOMAIN stack : i # j => stack[i].pd # stack[j].pd
    /\ stack[1].pd = Desktop /\ ~stack[1].gem
    /\ \A i \in DOMAIN stack : i > 1 =>
         /\ stack[i].pd \in DOMAIN owner
         /\ \E j \in 1 .. i : owner[stack[i].pd] = stack[j].pd
         /\ stack[i].gem => owner[stack[i].pd] = stack[i].pd

\* On an old TOS the RP has the block and the return address of the only trapped
\* program that is not spoilt, until another is loaded.
OldTos ==
  ~newTos =>
    /\ amiss \subseteq spoilt
    /\ ~stack[1].trapped
    /\ \A i \in DOMAIN stack : stack[i].gem => stack[i].trapped
    /\ \A i \in DOMAIN stack :
         stack[i].trapped /\ stack[i].pd \notin spoilt =>
           shared.pd = stack[i].pd /\ shared.restore = stack[i - 1].pd
    /\ call.at \in {"rest", "go"} => Trapped \subseteq spoilt
    /\ call.at = "freed" /\ call.pd \notin spoilt =>
         shared.pd = call.pd /\ shared.restore = Top.pd

IInv == TypeOK /\ Held /\ OwnParameters /\ Loading /\ NewTos /\ OldTos
-----------------------------------------------------------------------------
LEMMA Single == ASSUME NEW S, NEW x \in S PROVE <<x>> \in Seq(S)
OBVIOUS

LEMMA IdleType == Idle \in CallType
BY DEF Idle, CallType, Steps, PexecModes

LEMMA StepType == ASSUME call \in CallType, NEW step \in Steps, Goto(step) PROVE call' \in CallType
BY DEF Goto, CallType

LEMMA Started == Init => IInv
<1> SUFFICES ASSUME Init PROVE IInv OBVIOUS
<1>1. /\ stack = <<Program(Desktop, "ours", FALSE, FALSE)>> /\ Len(stack) = 1 /\ DOMAIN stack = {1}
      /\ stack[1] = Program(Desktop, "ours", FALSE, FALSE)
  BY DEF Init
<1>2. Program(Desktop, "ours", FALSE, FALSE) \in ProgramType
  BY DEF Program, ProgramType, Programs
<1>3. stack \in Seq(ProgramType) BY <1>1, <1>2, Single
<1>4. TypeOK
  <2>1. DOMAIN owner = {} BY DEF Init
  <2>2. call \in CallType BY IdleType DEF Init
  <2>3. shared \in SharedType BY DEF Init, SharedType, PexecModes
  <2>4. newTos \in BOOLEAN /\ locked \in BOOLEAN BY DEF Init
  <2>6. opened \subseteq Handles /\ stranded \subseteq Handles /\ handle \in Handles \cup {NoHandle}
    BY DEF Init
  <2>5. Len(stack) > 0 /\ DOMAIN owner \subseteq Pages BY <1>1, <2>1
  <2> QED BY <1>3, <2>2, <2>3, <2>4, <2>5, <2>6 DEF TypeOK
<1>5. Held /\ OwnParameters /\ Loading BY DEF Init, Held, OwnParameters, Loading, Idle
<1>6. NewTos BY <1>1 DEF Init, NewTos, Idle, Program
<1>7. OldTos BY <1>1 DEF Init, OldTos, Idle, Program, Trapped
<1> QED BY <1>4, <1>5, <1>6, <1>7 DEF IInv

\* What putting a program on top does to the stack, and taking it off.
LEMMA Pushed ==
  ASSUME NEW s \in Seq(ProgramType), NEW p \in ProgramType
  PROVE  /\ Append(s, p) \in Seq(ProgramType) /\ Len(Append(s, p)) = Len(s) + 1
         /\ DOMAIN Append(s, p) = 1 .. Len(s) + 1 /\ DOMAIN s = 1 .. Len(s)
         /\ \A i \in 1 .. Len(s) : Append(s, p)[i] = s[i]
         /\ Append(s, p)[Len(s) + 1] = p /\ Len(s) \in Nat
OBVIOUS

LEMMA Popped ==
  ASSUME TypeOK, Len(stack) > 1
  PROVE  /\ Below \in Seq(ProgramType) /\ Len(Below) = Len(stack) - 1
         /\ DOMAIN Below = 1 .. Len(stack) - 1 /\ DOMAIN stack = 1 .. Len(stack)
         /\ \A i \in 1 .. Len(stack) - 1 : Below[i] = stack[i]
         /\ Len(stack) \in Nat
<1>1. stack \in Seq(ProgramType) BY DEF TypeOK
<1>2. Len(stack) \in Nat BY <1>1
<1> QED BY <1>1, <1>2 DEF Below
-----------------------------------------------------------------------------
(* The steps                                                                *)

\* The current drive is of no concern to the rest.
LEMMA DsetdrvKeeps == ASSUME IInv, Dsetdrv PROVE IInv'
<1> USE DEF IInv
<1>1. PICK d \in {"ours", "other"} : stack' = [stack EXCEPT ![Len(stack)].drive = d]
  BY DEF Dsetdrv
<1>2. stack \in Seq(ProgramType) /\ Len(stack) \in Nat /\ Len(stack) > 0 /\ DOMAIN stack = 1 .. Len(stack)
  BY DEF TypeOK
<1>3. [stack[Len(stack)] EXCEPT !.drive = d] \in ProgramType
  <2>1. stack[Len(stack)] \in ProgramType BY <1>2
  <2> QED BY <2>1 DEF ProgramType
<1>4. stack' \in Seq(ProgramType) /\ Len(stack') = Len(stack) /\ DOMAIN stack' = DOMAIN stack
  BY <1>1, <1>2, <1>3
<1>5. \A i \in DOMAIN stack : /\ stack'[i].pd = stack[i].pd /\ stack'[i].gem = stack[i].gem
                              /\ stack'[i].trapped = stack[i].trapped
  BY <1>1, <1>2 DEF ProgramType
<1>6. Top'.pd = Top.pd BY <1>2, <1>4, <1>5 DEF Top
<1>7. Trapped' = Trapped BY <1>4, <1>5 DEF Trapped
<1>8. TypeOK' BY <1>4, <1>2 DEF TypeOK, Dsetdrv
<1>9. Held' /\ OwnParameters' BY <1>6 DEF Held, OwnParameters, Dsetdrv
<1>10. Loading' BY <1>4, <1>5 DEF Loading, Dsetdrv
<1>11. NewTos' BY <1>2, <1>4, <1>5 DEF NewTos, Dsetdrv
<1>12. OldTos'
  <2>1. \A i \in DOMAIN stack : stack[i].trapped /\ ~newTos => i - 1 \in DOMAIN stack
    BY <1>2 DEF OldTos
  <2> QED BY <1>2, <1>4, <1>5, <1>6, <1>7, <2>1 DEF OldTos, Dsetdrv
<1> QED BY <1>8, <1>9, <1>10, <1>11, <1>12

\* Steps of the driver that only go on.
LEMMA StepKeeps ==
  ASSUME IInv, Fopen \/ ReadHeader \/ CloseFile \/ NoProgram PROVE IInv'
<1> USE DEF IInv
<1>1. UNCHANGED <<newTos, stack, owner, shared, spoilt, amiss>> /\ Trapped' = Trapped /\ Top' = Top
  BY DEF Fopen, ReadHeader, CloseFile, NoProgram, Trapped, Top
<1>2. TypeOK'
  <2>1. call' \in CallType
    <3>1. CASE call' = Idle BY <3>1, IdleType
    <3>2. CASE Goto("header") \/ Goto("base") \/ Goto("nogo") \/ Goto("go")
      BY <3>2, StepType DEF TypeOK, Steps
    <3> QED BY <3>1, <3>2 DEF Fopen, ReadHeader, CloseFile, NoProgram
  <2>2. /\ locked' \in BOOLEAN /\ opened' \subseteq Handles /\ stranded' \subseteq Handles
        /\ handle' \in Handles \cup {NoHandle}
    BY DEF TypeOK, Fopen, ReadHeader, CloseFile, NoProgram, Locked, ClosesFile
  <2> QED BY <1>1, <2>1, <2>2 DEF TypeOK
<1>3. OwnParameters'
  BY <1>1 DEF TypeOK, CallType, OwnParameters, Fopen, ReadHeader, CloseFile, NoProgram, Goto, At, Idle
<1>7. Held'
  <2>1. CASE Fopen BY <2>1 DEF TypeOK, CallType, Held, Fopen, Goto, At, Idle
  <2>2. CASE ReadHeader BY <2>2 DEF TypeOK, CallType, Held, ReadHeader, Goto, At, Locked
  <2>3. CASE CloseFile BY <2>3 DEF TypeOK, CallType, Held, CloseFile, Goto, At
  <2>4. CASE NoProgram BY <2>4 DEF TypeOK, Held, NoProgram, At, Idle, ClosesFile
  <2> QED BY <2>1, <2>2, <2>3, <2>4
<1>4. Loading' BY <1>1 DEF TypeOK, CallType, Loading, Fopen, ReadHeader, CloseFile, NoProgram, Goto, At, Idle
<1>5. NewTos' BY <1>1 DEF TypeOK, CallType, NewTos, Fopen, ReadHeader, CloseFile, NoProgram, Goto, At, Idle
<1>6. OldTos' BY <1>1 DEF TypeOK, CallType, OldTos, Fopen, ReadHeader, CloseFile, NoProgram, Goto, At, Idle
<1> QED BY <1>2, <1>3, <1>4, <1>5, <1>6, <1>7

\* A free block is in no program's use on a new TOS.
LEMMA FreshIsUnused ==
  ASSUME IInv, newTos, NEW p \in Fresh PROVE \A i \in DOMAIN stack : stack[i].pd # p
<1>1. \A i \in DOMAIN stack : i > 1 \/ i = 1 BY DEF IInv, TypeOK
<1> QED BY <1>1, PexecAssumption DEF IInv, NewTos, Fresh, Allocated

LEMMA CreateKeeps == ASSUME IInv, CreateBasepage PROVE IInv'
<1> USE DEF IInv
<1>1. PICK p \in Fresh : owner' = Give(p, Top.pd) /\ call' = [call EXCEPT !.at = "save", !.pd = p]
  BY DEF CreateBasepage
<1>2. p \in Pages /\ p \notin DOMAIN owner BY DEF Fresh, Allocated
<1>3. /\ DOMAIN owner' = DOMAIN owner \cup {p}
      /\ \A q \in DOMAIN owner : owner'[q] = owner[q]
  BY <1>1, <1>2 DEF Give, Allocated
<1>4. /\ UNCHANGED <<newTos, stack, opened, handle, stranded, spoilt, amiss>> /\ shared' = shared /\ ~locked'
      /\ Trapped' = Trapped /\ Top' = Top
  BY DEF CreateBasepage, InnerPexec, Held, At, Trapped, Top
<1>5. call.at = "base" BY DEF CreateBasepage, InnerPexec, At
<1>6. TypeOK' BY <1>1, <1>2, <1>3, <1>4 DEF TypeOK, CallType, Steps, CreateBasepage, InnerPexec
<1>7. Held' /\ OwnParameters' BY <1>1, <1>4, <1>5 DEF TypeOK, Held, OwnParameters
<1>8. Loading' BY <1>1, <1>3, <1>4, FreshIsUnused DEF TypeOK, Loading
<1>9. NewTos' BY <1>1, <1>2, <1>3, <1>4 DEF TypeOK, NewTos
<1>10. OldTos' BY <1>1, <1>4 DEF TypeOK, OldTos
<1> QED BY <1>6, <1>7, <1>8, <1>9, <1>10

LEMMA SaveKeeps == ASSUME IInv, SaveBasepage PROVE IInv'
<1> USE DEF IInv
<1>1. /\ UNCHANGED <<newTos, stack, owner, locked, opened, handle, stranded, amiss>> /\ spoilt' = spoilt \cup Trapped
      /\ shared' = [shared EXCEPT !.pd = call.pd] /\ call' = [call EXCEPT !.at = "rest"]
      /\ call.at = "save" /\ Trapped' = Trapped /\ Top' = Top
  BY DEF SaveBasepage, Goto, At, Trapped, Top
<1>2. TypeOK' BY <1>1 DEF TypeOK, CallType, SharedType, Steps
<1>3. Held' /\ OwnParameters' BY <1>1 DEF TypeOK, CallType, SharedType, Held, OwnParameters
<1>4. Loading' BY <1>1 DEF TypeOK, CallType, Loading
<1>5. NewTos'
  <2>1. newTos => Trapped = {} BY DEF NewTos, Trapped
  <2> QED BY <1>1, <2>1 DEF TypeOK, NewTos
<1>6. OldTos'
  <2>1. \A i \in DOMAIN stack : stack[i].trapped => stack[i].pd \in Trapped BY DEF Trapped
  <2> QED BY <1>1, <2>1 DEF TypeOK, OldTos
<1> QED BY <1>2, <1>3, <1>4, <1>5, <1>6

LEMMA TopType == ASSUME TypeOK PROVE Top \in ProgramType /\ Len(stack) \in Nat
<1>1. Len(stack) \in Nat BY DEF TypeOK
<1> QED BY <1>1 DEF TypeOK, Top

\* A program comes on top.
OnTop(p, g, t) ==
  /\ Len(stack) \in Nat /\ Len(stack) > 0
  /\ DOMAIN stack = 1 .. Len(stack) /\ DOMAIN stack' = 1 .. Len(stack) + 1
  /\ Len(stack') = Len(stack) + 1
  /\ \A i \in 1 .. Len(stack) : stack'[i] = stack[i]
  /\ stack'[Len(stack) + 1].pd = p
  /\ stack'[Len(stack) + 1].gem = g
  /\ stack'[Len(stack) + 1].trapped = t

LEMMA Stacked ==
  ASSUME TypeOK, NEW p \in Pages, NEW d \in {"ours", "other"}, NEW g \in BOOLEAN, NEW t \in BOOLEAN,
         stack' = Append(stack, Program(p, d, g, t))
  PROVE  OnTop(p, g, t) /\ stack' \in Seq(ProgramType) /\ Len(stack') > 0
<1> DEFINE new == Program(p, d, g, t)
<1>1. new \in ProgramType BY DEF Program, ProgramType, Programs
<1>2. new.pd = p /\ new.gem = g /\ new.trapped = t BY DEF Program
<1> HIDE DEF new
<1>3. /\ stack' \in Seq(ProgramType) /\ Len(stack') = Len(stack) + 1
      /\ DOMAIN stack = 1 .. Len(stack) /\ DOMAIN stack' = 1 .. Len(stack) + 1
      /\ \A i \in 1 .. Len(stack) : stack'[i] = stack[i]
      /\ stack'[Len(stack) + 1] = new /\ Len(stack) \in Nat
  BY <1>1, Pushed DEF TypeOK, new
<1> QED BY <1>2, <1>3 DEF OnTop, TypeOK

\* On a new TOS ...
LEMMA NewOnTop ==
  ASSUME IInv, newTos, NEW p, NEW g \in BOOLEAN, OnTop(p, g, FALSE),
         UNCHANGED <<newTos, spoilt, amiss>>, call' = Idle,
         \A i \in DOMAIN stack : stack[i].pd # p,
         DOMAIN owner \subseteq DOMAIN owner', p \in DOMAIN owner',
         \A q \in DOMAIN owner : q # p => owner'[q] = owner[q],
         owner'[p] = p \/ (~g /\ owner'[p] = Top.pd)
  PROVE  NewTos'
<1> DEFINE n == Len(stack)
<1>2. /\ n \in Nat /\ n > 0 /\ DOMAIN stack = 1 .. n /\ DOMAIN stack' = 1 .. n + 1
      /\ \A i \in 1 .. n : stack'[i] = stack[i]
      /\ stack'[n + 1].pd = p /\ stack'[n + 1].gem = g /\ ~stack'[n + 1].trapped
      /\ Top = stack[n]
  BY DEF OnTop, Top
<1> HIDE DEF n
<1>3. \A i \in 1 .. n + 1 : i \in 1 .. n \/ i = n + 1 BY <1>2
<1>4. \A i \in DOMAIN stack' : ~stack'[i].trapped
  BY <1>2, <1>3 DEF IInv, NewTos
<1>5. \A i, j \in DOMAIN stack' : i # j => stack'[i].pd # stack'[j].pd
  BY <1>2, <1>3 DEF IInv, NewTos
<1>6. stack'[1].pd = Desktop /\ ~stack'[1].gem
  <2>1. stack'[1] = stack[1] BY <1>2
  <2> QED BY <2>1 DEF IInv, NewTos
<1>7. ASSUME NEW i \in DOMAIN stack', i > 1
      PROVE /\ stack'[i].pd \in DOMAIN owner'
            /\ \E j \in 1 .. i : owner'[stack'[i].pd] = stack'[j].pd
            /\ stack'[i].gem => owner'[stack'[i].pd] = stack'[i].pd
  <2>1. CASE i = n + 1
    <3>1. stack'[i].pd = p /\ stack'[i].gem = g BY <1>2, <2>1
    <3>2. \E j \in 1 .. i : owner'[p] = stack'[j].pd
      <4>1. CASE owner'[p] = p
        <5>1. i \in 1 .. i BY <1>2, <2>1
        <5> QED BY <3>1, <4>1, <5>1
      <4>2. CASE owner'[p] = Top.pd
        <5>1. n \in 1 .. i /\ stack'[n] = stack[n] BY <1>2, <2>1
        <5> QED BY <1>2, <4>2, <5>1
      <4> QED BY <4>1, <4>2
    <3> QED BY <3>1, <3>2
  <2>2. CASE i \in 1 .. n
    <3>1. /\ stack'[i] = stack[i] /\ stack[i].pd \in DOMAIN owner /\ stack[i].pd # p
          /\ stack[i].gem => owner[stack[i].pd] = stack[i].pd
      BY <1>2, <1>7, <2>2 DEF IInv, NewTos
    <3>2. PICK j \in 1 .. i : owner[stack[i].pd] = stack[j].pd
      BY <1>2, <1>7, <2>2 DEF IInv, NewTos
    <3>3. stack'[j] = stack[j] BY <1>2, <2>2
    <3> QED BY <3>1, <3>2, <3>3
  <2> QED BY <1>2, <1>3, <2>1, <2>2
<1> QED BY <1>4, <1>5, <1>6, <1>7 DEF IInv, NewTos, Idle

\* ... and on an old one, where TOS starts it.
LEMMA OldOnTop ==
  ASSUME IInv, ~newTos, NEW p, OnTop(p, FALSE, FALSE),
         UNCHANGED <<newTos, spoilt, amiss>>, call' = Idle,
         shared'.pd = shared.pd, shared'.restore = shared.restore
  PROVE  OldTos'
<1> DEFINE n == Len(stack)
<1>2. /\ n \in Nat /\ n > 0 /\ DOMAIN stack = 1 .. n /\ DOMAIN stack' = 1 .. n + 1
      /\ \A i \in 1 .. n : stack'[i] = stack[i]
      /\ ~stack'[n + 1].gem /\ ~stack'[n + 1].trapped
  BY DEF OnTop
<1> HIDE DEF n
<1>3. \A i \in 1 .. n + 1 : i \in 1 .. n \/ i = n + 1 BY <1>2
<1>4. \A i \in DOMAIN stack' : stack'[i].gem => stack'[i].trapped
  BY <1>2, <1>3 DEF IInv, OldTos
<1>5. ASSUME NEW i \in DOMAIN stack', stack'[i].trapped, stack'[i].pd \notin spoilt
      PROVE shared'.pd = stack'[i].pd /\ shared'.restore = stack'[i - 1].pd
  <2>1. i \in 1 .. n /\ stack'[i] = stack[i] BY <1>2, <1>3, <1>5
  <2>2. i # 1 BY <1>5, <2>1 DEF IInv, OldTos
  <2>3. i - 1 \in 1 .. n BY <1>2, <2>1, <2>2
  <2> QED BY <1>2, <1>5, <2>1, <2>3 DEF IInv, OldTos
<1>6. ~stack'[1].trapped /\ amiss' \subseteq spoilt'
  BY <1>2 DEF IInv, OldTos
<1> QED BY <1>4, <1>5, <1>6 DEF OldTos, Idle
-----------------------------------------------------------------------------
LEMMA TosKeeps ==
  ASSUME IInv, NEW mode \in PexecModes, TosPexec(mode), call = Idle, call' = Idle,
         UNCHANGED <<newTos, locked, opened, handle, stranded, spoilt, amiss>>,
         shared' \in SharedType, shared'.pd = shared.pd, shared'.restore = shared.restore
  PROVE  IInv'
<1> USE DEF IInv
<1>1. Held' /\ OwnParameters' /\ Loading' BY DEF Held, OwnParameters, Loading, Idle
<1>2. /\ Top.drive \in {"ours", "other"} /\ DOMAIN owner \subseteq Pages
      /\ call' \in CallType /\ newTos' \in BOOLEAN /\ locked' \in BOOLEAN
      /\ opened' \subseteq Handles /\ stranded' \subseteq Handles /\ handle' \in Handles \cup {NoHandle}
  BY TopType, IdleType DEF ProgramType, TypeOK
<1>3. CASE UNCHANGED <<owner, stack>>
  <2>1. TypeOK' BY <1>2, <1>3 DEF TypeOK
  <2>2. NewTos' BY <1>3 DEF NewTos
  <2>3. OldTos' BY <1>3 DEF OldTos, Idle
  <2> QED BY <1>1, <2>1, <2>2, <2>3
<1>4. ASSUME NEW p \in Fresh, owner' = Give(p, Top.pd), UNCHANGED stack PROVE IInv'
  <2>1. p \in Pages /\ p \notin DOMAIN owner BY DEF Fresh, Allocated
  <2>10. /\ DOMAIN owner' = DOMAIN owner \cup {p}
         /\ \A q \in DOMAIN owner : q # p => owner'[q] = owner[q]
    BY <1>4 DEF Give, Allocated
  <2>2. TypeOK' BY <1>2, <1>4, <2>1, <2>10 DEF TypeOK
  <2>3. \A q \in DOMAIN owner : q \in DOMAIN owner' /\ owner'[q] = owner[q] BY <2>1, <2>10
  <2>4. NewTos' BY <1>4, <2>3 DEF NewTos
  <2>5. OldTos' BY <1>4 DEF OldTos, Idle
  <2> QED BY <1>1, <2>2, <2>4, <2>5
<1>5. ASSUME NEW p \in Fresh, owner' = Give(p, p), Runs(Program(p, Top.drive, FALSE, FALSE))
      PROVE IInv'
  <2>1. p \in Pages /\ p \notin DOMAIN owner BY DEF Fresh, Allocated
  <2>2. stack' = Append(stack, Program(p, Top.drive, FALSE, FALSE)) BY <1>5 DEF Runs
  <2>9. OnTop(p, FALSE, FALSE) /\ stack' \in Seq(ProgramType) /\ Len(stack') > 0
    BY <1>2, <2>1, <2>2, Stacked
  <2>10. /\ DOMAIN owner' = DOMAIN owner \cup {p} /\ owner'[p] = p
         /\ \A q \in DOMAIN owner : q # p => owner'[q] = owner[q]
    BY <1>5 DEF Give, Allocated
  <2>3. TypeOK' BY <1>2, <2>1, <2>9, <2>10 DEF TypeOK
  <2>4. NewTos'
    <3>1. CASE newTos
      <4>1. \A i \in DOMAIN stack : stack[i].pd # p BY <3>1, FreshIsUnused
      <4> QED BY <2>9, <2>10, <3>1, <4>1, NewOnTop
    <3>2. CASE ~newTos BY <3>2 DEF NewTos
    <3> QED BY <3>1, <3>2
  <2>5. OldTos'
    <3>1. CASE ~newTos BY <2>9, <3>1, OldOnTop
    <3>2. CASE newTos BY <3>2 DEF OldTos
    <3> QED BY <3>1, <3>2
  <2> QED BY <1>1, <2>3, <2>4, <2>5
<1>6. ASSUME NEW p \in OwnedBy(Top.pd) \ {stack[i].pd : i \in DOMAIN stack},
             UNCHANGED owner, Runs(Program(p, Top.drive, FALSE, FALSE))
      PROVE IInv'
  <2>1. p \in DOMAIN owner /\ owner[p] = Top.pd /\ p \in Pages BY <1>2 DEF OwnedBy, Allocated
  <2>2. stack' = Append(stack, Program(p, Top.drive, FALSE, FALSE)) BY <1>6 DEF Runs
  <2>9. OnTop(p, FALSE, FALSE) /\ stack' \in Seq(ProgramType) /\ Len(stack') > 0
    BY <1>2, <2>1, <2>2, Stacked
  <2>3. TypeOK' BY <1>2, <1>6, <2>9 DEF TypeOK
  <2>4. NewTos'
    <3>1. CASE newTos BY <1>6, <2>1, <2>9, <3>1, NewOnTop
    <3>2. CASE ~newTos BY <3>2 DEF NewTos
    <3> QED BY <3>1, <3>2
  <2>5. OldTos'
    <3>1. CASE ~newTos BY <2>9, <3>1, OldOnTop
    <3>2. CASE newTos BY <3>2 DEF OldTos
    <3> QED BY <3>1, <3>2
  <2> QED BY <1>1, <2>3, <2>4, <2>5
<1> QED BY <1>3, <1>4, <1>5, <1>6 DEF TosPexec

LEMMA PexecKeeps == ASSUME IInv, Pexec PROVE IInv'
<1>1. PICK mode \in {"loadgo", "load", "go"} :
        /\ shared' = IF Served THEN [shared EXCEPT !.mode = mode, !.frame = Top.pd] ELSE shared
        /\ IF Served /\ mode # "go"
           THEN call' = [Idle EXCEPT !.at = "open", !.mode = mode] /\ UNCHANGED <<owner, stack>>
           ELSE TosPexec(mode) /\ UNCHANGED call
  BY DEF Pexec
<1>2. call = Idle /\ UNCHANGED <<newTos, locked, opened, handle, stranded, spoilt, amiss>> BY DEF Pexec
<1>3. Top.pd \in Pages \cup {Desktop} BY TopType DEF IInv, ProgramType, Programs
<1>4. shared' \in SharedType /\ shared'.pd = shared.pd /\ shared'.restore = shared.restore
  BY <1>1, <1>3 DEF IInv, TypeOK, SharedType, PexecModes
<1>5. CASE TosPexec(mode) /\ UNCHANGED call
  BY <1>2, <1>4, <1>5, TosKeeps DEF PexecModes
<1>6. CASE Served /\ mode # "go"
  <2> USE DEF IInv
  <2>1. /\ call' = [Idle EXCEPT !.at = "open", !.mode = mode] /\ UNCHANGED <<owner, stack>>
        /\ shared' = [shared EXCEPT !.mode = mode, !.frame = Top.pd] /\ Top' = Top
    BY <1>1, <1>6 DEF Top
  <2>2. call'.at = "open" /\ call'.mode = mode /\ call' \in CallType
    BY <2>1 DEF Idle, CallType, Steps, PexecModes
  <2>3. TypeOK' BY <1>2, <1>4, <2>1, <2>2 DEF TypeOK
  <2>4. Held' /\ OwnParameters' /\ Loading'
    BY <1>2, <2>1, <2>2 DEF TypeOK, SharedType, Held, OwnParameters, Loading, Idle
  <2>5. NewTos' BY <1>2, <2>1, <2>2 DEF NewTos
  <2>6. OldTos' BY <1>2, <1>4, <2>1, <2>2 DEF OldTos
  <2> QED BY <2>3, <2>4, <2>5, <2>6
<1> QED BY <1>1, <1>5, <1>6

LEMMA GoKeeps == ASSUME IInv, Go PROVE IInv'
<1> USE DEF IInv
<1>1. /\ call.at = "go" /\ call' = Idle /\ UNCHANGED <<newTos, locked, opened, handle, stranded, spoilt, amiss>>
      /\ shared.pd = call.pd
  BY DEF Go, At, OwnParameters
<1>2. Held' /\ OwnParameters' /\ Loading' BY <1>1 DEF Held, OwnParameters, Loading, Idle
<1>3. CASE shared.mode = "load"
  <2>1. UNCHANGED <<stack, owner, shared>> BY <1>3 DEF Go
  <2>2. TypeOK' BY <1>1, <2>1, IdleType DEF TypeOK
  <2>3. NewTos' BY <1>1, <2>1 DEF NewTos, Idle
  <2>4. OldTos' BY <1>1, <2>1 DEF OldTos, Idle
  <2> QED BY <1>2, <2>2, <2>3, <2>4
<1>4. CASE shared.mode # "load"
  <2> DEFINE p == shared.pd
  <2>1. /\ stack' = Append(stack, Program(p, Top.drive, TRUE, ~newTos))
        /\ owner' = IF newTos THEN Give(p, p) ELSE owner
        /\ shared' = IF ~newTos THEN [shared EXCEPT !.restore = Top.pd] ELSE shared
    BY <1>4 DEF Go, Runs, TrapsExit
  <2>2. /\ p \in DOMAIN owner /\ p \in Pages
        /\ newTos => \A i \in DOMAIN stack : stack[i].pd # p
    BY <1>1 DEF Loading, TypeOK
  <2>3. Top.drive \in {"ours", "other"} /\ Top.pd \in Pages \cup {Desktop}
    BY TopType DEF ProgramType, Programs
  <2>4. (~newTos) \in BOOLEAN BY DEF TypeOK
  <2> HIDE DEF p
  <2>5. OnTop(p, TRUE, ~newTos) /\ stack' \in Seq(ProgramType) /\ Len(stack') > 0
    BY <2>1, <2>2, <2>3, <2>4, Stacked
  <2>6. /\ DOMAIN owner' = DOMAIN owner
        /\ \A q \in DOMAIN owner : q # p => owner'[q] = owner[q]
        /\ newTos => owner'[p] = p
    BY <2>1, <2>2 DEF Give, Allocated
  <2>7. /\ shared' \in SharedType /\ shared'.pd = p
        /\ ~newTos => shared'.restore = Top.pd
    BY <2>1, <2>3 DEF TypeOK, SharedType, p
  <2>8. TypeOK' BY <1>1, <2>5, <2>6, <2>7, IdleType DEF TypeOK
  <2>9. NewTos'
    <3>1. CASE newTos
      <4>1. OnTop(p, TRUE, FALSE) BY <2>5, <3>1 DEF OnTop
      <4> QED BY <1>1, <2>2, <2>6, <3>1, <4>1, NewOnTop
    <3>2. CASE ~newTos BY <1>1, <3>2 DEF NewTos
    <3> QED BY <3>1, <3>2
  <2>10. OldTos'
    <3>1. CASE ~newTos
      <4> DEFINE n == Len(stack)
      <4>1. /\ n \in Nat /\ n > 0 /\ DOMAIN stack = 1 .. n /\ DOMAIN stack' = 1 .. n + 1
            /\ \A i \in 1 .. n : stack'[i] = stack[i]
            /\ stack'[n + 1].pd = p /\ stack'[n + 1].trapped /\ Top = stack[n]
        BY <2>5, <3>1 DEF OnTop, Top
      <4> HIDE DEF n
      <4>2. \A i \in 1 .. n + 1 : i \in 1 .. n \/ i = n + 1 BY <4>1
      <4>3. \A i \in DOMAIN stack' : stack'[i].gem => stack'[i].trapped
        BY <3>1, <4>1, <4>2 DEF OldTos
      <4>4. ASSUME NEW i \in DOMAIN stack', stack'[i].trapped, stack'[i].pd \notin spoilt
            PROVE  shared'.pd = stack'[i].pd /\ shared'.restore = stack'[i - 1].pd
        <5>1. CASE i = n + 1
          <6>1. stack'[i - 1] = stack[n] BY <4>1, <5>1
          <6> QED BY <2>7, <3>1, <4>1, <5>1, <6>1
        <5>2. CASE i \in 1 .. n
          <6>1. stack[i].pd \in Trapped BY <4>1, <4>4, <5>2 DEF Trapped
          <6> QED BY <1>1, <3>1, <4>1, <4>4, <5>2, <6>1 DEF OldTos
        <5> QED BY <4>1, <4>2, <5>1, <5>2
      <4>5. ~stack'[1].trapped /\ amiss' \subseteq spoilt' BY <1>1, <3>1, <4>1 DEF OldTos
      <4> QED BY <1>1, <4>3, <4>4, <4>5 DEF OldTos, Idle
    <3>2. CASE newTos BY <1>1, <3>2 DEF OldTos
    <3> QED BY <3>1, <3>2
  <2> QED BY <1>2, <2>8, <2>9, <2>10
<1> QED BY <1>3, <1>4

\* A program ends, by itself or inside a Pexec.
LEMMA EndKeeps ==
  ASSUME IInv, ProgramEnds, Len(stack) > 1, call.at \in {"none", "base"},
         UNCHANGED <<newTos, shared, opened, handle, spoilt>>, ~locked', locked' \in BOOLEAN,
         stranded' \subseteq Handles, opened' = stranded'
  PROVE  IInv'
<1> USE DEF IInv
<1> DEFINE n == Len(stack)
<1>1. /\ n > 1 /\ stack' = Below /\ owner' = Free(owner, OwnedBy(Top.pd))
      /\ UNCHANGED <<newTos, shared, opened, handle, spoilt>>
  BY DEF ProgramEnds
<1>2. /\ stack' \in Seq(ProgramType) /\ Len(stack') = n - 1 /\ DOMAIN stack' = 1 .. n - 1
      /\ DOMAIN stack = 1 .. n /\ \A i \in 1 .. n - 1 : stack'[i] = stack[i]
      /\ n \in Nat /\ Top = stack[n]
  BY <1>1, Popped DEF Top
<1>3. /\ DOMAIN owner' = DOMAIN owner \ OwnedBy(Top.pd)
      /\ \A q \in DOMAIN owner' : owner'[q] = owner[q]
  BY <1>1 DEF Free
<1>4. \/ /\ Top.trapped /\ call' = [Idle EXCEPT !.at = "freed", !.pd = Top.pd] /\ amiss' = amiss
      \/ /\ ~Top.trapped /\ call' = Idle
         /\ amiss' = IF Top.gem /\ Top.pd \in DOMAIN owner' THEN amiss \cup {Top.pd} ELSE amiss
  BY DEF ProgramEnds
<1>5. Top \in ProgramType /\ Top.pd \in Pages \cup {Desktop} BY TopType DEF ProgramType, Programs
<1> HIDE DEF n
<1>6. call' \in CallType /\ call'.at \in {"none", "freed"}
  BY <1>4, <1>5, IdleType DEF Idle, CallType, Steps, PexecModes
<1>7. TypeOK' BY <1>1, <1>2, <1>3, <1>6 DEF TypeOK
<1>8. Held' /\ OwnParameters' /\ Loading' BY <1>1, <1>6 DEF Held, OwnParameters, Loading, Idle
<1>9. NewTos'
  <2> SUFFICES ASSUME newTos PROVE NewTos' BY <1>1 DEF NewTos
  <2>1. ~Top.trapped BY <1>2, <1>1 DEF NewTos
  <2>2. Top.gem => Top.pd \in OwnedBy(Top.pd)
    BY <1>1, <1>2 DEF NewTos, OwnedBy, Allocated
  <2>3. call' = Idle /\ amiss' = {} BY <1>3, <1>4, <2>1, <2>2 DEF NewTos
  <2>4. ASSUME NEW i \in 1 .. n - 1, i > 1
        PROVE /\ stack'[i].pd \in DOMAIN owner'
              /\ \E j \in 1 .. i : owner'[stack'[i].pd] = stack'[j].pd
              /\ stack'[i].gem => owner'[stack'[i].pd] = stack'[i].pd
    <3>1. i \in 1 .. n /\ stack'[i] = stack[i] BY <1>2
    <3>2. PICK j \in 1 .. i : owner[stack[i].pd] = stack[j].pd BY <1>2, <2>4, <3>1 DEF NewTos
    <3>3. j \in 1 .. n /\ j # n /\ n \in 1 .. n /\ stack'[j] = stack[j] BY <1>1, <1>2
    <3>4. stack[j].pd # stack[n].pd BY <1>2, <3>3 DEF NewTos
    <3>5. stack[i].pd \in DOMAIN owner BY <1>2, <2>4, <3>1 DEF NewTos
    <3>6. stack[i].pd \in DOMAIN owner' BY <1>2, <1>3, <3>2, <3>4, <3>5 DEF OwnedBy
    <3> QED BY <1>2, <1>3, <2>4, <3>1, <3>2, <3>3, <3>6 DEF NewTos
  <2>5. \A i \in 1 .. n - 1 : i \in 1 .. n BY <1>2
  <2>6. stack'[1] = stack[1] /\ 1 \in DOMAIN stack BY <1>1, <1>2
  <2>7. spoilt' = {} /\ amiss' = {} /\ call'.at = "none" BY <1>1, <2>3 DEF NewTos, Idle
  <2>8. \A i \in DOMAIN stack' : ~stack'[i].trapped BY <1>2, <2>5 DEF NewTos
  <2>9. \A i, j \in DOMAIN stack' : i # j => stack'[i].pd # stack'[j].pd BY <1>2, <2>5 DEF NewTos
  <2>10. stack'[1].pd = Desktop /\ ~stack'[1].gem BY <2>6 DEF NewTos
  <2>11. DOMAIN stack' = 1 .. n - 1 BY <1>2
  <2> QED BY <2>4, <2>7, <2>8, <2>9, <2>10, <2>11 DEF NewTos
<1>10. OldTos'
  <2> SUFFICES ASSUME ~newTos PROVE OldTos' BY <1>1 DEF OldTos
  <2>1. n \in 1 .. n /\ n - 1 \in 1 .. n - 1 /\ \A i \in 1 .. n - 1 : i \in 1 .. n BY <1>1, <1>2
  <2>2. amiss' \subseteq spoilt' BY <1>1, <1>2, <1>4, <2>1 DEF OldTos
  <2>3. stack'[1] = stack[1] BY <1>1, <1>2
  <2>4. ASSUME NEW i \in DOMAIN stack', stack'[i].trapped, stack'[i].pd \notin spoilt'
        PROVE  shared'.pd = stack'[i].pd /\ shared'.restore = stack'[i - 1].pd
    <3>1. i \in 1 .. n /\ i \in 1 .. n - 1 /\ stack'[i] = stack[i] BY <1>2, <2>1
    <3>2. i # 1 BY <2>3, <2>4 DEF OldTos
    <3>3. stack'[i - 1] = stack[i - 1] BY <1>2, <3>1, <3>2
    <3> QED BY <1>1, <1>2, <2>4, <3>1, <3>3 DEF OldTos
  <2>5. ASSUME call'.at = "freed", call'.pd \notin spoilt'
        PROVE  shared'.pd = call'.pd /\ shared'.restore = Top'.pd
    <3>0. call' # Idle BY <2>5 DEF Idle
    <3>1. Top.trapped /\ call'.pd = Top.pd BY <1>4, <3>0 DEF Idle
    <3>2. Top' = stack[n - 1] BY <1>2, <2>1 DEF Top
    <3> QED BY <1>1, <1>2, <2>1, <2>5, <3>1, <3>2 DEF OldTos
  <2>6. \A i \in DOMAIN stack' : stack'[i].gem => stack'[i].trapped BY <1>2, <2>1 DEF OldTos
  <2> QED BY <1>6, <2>2, <2>3, <2>4, <2>5, <2>6 DEF OldTos
<1> QED BY <1>7, <1>8, <1>9, <1>10

LEMMA PtermKeeps == ASSUME IInv, Pterm PROVE IInv'
<1>1. ~locked /\ opened = stranded /\ call.at = "none" BY DEF Pterm, IInv, Held, Idle
<1>2. locked \in BOOLEAN /\ stranded \subseteq Handles BY DEF IInv, TypeOK
<1> QED BY <1>1, <1>2, EndKeeps DEF Pterm

\* TOS has no memory for a basepage: the file is left to the stranded ones.
LEMMA NoBasepageKeeps == ASSUME IInv, NoBasepage PROVE IInv'
<1> USE DEF IInv
<1>1. /\ call.at = "base" /\ shared' = shared /\ locked' = FALSE
      /\ UNCHANGED <<newTos, opened, handle, spoilt>> /\ stranded' = stranded \cup {handle}
  BY DEF NoBasepage, InnerPexec, At, Held
<1>2. stranded' \subseteq Handles /\ opened' = stranded' BY <1>1 DEF Held, TypeOK
<1>3. CASE Len(stack) > 1 BY <1>1, <1>2, <1>3, EndKeeps DEF NoBasepage
<1>4. CASE ~(Len(stack) > 1)
  <2>1. /\ UNCHANGED <<stack, amiss>> /\ owner' = Free(owner, OwnedBy(Top.pd)) /\ call' = Idle
        /\ Trapped' = Trapped /\ Top' = Top
    BY <1>4 DEF NoBasepage, Trapped, Top
  <2>2. Len(stack) = 1 /\ DOMAIN stack = {1} /\ ~(1 > 1)
    <3>1. Len(stack) \in Nat /\ Len(stack) > 0 /\ DOMAIN stack = 1 .. Len(stack) BY DEF TypeOK
    <3> QED BY <1>4, <3>1
  <2>3. DOMAIN owner' \subseteq DOMAIN owner BY <2>1 DEF Free
  <2>4. TypeOK' BY <1>1, <1>2, <2>1, <2>3, IdleType DEF TypeOK
  <2>5. Held' /\ OwnParameters' /\ Loading'
    BY <1>1, <1>2, <2>1 DEF Held, OwnParameters, Loading, Idle
  <2>6. NewTos' BY <1>1, <2>1, <2>2 DEF NewTos, Idle
  <2>7. OldTos' BY <1>1, <2>1, <2>2 DEF OldTos, Idle
  <2> QED BY <2>4, <2>5, <2>6, <2>7
<1> QED BY <1>3, <1>4

LEMMA MshrinkKeeps == ASSUME IInv, MshrinkExit PROVE IInv'
<1> USE DEF IInv
<1>1. /\ call.at = "freed" /\ owner' = Free(owner, {shared.pd})
      /\ UNCHANGED <<newTos, stack, shared, locked, opened, handle, stranded, spoilt>> /\ Top' = Top
      /\ amiss' = IF shared.pd = call.pd /\ shared.restore = Top.pd THEN amiss
                  ELSE amiss \cup {call.pd}
  BY DEF MshrinkExit, At, Top
<1>2. ~newTos BY <1>1 DEF NewTos
<1>3. call' \in CallType /\ call'.at \in {"none", "astray"}
  <2>1. CASE call' = Idle BY <2>1, IdleType DEF Idle
  <2>2. CASE Goto("astray") BY <2>2 DEF TypeOK, Goto, CallType, Steps
  <2> QED BY <2>1, <2>2 DEF MshrinkExit
<1>4. DOMAIN owner' \subseteq DOMAIN owner BY <1>1 DEF Free
<1>5. TypeOK' BY <1>1, <1>3, <1>4 DEF TypeOK
<1>6. Held' /\ OwnParameters' /\ Loading' BY <1>1, <1>3 DEF Held, OwnParameters, Loading
<1>7. NewTos' BY <1>1, <1>2 DEF NewTos
<1>8. amiss' \subseteq spoilt' BY <1>1, <1>2 DEF OldTos
<1>9. OldTos' BY <1>1, <1>2, <1>3, <1>8 DEF OldTos
<1> QED BY <1>5, <1>6, <1>7, <1>9

LEMMA RebootKeeps == ASSUME IInv, Reboot PROVE IInv'
<1> USE DEF IInv
<1>1. /\ stack' = <<Program(Desktop, "ours", FALSE, FALSE)>> /\ Len(stack') = 1
      /\ DOMAIN stack' = {1} /\ stack'[1] = Program(Desktop, "ours", FALSE, FALSE)
  BY DEF Reboot
<1>2. Program(Desktop, "ours", FALSE, FALSE) \in ProgramType
  BY DEF Program, ProgramType, Programs
<1>3. stack' \in Seq(ProgramType) /\ Len(stack') > 0
  <2>1. Len(stack') > 0 BY <1>1
  <2> DEFINE first == Program(Desktop, "ours", FALSE, FALSE)
  <2>2. stack' = <<first>> BY <1>1
  <2>3. first \in ProgramType BY <1>2
  <2> HIDE DEF first
  <2>4. stack' \in Seq(ProgramType) BY <2>2, <2>3, Single
  <2> QED BY <2>1, <2>4
<1>4. DOMAIN owner' = {} BY DEF Reboot
<1>5. /\ call' = Idle /\ call' \in CallType /\ spoilt' = {} /\ amiss' = {}
      /\ locked' = FALSE /\ opened' = {} /\ stranded' = {}
      /\ UNCHANGED <<newTos, shared, handle>>
  BY IdleType DEF Reboot
<1>6. TypeOK' BY <1>3, <1>4, <1>5 DEF TypeOK
<1>7. Held' /\ OwnParameters' /\ Loading' BY <1>5 DEF Held, OwnParameters, Loading, Idle
<1>8. stack'[1].pd = Desktop /\ ~stack'[1].gem /\ ~stack'[1].trapped BY <1>1 DEF Program
<1>9. NewTos'
  <2>1. DOMAIN stack' = {1} /\ ~(1 > 1) BY <1>1
  <2>2. call'.at = "none" BY <1>5 DEF Idle
  <2> QED BY <1>5, <1>8, <2>1, <2>2 DEF NewTos
<1>10. OldTos' BY <1>1, <1>5, <1>8 DEF OldTos, Idle
<1> QED BY <1>6, <1>7, <1>9, <1>10
-----------------------------------------------------------------------------
LEMMA Inductive == IInv /\ [Next]_vars => IInv'
<1> SUFFICES ASSUME IInv, [Next]_vars PROVE IInv' OBVIOUS
<1>1. CASE Dsetdrv BY <1>1, DsetdrvKeeps
<1>2. CASE Pexec BY <1>2, PexecKeeps
<1>3. CASE Driver
  BY <1>3, StepKeeps, CreateKeeps, NoBasepageKeeps, SaveKeeps, GoKeeps, MshrinkKeeps DEF Driver
<1>4. CASE Pterm BY <1>4, PtermKeeps
<1>5. CASE Reboot BY <1>5, RebootKeeps
<1>6. CASE UNCHANGED vars
  BY <1>6 DEF vars, IInv, TypeOK, Held, OwnParameters, Loading, NewTos, OldTos, Top, Trapped
<1> QED BY <1>1, <1>2, <1>3, <1>4, <1>5, <1>6 DEF Next

THEOREM Invariant == Spec => []IInv
BY Started, Inductive, PTL DEF Spec

\* The stack of programs is never empty, blocks of memory are basepages, and the
\* driver and the RP hold what their fields are for.
THEOREM Typed == Spec => []TypeOK
<1>1. IInv => TypeOK BY DEF IInv
<1> QED BY <1>1, Invariant, PTL

\* While a Pexec is under way, what the RP keeps of it is its own.
THEOREM ParametersKept == Spec => []OwnParameters
<1>1. IInv => OwnParameters BY DEF IInv
<1> QED BY <1>1, Invariant, PTL

\* Whichever way a Pexec ends the lock is off and its file closed, unless TOS had no
\* memory for it: then the file stays open, and only then.
THEOREM NothingLeft == Spec => []PexecTidy
<1>1. IInv => PexecTidy BY DEF IInv, Held, PexecTidy, Idle
<1> QED BY <1>1, Invariant, PTL

\* A program the driver started ends with its block freed and its starter
\* running, on an old TOS unless another was loaded by then.
THEOREM CleanEnds == Spec => []ExitsClean
<1>1. IInv => ExitsClean BY DEF IInv, NewTos, OldTos, ExitsClean, TypeOK
<1> QED BY <1>1, Invariant, PTL
=============================================================================
