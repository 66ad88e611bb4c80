--------------------------- MODULE EmulApp_proofs ---------------------------
(* Proofs about EmulApp: an inductive invariant with the type invariant and  *)
(* the safety properties of the application, and the action properties.      *)
EXTENDS EmulApp, FiniteSetTheorems, WellFoundedInduction, TLAPS

Inputs == [key : {"space", "m", "other", "slot", "shifted"}, slot : Slots,
           letter : Letters \cup {NotALetter}]

\* No settings newCfg bring a conflict in.
Harmless(newCfg) == Conflicting(newCfg) => Conflicting(cfg)

NoneNew == Conflicting(cfg') \/ Conflicting(flash') =>
             Conflicting(cfg) \/ Conflicting(flash) \/ PutLine

\* What a handler may do, whatever it is.
MenuBefore == /\ cfg \in Settings /\ flash \in Settings
              /\ halt \in BOOLEAN /\ leaving \in BOOLEAN /\ ready \in BOOLEAN
MenuAfter ==
  /\ cfg' \in Settings /\ flash' \in Settings /\ ui' \in Dialogue
  /\ halt' \in BOOLEAN /\ leaving' \in BOOLEAN
  /\ NoneNew /\ ready' = ready /\ (halt => halt')
  /\ \/ status' = status
     \/ ~ready /\ halt' /\ status' \in {"NTP_INIT", "EMULATION_INIT"}

-----------------------------------------------------------------------------
LEMMA FreshIsDialogue == Fresh \in Dialogue
BY MenuAssumption DEF Fresh, Dialogue, Levels, Commands

LEMMA AtLevelIsDialogue ==
  ASSUME NEW u \in Dialogue, NEW l \in Levels
  PROVE  AtLevel(u, l) \in Dialogue
BY DEF AtLevel, Dialogue

LEMMA KeptIsDialogue == ASSUME NEW u \in Dialogue PROVE Kept(u) \in Dialogue
BY FreshIsDialogue DEF Kept, Dialogue

LEMMA EditsKeeps ==
  ASSUME NEW newUi \in Dialogue, NEW h \in BOOLEAN, MenuBefore, Edits(newUi, h)
  PROVE  MenuAfter
BY KeptIsDialogue DEF MenuBefore, MenuAfter, NoneNew, Edits

LEMMA StoresKeeps ==
  ASSUME NEW newCfg \in Settings, NEW newUi \in Dialogue, NEW h \in BOOLEAN,
         MenuBefore, Harmless(newCfg), Stores(newCfg, newUi, h)
  PROVE  MenuAfter
BY KeptIsDialogue DEF MenuBefore, MenuAfter, NoneNew, Harmless, Stores

LEMMA SavedKeeps ==
  ASSUME NEW newCfg \in Settings, NEW u \in Dialogue,
         MenuBefore, Harmless(newCfg), Saved(newCfg, u)
  PROVE  MenuAfter
BY StoresKeeps, AtLevelIsDialogue DEF Saved, Levels

\* Most handlers end by going to another level, with the settings as they were.
LEMMA MovesKeeps ==
  ASSUME NEW u \in Dialogue, NEW l \in Levels, NEW h \in BOOLEAN,
         MenuBefore, Edits(AtLevel(u, l), h)
  PROVE  MenuAfter
BY EditsKeeps, AtLevelIsDialogue

LEMMA RefusedKeeps ==
  ASSUME NEW u \in Dialogue, MenuBefore, Refused(u) PROVE MenuAfter
BY MovesKeeps DEF Refused, Levels

LEMMA IgnoredKeeps ==
  ASSUME NEW u \in Dialogue, MenuBefore, Ignored(u) PROVE MenuAfter
BY EditsKeeps DEF Ignored

LEMMA SlotSettings ==
  ASSUME MenuBefore, NEW s \in Slots
  PROVE  /\ [cfg EXCEPT !.slots = cfg.slots \cup {s}] \in Settings
         /\ Harmless([cfg EXCEPT !.slots = cfg.slots \cup {s}])
         /\ [cfg EXCEPT !.slots = cfg.slots \ {s}] \in Settings
         /\ Harmless([cfg EXCEPT !.slots = cfg.slots \ {s}])
BY DEF MenuBefore, Settings, Harmless, Conflicting

LEMMA BrowsedKeeps ==
  ASSUME NEW u \in Dialogue, NEW in \in Inputs, NEW newCfg \in Settings,
         MenuBefore, Harmless(newCfg), Browsed(u, in, newCfg)
  PROVE  MenuAfter
<1>1. CASE Edits(AtLevel(u, "reentry"), TRUE) BY <1>1, MovesKeeps DEF Levels
<1>2. CASE Saved(newCfg, u) BY <1>2, SavedKeeps
<1>3. CASE Edits(u, TRUE) BY <1>3, EditsKeeps
<1> QED BY <1>1, <1>2, <1>3 DEF Browsed

\* The two switches and the two letters: the conflict check keeps them apart.
LEMMA SwitchesKeepApart ==
  ASSUME NEW u \in Dialogue, MenuBefore, CmdGemdriveEnabled(u) \/ CmdAcsiEnabled(u)
  PROVE  MenuAfter
<1>1. CASE Refused(u) BY <1>1, RefusedKeeps
<1>2. CASE CmdGemdriveEnabled(u) /\ ~Refused(u)
  <2>1. /\ [cfg EXCEPT !.gem = ~cfg.gem] \in Settings
        /\ Harmless([cfg EXCEPT !.gem = ~cfg.gem])
    BY <1>2 DEF MenuBefore, Settings, Harmless, Conflicting, CmdGemdriveEnabled, Conflict
  <2> QED BY <1>2, <2>1, SavedKeeps DEF CmdGemdriveEnabled
<1>3. CASE CmdAcsiEnabled(u) /\ ~Refused(u)
  <2>1. /\ [cfg EXCEPT !.acsi = ~cfg.acsi] \in Settings
        /\ Harmless([cfg EXCEPT !.acsi = ~cfg.acsi])
    BY <1>3 DEF MenuBefore, Settings, Harmless, Conflicting, CmdAcsiEnabled, Conflict
  <2> QED BY <1>3, <2>1, SavedKeeps DEF CmdAcsiEnabled
<1> QED BY <1>1, <1>2, <1>3

LEMMA LettersKeepApart ==
  ASSUME NEW u \in Dialogue, NEW in \in Inputs, MenuBefore,
         CmdGemdriveDrive(u, in) \/ CmdAcsiDrive(u, in)
  PROVE  MenuAfter
<1>1. CASE Ignored(u) \/ Refused(u) BY <1>1, IgnoredKeeps, RefusedKeeps
<1>2. CASE Edits(AtLevel(u, "data"), TRUE) \/ Edits(AtLevel(u, "single"), FALSE)
  BY <1>2, MovesKeeps DEF Levels
<1>3. CASE /\ in.letter \in Letters /\ cfg.gem
           /\ ~Conflict(TRUE, in.letter, cfg.acsi, cfg.acsiLetter)
           /\ Stores([cfg EXCEPT !.gemLetter = in.letter], AtLevel(u, "single"), FALSE)
  <2>1. /\ [cfg EXCEPT !.gemLetter = in.letter] \in Settings
        /\ Harmless([cfg EXCEPT !.gemLetter = in.letter])
    BY <1>3 DEF MenuBefore, Settings, Harmless, Conflicting, Conflict
  <2> QED BY <1>3, <2>1, StoresKeeps, AtLevelIsDialogue DEF Levels
<1>4. CASE /\ in.letter \in Letters /\ cfg.acsi
           /\ ~Conflict(cfg.gem, cfg.gemLetter, TRUE, in.letter)
           /\ Stores([cfg EXCEPT !.acsiLetter = in.letter], AtLevel(u, "single"), FALSE)
  <2>1. /\ [cfg EXCEPT !.acsiLetter = in.letter] \in Settings
        /\ Harmless([cfg EXCEPT !.acsiLetter = in.letter])
    BY <1>4 DEF MenuBefore, Settings, Harmless, Conflicting, Conflict
  <2> QED BY <1>4, <2>1, StoresKeeps, AtLevelIsDialogue DEF Levels
<1> QED BY <1>1, <1>2, <1>3, <1>4 DEF CmdGemdriveDrive, CmdAcsiDrive

LEMMA DriveASetKeeps ==
  ASSUME NEW u \in Dialogue, NEW in \in Inputs, MenuBefore, CmdFloppyDriveASet(u, in)
  PROVE  MenuAfter
<1> DEFINE Cleared == [cfg EXCEPT !.slots = cfg.slots \ {in.slot}]
           Chosen  == [cfg EXCEPT !.slots = cfg.slots \cup {u.target}]
<1>1. in.slot \in Slots /\ u.target \in Slots BY DEF Inputs, Dialogue
<1>2. Cleared \in Settings /\ Harmless(Cleared) /\ Chosen \in Settings /\ Harmless(Chosen)
  BY <1>1, SlotSettings
<1>3. /\ [u EXCEPT !.aset = "select", !.target = 1, !.level = "reentry"] \in Dialogue
      /\ [u EXCEPT !.aset = "idle", !.target = 1] \in Dialogue
      /\ [u EXCEPT !.aset = "select"] \in Dialogue
  BY MenuAssumption DEF Dialogue, Levels
<1>4. CASE Ignored(u) BY <1>4, IgnoredKeeps
<1>5. CASE Prompting(u) /\ ~Ignored(u)
  BY <1>3, <1>5, EditsKeeps DEF CmdFloppyDriveASet
<1>6. CASE ~Prompting(u) /\ u.aset = "select" /\ ~Ignored(u)
  <2>1. CASE in.key \in {"space", "m"}
    <3>1. Refused([u EXCEPT !.aset = "idle", !.target = 1])
      BY <1>6, <2>1 DEF CmdFloppyDriveASet
    <3> QED BY <1>3, <3>1, RefusedKeeps
  <2>2. CASE in.key = "slot"
    <3>1. OpenBrowser(u, in.slot) BY <1>6, <2>2 DEF CmdFloppyDriveASet
    <3>2. PICK loads \in BOOLEAN :
            Edits([u EXCEPT !.target = in.slot, !.level = "reentry",
                            !.aset = IF loads THEN "assign" ELSE "select"], TRUE)
      BY <3>1 DEF OpenBrowser
    <3>3. [u EXCEPT !.target = in.slot, !.level = "reentry",
                    !.aset = IF loads THEN "assign" ELSE "select"] \in Dialogue
      BY <1>1 DEF Dialogue, Levels
    <3> QED BY <3>2, <3>3, EditsKeeps
  <2>3. CASE in.key = "shifted"
    <3>1. Stores(Cleared, u, TRUE) BY <1>6, <2>3 DEF CmdFloppyDriveASet
    <3> QED BY <1>2, <3>1, StoresKeeps
  <2>4. CASE in.key = "other"
    <3>1. Edits(u, TRUE) BY <1>6, <2>4 DEF CmdFloppyDriveASet
    <3> QED BY <3>1, EditsKeeps
  <2> QED BY <2>1, <2>2, <2>3, <2>4 DEF Inputs
<1>7. CASE ~Prompting(u) /\ u.aset # "select" /\ ~Ignored(u)
  <2>1. \/ Edits([u EXCEPT !.aset = "select"], TRUE)
        \/ Stores(Chosen, [u EXCEPT !.aset = "select"], TRUE)
        \/ Edits(IF u.aset = "idle" THEN [u EXCEPT !.aset = "select"] ELSE u, TRUE)
    BY <1>7 DEF CmdFloppyDriveASet
  <2> QED BY <1>2, <1>3, <2>1, EditsKeeps, StoresKeeps
<1> QED BY <1>4, <1>5, <1>6, <1>7

\* Whatever the handler: the settings keep their type and get no conflict, and the
\* set-up is left only when no host has the card.
LEMMA HandlerKeeps ==
  ASSUME NEW c \in Commands, NEW u \in Dialogue, NEW in \in Inputs,
         MenuBefore, Handler(c, u, in)
  PROVE  MenuAfter
<1> USE DEF Levels
<1>1. CASE CmdMenu(u) BY <1>1, MovesKeeps DEF CmdMenu
<1>2. CASE CmdExit(u)
  <2>1. CASE ready BY <1>2, <2>1, IgnoredKeeps DEF CmdExit
  <2>2. CASE ~ready
    BY <1>2, <2>2, KeptIsDialogue DEF CmdExit, BootStatus, MenuBefore, MenuAfter, NoneNew
  <2> QED BY <2>1, <2>2
<1>3. CASE CmdBooster(u) BY <1>3, KeptIsDialogue DEF CmdBooster, MenuBefore, MenuAfter, NoneNew
<1>4. CASE CmdHiddenSettings(u) BY <1>4, MovesKeeps DEF CmdHiddenSettings
<1>5. CASE CmdGemdriveEnabled(u) \/ CmdAcsiEnabled(u) BY <1>5, SwitchesKeepApart
<1>6. CASE CmdGemdriveDrive(u, in) \/ CmdAcsiDrive(u, in) BY <1>6, LettersKeepApart
<1>7. CASE CmdAcsiId(u) \/ CmdNtpValue(u)
  <2>1. cfg \in Settings /\ Harmless(cfg) /\ AtLevel(u, "single") \in Dialogue
    BY AtLevelIsDialogue DEF MenuBefore, Harmless
  <2> QED BY <1>7, <2>1, MovesKeeps, RefusedKeeps, IgnoredKeeps, StoresKeeps
          DEF CmdAcsiId, CmdNtpValue
<1>8. CASE CmdRTCEnabled(u) \/ CmdFloppyEnabled(u)
  <2>1. /\ [cfg EXCEPT !.rtc = ~cfg.rtc] \in Settings /\ Harmless([cfg EXCEPT !.rtc = ~cfg.rtc])
        /\ [cfg EXCEPT !.floppy = ~cfg.floppy] \in Settings
        /\ Harmless([cfg EXCEPT !.floppy = ~cfg.floppy])
    BY DEF MenuBefore, Settings, Harmless, Conflicting
  <2> QED BY <1>8, <2>1, SavedKeeps DEF CmdRTCEnabled, CmdFloppyEnabled
<1>9. CASE CmdAcsiImage(u, in) BY <1>9, BrowsedKeeps DEF CmdAcsiImage, MenuBefore, Harmless
<1>10. CASE CmdFloppyDriveA(u, in) \/ CmdFloppyDriveAEject(u)
  BY <1>10, MenuAssumption, SlotSettings, BrowsedKeeps, SavedKeeps, IgnoredKeeps
  DEF CmdFloppyDriveA, CmdFloppyDriveAEject
<1>11. CASE CmdFloppyDriveASet(u, in) BY <1>11, DriveASetKeeps
<1> QED BY <1>1, <1>2, <1>3, <1>4, <1>5, <1>6, <1>7, <1>8, <1>9, <1>10, <1>11 DEF Handler

LEMMA InputsCover ==
  ASSUME NEW c \in Commands
  PROVE  /\ Keys \subseteq Inputs /\ Lines \subseteq Inputs
         /\ NoText \in Inputs /\ Line(c) \in Inputs
BY MenuAssumption DEF Keys, Lines, NoText, Line, Inputs

LEMMA TermLoopKeeps ==
  ASSUME ui \in Dialogue, MenuBefore, TermLoop PROVE MenuAfter
<1>1. CASE KeyAtMenu
  <2>1. PICK c \in Commands : Handler(c, [ui EXCEPT !.last = c], NoText) BY <1>1 DEF KeyAtMenu
  <2>2. [ui EXCEPT !.last = c] \in Dialogue BY DEF Dialogue
  <2> QED BY <2>1, <2>2, HandlerKeeps, InputsCover
<1>2. CASE KeyReentry
  <2>1. ui.last \in Commands BY DEF Dialogue
  <2>2. PICK in \in Keys : Handler(ui.last, ui, in) BY <1>2 DEF KeyReentry
  <2>3. in \in Inputs BY <2>1, InputsCover
  <2> QED BY <2>1, <2>2, <2>3, HandlerKeeps
<1>3. CASE DataLine
  <2>1. ui.last \in Commands BY DEF Dialogue
  <2>2. PICK in \in Lines : Handler(ui.last, ui, in) BY <1>3 DEF DataLine
  <2>3. in \in Inputs BY <2>1, InputsCover
  <2> QED BY <2>1, <2>2, <2>3, HandlerKeeps
<1>4. CASE CommandLine
  <2>1. PICK c \in Commands : Handler(c, ui, Line(c)) BY <1>4 DEF CommandLine
  <2> QED BY <2>1, HandlerKeeps, InputsCover
<1>5. CASE TerminalStart
  <2>1. [ui EXCEPT !.level = "single", !.last = "menu"] \in Dialogue
    BY DEF Dialogue, Levels, Commands
  <2> QED BY <1>5, <2>1, MovesKeeps DEF TerminalStart, CmdMenu, Levels
<1>6. CASE PutLine
  <2>1. cfg' \in Settings BY <1>6 DEF PutLine, MenuBefore, Settings, Switches, Names
  <2> QED BY <1>6, <2>1 DEF PutLine, MenuBefore, MenuAfter, NoneNew
<1>7. CASE SaveLine BY <1>7, StoresKeeps DEF SaveLine, MenuBefore, Harmless
<1> QED BY <1>1, <1>2, <1>3, <1>4, <1>5, <1>6, <1>7 DEF TermLoop
-----------------------------------------------------------------------------
(* The inductive invariant                                                  *)

\* Where core 0 is fits the state of the application.
PlaceFits ==
  /\ pc \in {"start", "anykey", "term", "count"} => status = "SETUP"
  /\ pc = "count" => ~halt
  /\ pc \in {"connect", "query"} => status \in Starting
  /\ pc \in {"cycle", "work"} => status = "RUNTIME"

\* The countdown is over or stopped once the set-up is left.
CountdownFits == (~halt => countdown > 0) /\ (status # "SETUP" => halt)

\* A host that has the card stops the countdown, and no start happens with one.
HostFits ==
  /\ usb.seen = ready
  /\ status = "SETUP" /\ ready => halt
  /\ status \in Starting => ~ready

\* The network is up only while it is used.
NetworkFits == net.up \/ net.pcb => pc \in {"connect", "query"}

\* A count is under way only in the emulation, and its flashes are the slot's.
LedFits == led.seq => status = "RUNTIME" /\ led.left > 0 /\ led.left + led.shown = slot

Fits == PlaceFits /\ CountdownFits /\ HostFits /\ NetworkFits /\ LedFits
IInv == TypeOK /\ RuntimeAlone /\ NoPressLost /\ Fits

LEMMA StartTypes == NoUsb \in UsbStates /\ Offline \in NetStates /\ Dark \in LedStates
BY AppAssumption DEF NoUsb, UsbStates, Offline, NetStates, Dark, LedStates

LEMMA InitInv == Init => IInv
<1> SUFFICES ASSUME Init PROVE IInv OBVIOUS
<1>1. cfg \in Settings /\ flash \in Settings /\ ui \in Dialogue
  BY MenuAssumption, FreshIsDialogue DEF Init, Defaults, Settings
<1>2. countdown \in 0..MaxCountdown BY AppAssumption DEF Init
<1>3. slot \in Slots BY MenuAssumption DEF Init
<1>4. TypeOK BY <1>1, <1>2, <1>3, StartTypes, Zenon DEF Init, TypeOK
<1>5. RuntimeAlone /\ NoPressLost BY DEF Init, RuntimeAlone, NoPressLost
<1>6. PlaceFits /\ CountdownFits BY AppAssumption DEF Init, PlaceFits, CountdownFits, Starting
<1>7. HostFits /\ NetworkFits /\ LedFits
  BY DEF Init, HostFits, NetworkFits, LedFits, NoUsb, Offline, Dark, Starting
<1> QED BY <1>4, <1>5, <1>6, <1>7 DEF IInv, Fits

LEMMA RestartInv ==
  ASSUME IInv, NEW app \in {"app", "booster"}, Restart(app) PROVE IInv'
<1>1. countdown' \in 0..MaxCountdown BY AppAssumption DEF Restart, Fresh0
<1>2. slot' \in Slots BY MenuAssumption DEF Restart, Fresh0
<1>3. cfg' \in Settings /\ flash' \in Settings BY DEF IInv, TypeOK, Restart
<1>4. TypeOK' BY <1>1, <1>2, <1>3, StartTypes, FreshIsDialogue, Zenon DEF Restart, Fresh0, TypeOK
<1>5. RuntimeAlone' /\ NoPressLost' BY DEF Restart, Fresh0, RuntimeAlone, NoPressLost
<1>6. PlaceFits' /\ CountdownFits'
  BY AppAssumption DEF Restart, Fresh0, PlaceFits, CountdownFits, Starting
<1>7. HostFits' /\ NetworkFits' /\ LedFits'
  BY DEF Restart, Fresh0, HostFits, NetworkFits, LedFits, NoUsb, Offline, Dark, Starting
<1> QED BY <1>4, <1>5, <1>6, <1>7 DEF IInv, Fits

LEMMA PolledKeeps ==
  ASSUME NEW n \in Nat, NEW l \in LedStates, l.seq => l.left > 0 /\ l.left + l.shown = n
  PROVE  /\ Polled(l) \in LedStates
         /\ Polled(l).seq => l.seq /\ Polled(l).left > 0 /\ Polled(l).left + Polled(l).shown = n
         /\ l.seq /\ ~Polled(l).seq => Polled(l).shown = n
<1> USE DEF LedStates
<1>1. CASE l.seq /\ l.on
  <2>1. Polled(l) = [l EXCEPT !.on = FALSE, !.left = l.left - 1, !.seq = l.left > 1,
                              !.shown = l.shown + 1]
    BY <1>1 DEF Polled
  <2>2. l.left - 1 \in Nat /\ l.shown + 1 \in Nat /\ (l.left > 1) \in BOOLEAN BY <1>1
  <2>3. /\ Polled(l).seq = (l.left > 1) /\ Polled(l).left = l.left - 1
        /\ Polled(l).shown = l.shown + 1
    BY <2>1
  <2>4. Polled(l) \in LedStates BY <2>1, <2>2
  <2> QED BY <1>1, <2>3, <2>4
<1>2. CASE ~(l.seq /\ l.on) BY <1>2 DEF Polled
<1> QED BY <1>1, <1>2

\* A set of slots that is not empty has a least element.
LEMMA LeastIsMember == ASSUME NEW s, s \subseteq Nat, s # {} PROVE Least(s) \in s
<1> DEFINE R == OpToRel(<, Nat)
<1>1. PICK x \in s : \A y \in s : <<y, x>> \notin R
  BY NatLessThanWellFounded, WFMin
<1>2. ASSUME NEW y \in s, y < x PROVE <<y, x>> \in R
  <2>1. <<y, x>> \in Nat \X Nat OBVIOUS
  <2>2. \E p \in Nat \X Nat : p = <<y, x>> /\ p[1] < p[2] BY <1>2, <2>1
  <2> QED BY <2>1, <2>2, Zenon DEF OpToRel
<1> HIDE DEF R
<1>3. \A y \in s : ~(y < x) BY <1>1, <1>2, Zenon
<1>4. x \in s /\ \A y \in s : x <= y BY <1>3
<1> QED BY <1>4 DEF Least

LEMMA NextSlotIsSlot == ASSUME TypeOK, CanCycleDriveA PROVE NextSlot \in Slots
<1> DEFINE Later == {s \in cfg.slots : s > slot}
<1>1. cfg.slots \subseteq Slots BY DEF TypeOK, Settings
<1>2. cfg.slots # {}
  <2>1. SUFFICES ASSUME cfg.slots = {} PROVE FALSE OBVIOUS
  <2>2. Cardinality({}) = 0 BY FS_EmptySet
  <2> QED BY <2>1, <2>2 DEF CanCycleDriveA
<1>3. cfg.slots \subseteq Nat /\ Later \subseteq Nat BY <1>1, MenuAssumption
<1>4. CASE Later # {} BY <1>1, <1>3, <1>4, LeastIsMember DEF NextSlot
<1>5. CASE Later = {} BY <1>1, <1>2, <1>3, <1>5, LeastIsMember DEF NextSlot
<1> QED BY <1>4, <1>5

LEMMA PollKeeps ==
  ASSUME TypeOK, LedFits, BlinkPoll
  PROVE  /\ led' \in LedStates
         /\ led'.seq => led.seq /\ led'.left > 0 /\ led'.left + led'.shown = slot
         /\ led.seq /\ ~led'.seq => led'.shown = slot
<1>1. slot \in Nat BY MenuAssumption DEF TypeOK
<1>2. led \in LedStates /\ (led.seq => led.left > 0 /\ led.left + led.shown = slot)
  BY DEF TypeOK, LedFits
<1> QED BY <1>1, <1>2, PolledKeeps DEF BlinkPoll

LEMMA StutterInv == ASSUME IInv, UNCHANGED vars PROVE IInv'
BY DEF IInv, TypeOK, vars, menu, boot, button, drive, RuntimeAlone, NoPressLost, Fits, PlaceFits, CountdownFits, HostFits, NetworkFits, LedFits, Starting

-----------------------------------------------------------------------------
(* The invariant is kept by every step, a lemma for each part of Next        *)

LEMMA SetupInv ==
  ASSUME IInv, EmulStart \/ HostMoves \/ UsbTask \/ SetupTerm \/ SetupCount PROVE IInv'
<1> USE DEF IInv, Fits, At, InLoop
<1>1. CASE EmulStart
  BY <1>1 DEF EmulStart, TypeOK, RuntimeAlone, NoPressLost, PlaceFits,
     CountdownFits, HostFits, NetworkFits, LedFits, Starting, menu, button, drive
<1>2. CASE HostMoves
  <2>1. usb' \in UsbStates /\ usb'.seen = usb.seen /\ usb'.attached = usb.attached
    BY <1>2 DEF HostMoves, TypeOK, UsbStates
  <2> QED
    BY <1>2, <2>1 DEF HostMoves, TypeOK, RuntimeAlone, NoPressLost, PlaceFits,
       CountdownFits, HostFits, NetworkFits, LedFits, Starting, menu, button, drive
<1>3. CASE UsbTask
  <2>1. PICK ok \in BOOLEAN :
          LET inited  == usb.init \/ (usb.host # "out" /\ ok)
              mounted == inited /\ usb.host = "on"
          IN /\ usb' = [usb EXCEPT !.init = inited, !.attached = inited, !.seen = mounted]
             /\ ready' = mounted
             /\ ui' = IF ready # mounted THEN Fresh ELSE ui
             /\ halt' = (halt \/ mounted)
    BY <1>3 DEF UsbTask
  <2>2. /\ usb' \in UsbStates /\ usb'.seen = ready' /\ ready' \in BOOLEAN
        /\ ui' \in Dialogue /\ halt' \in BOOLEAN /\ (ready' => halt') /\ (halt => halt')
    BY <2>1, FreshIsDialogue DEF TypeOK, UsbStates
  <2>3. /\ led' \in LedStates /\ status = "SETUP" /\ status' = status /\ pc' = "term"
        /\ LedFits'
    BY <1>3, PollKeeps DEF UsbTask, LedFits
  <2>4. UNCHANGED <<leaving, cfg, flash, where, net, button, slot>> BY <1>3 DEF UsbTask
  <2>5. pc = "top" BY <1>3 DEF UsbTask
  <2>6. countdown' = IF halt' THEN 0 ELSE countdown BY <1>3 DEF UsbTask
  <2>7. countdown' \in 0..MaxCountdown /\ (~halt' => countdown' = countdown)
    BY <2>2, <2>6, AppAssumption DEF TypeOK
  <2> QED
    BY <2>2, <2>3, <2>4, <2>5, <2>7 DEF TypeOK, RuntimeAlone, NoPressLost, PlaceFits,
       CountdownFits, HostFits, NetworkFits, Starting, button
<1>4. CASE SetupTerm
  <2>1. MenuAfter
    BY <1>4, TermLoopKeeps DEF SetupTerm, TypeOK, MenuBefore, MenuAfter, NoneNew, menu
  <2> QED
    BY <1>4, <2>1, AppAssumption DEF SetupTerm, MenuAfter, TypeOK, RuntimeAlone, NoPressLost,
       PlaceFits, CountdownFits, HostFits, NetworkFits, LedFits, Starting, button, drive
<1>5. CASE SetupCount
  <2>1. /\ pc = "count" /\ pc' = "top" /\ status = "SETUP" /\ ~halt /\ ~ready
        /\ UNCHANGED <<leaving, ready, cfg, flash, ui, where, usb, net, button, slot, led>>
    BY <1>5 DEF SetupCount, PlaceFits, HostFits, TypeOK, drive
  <2>2. /\ status' = status \/ (status' \in Starting /\ halt')
        /\ countdown' \in 0..MaxCountdown /\ halt' \in BOOLEAN
        /\ ~halt' => countdown' > 0
    <3>1. CASE UNCHANGED <<status, halt, countdown>>
      BY <3>1, <2>1 DEF TypeOK, CountdownFits
    <3>2. CASE /\ countdown' = countdown - 1 /\ halt' = (countdown' <= 0)
               /\ status' = IF countdown' <= 0 THEN BootStatus ELSE status
      <4>1. countdown \in Nat /\ countdown <= MaxCountdown /\ countdown > 0
        BY <2>1, AppAssumption DEF TypeOK, CountdownFits
      <4>2. countdown' \in 0..MaxCountdown BY <3>2, <4>1, AppAssumption
      <4>3. CASE countdown' <= 0
        <5>1. halt' = TRUE /\ status' = BootStatus BY <3>2, <4>3
        <5>2. BootStatus \in Starting BY DEF BootStatus, Starting
        <5> QED BY <4>2, <5>1, <5>2
      <4>4. CASE ~(countdown' <= 0)
        <5>1. countdown' > 0 BY <4>2, <4>4, AppAssumption
        <5>2. halt' = (countdown' <= 0) BY <3>2
        <5>3. (countdown' <= 0) = FALSE BY <4>2, <4>4, AppAssumption
        <5>4. halt' = FALSE BY <5>2, <5>3, Zenon
        <5>5. status' = status BY <3>2, <4>4, Zenon
        <5> QED BY <4>2, <5>1, <5>4, <5>5
      <4> QED BY <4>3, <4>4
    <3> QED BY <1>5, <3>1, <3>2 DEF SetupCount
  <2>3. TypeOK' BY <2>1, <2>2 DEF TypeOK, button, Starting
  <2> QED
    BY <2>1, <2>2, <2>3 DEF RuntimeAlone, NoPressLost,
       PlaceFits, CountdownFits, HostFits, NetworkFits, LedFits, Starting, button
<1> QED BY <1>1, <1>2, <1>3, <1>4, <1>5

\* The end of the synchronisation, from wherever it ends.
LEMMA NtpOverInv ==
  ASSUME IInv, status \in Starting \/ status = "NTP_INIT", NtpOver, LedFits', led' \in LedStates,
         UNCHANGED <<where, countdown, usb, button, slot>>
  PROVE  IInv'
BY StartTypes, FreshIsDialogue
DEF NtpOver, Offline, IInv, Fits, TypeOK, RuntimeAlone, NoPressLost, PlaceFits,
    CountdownFits, HostFits, NetworkFits, Starting, button

LEMMA QueryingInv ==
  ASSUME IInv, NEW n \in NetStates, Querying(n) PROVE IInv'
BY DEF Querying, At, IInv, Fits, TypeOK, RuntimeAlone, NoPressLost, PlaceFits,
   CountdownFits, HostFits, NetworkFits, LedFits, Starting, menu, button, drive

LEMMA QueryStepType ==
  ASSUME NEW old \in NetStates, NEW sent \in BOOLEAN, NEW waits \in BOOLEAN
  PROVE  [old EXCEPT
            !.sent  = old.sent \/ (old.found /\ old.asked /\ old.pcb /\ sent),
            !.dns   = IF ~old.asked /\ waits THEN "waiting" ELSE old.dns,
            !.asked = ~old.err,
            !.found = old.found /\ ~old.asked /\ ~old.err,
            !.err   = FALSE] \in NetStates
<1> DEFINE s == old.sent \/ (old.found /\ old.asked /\ old.pcb /\ sent)
           d == IF ~old.asked /\ waits THEN "waiting" ELSE old.dns
           a == ~old.err
           f == old.found /\ ~old.asked /\ ~old.err
<1>1. s \in BOOLEAN /\ a \in BOOLEAN /\ f \in BOOLEAN BY Zenon
<1>2. d \in {"idle", "waiting"} BY DEF NetStates
<1> HIDE DEF s, d, a, f
<1>3. [old EXCEPT !.sent = s, !.dns = d, !.asked = a, !.found = f, !.err = FALSE] \in NetStates
  BY <1>1, <1>2 DEF NetStates
<1> QED BY <1>3 DEF s, d, a, f

LEMMA NtpInv ==
  ASSUME IInv, \/ NtpInit \/ ConnectPoll \/ ConnectEnds \/ QueryStep \/ QueryEnds
               \/ HostFound \/ HostMissing \/ NtpAnswers \/ NtpDone
  PROVE  IInv'
<1> USE DEF IInv, Fits, At, InLoop
<1>1. CASE NtpInit
  <2>1. LedFits' /\ led' \in LedStates BY <1>1, PollKeeps DEF NtpInit, LedFits, Starting
  <2>2. CASE NtpOver BY <1>1, <2>1, <2>2, NtpOverInv DEF NtpInit, Starting
  <2>3. CASE net' = [Offline EXCEPT !.up = TRUE, !.tries = 1] /\ pc' = "connect" /\ UNCHANGED menu
    <3>1. net' \in NetStates
      <4>1. 1 \in 0..MaxAttempts BY AppAssumption
      <4> QED BY <2>3, <4>1 DEF Offline, NetStates
    <3>2. status = "NTP_INIT" /\ UNCHANGED <<where, countdown, usb, button, slot>>
      BY <1>1 DEF NtpInit
    <3> QED
      BY <2>1, <2>3, <3>1, <3>2 DEF TypeOK, RuntimeAlone, NoPressLost,
         PlaceFits, CountdownFits, HostFits, NetworkFits, Starting, menu, button
  <2> QED BY <1>1, <2>2, <2>3 DEF NtpInit
<1>2. CASE ConnectPoll
  <2>1. MenuAfter
    BY <1>2, TermLoopKeeps DEF ConnectPoll, TypeOK, MenuBefore
  <2> QED
    BY <1>2, <2>1 DEF ConnectPoll, MenuAfter, TypeOK, RuntimeAlone,
       NoPressLost, PlaceFits, CountdownFits, HostFits, NetworkFits, LedFits, Starting,
       boot, button, drive
<1>3. CASE ConnectEnds
  <2>1. status \in Starting /\ UNCHANGED <<where, countdown, usb, button, slot, led>>
    BY <1>3 DEF ConnectEnds, PlaceFits, drive
  <2>2. CASE NtpOver
    <3>1. LedFits' /\ led' \in LedStates BY <2>1, <2>2 DEF NtpOver, LedFits, Starting, TypeOK
    <3> QED BY <2>1, <2>2, <3>1, NtpOverInv
  <2>3. CASE net' = [net EXCEPT !.tries = @ + 1] /\ net.tries < MaxAttempts /\ UNCHANGED <<menu, pc>>
    <3>1. net' \in NetStates BY <2>3, AppAssumption DEF TypeOK, NetStates
    <3> QED
      BY <1>3, <2>1, <2>3, <3>1 DEF ConnectEnds, TypeOK, RuntimeAlone, NoPressLost,
         PlaceFits, CountdownFits, HostFits, NetworkFits, LedFits, Starting, menu, button
  <2>4. CASE /\ net' = [net EXCEPT !.pcb = TRUE] /\ pc' = "query" /\ ui' = Fresh
             /\ UNCHANGED <<status, halt, leaving, ready, cfg, flash>>
    <3>1. net' \in NetStates BY <2>4 DEF TypeOK, NetStates
    <3> QED
      BY <2>1, <2>4, <3>1, FreshIsDialogue DEF TypeOK, RuntimeAlone, NoPressLost,
         PlaceFits, CountdownFits, HostFits, NetworkFits, LedFits, Starting, button
  <2> QED BY <1>3, <2>2, <2>3, <2>4 DEF ConnectEnds, TimedOut
<1>4. CASE QueryStep
  <2>1. PICK sent \in BOOLEAN, waits \in BOOLEAN :
          Querying([net EXCEPT
            !.sent  = net.sent \/ (net.found /\ net.asked /\ net.pcb /\ sent),
            !.dns   = IF ~net.asked /\ waits THEN "waiting" ELSE net.dns,
            !.asked = ~net.err,
            !.found = net.found /\ ~net.asked /\ ~net.err,
            !.err   = FALSE])
    BY <1>4 DEF QueryStep
  <2> DEFINE n == [net EXCEPT
            !.sent  = net.sent \/ (net.found /\ net.asked /\ net.pcb /\ sent),
            !.dns   = IF ~net.asked /\ waits THEN "waiting" ELSE net.dns,
            !.asked = ~net.err,
            !.found = net.found /\ ~net.asked /\ ~net.err,
            !.err   = FALSE]
  <2>2. n \in NetStates BY QueryStepType DEF TypeOK
  <2>3. Querying(n) BY <2>1
  <2> HIDE DEF n
  <2> QED BY <2>2, <2>3, QueryingInv
<1>5. CASE HostFound \/ HostMissing \/ NtpAnswers
  <2>1. /\ [net EXCEPT !.dns = "idle", !.found = TRUE] \in NetStates
        /\ [net EXCEPT !.dns = "idle", !.err = TRUE] \in NetStates
        /\ [net EXCEPT !.clock = TRUE, !.pcb = FALSE] \in NetStates
    BY DEF TypeOK, NetStates
  <2> QED BY <1>5, <2>1, QueryingInv DEF HostFound, HostMissing, NtpAnswers
<1>6. CASE QueryEnds
  <2>1. status \in Starting /\ UNCHANGED <<where, countdown, usb, button, slot, led>> /\ NtpOver
    BY <1>6 DEF QueryEnds, PlaceFits, drive
  <2>2. LedFits' /\ led' \in LedStates BY <2>1 DEF NtpOver, LedFits, Starting, TypeOK
  <2> QED BY <2>1, <2>2, NtpOverInv
<1>7. CASE NtpDone
  <2>1. LedFits' /\ led' \in LedStates BY <1>7, PollKeeps DEF NtpDone, LedFits, Starting
  <2> QED
    BY <1>7, <2>1 DEF NtpDone, TypeOK, RuntimeAlone, NoPressLost, PlaceFits,
       CountdownFits, HostFits, NetworkFits, Starting, boot, button
<1> QED BY <1>1, <1>2, <1>3, <1>4, <1>5, <1>6, <1>7

LEMMA RuntimeInv ==
  ASSUME IInv, EmulationInit \/ RuntimeTop \/ CycleDriveA \/ DrivesLoop PROVE IInv'
<1> USE DEF IInv, Fits, At, InLoop
<1>1. CASE EmulationInit
  <2>1. led' \in LedStates /\ ~led'.seq
    BY <1>1, PollKeeps DEF EmulationInit, LedFits
  <2>2. 1 \in Slots /\ 0 \in 0..MaxCountdown /\ Fresh \in Dialogue
    BY MenuAssumption, AppAssumption, FreshIsDialogue
  <2>3. usb' \in UsbStates /\ usb'.seen = usb.seen
    BY <1>1 DEF EmulationInit, TypeOK, UsbStates
  <2>4. ~ready /\ ~usb'.attached
    BY <1>1, <2>3 DEF EmulationInit, TypeOK, UsbStates, HostFits, Starting
  <2> QED
    BY <1>1, <2>1, <2>2, <2>3, <2>4 DEF EmulationInit, TypeOK, RuntimeAlone,
       NoPressLost, PlaceFits, CountdownFits, HostFits, NetworkFits, LedFits, Starting, button
<1>2. CASE RuntimeTop
  <2>1. led' \in LedStates /\ LedFits' BY <1>2, PollKeeps DEF RuntimeTop, LedFits, menu
  <2> QED
    BY <1>2, <2>1 DEF RuntimeTop, TypeOK, RuntimeAlone, NoPressLost, PlaceFits,
       CountdownFits, HostFits, NetworkFits, Starting, menu
<1>3. CASE CycleDriveA
  <2>1. slot' \in Slots /\ led' \in LedStates /\ LedFits'
    <3>1. CASE CanCycleDriveA /\ slot' = NextSlot /\ led' = StartCount(led, slot')
      <4>1. slot' \in Slots BY <3>1, NextSlotIsSlot
      <4>2. slot' \in Nat /\ slot' > 0 BY <4>1, MenuAssumption
      <4>3. led' = [led EXCEPT !.seq = TRUE, !.on = TRUE, !.left = slot', !.shown = 0]
        BY <3>1 DEF StartCount
      <4>4. led' \in LedStates /\ led'.left = slot' /\ led'.shown = 0
        BY <4>2, <4>3 DEF TypeOK, LedStates
      <4>5. status' = "RUNTIME" BY <1>3 DEF CycleDriveA, PlaceFits, menu
      <4>6. \A n \in Nat : n + 0 = n OBVIOUS
      <4>7. led'.left > 0 /\ led'.left + led'.shown = slot' BY <4>2, <4>4, <4>6, Zenon
      <4>8. LedFits' BY <4>5, <4>7, Zenon DEF LedFits
      <4> QED BY <4>1, <4>4, <4>8
    <3>2. CASE UNCHANGED drive BY <1>3, <3>2 DEF CycleDriveA, TypeOK, LedFits, drive, menu
    <3> QED BY <1>3, <3>1, <3>2 DEF CycleDriveA
  <2> QED
    BY <1>3, <2>1 DEF CycleDriveA, TypeOK, RuntimeAlone, NoPressLost, PlaceFits,
       CountdownFits, HostFits, NetworkFits, Starting, menu, button
<1>4. CASE DrivesLoop
  <2>1. led' \in LedStates /\ led'.seq = led.seq /\ led'.left = led.left /\ led'.shown = led.shown
    <3>1. (led.act \/ ~led.seq) \in BOOLEAN BY Zenon
    <3> QED BY <1>4, <3>1 DEF DrivesLoop, Pulse, TypeOK, LedStates
  <2> QED
    BY <1>4, <2>1 DEF DrivesLoop, TypeOK, RuntimeAlone, NoPressLost, PlaceFits,
       CountdownFits, HostFits, NetworkFits, LedFits, Starting, menu, button
<1> QED BY <1>1, <1>2, <1>3, <1>4

LEMMA SelectInv == ASSUME IInv, ShortPress \/ HandleCycle PROVE IInv'
<1> USE DEF IInv, Fits
<1>1. CASE ShortPress
  <2>1. sel' \in {"up", "cycle", "reset"} BY <1>1 DEF ShortPress
  <2> QED
    BY <1>1, <2>1 DEF ShortPress, TypeOK, RuntimeAlone, NoPressLost, PlaceFits,
       CountdownFits, HostFits, NetworkFits, LedFits, Starting, menu, boot, drive
<1>2. CASE HandleCycle
  <2>1. pending' \in BOOLEAN /\ owed' \in BOOLEAN /\ (owed' => pending')
    <3>1. CanCycleDriveA \in BOOLEAN BY DEF CanCycleDriveA, TypeOK, Settings
    <3> QED BY <1>2, <3>1 DEF HandleCycle, TypeOK, NoPressLost
  <2> QED
    BY <1>2, <2>1 DEF HandleCycle, TypeOK, RuntimeAlone, NoPressLost, PlaceFits,
       CountdownFits, HostFits, NetworkFits, LedFits, Starting, menu, boot, drive
<1> QED BY <1>1, <1>2

\* Every way to start again.
Restarts == AnyKey \/ FinishAppLoop \/ Launch \/ LongPress \/ Reset

LEMMA RestartsInv == ASSUME IInv, Restarts PROVE IInv' /\ pc' = "start"
<1>1. PICK app \in {"app", "booster"} : Restart(app)
  BY DEF Restarts, AnyKey, FinishAppLoop, Launch, LongPress, Reset
<1> QED BY <1>1, RestartInv DEF Restart, Fresh0

LEMMA NextInv == ASSUME IInv, [Next]_vars PROVE IInv'
<1>1. CASE EmulStart \/ HostMoves \/ UsbTask \/ SetupTerm \/ SetupCount BY <1>1, SetupInv
<1>2. CASE \/ NtpInit \/ ConnectPoll \/ ConnectEnds \/ QueryStep \/ QueryEnds
           \/ HostFound \/ HostMissing \/ NtpAnswers \/ NtpDone
  BY <1>2, NtpInv
<1>3. CASE EmulationInit \/ RuntimeTop \/ CycleDriveA \/ DrivesLoop BY <1>3, RuntimeInv
<1>4. CASE ShortPress \/ HandleCycle BY <1>4, SelectInv
<1>5. CASE Restarts BY <1>5, RestartsInv
<1>6. CASE UNCHANGED vars BY <1>6, StutterInv
<1> QED BY <1>1, <1>2, <1>3, <1>4, <1>5, <1>6, Zenon DEF Next, Core0, Core1, World, Restarts
-----------------------------------------------------------------------------
(* The theorems                                                             *)

LEMMA Inductive == Spec => []IInv
<1>1. Init => IInv BY InitInv
<1>2. IInv /\ [Next]_vars => IInv' BY NextInv
<1> QED BY <1>1, <1>2, PTL DEF Spec

\* Every variable keeps its type, the countdown and the attempts their bounds, and
\* the drive is always at one of its slots.
THEOREM Typed == Spec => []TypeOK
<1>1. IInv => TypeOK BY DEF IInv
<1> QED BY <1>1, Inductive, PTL

\* The steps that can change the settings are those of the terminal, at two places,
\* and the starts.
LEMMA NoConflictComes == ASSUME IInv, [Next]_vars PROVE NoneNew
<1>1. MenuBefore /\ ui \in Dialogue BY DEF IInv, TypeOK, MenuBefore
<1>2. CASE UNCHANGED <<cfg, flash>> BY <1>2 DEF NoneNew, Conflicting
<1>3. CASE TermLoop BY <1>1, <1>3, TermLoopKeeps DEF MenuAfter
<1>4. CASE cfg' = flash /\ flash' = flash BY <1>4 DEF NoneNew
<1>5. CASE Restarts
  BY <1>4, <1>5 DEF Restarts, AnyKey, FinishAppLoop, Launch, LongPress, Reset, Restart
<1>6. CASE SetupTerm \/ ConnectPoll BY <1>2, <1>3, <1>6 DEF SetupTerm, ConnectPoll, menu
<1>7. CASE \/ NtpInit \/ ConnectEnds \/ QueryStep \/ QueryEnds
           \/ HostFound \/ HostMissing \/ NtpAnswers \/ NtpDone
  BY <1>2, <1>7 DEF NtpInit, NtpOver, ConnectEnds, TimedOut, QueryStep, QueryEnds, HostFound,
     HostMissing, NtpAnswers, Querying, NtpDone, menu
<1>8. CASE \/ EmulStart \/ HostMoves \/ UsbTask \/ SetupCount \/ EmulationInit \/ RuntimeTop
           \/ CycleDriveA \/ DrivesLoop \/ ShortPress \/ HandleCycle \/ UNCHANGED vars
  BY <1>2, <1>8 DEF EmulStart, HostMoves, UsbTask, SetupCount, EmulationInit, RuntimeTop,
     CycleDriveA, DrivesLoop, ShortPress, HandleCycle, vars, menu
<1> QED BY <1>5, <1>6, <1>7, <1>8, Zenon DEF Next, Core0, Core1, World, Restarts

\* For any drive letters, from any settings and by any way through the menu: only a
\* hidden put_* command brings GEMDRIVE's letter and ACSI's first one together.
THEOREM ConflictChecked == Spec => NoNewConflict
<1>1. IInv /\ [Next]_vars =>
        [Conflicting(cfg') \/ Conflicting(flash') =>
           Conflicting(cfg) \/ Conflicting(flash) \/ PutLine]_vars
  BY NoConflictComes DEF NoneNew
<1> QED BY <1>1, Inductive, PTL DEF Spec, NoNewConflict

\* However the set-up was left, the emulation has the card and the network to itself.
THEOREM Alone == Spec => []RuntimeAlone
<1>1. IInv => RuntimeAlone BY DEF IInv
<1> QED BY <1>1, Inductive, PTL

\* No accepted press of SELECT is lost, for any set of slots.
THEOREM PressKept == Spec => []NoPressLost
<1>1. IInv => NoPressLost BY DEF IInv
<1> QED BY <1>1, Inductive, PTL

\* A step that is neither a poll of the LED nor a start leaves a count under way.
LEMMA CountGoesOn ==
  ASSUME IInv, [Next]_vars, led.seq, ~led'.seq, pc' # "start" PROVE BlinkPoll /\ slot' = slot
<1>1. status = "RUNTIME" BY DEF IInv, Fits, LedFits
<1>2. pc # "start" /\ pc # "anykey" /\ pc # "connect" /\ pc # "query"
  BY <1>1 DEF IInv, Fits, PlaceFits, Starting
<1>3. led \in LedStates BY DEF IInv, TypeOK
<1>4. ~Restarts BY RestartsInv
<1>5. CASE led' = led BY <1>5
<1>6. CASE RuntimeTop BY <1>6 DEF RuntimeTop
<1>7. CASE CycleDriveA
  BY <1>3, <1>7 DEF CycleDriveA, StartCount, LedStates, drive
<1>8. CASE DrivesLoop BY <1>3, <1>8 DEF DrivesLoop, Pulse, LedStates
<1>9. CASE Next /\ ~(led' = led) /\ ~RuntimeTop /\ ~CycleDriveA /\ ~DrivesLoop
  BY <1>1, <1>2, <1>4, <1>9
  DEF Next, Core0, Core1, World, Restarts, EmulStart, UsbTask, SetupTerm, SetupCount, NtpInit,
      ConnectPoll, ConnectEnds, QueryStep, QueryEnds, NtpDone, EmulationInit, ShortPress,
      HandleCycle, HostMoves, HostFound, HostMissing, NtpAnswers, Querying, InLoop, At, drive
<1> QED BY <1>5, <1>6, <1>7, <1>8, <1>9 DEF vars, drive

\* The LED never ends a count at a slot that is not the drive's, for any number of slots.
THEOREM CountIsSlot == Spec => SlotShown
<1>1. IInv /\ [Next]_vars => [led.seq /\ ~led'.seq /\ pc' # "start" => led'.shown = slot]_vars
  BY CountGoesOn, PollKeeps DEF IInv, Fits
<1> QED BY <1>1, Inductive, PTL DEF Spec, SlotShown
=============================================================================
