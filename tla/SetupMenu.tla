----------------------------- MODULE SetupMenu -----------------------------
(***************************************************************************)
(* The set-up menu of the Drives application: the command handlers of        *)
(* emul.c, and the way term.c finds the handler of a key or of a line.       *)
(* EmulApp puts the menu in the main loop.                                  *)
(*                                                                         *)
(* The settings are those another part depends on.  The others - folders,    *)
(* images, boot, Y2K, NTP host... - are values no step looks at: the         *)
(* handlers that edit them are here for what they do to the terminal and to  *)
(* the countdown.  A save is one step here; Settings has what a power cut in *)
(* the middle of it leaves.  Of the hidden commands, erase is not here.      *)
(***************************************************************************)
EXTENDS Integers, FiniteSets

CONSTANTS
  Letters,    \* drive letters the user may type
  FirstDrive, \* the letter both drives have by default, "C"
  D,          \* the letter "D", that the menu's command [d] is taken for
  NotALetter, \* a line that is no valid drive letter
  Slots,      \* slots of drive A
  PutKeys     \* bound: settings the user types values for with put_bool and put_str

Switches == {"gem", "acsi", "rtc", "floppy"}
Names    == {"gemLetter", "acsiLetter"}

ASSUME MenuAssumption ==
  /\ FirstDrive \in Letters /\ D \in Letters /\ NotALetter \notin Letters
  /\ Slots \subseteq Nat \ {0} /\ 1 \in Slots /\ IsFiniteSet(Slots)
  /\ PutKeys \subseteq Switches \cup Names

VARIABLES
  status,   \* appStatus
  halt,     \* haltCountdown
  leaving,  \* jumpBooster, and with it not keepActive
  ready,    \* usbMassStorageReady
  cfg,      \* the settings in memory
  flash,    \* the settings as they were saved
  ui        \* commandLevel, lastSingleKeyCommand and the multi-image dialogue

menu == <<status, halt, leaving, ready, cfg, flash, ui>>

Levels   == {"single", "reentry", "data", "command"}
Commands == {"menu", "exit", "booster", "hidden", "gem", "gemDrive", "acsi", "acsiDrive",
             "acsiId", "ntp", "rtc", "floppy", "image", "driveA", "ejectA", "driveASet"}
Settings == [gem : BOOLEAN, gemLetter : Letters, acsi : BOOLEAN, acsiLetter : Letters,
             rtc : BOOLEAN, floppy : BOOLEAN, slots : SUBSET Slots]
Dialogue == [level : Levels, last : Commands, aset : {"idle", "select", "assign"},
             target : Slots]

\* What a key or a line is, to the handler that gets it.
Keys   == [key : {"space", "m", "other"}, slot : {1}, letter : {NotALetter}]
            \cup [key : {"slot", "shifted"}, slot : Slots \ {1}, letter : {NotALetter}]
Lines  == [key : {"other"}, slot : {1}, letter : Letters \cup {NotALetter}]
NoText == [key |-> "other", slot |-> 1, letter |-> NotALetter]
\* On the command line the line is the name of the command itself.
Line(c) == [NoText EXCEPT !.letter = IF c = "gemDrive" THEN D ELSE NotALetter]

Defaults == [gem |-> TRUE, gemLetter |-> FirstDrive, acsi |-> FALSE, acsiLetter |-> FirstDrive,
             rtc |-> TRUE, floppy |-> TRUE, slots |-> {}]
Fresh    == [level |-> "single", last |-> "menu", aset |-> "idle", target |-> 1]

BootStatus == IF cfg.rtc THEN "NTP_INIT" ELSE "EMULATION_INIT"
-----------------------------------------------------------------------------
(* The handlers.  u is the dialogue at the call and in the argument, or      *)
(* what the input buffer holds.                                             *)

Prompting(u)  == u.level = "single"
AtLevel(u, l) == [u EXCEPT !.level = l]

\* What a later key can depend on: at these levels it sets the rest before it is read.
Kept(u) == IF u.level \in {"single", "command"} THEN [Fresh EXCEPT !.level = u.level] ELSE u

\* A handler that leaves the state of the application and the settings alone, ...
Edits(newUi, halts) ==
  /\ ui' = Kept(newUi) /\ halt' = (halt \/ halts)
  /\ UNCHANGED <<status, leaving, ready, cfg, flash>>

\* ... or changes a setting and saves them all.
Stores(newCfg, newUi, halts) ==
  /\ cfg' = newCfg /\ flash' = newCfg
  /\ ui' = Kept(newUi) /\ halt' = (halt \/ halts)
  /\ UNCHANGED <<status, leaving, ready>>

Ignored(u)        == Edits(u, FALSE)
Saved(newCfg, u)  == Stores(newCfg, AtLevel(u, "single"), TRUE)
Refused(u)        == Edits(AtLevel(u, "single"), TRUE)

CmdMenu(u) == Edits(AtLevel(u, "single"), TRUE)

\* Deviation: the menu lets the user go while a host has the card.
CmdExitUnchecked(u) ==
  /\ halt' = TRUE /\ status' = BootStatus /\ ui' = Kept(u)
  /\ UNCHANGED <<leaving, ready, cfg, flash>>

CmdExit(u) ==
  IF ready THEN Ignored(u)
  ELSE /\ halt' = TRUE /\ status' = BootStatus /\ ui' = Kept(u)
       /\ UNCHANGED <<leaving, ready, cfg, flash>>

CmdBooster(u) ==
  leaving' = TRUE /\ halt' = TRUE /\ ui' = Kept(u) /\ UNCHANGED <<status, ready, cfg, flash>>

CmdHiddenSettings(u) == Edits(AtLevel(u, "command"), TRUE)

Conflict(gem, gemLetter, acsi, acsiLetter) == gem /\ acsi /\ gemLetter = acsiLetter

CmdGemdriveEnabled(u) ==
  IF ~cfg.gem /\ Conflict(TRUE, cfg.gemLetter, cfg.acsi, cfg.acsiLetter)
  THEN Refused(u) ELSE Saved([cfg EXCEPT !.gem = ~cfg.gem], u)

\* Deviation: ACSI is switched on without a look at the GEMDRIVE.
CmdAcsiEnabledBlindly(u) == Saved([cfg EXCEPT !.acsi = ~cfg.acsi], u)

CmdAcsiEnabled(u) ==
  IF ~cfg.acsi /\ Conflict(cfg.gem, cfg.gemLetter, TRUE, cfg.acsiLetter)
  THEN Refused(u) ELSE Saved([cfg EXCEPT !.acsi = ~cfg.acsi], u)

CmdGemdriveDrive(u, in) ==
  IF ~cfg.gem THEN Ignored(u)
  ELSE IF Prompting(u) THEN Edits(AtLevel(u, "data"), TRUE)
  ELSE IF in.letter \notin Letters THEN Edits(AtLevel(u, "single"), FALSE)
  ELSE IF Conflict(TRUE, in.letter, cfg.acsi, cfg.acsiLetter) THEN Refused(u)
  ELSE Stores([cfg EXCEPT !.gemLetter = in.letter], AtLevel(u, "single"), FALSE)

CmdAcsiDrive(u, in) ==
  IF ~cfg.acsi THEN Ignored(u)
  ELSE IF Prompting(u) THEN Edits(AtLevel(u, "data"), TRUE)
  ELSE IF \/ in.letter \notin Letters
          \/ Conflict(cfg.gem, cfg.gemLetter, TRUE, in.letter) THEN Refused(u)
  ELSE Stores([cfg EXCEPT !.acsiLetter = in.letter], AtLevel(u, "single"), FALSE)

\* cmdAcsiId; and cmdUTCOffset, cmdHost and cmdPort, which need the clock.
CmdAcsiId(u) ==
  IF Prompting(u) THEN Edits(AtLevel(u, "data"), TRUE)
  ELSE Refused(u) \/ Stores(cfg, AtLevel(u, "single"), FALSE)

CmdNtpValue(u) ==
  IF ~cfg.rtc THEN Ignored(u)
  ELSE IF Prompting(u) THEN Edits(AtLevel(u, "data"), TRUE)
  ELSE Edits(AtLevel(u, "single"), FALSE) \/ Stores(cfg, AtLevel(u, "single"), FALSE)

CmdRTCEnabled(u)    == Saved([cfg EXCEPT !.rtc = ~cfg.rtc], u)
CmdFloppyEnabled(u) == Saved([cfg EXCEPT !.floppy = ~cfg.floppy], u)

\* A browser of the card: SPACE chooses, if what it is on can be chosen.
Browsed(u, in, newCfg) ==
  \/ Prompting(u) /\ Edits(AtLevel(u, "reentry"), TRUE)
  \/ u.level = "reentry" /\ in.key = "space" /\ Saved(newCfg, u)
  \/ ~Prompting(u) /\ Edits(u, TRUE)

CmdAcsiImage(u, in) == Browsed(u, in, cfg)

CmdFloppyDriveA(u, in) ==
  IF cfg.floppy THEN Browsed(u, in, [cfg EXCEPT !.slots = cfg.slots \cup {1}]) ELSE Ignored(u)

CmdFloppyDriveAEject(u) ==
  IF cfg.floppy THEN Saved([cfg EXCEPT !.slots = cfg.slots \ {1}], u) ELSE Ignored(u)

\* The multi-image dialogue: select a slot, then an image for it.
OpenBrowser(u, slot) ==
  \E loads \in BOOLEAN :
    Edits([u EXCEPT !.target = slot, !.level = "reentry",
                         !.aset = IF loads THEN "assign" ELSE "select"], TRUE)

CmdFloppyDriveASet(u, in) ==
  IF ~cfg.floppy THEN Ignored(u)
  ELSE IF Prompting(u)
       THEN Edits([u EXCEPT !.aset = "select", !.target = 1, !.level = "reentry"], TRUE)
  ELSE IF u.aset = "select"
       THEN CASE in.key \in {"space", "m"} ->
                Refused([u EXCEPT !.aset = "idle", !.target = 1])
              [] in.key = "slot"    -> OpenBrowser(u, in.slot)
              [] in.key = "shifted" -> Stores([cfg EXCEPT !.slots = cfg.slots \ {in.slot}], u, TRUE)
              [] in.key = "other"   -> Edits(u, TRUE)
  ELSE IF u.aset = "assign" /\ in.key \in {"space", "m"}
       THEN LET back == [u EXCEPT !.aset = "select"]
            IN IF in.key = "m" THEN Edits(back, TRUE)
               ELSE Stores([cfg EXCEPT !.slots = cfg.slots \cup {u.target}], back, TRUE)
  ELSE Edits(IF u.aset = "idle" THEN [u EXCEPT !.aset = "select"] ELSE u, TRUE)

Handler(c, u, in) ==
  \/ c = "menu"      /\ CmdMenu(u)
  \/ c = "exit"      /\ CmdExit(u)
  \/ c = "booster"   /\ CmdBooster(u)
  \/ c = "hidden"    /\ CmdHiddenSettings(u)
  \/ c = "gem"       /\ CmdGemdriveEnabled(u)
  \/ c = "gemDrive"  /\ CmdGemdriveDrive(u, in)
  \/ c = "acsi"      /\ CmdAcsiEnabled(u)
  \/ c = "acsiDrive" /\ CmdAcsiDrive(u, in)
  \/ c = "acsiId"    /\ CmdAcsiId(u)
  \/ c = "ntp"       /\ CmdNtpValue(u)
  \/ c = "rtc"       /\ CmdRTCEnabled(u)
  \/ c = "floppy"    /\ CmdFloppyEnabled(u)
  \/ c = "image"     /\ CmdAcsiImage(u, in)
  \/ c = "driveA"    /\ CmdFloppyDriveA(u, in)
  \/ c = "ejectA"    /\ CmdFloppyDriveAEject(u)
  \/ c = "driveASet" /\ CmdFloppyDriveASet(u, in)
-----------------------------------------------------------------------------
(* What comes from the Atari's terminal                                     *)

KeyAtMenu   == ui.level = "single"
                 /\ \E c \in Commands : Handler(c, [ui EXCEPT !.last = c], NoText)
KeyReentry  == ui.level = "reentry" /\ \E in \in Keys : Handler(ui.last, ui, in)
DataLine    == ui.level = "data" /\ \E in \in Lines : Handler(ui.last, ui, in)
\* The multi-image dialogue has a key that is not in a command line.
CommandLine == ui.level = "command"
                 /\ \E c \in Commands \ {"driveASet"} : Handler(c, ui, Line(c))

\* The hidden commands put_bool and put_str: any setting gets any value, which
\* nothing checks and nothing saves; and save.
PutLine ==
  /\ ui.level = "command"
  /\ \/ \E k \in PutKeys \cap Switches, v \in BOOLEAN : cfg' = [cfg EXCEPT ![k] = v]
     \/ \E k \in PutKeys \cap Names, v \in Letters : cfg' = [cfg EXCEPT ![k] = v]
  /\ UNCHANGED <<status, halt, leaving, ready, flash, ui>>

SaveLine == ui.level = "command" /\ Stores(cfg, ui, FALSE)

\* The user starts the terminal: the menu, whatever it was doing.
TerminalStart == CmdMenu([ui EXCEPT !.level = "single", !.last = "menu"])

\* One call of term_loop that has a command to handle.
TermLoop == \/ KeyAtMenu \/ KeyReentry \/ DataLine \/ TerminalStart
            \/ CommandLine \/ PutLine \/ SaveLine
=============================================================================
