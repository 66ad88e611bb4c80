------------------------------ MODULE EmulApp ------------------------------
(***************************************************************************)
(* The Drives application (emul.c) from power-on to the emulation, with what *)
(* its main loop drives: the set-up menu, the USB mass storage, the on-demand*)
(* NTP synchronisation (rtc.c, network.c), the SELECT button on core 1       *)
(* (select.c, reset.c) and the activity LED (blink.c).                      *)
(*                                                                         *)
(* Core 0 takes its steps at pc, core 1 at sel.  A reset of the board, and   *)
(* the way back from the Booster application, start everything again except *)
(* the settings in flash.  Time is not measured: what a timeout ends may end *)
(* at any moment, and must end.                                              *)
(***************************************************************************)
EXTENDS SetupMenu

CONSTANTS
  MaxCountdown, \* countdown at the start, 20 in the code
  MaxAttempts   \* maxAttempts, connections to the Wi-Fi network, 3 in the code

ASSUME AppAssumption == MaxCountdown \in Nat \ {0} /\ MaxAttempts \in Nat \ {0}

VARIABLES
  where,     \* the application the board runs: this one or the Booster
  pc,        \* core 0: the step of the main loop
  countdown,
  usb,       \* the host's side, and usbInitialized, tud_disconnect, usbMassStorageMounted
  net,       \* the Wi-Fi stack, attempt, and netTime with the DNS query and the clock
  sel,       \* core 1: what a press of SELECT is about to do
  pending,   \* pendingDriveACycle
  owed,      \* history: a press was accepted, and no cycle has begun since
  slot,      \* currentDriveASlot
  led        \* blink.c, with the flashes seen since the count began

boot    == <<where, pc, countdown, usb, net>>
button  == <<sel, pending, owed>>
drive   == <<slot, led>>
vars    == <<menu, boot, button, drive>>

Starting == {"NTP_INIT", "NTP_DONE", "EMULATION_INIT"}
Offline  == [up |-> FALSE, tries |-> 0, pcb |-> FALSE, asked |-> FALSE, dns |-> "idle",
             found |-> FALSE, err |-> FALSE, sent |-> FALSE, clock |-> FALSE]
NoUsb    == [host |-> "out", init |-> FALSE, attached |-> FALSE, seen |-> FALSE]
Dark     == [seq |-> FALSE, on |-> FALSE, left |-> 0, act |-> FALSE, shown |-> 0]

UsbStates == [host : {"out", "idle", "on"}, init : BOOLEAN, attached : BOOLEAN, seen : BOOLEAN]
NetStates == [up : BOOLEAN, tries : 0..MaxAttempts, pcb : BOOLEAN, asked : BOOLEAN,
              dns : {"idle", "waiting"}, found : BOOLEAN, err : BOOLEAN, sent : BOOLEAN,
              clock : BOOLEAN]
LedStates == [seq : BOOLEAN, on : BOOLEAN, left : Nat, act : BOOLEAN, shown : Nat]

TypeOK ==
  /\ status \in {"SETUP", "RUNTIME"} \cup Starting
  /\ halt \in BOOLEAN /\ leaving \in BOOLEAN /\ ready \in BOOLEAN
  /\ cfg \in Settings /\ flash \in Settings /\ ui \in Dialogue
  /\ where \in {"app", "booster"}
  /\ pc \in {"start", "anykey", "top", "term", "count", "connect", "query", "cycle", "work"}
  /\ countdown \in 0..MaxCountdown
  /\ usb \in UsbStates /\ net \in NetStates
  /\ sel \in {"up", "cycle", "reset"}
  /\ pending \in BOOLEAN /\ owed \in BOOLEAN /\ slot \in Slots
  /\ led \in LedStates

\* The variables as a reset leaves them, in the application the board starts.
Fresh0(app) ==
  /\ status' = "SETUP" /\ halt' = FALSE /\ leaving' = FALSE /\ ready' = FALSE /\ ui' = Fresh
  /\ where' = app /\ pc' = "start" /\ countdown' = MaxCountdown /\ usb' = NoUsb
  /\ net' = Offline /\ sel' = "up" /\ pending' = FALSE /\ owed' = FALSE /\ slot' = 1
  /\ led' = Dark

Init ==
  /\ status = "SETUP" /\ halt = FALSE /\ leaving = FALSE /\ ready = FALSE /\ ui = Fresh
  /\ where = "app" /\ pc = "start" /\ countdown = MaxCountdown /\ usb = NoUsb
  /\ net = Offline /\ sel = "up" /\ pending = FALSE /\ owed = FALSE /\ slot = 1
  /\ led = Dark /\ cfg = Defaults /\ flash = Defaults

\* The settings are loaded from flash.
Restart(app) == Fresh0(app) /\ cfg' = flash /\ UNCHANGED flash
At(p)        == where = "app" /\ pc = p
InLoop(s)    == At("top") /\ ~leaving /\ status = s
-----------------------------------------------------------------------------
(* The LED shows a count of flashes, which activity pulses do not disturb.  *)

\* Deviation: a count in progress is not begun again by the next one.
CountedOnce(l, n) ==
  IF l.seq THEN l ELSE [l EXCEPT !.seq = TRUE, !.on = TRUE, !.left = n, !.shown = 0]

StartCount(l, n) == [l EXCEPT !.seq = TRUE, !.on = TRUE, !.left = n, !.shown = 0]

Pulse(l) == [l EXCEPT !.act = l.act \/ ~l.seq]

\* blink_poll, when the time of what the LED shows is over.
Polled(l) ==
  IF l.seq /\ l.on
  THEN [l EXCEPT !.on = FALSE, !.left = l.left - 1, !.seq = l.left > 1, !.shown = l.shown + 1]
  ELSE IF l.seq THEN [l EXCEPT !.on = TRUE] ELSE [l EXCEPT !.act = FALSE]

BlinkPoll == led' = led \/ led' = Polled(led)
-----------------------------------------------------------------------------
(* Power-on, and the end of the application                                 *)

\* emul_start up to the main loop: core 1 starts, then the card.
EmulStart ==
  /\ At("start")
  /\ \E card \in BOOLEAN : pc' = IF card THEN "top" ELSE "anykey"
  /\ UNCHANGED <<menu, where, countdown, usb, net, button, drive>>

\* The card is missing: any key leads to the Booster, through the same exit.
AnyKey == At("anykey") /\ Restart("booster")

\* finishAppLoop: core 1 is stopped, wherever it is, and the Booster runs.
FinishAppLoop == At("top") /\ leaving /\ Restart("booster")

\* The user starts the application from the Booster.
Launch == where = "booster" /\ Restart("app")
-----------------------------------------------------------------------------
(* APP_MODE_SETUP                                                          *)

\* A host is plugged in, mounts the card, lets it go; only the set-up looks at it.
HostMoves ==
  /\ where = "app" /\ status = "SETUP"
  /\ \E h \in {"out", "idle", "on"} \ {usb.host} :
       (h = "on" => usb.attached) /\ usb' = [usb EXCEPT !.host = h]
  /\ UNCHANGED <<menu, where, pc, countdown, net, button, drive>>

\* The start and the task of the USB device, in an iteration at SETUP.
UsbTask ==
  /\ InLoop("SETUP") /\ pc' = "term"
  /\ \E ok \in BOOLEAN :
       LET inited  == usb.init \/ (usb.host # "out" /\ ok)
           mounted == inited /\ usb.host = "on"
       IN /\ usb' = [usb EXCEPT !.init = inited, !.attached = inited, !.seen = mounted]
          /\ ready' = mounted
          /\ ui' = IF ready # mounted THEN Fresh ELSE ui
          /\ halt' = (halt \/ mounted)
          /\ countdown' = IF halt' THEN 0 ELSE countdown
  /\ BlinkPoll
  /\ UNCHANGED <<status, leaving, cfg, flash, where, net, button, slot>>

SetupTerm ==
  /\ At("term")
  /\ TermLoop \/ UNCHANGED menu
  /\ pc' = IF halt' THEN "top" ELSE "count"
  /\ countdown' = IF halt' THEN 0 ELSE countdown
  /\ UNCHANGED <<where, usb, net, button, drive>>

SetupCount ==
  /\ At("count") /\ pc' = "top"
  /\ \/ UNCHANGED <<status, halt, countdown>>
     \/ /\ countdown' = countdown - 1
        /\ halt' = (countdown' <= 0)
        /\ status' = IF countdown' <= 0 THEN BootStatus ELSE status
  /\ UNCHANGED <<leaving, ready, cfg, flash, ui, where, usb, net, button, drive>>
-----------------------------------------------------------------------------
(* APP_MODE_NTP_INIT and APP_MODE_NTP_DONE: runOnDemandRtcNtpSync            *)

\* The synchronisation is over, for whatever reason: network_deInit.
NtpOver == net' = Offline /\ status' = "NTP_DONE" /\ pc' = "top" /\ ui' = Fresh
             /\ UNCHANGED <<halt, leaving, ready, cfg, flash>>

\* Skipped, failed, or under way with the first attempt to connect.
NtpInit ==
  /\ InLoop("NTP_INIT") /\ BlinkPoll
  /\ \/ NtpOver
     \/ net' = [Offline EXCEPT !.up = TRUE, !.tries = 1] /\ pc' = "connect" /\ UNCHANGED menu
  /\ UNCHANGED <<where, countdown, usb, button, slot>>

\* network_wifiStaConnect calls term_loop as it waits.
ConnectPoll ==
  /\ At("connect") /\ TermLoop
  /\ UNCHANGED <<boot, button, drive>>

\* Deviation: the count of the attempts starts again.
TimedOutForever ==
  /\ net' = [net EXCEPT !.tries = IF @ < MaxAttempts THEN @ + 1 ELSE 1]
  /\ UNCHANGED <<menu, pc>>

\* The terminal is not read again, once no attempt is left.
TimedOut ==
  IF net.tries < MaxAttempts
  THEN net' = [net EXCEPT !.tries = @ + 1] /\ UNCHANGED <<menu, pc>>
  ELSE NtpOver

\* Connected, with a control block for the request; out of time; or an error.
ConnectEnds ==
  /\ At("connect")
  /\ \/ /\ net' = [net EXCEPT !.pcb = TRUE] /\ pc' = "query" /\ ui' = Fresh
        /\ UNCHANGED <<status, halt, leaving, ready, cfg, flash>>
     \/ TimedOut
     \/ NtpOver
  /\ UNCHANGED <<where, countdown, usb, button, drive>>

Querying(newNet) ==
  /\ At("query") /\ net' = newNet
  /\ UNCHANGED <<menu, where, pc, countdown, usb, button, drive>>

\* An iteration of rtc_queryNTPTime: the request, the DNS query, the reset after an error.
QueryStep ==
  /\ ~net.clock
  /\ \E sent, waits \in BOOLEAN :
       Querying([net EXCEPT
         !.sent  = net.sent \/ (net.found /\ net.asked /\ net.pcb /\ sent),
         !.dns   = IF ~net.asked /\ waits THEN "waiting" ELSE net.dns,
         !.asked = ~net.err,
         !.found = net.found /\ ~net.asked /\ ~net.err,
         !.err   = FALSE])

HostFound   == net.dns = "waiting" /\ Querying([net EXCEPT !.dns = "idle", !.found = TRUE])
HostMissing == net.dns = "waiting" /\ Querying([net EXCEPT !.dns = "idle", !.err = TRUE])

\* ntpRecvCB with a valid answer; any other leaves everything alone.
NtpAnswers ==
  net.sent /\ net.pcb /\ Querying([net EXCEPT !.clock = TRUE, !.pcb = FALSE])

\* The clock is set or the 5 seconds are over: ntp_cleanup_pcb.
QueryEnds ==
  /\ At("query") /\ NtpOver
  /\ UNCHANGED <<where, countdown, usb, button, drive>>

NtpDone ==
  /\ InLoop("NTP_DONE") /\ BlinkPoll /\ status' = "EMULATION_INIT"
  /\ UNCHANGED <<halt, leaving, ready, cfg, flash, ui, boot, button, slot>>
-----------------------------------------------------------------------------
(* APP_EMULATION_INIT and APP_EMULATION_RUNTIME                             *)

\* The terminal and the countdown are not read again.
EmulationInit ==
  /\ InLoop("EMULATION_INIT") /\ BlinkPoll
  /\ status' = "RUNTIME" /\ slot' = 1 /\ ui' = Fresh /\ countdown' = 0
  /\ usb' = IF usb.seen THEN usb ELSE [usb EXCEPT !.attached = FALSE, !.host = "out"]
  /\ UNCHANGED <<halt, leaving, ready, cfg, flash, where, pc, net, button>>

CanCycleDriveA == cfg.floppy /\ Cardinality(cfg.slots) >= 2

Least(s) == CHOOSE x \in s : \A y \in s : x <= y
NextSlot == LET later == {s \in cfg.slots : s > slot}
            IN Least(IF later # {} THEN later ELSE cfg.slots)

RuntimeTop ==
  /\ InLoop("RUNTIME") /\ BlinkPoll
  /\ pc' = IF pending THEN "cycle" ELSE "work"
  /\ pending' = FALSE /\ owed' = FALSE
  /\ UNCHANGED <<menu, where, countdown, usb, net, sel, slot>>

\* Deviation: the request is cleared when the cycle is over.
CycleDriveAThenClear ==
  /\ At("cycle") /\ pc' = "work"
  /\ \/ CanCycleDriveA /\ slot' = NextSlot /\ led' = StartCount(led, slot')
     \/ UNCHANGED drive
  /\ pending' = FALSE
  /\ UNCHANGED <<menu, where, countdown, usb, net, sel, owed>>

\* floppy_cycleDriveA, which module Floppy details: the next slot, or an error.
CycleDriveA ==
  /\ At("cycle") /\ pc' = "work"
  /\ \/ CanCycleDriveA /\ slot' = NextSlot /\ led' = StartCount(led, slot')
     \/ UNCHANGED drive
  /\ UNCHANGED <<menu, where, countdown, usb, net, button>>

\* chandler_loop and the ticks: here, that a command pulses the LED.
DrivesLoop ==
  /\ At("work") /\ pc' = "top"
  /\ led' = led \/ led' = Pulse(led)
  /\ UNCHANGED <<menu, where, countdown, usb, net, button, slot>>
-----------------------------------------------------------------------------
(* Core 1: a press of SELECT                                                *)

\* Released in time: the state of the application is read, then acted upon.
ShortPress ==
  /\ where = "app" /\ sel = "up"
  /\ sel' = IF status = "RUNTIME" THEN "cycle" ELSE "reset"
  /\ UNCHANGED <<menu, boot, pending, owed, drive>>

HandleCycle ==
  /\ sel = "cycle" /\ sel' = "up"
  /\ pending' = (pending \/ CanCycleDriveA) /\ owed' = (owed \/ CanCycleDriveA)
  /\ UNCHANGED <<menu, boot, drive>>

\* The global settings are erased and the board resets: main goes to the Booster.
\* Core 0 runs on in between, but nothing it does then is different.
LongPress == where = "app" /\ sel = "up" /\ Restart("booster")

\* reset_device, on core 1, while core 0 runs on.
Reset == sel = "reset" /\ Restart("app")
-----------------------------------------------------------------------------
Core0 == \/ EmulStart \/ AnyKey \/ FinishAppLoop
         \/ UsbTask \/ SetupTerm \/ SetupCount
         \/ NtpInit \/ ConnectPoll \/ ConnectEnds \/ QueryStep \/ QueryEnds \/ NtpDone
         \/ EmulationInit \/ RuntimeTop \/ CycleDriveA \/ DrivesLoop
Core1 == ShortPress \/ HandleCycle \/ LongPress \/ Reset
World == Launch \/ HostMoves \/ HostFound \/ HostMissing \/ NtpAnswers
Next  == Core0 \/ Core1 \/ World

Spec == Init /\ [][Next]_vars

\* Core 0 never stops for good: what it waits for on the way to the emulation
\* ends by itself or by a timeout.
FairSpec ==
  /\ Spec
  /\ WF_vars(NtpInit) /\ WF_vars(ConnectEnds) /\ WF_vars(QueryEnds) /\ WF_vars(NtpDone)
  /\ WF_vars(EmulationInit) /\ WF_vars(FinishAppLoop)
-----------------------------------------------------------------------------
(* Properties                                                              *)

\* README.md says GEMDRIVE's letter and the letter ACSI starts at are checked for
\* conflicts when they are saved.  Five commands change what the check depends on,
\* from four levels of the terminal: none of them, from whatever settings, brings a
\* conflict into the memory or into the flash; only a put_* command does, or a start
\* with settings that had it.  (The letters of ACSI's further partitions are not
\* looked at by the code.)
Conflicting(c) == Conflict(c.gem, c.gemLetter, c.acsi, c.acsiLetter)

NoNewConflict ==
  [][Conflicting(cfg') \/ Conflicting(flash') =>
       Conflicting(cfg) \/ Conflicting(flash) \/ PutLine]_vars

\* The emulation never runs while a host may use the card, nor with the Wi-Fi
\* stack or an NTP request left over, whichever way the set-up was left:
\* the countdown, the menu, a terminal polled during the connection.
RuntimeAlone == status = "RUNTIME" => ~usb.attached /\ ~net.up /\ ~net.pcb

\* A press accepted while core 0 is cycling the drive is not lost: the request
\* is there as long as no cycle has begun after it.
NoPressLost == owed => pending

\* When the LED ends its count it has flashed the slot that drive A has then,
\* though presses may have changed the slot in the middle of a count.
SlotShown == [][led.seq /\ ~led'.seq /\ pc' # "start" => led'.shown = slot]_vars

\* The application is never stuck on its way: a synchronisation that fails or
\* never answers still ends in the emulation, and the Booster is reached.
Settles == (leaving \/ status \in Starting) ~> (~leaving /\ status \notin Starting)
=============================================================================
