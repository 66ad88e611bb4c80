------------------------------ MODULE Settings ------------------------------
(***************************************************************************)
(* The settings of the application in flash (settings.c, aconfig.c, main.c): *)
(* a sector that is loaded over the defaults at every start and written as a *)
(* whole by every save, with interrupts disabled and no second copy.  The    *)
(* power may go at any point of that, and the Booster may have installed     *)
(* another release, with other settings and the same magic, when it returns. *)
(*                                                                         *)
(* External: a cut leaves what the flash was working on garbled, entry by    *)
(* entry, and the sector erased to no entries at all.  A garbled key is the  *)
(* key of nothing.                                                          *)
(***************************************************************************)
EXTENDS Integers, Sequences

CONSTANTS
  Releases,       \* releases of the application
  Keys,           \* names of settings, of all releases together
  Values,         \* what they may be set to
  DefaultEntries, \* defaultEntries of a release
  MaxEntries,     \* entries that fit in the sector
  Magic,          \* the key of the first entry, MAGICVERSION
  MagicValue,     \* (magic << 16) | version, the same in all releases
  NoKey,          \* no valid key: erased flash, or the end of the entries
  Torn,           \* a garbled value
  HeapKeys,       \* keys the buffer's unwritten end may happen to hold
  PageEntries     \* entries that a page of flash may touch

VARIABLES
  release, \* the release that runs
  phase,   \* "run", or the step settings_save is at, or "off"
  ram,     \* gSettingsCtx.configData.entries; empty once erased
  image,   \* the sector settings_save is to program; when the power is off,
           \* history: the one the flash was working on, or held
  written, \* entries of it programmed so far
  flash,   \* the sector
  edited,  \* history: a setting was put since ram was loaded or saved
  stored   \* history: what the last save wrote, if all of it arrived

vars == <<release, phase, ram, image, written, flash, edited, stored>>

Entry  == [key : Keys \cup {Magic, NoKey}, val : Values \cup {MagicValue, Torn}]
Sector == [1..MaxEntries -> Entry]
Blank  == [key |-> NoKey, val |-> Torn]
Erased == [i \in 1..MaxEntries |-> Blank]

ASSUME SettingsAssumption ==
  /\ MaxEntries \in Nat \ {0} /\ PageEntries \in Nat \ {0}
  /\ Magic \notin Keys /\ NoKey \notin Keys \cup {Magic}
  /\ MagicValue \notin Values \cup {Torn} /\ Torn \notin Values
  /\ HeapKeys \subseteq Keys
  /\ DefaultEntries \in [Releases -> Seq([key : Keys, val : Values])]
  /\ \A r \in Releases :
       /\ Len(DefaultEntries[r]) < MaxEntries
       /\ \A i, j \in 1..Len(DefaultEntries[r]) :
            DefaultEntries[r][i].key = DefaultEntries[r][j].key => i = j

\* Entries of a release: settings_init puts the magic in front.
Count(r) == Len(DefaultEntries[r]) + 1

Defaults(r) ==
  [i \in 1..Count(r) |-> IF i = 1 THEN [key |-> Magic, val |-> MagicValue]
                         ELSE DefaultEntries[r][i - 1]]
-----------------------------------------------------------------------------
(* settings_init *)

\* Deviation: the count of the defaults leaves out the magic.
LoadedOneShort(s, r) == {i \in 1..Count(r) - 1 : \A j \in 1..i : s[j].key # NoKey}

\* The entries of the sector that are loaded: as many as the release has, up
\* to the first without a valid key.
Loaded(s, r) == {i \in 1..Count(r) : \A j \in 1..i : s[j].key # NoKey}

\* Each replaces the entry of its key, the last one for good.
Overlay(s, r) ==
  [n \in 1..Count(r) |->
     LET same == {i \in Loaded(s, r) : s[i].key = Defaults(r)[n].key}
     IN IF same = {} THEN Defaults(r)[n]
        ELSE s[CHOOSE i \in same : \A j \in same : j <= i]]

\* Only the value of the first entry is compared.
MagicFound(s) == s[1].val = MagicValue

Load(s, r) == IF MagicFound(s) THEN Overlay(s, r) ELSE Defaults(r)

\* What malloc's buffer may hold behind the entries.
Heap == {Blank} \cup [key : HeapKeys, val : Values]

\* Deviation: the last entry is not copied.
ImageOneShort(e) ==
  {[i \in 1..MaxEntries |-> IF i < Len(e) THEN e[i] ELSE h] : h \in Heap}

\* The sectors a save of these entries may program.  Without entries it reads
\* from address 0, the boot ROM, which looks like no entries.
Image(e) ==
  IF e = <<>> THEN {Erased}
  ELSE {[i \in 1..MaxEntries |-> IF i <= Len(e) THEN e[i] ELSE h] : h \in Heap}

\* main: aconfig_init, and the first save if there is nothing to load.
PowerOn ==
  /\ phase = "off"
  /\ release' \in Releases
  /\ ram' = Load(flash, release')
  /\ IF MagicFound(flash)
     THEN phase' = "run" /\ image' = Erased /\ UNCHANGED stored
     ELSE phase' = "erase" /\ image' \in Image(Defaults(release')) /\ stored' = <<>>
  /\ edited' = FALSE
  /\ UNCHANGED <<written, flash>>

\* The sector has never been used.
Init ==
  /\ phase = "off" /\ release \in Releases /\ ram = <<>> /\ image = Erased
  /\ written = 0 /\ flash = Erased /\ edited = FALSE /\ stored = <<>>
-----------------------------------------------------------------------------
(* While the application runs *)

\* settings_put_*: a key that is not there is not put.
Put ==
  /\ phase = "run"
  /\ \E i \in DOMAIN ram \ {1}, v \in Values : ram' = [ram EXCEPT ![i].val = v]
  /\ edited' = TRUE
  /\ UNCHANGED <<release, phase, image, written, flash, stored>>

\* settings_save
Save ==
  /\ phase = "run" /\ phase' = "erase"
  /\ image' \in Image(ram) /\ stored' = <<>>
  /\ UNCHANGED <<release, ram, written, flash, edited>>

\* Deviation: the sector is programmed without being erased.
FlashEraseSkipped ==
  /\ phase = "erase" /\ phase' = "program"
  /\ UNCHANGED <<release, ram, image, written, flash, edited, stored>>

FlashErase ==
  /\ phase = "erase" /\ phase' = "program" /\ flash' = Erased
  /\ UNCHANGED <<release, ram, image, written, edited, stored>>

AtMost(n) == IF n <= MaxEntries THEN n ELSE MaxEntries

\* flash_range_program, a page at a time; then settings_save returns.
FlashProgram ==
  LET n == AtMost(written + PageEntries)
  IN /\ phase = "program"
     /\ flash' = [i \in 1..MaxEntries |-> IF i <= n THEN image[i] ELSE flash[i]]
     /\ IF n < MaxEntries
        THEN written' = n /\ UNCHANGED <<phase, image, edited, stored>>
        ELSE /\ phase' = "run" /\ written' = 0 /\ image' = Erased
             /\ edited' = FALSE /\ stored' = ram
     /\ UNCHANGED <<release, ram>>

\* term_cmdErase: settings_erase, which frees the entries.
SettingsErase ==
  /\ phase = "run"
  /\ ram' = <<>> /\ flash' = Erased /\ stored' = <<>>
  /\ UNCHANGED <<release, phase, image, written, edited>>
-----------------------------------------------------------------------------
(* Power *)

\* What a cut leaves of the entries first to last of s: the first n of them, a
\* few with a garbled value, and one without a key, behind which none is read.
\* Assumed: a garbled key is not well formed.  One that happened to be would be passed
\* over, its setting would have its default, and those behind it would be read.
Damaged(s, first, last) ==
  {[i \in 1..MaxEntries |->
      IF i < first \/ last < i THEN s[i]
      ELSE IF i <= n THEN IF i \in torn THEN [s[i] EXCEPT !.val = Torn] ELSE s[i]
      ELSE IF i = n + 1 THEN [s[i] EXCEPT !.key = NoKey] ELSE Blank] :
   n \in first - 1..last, torn \in SUBSET (first..last)}

\* The entries the flash has been given, with the page it is at.
Given ==
  LET last == AtMost(written + PageEntries)
  IN [i \in 1..MaxEntries |-> IF i <= last THEN image[i] ELSE flash[i]]

PowerCut ==
  /\ phase # "off" /\ phase' = "off"
  /\ \/ phase = "run" /\ flash' = flash
     \/ phase = "erase" /\ flash' \in Damaged(flash, 1, MaxEntries)
     \/ phase = "program"
          /\ flash' \in Damaged(Given, written + 1, AtMost(written + PageEntries))
  /\ image' = IF phase = "program" THEN image ELSE flash
  /\ ram' = <<>> /\ written' = 0 /\ edited' = FALSE
  /\ UNCHANGED <<release, stored>>
-----------------------------------------------------------------------------
Next == Put \/ Save \/ FlashErase \/ FlashProgram \/ SettingsErase \/ PowerCut \/ PowerOn

Spec == Init /\ [][Next]_vars
-----------------------------------------------------------------------------
(* Properties *)

TypeOK ==
  /\ release \in Releases /\ phase \in {"run", "erase", "program", "off"}
  /\ ram # <<>> => /\ DOMAIN ram = 1..Count(release)
                   /\ \A i \in DOMAIN ram : ram[i] \in Entry /\ ram[i].key = Defaults(release)[i].key
  /\ image \in Sector /\ flash \in Sector /\ written \in 0..MaxEntries - 1
  /\ edited \in BOOLEAN

\* Settings that were saved are the settings of the next start, also when
\* another release, with settings added, removed or in another order, is
\* installed in between.  It only loses what it has no room to load, and may
\* load more if what lay behind the entries in the heap looked like an entry.
Remembered ==
  [][(phase = "off" /\ stored # <<>>
        /\ (Count(release') > Len(stored) => flash[Len(stored) + 1].key = NoKey))
     => \A i \in DOMAIN ram', j \in 1..Count(release') :
          (j <= Len(stored) /\ ram'[i].key = stored[j].key) => ram'[i] = stored[j]]_vars

\* The values of a setting among the first n entries of a sector.
Among(s, n, k) == {s[j].val : j \in {m \in 1..n : s[m].key = k}}

\* When the power goes during a save, the next start has the settings of one
\* side of it, the old or the new, up to some entry, and the defaults from there
\* on: never new settings beside old ones.  A value may be garbled.
SaveCut ==
  [][phase = "off"
     => \E n \in 0..MaxEntries : \A i \in DOMAIN ram' :
          LET known == Among(image, n, ram'[i].key)
          IN IF known = {} THEN ram'[i] = Defaults(release')[i]
             ELSE ram'[i].val \in known \cup {Torn}]_vars

\* What the application runs with is what it would start with: after a start
\* from a garbled sector or from another release's, and after every save.
InStep == (phase = "run" /\ ~edited /\ ram # <<>>) => ram = Load(flash, release)
=============================================================================
