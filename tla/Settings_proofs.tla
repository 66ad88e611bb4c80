--------------------------- MODULE Settings_proofs ---------------------------
(* Proofs about Settings: what was saved is what any release starts with, a    *)
(* power cut never mixes the two sides of a save, and the application runs     *)
(* with what it would start with - for any releases, sizes and pages.          *)
EXTENDS Settings, NaturalsInduction, WellFoundedInduction, TLAPS

\* Entries of a release, with the magic in front.
EntriesOf(e, r) ==
  /\ e \in [1..Count(r) -> Entry]
  /\ \A i \in 1..Count(r) : e[i].key = Defaults(r)[i].key
  /\ e[1].val = MagicValue

Types ==
  /\ release \in Releases /\ phase \in {"run", "erase", "program", "off"}
  /\ image \in Sector /\ flash \in Sector /\ written \in 0..MaxEntries - 1
  /\ edited \in BOOLEAN
  /\ ram # <<>> => EntriesOf(ram, release)

\* A later entry with the magic's key would be loaded in its place.
MagicFirst ==
  \A i \in 1..MaxEntries : (flash[i].key = Magic \/ image[i].key = Magic) => i = 1

\* A save in progress.
Saving ==
  /\ phase \in {"erase", "program"} => image \in Image(ram) /\ stored = <<>>
  /\ phase # "program" => written = 0
  /\ phase = "program" =>
       \A i \in 1..MaxEntries : flash[i] = IF i <= written THEN image[i] ELSE Blank

\* A save that has arrived.
Arrived ==
  stored # <<>> =>
    /\ phase \in {"run", "off"}
    /\ \E r \in Releases : EntriesOf(stored, r)
    /\ \A i \in DOMAIN stored : flash[i] = stored[i]

\* What a cut left: a part of the image, up to an entry without a key.
PartOf(s, im, n) ==
  /\ \A i \in 1..n : s[i].key = im[i].key /\ s[i].val \in {im[i].val, Torn}
  /\ n < MaxEntries => s[n + 1].key = NoKey

CutShort == phase = "off" => \E n \in 0..MaxEntries : PartOf(flash, image, n)

IInv == Types /\ MagicFirst /\ Saving /\ Arrived /\ CutShort /\ InStep
-----------------------------------------------------------------------------
(* Entries and what is loaded                                               *)

LEMMA Sizes ==
  ASSUME NEW r \in Releases
  PROVE  Count(r) \in Nat /\ 1 <= Count(r) /\ Count(r) <= MaxEntries /\ MaxEntries \in Nat
BY SettingsAssumption DEF Count

LEMMA DefaultKeys ==
  ASSUME NEW r \in Releases
  PROVE  /\ EntriesOf(Defaults(r), r)
         /\ \A i \in 1..Count(r) :
              /\ Defaults(r)[i].key \in Keys \cup {Magic}
              /\ Defaults(r)[i].key # NoKey
              /\ Defaults(r)[i].key = Magic => i = 1
         /\ \A i, j \in 1..Count(r) : Defaults(r)[i].key = Defaults(r)[j].key => i = j
<1>1. PICK D : D = DefaultEntries[r] OBVIOUS
<1>2. D \in Seq([key : Keys, val : Values])
  <2>1. DefaultEntries[r] \in Seq([key : Keys, val : Values]) BY SettingsAssumption
  <2> QED BY <1>1, <2>1
<1>3. \A i, j \in 1..Len(D) : D[i].key = D[j].key => i = j
  BY <1>1, SettingsAssumption, Zenon
<1>4. /\ Defaults(r)[1] = [key |-> Magic, val |-> MagicValue]
      /\ \A i \in 2..Count(r) :
           /\ i - 1 \in 1..Len(D) /\ Defaults(r)[i] = D[i - 1]
           /\ D[i - 1] \in [key : Keys, val : Values]
  <2>1. Count(r) = Len(D) + 1 /\ Len(D) \in Nat BY <1>1, <1>2 DEF Count
  <2>2. 1 \in 1..Count(r) BY <2>1
  <2>3. \A i \in 2..Count(r) : i - 1 \in 1..Len(D) /\ i \in 1..Count(r) /\ i # 1 BY <2>1
  <2>4. \A i \in 1..Len(D) : D[i] \in [key : Keys, val : Values]
    <3>1. \A S : \A s \in Seq(S) : \A i \in 1..Len(s) : s[i] \in S OBVIOUS
    <3> QED BY <1>2, <3>1, Zenon
  <2> QED BY <1>1, <2>2, <2>3, <2>4, Zenon DEF Defaults
<1>5. \A i \in 1..Count(r) : i = 1 \/ i \in 2..Count(r) BY Sizes
<1>6. \A i \in 1..Count(r) : Defaults(r)[i] \in Entry
  BY <1>4, <1>5, SettingsAssumption DEF Entry
<1>7. EntriesOf(Defaults(r), r)
  BY <1>4, <1>6, Sizes DEF EntriesOf, Defaults
<1>8. ASSUME NEW i \in 1..Count(r), NEW j \in 1..Count(r),
             Defaults(r)[i].key = Defaults(r)[j].key
      PROVE  i = j
  <2>1. CASE i = 1 \/ j = 1 BY <1>4, <1>5, <1>8, <2>1, SettingsAssumption
  <2>2. CASE i \in 2..Count(r) /\ j \in 2..Count(r)
    <3>1. /\ i - 1 \in 1..Len(D) /\ j - 1 \in 1..Len(D)
          /\ D[i - 1].key = D[j - 1].key
      BY <1>4, <1>8, <2>2
    <3>2. i - 1 = j - 1 BY <1>3, <3>1, Zenon
    <3> QED BY <2>2, <3>2, Sizes
  <2> QED BY <1>5, <2>1, <2>2
<1> QED BY <1>4, <1>5, <1>7, <1>8, SettingsAssumption

\* Entries of a release have its keys, so none is empty.
LEMMA EntriesKeys ==
  ASSUME NEW r \in Releases, NEW e, EntriesOf(e, r)
  PROVE  /\ DOMAIN e = 1..Count(r) /\ e # <<>> /\ Len(e) = Count(r)
         /\ \A i \in 1..Count(r) : e[i] \in Entry /\ e[i].key # NoKey /\ (e[i].key = Magic => i = 1)
         /\ \A i, j \in 1..Count(r) : e[i].key = e[j].key => i = j
<1>1. e \in Seq(Entry) BY Sizes DEF EntriesOf
<1>2. DOMAIN e = 1..Count(r) /\ Len(e) = Count(r) BY <1>1, Sizes DEF EntriesOf
<1>3. e # <<>> BY <1>2, Sizes
<1>4. ASSUME NEW i \in 1..Count(r)
      PROVE  e[i] \in Entry /\ e[i].key # NoKey /\ (e[i].key = Magic => i = 1)
  <2>1. e[i].key = Defaults(r)[i].key /\ e[i] \in Entry BY DEF EntriesOf
  <2>2. Defaults(r)[i].key # NoKey /\ (Defaults(r)[i].key = Magic => i = 1)
    BY DefaultKeys
  <2> QED BY <2>1, <2>2
<1>5. ASSUME NEW i \in 1..Count(r), NEW j \in 1..Count(r), e[i].key = e[j].key PROVE i = j
  <2>1. Defaults(r)[i].key = Defaults(r)[j].key BY <1>5 DEF EntriesOf
  <2> QED BY <2>1, DefaultKeys
<1> QED BY <1>2, <1>3, <1>4, <1>5

\* A set of indices that is not empty has a last one.
LEMMA LastIndex ==
  ASSUME NEW m \in Nat, NEW S, S \subseteq 1..m, S # {}
  PROVE  \E i \in S : \A j \in S : j <= i
<1> DEFINE T == {m - i : i \in S}
<1>1. T # {} /\ T \subseteq Nat
  <2>1. ASSUME NEW i \in S PROVE m - i \in Nat
    <3>1. i \in 1..m OBVIOUS
    <3> QED BY <3>1
  <2>2. PICK i \in S : TRUE OBVIOUS
  <2>3. m - i \in T BY <2>2
  <2> QED BY <2>1, <2>3
<1> DEFINE R == OpToRel(<, Nat)
<1>2. PICK x \in T : \A y \in T : <<y, x>> \notin R
  BY <1>1, NatLessThanWellFounded, WFMin
<1>3. ASSUME NEW y \in T, y < x PROVE <<y, x>> \in R
  <2>1. <<y, x>> \in Nat \X Nat BY <1>1
  <2>2. \E p \in Nat \X Nat : p = <<y, x>> /\ p[1] < p[2] BY <1>3, <2>1
  <2> QED BY <2>1, <2>2, Zenon DEF OpToRel
<1> HIDE DEF R
<1>4. \A y \in T : ~(y < x) BY <1>2, <1>3, Zenon
<1>5. PICK i \in S : x = m - i BY <1>2
<1>6. \A j \in S : m - j \in T OBVIOUS
<1>7. \A j \in S : j <= i BY <1>4, <1>5, <1>6
<1> QED BY <1>7

\* An entry is the last one loaded with its key, or the default.
LEMMA OverlaidEntry ==
  ASSUME NEW s, NEW r \in Releases, NEW n \in 1..Count(r)
  PROVE  LET same == {i \in Loaded(s, r) : s[i].key = Defaults(r)[n].key}
         IN  IF same = {} THEN Overlay(s, r)[n] = Defaults(r)[n]
             ELSE \E i \in same : Overlay(s, r)[n] = s[i]
<1> DEFINE same == {i \in Loaded(s, r) : s[i].key = Defaults(r)[n].key}
<1>1. CASE same = {} BY <1>1 DEF Overlay
<1>2. CASE same # {}
  <2>1. \E i \in same : \A j \in same : j <= i
    BY <1>2, Sizes, LastIndex DEF Loaded
  <2> DEFINE last == CHOOSE i \in same : \A j \in same : j <= i
  <2>2. last \in same BY <2>1
  <2>3. Overlay(s, r)[n] = s[last] BY <1>2 DEF Overlay
  <2> QED BY <1>2, <2>2, <2>3
<1> QED BY <1>1, <1>2

\* Whatever the sector holds, a release starts with entries of its own.
LEMMA LoadedEntries ==
  ASSUME NEW s \in Sector, NEW r \in Releases,
         \A i \in 1..MaxEntries : s[i].key = Magic => i = 1
  PROVE  EntriesOf(Load(s, r), r)
<1>1. CASE ~MagicFound(s) BY <1>1, DefaultKeys DEF Load
<1>2. CASE MagicFound(s)
  <2>1. \A i \in Loaded(s, r) : i \in 1..MaxEntries BY Sizes DEF Loaded
  <2>2. ASSUME NEW n \in 1..Count(r)
        PROVE  /\ Overlay(s, r)[n] \in Entry
               /\ Overlay(s, r)[n].key = Defaults(r)[n].key
               /\ n = 1 => Overlay(s, r)[n].val = MagicValue
    <3> DEFINE same == {i \in Loaded(s, r) : s[i].key = Defaults(r)[n].key}
    <3>1. CASE same = {}
      <4>1. Overlay(s, r)[n] = Defaults(r)[n] BY <3>1, OverlaidEntry
      <4> QED BY <4>1, DefaultKeys DEF EntriesOf
    <3>2. CASE same # {}
      <4>1. PICK i \in same : Overlay(s, r)[n] = s[i] BY <3>2, OverlaidEntry
      <4>2. i \in 1..MaxEntries /\ s[i].key = Defaults(r)[n].key /\ s[i] \in Entry
        BY <2>1 DEF Sector
      <4>3. n = 1 => s[i].key = Magic BY <4>2 DEF Defaults
      <4>4. n = 1 => i = 1 BY <4>2, <4>3
      <4> QED BY <1>2, <4>1, <4>2, <4>4 DEF MagicFound
    <3> QED BY <3>1, <3>2
  <2>3. Overlay(s, r) \in [1..Count(r) -> Entry] BY <2>2 DEF Overlay
  <2>4. Load(s, r) = Overlay(s, r) BY <1>2 DEF Load
  <2> QED BY <2>2, <2>3, <2>4, Sizes DEF EntriesOf
<1> QED BY <1>1, <1>2

\* An entry of a sector that begins with entries of some release, and ends
\* there or is longer than what is loaded, is loaded by every release.
LEMMA SavedIsLoaded ==
  ASSUME NEW s \in Sector, NEW r \in Releases, NEW q \in Releases, NEW e, EntriesOf(e, q),
         \A i \in 1..Count(q) : s[i] = e[i],
         Count(r) > Count(q) => s[Count(q) + 1].key = NoKey,
         NEW i \in 1..Count(r), NEW j \in 1..Count(q), j <= Count(r),
         Defaults(r)[i].key = e[j].key
  PROVE  Load(s, r)[i] = e[j]
<1> DEFINE same == {k \in Loaded(s, r) : s[k].key = Defaults(r)[i].key}
<1>1. MagicFound(s) BY Sizes DEF MagicFound, EntriesOf
<1>2. \A k \in 1..Count(q) : s[k].key # NoKey BY EntriesKeys
<1>3. j \in same BY <1>2, Sizes DEF Loaded
<1>4. ASSUME NEW k \in same PROVE k = j
  <2>1. k \in 1..Count(r) /\ \A h \in 1..k : s[h].key # NoKey BY DEF Loaded
  <2>2. k <= Count(q)
    <3>1. SUFFICES ASSUME k > Count(q) PROVE FALSE BY <2>1, Sizes
    <3>2. Count(q) + 1 \in 1..k /\ Count(r) > Count(q) BY <2>1, <3>1, Sizes
    <3> QED BY <2>1, <3>2
  <2>3. k \in 1..Count(q) /\ e[k].key = e[j].key BY <2>1, <2>2, Sizes
  <2> QED BY <2>3, EntriesKeys
<1>5. \E k \in same : Overlay(s, r)[i] = s[k]
  <2>1. same # {} BY <1>3
  <2> QED BY <2>1, OverlaidEntry
<1>6. Overlay(s, r)[i] = e[j] BY <1>4, <1>5
<1> QED BY <1>1, <1>6 DEF Load

\* A sector that a save has programmed is loaded as what was saved.
LEMMA ImageLoads ==
  ASSUME NEW r \in Releases, NEW e, EntriesOf(e, r), NEW s \in Image(e), s \in Sector
  PROVE  Load(s, r) = e
<1>1. \A i \in 1..Count(r) : s[i] = e[i]
  <2>1. PICK h \in Heap : s = [i \in 1..MaxEntries |-> IF i <= Len(e) THEN e[i] ELSE h]
    BY EntriesKeys DEF Image
  <2> QED BY <2>1, EntriesKeys, Sizes
<1>2. \A i \in 1..Count(r) : Defaults(r)[i].key = e[i].key BY DEF EntriesOf
<1>3. \A i \in 1..Count(r) : Load(s, r)[i] = e[i]
  BY <1>1, <1>2, SavedIsLoaded, Sizes
<1>4. MagicFound(s) BY <1>1, Sizes DEF MagicFound, EntriesOf
<1>5. DOMAIN Load(s, r) = 1..Count(r) BY <1>4 DEF Load, Overlay
<1>6. Load(s, r) = [i \in 1..Count(r) |-> Load(s, r)[i]] BY <1>4 DEF Load, Overlay
<1>7. e = [i \in 1..Count(r) |-> e[i]] BY DEF EntriesOf
<1> QED BY <1>3, <1>6, <1>7

\* The sectors a save may program.
LEMMA ImageOfEntries ==
  ASSUME NEW r \in Releases, NEW e, e = <<>> \/ EntriesOf(e, r), NEW s \in Image(e)
  PROVE  s \in Sector /\ \A i \in 1..MaxEntries : s[i].key = Magic => i = 1
<1>1. Blank \in Entry /\ Blank.key # Magic BY SettingsAssumption DEF Blank, Entry
<1>2. CASE e = <<>> BY <1>1, <1>2 DEF Image, Erased, Sector
<1>3. CASE EntriesOf(e, r)
  <2>1. PICK h \in Heap : s = [i \in 1..MaxEntries |-> IF i <= Len(e) THEN e[i] ELSE h]
    BY <1>3, EntriesKeys DEF Image
  <2>2. h \in Entry /\ h.key # Magic BY <1>1, SettingsAssumption DEF Heap, Entry
  <2>3. ASSUME NEW i \in 1..MaxEntries
        PROVE  s[i] \in Entry /\ (s[i].key = Magic => i = 1)
    <3>1. CASE i <= Len(e)
      <4>1. i \in 1..Count(r) /\ s[i] = e[i] BY <1>3, <2>1, <3>1, EntriesKeys, Sizes
      <4> QED BY <1>3, <4>1, EntriesKeys
    <3>2. CASE ~(i <= Len(e))
      <4>1. s[i] = h BY <2>1, <3>2
      <4> QED BY <2>2, <4>1
    <3> QED BY <3>1, <3>2
  <2> QED BY <2>1, <2>3 DEF Sector
<1> QED BY <1>2, <1>3
-----------------------------------------------------------------------------
(* The steps                                                                *)

LEMMA Bounds ==
  /\ MaxEntries \in Nat \ {0} /\ PageEntries \in Nat \ {0}
  /\ 0 \in 0..MaxEntries - 1 /\ 0 \in 0..MaxEntries
<1>1. MaxEntries \in Nat \ {0} /\ PageEntries \in Nat \ {0} BY SettingsAssumption
<1> QED BY <1>1

LEMMA ErasedSector ==
  /\ Erased \in Sector /\ Erased # <<>>
  /\ \A i \in 1..MaxEntries : Erased[i] = Blank /\ Erased[i].key = NoKey /\ Erased[i].key # Magic
BY SettingsAssumption DEF Erased, Sector, Blank, Entry

LEMMA InitInv == ASSUME Init PROVE IInv
<1>1. Types BY Bounds, ErasedSector DEF Init, Types
<1>2. MagicFirst BY ErasedSector DEF Init, MagicFirst
<1>3. PartOf(flash, image, 0) BY Bounds, ErasedSector DEF Init, PartOf
<1>4. CutShort BY <1>3, Bounds DEF CutShort
<1> QED BY <1>1, <1>2, <1>4 DEF Init, IInv, Saving, Arrived, InStep

LEMMA PutStep == ASSUME IInv, Put PROVE IInv'
<1>1. PICK i \in DOMAIN ram \ {1}, v \in Values : ram' = [ram EXCEPT ![i].val = v]
  BY DEF Put
<1>2. ram # <<>> BY <1>1
<1>3. EntriesOf(ram, release) /\ DOMAIN ram = 1..Count(release) BY <1>2 DEF IInv, Types, EntriesOf
<1>4. ram[i] \in Entry /\ [ram[i] EXCEPT !.val = v] \in Entry
  BY <1>1, <1>3 DEF EntriesOf, Entry
<1>5. EntriesOf(ram', release)
  <2>1. ram' = [ram EXCEPT ![i] = [ram[i] EXCEPT !.val = v]] BY <1>1
  <2>2. [ram[i] EXCEPT !.val = v].key = ram[i].key BY <1>4 DEF Entry
  <2> QED BY <1>3, <1>4, <2>1, <2>2, <1>1, Sizes DEF EntriesOf, IInv, Types
<1>6. Types' BY <1>5 DEF IInv, Types, Put
<1>7. UNCHANGED <<release, phase, image, written, flash, stored>> /\ phase = "run" /\ edited' = TRUE
  BY DEF Put
<1>8. MagicFirst' /\ Arrived' /\ CutShort' BY <1>7 DEF IInv, MagicFirst, Arrived, CutShort
<1>9. Saving' /\ InStep' BY <1>7 DEF IInv, Saving, InStep
<1> QED BY <1>6, <1>8, <1>9 DEF IInv

LEMMA SaveStep == ASSUME IInv, Save PROVE IInv'
<1>1. ram = <<>> \/ EntriesOf(ram, release) BY DEF IInv, Types
<1>2. image' \in Sector /\ \A i \in 1..MaxEntries : image'[i].key = Magic => i = 1
  BY <1>1, ImageOfEntries DEF Save, IInv, Types
<1>3. Types' BY <1>2 DEF IInv, Types, Save
<1>4. MagicFirst' BY <1>2 DEF IInv, MagicFirst, Save
<1>5. Saving' BY DEF IInv, Saving, Save
<1> QED BY <1>3, <1>4, <1>5 DEF IInv, Save, Arrived, CutShort, InStep

LEMMA EraseStep == ASSUME IInv, FlashErase PROVE IInv'
<1>1. Types' BY ErasedSector DEF IInv, Types, FlashErase
<1>2. MagicFirst' BY ErasedSector DEF IInv, MagicFirst, FlashErase
<1>3. Saving'
  <2>1. written' = 0 /\ phase' = "program" /\ flash' = Erased /\ image' = image /\ ram' = ram
        /\ stored' = stored /\ phase = "erase"
    BY DEF FlashErase, IInv, Saving
  <2>2. \A i \in 1..MaxEntries : flash'[i] = Blank /\ ~(i <= written') BY <2>1, ErasedSector
  <2> QED BY <2>1, <2>2 DEF IInv, Saving
<1> QED BY <1>1, <1>2, <1>3 DEF IInv, FlashErase, Saving, Arrived, CutShort, InStep

LEMMA ProgramStep == ASSUME IInv, FlashProgram PROVE IInv'
<1> DEFINE n == AtMost(written + PageEntries)
<1>1. /\ phase = "program" /\ release' = release /\ ram' = ram
      /\ flash' = [i \in 1..MaxEntries |-> IF i <= n THEN image[i] ELSE flash[i]]
  BY DEF FlashProgram
<1>2. n \in 0..MaxEntries /\ written <= n /\ MaxEntries \in Nat
  BY Bounds DEF AtMost, IInv, Types
<1>3. image \in Image(ram) /\ stored = <<>>
      /\ \A i \in 1..MaxEntries : flash[i] = IF i <= written THEN image[i] ELSE Blank
  BY <1>1 DEF IInv, Saving
<1>4. flash' \in Sector BY <1>1 DEF IInv, Types, Sector
<1>5. \A i \in 1..MaxEntries : flash'[i].key = Magic => i = 1
  BY <1>1 DEF IInv, MagicFirst
<1>6. CASE n < MaxEntries
  <2>1. written' = n /\ UNCHANGED <<phase, image, edited, stored>> BY <1>6 DEF FlashProgram
  <2>2. Types' BY <1>1, <1>2, <1>4, <1>6, <2>1 DEF IInv, Types
  <2>3. MagicFirst' BY <1>5, <2>1 DEF IInv, MagicFirst
  <2>4. \A i \in 1..MaxEntries : flash'[i] = IF i <= n THEN image[i] ELSE Blank
    BY <1>1, <1>2, <1>3 DEF IInv, Types
  <2>5. Saving' BY <1>1, <1>3, <2>1, <2>4 DEF Saving
  <2> QED BY <1>1, <1>3, <2>1, <2>2, <2>3, <2>5 DEF IInv, Arrived, CutShort, InStep
<1>7. CASE ~(n < MaxEntries)
  <2>1. phase' = "run" /\ written' = 0 /\ image' = Erased /\ edited' = FALSE /\ stored' = ram
    BY <1>7 DEF FlashProgram
  <2>2. flash' = image
    <3>1. \A i \in 1..MaxEntries : i <= n BY <1>2, <1>7
    <3>2. flash' = [i \in 1..MaxEntries |-> image[i]] BY <1>1, <3>1
    <3> QED BY <3>2 DEF IInv, Types, Sector
  <2>3. Types' BY <1>1, <1>2, <1>4, <2>1, ErasedSector, Bounds DEF IInv, Types
  <2>4. MagicFirst' BY <1>5, <2>1, ErasedSector DEF MagicFirst
  <2>5. Saving' BY <2>1 DEF Saving
  <2>6. ASSUME ram # <<>> PROVE Load(flash', release) = ram /\ \A i \in DOMAIN ram : flash'[i] = ram[i]
    <3>1. EntriesOf(ram, release) BY <2>6 DEF IInv, Types
    <3>2. Load(flash', release) = ram
      BY <1>3, <1>4, <2>2, <3>1, ImageLoads DEF IInv, Types
    <3>3. PICK h \in Heap : image = [i \in 1..MaxEntries |-> IF i <= Len(ram) THEN ram[i] ELSE h]
      BY <1>3, <2>6 DEF Image
    <3>4. DOMAIN ram = 1..Count(release) /\ Len(ram) = Count(release) /\ release \in Releases
      BY <3>1, EntriesKeys DEF IInv, Types
    <3> QED BY <2>2, <3>2, <3>3, <3>4, Sizes
  <2>7. Arrived' BY <1>1, <2>1, <2>6 DEF Arrived, IInv, Types
  <2>8. InStep' BY <1>1, <2>1, <2>6 DEF InStep
  <2> QED BY <2>1, <2>3, <2>4, <2>5, <2>7, <2>8 DEF IInv, CutShort
<1> QED BY <1>6, <1>7

LEMMA ForgetStep == ASSUME IInv, SettingsErase PROVE IInv'
<1>1. Types' BY ErasedSector DEF IInv, Types, SettingsErase
<1>2. MagicFirst' BY ErasedSector DEF IInv, MagicFirst, SettingsErase
<1> QED BY <1>1, <1>2 DEF IInv, SettingsErase, Saving, Arrived, CutShort, InStep

\* What a cut leaves is a part of what the flash was given.
LEMMA DamageIsPart ==
  ASSUME NEW s \in Sector, NEW first \in 1..MaxEntries, NEW last \in first..MaxEntries,
         last < MaxEntries => s[last + 1].key = NoKey,
         \A i \in 1..MaxEntries : s[i].key = Magic => i = 1,
         NEW d \in Damaged(s, first, last)
  PROVE  /\ d \in Sector /\ \A i \in 1..MaxEntries : d[i].key = Magic => i = 1
         /\ \E n \in 0..MaxEntries : n <= last /\ PartOf(d, s, n)
<1> DEFINE Cut(n, torn) ==
             [i \in 1..MaxEntries |->
               IF i < first \/ last < i THEN s[i]
               ELSE IF i <= n THEN IF i \in torn THEN [s[i] EXCEPT !.val = Torn] ELSE s[i]
               ELSE IF i = n + 1 THEN [s[i] EXCEPT !.key = NoKey] ELSE Blank]
<1>1. Damaged(s, first, last) = {Cut(n, torn) : n \in first - 1..last, torn \in SUBSET (first..last)}
  BY DEF Damaged
<1> HIDE DEF Cut
<1>2. PICK n \in first - 1..last, torn \in SUBSET (first..last) : d = Cut(n, torn)
  BY <1>1
<1> USE DEF Cut
<1>3. MaxEntries \in Nat /\ n \in 0..MaxEntries BY Bounds
<1>4. Blank \in Entry /\ Blank.key = NoKey /\ NoKey # Magic
  BY SettingsAssumption DEF Blank, Entry
<1>5. ASSUME NEW i \in 1..MaxEntries
      PROVE  /\ s[i] \in Entry /\ [s[i] EXCEPT !.val = Torn] \in Entry
             /\ [s[i] EXCEPT !.key = NoKey] \in Entry
             /\ [s[i] EXCEPT !.val = Torn].key = s[i].key /\ [s[i] EXCEPT !.val = Torn].val = Torn
             /\ [s[i] EXCEPT !.key = NoKey].key = NoKey
  <2>1. s[i] \in Entry BY DEF Sector
  <2> QED BY <2>1 DEF Entry
<1>6. ASSUME NEW i \in 1..MaxEntries
      PROVE  /\ d[i] \in Entry /\ (d[i].key = s[i].key \/ d[i].key = NoKey)
             /\ i <= n => d[i].key = s[i].key /\ d[i].val \in {s[i].val, Torn}
             /\ i = n + 1 => d[i].key = NoKey
  <2>1. CASE i < first \/ last < i
    <3>1. d[i] = s[i] BY <1>2, <2>1
    <3>2. i = n + 1 => i = last + 1 BY <1>3, <2>1
    <3>3. i = n + 1 => d[i].key = NoKey BY <1>3, <3>1, <3>2
    <3>4. s[i] \in Entry BY <1>5
    <3> QED BY <3>1, <3>3, <3>4
  <2>2. CASE ~(i < first \/ last < i) /\ i <= n
    <3>1. d[i] = s[i] \/ d[i] = [s[i] EXCEPT !.val = Torn] BY <1>2, <2>2
    <3>2. d[i] \in Entry /\ d[i].key = s[i].key /\ d[i].val \in {s[i].val, Torn}
      BY <1>5, <3>1
    <3>3. i # n + 1 BY <1>3, <2>2
    <3> QED BY <3>2, <3>3
  <2>3. CASE ~(i < first \/ last < i) /\ ~(i <= n) /\ i = n + 1
    <3>1. d[i] = [s[i] EXCEPT !.key = NoKey] BY <1>2, <2>3
    <3> QED BY <1>5, <2>3, <3>1
  <2>4. CASE ~(i < first \/ last < i) /\ ~(i <= n) /\ i # n + 1
    <3>1. d[i] = Blank BY <1>2, <2>4
    <3> QED BY <1>4, <2>4, <3>1
  <2> QED BY <2>1, <2>2, <2>3, <2>4
<1>7. d \in Sector BY <1>2, <1>6 DEF Sector
<1>8. PartOf(d, s, n)
  <2>1. \A i \in 1..n : i \in 1..MaxEntries /\ i <= n BY <1>3
  <2>2. n < MaxEntries => n + 1 \in 1..MaxEntries BY <1>3
  <2> QED BY <1>6, <2>1, <2>2 DEF PartOf
<1>9. \A i \in 1..MaxEntries : d[i].key = Magic => i = 1 BY <1>4, <1>6
<1> QED BY <1>3, <1>7, <1>8, <1>9

LEMMA CutStep == ASSUME IInv, PowerCut PROVE IInv'
<1>1. /\ phase' = "off" /\ ram' = <<>> /\ written' = 0 /\ edited' = FALSE
      /\ release' = release /\ stored' = stored /\ phase # "off"
      /\ image' = IF phase = "program" THEN image ELSE flash
  BY DEF PowerCut
<1>2. MaxEntries \in Nat \ {0} /\ PageEntries \in Nat \ {0} BY Bounds
<1>3. /\ flash' \in Sector /\ \A i \in 1..MaxEntries : flash'[i].key = Magic => i = 1
      /\ \E n \in 0..MaxEntries : PartOf(flash', image', n)
  <2>1. CASE phase = "run"
    <3>1. flash' = flash /\ image' = flash BY <1>1, <2>1 DEF PowerCut
    <3>2. PartOf(flash', image', MaxEntries) BY <1>2, <3>1 DEF PartOf
    <3> QED BY <1>2, <3>1, <3>2 DEF IInv, Types, MagicFirst
  <2>2. CASE phase = "erase"
    <3>1. flash' \in Damaged(flash, 1, MaxEntries) /\ image' = flash BY <1>1, <2>2 DEF PowerCut
    <3> QED BY <1>2, <3>1, DamageIsPart DEF IInv, Types, MagicFirst
  <2>3. CASE phase = "program"
    <3> DEFINE last == AtMost(written + PageEntries)
    <3>1. flash' \in Damaged(Given, written + 1, last) /\ image' = image
      BY <1>1, <2>3 DEF PowerCut
    <3>2. written + 1 \in 1..MaxEntries /\ last \in written + 1..MaxEntries
      BY <1>2 DEF AtMost, IInv, Types
    <3>3. Given = [i \in 1..MaxEntries |-> IF i <= last THEN image[i] ELSE flash[i]] BY DEF Given
    <3>4. Given \in Sector /\ \A i \in 1..MaxEntries : Given[i].key = Magic => i = 1
      BY <3>3 DEF IInv, Types, MagicFirst, Sector
    <3>5. last < MaxEntries => Given[last + 1].key = NoKey
      <4>1. SUFFICES ASSUME last < MaxEntries PROVE Given[last + 1].key = NoKey OBVIOUS
      <4>2. last + 1 \in 1..MaxEntries /\ ~(last + 1 <= last) /\ ~(last + 1 <= written)
        BY <1>2, <3>2, <4>1 DEF IInv, Types
      <4>3. Given[last + 1] = flash[last + 1] BY <3>3, <4>2
      <4>4. flash[last + 1] = Blank BY <2>3, <4>2 DEF IInv, Saving
      <4> QED BY <4>3, <4>4 DEF Blank
    <3>6. /\ flash' \in Sector /\ \A i \in 1..MaxEntries : flash'[i].key = Magic => i = 1
          /\ \E n \in 0..MaxEntries : n <= last /\ PartOf(flash', Given, n)
      BY <3>1, <3>2, <3>4, <3>5, DamageIsPart
    <3>7. PICK n \in 0..MaxEntries : n <= last /\ PartOf(flash', Given, n) BY <3>6
    <3>8. \A i \in 1..n : Given[i] = image[i] BY <1>2, <3>2, <3>3, <3>7
    <3>9. PartOf(flash', image', n) BY <3>1, <3>7, <3>8 DEF PartOf
    <3> QED BY <3>6, <3>9
  <2> QED BY <1>1, <2>1, <2>2, <2>3 DEF IInv, Types
<1>4. image' \in Sector /\ \A i \in 1..MaxEntries : image'[i].key = Magic => i = 1
  BY <1>1 DEF IInv, Types, MagicFirst
<1>5. Types' BY <1>1, <1>3, <1>4, Bounds DEF IInv, Types
<1>6. MagicFirst' BY <1>3, <1>4 DEF MagicFirst
<1>7. Saving' BY <1>1 DEF Saving
<1>8. Arrived'
  <2>1. SUFFICES ASSUME stored # <<>> PROVE Arrived' BY <1>1 DEF Arrived
  <2>2. phase = "run" BY <1>1, <2>1 DEF IInv, Arrived
  <2>3. flash' = flash BY <2>2 DEF PowerCut
  <2> QED BY <1>1, <2>1, <2>3 DEF IInv, Arrived
<1>9. CutShort' /\ InStep' BY <1>1, <1>3 DEF CutShort, InStep
<1> QED BY <1>5, <1>6, <1>7, <1>8, <1>9 DEF IInv

LEMMA OnStep == ASSUME IInv, PowerOn PROVE IInv'
<1>1. /\ phase = "off" /\ release' \in Releases /\ ram' = Load(flash, release')
      /\ edited' = FALSE /\ written' = written /\ flash' = flash /\ written = 0
  BY DEF PowerOn, IInv, Saving
<1>2. EntriesOf(ram', release') BY <1>1, LoadedEntries DEF IInv, Types, MagicFirst
<1>3. CASE MagicFound(flash)
  <2>1. phase' = "run" /\ image' = Erased /\ stored' = stored BY <1>3 DEF PowerOn
  <2>2. Types' BY <1>1, <1>2, <2>1, ErasedSector DEF IInv, Types
  <2>3. MagicFirst' BY <1>1, <2>1, ErasedSector DEF IInv, MagicFirst
  <2>4. Saving' BY <1>1, <2>1 DEF Saving
  <2>5. Arrived' BY <1>1, <2>1 DEF IInv, Arrived
  <2>6. CutShort' /\ InStep' BY <1>1, <2>1 DEF CutShort, InStep
  <2> QED BY <2>2, <2>3, <2>4, <2>5, <2>6 DEF IInv
<1>4. CASE ~MagicFound(flash)
  <2>1. phase' = "erase" /\ image' \in Image(Defaults(release')) /\ stored' = <<>>
    BY <1>4 DEF PowerOn
  <2>2. ram' = Defaults(release') BY <1>1, <1>4 DEF Load
  <2>3. image' \in Sector /\ \A i \in 1..MaxEntries : image'[i].key = Magic => i = 1
    BY <1>1, <2>1, DefaultKeys, ImageOfEntries
  <2>4. Types' BY <1>1, <1>2, <2>1, <2>3 DEF IInv, Types
  <2>5. MagicFirst' BY <1>1, <2>3 DEF IInv, MagicFirst
  <2>6. Saving' BY <1>1, <2>1, <2>2 DEF Saving
  <2> QED BY <2>1, <2>4, <2>5, <2>6 DEF IInv, Arrived, CutShort, InStep
<1> QED BY <1>3, <1>4

LEMMA StepInv == ASSUME IInv, [Next]_vars PROVE IInv'
<1>1. CASE UNCHANGED vars
  BY <1>1 DEF vars, IInv, Types, MagicFirst, Saving, Arrived, CutShort, InStep
<1>2. CASE Next
  BY <1>2, PutStep, SaveStep, EraseStep, ProgramStep, ForgetStep, CutStep, OnStep DEF Next
<1> QED BY <1>1, <1>2

LEMMA Invariance == Spec => []IInv
BY InitInv, StepInv, PTL DEF Spec
-----------------------------------------------------------------------------
(* The theorems                                                             *)

\* settings_init and settings_put_* leave the entries of the release that runs,
\* in its order, whatever the sector held (settings.c:102, 368).
THEOREM Typed == Spec => []TypeOK
<1>1. IInv => TypeOK
  <2>1. SUFFICES ASSUME IInv PROVE TypeOK OBVIOUS
  <2>2. ASSUME ram # <<>>
        PROVE  /\ DOMAIN ram = 1..Count(release)
               /\ \A i \in DOMAIN ram : ram[i] \in Entry /\ ram[i].key = Defaults(release)[i].key
    BY <2>1, <2>2 DEF IInv, Types, EntriesOf
  <2> QED BY <2>1, <2>2 DEF IInv, Types, TypeOK
<1> QED BY <1>1, Invariance, PTL

\* Unless a setting has been put, the application runs with what it would start
\* with: a save programs what it loads (settings.c:247, 318).
THEOREM InStepAlways == Spec => []InStep
<1>1. IInv => InStep BY DEF IInv
<1> QED BY <1>1, Invariance, PTL

LEMMA RememberedStep ==
  ASSUME IInv, Next, phase = "off", stored # <<>>,
         Count(release') > Len(stored) => flash[Len(stored) + 1].key = NoKey,
         NEW i \in DOMAIN ram', NEW j \in 1..Count(release'),
         j <= Len(stored), ram'[i].key = stored[j].key
  PROVE  ram'[i] = stored[j]
<1>1. PICK q \in Releases : EntriesOf(stored, q) BY DEF IInv, Arrived
<1>2. DOMAIN stored = 1..Count(q) /\ Len(stored) = Count(q) BY <1>1, EntriesKeys
<1>3. \A k \in 1..Count(q) : flash[k] = stored[k] BY <1>2 DEF IInv, Arrived
<1>4. release' \in Releases /\ ram' = Load(flash, release')
  BY DEF Next, Put, Save, FlashErase, FlashProgram, SettingsErase, PowerCut, PowerOn
<1>5. EntriesOf(ram', release') BY <1>4, LoadedEntries DEF IInv, Types, MagicFirst
<1>6. i \in 1..Count(release') /\ Defaults(release')[i].key = stored[j].key
  BY <1>5 DEF EntriesOf
<1>7. j \in 1..Count(q) /\ j <= Count(release') BY <1>1, <1>2, <1>4, Sizes
<1>8. Count(release') > Count(q) => flash[Count(q) + 1].key = NoKey BY <1>2
<1>9. flash \in Sector BY DEF IInv, Types
<1>10. Load(flash, release')[i] = stored[j]
  BY <1>1, <1>3, <1>4, <1>6, <1>7, <1>8, <1>9, SavedIsLoaded
<1> QED BY <1>4, <1>10

\* What was saved is what the next start loads, on any release: entries are
\* matched by key, as many as the release has (settings.c:163-205).
THEOREM SavedIsRemembered == Spec => Remembered
<1>1. IInv /\ [Next]_vars => [(phase = "off" /\ stored # <<>>
        /\ (Count(release') > Len(stored) => flash[Len(stored) + 1].key = NoKey))
     => \A i \in DOMAIN ram', j \in 1..Count(release') :
          (j <= Len(stored) /\ ram'[i].key = stored[j].key) => ram'[i] = stored[j]]_vars
  BY RememberedStep
<1> QED BY <1>1, Invariance, PTL DEF Spec, Remembered

\* The entries loaded are the first ones.
LEMMA LoadedPrefix ==
  ASSUME NEW s, NEW r \in Releases
  PROVE  \E n \in 0..Count(r) : Loaded(s, r) = 1..n
<1>1. CASE Loaded(s, r) = {}
  <2>1. Loaded(s, r) = 1..0 BY <1>1
  <2> QED BY <2>1, Sizes
<1>2. CASE Loaded(s, r) # {}
  <2>1. PICK n \in Loaded(s, r) : \A j \in Loaded(s, r) : j <= n
    BY <1>2, Sizes, LastIndex DEF Loaded
  <2>2. n \in 1..Count(r) /\ \A j \in 1..n : s[j].key # NoKey BY <2>1 DEF Loaded
  <2>3. ASSUME NEW i \in 1..n PROVE i \in Loaded(s, r)
    <3>1. i \in 1..Count(r) /\ \A j \in 1..i : j \in 1..n BY <2>2, Sizes
    <3> QED BY <2>2, <3>1 DEF Loaded
  <2>4. ASSUME NEW i \in Loaded(s, r) PROVE i \in 1..n
    BY <2>1, <2>2 DEF Loaded
  <2>5. Loaded(s, r) = 1..n BY <2>3, <2>4
  <2> QED BY <2>2, <2>5, Sizes
<1> QED BY <1>1, <1>2

LEMMA SaveCutStep ==
  ASSUME IInv, Next, phase = "off"
  PROVE  \E n \in 0..MaxEntries : \A i \in DOMAIN ram' :
           LET known == Among(image, n, ram'[i].key)
           IN IF known = {} THEN ram'[i] = Defaults(release')[i]
              ELSE ram'[i].val \in known \cup {Torn}
<1>1. release' \in Releases /\ ram' = Load(flash, release')
  BY DEF Next, Put, Save, FlashErase, FlashProgram, SettingsErase, PowerCut, PowerOn
<1>2. CASE ~MagicFound(flash)
  <2>1. \A i \in DOMAIN ram' : Among(image, 0, ram'[i].key) = {} /\ ram'[i] = Defaults(release')[i]
    BY <1>1, <1>2 DEF Load, Among
  <2> QED BY <2>1, Bounds
<1>3. CASE MagicFound(flash)
  <2>1. PICK m \in 0..MaxEntries : PartOf(flash, image, m) BY DEF IInv, CutShort
  <2>2. PICK n \in 0..Count(release') : Loaded(flash, release') = 1..n BY <1>1, LoadedPrefix
  <2>3. n <= m
    <3>1. SUFFICES ASSUME m < n PROVE FALSE BY <1>1, <2>1, <2>2, Sizes
    <3>2. m < MaxEntries /\ m + 1 \in 1..n BY <1>1, <2>1, <2>2, <3>1, Sizes
    <3>3. flash[m + 1].key = NoKey BY <2>1, <3>2 DEF PartOf
    <3>4. m + 1 \in Loaded(flash, release') BY <2>2, <3>2
    <3>5. m + 1 \in 1..m + 1 BY <1>1, <2>1
    <3> QED BY <3>3, <3>4, <3>5 DEF Loaded
  <2>4. \A j \in 1..n : flash[j].key = image[j].key /\ flash[j].val \in {image[j].val, Torn}
    BY <1>1, <2>1, <2>2, <2>3, Sizes DEF PartOf
  <2>5. n \in 0..MaxEntries BY <1>1, <2>2, Sizes
  <2>6. ram' = Overlay(flash, release') /\ DOMAIN ram' = 1..Count(release')
    BY <1>1, <1>3 DEF Load, Overlay
  <2>7. EntriesOf(ram', release') BY <1>1, LoadedEntries DEF IInv, Types, MagicFirst
  <2>8. ASSUME NEW i \in DOMAIN ram'
        PROVE  LET known == Among(image, n, ram'[i].key)
               IN IF known = {} THEN ram'[i] = Defaults(release')[i]
                  ELSE ram'[i].val \in known \cup {Torn}
    <3> DEFINE same  == {k \in Loaded(flash, release') : flash[k].key = Defaults(release')[i].key}
               known == Among(image, n, ram'[i].key)
    <3>1. ram'[i].key = Defaults(release')[i].key BY <2>6, <2>7 DEF EntriesOf
    <3>2. \A k \in same : k \in 1..n /\ image[k].key = ram'[i].key BY <2>2, <2>4, <3>1
    <3>3. \A k \in 1..n : image[k].key = ram'[i].key => k \in same BY <2>2, <2>4, <3>1
    <3>4. known = {} => same = {} BY <3>2 DEF Among
    <3>5. same = {} => known = {} BY <3>3 DEF Among
    <3>6. IF same = {} THEN ram'[i] = Defaults(release')[i] ELSE \E k \in same : ram'[i] = flash[k]
      <4>1. i \in 1..Count(release') BY <2>6
      <4> HIDE DEF same
      <4>2. IF same = {} THEN Overlay(flash, release')[i] = Defaults(release')[i]
            ELSE \E k \in same : Overlay(flash, release')[i] = flash[k]
        BY <1>1, <4>1, OverlaidEntry DEF same
      <4> QED BY <2>6, <4>2
    <3>7. CASE same = {}
      <4>1. ram'[i] = Defaults(release')[i] BY <3>7, <3>6
      <4> QED BY <3>5, <3>7, <4>1
    <3>8. CASE same # {}
      <4>1. PICK k \in same : ram'[i] = flash[k] BY <3>8, <3>6
      <4>2. flash[k].val \in {image[k].val, Torn} BY <2>4, <3>2
      <4>3. image[k].val \in known BY <3>2 DEF Among
      <4> QED BY <3>4, <3>8, <4>1, <4>2, <4>3
    <3> QED BY <3>7, <3>8
  <2> QED BY <2>5, <2>8
<1> QED BY <1>2, <1>3

\* After a cut anywhere in settings_save the next start has the entries of one
\* side of it up to some point, and the defaults behind (settings.c:317-318).
THEOREM CutsNeverMix == Spec => SaveCut
<1>1. IInv /\ [Next]_vars => [phase = "off"
     => \E n \in 0..MaxEntries : \A i \in DOMAIN ram' :
          LET known == Among(image, n, ram'[i].key)
          IN IF known = {} THEN ram'[i] = Defaults(release')[i]
             ELSE ram'[i].val \in known \cup {Torn}]_vars
  BY SaveCutStep
<1> QED BY <1>1, Invariance, PTL DEF Spec, SaveCut
=============================================================================
