--------------------------- MODULE GemDrive_proofs ---------------------------
(* Proofs about GemDrive, for any number of files, handles, searches and locks *)
(* and whatever fails.  FatFs' lock table is exactly what the RP's descriptors *)
(* and searches hold, a file open for writing is open once, and an open file   *)
(* exists, whatever the link repeats (IInv).  Handles are descriptors at the   *)
(* same position, searches live on and transfers are exact, while the link     *)
(* repeats only what may be repeated (Services, under Harmless).               *)
EXTENDS GemDrive, SequenceTheorems, NaturalsInduction, WellFoundedInduction, TLAPS

\* What the commands of each kind carry.
CmdOK(c) ==
  /\ c.kind \in {"fopen", "fcreate", "frename"} => c.path \in Paths
  /\ c.kind \in {"fopen", "fcreate"} => c.mode \in Modes
  /\ c.kind = "frename" => c.to \in Paths
  /\ c.kind \in {"fsetdta", "fsfirst", "fsnext", "dtarelease"} => c.key \in Keys

SearchKeys == tosDta \in Keys /\ found \subseteq Keys

\* The lock an open descriptor or search holds.
FileLock(h)   == Lock(fds[h].path, fds[h].mode, h)
SearchLock(k) == Lock(Folder, "r", k)

\* LocksMatch, one lock at a time.
EachHolds ==
  /\ \A h \in DOMAIN fds : FileLock(h) \in open
  /\ \A k \in DOMAIN dtas : dtas[k] => SearchLock(k) \in open
EachHeld ==
  \A x \in open : \/ x.by = Stray /\ x.write /\ "sync" \in Faults
                  \/ x.by \in DOMAIN fds /\ x = FileLock(x.by)
                  \/ x.by \in DOMAIN dtas /\ dtas[x.by] /\ x = SearchLock(x.by)

Tables ==
  /\ DOMAIN fds \subseteq FDs /\ DOMAIN dtas \subseteq Keys
  /\ \A k \in DOMAIN dtas : dtas[k] \in BOOLEAN
  /\ \A h \in DOMAIN fds : fds[h].path \in Paths /\ {"path", "mode"} \subseteq DOMAIN fds[h]

Commands == CmdOK(cmd) /\ CmdOK(late)

IInv == /\ Commands /\ SearchKeys /\ Tables /\ EachHolds /\ EachHeld
        /\ ExclusiveWriter /\ OpenFileExists

-----------------------------------------------------------------------------
LEMMA Distinct ==
  /\ \A h \in FDs : h \notin Keys /\ h # Stray
  /\ \A k \in Keys : k # Stray
  /\ Folder \notin Paths
BY GemAssumption

LEMMA LockFields ==
  ASSUME NEW o, NEW m, NEW h
  PROVE  Lock(o, m, h).obj = o /\ Lock(o, m, h).write = (m # "r") /\ Lock(o, m, h).by = h
BY DEF Lock

\* The lock of a file for writing, whoever holds it.
LEMMA WriteLock ==
  ASSUME NEW o, NEW m, NEW h, m # "r" PROVE Lock(o, m, h).by = h /\ Lock(o, m, h).write
<1>1. Lock(o, m, h) = [obj |-> o, write |-> TRUE, by |-> h]
  <2>1. (m # "r") = TRUE OBVIOUS
  <2> QED BY <2>1 DEF Lock
<1> QED BY <1>1

\* The two forms of the same thing.
LEMMA PointwiseLocks == ASSUME Tables, EachHolds, EachHeld PROVE LocksMatch
<1> DEFINE held == {FileLock(h) : h \in DOMAIN fds}
                     \cup {SearchLock(k) : k \in {k \in DOMAIN dtas : dtas[k]}}
<1>1. ASSUME NEW x \in open, x.by # Stray PROVE x \in held
  BY <1>1 DEF EachHeld
<1>2. ASSUME NEW x \in held PROVE x \in open /\ x.by # Stray
  <2>1. CASE \E h \in DOMAIN fds : x = FileLock(h)
    BY <2>1, Distinct, LockFields DEF EachHolds, FileLock, Tables
  <2>2. CASE \E k \in DOMAIN dtas : dtas[k] /\ x = SearchLock(k)
    BY <2>2, Distinct, LockFields DEF EachHolds, SearchLock, Tables
  <2> QED BY <1>2, <2>1, <2>2
<1>3. ASSUME NEW x \in open, x.by = Stray PROVE x.write /\ "sync" \in Faults
  BY <1>3, Distinct DEF EachHeld, Tables
<1> QED BY <1>1, <1>2, <1>3 DEF LocksMatch, FileLock, SearchLock

\* A descriptor that is free is found, while there is one.
LEMMA FreeDescriptor ==
  ASSUME Tables, DOMAIN fds # FDs PROVE FirstFreeFD \in FDs /\ FirstFreeFD \notin DOMAIN fds
<1> DEFINE R    == OpToRel(<, Nat)
           Free == FDs \ DOMAIN fds
<1>1. FDs \subseteq Nat BY GemAssumption DEF FDs
<1>2. Free # {} /\ Free \subseteq Nat BY <1>1 DEF Tables
<1>3. PICK x \in Free : \A y \in Free : <<y, x>> \notin R
  BY <1>2, NatLessThanWellFounded, WFMin
<1>4. ASSUME NEW y \in Free, y < x PROVE <<y, x>> \in R
  <2>1. <<y, x>> \in Nat \X Nat BY <1>2
  <2>2. \E p \in Nat \X Nat : p = <<y, x>> /\ p[1] < p[2] BY <1>4, <2>1
  <2> QED BY <2>1, <2>2, Zenon DEF OpToRel
<1> HIDE DEF R
<1>5. \A y \in Free : ~(y < x) BY <1>3, <1>4, Zenon
<1>6. \A g \in FirstFD .. x - 1 : g \in DOMAIN fds
  <2>1. SUFFICES ASSUME NEW g \in FirstFD .. x - 1, g \notin DOMAIN fds PROVE FALSE OBVIOUS
  <2>2. g \in FDs /\ g < x BY <1>1, GemAssumption DEF FDs
  <2> QED BY <1>5, <2>1, <2>2
<1> QED BY <1>3, <1>6 DEF FirstFreeFD
-----------------------------------------------------------------------------
(* What the operations do to the tables                                     *)

\* Nothing that the tables are about changes.
LEMMA SameFiles ==
  ASSUME Tables, EachHolds, EachHeld, ExclusiveWriter,
         UNCHANGED <<open, dtas>>, DOMAIN fds' = DOMAIN fds,
         \A h \in DOMAIN fds : /\ fds'[h].path = fds[h].path /\ fds'[h].mode = fds[h].mode
                               /\ DOMAIN fds'[h] = DOMAIN fds[h]
  PROVE  Tables' /\ EachHolds' /\ EachHeld' /\ ExclusiveWriter'
BY DEF Tables, EachHolds, EachHeld, ExclusiveWriter, FileLock, SearchLock

\* A descriptor is added for a file that FatFs has opened.
LEMMA FileAdded ==
  ASSUME Tables, EachHolds, EachHeld, ExclusiveWriter, dtas' = dtas,
         NEW p \in Paths, NEW m \in Modes, NEW h \in FDs, h \notin DOMAIN fds, CanOpen(p, m),
         NEW n, n.path = p, n.mode = m, {"path", "mode"} \subseteq DOMAIN n,
         open' = open \cup {Lock(p, m, h)}, fds' = With(fds, h, n)
  PROVE  Tables' /\ EachHolds' /\ EachHeld' /\ ExclusiveWriter'
<1>1. /\ DOMAIN fds' = DOMAIN fds \cup {h} /\ fds'[h] = n
      /\ \A g \in DOMAIN fds : g # h /\ fds'[g] = fds[g]
  BY DEF With
<1>2. Tables' BY <1>1 DEF Tables
<1>3. EachHolds' BY <1>1 DEF EachHolds, FileLock, SearchLock
<1>4. EachHeld' BY <1>1, LockFields DEF EachHeld, FileLock, SearchLock
<1>5. ASSUME NEW g \in DOMAIN fds, fds[g].path = p PROVE fds[g].mode = "r" /\ m = "r"
  <2>1. FileLock(g) \in open /\ FileLock(g).obj = p /\ FileLock(g).write = (fds[g].mode # "r")
    BY <1>5, LockFields DEF EachHolds, FileLock
  <2> QED BY <2>1 DEF CanOpen, CanRead, CanWrite, Entries
<1>6. ExclusiveWriter' BY <1>1, <1>5 DEF ExclusiveWriter
<1> QED BY <1>2, <1>3, <1>4, <1>6

\* A descriptor goes, and its lock with it.
LEMMA FileClosed ==
  ASSUME Tables, EachHolds, EachHeld, ExclusiveWriter, dtas' = dtas,
         NEW h \in DOMAIN fds, open' = {x \in open : x.by # h}, fds' = Without(fds, h)
  PROVE  Tables' /\ EachHolds' /\ EachHeld' /\ ExclusiveWriter'
<1>1. /\ DOMAIN fds' = DOMAIN fds \ {h} /\ \A g \in DOMAIN fds' : fds'[g] = fds[g]
  BY DEF Without
<1>2. h \notin Keys BY Distinct DEF Tables
<1>3. Tables' BY <1>1 DEF Tables
<1>4. EachHolds' BY <1>1, <1>2, LockFields DEF EachHolds, FileLock, SearchLock, Tables
<1>5. EachHeld' BY <1>1 DEF EachHeld, FileLock, SearchLock
<1>6. ExclusiveWriter' BY <1>1 DEF ExclusiveWriter
<1> QED BY <1>3, <1>4, <1>5, <1>6

\* A search goes, and its directory is closed.
LEMMA SearchReleased ==
  ASSUME Tables, EachHolds, EachHeld, ExclusiveWriter, fds' = fds,
         NEW k, k \notin FDs, dtas' = Without(dtas, k), open' = {x \in open : x.by # k}
  PROVE  Tables' /\ EachHolds' /\ EachHeld' /\ ExclusiveWriter'
<1>1. /\ DOMAIN dtas' = DOMAIN dtas \ {k} /\ \A j \in DOMAIN dtas' : dtas'[j] = dtas[j]
  BY DEF Without
<1>2. Tables' BY <1>1 DEF Tables
<1>3. EachHolds' BY <1>1, LockFields DEF EachHolds, FileLock, SearchLock, Tables
<1>4. EachHeld' BY <1>1 DEF EachHeld, FileLock, SearchLock
<1>5. ExclusiveWriter' BY DEF ExclusiveWriter
<1> QED BY <1>2, <1>3, <1>4, <1>5

\* A search begins.
LEMMA SearchAdded ==
  ASSUME Tables, EachHolds, EachHeld, ExclusiveWriter, fds' = fds, NEW k \in Keys,
         dtas' = With(Without(dtas, k), k, TRUE),
         open' = {x \in open : x.by # k} \cup {Lock(Folder, "r", k)}
  PROVE  Tables' /\ EachHolds' /\ EachHeld' /\ ExclusiveWriter'
<1>1. /\ DOMAIN dtas' = DOMAIN dtas \cup {k} /\ dtas'[k] = TRUE
      /\ \A j \in DOMAIN dtas \ {k} : dtas'[j] = dtas[j]
  BY DEF With, Without
<1>2. k \notin FDs BY Distinct
<1>3. Tables' BY <1>1 DEF Tables
<1>4. \A h \in DOMAIN fds : FileLock(h) \in open /\ FileLock(h).by # k /\ FileLock(h)' = FileLock(h)
  BY <1>2, LockFields DEF EachHolds, FileLock, Tables
<1>5. \A j \in DOMAIN dtas \ {k} : dtas[j] => SearchLock(j) \in open /\ SearchLock(j).by # k
  BY LockFields DEF EachHolds, SearchLock
<1>6. SearchLock(k) \in open' BY DEF SearchLock
<1>7. EachHolds'
  <2>1. ASSUME NEW h \in DOMAIN fds' PROVE FileLock(h)' \in open' BY <1>4, <2>1
  <2>2. ASSUME NEW j \in DOMAIN dtas', dtas'[j] PROVE SearchLock(j) \in open'
    BY <1>1, <1>5, <1>6, <2>2
  <2> QED BY <2>1, <2>2 DEF EachHolds, SearchLock
<1>8. EachHeld'
  <2>1. SUFFICES ASSUME NEW x \in open'
        PROVE  \/ x.by = Stray /\ x.write /\ "sync" \in Faults
               \/ x.by \in DOMAIN fds' /\ x = FileLock(x.by)'
               \/ x.by \in DOMAIN dtas' /\ dtas'[x.by] /\ x = SearchLock(x.by)
    BY DEF EachHeld, SearchLock
  <2>2. CASE x = Lock(Folder, "r", k)
    <3>1. x.by = k BY <2>2, LockFields
    <3>2. x = SearchLock(x.by) BY <2>2, <3>1 DEF SearchLock
    <3> QED BY <1>1, <3>1, <3>2
  <2>3. CASE x \in open /\ x.by # k
    <3>1. \/ x.by = Stray /\ x.write /\ "sync" \in Faults
          \/ x.by \in DOMAIN fds /\ x = FileLock(x.by)
          \/ x.by \in DOMAIN dtas /\ dtas[x.by] /\ x = SearchLock(x.by)
      BY <2>3 DEF EachHeld
    <3>2. CASE x.by \in DOMAIN fds /\ x = FileLock(x.by) BY <3>2 DEF FileLock
    <3>3. CASE x.by \in DOMAIN dtas /\ dtas[x.by] /\ x = SearchLock(x.by)
      BY <1>1, <2>3, <3>3
    <3> QED BY <3>1, <3>2, <3>3
  <2>4. x = Lock(Folder, "r", k) \/ (x \in open /\ x.by # k) BY <2>1
  <2> QED BY <2>2, <2>3, <2>4
<1>9. ExclusiveWriter' BY DEF ExclusiveWriter
<1> QED BY <1>3, <1>7, <1>8, <1>9
-----------------------------------------------------------------------------
(* The steps of the RP.  c is the command it runs.                          *)

LEMMA RunsKeeps ==
  ASSUME Commands, SearchKeys, NEW c, NEW answer, Runs(c, answer)
  PROVE  CmdOK(c) /\ Commands' /\ SearchKeys'
<1>1. CmdOK(NoCmd) BY DEF CmdOK, NoCmd
<1>2. UNCHANGED <<tosDta, found>> BY DEF Runs, atari
<1> QED BY <1>1, <1>2 DEF Runs, Commands, SearchKeys

\* What all steps of the RP have to show.
TablesKept == /\ Tables' /\ EachHolds' /\ EachHeld' /\ ExclusiveWriter' /\ OpenFileExists'
              /\ Commands' /\ SearchKeys'

LEMMA AddFileKeeps ==
  ASSUME Tables, EachHolds, EachHeld, ExclusiveWriter, dtas' = dtas,
         \A h \in DOMAIN fds : fds[h].path \in DOMAIN files',
         NEW c, c.path \in Paths, c.mode \in Modes, CanOpen(c.path, c.mode),
         c.path \in DOMAIN files', NEW memory \in BOOLEAN, AddFile(c, memory)
  PROVE  Tables' /\ EachHolds' /\ EachHeld' /\ ExclusiveWriter' /\ OpenFileExists'
<1>1. CASE memory
  <2> DEFINE n == [path |-> c.path, mode |-> c.mode, offset |-> 0, ptr |-> 0, err |-> FALSE]
  <2>1. /\ DOMAIN fds # FDs
        /\ open' = open \cup {Lock(c.path, c.mode, FirstFreeFD)}
        /\ fds' = With(fds, FirstFreeFD, n)
    BY <1>1 DEF AddFile
  <2>2. FirstFreeFD \in FDs /\ FirstFreeFD \notin DOMAIN fds BY <2>1, FreeDescriptor
  <2>3. n.path = c.path /\ n.mode = c.mode /\ {"path", "mode"} \subseteq DOMAIN n OBVIOUS
  <2> HIDE DEF n
  <2>4. Tables' /\ EachHolds' /\ EachHeld' /\ ExclusiveWriter' BY <2>1, <2>2, <2>3, FileAdded
  <2>5. \A h \in DOMAIN fds' : fds'[h] = n \/ (h \in DOMAIN fds /\ fds'[h] = fds[h])
    BY <2>1, <2>2 DEF With
  <2>6. OpenFileExists' BY <2>3, <2>5 DEF OpenFileExists
  <2> QED BY <2>4, <2>6
<1>2. CASE ~memory
  <2>1. CASE UNCHANGED <<open, fds>> BY <2>1, SameFiles DEF OpenFileExists
  <2>2. CASE /\ CloseFails(c.mode) /\ fds' = fds
             /\ open' = open \cup {Lock(c.path, c.mode, Stray)}
    <3> DEFINE l == Lock(c.path, c.mode, Stray)
    <3>1. l.by = Stray /\ l.write /\ "sync" \in Faults BY <2>2, WriteLock DEF CloseFails
    <3>2. open' = open \cup {l} BY <2>2
    <3> HIDE DEF l
    <3>3. EachHolds' BY <2>2, <3>2 DEF EachHolds, FileLock, SearchLock
    <3>4. EachHeld' BY <2>2, <3>1, <3>2 DEF EachHeld, FileLock, SearchLock
    <3> QED BY <2>2, <3>3, <3>4 DEF Tables, ExclusiveWriter, OpenFileExists
  <2> QED BY <1>2, <2>1, <2>2 DEF AddFile
<1> QED BY <1>1, <1>2

\* The files stay and no table changes.
LEMMA Untouched ==
  ASSUME IInv, UNCHANGED <<open, fds, dtas>>, DOMAIN files \subseteq DOMAIN files'
  PROVE  Tables' /\ EachHolds' /\ EachHeld' /\ ExclusiveWriter' /\ OpenFileExists'
<1>1. Tables' /\ EachHolds' /\ EachHeld' /\ ExclusiveWriter' BY SameFiles DEF IInv
<1> QED BY <1>1 DEF IInv, OpenFileExists

LEMMA OpenKeeps == ASSUME IInv, NEW c, Fopen(c) \/ Fcreate(c) PROVE TablesKept
<1>1. PICK answer : Runs(c, answer) BY DEF Fopen, Fcreate, AddFile
<1>2. CmdOK(c) /\ Commands' /\ SearchKeys' BY <1>1, RunsKeeps DEF IInv
<1>3. CASE Fopen(c)
  <2>1. c.path \in Paths /\ c.mode \in Modes /\ files' = files /\ dtas' = dtas
    BY <1>2, <1>3 DEF Fopen, CmdOK
  <2>2. CASE c.path \in DOMAIN files /\ CanOpen(c.path, c.mode)
    <3>1. PICK memory \in Outcome("memory") : AddFile(c, memory) BY <1>3, <2>2 DEF Fopen
    <3>2. memory \in BOOLEAN BY DEF Outcome
    <3> QED BY <1>2, <2>1, <2>2, <3>1, <3>2, AddFileKeeps DEF IInv, OpenFileExists, TablesKept
  <2>3. CASE ~(c.path \in DOMAIN files /\ CanOpen(c.path, c.mode))
    <3>1. UNCHANGED <<open, fds>> BY <1>3, <2>3 DEF Fopen
    <3> QED BY <1>2, <2>1, <3>1, Untouched DEF TablesKept
  <2> QED BY <2>2, <2>3
<1>4. CASE Fcreate(c)
  <2>1. c.path \in Paths /\ c.mode \in Modes /\ dtas' = dtas
    BY <1>2, <1>4 DEF Fcreate, CmdOK
  <2>2. CASE CanWrite(c.path)
    <3>1. PICK memory \in Outcome("memory") : AddFile(c, memory) BY <1>4, <2>2 DEF Fcreate
    <3>2. memory \in BOOLEAN BY DEF Outcome
    <3>3. DOMAIN files' = DOMAIN files \cup {c.path} BY <1>4, <2>2 DEF Fcreate, With
    <3>4. CanOpen(c.path, c.mode) BY <2>2 DEF CanOpen, CanRead, CanWrite, Entries
    <3> QED BY <1>2, <2>1, <3>1, <3>2, <3>3, <3>4, AddFileKeeps DEF IInv, OpenFileExists, TablesKept
  <2>3. CASE ~CanWrite(c.path)
    <3>1. UNCHANGED <<files, open, fds>> BY <1>4, <2>3 DEF Fcreate
    <3> QED BY <1>2, <2>1, <3>1, Untouched DEF TablesKept
  <2> QED BY <2>2, <2>3
<1> QED BY <1>3, <1>4

LEMMA CloseKeeps == ASSUME IInv, NEW c, Fclose(c) PROVE TablesKept
<1>1. PICK answer : Runs(c, answer) BY DEF Fclose
<1>2. Commands' /\ SearchKeys' BY <1>1, RunsKeeps DEF IInv
<1>3. UNCHANGED <<files, dtas>> BY DEF Fclose
<1>4. CASE UNCHANGED <<open, fds>> BY <1>2, <1>3, <1>4, Untouched DEF TablesKept
<1>5. CASE c.fd \in DOMAIN fds /\ open' = {x \in open : x.by # c.fd} /\ fds' = Without(fds, c.fd)
  <2>1. Tables' /\ EachHolds' /\ EachHeld' /\ ExclusiveWriter' BY <1>3, <1>5, FileClosed DEF IInv
  <2>2. OpenFileExists' BY <1>3, <1>5 DEF IInv, OpenFileExists, Without
  <2> QED BY <1>2, <2>1, <2>2 DEF TablesKept
<1> QED BY <1>4, <1>5 DEF Fclose

LEMMA DeleteKeeps == ASSUME IInv, NEW c, Fdelete(c) PROVE TablesKept
<1>1. PICK answer : Runs(c, answer) BY DEF Fdelete
<1>2. Commands' /\ SearchKeys' BY <1>1, RunsKeeps DEF IInv
<1>3. UNCHANGED <<open, fds, dtas>> BY DEF Fdelete
<1>4. Tables' /\ EachHolds' /\ EachHeld' /\ ExclusiveWriter' BY <1>3, SameFiles DEF IInv
<1>5. CASE UNCHANGED files BY <1>2, <1>3, <1>5, Untouched DEF TablesKept
<1>6. CASE files' = Without(files, c.path) /\ ~\E h \in DOMAIN fds : fds[h].path = c.path
  BY <1>2, <1>3, <1>4, <1>6 DEF IInv, OpenFileExists, Without, TablesKept
<1> QED BY <1>5, <1>6 DEF Fdelete

LEMMA RenameKeeps == ASSUME IInv, NEW c, Frename(c) PROVE TablesKept
<1>1. PICK answer : Runs(c, answer) BY DEF Frename
<1>2. Commands' /\ SearchKeys' BY <1>1, RunsKeeps DEF IInv
<1>3. UNCHANGED <<open, fds, dtas>> BY DEF Frename
<1>4. Tables' /\ EachHolds' /\ EachHeld' /\ ExclusiveWriter' BY <1>3, SameFiles DEF IInv
<1>5. CASE UNCHANGED files BY <1>2, <1>3, <1>5, Untouched DEF TablesKept
<1>6. CASE /\ c.path \notin Entries
           /\ files' = With(Without(files, c.path), c.to, files[c.path])
  <2>1. \A h \in DOMAIN fds : fds[h].path # c.path
    BY <1>6, LockFields DEF IInv, EachHolds, FileLock, Entries
  <2>2. DOMAIN files' = (DOMAIN files \ {c.path}) \cup {c.to} BY <1>6 DEF With, Without
  <2> QED BY <1>2, <1>3, <1>4, <2>1, <2>2 DEF IInv, OpenFileExists, TablesKept
<1> QED BY <1>5, <1>6 DEF Frename

LEMMA ResetKeeps == ASSUME IInv, NEW c, Reset(c) PROVE TablesKept
<1>1. Commands' /\ SearchKeys' BY RunsKeeps DEF IInv, Reset
<1>2. DOMAIN fds' = {} /\ DOMAIN dtas' = {} BY DEF Reset
<1>3. \A x \in open' : x.by = Stray /\ x.write /\ "sync" \in Faults
  <2>1. PICK bad \in SUBSET {h \in DOMAIN fds : CloseFails(fds[h].mode)} :
          open' = {x \in open : x.by = Stray}
                    \cup {Lock(fds[h].path, fds[h].mode, Stray) : h \in bad}
    BY DEF Reset
  <2>2. \A x \in open : x.by = Stray => x.write /\ "sync" \in Faults
    BY Distinct DEF IInv, EachHeld, Tables
  <2>3. \A h \in bad : fds[h].mode # "r" /\ "sync" \in Faults BY <2>1 DEF CloseFails
  <2>4. ASSUME NEW h \in bad
        PROVE  LET l == Lock(fds[h].path, fds[h].mode, Stray) IN l.by = Stray /\ l.write
    BY <2>3, WriteLock
  <2> QED BY <2>1, <2>2, <2>3, <2>4
<1>4. Tables' /\ EachHolds' /\ EachHeld' /\ ExclusiveWriter' /\ OpenFileExists'
  BY <1>2, <1>3 DEF Tables, EachHolds, EachHeld, ExclusiveWriter, OpenFileExists
<1> QED BY <1>1, <1>4 DEF TablesKept

LEMMA SeekKeeps == ASSUME IInv, NEW c, Fseek(c) PROVE TablesKept
<1>1. PICK answer : Runs(c, answer) BY DEF Fseek
<1>2. Commands' /\ SearchKeys' BY <1>1, RunsKeeps DEF IInv
<1>3. UNCHANGED <<files, open, dtas>> BY DEF Fseek
<1>4. CASE UNCHANGED fds BY <1>2, <1>3, <1>4, Untouched DEF TablesKept
<1>5. CASE /\ c.fd \in DOMAIN fds
           /\ fds' = [fds EXCEPT ![c.fd].offset = SeekOffset(fds[c.fd], c.mode, c.n),
                                 ![c.fd].ptr = Unsought]
  <2> DEFINE to == SeekOffset(fds[c.fd], c.mode, c.n)
  <2> HIDE DEF to
  <2>1. fds' = [fds EXCEPT ![c.fd].offset = to, ![c.fd].ptr = Unsought] BY <1>5 DEF to
  <2>2. /\ DOMAIN fds' = DOMAIN fds
        /\ \A h \in DOMAIN fds : /\ fds'[h].path = fds[h].path /\ fds'[h].mode = fds[h].mode
                                /\ DOMAIN fds'[h] = DOMAIN fds[h]
    BY <2>1
  <2>3. Tables' /\ EachHolds' /\ EachHeld' /\ ExclusiveWriter' BY <1>3, <2>2, SameFiles DEF IInv
  <2>4. OpenFileExists' BY <1>3, <2>2 DEF IInv, OpenFileExists
  <2> QED BY <1>2, <2>3, <2>4 DEF TablesKept
<1> QED BY <1>4, <1>5 DEF Fseek

\* A transfer changes what is in a file and how far a descriptor is, no more.
LEMMA TransferKeeps ==
  ASSUME IInv, NEW c, c.fd \in DOMAIN fds, UNCHANGED <<open, dtas>>,
         DOMAIN files' = DOMAIN files, DOMAIN fds' = DOMAIN fds,
         \A h \in DOMAIN fds : /\ fds'[h].path = fds[h].path /\ fds'[h].mode = fds[h].mode
                               /\ DOMAIN fds'[h] = DOMAIN fds[h]
  PROVE  Tables' /\ EachHolds' /\ EachHeld' /\ ExclusiveWriter' /\ OpenFileExists'
<1>1. Tables' /\ EachHolds' /\ EachHeld' /\ ExclusiveWriter' BY SameFiles DEF IInv
<1>2. OpenFileExists' BY DEF IInv, OpenFileExists
<1> QED BY <1>1, <1>2

\* Fields of one descriptor change, of those that name no file.
LEMMA EntryField ==
  ASSUME Tables, NEW h, NEW v, NEW w,
         \/ fds' = [fds EXCEPT ![h].ptr = v] \/ fds' = [fds EXCEPT ![h].err = v]
         \/ fds' = [fds EXCEPT ![h] = [fds[h] EXCEPT !.ptr = v, !.offset = w]]
  PROVE  /\ DOMAIN fds' = DOMAIN fds
         /\ \A g \in DOMAIN fds : /\ fds'[g].path = fds[g].path /\ fds'[g].mode = fds[g].mode
                                 /\ DOMAIN fds'[g] = DOMAIN fds[g]
<1>1. DOMAIN fds' = DOMAIN fds OBVIOUS
<1>2. ASSUME NEW g \in DOMAIN fds, g # h PROVE fds'[g] = fds[g] BY <1>2
<1>3. CASE h \in DOMAIN fds
  <2>1. \/ fds'[h] = [fds[h] EXCEPT !.ptr = v] \/ fds'[h] = [fds[h] EXCEPT !.err = v]
        \/ fds'[h] = [fds[h] EXCEPT !.ptr = v, !.offset = w]
    BY <1>3
  <2>2. {"path", "mode"} \subseteq DOMAIN fds[h] BY <1>3 DEF Tables
  <2>3. DOMAIN fds'[h] = DOMAIN fds[h] BY <2>1
  <2>4. fds'[h].path = fds[h].path /\ fds'[h].mode = fds[h].mode BY <2>1, <2>2
  <2> QED BY <1>1, <1>2, <2>3, <2>4
<1>4. CASE h \notin DOMAIN fds BY <1>1, <1>2, <1>4
<1> QED BY <1>3, <1>4

LEMMA RefusedKeeps ==
  ASSUME Tables, NEW c, NEW denied, Refused(c, fds[c.fd], denied), c.fd \in DOMAIN fds
  PROVE  /\ DOMAIN files' = DOMAIN files /\ DOMAIN fds' = DOMAIN fds
         /\ \A h \in DOMAIN fds : /\ fds'[h].path = fds[h].path /\ fds'[h].mode = fds[h].mode
                                 /\ DOMAIN fds'[h] = DOMAIN fds[h]
<1> DEFINE s == Synced(fds[c.fd])
<1> HIDE DEF s
<1>1. \/ UNCHANGED <<files, fds>>
      \/ /\ files' = [files EXCEPT ![fds[c.fd].path] = s.content]
         /\ fds' = [fds EXCEPT ![c.fd].ptr = s.at]
      \/ /\ fds' = [fds EXCEPT ![c.fd].err = TRUE]
         /\ UNCHANGED files
  BY Zenon DEF Refused, s
<1>2. CASE UNCHANGED <<files, fds>> BY <1>2
<1>3. ASSUME NEW v, fds' = [fds EXCEPT ![c.fd].ptr = v] \/ fds' = [fds EXCEPT ![c.fd].err = v]
      PROVE  /\ DOMAIN fds' = DOMAIN fds
             /\ \A h \in DOMAIN fds : /\ fds'[h].path = fds[h].path /\ fds'[h].mode = fds[h].mode
                                     /\ DOMAIN fds'[h] = DOMAIN fds[h]
  BY <1>3, EntryField
<1>4. CASE /\ files' = [files EXCEPT ![fds[c.fd].path] = s.content]
           /\ fds' = [fds EXCEPT ![c.fd].ptr = s.at]
  BY <1>3, <1>4
<1>5. CASE fds' = [fds EXCEPT ![c.fd].err = TRUE] /\ UNCHANGED files
  BY <1>3, <1>5
<1> QED BY <1>1, <1>2, <1>4, <1>5

LEMMA TransfersKeep == ASSUME IInv, NEW c, ReadBuff(c) \/ WriteBuff(c) PROVE TablesKept
<1>1. PICK answer : Runs(c, answer) BY DEF ReadBuff, WriteBuff, Refused
<1>2. Commands' /\ SearchKeys' BY <1>1, RunsKeeps DEF IInv
<1>3. UNCHANGED <<open, dtas>> BY DEF ReadBuff, WriteBuff
<1>4. CASE c.fd \notin DOMAIN fds
  <2>1. UNCHANGED <<files, fds>> BY <1>4 DEF ReadBuff, WriteBuff
  <2> QED BY <1>2, <1>3, <2>1, Untouched DEF TablesKept
<1>5. CASE c.fd \in DOMAIN fds
  <2>1. ASSUME NEW denied, Refused(c, fds[c.fd], denied) PROVE TablesKept
    BY <1>2, <1>3, <1>5, <2>1, RefusedKeeps, TransferKeeps DEF TablesKept, IInv
  <2>2. ASSUME NEW content, NEW at, NEW n,
               files' = [files EXCEPT ![fds[c.fd].path] = content],
               fds' = [fds EXCEPT ![c.fd] = Advance(fds[c.fd], at, n)]
        PROVE  TablesKept
    <3>2. fds' = [fds EXCEPT ![c.fd] = [fds[c.fd] EXCEPT !.ptr = at + n,
                                                         !.offset = fds[c.fd].offset + n]]
      BY <2>2 DEF Advance
    <3>3. /\ DOMAIN files' = DOMAIN files /\ DOMAIN fds' = DOMAIN fds
          /\ \A h \in DOMAIN fds : /\ fds'[h].path = fds[h].path /\ fds'[h].mode = fds[h].mode
                                  /\ DOMAIN fds'[h] = DOMAIN fds[h]
      <4>1. DOMAIN files' = DOMAIN files BY <2>2
      <4>2. Tables BY DEF IInv
      <4> DEFINE v == at + n
                 w == fds[c.fd].offset + n
      <4>3. fds' = [fds EXCEPT ![c.fd] = [fds[c.fd] EXCEPT !.ptr = v, !.offset = w]] BY <3>2
      <4> HIDE DEF v, w
      <4> QED BY <4>1, <4>2, <4>3, EntryField
    <3> QED BY <1>2, <1>3, <1>5, <3>3, TransferKeeps DEF TablesKept
  <2>3. CASE ReadBuff(c)
    <3> DEFINE f == fds[c.fd]
               s == Synced(f)
               n == Least(Least(c.n, ReadSize), Len(s.content) - s.at)
    <3>1. \/ Refused(c, f, f.mode = "w")
          \/ /\ files' = [files EXCEPT ![f.path] = s.content]
             /\ fds' = [fds EXCEPT ![c.fd] = Advance(f, s.at, n)]
      BY <1>5, <2>3, Zenon DEF ReadBuff
    <3> HIDE DEF s, n
    <3> QED BY <2>1, <2>2, <3>1, Zenon DEF f
  <2>4. CASE WriteBuff(c)
    <3> DEFINE f == fds[c.fd]
               s == Synced(f)
    <3>1. \/ Refused(c, f, f.mode = "r")
          \/ \E n \in Storable(f, s, c.bytes) :
               /\ files' = [files EXCEPT ![f.path] =
                              Overwritten(s.content, s.at, SubSeq(c.bytes, 1, n))]
               /\ fds' = [fds EXCEPT ![c.fd] = Advance(f, s.at, n)]
      BY <1>5, <2>4, Zenon DEF WriteBuff
    <3> HIDE DEF s
    <3> QED BY <2>1, <2>2, <3>1, Zenon DEF f
  <2> QED BY <2>3, <2>4
<1> QED BY <1>4, <1>5

LEMMA ReleaseKeeps ==
  ASSUME IInv, NEW k \in Keys, UNCHANGED <<files, fds>>,
         dtas' = Released(k).dtas, open' = Released(k).open
  PROVE  Tables' /\ EachHolds' /\ EachHeld' /\ ExclusiveWriter' /\ OpenFileExists'
<1>1. dtas' = Without(dtas, k) /\ open' = {x \in open : x.by # k} BY DEF Released
<1>2. k \notin FDs BY Distinct
<1>3. Tables' /\ EachHolds' /\ EachHeld' /\ ExclusiveWriter' BY <1>1, <1>2, SearchReleased DEF IInv
<1> QED BY <1>3 DEF IInv, OpenFileExists

LEMMA SearchesKeep ==
  ASSUME IInv, NEW c, Fsetdta(c) \/ DtaRelease(c) \/ Fsfirst(c) \/ Fsnext(c) PROVE TablesKept
<1>1. PICK answer : Runs(c, answer) BY DEF Fsetdta, DtaRelease, Fsfirst, Fsnext
<1>2. CmdOK(c) /\ Commands' /\ SearchKeys' BY <1>1, RunsKeeps DEF IInv
<1>3. c.key \in Keys BY <1>2 DEF CmdOK, Fsetdta, DtaRelease, Fsfirst, Fsnext
<1>4. UNCHANGED <<files, fds>> BY DEF Fsetdta, DtaRelease, Fsfirst, Fsnext
<1>5. CASE UNCHANGED <<dtas, open>> BY <1>2, <1>4, <1>5, Untouched DEF TablesKept
<1>6. CASE dtas' = Released(c.key).dtas /\ open' = Released(c.key).open
  BY <1>2, <1>3, <1>4, <1>6, ReleaseKeeps DEF TablesKept
<1>7. CASE Fsetdta(c) /\ ~UNCHANGED <<dtas, open>>
  <2>1. c.key \notin DOMAIN dtas /\ dtas' = With(dtas, c.key, FALSE) /\ open' = open
    BY <1>7 DEF Fsetdta
  <2>2. /\ DOMAIN dtas' = DOMAIN dtas \cup {c.key} /\ dtas'[c.key] = FALSE
        /\ \A k \in DOMAIN dtas : dtas'[k] = dtas[k]
    BY <2>1 DEF With
  <2>3. Tables' BY <1>3, <1>4, <2>2 DEF IInv, Tables
  <2>4. EachHolds' BY <1>4, <2>1, <2>2 DEF IInv, EachHolds, FileLock, SearchLock
  <2>5. EachHeld' BY <1>4, <2>1, <2>2 DEF IInv, EachHeld, FileLock, SearchLock
  <2> QED BY <1>2, <1>4, <2>3, <2>4, <2>5 DEF IInv, ExclusiveWriter, OpenFileExists, TablesKept
<1>8. CASE /\ dtas' = With(Released(c.key).dtas, c.key, TRUE)
           /\ open' = Released(c.key).open \cup {Lock(Folder, "r", c.key)}
  <2>1. Tables' /\ EachHolds' /\ EachHeld' /\ ExclusiveWriter'
    BY <1>3, <1>4, <1>8, SearchAdded DEF Released, IInv
  <2> QED BY <1>2, <1>4, <2>1 DEF IInv, OpenFileExists, TablesKept
<1>9. CASE DtaRelease(c) BY <1>6, <1>9 DEF DtaRelease
<1>10. CASE Fsfirst(c) BY <1>6, <1>8, <1>10, Zenon DEF Fsfirst
<1>11. CASE Fsnext(c) BY <1>5, <1>6, <1>11 DEF Fsnext
<1> QED BY <1>5, <1>7, <1>9, <1>10, <1>11

LEMMA RpKeeps == ASSUME IInv, Rp PROVE IInv'
<1>1. TablesKept => IInv' BY DEF TablesKept, IInv
<1> QED
  BY <1>1, OpenKeeps, CloseKeeps, DeleteKeeps, RenameKeeps, ResetKeeps, SeekKeeps, TransfersKeep,
     SearchesKeep DEF Rp
-----------------------------------------------------------------------------
(* The steps of the Atari leave the RP alone and send commands as they must be *)

LEMMA AtariKeeps ==
  ASSUME IInv, UNCHANGED rp, CmdOK(cmd'), CmdOK(late'), SearchKeys' PROVE IInv'
<1>1. UNCHANGED <<files, open, fds, dtas>> BY DEF rp
<1> QED BY <1>1, Untouched DEF IInv, Commands

LEMMA CallsKeep == ASSUME IInv, Ask \/ SetDta \/ Fread \/ Fwrite \/ Reboot PROVE IInv'
<1> USE DEF IInv, Commands, SearchKeys
<1>1. CmdOK(NoCmd) BY DEF CmdOK, NoCmd
<1>2. UNCHANGED rp BY DEF Ask, SetDta, Fread, Fwrite, Reboot
<1>3. CASE Ask
  <2>1. \A p \in Paths, m \in OpenModes : CmdOK([Path("fopen", p) EXCEPT !.mode = m])
    BY GemAssumption DEF CmdOK, NoCmd, Path
  <2>2. \A p \in Paths : CmdOK([Path("fcreate", p) EXCEPT !.mode = "rw"]) /\ CmdOK(Path("fdelete", p))
    BY DEF CmdOK, NoCmd, Path, Modes
  <2>3. \A p, q \in Paths : CmdOK([Path("frename", p) EXCEPT !.to = q])
    BY DEF CmdOK, NoCmd, Path
  <2>4. \A p : CmdOK([Path("fsfirst", p) EXCEPT !.key = tosDta])
    BY DEF CmdOK, NoCmd, Path
  <2>5. \A h : CmdOK(Handle("fclose", h))
    BY DEF CmdOK, NoCmd, Handle
  <2>6. CmdOK([NoCmd EXCEPT !.kind = "fsnext", !.key = tosDta])
    BY DEF CmdOK, NoCmd
  <2>7. CmdOK(cmd') /\ late' = late
    <3>1. CASE AskPath BY <2>1, <2>2, <2>3, <2>4, <3>1, Zenon DEF AskPath, Send
    <3>2. CASE AskHandle
      <4>1. PICK h \in DOMAIN owned :
              \/ Send(Handle("fclose", h))
              \/ \E s \in Seeks : Send([Handle("fseek", h) EXCEPT !.mode = s[1], !.n = s[2]])
        BY <3>2 DEF AskHandle
      <4>2. CASE Send(Handle("fclose", h)) BY <2>5, <4>2, Zenon DEF Send
      <4>3. CASE \E s \in Seeks : Send([Handle("fseek", h) EXCEPT !.mode = s[1], !.n = s[2]])
        <5>1. PICK s \in Seeks : Send([Handle("fseek", h) EXCEPT !.mode = s[1], !.n = s[2]])
          BY <4>3
        <5>2. CmdOK([Handle("fseek", h) EXCEPT !.mode = s[1], !.n = s[2]])
          BY DEF CmdOK, NoCmd, Handle
        <5> QED BY <5>1, <5>2, Zenon DEF Send
      <4> QED BY <4>1, <4>2, <4>3
    <3>3. CASE AskNext BY <2>6, <3>3, Zenon DEF AskNext, Send
    <3> QED BY <1>3, <3>1, <3>2, <3>3 DEF Ask
  <2>8. UNCHANGED <<tosDta, found>> BY <1>3 DEF Ask, atari
  <2> QED BY <1>2, <2>7, <2>8, AtariKeeps
<1>4. CASE SetDta
  <2>1. PICK k \in Keys : /\ tosDta' = k
                          /\ \/ Send([NoCmd EXCEPT !.kind = "fsetdta", !.key = k])
                             \/ UNCHANGED link
    BY <1>4 DEF SetDta
  <2>2. CmdOK([NoCmd EXCEPT !.kind = "fsetdta", !.key = k]) BY DEF CmdOK, NoCmd
  <2>3. CmdOK(cmd') /\ CmdOK(late') BY <2>1, <2>2 DEF Send, link
  <2> QED BY <1>2, <1>4, <2>1, <2>3, AtariKeeps DEF SetDta
<1>5. CASE Fread
  <2>1. PICK h \in DOMAIN owned, n \in Asked : Send(AskChunk(h, n)) BY <1>5 DEF Fread
  <2>2. CmdOK(AskChunk(h, n)) BY DEF AskChunk, Handle, CmdOK, NoCmd
  <2> QED BY <1>2, <1>5, <2>1, <2>2, AtariKeeps DEF Fread, Send
<1>6. CASE Fwrite
  <2>1. PICK h \in DOMAIN owned, b \in Data : Send(SendChunk(h, b)) BY <1>6 DEF Fwrite
  <2>2. CmdOK(SendChunk(h, b)) BY DEF SendChunk, Handle, CmdOK, NoCmd
  <2> QED BY <1>2, <1>6, <2>1, <2>2, AtariKeeps DEF Fwrite, Send
<1>7. CASE Reboot
  <2>1. CmdOK([NoCmd EXCEPT !.kind = "reset"]) BY DEF CmdOK, NoCmd
  <2>2. (CHOOSE k \in Keys : TRUE) \in Keys BY GemAssumption
  <2> QED BY <1>1, <1>2, <1>7, <2>1, <2>2, AtariKeeps DEF Reboot
<1> QED BY <1>3, <1>4, <1>5, <1>6, <1>7

LEMMA DriverKeeps == ASSUME IInv, Driver PROVE IInv'
<1> USE DEF IInv, Commands, SearchKeys
<1>1. CmdOK(NoCmd) BY DEF CmdOK, NoCmd
<1>2. UNCHANGED <<rp, tosDta>>
  BY DEF Driver, HandleReturns, SeekReturns, SearchReturns, StatusReturns, ReadChunk, WriteChunk,
     CallReturns, rp, atari
<1>3. CASE HandleReturns \/ SeekReturns \/ StatusReturns
  BY <1>1, <1>2, <1>3, AtariKeeps DEF HandleReturns, SeekReturns, StatusReturns, Answered, atari
<1>4. CASE SearchReturns
  <2>1. cmd.key \in Keys BY <1>4 DEF SearchReturns, Back, CmdOK
  <2>2. CmdOK([NoCmd EXCEPT !.kind = "dtarelease", !.key = cmd.key]) BY <2>1 DEF CmdOK, NoCmd
  <2>3. CmdOK(cmd') /\ CmdOK(late') BY <1>1, <1>4, <2>2 DEF SearchReturns, Answered
  <2>4. found' \subseteq Keys BY <1>4, <2>1 DEF SearchReturns
  <2> QED BY <1>2, <2>3, <2>4, AtariKeeps
<1>5. CASE ReadChunk
  <2>1. \A h, n : CmdOK(AskChunk(h, n)) BY DEF AskChunk, Handle, CmdOK, NoCmd
  <2>2. CmdOK(cmd') /\ CmdOK(late') BY <1>1, <1>5, <2>1, Zenon DEF ReadChunk, GoOn, Answered
  <2> QED BY <1>2, <1>5, <2>2, AtariKeeps DEF ReadChunk
<1>6. CASE WriteChunk
  <2>1. \A h, b : CmdOK(SendChunk(h, b)) BY DEF SendChunk, Handle, CmdOK, NoCmd
  <2>2. CmdOK(cmd') /\ CmdOK(late') BY <1>1, <1>6, <2>1, Zenon DEF WriteChunk, GoOn, Answered
  <2> QED BY <1>2, <1>6, <2>2, AtariKeeps DEF WriteChunk
<1>7. CASE CallReturns BY <1>2, <1>7, AtariKeeps DEF CallReturns, link
<1> QED BY <1>3, <1>4, <1>5, <1>6, <1>7 DEF Driver
-----------------------------------------------------------------------------
LEMMA InitInv == Init => IInv
<1> SUFFICES ASSUME Init PROVE IInv OBVIOUS
<1>1. CmdOK(NoCmd) BY DEF CmdOK, NoCmd
<1>2. DOMAIN fds = {} /\ DOMAIN dtas = {} /\ open = {} BY DEF Init
<1>3. tosDta \in Keys /\ found = {} BY GemAssumption DEF Init
<1> QED BY <1>1, <1>2, <1>3 DEF Init, IInv, Commands, SearchKeys, Tables, EachHolds, EachHeld,
           ExclusiveWriter, OpenFileExists

LEMMA StutterKeeps == ASSUME IInv, UNCHANGED vars PROVE IInv'
BY AtariKeeps DEF vars, link, atari, IInv, Commands, SearchKeys

LEMMA Inductive == Spec => []IInv
<1>1. Init => IInv BY InitInv
<1>2. IInv /\ [Next]_vars => IInv'
  BY RpKeeps, CallsKeep, DriverKeeps, StutterKeeps DEF Next
<1> QED BY <1>1, <1>2, PTL DEF Spec

\* For any size of FatFs' lock table: an entry belongs to a descriptor, to an open
\* search, or to a file for writing that the card refused to close, at a reset or
\* when there was no memory for its descriptor.  A card that refuses nothing leaves
\* no entry behind.
THEOREM LocksOwned == Spec => []LocksMatch
<1>1. IInv => LocksMatch BY PointwiseLocks DEF IInv
<1> QED BY <1>1, Inductive, PTL

\* Whatever commands run twice, a file is never open for writing and open again.
THEOREM WriterAlone == Spec => []ExclusiveWriter
<1>1. IInv => ExclusiveWriter BY DEF IInv
<1> QED BY <1>1, Inductive, PTL

\* Fdelete, Frename and Fcreate, by any program, never take an open file away.
THEOREM OpenStays == Spec => []OpenFileExists
<1>1. IInv => OpenFileExists BY DEF IInv
<1> QED BY <1>1, Inductive, PTL
-----------------------------------------------------------------------------
(* What programs get: handles, positions, data                              *)

\* The commands that may run twice: the others hand out or take back a handle, or
\* move on from where they are.
Harmless == Repeats \subseteq {"fdelete", "frename", "fseek", "fsetdta", "dtarelease", "fsfirst", "reset"}
Once     == {"fopen", "fcreate", "fclose", "readbuff", "writebuff", "fsnext"}
Transfer == {"readbuff", "writebuff"}

Nodes == [path : Paths, mode : Modes, offset : Nat, ptr : Int, err : BOOLEAN]
Held  == [path : Paths, pos : Nat]

\* An offset that an Fseek before the begin of the file has left.
Beyond(n) == LongMod <= 2 * n /\ n < LongMod

FilesOK == /\ DOMAIN files \subseteq Paths
           /\ \A p \in DOMAIN files : files[p] \in Seq(Nat) /\ Len(files[p]) <= MaxSize

\* The FIL is where the descriptor says, or at the end of the file, or will be told.
NodePlaced(f, size) == /\ f \in Nodes /\ (f.offset <= size \/ Beyond(f.offset))
                       /\ f.ptr \in {Unsought, Least(f.offset, size)}
Placed == \A h \in DOMAIN fds : NodePlaced(fds[h], Len(files[fds[h].path]))

Exchange ==
  /\ phase \in {"idle", "sent", "ran"}
  /\ phase = "idle" => cmd = NoCmd
  /\ phase = "ran" => late \in {cmd, NoCmd}
  /\ late = NoCmd \/ Tag(late) \in Repeats
  /\ phase = "sent" /\ cmd.kind = "reset" => late = NoCmd

Asking ==
  /\ \A h \in DOMAIN owned : owned[h] \in Held
  /\ cmd.kind \in {"fclose", "fseek"} => cmd.fd \in DOMAIN owned
  /\ cmd.kind = "fseek" => <<cmd.mode, cmd.n>> \in Seeks
  /\ cmd.kind = "reset" => DOMAIN owned = {} /\ found = {} /\ call.kind = "none"
  /\ cmd.kind = "dtarelease" => cmd.key \notin found

\* The handles the programs will hold when the command has returned.
Due ==
  IF phase # "ran" THEN owned
  ELSE IF cmd.kind \in Transfer THEN [owned EXCEPT ![call.fd].pos = @ + ans.n]
  ELSE IF ans.code # "EOK" THEN owned
  ELSE IF cmd.kind \in {"fopen", "fcreate"} THEN With(owned, ans.n, [path |-> cmd.path, pos |-> 0])
  ELSE IF cmd.kind = "fclose" THEN Without(owned, cmd.fd)
  ELSE IF cmd.kind = "fseek" THEN [owned EXCEPT ![cmd.fd].pos = ans.n]
  ELSE owned

SameHandles(o) == /\ DOMAIN fds = DOMAIN o
                  /\ \A h \in DOMAIN o : fds[h].path = o[h].path /\ fds[h].offset = o[h].pos
Agree == SameHandles(Due) \/ (phase = "sent" /\ cmd.kind = "reset")

\* The DTAs a program will go on with when the command has returned.
FoundDue ==
  IF phase = "ran" /\ cmd.kind \in {"fsfirst", "fsnext"}
  THEN IF ans.code = "EOK" THEN found \cup {cmd.key} ELSE found \ {cmd.key}
  ELSE found
Live(k)  == k \in DOMAIN dtas /\ dtas[k]
Searches == \A k \in FoundDue : Live(k)

\* Fsfirst finds a file and can open its folder, once the DTA's search is released.
HitIn(locks, card, k, path) ==
  LET objects == {x.obj : x \in {y \in locks : y.by # k}}
  IN /\ Folder \in objects \/ Cardinality(objects) < LockSize
     /\ (IF path = NoPath THEN DOMAIN card ELSE DOMAIN card \cap {path}) # {}
Hit(c) == HitIn(open, files, c.key, c.path)

\* SeekOffset, of the size of the file and the offset so far.
SeekTo(size, offset, mode, n) ==
  LET from == Signed(offset)
  IN CASE mode = "set" -> IF Exceeds(n, size) THEN size ELSE n
       [] mode = "cur" -> IF n < 0 THEN (IF from + n < 0 THEN 0 ELSE from + n)
                          ELSE IF Exceeds(from + n, size) THEN size ELSE from + n
       [] mode = "end" -> IF n <= 0 THEN (size + n) % LongMod ELSE size

\* To run the command before once more changes nothing that matters.
LateSeek ==
  late.kind = "fseek" /\ late.fd \in DOMAIN fds =>
    fds[late.fd].offset =
      SeekTo(Len(files[fds[late.fd].path]), fds[late.fd].offset, late.mode, late.n)
LateSearch == late.kind = "fsfirst" /\ Live(late.key) => Hit(late)
LateCommand ==
  /\ late.kind = "fseek" => <<late.mode, late.n>> \in Seeks /\ late.mode # "cur"
  /\ late.kind = "dtarelease" => late.key \notin found
  /\ late.kind = "reset" => DOMAIN owned = {} /\ found = {} /\ call.kind = "none"

Busy == call.kind # "none" /\ ~call.over

Calling ==
  /\ call.kind \in {"none", "read", "write"} /\ DOMAIN call = DOMAIN NoCall
  /\ call.kind = "none" => call = NoCall /\ cmd.kind \notin Transfer
  /\ call.kind # "none" /\ call.over => phase = "idle"
  /\ call.kind # "none" => call.fd \in DOMAIN owned /\ owned[call.fd].pos = call.start + call.done
  /\ call.kind = "read" /\ Busy => phase # "idle" /\ cmd = AskChunk(call.fd, call.left)
  /\ call.kind = "write" /\ Busy => phase # "idle" /\ cmd = SendChunk(call.fd, Rest(0))

File == files[owned[call.fd].path]

Reading == call.kind = "read" =>
  LET b == call.before
      at == call.start + call.done
  IN /\ b \in Seq(Nat) /\ call.start \in Nat /\ call.done \in Nat /\ call.left \in Nat
     /\ \/ File = b /\ at <= Len(b)
        \/ Len(b) < call.start /\ Beyond(call.start) /\ call.done = 0
     /\ call.data = SubSeq(b, call.start + 1, at)
     /\ call.over /\ call.code = "EOK" => call.left = 0 \/ at >= Len(b)
     /\ phase = "ran" =>
          IF ans.code = "EOK"
          THEN /\ ans.n \in 0 .. Least(call.left, ReadSize)
               /\ ans.n = 0 \/ at + ans.n <= Len(b)
               /\ ans.n = Least(call.left, ReadSize) \/ at + ans.n >= Len(b)
               /\ ans.bytes = SubSeq(b, at + 1, at + ans.n)
          ELSE ans.n = 0 /\ ans.bytes = <<>>

Stored == IF phase = "ran" THEN call.done + ans.n ELSE call.done
Writing == call.kind = "write" =>
  /\ call.before \in Seq(Nat) /\ call.data \in Seq(Nat) /\ call.start \in Nat /\ call.done \in Nat
  /\ call.start <= Len(call.before) /\ call.start + Len(call.data) <= MaxSize
  /\ Stored \in 0 .. Len(call.data) /\ (phase = "ran" => ans.n \in Nat)
  /\ File = Overwritten(call.before, call.start, SubSeq(call.data, 1, Stored))
  /\ call.over => call.done = Len(call.data)

Services == /\ FilesOK /\ Placed /\ Exchange /\ Asking /\ Agree /\ Searches
            /\ LateSeek /\ LateSearch /\ LateCommand /\ Calling /\ Reading /\ Writing
-----------------------------------------------------------------------------
(* What the operators on positions and contents do                          *)

LEMMA FuncIsSeq ==
  ASSUME NEW S, NEW n \in Nat, NEW s \in [1 .. n -> S]
  PROVE  s \in Seq(S) /\ Len(s) = n
<1>1. s \in Seq(S) BY SeqDef
<1>2. DOMAIN s = 1 .. Len(s) /\ Len(s) \in Nat BY <1>1, LenProperties
<1>3. 1 .. n = 1 .. Len(s) BY <1>2
<1> QED BY <1>1, <1>2, <1>3

LEMMA LeastIs ==
  ASSUME NEW m \in Int, NEW n \in Int
  PROVE  /\ Least(m, n) \in {m, n} /\ Least(m, n) <= m /\ Least(m, n) <= n
         /\ m <= n => Least(m, n) = m
         /\ n <= m => Least(m, n) = n
BY DEF Least

LEMMA Wrapped ==
  ASSUME NEW x \in Int, -LongMod <= x, x < LongMod
  PROVE  x % LongMod = IF x < 0 THEN x + LongMod ELSE x
<1>1. LongMod \in Nat /\ LongMod > 0 BY GemAssumption
<1> QED BY <1>1

\* An Fseek leaves the position in the file, at its end, or huge.
LEMMA SeekOffsetIs ==
  ASSUME NEW f, NEW mode, NEW n, <<mode, n>> \in Seeks, Len(files[f.path]) \in 0 .. MaxSize,
         f.offset \in Nat, f.offset <= Len(files[f.path]) \/ Beyond(f.offset)
  PROVE  LET to == SeekOffset(f, mode, n)
         IN to \in Nat /\ (to <= Len(files[f.path]) \/ Beyond(to))
<1> DEFINE size == Len(files[f.path])
           to == SeekOffset(f, mode, n)
           from == Signed(f.offset)
<1>1. /\ mode \in {"set", "cur", "end"} /\ n \in Int /\ -LongMod <= 2 * n /\ 2 * n < LongMod
      /\ size \in Nat /\ 2 * size < LongMod /\ LongMod \in Nat
  BY GemAssumption
<1>2. from \in Int /\ from <= size
  <2>1. CASE f.offset <= size BY <1>1, <2>1 DEF Signed
  <2>2. CASE Beyond(f.offset) BY <1>1, <2>2 DEF Signed, Beyond
  <2> QED BY <2>1, <2>2
<1> HIDE DEF from
<1>3. CASE mode = "set"
  <2>1. to = IF Exceeds(n, size) THEN size ELSE n BY <1>3 DEF SeekOffset
  <2> QED BY <1>1, <2>1 DEF Exceeds
<1>4. CASE mode = "cur"
  <2>1. to = IF n < 0 THEN (IF from + n < 0 THEN 0 ELSE from + n)
             ELSE IF Exceeds(from + n, size) THEN size ELSE from + n
    BY <1>4 DEF SeekOffset, from
  <2> QED BY <1>1, <1>2, <2>1 DEF Exceeds
<1>5. CASE mode = "end"
  <2>1. to = IF n <= 0 THEN (size + n) % LongMod ELSE size BY <1>5 DEF SeekOffset
  <2> DEFINE x == size + n
  <2>2. x \in Int /\ -LongMod <= 2 * x /\ x < LongMod BY <1>1
  <2>3. x % LongMod = IF x < 0 THEN x + LongMod ELSE x
    <3> HIDE DEF x
    <3>1. -LongMod <= x BY <1>1, <2>2
    <3> QED BY <2>2, <3>1, Wrapped
  <2>4. CASE n <= 0
    <3>1. to = x % LongMod BY <2>1, <2>4
    <3>2. to = IF size + n < 0 THEN size + n + LongMod ELSE size + n BY <2>3, <3>1
    <3> HIDE DEF to
    <3>3. to \in Nat /\ (to <= size \/ Beyond(to)) BY <1>1, <2>2, <2>4, <3>2 DEF Beyond
    <3> QED BY <3>3 DEF to
  <2>5. CASE ~(n <= 0) BY <1>1, <2>1, <2>5
  <2> QED BY <2>4, <2>5
<1> QED BY <1>1, <1>3, <1>4, <1>5

LEMMA SeekOffsetTo ==
  ASSUME NEW f, NEW mode, NEW n
  PROVE  SeekOffset(f, mode, n) = SeekTo(Len(files[f.path]), f.offset, mode, n)
BY DEF SeekOffset, SeekTo

\* Only a relative Fseek depends on where the descriptor is.
LEMMA SeekTwice ==
  ASSUME NEW size, NEW x, NEW y, NEW mode \in {"set", "end"}, NEW n
  PROVE  SeekTo(size, x, mode, n) = SeekTo(size, y, mode, n)
BY DEF SeekTo

\* f_lseek and syncFileOffsetIfNeeded: the content keeps its begin, and the FIL's
\* pointer is at the offset or at the end of the file.
LEMMA SyncedIs ==
  ASSUME FilesOK, NEW f, f.path \in DOMAIN files, NodePlaced(f, Len(files[f.path]))
  PROVE  LET s == Synced(f)
             size == Len(files[f.path])
         IN /\ s.content \in Seq(Nat) /\ Len(s.content) \in size .. MaxSize
            /\ s.at \in Nat /\ s.at = Least(f.offset, Len(s.content))
            /\ f.mode = "r" \/ f.offset <= size => s.content = files[f.path]
<1> DEFINE s == Synced(f)
           size == Len(files[f.path])
           upto == IF f.mode = "r" \/ f.offset <= size THEN size ELSE Least(f.offset, MaxSize)
           grown == [i \in 1 .. upto |-> IF i <= size THEN files[f.path][i] ELSE Junk]
<1>1. /\ files[f.path] \in Seq(Nat) /\ size \in 0 .. MaxSize /\ f.offset \in Nat /\ f.ptr \in Int
      /\ f.ptr \in {Unsought, Least(f.offset, size)} /\ MaxSize \in Nat /\ Junk \in Nat
  BY GemAssumption, LenProperties DEF FilesOK, NodePlaced, Nodes
<1>2. files[f.path] \in [1 .. size -> Nat] BY <1>1, LenProperties
<1>3. Least(f.offset, size) \in Nat BY <1>1 DEF Least
<1>4. CASE f.ptr # Unsought
  <2>1. s.content = files[f.path] /\ s.at = f.ptr BY <1>4 DEF Synced
  <2> QED BY <1>1, <1>3, <1>4, <2>1
<1>5. CASE f.ptr = Unsought
  <2>1. s = [content |-> grown, at |-> Least(f.offset, upto)] BY <1>5 DEF Synced, Sought
  <2>2. upto \in size .. MaxSize BY <1>1 DEF Least
  <2>3. grown \in [1 .. upto -> Nat] BY <1>1, <1>2, <2>2
  <2>4. grown \in Seq(Nat) /\ Len(grown) = upto BY <2>2, <2>3, FuncIsSeq
  <2>5. f.mode = "r" \/ f.offset <= size => grown = files[f.path]
    <3>1. SUFFICES ASSUME f.mode = "r" \/ f.offset <= size PROVE grown = files[f.path] OBVIOUS
    <3>2. upto = size BY <3>1
    <3>3. grown = [i \in 1 .. size |-> files[f.path][i]] BY <1>1, <3>2
    <3> QED BY <1>2, <3>3
  <2>6. Least(f.offset, upto) \in Nat BY <1>1, <2>2 DEF Least
  <2> HIDE DEF grown, upto
  <2> QED BY <1>1, <2>1, <2>2, <2>4, <2>5, <2>6
<1> QED BY <1>4, <1>5

LEMMA PartIs ==
  ASSUME NEW S, NEW s \in Seq(S), NEW m \in 1 .. Len(s) + 1, NEW n \in m - 1 .. Len(s)
  PROVE  /\ SubSeq(s, m, n) \in Seq(S) /\ Len(SubSeq(s, m, n)) = n - m + 1
         /\ \A i \in 1 .. n - m + 1 : SubSeq(s, m, n)[i] = s[m + i - 1]
<1>1. Len(s) \in Nat BY LenProperties
<1>2. \A i \in m .. n : s[i] \in S BY <1>1, ElementOfSeq
<1> QED BY <1>1, <1>2, SubSeqProperties

\* The first n bytes of the chunk that is sent after k bytes are stored.
LEMMA ChunkIs ==
  ASSUME NEW d \in Seq(Nat), NEW k \in 0 .. Len(d), NEW w \in 0 .. Len(d) - k, NEW n \in 0 .. w
  PROVE  LET rest == SubSeq(d, k + 1, Len(d))
         IN /\ Len(rest) = Len(d) - k /\ Len(SubSeq(rest, 1, w)) = w
            /\ SubSeq(SubSeq(rest, 1, w), 1, n) = SubSeq(d, k + 1, k + n)
<1> DEFINE rest == SubSeq(d, k + 1, Len(d))
           b == SubSeq(rest, 1, w)
<1>1. Len(d) \in Nat BY LenProperties
<1>2. /\ rest \in Seq(Nat) /\ Len(rest) = Len(d) - k
      /\ \A i \in 1 .. Len(d) - k : rest[i] = d[k + i]
  <2>1. k + 1 \in 1 .. Len(d) + 1 /\ Len(d) \in (k + 1) - 1 .. Len(d) BY <1>1
  <2>2. /\ rest \in Seq(Nat) /\ Len(rest) = Len(d) - (k + 1) + 1
        /\ \A i \in 1 .. Len(d) - (k + 1) + 1 : rest[i] = d[(k + 1) + i - 1]
    BY <2>1, PartIs
  <2> QED BY <1>1, <2>2
<1> HIDE DEF rest
<1>3. b \in Seq(Nat) /\ Len(b) = w /\ \A i \in 1 .. w : b[i] = rest[i]
  <2>1. 1 \in 1 .. Len(rest) + 1 /\ w \in 1 - 1 .. Len(rest) BY <1>1, <1>2
  <2>2. b \in Seq(Nat) /\ Len(b) = w - 1 + 1 /\ \A i \in 1 .. w - 1 + 1 : b[i] = rest[1 + i - 1]
    BY <1>2, <2>1, PartIs
  <2> QED BY <2>2
<1> HIDE DEF b
<1>4. /\ SubSeq(b, 1, n) \in Seq(Nat) /\ Len(SubSeq(b, 1, n)) = n
      /\ \A i \in 1 .. n : SubSeq(b, 1, n)[i] = b[i]
  <2>1. 1 \in 1 .. Len(b) + 1 /\ n \in 1 - 1 .. Len(b) BY <1>3
  <2>2. /\ SubSeq(b, 1, n) \in Seq(Nat) /\ Len(SubSeq(b, 1, n)) = n - 1 + 1
        /\ \A i \in 1 .. n - 1 + 1 : SubSeq(b, 1, n)[i] = b[1 + i - 1]
    BY <1>3, <2>1, PartIs
  <2> QED BY <2>2
<1>5. /\ SubSeq(d, k + 1, k + n) \in Seq(Nat) /\ Len(SubSeq(d, k + 1, k + n)) = n
      /\ \A i \in 1 .. n : SubSeq(d, k + 1, k + n)[i] = d[k + i]
  <2>1. k + 1 \in 1 .. Len(d) + 1 /\ k + n \in (k + 1) - 1 .. Len(d) BY <1>1
  <2>2. /\ SubSeq(d, k + 1, k + n) \in Seq(Nat)
        /\ Len(SubSeq(d, k + 1, k + n)) = (k + n) - (k + 1) + 1
        /\ \A i \in 1 .. (k + n) - (k + 1) + 1 : SubSeq(d, k + 1, k + n)[i] = d[(k + 1) + i - 1]
    BY <2>1, PartIs
  <2> QED BY <1>1, <2>2
<1>6. ASSUME NEW i \in 1 .. n PROVE SubSeq(b, 1, n)[i] = SubSeq(d, k + 1, k + n)[i]
  <2>1. i \in 1 .. w /\ i \in 1 .. Len(d) - k BY <1>1
  <2> QED BY <1>2, <1>3, <1>4, <1>5, <2>1
<1>7. SubSeq(b, 1, n) = SubSeq(d, k + 1, k + n) BY <1>4, <1>5, <1>6, SeqEqual
<1> QED BY <1>2, <1>3, <1>7 DEF rest, b

\* What Overwritten(s, at, b) is, and that there is one such sequence only.
Overwrites(o, s, at, b) ==
  /\ o \in Seq(Nat)
  /\ Len(o) = IF at + Len(b) > Len(s) THEN at + Len(b) ELSE Len(s)
  /\ \A i \in 1 .. Len(o) : o[i] = IF i > at /\ i <= at + Len(b) THEN b[i - at] ELSE s[i]

LEMMA OverwrittenIs ==
  ASSUME NEW s \in Seq(Nat), NEW at \in 0 .. Len(s), NEW b \in Seq(Nat)
  PROVE  Overwrites(Overwritten(s, at, b), s, at, b)
<1> DEFINE o == Overwritten(s, at, b)
           size == IF at + Len(b) > Len(s) THEN at + Len(b) ELSE Len(s)
<1>1. Len(s) \in Nat /\ Len(b) \in Nat BY LenProperties
<1>2. \A i \in 1 .. Len(s) : s[i] \in Nat BY ElementOfSeq
<1>3. \A i \in 1 .. Len(b) : b[i] \in Nat BY ElementOfSeq
<1>4. o = [i \in 1 .. size |-> IF i \in at + 1 .. at + Len(b) THEN b[i - at] ELSE s[i]]
  BY DEF Overwritten
<1>5. size \in Nat BY <1>1
<1>6. o \in [1 .. size -> Nat]
  <2>1. SUFFICES ASSUME NEW i \in 1 .. size
        PROVE  (IF i \in at + 1 .. at + Len(b) THEN b[i - at] ELSE s[i]) \in Nat
    BY <1>4
  <2>2. CASE i \in at + 1 .. at + Len(b)
    <3>1. i - at \in 1 .. Len(b) BY <1>1, <2>2
    <3> QED BY <1>3, <2>2, <3>1
  <2>3. CASE i \notin at + 1 .. at + Len(b)
    <3>1. i \in 1 .. Len(s) BY <1>1, <2>3
    <3> QED BY <1>2, <2>3, <3>1
  <2> QED BY <2>2, <2>3
<1>7. o \in Seq(Nat) /\ Len(o) = size BY <1>5, <1>6, FuncIsSeq
<1>8. ASSUME NEW i \in 1 .. size
      PROVE  o[i] = IF i > at /\ i <= at + Len(b) THEN b[i - at] ELSE s[i]
  <2>1. i \in at + 1 .. at + Len(b) <=> i > at /\ i <= at + Len(b) BY <1>1, <1>5
  <2> QED BY <1>4, <2>1
<1> HIDE DEF o
<1>9. Overwrites(o, s, at, b) BY <1>7, <1>8 DEF Overwrites
<1> QED BY <1>9 DEF o

LEMMA OverwriteOnce ==
  ASSUME NEW s, NEW at, NEW b, NEW o, NEW p, Overwrites(o, s, at, b), Overwrites(p, s, at, b)
  PROVE  o = p
<1>1. o \in Seq(Nat) /\ p \in Seq(Nat) /\ Len(o) = Len(p) BY DEF Overwrites
<1>2. \A i \in 1 .. Len(o) : o[i] = p[i] BY <1>1 DEF Overwrites
<1> QED BY <1>1, <1>2, SeqEqual

LEMMA OverwriteNothing ==
  ASSUME NEW s \in Seq(Nat), NEW at \in 0 .. Len(s) PROVE Overwritten(s, at, <<>>) = s
<1>1. Len(s) \in Nat BY LenProperties
<1>2. <<>> \in Seq(Nat) /\ Len(<<>>) = 0 BY EmptySeq
<1>3. Overwrites(s, s, at, <<>>)
  <2>1. Len(s) = IF at + Len(<<>>) > Len(s) THEN at + Len(<<>>) ELSE Len(s) BY <1>1, <1>2
  <2>2. \A i \in 1 .. Len(s) : ~(i > at /\ i <= at + Len(<<>>)) BY <1>1, <1>2
  <2> QED BY <2>1, <2>2 DEF Overwrites
<1>4. Overwrites(Overwritten(s, at, <<>>), s, at, <<>>) BY <1>2, OverwrittenIs
<1> QED BY <1>3, <1>4, OverwriteOnce

\* Two chunks, one after the other, are one.
LEMMA OverwriteMore ==
  ASSUME NEW s \in Seq(Nat), NEW at \in 0 .. Len(s), NEW d \in Seq(Nat),
         NEW k \in 0 .. Len(d), NEW n \in 0 .. Len(d) - k
  PROVE  LET o == Overwritten(s, at, SubSeq(d, 1, k))
         IN /\ o \in Seq(Nat) /\ at + k <= Len(o)
            /\ Overwritten(o, at + k, SubSeq(d, k + 1, k + n))
                 = Overwritten(s, at, SubSeq(d, 1, k + n))
<1> DEFINE b == SubSeq(d, 1, k)
           c == SubSeq(d, k + 1, k + n)
           e == SubSeq(d, 1, k + n)
           o == Overwritten(s, at, b)
           p == Overwritten(o, at + k, c)
<1>1. Len(s) \in Nat /\ Len(d) \in Nat /\ at \in Nat /\ k \in Nat /\ n \in Nat /\ k + n <= Len(d)
  BY LenProperties
<1>2. b \in Seq(Nat) /\ Len(b) = k /\ \A i \in 1 .. k : b[i] = d[i]
  <2>1. 1 \in 1 .. Len(d) + 1 /\ k \in 1 - 1 .. Len(d) BY <1>1
  <2>2. b \in Seq(Nat) /\ Len(b) = k - 1 + 1 /\ \A i \in 1 .. k - 1 + 1 : b[i] = d[1 + i - 1]
    BY <2>1, PartIs
  <2> QED BY <1>1, <2>2
<1>3. c \in Seq(Nat) /\ Len(c) = n /\ \A i \in 1 .. n : c[i] = d[k + i]
  <2>1. k + 1 \in 1 .. Len(d) + 1 /\ k + n \in (k + 1) - 1 .. Len(d) BY <1>1
  <2>2. /\ c \in Seq(Nat) /\ Len(c) = (k + n) - (k + 1) + 1
        /\ \A i \in 1 .. (k + n) - (k + 1) + 1 : c[i] = d[(k + 1) + i - 1]
    BY <2>1, PartIs
  <2> QED BY <1>1, <2>2
<1>4. e \in Seq(Nat) /\ Len(e) = k + n /\ \A i \in 1 .. k + n : e[i] = d[i]
  <2>1. 1 \in 1 .. Len(d) + 1 /\ k + n \in 1 - 1 .. Len(d) BY <1>1
  <2>2. /\ e \in Seq(Nat) /\ Len(e) = (k + n) - 1 + 1
        /\ \A i \in 1 .. (k + n) - 1 + 1 : e[i] = d[1 + i - 1]
    BY <2>1, PartIs
  <2> QED BY <1>1, <2>2
<1> HIDE DEF b, c, e
<1>5. Overwrites(o, s, at, b) BY <1>2, OverwrittenIs
<1> HIDE DEF o
<1>6. /\ o \in Seq(Nat) /\ Len(o) = IF at + k > Len(s) THEN at + k ELSE Len(s)
      /\ \A i \in 1 .. Len(o) : o[i] = IF i > at /\ i <= at + k THEN b[i - at] ELSE s[i]
  BY <1>2, <1>5 DEF Overwrites
<1>7. at + k \in 0 .. Len(o) /\ at + k <= Len(o) BY <1>1, <1>6
<1>8. Overwrites(p, o, at + k, c) BY <1>3, <1>6, <1>7, OverwrittenIs
<1> HIDE DEF p
<1>9. /\ p \in Seq(Nat) /\ Len(p) = IF at + k + n > Len(o) THEN at + k + n ELSE Len(o)
      /\ \A i \in 1 .. Len(p) :
           p[i] = IF i > at + k /\ i <= at + k + n THEN c[i - (at + k)] ELSE o[i]
  BY <1>3, <1>8 DEF Overwrites
<1>10. /\ Len(o) = IF at + k > Len(s) THEN at + k ELSE Len(s)
       /\ Len(p) = IF at + (k + n) > Len(s) THEN at + (k + n) ELSE Len(s)
  <2>1. Len(o) = IF at + k > Len(s) THEN at + k ELSE Len(s) BY <1>6
  <2>2. Len(p) = IF at + k + n > Len(o) THEN at + k + n ELSE Len(o) BY <1>9
  <2>3. CASE at + k > Len(s)
    <3>1. Len(o) = at + k BY <2>1, <2>3
    <3>2. Len(p) = IF at + k + n > at + k THEN at + k + n ELSE at + k BY <2>2, <3>1
    <3>3. Len(p) = at + (k + n) /\ at + (k + n) > Len(s) BY <1>1, <2>3, <3>2
    <3> QED BY <2>1, <3>3
  <2>4. CASE ~(at + k > Len(s))
    <3>1. Len(o) = Len(s) BY <2>1, <2>4
    <3>2. Len(p) = IF at + k + n > Len(s) THEN at + k + n ELSE Len(s) BY <2>2, <3>1
    <3>3. at + k + n = at + (k + n) BY <1>1
    <3> QED BY <2>1, <3>2, <3>3
  <2> QED BY <2>3, <2>4
<1>11. ASSUME NEW i \in 1 .. Len(p)
       PROVE  p[i] = IF i > at /\ i <= at + (k + n) THEN e[i - at] ELSE s[i]
  <2>1. i \in Nat /\ i > 0 /\ i <= Len(p) BY <1>1, <1>10
  <2>2. CASE i <= at \/ i > at + k + n
    <3>1. i \in 1 .. Len(o) /\ ~(i > at /\ i <= at + (k + n)) /\ ~(i > at + k /\ i <= at + k + n)
          /\ ~(i > at /\ i <= at + k)
      BY <1>1, <1>10, <2>1, <2>2
    <3> QED BY <1>6, <1>9, <3>1
  <2>3. CASE i > at /\ i <= at + k
    <3>1. i - at \in 1 .. k /\ i - at \in 1 .. k + n /\ i \in 1 .. Len(o) /\ ~(i > at + k)
          /\ i <= at + (k + n)
      BY <1>1, <1>6, <2>1, <2>3
    <3>2. p[i] = o[i] BY <1>9, <3>1
    <3>3. o[i] = b[i - at] BY <1>6, <2>3, <3>1
    <3>4. b[i - at] = e[i - at] BY <1>2, <1>4, <3>1
    <3> QED BY <2>3, <3>1, <3>2, <3>3, <3>4
  <2>4. CASE i > at + k /\ i <= at + k + n
    <3>1. i - (at + k) \in 1 .. n /\ i - at \in 1 .. k + n /\ k + (i - (at + k)) = i - at
          /\ i > at /\ i <= at + (k + n)
      BY <1>1, <2>1, <2>4
    <3>2. p[i] = c[i - (at + k)] BY <1>9, <2>4
    <3>3. c[i - (at + k)] = e[i - at] BY <1>3, <1>4, <3>1
    <3> QED BY <3>1, <3>2, <3>3
  <2> QED BY <1>1, <2>1, <2>2, <2>3, <2>4
<1>12. Overwrites(p, s, at, e) BY <1>4, <1>9, <1>10, <1>11 DEF Overwrites
<1>13. Overwrites(Overwritten(s, at, e), s, at, e) BY <1>4, OverwrittenIs
<1>14. p = Overwritten(s, at, e) BY <1>12, <1>13, OverwriteOnce
<1>15. o = Overwritten(s, at, b) /\ p = Overwritten(o, at + k, c) BY DEF o, p
<1> QED BY <1>6, <1>7, <1>14, <1>15 DEF b, c, e
-----------------------------------------------------------------------------
(* What a command is to the exchange: run for the first time, or once more    *)

Fresh(c, answer) == /\ phase = "sent" /\ c = cmd /\ phase' = "ran" /\ ans' = answer
                    /\ UNCHANGED <<cmd, atari>>
Again(c, answer) == /\ c = late /\ c # NoCmd /\ (phase = "ran" => c = cmd)
                    /\ ans' = IF phase = "ran" THEN answer ELSE ans
                    /\ UNCHANGED <<phase, cmd, late, atari>>

LEMMA FirstOrAgain ==
  ASSUME Harmless, Exchange, NEW c, NEW answer, Runs(c, answer)
  PROVE  /\ Fresh(c, answer) \/ Again(c, answer)
         /\ late' \in {c, NoCmd} /\ UNCHANGED <<cmd, atari>>
         /\ c.kind \in Once => Fresh(c, answer) /\ late' = NoCmd
<1>1. NoCmd.kind = "none" BY DEF NoCmd
<1>2. ASSUME Tag(c) \in Repeats PROVE c.kind \notin Once
  BY <1>2 DEF Tag, Harmless, Once
<1>3. CASE phase = "sent" /\ c = cmd /\ phase' = "ran" /\ ans' = answer
           /\ late' = (IF Tag(c) \in Repeats THEN c ELSE NoCmd) /\ UNCHANGED <<cmd, atari>>
  BY <1>2, <1>3 DEF Fresh
<1>4. CASE c = late /\ c # NoCmd /\ ans' = (IF phase = "ran" THEN answer ELSE ans)
           /\ UNCHANGED <<phase, cmd, late, atari>>
  BY <1>2, <1>4 DEF Again, Exchange
<1> QED BY <1>3, <1>4, Zenon DEF Runs

\* The conditions on the exchange and on the calls hold after any command.
LEMMA RunServes ==
  ASSUME Harmless, Services, NEW c, NEW answer, Runs(c, answer)
  PROVE  Exchange' /\ Asking' /\ LateCommand' /\ Calling'
<1>1. /\ Fresh(c, answer) \/ Again(c, answer)
      /\ late' \in {c, NoCmd} /\ UNCHANGED <<cmd, atari>>
  BY FirstOrAgain DEF Services
<1>2. UNCHANGED <<call, owned, tosDta, found>> BY <1>1 DEF atari
<1>3. NoCmd.kind = "none" BY DEF NoCmd
<1>4. late' = NoCmd \/ Tag(late') \in Repeats BY DEF Runs, Services, Exchange
<1>5. Exchange'
  <2>1. CASE Fresh(c, answer) BY <1>1, <1>4, <2>1 DEF Fresh, Exchange
  <2>2. CASE Again(c, answer) BY <1>1, <2>2 DEF Again, Exchange, Services
  <2> QED BY <1>1, <2>1, <2>2
<1>6. Asking' BY <1>1, <1>2 DEF Asking, Services
<1>7. LateCommand'
  <2>1. CASE Fresh(c, answer)
    <3>1. CASE late' = NoCmd BY <1>3, <3>1 DEF LateCommand
    <3>2. CASE late' = c /\ Tag(c) \in Repeats
      <4>1. c = cmd BY <2>1 DEF Fresh
      <4>2. c.kind = "fseek" => c.mode # "cur" BY <3>2 DEF Tag, Harmless
      <4> QED BY <1>2, <3>2, <4>1, <4>2 DEF LateCommand, Asking, Services
    <3> QED BY <1>1, <1>4, <3>1, <3>2
  <2>2. CASE Again(c, answer) BY <1>2, <2>2 DEF Again, LateCommand, Services
  <2> QED BY <1>1, <2>1, <2>2
<1>8. Calling'
  <2>1. CASE Fresh(c, answer)
    <3>1. phase = "sent" /\ phase' = "ran" BY <2>1 DEF Fresh
    <3>2. call.kind # "none" => ~call.over BY <3>1 DEF Calling, Services
    <3> QED BY <1>1, <1>2, <3>1, <3>2 DEF Calling, Busy, Services, AskChunk, SendChunk, Rest, Handle
  <2>2. CASE Again(c, answer)
    BY <1>1, <1>2, <2>2 DEF Again, Calling, Busy, Services, AskChunk, SendChunk, Rest, Handle
  <2> QED BY <1>1, <2>1, <2>2
<1> QED BY <1>5, <1>6, <1>7, <1>8

\* While a call goes on its chunk is the command; all other commands leave it alone.
LEMMA RunKeepsCall ==
  ASSUME Harmless, Services, NEW c, NEW answer, Runs(c, answer), c.kind \notin Transfer,
         \A h \in DOMAIN fds : files'[fds[h].path] = files[fds[h].path]
  PROVE  Reading' /\ Writing'
<1>1. /\ Fresh(c, answer) \/ Again(c, answer)
      /\ UNCHANGED <<cmd, atari>>
  BY FirstOrAgain DEF Services
<1>2. UNCHANGED <<call, owned>> BY <1>1 DEF atari
<1>3. CASE call.kind = "none" BY <1>2, <1>3 DEF Reading, Writing
<1>4. CASE call.kind \in {"read", "write"}
  <2>1. /\ call.over => phase = "idle"
        /\ ~call.over => phase # "idle" /\ cmd.kind \in Transfer
        /\ call.fd \in DOMAIN owned
    <3>1. \A h, n : AskChunk(h, n).kind = "readbuff" BY DEF AskChunk, Handle, NoCmd
    <3>2. \A h, b : SendChunk(h, b).kind = "writebuff" BY DEF SendChunk, Handle, NoCmd
    <3> QED BY <1>4, <3>1, <3>2 DEF Calling, Busy, Services, Transfer
  <2>2. ~Fresh(c, answer) BY <2>1 DEF Fresh
  <2>3. Again(c, answer) /\ phase # "ran" BY <1>1, <2>1, <2>2 DEF Again
  <2>4. phase' = phase /\ ans' = ans BY <2>3 DEF Again
  <2>5. cmd.kind # "reset"
    <3>1. cmd.kind = "reset" => call.kind = "none" BY DEF Asking, Services
    <3> QED BY <1>4, <3>1
  <2>6. SameHandles(owned) BY <2>3, <2>5 DEF Agree, Due, Services
  <2>7. File' = File BY <1>2, <2>1, <2>6 DEF SameHandles, File
  <2>8. Reading' BY <1>2, <2>3, <2>4, <2>7 DEF Reading, Services
  <2>9. Writing' BY <1>2, <2>3, <2>4, <2>7 DEF Writing, Stored, Services
  <2> QED BY <2>8, <2>9
<1> QED BY <1>3, <1>4 DEF Calling, Services

\* Commands that concern no handle.
LEMMA RunKeepsHandles ==
  ASSUME Harmless, Services, NEW c, NEW answer, Runs(c, answer), fds' = fds,
         c.kind \in {"fdelete", "frename", "fsetdta", "dtarelease", "fsfirst", "fsnext"}
  PROVE  Agree'
<1>1. /\ Fresh(c, answer) \/ Again(c, answer)
      /\ UNCHANGED <<cmd, atari>>
  BY FirstOrAgain DEF Services
<1>2. owned' = owned BY <1>1 DEF atari
<1>3. Due = owned /\ Due' = owned'
  <2>1. CASE Fresh(c, answer) BY <1>1, <2>1 DEF Fresh, Due, Transfer
  <2>2. CASE Again(c, answer) BY <1>1, <2>2 DEF Again, Due, Transfer
  <2> QED BY <1>1, <2>1, <2>2
<1>4. CASE SameHandles(Due) BY <1>2, <1>3, <1>4 DEF Agree, SameHandles
<1>5. CASE phase = "sent" /\ cmd.kind = "reset"
  <2>1. late = NoCmd /\ c # cmd BY <1>5 DEF Exchange, Services
  <2> QED BY <1>1, <2>1 DEF Fresh, Again
<1> QED BY <1>4, <1>5 DEF Agree, Services

\* Commands that are no searches.
LEMMA RunKeepsFound ==
  ASSUME Harmless, Services, NEW c, NEW answer, Runs(c, answer), c.kind \notin {"fsfirst", "fsnext"},
         \A k \in FoundDue : Live(k) => Live(k)'
  PROVE  Searches'
<1>1. /\ Fresh(c, answer) \/ Again(c, answer)
      /\ UNCHANGED <<cmd, atari>>
  BY FirstOrAgain DEF Services
<1>2. found' = found BY <1>1 DEF atari
<1>3. FoundDue' = FoundDue
  <2>1. CASE Fresh(c, answer) BY <1>1, <1>2, <2>1 DEF Fresh, FoundDue
  <2>2. CASE Again(c, answer) BY <1>1, <1>2, <2>2 DEF Again, FoundDue
  <2> QED BY <1>1, <2>1, <2>2
<1>4. ASSUME NEW k \in FoundDue' PROVE Live(k)' BY <1>3, <1>4 DEF Searches, Services
<1> QED BY <1>4 DEF Searches, Live

LEMMA RunKeepsLate ==
  ASSUME Harmless, Services, NEW c, NEW answer, Runs(c, answer)
  PROVE  /\ c.kind # "fseek" => LateSeek'
         /\ c.kind # "fsfirst" => LateSearch'
<1>1. late' \in {c, NoCmd} BY FirstOrAgain DEF Services
<1>2. NoCmd.kind = "none" BY DEF NoCmd
<1> QED BY <1>1, <1>2 DEF LateSeek, LateSearch

LEMMA StillPlaced ==
  ASSUME Placed, DOMAIN fds' \subseteq DOMAIN fds,
         \A h \in DOMAIN fds' : fds'[h] = fds[h] /\ files'[fds[h].path] = files[fds[h].path]
  PROVE  Placed'
BY DEF Placed, NodePlaced
-----------------------------------------------------------------------------
(* The commands that are no transfers                                       *)

\* An open file is one that is locked.
LEMMA OpenIsLocked ==
  ASSUME IInv, NEW h \in DOMAIN fds
  PROVE  fds[h].path \in Entries /\ fds[h].path \in DOMAIN files /\ fds[h].path \in Paths
BY LockFields DEF IInv, EachHolds, FileLock, Entries, OpenFileExists, Tables

\* A descriptor for a file that has been opened, and what the programs will hold.
LEMMA FileHandedOut ==
  ASSUME Harmless, IInv, IInv', Services, NEW c, c.path \in Paths, c.mode \in Modes,
         c.kind \in {"fopen", "fcreate"}, NEW memory \in BOOLEAN, AddFile(c, memory), FilesOK',
         c.path \in DOMAIN files',
         \A h \in DOMAIN fds : files'[fds[h].path] = files[fds[h].path]
  PROVE  Agree' /\ Placed'
<1>1. PICK answer : Runs(c, answer) BY DEF AddFile
<1>2. c.kind \in Once BY DEF Once
<1>3. Fresh(c, answer) /\ late' = NoCmd BY <1>1, <1>2, FirstOrAgain DEF Services
<1>4. /\ phase = "sent" /\ phase' = "ran" /\ cmd' = c /\ c = cmd /\ owned' = owned /\ ans' = answer
  BY <1>3 DEF Fresh, atari
<1>5. SameHandles(owned) BY <1>4 DEF Agree, Due, Services
<1>6. CASE memory
  <2> DEFINE h == FirstFreeFD
             n == [path |-> c.path, mode |-> c.mode, offset |-> 0, ptr |-> 0, err |-> FALSE]
  <2>1. DOMAIN fds # FDs /\ fds' = With(fds, h, n) /\ Runs(c, Counts(h)) BY <1>6 DEF AddFile
  <2>2. h \notin DOMAIN fds BY <2>1, FreeDescriptor DEF IInv
  <2>3. ans' = Counts(h)
    <3>1. Fresh(c, Counts(h)) BY <1>2, <2>1, FirstOrAgain DEF Services
    <3> QED BY <3>1 DEF Fresh
  <2>4. ans'.code = "EOK" /\ ans'.n = h BY <2>3 DEF Counts, NoAns
  <2>5. Due' = With(owned, h, [path |-> c.path, pos |-> 0])
    BY <1>2, <1>4, <2>4 DEF Due, Transfer
  <2> HIDE DEF h
  <2>6. n \in Nodes /\ n.offset = 0 /\ n.ptr = 0 /\ n.path = c.path BY DEF Nodes
  <2> HIDE DEF n
  <2>7. /\ DOMAIN fds' = DOMAIN fds \cup {h} /\ fds'[h] = n
        /\ \A g \in DOMAIN fds : fds'[g] = fds[g]
    BY <2>1, <2>2 DEF With
  <2>8. Agree'
    <3>1. /\ DOMAIN Due' = DOMAIN owned \cup {h} /\ Due'[h] = [path |-> c.path, pos |-> 0]
          /\ \A g \in DOMAIN owned \ {h} : Due'[g] = owned[g]
      BY <2>5 DEF With
    <3>2. SameHandles(Due)' BY <1>5, <2>2, <2>6, <2>7, <3>1 DEF SameHandles
    <3> QED BY <3>2 DEF Agree
  <2>9. Placed'
    <3>1. Len(files'[c.path]) \in Nat BY LenProperties DEF FilesOK
    <3>2. NodePlaced(n, Len(files'[c.path])) BY <2>6, <3>1 DEF NodePlaced, Least
    <3>3. ASSUME NEW g \in DOMAIN fds PROVE NodePlaced(fds'[g], Len(files'[fds'[g].path]))
      BY <2>7 DEF Placed, Services
    <3>4. ASSUME NEW g \in DOMAIN fds' PROVE NodePlaced(fds'[g], Len(files'[fds'[g].path]))
      BY <2>6, <2>7, <3>2, <3>3
    <3> QED BY <3>4 DEF Placed, NodePlaced
  <2> QED BY <2>8, <2>9
<1>7. CASE ~memory
  <2>1. Runs(c, Says("EINTRN")) /\ fds' = fds BY <1>7 DEF AddFile
  <2>2. Fresh(c, Says("EINTRN")) BY <1>2, <2>1, FirstOrAgain DEF Services
  <2>3. ans'.code # "EOK" BY <2>2 DEF Fresh, Says, NoAns
  <2>4. Due' = owned BY <1>2, <1>4, <2>3 DEF Due, Transfer
  <2>5. Agree' BY <1>5, <2>1, <2>4 DEF Agree, SameHandles
  <2>6. Placed' BY <2>1, StillPlaced DEF Services
  <2> QED BY <2>5, <2>6
<1> QED BY <1>6, <1>7

\* A command of Fopen, Fcreate or Fclose that is answered with an error.
LEMMA HandleRefused ==
  ASSUME Harmless, Services, NEW c, c.kind \in {"fopen", "fcreate", "fclose"}, NEW code, code # "EOK",
         Runs(c, Says(code)), fds' = fds
  PROVE  Agree'
<1>1. c.kind \in Once BY DEF Once
<1>2. Fresh(c, Says(code)) BY <1>1, FirstOrAgain DEF Services
<1>3. phase = "sent" /\ phase' = "ran" /\ cmd' = c /\ c = cmd /\ owned' = owned
  BY <1>2 DEF Fresh, atari
<1>4. ans'.code # "EOK" BY <1>2 DEF Fresh, Says, NoAns
<1>5. SameHandles(owned) BY <1>3 DEF Agree, Due, Services
<1>6. Due' = owned BY <1>3, <1>4 DEF Due, Transfer
<1> QED BY <1>5, <1>6 DEF Agree, SameHandles

\* What is left to show of a command that is no transfer.
LEMMA CommandServes ==
  ASSUME Harmless, Services, NEW c, NEW answer, Runs(c, answer), c.kind \notin Transfer,
         \A h \in DOMAIN fds : files'[fds[h].path] = files[fds[h].path],
         FilesOK', Placed', Agree', Searches',
         c.kind = "fseek" => LateSeek', c.kind = "fsfirst" => LateSearch'
  PROVE  Services'
BY RunServes, RunKeepsCall, RunKeepsLate, Zenon DEF Services

LEMMA OpenServes ==
  ASSUME Harmless, IInv, IInv', Services, NEW c \in {cmd, late}, Fopen(c) PROVE Services'
<1>1. PICK answer : Runs(c, answer) BY DEF Fopen, AddFile
<1>2. c.kind = "fopen" /\ c.path \in Paths /\ c.mode \in Modes /\ files' = files /\ dtas' = dtas
  BY DEF Fopen, IInv, Commands, CmdOK
<1>3. FilesOK' BY <1>2 DEF FilesOK, Services
<1>4. Searches' BY <1>1, <1>2, RunKeepsFound DEF Live
<1>5. Agree' /\ Placed'
  <2>1. CASE c.path \in DOMAIN files /\ CanOpen(c.path, c.mode)
    <3>1. PICK memory \in Outcome("memory") : AddFile(c, memory) BY <2>1 DEF Fopen
    <3>2. memory \in BOOLEAN BY DEF Outcome
    <3> QED BY <1>2, <1>3, <2>1, <3>1, <3>2, FileHandedOut
  <2>2. CASE ~(c.path \in DOMAIN files /\ CanOpen(c.path, c.mode))
    <3>1. Runs(c, Says("EFILNF")) /\ fds' = fds BY <2>2 DEF Fopen
    <3> QED BY <1>2, <3>1, HandleRefused, StillPlaced DEF Services
  <2> QED BY <2>1, <2>2
<1> QED BY <1>1, <1>2, <1>3, <1>4, <1>5, CommandServes DEF Transfer

LEMMA CreateServes ==
  ASSUME Harmless, IInv, IInv', Services, NEW c \in {cmd, late}, Fcreate(c) PROVE Services'
<1>1. PICK answer : Runs(c, answer) BY DEF Fcreate, AddFile
<1>2. c.kind = "fcreate" /\ c.path \in Paths /\ c.mode \in Modes /\ dtas' = dtas
  BY DEF Fcreate, IInv, Commands, CmdOK
<1>3. Searches' BY <1>1, <1>2, RunKeepsFound DEF Live
<1>4. CASE CanWrite(c.path)
  <2>1. files' = With(files, c.path, <<>>) BY <1>4 DEF Fcreate
  <2>2. /\ DOMAIN files' = DOMAIN files \cup {c.path} /\ files'[c.path] = <<>>
        /\ \A p \in DOMAIN files \ {c.path} : files'[p] = files[p]
    BY <2>1 DEF With
  <2>3. \A h \in DOMAIN fds : files'[fds[h].path] = files[fds[h].path]
    BY <1>4, <2>2, OpenIsLocked DEF CanWrite
  <2>4. <<>> \in Seq(Nat) /\ Len(<<>>) = 0 /\ 0 <= MaxSize BY EmptySeq, GemAssumption
  <2>5. FilesOK' BY <1>2, <2>2, <2>4 DEF FilesOK, Services
  <2>6. PICK memory \in Outcome("memory") : AddFile(c, memory) BY <1>4 DEF Fcreate
  <2>7. memory \in BOOLEAN BY DEF Outcome
  <2>8. Agree' /\ Placed' BY <1>2, <2>2, <2>3, <2>5, <2>6, <2>7, FileHandedOut
  <2> QED BY <1>1, <1>2, <1>3, <2>3, <2>5, <2>8, CommandServes DEF Transfer
<1>5. CASE ~CanWrite(c.path)
  <2>1. Runs(c, Says("EPTHNF")) /\ fds' = fds /\ files' = files BY <1>5 DEF Fcreate
  <2>2. Agree' /\ Placed' BY <1>2, <2>1, HandleRefused, StillPlaced DEF Services
  <2>3. FilesOK' BY <2>1 DEF FilesOK, Services
  <2> QED BY <1>1, <1>2, <1>3, <2>1, <2>2, <2>3, CommandServes DEF Transfer
<1> QED BY <1>4, <1>5

LEMMA CloseServes ==
  ASSUME Harmless, IInv, IInv', Services, NEW c \in {cmd, late}, Fclose(c) PROVE Services'
<1>1. PICK answer : Runs(c, answer) BY DEF Fclose
<1>2. c.kind = "fclose" /\ files' = files /\ dtas' = dtas BY DEF Fclose
<1>3. FilesOK' BY <1>2 DEF FilesOK, Services
<1>4. Searches' BY <1>1, <1>2, RunKeepsFound DEF Live
<1>5. CASE fds' = fds /\ \E code : code # "EOK" /\ Runs(c, Says(code))
  BY <1>1, <1>2, <1>3, <1>4, <1>5, HandleRefused, StillPlaced, CommandServes DEF Services, Transfer
<1>6. CASE c.fd \in DOMAIN fds /\ fds' = Without(fds, c.fd) /\ Runs(c, NoAns)
  <2>1. DOMAIN fds' = DOMAIN fds \ {c.fd} /\ \A h \in DOMAIN fds' : fds'[h] = fds[h]
    BY <1>6 DEF Without
  <2>2. Placed' BY <1>2, <2>1, StillPlaced DEF Services
  <2>3. Fresh(c, NoAns) BY <1>2, <1>6, FirstOrAgain DEF Services, Once
  <2>4. /\ phase = "sent" /\ phase' = "ran" /\ cmd' = c /\ c = cmd /\ owned' = owned
        /\ ans'.code = "EOK"
    BY <2>3 DEF Fresh, atari, NoAns
  <2>5. SameHandles(owned) BY <1>2, <2>4 DEF Agree, Due, Services
  <2>6. Due' = Without(owned, c.fd) BY <1>2, <2>4 DEF Due, Transfer
  <2>7. Agree' BY <2>1, <2>5, <2>6 DEF Agree, SameHandles, Without
  <2> QED BY <1>1, <1>2, <1>3, <1>4, <2>2, <2>7, CommandServes DEF Transfer
<1> QED BY <1>5, <1>6 DEF Fclose

LEMMA DeleteServes ==
  ASSUME Harmless, IInv, Services, NEW c \in {cmd, late}, Fdelete(c) \/ Frename(c) PROVE Services'
<1>1. PICK answer : Runs(c, answer) BY DEF Fdelete, Frename
<1>2. c.kind \in {"fdelete", "frename"} /\ fds' = fds /\ dtas' = dtas BY DEF Fdelete, Frename
<1>3. /\ \A h \in DOMAIN fds : files'[fds[h].path] = files[fds[h].path]
      /\ FilesOK'
  <2>1. CASE files' = files BY <2>1 DEF FilesOK, Services
  <2>2. CASE Fdelete(c) /\ files' # files
    <3>1. /\ files' = Without(files, c.path) /\ \A h \in DOMAIN fds : fds[h].path # c.path
      BY <2>2 DEF Fdelete
    <3>2. DOMAIN files' = DOMAIN files \ {c.path} /\ \A p \in DOMAIN files' : files'[p] = files[p]
      BY <3>1 DEF Without
    <3> QED BY <3>1, <3>2, OpenIsLocked DEF FilesOK, Services
  <2>3. CASE Frename(c) /\ files' # files
    <3>1. /\ c.path \in DOMAIN files /\ c.path \notin Entries /\ c.to \notin DOMAIN files
          /\ files' = With(Without(files, c.path), c.to, files[c.path])
      BY <2>3 DEF Frename
    <3>2. c.to \in Paths BY <2>3 DEF Frename, IInv, Commands, CmdOK
    <3>3. /\ DOMAIN files' = (DOMAIN files \ {c.path}) \cup {c.to} /\ files'[c.to] = files[c.path]
          /\ \A p \in DOMAIN files \ {c.path} : files'[p] = files[p]
      BY <3>1 DEF With, Without
    <3> QED BY <3>1, <3>2, <3>3, OpenIsLocked DEF FilesOK, Services
  <2> QED BY <2>1, <2>2, <2>3
<1>4. Placed' BY <1>2, <1>3, StillPlaced DEF Services
<1>5. Agree' BY <1>1, <1>2, RunKeepsHandles
<1>6. Searches' BY <1>1, <1>2, RunKeepsFound DEF Live
<1> QED BY <1>1, <1>2, <1>3, <1>4, <1>5, <1>6, CommandServes DEF Transfer

LEMMA ResetServes ==
  ASSUME Harmless, Services, NEW c \in {cmd, late}, Reset(c) PROVE Services'
<1>1. c.kind = "reset" /\ Runs(c, NoAns) /\ files' = files /\ DOMAIN fds' = {} BY DEF Reset
<1>2. /\ Fresh(c, NoAns) \/ Again(c, NoAns)
      /\ UNCHANGED <<cmd, atari>>
  BY <1>1, FirstOrAgain DEF Services
<1>3. DOMAIN owned = {} /\ found = {}
  BY <1>1, <1>2 DEF Fresh, Again, Asking, LateCommand, Services
<1>4. owned' = owned /\ found' = found BY <1>2 DEF atari
<1>5. Due' = owned /\ FoundDue = {}
  <2>1. CASE Fresh(c, NoAns) BY <1>1, <1>2, <1>3, <1>4, <2>1 DEF Fresh, Due, FoundDue, Transfer
  <2>2. CASE Again(c, NoAns) BY <1>1, <1>2, <1>3, <1>4, <2>2 DEF Again, Due, FoundDue, Transfer
  <2> QED BY <1>2, <2>1, <2>2
<1>6. Agree' BY <1>1, <1>3, <1>5 DEF Agree, SameHandles
<1>7. Searches' BY <1>1, <1>5, RunKeepsFound
<1>8. FilesOK' /\ Placed' BY <1>1 DEF FilesOK, Placed, Services
<1> QED BY <1>1, <1>6, <1>7, <1>8, CommandServes DEF Transfer

LEMMA SeekServes ==
  ASSUME Harmless, IInv, Services, NEW c \in {cmd, late}, Fseek(c) PROVE Services'
<1>1. PICK answer : Runs(c, answer) BY DEF Fseek
<1>2. c.kind = "fseek" /\ files' = files /\ dtas' = dtas BY DEF Fseek
<1>3. /\ Fresh(c, answer) \/ Again(c, answer)
      /\ late' \in {c, NoCmd} /\ UNCHANGED <<cmd, atari>>
  BY <1>1, FirstOrAgain DEF Services
<1>4. owned' = owned BY <1>3 DEF atari
<1>5. FilesOK' BY <1>2 DEF FilesOK, Services
<1>6. Searches' BY <1>1, <1>2, RunKeepsFound DEF Live
<1>7. <<c.mode, c.n>> \in Seeks
  BY <1>2, <1>3 DEF Fresh, Again, Asking, LateCommand, Services
<1>8. cmd.kind # "reset"
  BY <1>2, <1>3 DEF Fresh, Again, Exchange, Services, NoCmd
<1>9. SameHandles(Due) /\ DOMAIN Due = DOMAIN owned /\ \A h \in DOMAIN owned : Due[h].path = owned[h].path
  <2>1. SameHandles(Due) BY <1>8 DEF Agree, Services
  <2>2. Due = owned \/ Due = [owned EXCEPT ![cmd.fd].pos = ans.n]
    <3>1. phase = "ran" => cmd.kind = "fseek" BY <1>2, <1>3 DEF Fresh, Again
    <3> QED BY <3>1 DEF Due, Transfer
  <2>3. \A h \in DOMAIN owned : {"path", "pos"} \subseteq DOMAIN owned[h]
    BY DEF Asking, Held, Services
  <2> QED BY <2>1, <2>2, <2>3
<1>10. CASE c.fd \in DOMAIN fds
  <2> DEFINE to == SeekOffset(fds[c.fd], c.mode, c.n)
  <2>1. /\ fds' = [fds EXCEPT ![c.fd].offset = to, ![c.fd].ptr = Unsought]
        /\ Runs(c, Counts(to))
    BY <1>10 DEF Fseek
  <2>2. /\ fds[c.fd] \in Nodes /\ fds[c.fd].path \in DOMAIN files
        /\ Len(files[fds[c.fd].path]) \in 0 .. MaxSize
        /\ fds[c.fd].offset <= Len(files[fds[c.fd].path]) \/ Beyond(fds[c.fd].offset)
    BY <1>10, OpenIsLocked, LenProperties DEF Placed, NodePlaced, FilesOK, Services
  <2>3. fds[c.fd].offset \in Nat BY <2>2 DEF Nodes
  <2>4. to \in Nat /\ (to <= Len(files[fds[c.fd].path]) \/ Beyond(to))
    BY <1>7, <2>2, <2>3, SeekOffsetIs
  <2>5. c.mode # "cur" => c.mode \in {"set", "end"} BY <1>7, GemAssumption
  <2>6. /\ DOMAIN fds' = DOMAIN fds /\ \A h \in DOMAIN fds \ {c.fd} : fds'[h] = fds[h]
        /\ fds'[c.fd] = [fds[c.fd] EXCEPT !.offset = to, !.ptr = Unsought]
    <3> HIDE DEF to
    <3> QED BY <1>10, <2>1
  <2>7. /\ fds'[c.fd].path = fds[c.fd].path /\ fds'[c.fd].offset = to /\ fds'[c.fd].ptr = Unsought
        /\ fds'[c.fd] \in Nodes
    <3>1. to \in Nat /\ Unsought \in Int BY <2>4 DEF Unsought
    <3>2. fds[c.fd] \in Nodes BY <2>2
    <3> HIDE DEF to
    <3> QED BY <2>6, <3>1, <3>2 DEF Nodes
  <2>8. Placed'
    <3> HIDE DEF to
    <3>1. NodePlaced(fds'[c.fd], Len(files'[fds'[c.fd].path]))
      BY <1>2, <2>4, <2>7 DEF NodePlaced
    <3>2. ASSUME NEW h \in DOMAIN fds' PROVE NodePlaced(fds'[h], Len(files'[fds'[h].path]))
      BY <1>2, <2>6, <3>1 DEF Placed, Services
    <3> QED BY <3>2 DEF Placed, NodePlaced
  <2>9. late' = c /\ c.mode # "cur" => LateSeek'
    <3>1. SUFFICES ASSUME late' = c, c.mode # "cur" PROVE LateSeek' OBVIOUS
    <3>2. to = SeekTo(Len(files[fds[c.fd].path]), fds[c.fd].offset, c.mode, c.n) BY SeekOffsetTo
    <3> HIDE DEF to
    <3>3. to = SeekTo(Len(files'[fds'[c.fd].path]), fds'[c.fd].offset, c.mode, c.n)
      BY <1>2, <2>5, <2>7, <3>1, <3>2, SeekTwice
    <3> QED BY <2>7, <3>1, <3>3 DEF LateSeek
  <2>10. LateSeek'
    <3>1. late' = NoCmd => LateSeek' BY DEF LateSeek, NoCmd
    <3>2. LateCommand' BY <1>1, RunServes
    <3> QED BY <1>2, <1>3, <2>9, <3>1, <3>2 DEF LateCommand
  <2>11. Agree'
    <3> HIDE DEF to
    <3>1. /\ Fresh(c, Counts(to)) \/ Again(c, Counts(to))
      BY <2>1, FirstOrAgain DEF Services
    <3>2. CASE phase' = "ran"
      <4>1. cmd = c BY <3>1, <3>2 DEF Fresh, Again
      <4>2. ans' = Counts(to) BY <3>1, <3>2 DEF Fresh, Again
      <4>3. ans'.code = "EOK" /\ ans'.n = to BY <4>2 DEF Counts, NoAns
      <4>4. Due' = [owned EXCEPT ![c.fd].pos = to]
        BY <1>2, <1>3, <1>4, <3>2, <4>1, <4>3 DEF Due, Transfer
      <4>5. \A h \in DOMAIN owned : {"path", "pos"} \subseteq DOMAIN owned[h]
        BY DEF Asking, Held, Services
      <4>6. c.fd \in DOMAIN owned BY <1>9, <1>10 DEF SameHandles
      <4>7. ASSUME NEW h \in DOMAIN owned, h # c.fd PROVE fds[h].offset = owned[h].pos
        <5>1. Due = owned \/ Due = [owned EXCEPT ![c.fd].pos = ans.n]
          BY <1>2, <4>1 DEF Due, Transfer
        <5> QED BY <1>9, <4>7, <5>1 DEF SameHandles
      <4>8. /\ DOMAIN Due' = DOMAIN owned /\ Due'[c.fd].pos = to /\ Due'[c.fd].path = owned[c.fd].path
            /\ \A h \in DOMAIN owned \ {c.fd} : Due'[h] = owned[h]
        BY <4>4, <4>5, <4>6
      <4>9. DOMAIN fds' = DOMAIN Due' BY <1>9, <2>6, <4>8 DEF SameHandles
      <4>10. ASSUME NEW h \in DOMAIN Due'
             PROVE  fds'[h].path = Due'[h].path /\ fds'[h].offset = Due'[h].pos
        <5>1. h \in DOMAIN owned /\ h \in DOMAIN fds /\ fds[h].path = owned[h].path
          BY <1>9, <4>8 DEF SameHandles
        <5>2. CASE h = c.fd BY <2>7, <4>8, <5>1, <5>2
        <5>3. CASE h # c.fd BY <2>6, <4>7, <4>8, <5>1, <5>3
        <5> QED BY <5>2, <5>3
      <4> QED BY <4>9, <4>10 DEF Agree, SameHandles
    <3>3. CASE phase' # "ran"
      <4>1. Again(c, Counts(to)) /\ phase # "ran" /\ c = late BY <3>1, <3>3 DEF Fresh, Again
      <4>2. Due = owned /\ Due' = owned BY <1>4, <3>3, <4>1 DEF Due
      <4>3. fds[c.fd].offset = to
        <5>1. to = SeekTo(Len(files[fds[c.fd].path]), fds[c.fd].offset, c.mode, c.n)
          BY SeekOffsetTo DEF to
        <5> QED BY <1>2, <1>10, <4>1, <5>1 DEF LateSeek, Services
      <4>4. SameHandles(Due)'
        <5>1. DOMAIN fds' = DOMAIN owned BY <1>9, <2>6, <4>2 DEF SameHandles
        <5>2. ASSUME NEW h \in DOMAIN owned
              PROVE  fds'[h].path = owned[h].path /\ fds'[h].offset = owned[h].pos
          <6>1. h \in DOMAIN fds /\ fds[h].path = owned[h].path /\ fds[h].offset = owned[h].pos
            BY <1>9, <4>2 DEF SameHandles
          <6>2. CASE h = c.fd BY <2>7, <4>3, <6>1, <6>2
          <6>3. CASE h # c.fd BY <2>6, <6>1, <6>3
          <6> QED BY <6>2, <6>3
        <5> QED BY <4>2, <5>1, <5>2 DEF SameHandles
      <4> QED BY <4>4 DEF Agree
    <3> QED BY <3>2, <3>3
  <2> QED BY <1>1, <1>2, <1>5, <1>6, <2>8, <2>10, <2>11, CommandServes DEF Transfer
<1>11. CASE c.fd \notin DOMAIN fds
  <2>1. Runs(c, Says("EIHNDL")) /\ fds' = fds BY <1>11 DEF Fseek
  <2>2. Fresh(c, Says("EIHNDL")) \/ Again(c, Says("EIHNDL")) BY <2>1, FirstOrAgain DEF Services
  <2>3. c.fd \notin DOMAIN owned BY <1>9, <1>11 DEF SameHandles
  <2>4. \A h \in DOMAIN owned : Due[h] = owned[h]
    <3>1. phase = "ran" => cmd = c BY <2>2 DEF Fresh, Again
    <3>2. Due = owned \/ Due = [owned EXCEPT ![c.fd].pos = ans.n]
      BY <1>2, <3>1 DEF Due, Transfer
    <3> QED BY <2>3, <3>2
  <2>5. Due' = owned
    <3>1. phase' = "ran" => cmd = c /\ ans' = Says("EIHNDL") BY <2>2 DEF Fresh, Again
    <3>2. Says("EIHNDL").code # "EOK" BY DEF Says, NoAns
    <3> QED BY <1>2, <1>3, <1>4, <3>1, <3>2 DEF Due, Transfer
  <2>6. Agree' BY <1>9, <2>1, <2>4, <2>5 DEF Agree, SameHandles
  <2>7. Placed' BY <1>2, <2>1, StillPlaced DEF Services
  <2>8. LateSeek' BY <1>3, <1>11, <2>1 DEF LateSeek, NoCmd
  <2> QED BY <1>1, <1>2, <1>5, <1>6, <2>6, <2>7, <2>8, CommandServes DEF Transfer
<1> QED BY <1>10, <1>11

\* What all commands about searches leave alone.
LEMMA SearchCommandServes ==
  ASSUME Harmless, Services, NEW c, NEW answer, Runs(c, answer), UNCHANGED <<files, fds>>,
         c.kind \in {"fsetdta", "dtarelease", "fsfirst", "fsnext"},
         Searches', c.kind = "fsfirst" => LateSearch'
  PROVE  Services'
<1>1. FilesOK' BY DEF FilesOK, Services
<1>2. Placed' BY StillPlaced DEF Services
<1>3. Agree' BY RunKeepsHandles
<1> QED BY <1>1, <1>2, <1>3, CommandServes DEF Transfer

LEMMA DtaServes ==
  ASSUME Harmless, Services, NEW c \in {cmd, late}, Fsetdta(c) \/ DtaRelease(c) PROVE Services'
<1>1. /\ Runs(c, NoAns) /\ UNCHANGED <<files, fds>> /\ c.kind \in {"fsetdta", "dtarelease"}
  BY DEF Fsetdta, DtaRelease
<1>2. ASSUME NEW k \in FoundDue, Live(k) PROVE Live(k)'
  <2>1. CASE Fsetdta(c)
    <3>1. dtas' = dtas \/ (c.key \notin DOMAIN dtas /\ dtas' = With(dtas, c.key, FALSE))
      BY <2>1 DEF Fsetdta
    <3> QED BY <1>2, <3>1 DEF Live, With
  <2>2. CASE DtaRelease(c)
    <3>1. dtas' = Without(dtas, c.key) /\ c.kind = "dtarelease" BY <2>2 DEF DtaRelease, Released
    <3>2. Fresh(c, NoAns) \/ Again(c, NoAns) BY <1>1, FirstOrAgain DEF Services
    <3>3. c.key \notin found BY <3>1, <3>2 DEF Fresh, Again, Asking, LateCommand, Services
    <3>4. FoundDue = found BY <3>1, <3>2 DEF Fresh, Again, FoundDue
    <3> QED BY <1>2, <3>1, <3>3, <3>4 DEF Live, Without
  <2> QED BY <2>1, <2>2
<1>3. Searches' BY <1>1, <1>2, RunKeepsFound
<1> QED BY <1>1, <1>3, SearchCommandServes

LEMMA FirstServes ==
  ASSUME Harmless, Services, NEW c \in {cmd, late}, Fsfirst(c) PROVE Services'
<1> DEFINE r == Released(c.key)
           code == IF Hit(c) THEN "EOK" ELSE "EFILNF"
<1>1. /\ c.kind = "fsfirst" /\ UNCHANGED <<files, fds>> /\ Runs(c, Says(code))
      /\ dtas' = IF Hit(c) THEN With(r.dtas, c.key, TRUE) ELSE r.dtas
      /\ open' = IF Hit(c) THEN r.open \cup {Lock(Folder, "r", c.key)} ELSE r.open
  BY DEF Fsfirst, Hit, HitIn, Released, Matches
<1>2. r.dtas = Without(dtas, c.key) /\ r.open = {x \in open : x.by # c.key} BY DEF Released
<1> HIDE DEF r
<1>3. /\ Hit(c) => Live(c.key)'
      /\ ~Hit(c) => ~Live(c.key)'
      /\ \A k : k # c.key => (Live(k)' <=> Live(k))
  BY <1>1, <1>2 DEF Live, With, Without
<1>4. Hit(c)' = Hit(c)
  <2>1. {x \in open' : x.by # c.key} = {x \in open : x.by # c.key}
    BY <1>1, <1>2, LockFields
  <2> QED BY <1>1, <2>1 DEF Hit, HitIn
<1>5. /\ Fresh(c, Says(code)) \/ Again(c, Says(code))
      /\ late' \in {c, NoCmd} /\ UNCHANGED <<cmd, atari>>
  BY <1>1, FirstOrAgain DEF Services
<1>6. LateSearch'
  <2>1. CASE late' = NoCmd BY <2>1 DEF LateSearch, NoCmd
  <2>2. CASE late' = c BY <1>3, <1>4, <2>2 DEF LateSearch, Hit, Live
  <2> QED BY <1>5, <2>1, <2>2
<1>7. found' = found BY <1>5 DEF atari
<1>8. Searches'
  <2>1. SUFFICES ASSUME NEW k \in FoundDue' PROVE Live(k)' BY DEF Searches, Live
  <2>2. CASE phase' = "ran"
    <3>1. cmd = c /\ ans' = Says(code) BY <1>5, <2>2 DEF Fresh, Again
    <3>2. ans'.code = code BY <3>1 DEF Says, NoAns
    <3>3. FoundDue' = IF Hit(c) THEN found \cup {c.key} ELSE found \ {c.key}
      BY <1>1, <1>5, <1>7, <2>2, <3>1, <3>2 DEF FoundDue
    <3>4. found \ {c.key} \subseteq FoundDue BY <1>1, <3>1 DEF FoundDue
    <3>5. CASE k = c.key BY <1>3, <2>1, <3>3, <3>5
    <3>6. CASE k # c.key BY <1>3, <2>1, <3>3, <3>4, <3>6 DEF Searches, Services
    <3> QED BY <3>5, <3>6
  <2>3. CASE phase' # "ran"
    <3>1. c = late /\ phase # "ran" BY <1>5, <2>3 DEF Fresh, Again
    <3>2. FoundDue' = found /\ FoundDue = found BY <1>7, <2>3, <3>1 DEF FoundDue
    <3>3. Live(k) BY <2>1, <3>2 DEF Searches, Services
    <3>4. k = c.key => Hit(c) BY <1>1, <3>1, <3>3 DEF LateSearch, Services
    <3> QED BY <1>3, <3>3, <3>4
  <2> QED BY <2>2, <2>3
<1> QED BY <1>1, <1>6, <1>8, SearchCommandServes

LEMMA NextServes ==
  ASSUME Harmless, Services, NEW c \in {cmd, late}, Fsnext(c) PROVE Services'
<1>1. PICK answer : Runs(c, answer) BY DEF Fsnext
<1>2. c.kind = "fsnext" /\ UNCHANGED <<files, fds>> BY DEF Fsnext
<1>3. \A a : Runs(c, a) => Fresh(c, a) BY <1>2, FirstOrAgain DEF Services, Once
<1>4. phase = "sent" /\ phase' = "ran" /\ c = cmd /\ cmd' = cmd /\ found' = found
  BY <1>1, <1>3 DEF Fresh, atari
<1>5. \A k \in found : Live(k) BY <1>4 DEF Searches, FoundDue, Services
<1>6. CASE Live(c.key) /\ Runs(c, NoAns) /\ UNCHANGED dtas
  <2>1. ans'.code = "EOK" BY <1>3, <1>6 DEF Fresh, NoAns
  <2>2. FoundDue' = found \cup {c.key} BY <1>2, <1>4, <2>1 DEF FoundDue
  <2>3. Searches' BY <1>5, <1>6, <2>2 DEF Searches, Live
  <2> QED BY <1>1, <1>2, <2>3, SearchCommandServes
<1>7. CASE /\ dtas' = Released(c.key).dtas
           /\ Runs(c, Says(IF Live(c.key) THEN "ENMFIL" ELSE "EINTRN"))
  <2>1. ans'.code # "EOK" BY <1>3, <1>7 DEF Fresh, Says, NoAns
  <2>2. FoundDue' = found \ {c.key} BY <1>2, <1>4, <2>1 DEF FoundDue
  <2>3. Searches' BY <1>5, <1>7, <2>2 DEF Searches, Live, Released, Without
  <2> QED BY <1>1, <1>2, <2>3, SearchCommandServes
<1> QED BY <1>6, <1>7 DEF Fsnext, Live
-----------------------------------------------------------------------------
(* The transfers: they run once, for the call that is in progress            *)

LEMMA TransferAsked ==
  ASSUME Harmless, Services, NEW c \in {cmd, late}, NEW answer, Runs(c, answer), c.kind \in Transfer
  PROVE  /\ phase = "sent" /\ phase' = "ran" /\ c = cmd /\ cmd' = c /\ ans' = answer
         /\ late' = NoCmd /\ UNCHANGED <<call, owned, found>>
         /\ c.kind = "readbuff" => call.kind = "read" /\ c.n = call.left
         /\ c.kind = "writebuff" =>
              call.kind = "write"
              /\ c.bytes = SubSeq(Rest(0), 1, Least(Len(Rest(0)), WriteSize))
         /\ c.fd = call.fd /\ ~call.over /\ SameHandles(owned)
         /\ c.fd \in DOMAIN owned /\ c.fd \in DOMAIN fds
         /\ fds[c.fd].path = owned[c.fd].path /\ fds[c.fd].offset = call.start + call.done
<1>1. Fresh(c, answer) /\ late' = NoCmd BY FirstOrAgain DEF Services, Transfer, Once
<1>2. /\ phase = "sent" /\ phase' = "ran" /\ c = cmd /\ cmd' = c /\ ans' = answer
      /\ UNCHANGED <<call, owned, found>>
  BY <1>1 DEF Fresh, atari
<1>3. call.kind \in {"read", "write"} /\ ~call.over
  BY <1>2 DEF Calling, Services, Transfer
<1>4. \A h, n : LET a == AskChunk(h, n) IN a.kind = "readbuff" /\ a.fd = h /\ a.n = n
  BY DEF AskChunk, Handle, NoCmd
<1>5. \A h, b : LET a == SendChunk(h, b)
                IN /\ a.kind = "writebuff" /\ a.fd = h
                   /\ a.bytes = SubSeq(b, 1, Least(Len(b), WriteSize))
  BY DEF SendChunk, Handle, NoCmd
<1>6. CASE call.kind = "read"
  <2>1. c = AskChunk(call.fd, call.left) BY <1>2, <1>3, <1>6 DEF Calling, Busy, Services
  <2>2. c.kind = "readbuff" /\ c.fd = call.fd /\ c.n = call.left BY <1>4, <2>1
  <2>3. SameHandles(owned) BY <1>2, <2>2 DEF Agree, Due, Services
  <2> QED BY <1>1, <1>2, <1>3, <1>6, <2>2, <2>3 DEF Calling, Services, SameHandles
<1>7. CASE call.kind = "write"
  <2>1. c = SendChunk(call.fd, Rest(0)) BY <1>2, <1>3, <1>7 DEF Calling, Busy, Services
  <2>2. /\ c.kind = "writebuff" /\ c.fd = call.fd
        /\ c.bytes = SubSeq(Rest(0), 1, Least(Len(Rest(0)), WriteSize))
    BY <1>5, <2>1
  <2>3. SameHandles(owned) BY <1>2, <2>2 DEF Agree, Due, Services
  <2> QED BY <1>1, <1>2, <1>3, <1>7, <2>2, <2>3 DEF Calling, Services, SameHandles
<1> QED BY <1>3, <1>6, <1>7

\* The file of descriptor h gets this content, and the descriptor moves on by n.
Moves(h, content, n) ==
  /\ content \in Seq(Nat) /\ Len(content) <= MaxSize
  /\ content = files[fds[h].path] \/ fds[h].mode # "r"
  /\ DOMAIN files' = DOMAIN files /\ files'[fds[h].path] = content
  /\ \A p \in DOMAIN files \ {fds[h].path} : files'[p] = files[p]
  /\ DOMAIN fds' = DOMAIN fds /\ \A g \in DOMAIN fds \ {h} : fds'[g] = fds[g]
  /\ fds'[h].path = fds[h].path /\ fds'[h].offset = fds[h].offset + n
  /\ NodePlaced(fds'[h], Len(content))

LEMMA MoveServes ==
  ASSUME Harmless, IInv, Services, NEW c \in {cmd, late}, NEW answer, Runs(c, answer),
         c.kind \in Transfer, dtas' = dtas, NEW content, NEW n, answer.n = n,
         Moves(c.fd, content, n), Reading', Writing'
  PROVE  Services'
<1>1. /\ phase = "sent" /\ phase' = "ran" /\ c = cmd /\ cmd' = c /\ ans' = answer
      /\ UNCHANGED <<call, owned, found>> /\ c.fd = call.fd /\ SameHandles(owned)
      /\ c.fd \in DOMAIN owned /\ c.fd \in DOMAIN fds
  BY TransferAsked
<1>2. Exchange' /\ Asking' /\ LateCommand' /\ Calling' BY RunServes
<1>3. LateSeek' /\ LateSearch' BY RunKeepsLate DEF Transfer
<1>4. Searches' BY RunKeepsFound DEF Transfer, Live
<1>5. FilesOK' BY <1>1, OpenIsLocked DEF Moves, FilesOK, Services
<1>6. Placed'
  <2>1. SUFFICES ASSUME NEW g \in DOMAIN fds' PROVE NodePlaced(fds'[g], Len(files'[fds'[g].path]))
    BY DEF Placed, NodePlaced
  <2>2. CASE g = c.fd BY <2>2 DEF Moves
  <2>3. CASE g # c.fd
    <3>1. g \in DOMAIN fds /\ fds'[g] = fds[g] BY <2>3 DEF Moves
    <3>2. files'[fds[g].path] = files[fds[g].path]
      <4>1. CASE fds[g].path = fds[c.fd].path
        <5>1. fds[c.fd].mode = "r" BY <1>1, <2>3, <3>1, <4>1 DEF IInv, ExclusiveWriter
        <5> QED BY <4>1, <5>1 DEF Moves
      <4>2. CASE fds[g].path # fds[c.fd].path BY <3>1, <4>2, OpenIsLocked DEF Moves
      <4> QED BY <4>1, <4>2
    <3> QED BY <3>1, <3>2 DEF Placed, Services
  <2> QED BY <2>2, <2>3
<1>7. Agree'
  <2>1. Due' = [owned EXCEPT ![c.fd].pos = owned[c.fd].pos + n] BY <1>1 DEF Due
  <2>2. \A h \in DOMAIN owned : {"path", "pos"} \subseteq DOMAIN owned[h]
    BY DEF Asking, Held, Services
  <2> DEFINE to == owned[c.fd].pos + n
  <2>3. /\ DOMAIN Due' = DOMAIN owned /\ Due'[c.fd].pos = to /\ Due'[c.fd].path = owned[c.fd].path
        /\ \A h \in DOMAIN owned \ {c.fd} : Due'[h] = owned[h]
    <3>1. Due' = [owned EXCEPT ![c.fd].pos = to] BY <2>1
    <3> HIDE DEF to
    <3> QED BY <1>1, <2>2, <3>1
  <2>4. fds'[c.fd].offset = to BY <1>1 DEF Moves, SameHandles
  <2> HIDE DEF to
  <2>5. DOMAIN fds' = DOMAIN Due' BY <1>1, <2>3 DEF Moves, SameHandles
  <2>6. ASSUME NEW h \in DOMAIN Due'
        PROVE  fds'[h].path = Due'[h].path /\ fds'[h].offset = Due'[h].pos
    <3>1. h \in DOMAIN owned /\ h \in DOMAIN fds /\ fds[h].path = owned[h].path
          /\ fds[h].offset = owned[h].pos
      BY <1>1, <2>3 DEF SameHandles
    <3>2. CASE h = c.fd BY <2>3, <2>4, <3>1, <3>2 DEF Moves
    <3>3. CASE h # c.fd BY <2>3, <3>1, <3>3 DEF Moves
    <3> QED BY <3>2, <3>3
  <2> QED BY <2>5, <2>6 DEF Agree, SameHandles
<1> QED BY <1>2, <1>3, <1>4, <1>5, <1>6, <1>7 DEF Services

\* The content and the place a transfer of an open descriptor works on.
LEMMA SyncedOpen ==
  ASSUME IInv, Services, NEW h \in DOMAIN fds
  PROVE  LET f == fds[h]
             s == Synced(f)
             size == Len(files[f.path])
         IN /\ s.content \in Seq(Nat) /\ size \in 0 .. MaxSize /\ Len(s.content) \in size .. MaxSize
            /\ f.offset \in Nat /\ s.at \in Nat /\ s.at = Least(f.offset, Len(s.content))
            /\ f.offset <= size \/ Beyond(f.offset)
            /\ f.mode = "r" \/ f.offset <= size => s.content = files[f.path]
<1>1. NodePlaced(fds[h], Len(files[fds[h].path])) /\ fds[h].path \in DOMAIN files
  BY OpenIsLocked DEF Placed, Services
<1>2. Len(files[fds[h].path]) \in 0 .. MaxSize BY <1>1, LenProperties DEF FilesOK, Services
<1> QED BY <1>1, <1>2, SyncedIs DEF Services, NodePlaced, Nodes

\* A descriptor that moves on and stays placed.
LEMMA NodeMoved ==
  ASSUME NEW f \in Nodes, NEW at, NEW n \in Nat, NEW longer \in Nat,
         at + n = Least(f.offset + n, longer),
         f.offset + n <= longer \/ (Beyond(f.offset) /\ n = 0)
  PROVE  /\ NodePlaced(Advance(f, at, n), longer) /\ Advance(f, at, n).path = f.path
         /\ Advance(f, at, n).offset = f.offset + n
<1> DEFINE to == f.offset + n
           ptr == at + n
           g == Advance(f, at, n)
<1>1. f.offset \in Nat BY DEF Nodes
<1>2. to \in Nat /\ (to <= longer \/ Beyond(to)) BY <1>1
<1>3. g = [f EXCEPT !.ptr = ptr, !.offset = to] BY DEF Advance
<1>4. ptr = Least(to, longer) OBVIOUS
<1> HIDE DEF to, ptr
<1>5. ptr \in Int BY <1>2, <1>4 DEF Least
<1>6. to \in Nat BY <1>2
<1>7. g \in Nodes /\ g.path = f.path /\ g.offset = to /\ g.ptr = ptr
  <2> HIDE DEF g
  <2> QED BY <1>3, <1>5, <1>6 DEF Nodes
<1>8. NodePlaced(g, longer) BY <1>2, <1>4, <1>7 DEF NodePlaced
<1> QED BY <1>7, <1>8 DEF to

\* A transfer that is refused leaves the descriptor where it is.
LEMMA RefusedMoves ==
  ASSUME IInv, Services, NEW c, c.fd \in DOMAIN fds, NEW denied, Refused(c, fds[c.fd], denied)
  PROVE  \E content : /\ Moves(c.fd, content, 0)
                      /\ fds[c.fd].offset <= Len(files[fds[c.fd].path]) =>
                           content = files[fds[c.fd].path]
<1> DEFINE f == fds[c.fd]
           s == Synced(f)
           card == files[f.path]
           size == Len(card)
<1>1. /\ s.content \in Seq(Nat) /\ size \in 0 .. MaxSize /\ Len(s.content) \in size .. MaxSize
      /\ f.offset \in Nat /\ s.at = Least(f.offset, Len(s.content))
      /\ f.offset <= size \/ Beyond(f.offset)
      /\ f.mode = "r" \/ f.offset <= size => s.content = card
  BY SyncedOpen
<1>2. f.path \in DOMAIN files /\ card \in Seq(Nat) BY OpenIsLocked DEF FilesOK, Services
<1>3. NodePlaced(f, size) BY DEF Placed, Services
<1>4. f \in Nodes BY <1>3 DEF NodePlaced
<1>5. \/ UNCHANGED <<files, fds>>
      \/ /\ files' = [files EXCEPT ![f.path] = s.content]
         /\ fds' = [fds EXCEPT ![c.fd].ptr = s.at]
      \/ /\ fds' = [fds EXCEPT ![c.fd].err = TRUE]
         /\ UNCHANGED files
  BY DEF Refused
<1> DEFINE content == s.content
           at == s.at
<1>6. /\ content \in Seq(Nat) /\ size \in 0 .. MaxSize /\ Len(content) \in size .. MaxSize
      /\ at = Least(f.offset, Len(content))
      /\ f.mode = "r" \/ f.offset <= size => content = card
  BY <1>1
<1>7. \/ UNCHANGED <<files, fds>>
      \/ /\ files' = [files EXCEPT ![f.path] = content]
         /\ fds' = [fds EXCEPT ![c.fd].ptr = at]
      \/ /\ fds' = [fds EXCEPT ![c.fd].err = TRUE]
         /\ UNCHANGED files
  BY <1>5
<1> HIDE DEF content, at, s
<1>8. size <= MaxSize /\ f.offset + 0 = f.offset BY <1>1, <1>6
<1>9. CASE UNCHANGED <<files, fds>>
  <2>1. Moves(c.fd, card, 0) BY <1>2, <1>3, <1>8, <1>9 DEF Moves
  <2> QED BY <2>1
<1>10. CASE /\ files' = [files EXCEPT ![f.path] = content]
            /\ fds' = [fds EXCEPT ![c.fd].ptr = at]
  <2>1. /\ DOMAIN fds' = DOMAIN fds /\ \A g \in DOMAIN fds \ {c.fd} : fds'[g] = fds[g]
        /\ fds'[c.fd] = [f EXCEPT !.ptr = at]
    BY <1>10
  <2>2. at \in Int /\ Len(content) <= MaxSize BY <1>1, <1>6 DEF Least
  <2>3. /\ fds'[c.fd] \in Nodes /\ fds'[c.fd].path = f.path /\ fds'[c.fd].offset = f.offset
        /\ fds'[c.fd].ptr = at
    BY <1>4, <2>1, <2>2 DEF Nodes
  <2>4. f.offset <= Len(content) \/ Beyond(f.offset) BY <1>1, <1>6
  <2>5. NodePlaced(fds'[c.fd], Len(content)) BY <1>6, <2>3, <2>4 DEF NodePlaced
  <2>6. /\ DOMAIN files' = DOMAIN files /\ files'[f.path] = content
        /\ \A p \in DOMAIN files \ {f.path} : files'[p] = files[p]
    BY <1>2, <1>10
  <2>7. Moves(c.fd, content, 0) BY <1>6, <1>8, <2>1, <2>2, <2>3, <2>5, <2>6 DEF Moves
  <2> QED BY <1>6, <2>7
<1>11. CASE fds' = [fds EXCEPT ![c.fd].err = TRUE] /\ UNCHANGED files
  <2>1. /\ DOMAIN fds' = DOMAIN fds /\ \A g \in DOMAIN fds \ {c.fd} : fds'[g] = fds[g]
        /\ fds'[c.fd] = [f EXCEPT !.err = TRUE]
    BY <1>11
  <2>2. /\ fds'[c.fd] \in Nodes /\ fds'[c.fd].path = f.path /\ fds'[c.fd].offset = f.offset
        /\ fds'[c.fd].ptr = f.ptr
    BY <1>4, <2>1 DEF Nodes
  <2>3. NodePlaced(fds'[c.fd], size) BY <1>3, <2>2 DEF NodePlaced
  <2>4. Moves(c.fd, card, 0) BY <1>2, <1>8, <1>11, <2>1, <2>2, <2>3 DEF Moves
  <2> QED BY <2>4
<1> QED BY <1>7, <1>9, <1>10, <1>11

\* A transfer of n bytes that leaves this content.
LEMMA AdvanceMoves ==
  ASSUME IInv, Services, NEW h \in DOMAIN fds, NEW content \in Seq(Nat), NEW n \in Nat,
         Len(content) <= MaxSize, content = files[fds[h].path] \/ fds[h].mode # "r",
         files' = [files EXCEPT ![fds[h].path] = content],
         NEW at, fds' = [fds EXCEPT ![h] = Advance(fds[h], at, n)],
         at + n = Least(fds[h].offset + n, Len(content)),
         fds[h].offset + n <= Len(content) \/ (Beyond(fds[h].offset) /\ n = 0)
  PROVE  Moves(h, content, n)
<1>1. fds[h].path \in DOMAIN files BY OpenIsLocked
<1>2. fds'[h] = Advance(fds[h], at, n) OBVIOUS
<1>3. DOMAIN fds' = DOMAIN fds /\ \A g \in DOMAIN fds \ {h} : fds'[g] = fds[g] OBVIOUS
<1>4. NodePlaced(fds[h], Len(files[fds[h].path])) BY DEF Placed, Services
<1>5. Len(content) \in Nat BY LenProperties
<1>6. /\ NodePlaced(fds'[h], Len(content)) /\ fds'[h].path = fds[h].path
      /\ fds'[h].offset = fds[h].offset + n
  <2>1. fds[h] \in Nodes BY <1>4 DEF NodePlaced
  <2> QED BY <1>2, <1>5, <2>1, NodeMoved
<1>7. /\ DOMAIN files' = DOMAIN files /\ files'[fds[h].path] = content
      /\ \A p \in DOMAIN files \ {fds[h].path} : files'[p] = files[p]
  BY <1>1
<1> QED BY <1>3, <1>6, <1>7 DEF Moves

LEMMA ReadServes ==
  ASSUME Harmless, IInv, Services, NEW c \in {cmd, late}, ReadBuff(c) PROVE Services'
<1> DEFINE f == fds[c.fd]
           s == Synced(f)
           size == Len(files[f.path])
           at == call.start + call.done
           n == Least(Least(c.n, ReadSize), Len(s.content) - s.at)
<1>1. PICK answer : Runs(c, answer) BY DEF ReadBuff, Refused
<1>2. c.kind = "readbuff" /\ c.kind \in Transfer /\ UNCHANGED dtas BY DEF ReadBuff, Transfer
<1>3. /\ phase = "sent" /\ phase' = "ran" /\ UNCHANGED <<call, owned>>
      /\ call.kind = "read" /\ ~call.over /\ c.n = call.left /\ c.fd = call.fd
      /\ c.fd \in DOMAIN owned /\ c.fd \in DOMAIN fds
      /\ f.path = owned[call.fd].path /\ f.offset = at
  BY <1>1, <1>2, TransferAsked
<1>4. \A a : Runs(c, a) => ans' = a BY <1>2, TransferAsked
<1>5. Writing' BY <1>3 DEF Writing
<1>6. LET b == call.before
      IN /\ b \in Seq(Nat) /\ call.start \in Nat /\ call.done \in Nat /\ call.left \in Nat
         /\ \/ files[f.path] = b /\ at <= Len(b)
            \/ Len(b) < call.start /\ Beyond(call.start) /\ call.done = 0
         /\ call.data = SubSeq(b, call.start + 1, at)
  BY <1>3 DEF Reading, File, Services
<1>7. /\ s.content \in Seq(Nat) /\ size \in 0 .. MaxSize /\ Len(s.content) \in size .. MaxSize
      /\ f.offset \in Nat /\ s.at \in Nat /\ s.at = Least(f.offset, Len(s.content))
      /\ f.offset <= size \/ Beyond(f.offset)
      /\ f.mode = "r" \/ f.offset <= size => s.content = files[f.path]
  BY <1>3, SyncedOpen
<1>8. ASSUME Refused(c, f, f.mode = "w") PROVE Services'
  <2>1. PICK content : /\ Moves(c.fd, content, 0)
                       /\ f.offset <= size => content = files[f.path]
    BY <1>3, <1>8, RefusedMoves
  <2>2. ans' = Says("EINTRN") /\ Runs(c, Says("EINTRN")) BY <1>4, <1>8 DEF Refused
  <2>3. ans'.code = "EINTRN" /\ ans'.n = 0 /\ ans'.bytes = <<>> /\ Says("EINTRN").n = 0
    BY <2>2 DEF Says, NoAns
  <2>4. File' = content BY <1>3, <2>1 DEF File, Moves
  <2>5. files[f.path] = call.before /\ at <= Len(call.before) => File' = call.before
    BY <1>3, <2>1, <2>4
  <2>6. Reading'
    <3> HIDE DEF at, f, s, size, n
    <3> QED BY <1>3, <1>6, <2>3, <2>5 DEF Reading, at
  <2> QED BY <1>2, <1>5, <2>1, <2>2, <2>3, <2>6, MoveServes
<1>9. CASE /\ files' = [files EXCEPT ![f.path] = s.content] /\ f.mode # "w"
           /\ fds' = [fds EXCEPT ![c.fd] = Advance(f, s.at, n)]
           /\ Runs(c, [NoAns EXCEPT !.n = n, !.bytes = SubSeq(s.content, s.at + 1, s.at + n)])
  <2> DEFINE a == [NoAns EXCEPT !.n = n, !.bytes = SubSeq(s.content, s.at + 1, s.at + n)]
  <2>1. ans' = a /\ Runs(c, a) BY <1>4, <1>9
  <2>2. a.code = "EOK" /\ a.n = n /\ a.bytes = SubSeq(s.content, s.at + 1, s.at + n)
    BY DEF NoAns
  <2> DEFINE content == s.content
             from == s.at
             b == call.before
  <2>3. /\ content \in Seq(Nat) /\ Len(content) \in Nat /\ Len(content) <= MaxSize /\ size <= Len(content)
        /\ size \in Nat /\ MaxSize \in Nat
        /\ f.offset \in Nat /\ from \in Nat /\ from = Least(f.offset, Len(content))
        /\ f.offset <= size \/ Beyond(f.offset)
        /\ content = files[f.path] \/ f.mode # "r"
        /\ f.offset <= size => content = files[f.path]
    BY <1>7, GemAssumption
  <2>4. call.left \in Nat /\ ReadSize \in Nat /\ c.n = call.left BY <1>3, <1>6, GemAssumption
  <2>5. n = Least(Least(call.left, ReadSize), Len(content) - from) BY <1>3
  <2>6. /\ files' = [files EXCEPT ![f.path] = content]
        /\ fds' = [fds EXCEPT ![c.fd] = Advance(f, from, n)]
    BY <1>9
  <2> HIDE DEF a, n, s, content, from
  <2>7. n \in Nat /\ n <= Least(call.left, ReadSize) /\ n <= Len(content) - from
        /\ (n = Least(call.left, ReadSize) \/ n = Len(content) - from)
    <3> DEFINE want == Least(call.left, ReadSize)
               rest == Len(content) - from
    <3>1. from <= Len(content) BY <2>3, LeastIs
    <3>2. want \in Nat BY <2>4 DEF Least
    <3>3. rest \in Nat BY <2>3, <3>1
    <3>4. n = Least(want, rest) BY <2>5
    <3> HIDE DEF want, rest
    <3>5. n \in Nat /\ n <= want /\ n <= rest /\ (n = want \/ n = rest)
      BY <3>2, <3>3, <3>4 DEF Least
    <3> QED BY <3>5 DEF want, rest
  <2>8. ASSUME f.offset <= size
        PROVE  /\ from = f.offset /\ f.offset + n <= Len(content)
               /\ from + n = Least(f.offset + n, Len(content))
    <3>1. f.offset \in Nat /\ Len(content) \in Nat /\ f.offset <= Len(content)
          /\ from = Least(f.offset, Len(content))
      BY <2>3, <2>8
    <3>2. from = f.offset BY <3>1, LeastIs
    <3>3. n \in Nat /\ f.offset + n <= Len(content) BY <2>7, <3>1, <3>2
    <3> QED BY <3>1, <3>2, <3>3 DEF Least
  <2>9. ASSUME ~(f.offset <= size)
        PROVE  /\ Beyond(f.offset) /\ from = Len(content) /\ n = 0
               /\ from + n = Least(f.offset + n, Len(content))
    <3>1. Beyond(f.offset) BY <2>3, <2>9
    <3>2. f.offset > Len(content) BY <2>3, <3>1, GemAssumption DEF Beyond
    <3>3. from = Len(content) BY <2>3, <3>2 DEF Least
    <3>4. n = 0 BY <2>3, <2>7, <3>3
    <3> QED BY <2>3, <3>1, <3>2, <3>3, <3>4 DEF Least
  <2>10. /\ from + n = Least(f.offset + n, Len(content))
         /\ f.offset + n <= Len(content) \/ (Beyond(f.offset) /\ n = 0)
    BY <2>8, <2>9
  <2>11. Moves(c.fd, content, n)
    BY <1>3, <2>3, <2>6, <2>7, <2>10, AdvanceMoves
  <2>12. File' = content BY <1>3, <2>11 DEF File, Moves
  <2>13. ans'.code = "EOK" /\ ans'.n = n /\ ans'.bytes = SubSeq(content, from + 1, from + n)
    BY <2>1, <2>2 DEF content, from
  <2>14. Len(b) \in Nat BY <1>6, LenProperties
  <2>15. CASE files[f.path] = b /\ at <= Len(b)
    <3>1. f.offset <= size /\ content = b /\ from = at BY <1>3, <2>3, <2>8, <2>15
    <3>2. /\ at + n <= Len(b) /\ (n = Least(call.left, ReadSize) \/ at + n >= Len(b))
      BY <2>3, <2>7, <2>8, <2>14, <3>1
    <3>3. n \in 0 .. Least(call.left, ReadSize) BY <2>4, <2>7 DEF Least
    <3>4. File' = b /\ ans'.bytes = SubSeq(b, at + 1, at + n) BY <2>12, <2>13, <3>1
    <3> HIDE DEF at, f, size
    <3> QED BY <1>1, <1>2, <1>3, <1>5, <1>6, <2>1, <2>2, <2>11, <2>13, <2>15, <3>2, <3>3, <3>4,
               MoveServes DEF Reading, at
  <2>16. CASE Len(b) < call.start /\ Beyond(call.start) /\ call.done = 0
    <3>1. at = call.start /\ at > Len(b) BY <1>6, <2>14, <2>16
    <3>2. ~(f.offset <= size)
      <4>1. LongMod <= 2 * f.offset BY <1>3, <2>16, <3>1 DEF Beyond
      <4> QED BY <2>3, <4>1, GemAssumption
    <3>3. n = 0 /\ 0 \in 0 .. Least(call.left, ReadSize) BY <2>4, <2>9, <3>2 DEF Least
    <3>4. SubSeq(content, from + 1, from + n) = <<>> /\ SubSeq(b, at + 1, at + n) = <<>>
      BY <1>6, <2>3, <3>3, SubSeqEmpty
    <3>5. ans'.bytes = SubSeq(b, at + 1, at + n) BY <2>13, <3>4
    <3>6. at + n >= Len(b) BY <2>14, <3>1, <3>3, <1>6
    <3> HIDE DEF at, f, size
    <3> QED BY <1>1, <1>2, <1>3, <1>5, <1>6, <2>1, <2>2, <2>11, <2>13, <2>16, <3>3, <3>5, <3>6,
               MoveServes DEF Reading, at
  <2> QED BY <1>6, <2>15, <2>16
<1>10. \/ Refused(c, f, f.mode = "w")
       \/ /\ files' = [files EXCEPT ![f.path] = s.content] /\ f.mode # "w"
          /\ fds' = [fds EXCEPT ![c.fd] = Advance(f, s.at, n)]
          /\ Runs(c, [NoAns EXCEPT !.n = n, !.bytes = SubSeq(s.content, s.at + 1, s.at + n)])
  BY <1>3, Zenon DEF ReadBuff
<1> QED BY <1>8, <1>9, <1>10

LEMMA WriteServes ==
  ASSUME Harmless, IInv, Services, NEW c \in {cmd, late}, WriteBuff(c) PROVE Services'
<1> DEFINE f == fds[c.fd]
           s == Synced(f)
           size == Len(files[f.path])
           at == call.start + call.done
           b == call.before
           d == call.data
<1>1. PICK answer : Runs(c, answer) BY DEF WriteBuff, Refused
<1>2. c.kind = "writebuff" /\ c.kind \in Transfer /\ UNCHANGED dtas BY DEF WriteBuff, Transfer
<1>3. /\ phase = "sent" /\ phase' = "ran" /\ UNCHANGED <<call, owned>>
      /\ call.kind = "write" /\ ~call.over /\ c.fd = call.fd
      /\ c.bytes = SubSeq(Rest(0), 1, Least(Len(Rest(0)), WriteSize))
      /\ c.fd \in DOMAIN owned /\ c.fd \in DOMAIN fds
      /\ f.path = owned[call.fd].path /\ f.offset = at
  BY <1>1, <1>2, TransferAsked
<1>4. \A a : Runs(c, a) => ans' = a BY <1>2, TransferAsked
<1>5. Reading' BY <1>3 DEF Reading
<1>6. /\ b \in Seq(Nat) /\ d \in Seq(Nat) /\ call.start \in Nat /\ call.done \in Nat
      /\ call.start <= Len(b) /\ call.start + Len(d) <= MaxSize
      /\ call.done \in 0 .. Len(d)
      /\ files[f.path] = Overwritten(b, call.start, SubSeq(d, 1, call.done))
  BY <1>3 DEF Writing, Stored, File, Services
<1>7. Len(b) \in Nat /\ Len(d) \in Nat BY <1>6, LenProperties
<1>8. /\ s.content \in Seq(Nat) /\ size \in 0 .. MaxSize /\ Len(s.content) \in size .. MaxSize
      /\ f.offset \in Nat /\ s.at \in Nat /\ s.at = Least(f.offset, Len(s.content))
      /\ f.mode = "r" \/ f.offset <= size => s.content = files[f.path]
  BY <1>3, SyncedOpen
<1>9. call.start \in 0 .. Len(b) /\ call.done \in 0 .. Len(d) /\ 0 \in 0 .. Len(d) - call.done
  BY <1>6, <1>7
<1>10. files[f.path] \in Seq(Nat) /\ at <= size
  <2>1. LET o == Overwritten(b, call.start, SubSeq(d, 1, call.done))
        IN o \in Seq(Nat) /\ call.start + call.done <= Len(o)
    BY <1>6, <1>9, OverwriteMore
  <2> QED BY <1>6, <2>1
<1>11. s.content = files[f.path] /\ s.at = at
  <2>1. f.offset <= size BY <1>3, <1>10
  <2>2. s.content = files[f.path] BY <1>8, <2>1
  <2>3. f.offset \in Int /\ size \in Int /\ s.at = Least(f.offset, size) BY <1>8, <2>2
  <2>4. s.at = f.offset BY <2>1, <2>3, LeastIs
  <2> QED BY <1>3, <2>2, <2>4
<1>12. ASSUME Refused(c, f, f.mode = "r") PROVE Services'
  <2>1. PICK content : /\ Moves(c.fd, content, 0)
                       /\ f.offset <= size => content = files[f.path]
    BY <1>3, <1>12, RefusedMoves
  <2>2. ans' = Says("EINTRN") /\ Runs(c, Says("EINTRN")) BY <1>4, <1>12 DEF Refused
  <2>3. ans'.n = 0 /\ Says("EINTRN").n = 0 BY <2>2 DEF Says, NoAns
  <2>4. File' = files[f.path] BY <1>3, <1>10, <2>1 DEF File, Moves
  <2>5. Stored' = call.done /\ phase' = "ran" BY <1>3, <1>6, <2>3 DEF Stored
  <2>6. Writing'
    <3> HIDE DEF f, s, size, at
    <3> QED BY <1>3, <1>6, <2>3, <2>4, <2>5 DEF Writing
  <2> QED BY <1>2, <1>5, <2>1, <2>2, <2>3, <2>6, MoveServes
<1>13. ASSUME NEW n \in Storable(f, s, c.bytes), f.mode # "r",
              files' = [files EXCEPT ![f.path] =
                          Overwritten(s.content, s.at, SubSeq(c.bytes, 1, n))],
              fds' = [fds EXCEPT ![c.fd] = Advance(f, s.at, n)],
              Runs(c, Counts(n))
       PROVE  Services'
  <2> DEFINE w == Least(Len(Rest(0)), WriteSize)
             part == SubSeq(d, call.done + 1, call.done + n)
             content == Overwritten(files[f.path], at, part)
  <2>1. Rest(0) = SubSeq(d, call.done + 1, Len(d))
    <3>1. call.done + 0 + 1 = call.done + 1 BY <1>6
    <3> QED BY <3>1 DEF Rest
  <2>2. Len(Rest(0)) = Len(d) - call.done
    BY <1>6, <1>9, <2>1, ChunkIs
  <2>3. w \in 0 .. Len(d) - call.done BY <1>7, <1>9, <2>2, GemAssumption DEF Least
  <2>4. /\ Len(c.bytes) = w /\ n \in 0 .. Len(c.bytes)
    <3>1. n \in 0 .. Len(c.bytes) BY <1>13 DEF Storable
    <3>2. Len(c.bytes) = w
      <4> HIDE DEF w
      <4>1. Len(SubSeq(SubSeq(d, call.done + 1, Len(d)), 1, w)) = w
        BY <1>6, <1>9, <2>3, ChunkIs
      <4> QED BY <1>3, <2>1, <4>1 DEF w
    <3> QED BY <3>1, <3>2
  <2>5. n \in 0 .. w /\ n \in Nat BY <2>3, <2>4
  <2>6. SubSeq(c.bytes, 1, n) = part
    <3> HIDE DEF w
    <3>1. SubSeq(SubSeq(SubSeq(d, call.done + 1, Len(d)), 1, w), 1, n)
            = SubSeq(d, call.done + 1, call.done + n)
      BY <1>6, <1>9, <2>3, <2>5, ChunkIs
    <3> QED BY <1>3, <2>1, <3>1 DEF w
  <2>7. n \in 0 .. Len(d) - call.done BY <1>7, <1>9, <2>3, <2>5
  <2> HIDE DEF w
  <2>8. content = Overwritten(b, call.start, SubSeq(d, 1, call.done + n))
    BY <1>6, <1>9, <2>7, OverwriteMore
  <2>9. /\ content \in Seq(Nat) /\ Len(content) = IF at + n > size THEN at + n ELSE size
    <3>1. /\ call.done + 1 \in 1 .. Len(d) + 1
          /\ call.done + n \in (call.done + 1) - 1 .. Len(d)
      BY <1>7, <1>9, <2>7
    <3>2. part \in Seq(Nat) /\ Len(part) = (call.done + n) - (call.done + 1) + 1
      BY <1>6, <3>1, PartIs
    <3>3. Len(part) = n BY <1>6, <2>5, <3>2
    <3>4. at \in 0 .. size BY <1>6, <1>8, <1>10
    <3> HIDE DEF part
    <3>5. Overwrites(content, files[f.path], at, part) BY <1>10, <3>2, <3>4, OverwrittenIs
    <3> HIDE DEF content, at, f
    <3> QED BY <3>3, <3>5 DEF Overwrites
  <2>10. Len(content) <= MaxSize
    <3>1. call.start + Len(d) <= MaxSize /\ MaxSize \in Nat /\ call.start \in Nat
      BY <1>6, GemAssumption
    <3>2. at + n <= MaxSize BY <1>7, <1>9, <2>5, <2>7, <3>1
    <3>3. size <= MaxSize BY <1>8
    <3>4. Len(content) = IF at + n > size THEN at + n ELSE size BY <2>9
    <3> HIDE DEF content, at, f
    <3> QED BY <3>2, <3>3, <3>4
  <2>11. at \in Nat /\ at + n <= Len(content) /\ Len(content) \in Nat
    <3>1. at \in Nat /\ size \in Nat BY <1>6, <1>8
    <3>2. Len(content) = IF at + n > size THEN at + n ELSE size BY <2>9
    <3> HIDE DEF content, at, f
    <3> QED BY <2>5, <3>1, <3>2
  <2>12. at + n = Least(f.offset + n, Len(content)) /\ f.offset + n <= Len(content)
    <3> HIDE DEF content, at
    <3>1. at + n \in Int /\ Len(content) \in Int /\ at + n <= Len(content) BY <2>5, <2>11
    <3>2. Least(at + n, Len(content)) = at + n BY <3>1, LeastIs
    <3> QED BY <1>3, <3>1, <3>2
  <2>13. /\ files' = [files EXCEPT ![f.path] = content]
         /\ fds' = [fds EXCEPT ![c.fd] = Advance(f, at, n)]
    BY <1>11, <1>13, <2>6
  <2> HIDE DEF content
  <2>14. Moves(c.fd, content, n)
    <3> HIDE DEF at
    <3> QED BY <1>3, <1>13, <2>5, <2>9, <2>10, <2>12, <2>13, AdvanceMoves
  <2>15. ans' = Counts(n) /\ ans'.n = n /\ Counts(n).n = n BY <1>4, <1>13 DEF Counts, NoAns
  <2>16. File' = content BY <1>3, <2>14 DEF File, Moves
  <2>17. Stored' = call.done + n /\ Stored' \in 0 .. Len(d)
    BY <1>3, <1>6, <1>7, <2>7, <2>15 DEF Stored
  <2>18. Writing'
    <3> HIDE DEF f, s, size, at
    <3> QED BY <1>3, <1>6, <2>5, <2>8, <2>15, <2>16, <2>17 DEF Writing
  <2> QED BY <1>2, <1>5, <1>13, <2>14, <2>15, <2>18, MoveServes
<1>14. \/ Refused(c, f, f.mode = "r")
       \/ \E n \in Storable(f, s, c.bytes) :
            /\ f.mode # "r"
            /\ files' = [files EXCEPT ![f.path] =
                           Overwritten(s.content, s.at, SubSeq(c.bytes, 1, n))]
            /\ fds' = [fds EXCEPT ![c.fd] = Advance(f, s.at, n)]
            /\ Runs(c, Counts(n))
  BY <1>3, Zenon DEF WriteBuff
<1> HIDE DEF s, f
<1> QED BY <1>12, <1>13, <1>14, Zenon

LEMMA RpServes == ASSUME Harmless, IInv, IInv', Services, Rp PROVE Services'
BY OpenServes, CreateServes, CloseServes, DeleteServes, ResetServes, SeekServes, ReadServes,
   WriteServes, DtaServes, FirstServes, NextServes, Zenon DEF Rp
-----------------------------------------------------------------------------
(* The steps of the Atari                                                   *)

LEMMA RpRests ==
  ASSUME Services, UNCHANGED rp, late' \in {late, NoCmd}
  PROVE  FilesOK' /\ Placed' /\ LateSeek' /\ LateSearch'
<1>1. UNCHANGED <<files, open, fds, dtas>> BY DEF rp
<1>2. FilesOK' /\ Placed' BY <1>1 DEF FilesOK, Placed, NodePlaced, Services
<1>3. NoCmd.kind = "none" BY DEF NoCmd
<1>4. LateSeek' BY <1>1, <1>3 DEF LateSeek, Services
<1>5. LateSearch' BY <1>1, <1>3 DEF LateSearch, Live, Hit, Services
<1> QED BY <1>2, <1>4, <1>5

\* A program asks for something that is one command, or TOS sets its DTA.
LEMMA AskedServes ==
  ASSUME Services, Idle, UNCHANGED <<rp, call, owned, found, late>>, phase' \in {"idle", "sent"},
         cmd' = NoCmd \/ phase' = "sent",
         cmd'.kind \notin {"readbuff", "writebuff", "reset", "dtarelease"},
         cmd'.kind \in {"fclose", "fseek"} => cmd'.fd \in DOMAIN owned,
         cmd'.kind = "fseek" => <<cmd'.mode, cmd'.n>> \in Seeks
  PROVE  Services'
<1>1. FilesOK' /\ Placed' /\ LateSeek' /\ LateSearch' BY RpRests
<1>2. phase = "idle" /\ call.kind = "none" BY DEF Idle
<1>3. NoCmd.kind = "none" BY DEF NoCmd
<1>4. Exchange' BY <1>2 DEF Exchange, Services
<1>5. Asking' BY DEF Asking, Services
<1>6. Agree'
  <2>1. SameHandles(owned) BY <1>2 DEF Agree, Due, Services
  <2>2. Due' = owned BY DEF Due
  <2> QED BY <2>1, <2>2 DEF Agree, SameHandles, rp
<1>7. Searches'
  <2>1. FoundDue' = found /\ FoundDue = found BY <1>2 DEF FoundDue
  <2> QED BY <2>1 DEF Searches, Live, rp, Services
<1>8. LateCommand' BY DEF LateCommand, Services
<1>9. Calling' BY <1>2, <1>3 DEF Calling, Busy, Transfer, Services
<1>10. Reading' /\ Writing' BY <1>2 DEF Reading, Writing
<1> QED BY <1>1, <1>4, <1>5, <1>6, <1>7, <1>8, <1>9, <1>10 DEF Services

LEMMA AskServes == ASSUME Services, Ask \/ SetDta PROVE Services'
<1>1. Idle /\ UNCHANGED <<rp, call, owned, found>> BY DEF Ask, SetDta, atari
<1>2. CASE Ask
  <2> DEFINE Plain(c) == c.kind \in {"fopen", "fcreate", "fdelete", "frename", "fsfirst"}
  <2>1. \A p, m : Plain([Path("fopen", p) EXCEPT !.mode = m]) BY DEF NoCmd, Path
  <2>2. \A p : Plain([Path("fcreate", p) EXCEPT !.mode = "rw"]) BY DEF NoCmd, Path
  <2>3. \A p : Plain(Path("fdelete", p)) BY DEF NoCmd, Path
  <2>4. \A p, q : Plain([Path("frename", p) EXCEPT !.to = q]) BY DEF NoCmd, Path
  <2>5. \A p : Plain([Path("fsfirst", p) EXCEPT !.key = tosDta]) BY DEF NoCmd, Path
  <2>6. \A h : Handle("fclose", h).kind = "fclose" /\ Handle("fclose", h).fd = h
    BY DEF NoCmd, Handle
  <2>7. \A h, m, n : LET a == [Handle("fseek", h) EXCEPT !.mode = m, !.n = n]
                     IN a.kind = "fseek" /\ a.fd = h /\ a.mode = m /\ a.n = n
    BY DEF NoCmd, Handle
  <2>8. \A k : LET a == [NoCmd EXCEPT !.kind = "fsnext", !.key = k] IN a.kind = "fsnext"
    BY DEF NoCmd
  <2>9. CASE AskPath
    <3> HIDE DEF Plain
    <3>1. PICK a : Send(a) /\ Plain(a)
      <4>1. CASE \E p \in Paths : \/ \E m \in OpenModes : Send([Path("fopen", p) EXCEPT !.mode = m])
                                \/ Send([Path("fcreate", p) EXCEPT !.mode = "rw"])
        BY <2>1, <2>2, <4>1, Zenon
      <4>2. CASE \E p \in Paths : Send(Path("fdelete", p)) BY <2>3, <4>2, Zenon
      <4>3. CASE \E p, q \in Paths : p # q /\ Send([Path("frename", p) EXCEPT !.to = q])
        BY <2>4, <4>3, Zenon
      <4>4. CASE \E p \in Paths \cup {NoPath} : Send([Path("fsfirst", p) EXCEPT !.key = tosDta])
        BY <2>5, <4>4, Zenon
      <4> QED BY <2>9, <4>1, <4>2, <4>3, <4>4, Zenon DEF AskPath
    <3>2. /\ phase' = "sent" /\ late' = late
          /\ cmd'.kind \in {"fopen", "fcreate", "fdelete", "frename", "fsfirst"}
      BY <3>1 DEF Plain, Send
    <3> QED BY <1>1, <3>2, AskedServes
  <2>10. CASE AskHandle
    <3>1. PICK h \in DOMAIN owned :
            \/ Send(Handle("fclose", h))
            \/ \E x \in Seeks : Send([Handle("fseek", h) EXCEPT !.mode = x[1], !.n = x[2]])
      BY <2>10 DEF AskHandle
    <3>2. CASE Send(Handle("fclose", h))
      <4>1. phase' = "sent" /\ late' = late /\ cmd'.kind = "fclose" /\ cmd'.fd = h
        BY <2>6, <3>2 DEF Send
      <4> QED BY <1>1, <4>1, AskedServes
    <3>3. CASE \E x \in Seeks : Send([Handle("fseek", h) EXCEPT !.mode = x[1], !.n = x[2]])
      <4>1. PICK x \in Seeks : Send([Handle("fseek", h) EXCEPT !.mode = x[1], !.n = x[2]])
        BY <3>3
      <4>2. x = <<x[1], x[2]>> BY GemAssumption
      <4>3. /\ phase' = "sent" /\ late' = late /\ cmd'.kind = "fseek" /\ cmd'.fd = h
            /\ cmd'.mode = x[1] /\ cmd'.n = x[2]
        BY <2>7, <4>1 DEF Send
      <4> QED BY <1>1, <4>2, <4>3, AskedServes
    <3> QED BY <3>1, <3>2, <3>3
  <2>11. CASE AskNext
    <3>1. phase' = "sent" /\ late' = late /\ cmd'.kind = "fsnext" BY <2>8, <2>11 DEF AskNext, Send
    <3> QED BY <1>1, <3>1, AskedServes
  <2> QED BY <1>2, <2>9, <2>10, <2>11 DEF Ask
<1>3. CASE SetDta
  <2>1. \A k : LET a == [NoCmd EXCEPT !.kind = "fsetdta", !.key = k] IN a.kind = "fsetdta"
    BY DEF NoCmd
  <2>2. NoCmd.kind = "none" BY DEF NoCmd
  <2>3. PICK k : Send([NoCmd EXCEPT !.kind = "fsetdta", !.key = k]) \/ UNCHANGED link
    BY <1>3 DEF SetDta
  <2>4. CASE Send([NoCmd EXCEPT !.kind = "fsetdta", !.key = k])
    <3>1. phase' = "sent" /\ late' = late /\ cmd'.kind = "fsetdta" BY <2>1, <2>4 DEF Send
    <3> QED BY <1>1, <3>1, AskedServes
  <2>5. CASE UNCHANGED link
    <3>1. phase' = "idle" /\ late' = late /\ cmd' = NoCmd
      BY <1>1, <2>5 DEF link, Idle, Exchange, Services
    <3> QED BY <1>1, <2>2, <3>1, AskedServes
  <2> QED BY <2>3, <2>4, <2>5
<1> QED BY <1>2, <1>3

\* A program begins an Fread or an Fwrite.
LEMMA BeginServes ==
  ASSUME Services, Idle, UNCHANGED <<rp, owned, found, late>>, phase' = "sent",
         NEW h \in DOMAIN owned, call'.kind \in {"read", "write"}, call'.fd = h, ~call'.over,
         DOMAIN call' = DOMAIN NoCall,
         call'.done = 0, call'.start = owned[h].pos,
         call'.kind = "read" => cmd' = AskChunk(h, call'.left),
         call'.kind = "write" => cmd' = SendChunk(h, SubSeq(call'.data, 1, Len(call'.data))),
         Reading', Writing'
  PROVE  Services'
<1>1. FilesOK' /\ Placed' /\ LateSeek' /\ LateSearch' BY RpRests
<1>2. phase = "idle" /\ call.kind = "none" BY DEF Idle
<1>3. \A g, n : AskChunk(g, n).kind = "readbuff" BY DEF AskChunk, Handle, NoCmd
<1>4. \A g, b : SendChunk(g, b).kind = "writebuff" BY DEF SendChunk, Handle, NoCmd
<1>5. cmd'.kind \in Transfer BY <1>3, <1>4 DEF Transfer
<1>6. Exchange' BY <1>2, <1>5 DEF Exchange, Transfer, Services
<1>7. Asking' BY <1>5 DEF Asking, Transfer, Services
<1>8. Agree'
  <2>1. SameHandles(owned) BY <1>2 DEF Agree, Due, Services
  <2>2. Due' = owned BY DEF Due
  <2> QED BY <2>1, <2>2 DEF Agree, SameHandles, rp
<1>9. Searches'
  <2>1. FoundDue' = found /\ FoundDue = found BY <1>2 DEF FoundDue
  <2> QED BY <2>1 DEF Searches, Live, rp, Services
<1>10. LateCommand' BY DEF LateCommand, Services
<1>11. Calling'
  <2>1. owned[h].pos \in Nat BY DEF Asking, Held, Services
  <2>2. owned'[call'.fd].pos = call'.start + call'.done BY <2>1
  <2>3. Rest(0)' = SubSeq(call'.data, 1, Len(call'.data)) BY DEF Rest
  <2>4. call'.kind = "write" => cmd' = SendChunk(call'.fd, Rest(0)') BY <2>3
  <2>5. call'.kind = "write" => cmd' = SendChunk(call.fd, Rest(0))' BY <2>4 DEF SendChunk, Handle
  <2>6. call'.kind = "read" => cmd' = AskChunk(call.fd, call.left)' BY DEF AskChunk, Handle
  <2> QED BY <2>2, <2>5, <2>6 DEF Calling, Busy
<1> QED BY <1>1, <1>6, <1>7, <1>8, <1>9, <1>10, <1>11 DEF Services

LEMMA HandlePlaced ==
  ASSUME IInv, Services, Idle, NEW h \in DOMAIN owned
  PROVE  LET b == files[owned[h].path]
         IN /\ b \in Seq(Nat) /\ Len(b) \in 0 .. MaxSize /\ owned[h].pos \in Nat
            /\ owned[h].pos <= Len(b) \/ (Len(b) < owned[h].pos /\ Beyond(owned[h].pos))
<1>1. SameHandles(owned) BY DEF Idle, Agree, Due, Services
<1>2. h \in DOMAIN fds /\ fds[h].path = owned[h].path /\ fds[h].offset = owned[h].pos
  BY <1>1 DEF SameHandles
<1>3. owned[h].pos \in Nat BY DEF Asking, Held, Services
<1>4. files[owned[h].path] \in Seq(Nat) /\ Len(files[owned[h].path]) <= MaxSize
  BY <1>2, OpenIsLocked DEF FilesOK, Services
<1>5. Len(files[owned[h].path]) \in Nat BY <1>4, LenProperties
<1>6. owned[h].pos <= Len(files[owned[h].path]) \/ Beyond(owned[h].pos)
  BY <1>2 DEF Placed, NodePlaced, Services
<1>7. MaxSize \in Nat /\ 2 * MaxSize < LongMod /\ LongMod \in Nat BY GemAssumption
<1> QED BY <1>3, <1>4, <1>5, <1>6, <1>7 DEF Beyond

LEMMA FreadServes == ASSUME IInv, Services, Fread PROVE Services'
<1>1. Idle /\ UNCHANGED <<rp, owned, found>> BY DEF Fread
<1>2. PICK h \in DOMAIN owned, n \in Asked : Begin("read", h, <<>>, n) /\ Send(AskChunk(h, n))
  BY DEF Fread
<1>3. phase' = "sent" /\ cmd' = AskChunk(h, n) /\ late' = late BY <1>2 DEF Send
<1> DEFINE b == files[owned[h].path]
<1>4. /\ call'.kind = "read" /\ call'.fd = h /\ call'.data = <<>> /\ call'.left = n
      /\ call'.before = b /\ call'.start = owned[h].pos /\ call'.done = 0 /\ ~call'.over
      /\ DOMAIN call' = DOMAIN NoCall
  BY <1>2 DEF Begin, NoCall
<1>5. /\ b \in Seq(Nat) /\ Len(b) \in 0 .. MaxSize /\ owned[h].pos \in Nat
      /\ owned[h].pos <= Len(b) \/ (Len(b) < owned[h].pos /\ Beyond(owned[h].pos))
  BY <1>1, HandlePlaced
<1>6. n \in Nat BY GemAssumption
<1>7. SubSeq(b, owned[h].pos + 1, owned[h].pos + 0) = <<>> BY <1>5, SubSeqEmpty
<1>8. File' = b BY <1>1, <1>4 DEF File, rp
<1>9. Reading'
  <2> HIDE DEF b
  <2>1. owned[h].pos + 0 = owned[h].pos BY <1>5
  <2> QED BY <1>3, <1>4, <1>5, <1>6, <1>7, <1>8, <2>1 DEF Reading
<1>10. Writing' BY <1>4 DEF Writing
<1> QED BY <1>1, <1>3, <1>4, <1>9, <1>10, BeginServes

LEMMA FwriteServes == ASSUME IInv, Services, Fwrite PROVE Services'
<1>1. Idle /\ UNCHANGED <<rp, owned, found>> BY DEF Fwrite
<1>2. PICK h \in DOMAIN owned, d \in Data : /\ owned[h].pos + Len(d) <= MaxSize
                                            /\ Begin("write", h, d, Len(d)) /\ Send(SendChunk(h, d))
  BY DEF Fwrite
<1>3. phase' = "sent" /\ cmd' = SendChunk(h, d) /\ late' = late BY <1>2 DEF Send
<1> DEFINE b == files[owned[h].path]
<1>4. /\ call'.kind = "write" /\ call'.fd = h /\ call'.data = d
      /\ call'.before = b /\ call'.start = owned[h].pos /\ call'.done = 0 /\ ~call'.over
      /\ DOMAIN call' = DOMAIN NoCall
  BY <1>2 DEF Begin, NoCall
<1>5. d \in Seq(Nat) BY GemAssumption
<1>6. Len(d) \in Nat /\ SubSeq(d, 1, Len(d)) = d BY <1>5, LenProperties, SubSeqFull
<1>7. /\ b \in Seq(Nat) /\ Len(b) \in 0 .. MaxSize /\ owned[h].pos \in Nat
      /\ owned[h].pos <= Len(b) \/ (Len(b) < owned[h].pos /\ Beyond(owned[h].pos))
  BY <1>1, HandlePlaced
<1>8. owned[h].pos <= Len(b)
  <2>1. ~Beyond(owned[h].pos)
    <3>1. MaxSize \in Nat /\ 2 * MaxSize < LongMod /\ LongMod \in Nat BY GemAssumption
    <3> QED BY <1>2, <1>6, <1>7, <3>1 DEF Beyond
  <2> QED BY <1>7, <2>1
<1>9. SubSeq(d, 1, 0) = <<>> BY SubSeqEmpty
<1>10. Overwritten(b, owned[h].pos, <<>>) = b
  <2>1. owned[h].pos \in 0 .. Len(b) BY <1>7, <1>8
  <2> QED BY <1>7, <2>1, OverwriteNothing
<1>11. File' = b BY <1>1, <1>4 DEF File, rp
<1>12. Writing'
  <2> HIDE DEF b
  <2>1. Stored' = 0 /\ 0 \in 0 .. Len(d) BY <1>3, <1>4, <1>6 DEF Stored
  <2>2. Overwritten(call'.before, call'.start, SubSeq(call'.data, 1, Stored')) = File'
    BY <1>4, <1>9, <1>10, <1>11, <2>1
  <2>3. call'.before \in Seq(Nat) /\ call'.data \in Seq(Nat) /\ call'.start \in Nat /\ call'.done \in Nat
    BY <1>4, <1>5, <1>7
  <2>4. call'.start <= Len(call'.before) /\ call'.start + Len(call'.data) <= MaxSize
    BY <1>2, <1>4, <1>8
  <2> QED BY <1>3, <1>4, <2>1, <2>2, <2>3, <2>4 DEF Writing
<1>13. Reading' BY <1>4 DEF Reading
<1> QED BY <1>1, <1>3, <1>4, <1>6, <1>12, <1>13, BeginServes

\* What programs will hold are handles.
LEMMA DueHeld ==
  ASSUME IInv, Services, phase = "ran" PROVE SameHandles(Due) /\ \A h \in DOMAIN Due : Due[h] \in Held
<1>1. SameHandles(Due) BY DEF Agree, Services
<1>2. \A h \in DOMAIN Due : Due[h].path \in Paths /\ Due[h].pos \in Nat
  <2>1. SUFFICES ASSUME NEW h \in DOMAIN Due PROVE Due[h].path \in Paths /\ Due[h].pos \in Nat
    OBVIOUS
  <2>2. h \in DOMAIN fds /\ Due[h].path = fds[h].path /\ Due[h].pos = fds[h].offset
    BY <1>1 DEF SameHandles
  <2> QED BY <2>2, OpenIsLocked DEF Placed, NodePlaced, Nodes, Services
<1>3. \A h \in DOMAIN owned : owned[h] \in Held BY DEF Asking, Services
<1>4. ASSUME NEW g, NEW x, Due = [owned EXCEPT ![g].pos = x], NEW h \in DOMAIN Due
      PROVE  Due[h] \in Held
  <2>1. h \in DOMAIN owned /\ owned[h] \in Held BY <1>3, <1>4
  <2>2. CASE h # g BY <1>4, <2>1, <2>2
  <2>3. CASE h = g
    <3>1. Due[h] = [owned[h] EXCEPT !.pos = x] BY <1>4, <2>1, <2>3
    <3>2. DOMAIN Due[h] = {"path", "pos"} /\ Due[h].path = owned[h].path /\ Due[h].pos = x
      BY <2>1, <3>1 DEF Held
    <3>3. x \in Nat BY <1>2, <1>4, <3>2
    <3> QED BY <2>1, <3>1, <3>3 DEF Held
  <2> QED BY <2>2, <2>3
<1>5. CASE Due = owned BY <1>1, <1>3, <1>5
<1>6. CASE Due = With(owned, ans.n, [path |-> cmd.path, pos |-> 0])
  <2>1. SUFFICES ASSUME NEW h \in DOMAIN Due PROVE Due[h] \in Held BY <1>1
  <2>2. Due[h] = [path |-> cmd.path, pos |-> 0] \/ (h \in DOMAIN owned /\ Due[h] = owned[h])
    BY <1>6 DEF With
  <2>3. CASE Due[h] = [path |-> cmd.path, pos |-> 0]
    <3>1. cmd.path \in Paths BY <1>2, <2>3
    <3> QED BY <2>3, <3>1 DEF Held
  <2> QED BY <1>3, <2>2, <2>3
<1>7. CASE Due = Without(owned, cmd.fd) BY <1>1, <1>3, <1>7 DEF Without
<1>8. \/ Due = owned \/ Due = With(owned, ans.n, [path |-> cmd.path, pos |-> 0])
      \/ Due = Without(owned, cmd.fd)
      \/ \E g, x : Due = [owned EXCEPT ![g].pos = x]
  <2>1. CASE cmd.kind \in Transfer
    <3>1. Due = [owned EXCEPT ![call.fd].pos = owned[call.fd].pos + ans.n] BY <2>1 DEF Due
    <3> QED BY <3>1, Zenon
  <2>2. CASE cmd.kind = "fseek" /\ ans.code = "EOK"
    <3>1. Due = [owned EXCEPT ![cmd.fd].pos = ans.n] BY <2>2 DEF Due, Transfer
    <3> QED BY <3>1, Zenon
  <2>3. CASE cmd.kind \notin Transfer /\ ~(cmd.kind = "fseek" /\ ans.code = "EOK")
    BY <2>3 DEF Due
  <2> QED BY <2>1, <2>2, <2>3
<1> QED BY <1>1, <1>4, <1>5, <1>6, <1>7, <1>8

\* A call of one command returns.
LEMMA ReturnServes ==
  ASSUME IInv, Services, phase = "ran", cmd.kind \notin Transfer, UNCHANGED <<rp, call, late>>,
         owned' = Due, found' = FoundDue, phase' \in {"idle", "sent"},
         \/ cmd' = NoCmd
         \/ phase' = "sent" /\ cmd'.kind = "dtarelease" /\ cmd'.key \notin found'
  PROVE  Services'
<1>1. FilesOK' /\ Placed' /\ LateSeek' /\ LateSearch' BY RpRests
<1>2. NoCmd.kind = "none" BY DEF NoCmd
<1>3. call.kind = "none" /\ call = NoCall
  <2>1. \A h, n : AskChunk(h, n).kind = "readbuff" BY DEF AskChunk, Handle, NoCmd
  <2>2. \A h, b : SendChunk(h, b).kind = "writebuff" BY DEF SendChunk, Handle, NoCmd
  <2> QED BY <2>1, <2>2 DEF Calling, Busy, Transfer, Services
<1>4. cmd'.kind \in {"none", "dtarelease"} BY <1>2
<1>5. Exchange' BY <1>4 DEF Exchange, Services
<1>6. Asking' BY <1>2, <1>4, DueHeld DEF Asking
<1>7. Agree'
  <2>1. SameHandles(Due) BY DueHeld
  <2>2. Due' = Due BY DEF Due
  <2> QED BY <2>1, <2>2 DEF Agree, SameHandles, rp
<1>8. Searches'
  <2>1. FoundDue' = FoundDue BY DEF FoundDue
  <2> QED BY <2>1 DEF Searches, Live, rp, Services
<1>9. LateCommand'
  <2>1. late.kind = "none" \/ late.kind = cmd.kind BY <1>2 DEF Exchange, Services
  <2>2. late.kind = "dtarelease" => found' = found BY <2>1 DEF FoundDue
  <2>3. late.kind = "reset" => owned' = owned /\ found' = found
    BY <2>1 DEF FoundDue, Due
  <2> QED BY <2>2, <2>3 DEF LateCommand, Services
<1>10. Calling' BY <1>3, <1>4 DEF Calling, Busy, Transfer, NoCall
<1>11. Reading' /\ Writing' BY <1>3 DEF Reading, Writing
<1> QED BY <1>1, <1>5, <1>6, <1>7, <1>8, <1>9, <1>10, <1>11 DEF Services

LEMMA ReturnsServe ==
  ASSUME IInv, Services, HandleReturns \/ SeekReturns \/ SearchReturns \/ StatusReturns
  PROVE  Services'
<1>1. CASE HandleReturns
  <2>1. phase = "ran" /\ cmd.kind \in {"fopen", "fcreate", "fclose"} BY <1>1 DEF HandleReturns, Back
  <2>2. owned' = Due BY <1>1, <2>1 DEF HandleReturns, Due, Transfer
  <2>3. found' = FoundDue BY <1>1, <2>1 DEF HandleReturns, FoundDue
  <2>4. phase' = "idle" /\ cmd' = NoCmd /\ UNCHANGED <<rp, call, late>>
    BY <1>1 DEF HandleReturns, Answered
  <2> QED BY <2>1, <2>2, <2>3, <2>4, ReturnServes DEF Transfer
<1>2. CASE SeekReturns
  <2>1. phase = "ran" /\ cmd.kind = "fseek" BY <1>2 DEF SeekReturns, Back
  <2>2. owned' = Due BY <1>2, <2>1 DEF SeekReturns, Due, Transfer
  <2>3. found' = FoundDue BY <1>2, <2>1 DEF SeekReturns, FoundDue
  <2>4. phase' = "idle" /\ cmd' = NoCmd /\ UNCHANGED <<rp, call, late>>
    BY <1>2 DEF SeekReturns, Answered
  <2> QED BY <2>1, <2>2, <2>3, <2>4, ReturnServes DEF Transfer
<1>3. CASE SearchReturns
  <2>1. phase = "ran" /\ cmd.kind \in {"fsfirst", "fsnext"} BY <1>3 DEF SearchReturns, Back
  <2>2. owned' = Due BY <1>3, <2>1 DEF SearchReturns, Due, Transfer
  <2>3. found' = FoundDue BY <1>3, <2>1 DEF SearchReturns, FoundDue
  <2>4. LET a == [NoCmd EXCEPT !.kind = "dtarelease", !.key = cmd.key]
        IN a.kind = "dtarelease" /\ a.key = cmd.key
    BY DEF NoCmd
  <2>5. UNCHANGED <<rp, call, late>> BY <1>3 DEF SearchReturns, Answered
  <2>6. \/ phase' = "idle" /\ cmd' = NoCmd
        \/ phase' = "sent" /\ cmd'.kind = "dtarelease" /\ cmd'.key \notin found'
    BY <1>3, <2>4 DEF SearchReturns, Answered
  <2> QED BY <2>1, <2>2, <2>3, <2>5, <2>6, ReturnServes DEF Transfer
<1>4. CASE StatusReturns
  <2>1. phase = "ran" /\ cmd.kind \in {"fdelete", "frename", "fsetdta", "dtarelease", "reset"}
    BY <1>4 DEF StatusReturns, Back
  <2>2. owned' = Due BY <1>4, <2>1 DEF StatusReturns, Due, Transfer, atari
  <2>3. found' = FoundDue BY <1>4, <2>1 DEF StatusReturns, FoundDue, atari
  <2>4. phase' = "idle" /\ cmd' = NoCmd /\ UNCHANGED <<rp, call, late>>
    BY <1>4 DEF StatusReturns, Answered, atari
  <2> QED BY <2>1, <2>2, <2>3, <2>4, ReturnServes DEF Transfer
<1> QED BY <1>1, <1>2, <1>3, <1>4

\* The call in progress, when its chunk has come back.
LEMMA ChunkBack ==
  ASSUME Services, phase = "ran", cmd.kind \in Transfer
  PROVE  /\ call.kind = IF cmd.kind = "readbuff" THEN "read" ELSE "write"
         /\ ~call.over /\ call.fd \in DOMAIN owned
         /\ owned[call.fd].pos = call.start + call.done
<1>1. \A h, n : AskChunk(h, n).kind = "readbuff" BY DEF AskChunk, Handle, NoCmd
<1>2. \A h, b : SendChunk(h, b).kind = "writebuff" BY DEF SendChunk, Handle, NoCmd
<1> QED BY <1>1, <1>2 DEF Calling, Busy, Transfer, Services

\* A chunk has come back: the call goes on with the next one, or is over.
LEMMA ChunkServes ==
  ASSUME IInv, Services, phase = "ran", cmd.kind \in Transfer, UNCHANGED <<rp, found, late>>,
         owned' = [owned EXCEPT ![call.fd].pos = owned[call.fd].pos + ans.n],
         call'.kind = call.kind, call'.fd = call.fd, call'.start = call.start, call.start \in Nat,
         DOMAIN call' = DOMAIN NoCall,
         call.done \in Nat, ans.n \in Nat, call'.done = call.done + ans.n,
         \/ call'.over /\ phase' = "idle" /\ cmd' = NoCmd
         \/ ~call'.over /\ phase' = "sent" /\ call.kind = "read" /\ cmd' = AskChunk(call.fd, call'.left)
         \/ ~call'.over /\ phase' = "sent" /\ call.kind = "write" /\ cmd' = SendChunk(call.fd, Rest(0)'),
         Reading', Writing'
  PROVE  Services'
<1>1. FilesOK' /\ Placed' /\ LateSeek' /\ LateSearch' BY RpRests
<1>2. NoCmd.kind = "none" BY DEF NoCmd
<1>3. \A h, n : AskChunk(h, n).kind = "readbuff" BY DEF AskChunk, Handle, NoCmd
<1>4. \A h, b : SendChunk(h, b).kind = "writebuff" BY DEF SendChunk, Handle, NoCmd
<1>5. cmd'.kind \in {"none", "readbuff", "writebuff"} BY <1>2, <1>3, <1>4
<1>6. Exchange' BY <1>5 DEF Exchange, Services
<1>7. owned' = Due BY DEF Due
<1>8. Asking' BY <1>5, <1>7, DueHeld DEF Asking
<1>9. Agree'
  <2>1. SameHandles(Due) BY DueHeld
  <2>2. Due' = Due BY <1>7 DEF Due
  <2> QED BY <2>1, <2>2 DEF Agree, SameHandles, rp
<1>10. Searches'
  <2>1. FoundDue' = found /\ FoundDue = found BY DEF FoundDue, Transfer
  <2> QED BY <2>1 DEF Searches, Live, rp, Services
<1>11. LateCommand'
  <2>1. late.kind = "none" \/ late.kind = cmd.kind BY <1>2 DEF Exchange, Services
  <2> QED BY <2>1 DEF LateCommand, Transfer
<1>12. Calling'
  <2>1. /\ call.kind \in {"read", "write"} /\ call.fd \in DOMAIN owned
        /\ owned[call.fd].pos = call.start + call.done
    BY ChunkBack
  <2> DEFINE to == owned[call.fd].pos + ans.n
  <2>2. owned[call.fd] \in Held BY <2>1 DEF Asking, Services
  <2>3. owned'[call.fd].pos = to /\ DOMAIN owned' = DOMAIN owned
    <3>1. owned' = [owned EXCEPT ![call.fd].pos = to] OBVIOUS
    <3> HIDE DEF to
    <3> QED BY <2>1, <2>2, <3>1 DEF Held
  <2>4. to = call'.start + call'.done BY <2>1
  <2> HIDE DEF to
  <2>5. call'.kind = "write" /\ ~call'.over => cmd' = SendChunk(call.fd, Rest(0))'
    BY <2>1 DEF SendChunk, Handle
  <2>6. call'.kind = "read" /\ ~call'.over => cmd' = AskChunk(call.fd, call.left)'
    BY <2>1 DEF AskChunk, Handle
  <2> QED BY <1>2, <2>1, <2>3, <2>4, <2>5, <2>6 DEF Calling, Busy
<1> QED BY <1>1, <1>6, <1>8, <1>9, <1>10, <1>11, <1>12 DEF Services

\* The next chunk of an Fread continues what is read so far.
LEMMA NextPart ==
  ASSUME NEW b \in Seq(Nat), NEW i \in Nat, NEW j \in Nat, NEW n \in Nat, i <= j,
         n = 0 \/ j + n <= Len(b), j <= Len(b) \/ n = 0
  PROVE  SubSeq(b, i + 1, j) \o SubSeq(b, j + 1, j + n) = SubSeq(b, i + 1, j + n)
<1>1. Len(b) \in Nat BY LenProperties
<1>2. CASE n = 0 /\ j > Len(b)
  <2> QED OBVIOUS
<1> QED OBVIOUS

LEMMA ReadChunkServes == ASSUME IInv, Services, ReadChunk PROVE Services'
<1> DEFINE b == call.before
           at == call.start + call.done
           n == ans.n
           more == ans.code = "EOK" /\ More(n)
<1>1. phase = "ran" /\ cmd.kind = "readbuff" /\ UNCHANGED <<rp, found, late>>
  BY DEF ReadChunk, Back, GoOn, Answered
<1>2. call.kind = "read" /\ ~call.over /\ call.fd \in DOMAIN owned BY <1>1, ChunkBack DEF Transfer
<1>3. /\ b \in Seq(Nat) /\ call.start \in Nat /\ call.done \in Nat /\ call.left \in Nat
      /\ \/ File = b /\ at <= Len(b)
         \/ Len(b) < call.start /\ Beyond(call.start) /\ call.done = 0
      /\ call.data = SubSeq(b, call.start + 1, at)
      /\ IF ans.code = "EOK"
         THEN /\ ans.n \in 0 .. Least(call.left, ReadSize)
              /\ ans.n = 0 \/ at + ans.n <= Len(b)
              /\ ans.n = Least(call.left, ReadSize) \/ at + ans.n >= Len(b)
              /\ ans.bytes = SubSeq(b, at + 1, at + ans.n)
         ELSE ans.n = 0 /\ ans.bytes = <<>>
  BY <1>1, <1>2 DEF Reading, Services
<1>4. call' = [call EXCEPT !.data = call.data \o ans.bytes, !.done = call.done + n,
                           !.left = call.left - n, !.over = ~more, !.code = ans.code]
  BY DEF ReadChunk
<1>5. {"kind", "fd", "data", "done", "left", "before", "start", "over", "code"} \subseteq DOMAIN call
      /\ DOMAIN call' = DOMAIN NoCall
  BY <1>4 DEF Calling, Services, NoCall
<1>6. Len(b) \in Nat /\ ReadSize \in Nat BY <1>3, LenProperties, GemAssumption
<1>7. n \in Nat /\ n <= call.left
      /\ (n = 0 \/ at + n <= Len(b))
      /\ (ans.code = "EOK" /\ ~more => call.left - n = 0 \/ at + n >= Len(b))
  <2>1. /\ Least(call.left, ReadSize) \in {call.left, ReadSize}
        /\ Least(call.left, ReadSize) <= call.left
    BY <1>3, <1>6, LeastIs
  <2> QED BY <1>3, <1>6, <2>1 DEF More
<1>8. ans.bytes = SubSeq(b, at + 1, at + n)
  <2>1. CASE ans.code = "EOK" BY <1>3, <2>1
  <2>2. CASE ans.code # "EOK"
    <3>1. at + 1 \in Int /\ at + 0 \in Int /\ at + 1 > at + 0 BY <1>3
    <3> QED BY <1>3, <2>2, <3>1, SubSeqEmpty
  <2> QED BY <2>1, <2>2
<1>9. call.data \o ans.bytes = SubSeq(b, call.start + 1, at + n)
  <2>1. n = 0 \/ at + n <= Len(b) BY <1>7
  <2>2. call.start \in Nat /\ call.done \in Nat /\ (at <= Len(b) \/ (Len(b) < call.start /\ call.done = 0))
    BY <1>3
  <2>3. at \in Nat /\ call.start <= at /\ (at <= Len(b) \/ n = 0) BY <1>6, <1>7, <2>1, <2>2
  <2>4. b \in Seq(Nat) /\ call.start \in Nat /\ n \in Nat /\ call.data = SubSeq(b, call.start + 1, at)
        /\ ans.bytes = SubSeq(b, at + 1, at + n)
    BY <1>3, <1>7, <1>8
  <2> DEFINE i == call.start
  <2> HIDE DEF at, n, b, i
  <2>5. i \in Nat /\ i <= at /\ SubSeq(b, i + 1, at) \o SubSeq(b, at + 1, at + n) = SubSeq(b, i + 1, at + n)
    <3>1. i \in Nat /\ i <= at BY <2>3, <2>4 DEF i
    <3> QED BY <2>1, <2>3, <2>4, <3>1, NextPart
  <2> QED BY <2>4, <2>5 DEF i
<1> DEFINE data == call.data \o ans.bytes
           done == call.done + n
           left == call.left - n
           over == ~more
<1>10. /\ call'.data = data /\ call'.done = done /\ call'.left = left /\ call'.over = over
       /\ call'.code = ans.code /\ call'.kind = call.kind /\ call'.fd = call.fd
       /\ call'.before = b /\ call'.start = call.start
  <2> HIDE DEF data, done, left, over
  <2>1. call' = [call EXCEPT !.data = data, !.done = done, !.left = left, !.over = over, !.code = ans.code]
    BY <1>4 DEF data, done, left, over
  <2> QED BY <1>5, <2>1
<1>11. owned' = [owned EXCEPT ![call.fd].pos = owned[call.fd].pos + n] BY DEF ReadChunk
<1>12. File' = File
  <2> DEFINE x == owned[call.fd].pos + n
  <2>1. owned[call.fd] \in Held BY <1>2 DEF Asking, Services
  <2>2. owned'[call.fd].path = owned[call.fd].path
    <3>1. owned' = [owned EXCEPT ![call.fd].pos = x] BY <1>11
    <3> HIDE DEF x
    <3> QED BY <1>2, <2>1, <3>1 DEF Held
  <2> QED BY <1>1, <1>10, <2>2 DEF File, rp
<1>13. \/ over /\ phase' = "idle" /\ cmd' = NoCmd
       \/ ~over /\ phase' = "sent" /\ cmd' = AskChunk(call.fd, left)
  BY DEF ReadChunk, GoOn, Answered
<1>14. Reading'
  <2>1. /\ done \in Nat /\ left \in Nat /\ call.start + done = at + n
        /\ (over /\ ans.code = "EOK" => left = 0 \/ call.start + done >= Len(b))
        /\ \/ File = b /\ call.start + done <= Len(b)
           \/ Len(b) < call.start /\ Beyond(call.start) /\ done = 0
    <3>1. /\ call.start \in Nat /\ call.done \in Nat /\ call.left \in Nat
          /\ \/ File = b /\ at <= Len(b)
             \/ Len(b) < call.start /\ Beyond(call.start) /\ call.done = 0
      BY <1>3
    <3> HIDE DEF b, n, more
    <3> QED BY <1>6, <1>7, <3>1
  <2>2. data = SubSeq(b, call.start + 1, call.start + done) BY <1>9, <2>1
  <2>3. phase' # "ran" BY <1>13
  <2> HIDE DEF data, done, left, over, b
  <2> QED BY <1>3, <1>10, <1>12, <2>1, <2>2, <2>3 DEF Reading
<1>15. Writing' BY <1>2, <1>10 DEF Writing
<1>16. \/ call'.over /\ phase' = "idle" /\ cmd' = NoCmd
       \/ ~call'.over /\ phase' = "sent" /\ call.kind = "read" /\ cmd' = AskChunk(call.fd, call'.left)
  <2> HIDE DEF over, left
  <2> QED BY <1>2, <1>10, <1>13
<1>17. call'.done = call.done + ans.n BY <1>10
<1> HIDE DEF data, done, left, over, b, at, more
<1> QED BY <1>1, <1>3, <1>5, <1>7, <1>10, <1>11, <1>14, <1>15, <1>16, <1>17, ChunkServes DEF Transfer

LEMMA WriteChunkServes == ASSUME IInv, Services, WriteChunk PROVE Services'
<1> DEFINE d == call.data
           n == ans.n
           rest == Rest(n)
           done == call.done + n
           left == Len(rest)
           empty == n = 0
           over == rest = <<>>
<1>1. phase = "ran" /\ cmd.kind = "writebuff" /\ UNCHANGED <<rp, found, late>>
  BY DEF WriteChunk, Back, GoOn, Answered
<1>2. call.kind = "write" /\ ~call.over /\ call.fd \in DOMAIN owned BY <1>1, ChunkBack DEF Transfer
<1>3. /\ call.before \in Seq(Nat) /\ d \in Seq(Nat) /\ call.start \in Nat /\ call.done \in Nat
      /\ call.start <= Len(call.before) /\ call.start + Len(d) <= MaxSize
      /\ done \in 0 .. Len(d) /\ n \in Nat
      /\ File = Overwritten(call.before, call.start, SubSeq(d, 1, done))
  BY <1>1, <1>2 DEF Writing, Stored, Services
<1>4. DOMAIN call = DOMAIN NoCall BY DEF Calling, Services
<1>5. /\ call'.data = d /\ call'.done = done /\ call'.over = over
      /\ call'.kind = call.kind /\ call'.fd = call.fd
      /\ call'.before = call.before /\ call'.start = call.start
      /\ DOMAIN call' = DOMAIN NoCall
  <2>1. call' = [call EXCEPT !.done = done, !.left = left, !.empty = empty, !.over = over]
    BY DEF WriteChunk
  <2> HIDE DEF done, left, empty, over
  <2> QED BY <1>4, <2>1 DEF NoCall
<1>6. owned' = [owned EXCEPT ![call.fd].pos = owned[call.fd].pos + n] BY DEF WriteChunk
<1>7. File' = File
  <2> DEFINE x == owned[call.fd].pos + n
  <2>1. owned[call.fd] \in Held BY <1>2 DEF Asking, Services
  <2>2. owned'[call.fd].path = owned[call.fd].path
    <3>1. owned' = [owned EXCEPT ![call.fd].pos = x] BY <1>6
    <3> HIDE DEF x
    <3> QED BY <1>2, <2>1, <3>1 DEF Held
  <2> QED BY <1>1, <1>5, <2>2 DEF File, rp
<1>8. \/ over /\ phase' = "idle" /\ cmd' = NoCmd
      \/ ~over /\ phase' = "sent" /\ cmd' = SendChunk(call.fd, rest)
  BY DEF WriteChunk, GoOn, Answered
<1>9. Rest(0)' = rest
  <2>1. done + 0 + 1 = done + 1 BY <1>3
  <2>2. Rest(0)' = SubSeq(d, done + 0 + 1, Len(d)) BY <1>5 DEF Rest
  <2>3. rest = SubSeq(d, done + 1, Len(d)) BY DEF Rest
  <2> QED BY <2>1, <2>2, <2>3
<1>10. over => done = Len(d)
  <2>1. rest = SubSeq(d, done + 1, Len(d)) BY DEF Rest
  <2>2. Len(d) \in Nat BY <1>3, LenProperties
  <2> HIDE DEF d, done
  <2>3. CASE done < Len(d)
    <3>1. Len(SubSeq(d, done + 1, Len(d))) > 0 BY <1>3, <2>2, <2>3
    <3>2. Len(rest) > 0 BY <2>1, <3>1
    <3> QED BY <3>2, EmptySeq
  <2> QED BY <1>3, <2>2, <2>3
<1>11. Writing'
  <2>1. phase' # "ran" BY <1>8
  <2>2. Stored' = done BY <1>5, <2>1 DEF Stored
  <2> HIDE DEF d, n, done, over
  <2>3. done \in Nat BY <1>3
  <2> QED BY <1>3, <1>5, <1>7, <1>10, <2>1, <2>2, <2>3 DEF Writing
<1>12. Reading' BY <1>2, <1>5 DEF Reading
<1>13. \/ call'.over /\ phase' = "idle" /\ cmd' = NoCmd
       \/ ~call'.over /\ phase' = "sent" /\ call.kind = "write" /\ cmd' = SendChunk(call.fd, Rest(0)')
  <2> HIDE DEF over, rest
  <2> QED BY <1>2, <1>5, <1>8, <1>9
<1> HIDE DEF d, rest, left, empty, over
<1> QED BY <1>1, <1>3, <1>5, <1>6, <1>11, <1>12, <1>13, ChunkServes DEF Transfer

\* The call returns to the program.
LEMMA CallReturnsServes == ASSUME Services, CallReturns PROVE Services'
<1>1. call.over /\ call' = NoCall /\ UNCHANGED <<rp, link, owned, tosDta, found>> BY DEF CallReturns
<1>2. call.kind # "none" /\ phase = "idle"
  BY <1>1 DEF Calling, NoCall, Services
<1>3. cmd = NoCmd /\ NoCmd.kind = "none" BY <1>2 DEF Exchange, NoCmd, Services
<1>4. FilesOK' /\ Placed' /\ LateSeek' /\ LateSearch' BY <1>1, RpRests DEF link
<1>5. Exchange' BY <1>1 DEF Exchange, link, Services
<1>6. NoCall.kind = "none" /\ ~NoCall.over BY DEF NoCall
<1>7. Asking' /\ LateCommand' BY <1>1, <1>6 DEF Asking, LateCommand, link, Services
<1>8. Agree'
  <2>1. SameHandles(owned) BY <1>2 DEF Agree, Due, Services
  <2>2. Due' = owned BY <1>1, <1>2 DEF Due, link
  <2> QED BY <1>1, <2>1, <2>2 DEF Agree, SameHandles, rp
<1>9. Searches'
  <2>1. FoundDue' = FoundDue BY <1>1 DEF FoundDue, link
  <2> QED BY <1>1, <2>1 DEF Searches, Live, rp, Services
<1>10. Calling' /\ Reading' /\ Writing'
  BY <1>1, <1>3, <1>6 DEF Calling, Busy, Reading, Writing, Transfer, link
<1> QED BY <1>4, <1>5, <1>7, <1>8, <1>9, <1>10 DEF Services

\* The Atari starts again with nothing in its hands, and has the RP do so too.
LEMMA RebootServes == ASSUME Services, Reboot PROVE Services'
<1>1. /\ DOMAIN owned' = {} /\ call' = NoCall /\ found' = {} /\ phase' = "sent" /\ late' = NoCmd
      /\ cmd' = [NoCmd EXCEPT !.kind = "reset"] /\ UNCHANGED rp
  BY DEF Reboot
<1>2. cmd'.kind = "reset" /\ NoCmd.kind = "none" BY <1>1 DEF NoCmd
<1>3. NoCall.kind = "none" /\ ~NoCall.over BY DEF NoCall
<1>4. FilesOK' /\ Placed' BY <1>1 DEF FilesOK, Placed, rp, Services
<1>5. Exchange' /\ Agree' BY <1>1, <1>2 DEF Exchange, Agree
<1>6. Asking' BY <1>1, <1>2, <1>3 DEF Asking
<1>7. LateSeek' /\ LateSearch' /\ LateCommand' BY <1>1, <1>2 DEF LateSeek, LateSearch, LateCommand
<1>8. Searches' BY <1>1, <1>2 DEF Searches, FoundDue
<1>9. Calling' /\ Reading' /\ Writing'
  BY <1>1, <1>2, <1>3 DEF Calling, Busy, Reading, Writing, Transfer
<1> QED BY <1>4, <1>5, <1>6, <1>7, <1>8, <1>9 DEF Services

LEMMA InitServes == Init => Services
<1> SUFFICES ASSUME Init PROVE Services OBVIOUS
<1>1. /\ files = Contents /\ open = {} /\ DOMAIN fds = {} /\ DOMAIN dtas = {}
      /\ phase = "idle" /\ cmd = NoCmd /\ late = NoCmd /\ call = NoCall /\ DOMAIN owned = {} /\ found = {}
  BY DEF Init
<1>2. NoCmd.kind = "none" /\ NoCall.kind = "none" /\ ~NoCall.over BY DEF NoCmd, NoCall
<1>3. FilesOK
  <2>1. \A p \in DOMAIN Contents : Contents[p] \in Seq(Nat) /\ Len(Contents[p]) <= MaxSize
    BY GemAssumption
  <2>2. DOMAIN Contents \subseteq Paths BY GemAssumption
  <2> QED BY <1>1, <2>1, <2>2 DEF FilesOK
<1>4. Placed /\ Exchange /\ Asking BY <1>1, <1>2 DEF Placed, Exchange, Asking
<1>5. Agree BY <1>1 DEF Agree, SameHandles, Due
<1>6. Searches BY <1>1 DEF Searches, FoundDue
<1>7. LateSeek /\ LateSearch /\ LateCommand BY <1>1, <1>2 DEF LateSeek, LateSearch, LateCommand
<1>8. Calling /\ Reading /\ Writing BY <1>1, <1>2 DEF Calling, Busy, Reading, Writing, Transfer
<1> QED BY <1>3, <1>4, <1>5, <1>6, <1>7, <1>8 DEF Services

LEMMA StutterServes == ASSUME Services, UNCHANGED vars PROVE Services'
<1>1. UNCHANGED <<rp, owned, found>> /\ phase' = phase /\ cmd' = cmd /\ late' = late
      /\ ans' = ans /\ call' = call
  BY DEF vars, link, atari
<1>2. FilesOK' /\ Placed' /\ LateSeek' /\ LateSearch' BY <1>1, RpRests
<1>3. Exchange' /\ Asking' /\ LateCommand' BY <1>1 DEF Exchange, Asking, LateCommand, Services
<1>4. Due' = Due /\ FoundDue' = FoundDue BY <1>1 DEF Due, FoundDue
<1>5. Agree' /\ Searches' BY <1>1, <1>4 DEF Agree, SameHandles, Searches, Live, rp, Services
<1>6. File' = File /\ Stored' = Stored /\ Rest(0)' = Rest(0) BY <1>1 DEF File, Stored, Rest, rp
<1>7. Calling' BY <1>1, <1>6 DEF Calling, Busy, SendChunk, AskChunk, Handle, Services
<1>8. Reading' /\ Writing' BY <1>1, <1>6 DEF Reading, Writing, Services
<1> QED BY <1>2, <1>3, <1>5, <1>7, <1>8 DEF Services

LEMMA ServicesInductive == ASSUME Harmless PROVE Spec => []Services
<1>1. Init => Services BY InitServes
<1>2. IInv /\ IInv' /\ Services /\ [Next]_vars => Services'
  <2> SUFFICES ASSUME IInv, IInv', Services, [Next]_vars PROVE Services' OBVIOUS
  <2>1. CASE Rp BY <2>1, RpServes
  <2>2. CASE Ask \/ SetDta BY <2>2, AskServes
  <2>3. CASE Fread BY <2>3, FreadServes
  <2>4. CASE Fwrite BY <2>4, FwriteServes
  <2>5. CASE Driver
    <3>1. CASE HandleReturns \/ SeekReturns \/ SearchReturns \/ StatusReturns BY <3>1, ReturnsServe
    <3>2. CASE ReadChunk BY <3>2, ReadChunkServes
    <3>3. CASE WriteChunk BY <3>3, WriteChunkServes
    <3>4. CASE CallReturns BY <3>4, CallReturnsServes
    <3> QED BY <2>5, <3>1, <3>2, <3>3, <3>4 DEF Driver
  <2>6. CASE Reboot BY <2>6, RebootServes
  <2>7. CASE UNCHANGED vars BY <2>7, StutterServes
  <2> QED BY <2>1, <2>2, <2>3, <2>4, <2>5, <2>6, <2>7 DEF Next
<1> QED BY <1>1, <1>2, Inductive, PTL DEF Spec
-----------------------------------------------------------------------------
(* The theorems on what the programs get, where no command that hands out or  *)
(* takes back a handle, or that moves on, may run twice                       *)

\* Between calls, the RP's descriptors are the handles the programs hold, each
\* on its file and at the position the program was told: FD allocation, seek and
\* the read and write loops of gemdrive.c and gemdrive.s do not drift apart.
THEOREM HandlesKept == ASSUME Harmless PROVE Spec => []HandlesAgree
<1>1. Services => HandlesAgree
  BY DEF Services, Agree, SameHandles, Due, HandlesAgree
<1> QED BY <1>1, ServicesInductive, PTL

\* A DTA in which a program was given a file still has its search on the RP,
\* whatever other commands have come or come again since.
THEOREM SearchesKept == ASSUME Harmless PROVE Spec => []SearchLives
<1>1. Services => SearchLives
  BY DEF Services, Searches, Live, FoundDue, SearchLives
<1> QED BY <1>1, ServicesInductive, PTL

\* An Fread, of however many chunks, returns what is in the file from the handle's
\* position on, as much as was asked for or up to the end.
THEOREM ReadsExact == ASSUME Harmless PROVE Spec => []ReadExact
<1>1. Services => ReadExact
  <2> SUFFICES ASSUME Services, call.kind = "read", call.over, call.code = "EOK"
               PROVE  call.data = SubSeq(call.before, call.start + 1,
                                    Least(call.start + call.done + call.left, Len(call.before)))
    BY DEF ReadExact
  <2> DEFINE b == call.before
             i == call.start
             at == call.start + call.done
             upto == Least(at + call.left, Len(b))
  <2>1. /\ b \in Seq(Nat) /\ call.start \in Nat /\ call.done \in Nat /\ call.left \in Nat
        /\ at <= Len(b) \/ (Len(b) < call.start /\ call.done = 0)
        /\ call.data = SubSeq(b, call.start + 1, at)
        /\ call.left = 0 \/ at >= Len(b)
    BY DEF Reading, Services
  <2>2. Len(b) \in Nat BY <2>1, LenProperties
  <2>3. /\ call.start \in Nat /\ call.done \in Nat /\ call.left \in Nat
        /\ call.left = 0 \/ at >= Len(b)
    BY <2>1
  <2>4. CASE at <= Len(b)
    <3>1. /\ at \in Nat /\ at + call.left \in Nat /\ at <= at + call.left
          /\ at + call.left = at \/ at = Len(b)
      <4> HIDE DEF b
      <4> QED BY <2>2, <2>4, <2>3
    <3> HIDE DEF b, at
    <3>2. upto = at BY <2>2, <2>4, <3>1, LeastIs
    <3> QED BY <2>1, <3>2 DEF b, at
  <2>5. CASE Len(b) < call.start /\ call.done = 0
    <3>1. at = i /\ i + 1 > i /\ i \in Int /\ i + 1 \in Int BY <2>5, <2>3
    <3>2. upto = Len(b) BY <2>2, <2>5, <2>3 DEF Least
    <3>3. SubSeq(b, i + 1, i) = <<>> BY <3>1, SubSeqEmpty
    <3>4. SubSeq(b, i + 1, upto) = <<>>
      <4>1. upto \in Int /\ i + 1 > upto BY <2>2, <2>5, <2>3, <3>2
      <4> HIDE DEF upto, i
      <4> QED BY <3>1, <4>1, SubSeqEmpty
    <3> QED BY <2>1, <3>1, <3>3, <3>4
  <2> QED BY <2>1, <2>4, <2>5
<1> QED BY <1>1, ServicesInductive, PTL

\* An Fwrite that returns has put its bytes at the handle's position, all of them
\* once however the card took them, and left the rest of the file as it was.
THEOREM WritesExact == ASSUME Harmless PROVE Spec => []WriteExact
<1>1. Services => WriteExact
  <2> SUFFICES ASSUME Services, call.kind = "write", call.over
               PROVE  files[owned[call.fd].path] = Overwritten(call.before, call.start, call.data)
    BY DEF WriteExact
  <2>1. phase = "idle" BY DEF Calling, Services
  <2>2. Stored = Len(call.data) /\ call.data \in Seq(Nat)
        /\ File = Overwritten(call.before, call.start, SubSeq(call.data, 1, Stored))
    BY <2>1 DEF Stored, Writing, Services
  <2>3. SubSeq(call.data, 1, Len(call.data)) = call.data BY <2>2, SubSeqFull
  <2> QED BY <2>2, <2>3 DEF File
<1> QED BY <1>1, ServicesInductive, PTL
-----------------------------------------------------------------------------
(* What is left of the types                                                *)

Locks  == [obj : Objects, write : BOOLEAN, by : FDs \cup Keys \cup {Stray}]
Codes  == Errors \cup {"EOK"}
Typing == open \subseteq Locks /\ ans.code \in Codes /\ DOMAIN owned \subseteq FDs

LEMMA LockTyped ==
  ASSUME NEW o \in Objects, NEW m, NEW h \in FDs \cup Keys \cup {Stray}
  PROVE  Lock(o, m, h) \in Locks
BY DEF Lock, Locks

LEMMA AnswerCodes ==
  /\ NoAns.code = "EOK" /\ (\A n : Counts(n).code = "EOK")
  /\ (\A e : Says(e).code = e)
  /\ (\A n, b : LET a == [NoAns EXCEPT !.n = n, !.bytes = b] IN a.code = "EOK")
BY DEF NoAns, Counts, Says

LEMMA RunsTyped ==
  ASSUME Typing, NEW c, NEW answer, Runs(c, answer), answer.code \in Codes, open' \subseteq Locks
  PROVE  Typing'
<1>1. ans'.code \in Codes /\ owned' = owned BY DEF Runs, atari, Typing
<1> QED BY <1>1 DEF Typing

LEMMA FilesTyped ==
  ASSUME IInv, Typing, NEW c \in {cmd, late},
         Fopen(c) \/ Fcreate(c) \/ Fclose(c) \/ Fdelete(c) \/ Frename(c)
  PROVE  Typing'
<1>1. {"EOK", "EFILNF", "EPTHNF", "EACCDN", "EIHNDL", "EINTRN"} \subseteq Codes
  BY DEF Codes, Errors
<1>2. CASE Fopen(c) \/ Fcreate(c)
  <2>1. c.path \in Objects BY <1>2 DEF IInv, Commands, CmdOK, Fopen, Fcreate, Objects
  <2>2. ASSUME NEW memory, AddFile(c, memory) PROVE Typing'
    <3>1. CASE memory
      <4>1. /\ open' = open \cup {Lock(c.path, c.mode, FirstFreeFD)}
            /\ Runs(c, Counts(FirstFreeFD)) /\ DOMAIN fds # FDs
        BY <2>2, <3>1 DEF AddFile
      <4>2. FirstFreeFD \in FDs BY <4>1, FreeDescriptor DEF IInv
      <4>3. Lock(c.path, c.mode, FirstFreeFD) \in Locks BY <2>1, <4>2, LockTyped
      <4>4. open' \subseteq Locks BY <4>1, <4>3 DEF Typing
      <4> QED BY <1>1, <4>1, <4>4, AnswerCodes, RunsTyped
    <3>2. CASE ~memory
      <4>1. /\ open' = open \/ open' = open \cup {Lock(c.path, c.mode, Stray)}
            /\ Runs(c, Says("EINTRN"))
        BY <2>2, <3>2 DEF AddFile
      <4>2. Lock(c.path, c.mode, Stray) \in Locks BY <2>1, LockTyped
      <4>3. open' \subseteq Locks BY <4>1, <4>2 DEF Typing
      <4> QED BY <1>1, <4>1, <4>3, AnswerCodes, RunsTyped
    <3> QED BY <3>1, <3>2
  <2>3. \/ \E memory : AddFile(c, memory)
        \/ open' = open /\ \E e \in {"EFILNF", "EPTHNF"} : Runs(c, Says(e))
    BY <1>2 DEF Fopen, Fcreate
  <2>4. ASSUME NEW e \in {"EFILNF", "EPTHNF"}, open' = open, Runs(c, Says(e)) PROVE Typing'
    <3>1. open' \subseteq Locks BY <2>4 DEF Typing
    <3> QED BY <1>1, <2>4, <3>1, AnswerCodes, RunsTyped
  <2> QED BY <2>2, <2>3, <2>4
<1>3. CASE Fclose(c) \/ Fdelete(c) \/ Frename(c)
  <2>1. open' \subseteq open BY <1>3 DEF Fclose, Fdelete, Frename
  <2>2. \/ Runs(c, NoAns)
        \/ \E e \in {"EOK", "EFILNF", "EACCDN", "EIHNDL", "EINTRN"} : Runs(c, Says(e))
    BY <1>3 DEF Fclose, Fdelete, Frename
  <2>3. open' \subseteq Locks BY <2>1 DEF Typing
  <2> QED BY <1>1, <2>2, <2>3, AnswerCodes, RunsTyped
<1> QED BY <1>2, <1>3

LEMMA OthersTyped ==
  ASSUME IInv, Typing, NEW c \in {cmd, late},
         \/ Reset(c) \/ Fseek(c) \/ ReadBuff(c) \/ WriteBuff(c)
         \/ Fsetdta(c) \/ DtaRelease(c) \/ Fsfirst(c) \/ Fsnext(c)
  PROVE  Typing'
<1>1. {"EOK", "EFILNF", "EIHNDL", "EINTRN", "ENMFIL"} \subseteq Codes BY DEF Codes, Errors
<1>2. CASE Reset(c)
  <2>1. PICK bad \in SUBSET {h \in DOMAIN fds : CloseFails(fds[h].mode)} :
          open' = {x \in open : x.by = Stray} \cup {Lock(fds[h].path, fds[h].mode, Stray) : h \in bad}
    BY <1>2 DEF Reset
  <2>2. \A h \in bad : Lock(fds[h].path, fds[h].mode, Stray) \in Locks
    BY LockTyped DEF IInv, Tables, Objects
  <2>3. open' \subseteq Locks BY <2>1, <2>2 DEF Typing
  <2> QED BY <1>1, <1>2, <2>3, AnswerCodes, RunsTyped DEF Reset
<1>3. CASE Fseek(c)
  <2>1. open' \subseteq Locks BY <1>3 DEF Fseek, Typing
  <2>2. (\E n : Runs(c, Counts(n))) \/ Runs(c, Says("EIHNDL"))
    <3>1. CASE c.fd \in DOMAIN fds
      <4>1. Runs(c, Counts(SeekOffset(fds[c.fd], c.mode, c.n))) BY <1>3, <3>1 DEF Fseek
      <4> QED BY <4>1, Zenon
    <3>2. CASE c.fd \notin DOMAIN fds BY <1>3, <3>2 DEF Fseek
    <3> QED BY <3>1, <3>2
  <2> QED BY <1>1, <2>1, <2>2, AnswerCodes, RunsTyped
<1>4. CASE ReadBuff(c) \/ WriteBuff(c)
  <2>1. open' \subseteq Locks BY <1>4 DEF ReadBuff, WriteBuff, Typing
  <2>2. \/ \E e \in {"EIHNDL", "EINTRN"} : Runs(c, Says(e))
        \/ \E n : Runs(c, Counts(n))
        \/ \E n, b : Runs(c, [NoAns EXCEPT !.n = n, !.bytes = b])
    <3>1. CASE ReadBuff(c) BY <3>1, Zenon DEF ReadBuff, Refused
    <3>2. CASE WriteBuff(c) BY <3>2, Zenon DEF WriteBuff, Refused
    <3> QED BY <1>4, <3>1, <3>2
  <2>3. CASE \E e \in {"EIHNDL", "EINTRN"} : Runs(c, Says(e))
    BY <1>1, <2>1, <2>3, AnswerCodes, RunsTyped
  <2>4. CASE \E n : Runs(c, Counts(n)) BY <1>1, <2>1, <2>4, AnswerCodes, RunsTyped
  <2>5. ASSUME NEW n, NEW b, Runs(c, [NoAns EXCEPT !.n = n, !.bytes = b]) PROVE Typing'
    <3> DEFINE a == [NoAns EXCEPT !.n = n, !.bytes = b]
    <3>1. a.code \in Codes BY <1>1, AnswerCodes
    <3>2. Runs(c, a) BY <2>5
    <3> HIDE DEF a
    <3> QED BY <2>1, <3>1, <3>2, RunsTyped
  <2> QED BY <2>2, <2>3, <2>4, <2>5
<1>5. CASE Fsetdta(c) BY <1>1, <1>5, AnswerCodes, RunsTyped DEF Fsetdta, Typing
<1>6. CASE DtaRelease(c) \/ Fsfirst(c) \/ Fsnext(c)
  <2>1. c.key \in Keys BY <1>6 DEF IInv, Commands, CmdOK, DtaRelease, Fsfirst, Fsnext
  <2>2. Lock(Folder, "r", c.key) \in Locks BY <2>1, LockTyped DEF Objects
  <2>3. open' \subseteq open \cup {Lock(Folder, "r", c.key)}
    BY <1>6 DEF DtaRelease, Fsfirst, Fsnext, Released
  <2>4. open' \subseteq Locks BY <2>2, <2>3 DEF Typing
  <2>5. \/ Runs(c, NoAns)
        \/ \E e \in {"EOK", "EFILNF", "EINTRN", "ENMFIL"} : Runs(c, Says(e))
    BY <1>6, Zenon DEF DtaRelease, Fsfirst, Fsnext
  <2> QED BY <1>1, <2>4, <2>5, AnswerCodes, RunsTyped
<1> QED BY <1>2, <1>3, <1>4, <1>5, <1>6

LEMMA AtariTyped ==
  ASSUME Typing, open' = open, ans' \in {ans, NoAns}, DOMAIN owned' \subseteq FDs
  PROVE  Typing'
<1>1. ans'.code \in Codes BY AnswerCodes DEF Typing, Codes
<1> QED BY <1>1 DEF Typing

LEMMA StepTyped == ASSUME IInv, Services, Typing, [Next]_vars PROVE Typing'
<1>1. DOMAIN owned \subseteq FDs BY DEF Typing
<1>2. CASE Rp BY <1>2, FilesTyped, OthersTyped DEF Rp
<1>3. CASE Ask \/ SetDta \/ Fread \/ Fwrite
  <2>1. \A x : Send(x) => ans' = ans BY DEF Send
  <2>2. open' = open /\ owned' = owned BY <1>3 DEF Ask, SetDta, Fread, Fwrite, rp, atari
  <2>3. ans' = ans
    BY <1>3, <2>1 DEF Ask, AskPath, AskHandle, AskNext, SetDta, Fread, Fwrite, link
  <2> QED BY <1>1, <2>2, <2>3, AtariTyped
<1>4. CASE Driver
  <2>1. open' = open /\ ans' \in {ans, NoAns}
    BY <1>4 DEF Driver, HandleReturns, SeekReturns, SearchReturns, StatusReturns, ReadChunk,
                WriteChunk, CallReturns, Answered, GoOn, rp, link
  <2>2. DOMAIN owned' \subseteq FDs
    <3>1. CASE HandleReturns
      <4>1. phase = "ran" /\ owned' = Due
        BY <3>1 DEF HandleReturns, Due, Transfer, Back
      <4>2. DOMAIN Due = DOMAIN fds BY <4>1, DueHeld DEF SameHandles
      <4> QED BY <4>1, <4>2 DEF IInv, Tables
    <3>2. CASE SeekReturns \/ SearchReturns \/ StatusReturns \/ ReadChunk \/ WriteChunk \/ CallReturns
      <4>1. DOMAIN owned' = DOMAIN owned
        BY <3>2 DEF SeekReturns, SearchReturns, StatusReturns, ReadChunk, WriteChunk, CallReturns, atari
      <4> QED BY <1>1, <4>1
    <3> QED BY <1>4, <3>1, <3>2 DEF Driver
  <2> QED BY <2>1, <2>2, AtariTyped
<1>5. CASE Reboot BY <1>5, AtariTyped DEF Reboot, rp
<1>6. CASE UNCHANGED vars BY <1>6 DEF Typing, vars, rp, link, atari
<1> QED BY <1>2, <1>3, <1>4, <1>5, <1>6 DEF Next

\* The card, FatFs' locks, the RP's tables, the answers and the programs' handles
\* stay in their types: no offset or FIL pointer below zero comes of any seek,
\* transfer or failure, and no handle that is not one of the RP's numbers.
THEOREM Typed == ASSUME Harmless PROVE Spec => []TypeOK
<1>1. Init => Typing BY AnswerCodes DEF Init, Typing, Codes
<1>2. IInv /\ Services /\ Typing /\ [Next]_vars => Typing' BY StepTyped
<1>3. IInv /\ Services /\ Typing => TypeOK
  <2> SUFFICES ASSUME IInv, Services, Typing PROVE TypeOK OBVIOUS
  <2>1. ASSUME NEW h \in DOMAIN fds
        PROVE  fds[h] \in [path : Paths, mode : Modes, offset : Nat,
                           ptr : Nat \cup {Unsought}, err : BOOLEAN]
    <3>1. NodePlaced(fds[h], Len(files[fds[h].path])) BY DEF Services, Placed
    <3>2. Len(files[fds[h].path]) \in Nat BY <2>1, OpenIsLocked, LenProperties DEF FilesOK, Services
    <3>3. fds[h].ptr \in Nat \cup {Unsought} BY <3>1, <3>2 DEF NodePlaced, Nodes, Least
    <3> QED BY <3>1, <3>3 DEF NodePlaced, Nodes
  <2> QED BY <2>1 DEF TypeOK, Typing, Locks, Codes, IInv, Tables, SearchKeys, Services, FilesOK, Exchange
<1> QED BY <1>1, <1>2, <1>3, Inductive, ServicesInductive, PTL DEF Spec
=============================================================================
