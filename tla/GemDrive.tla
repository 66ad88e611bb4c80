------------------------------ MODULE GemDrive ------------------------------
(***************************************************************************)
(* The GEMDOS drive: file handles, reads and writes in chunks, and directory *)
(* searches (gemdrive.c on the RP, gemdrive.s on the Atari).                 *)
(*                                                                         *)
(* The Atari runs one program; a GEMDOS call is one command, or a loop of    *)
(* them for Fread and Fwrite, carried by the service of CommandService: a    *)
(* command runs once, and if its kind is in Repeats it may run again until   *)
(* the next one has run.  A reset of the Atari may come at any moment.       *)
(*                                                                         *)
(* Files are in one folder.  FatFs is external: its lock table (FF_FS_LOCK)  *)
(* has an entry per open object, a file open for writing is open once, and   *)
(* after an error a FIL refuses everything but being closed.                 *)
(***************************************************************************)
EXTENDS Integers, FiniteSets, Sequences

CONSTANTS
  Paths,      \* files that may exist
  Folder,     \* the folder they are in, as an object of FatFs' lock table
  Contents,   \* what is on the card at first: a function from some paths
  FirstFD,    \* FIRST_FILE_DESCRIPTOR
  MaxHandles, \* bound: handles the programs hold
  Keys,       \* addresses of DTAs
  LockSize,   \* FF_FS_LOCK, less the images that floppy and ACSI have open
  ReadSize,   \* DEFAULT_FOPEN_READ_BUFFER_SIZE
  WriteSize,  \* DEFAULT_FWRITE_BUFFER_SIZE
  LongMod,    \* 2^32
  MaxSize,    \* bound: size of a file, below 2^31
  OpenModes,  \* modes programs open files in
  Asked,      \* lengths programs read
  Data,       \* what programs write
  Seeks,      \* modes and offsets programs seek with
  NoPath, NoKey,
  Stray,      \* holder of a lock whose file did not close
  Junk,       \* what FatFs finds in clusters it adds to a file
  Repeats,    \* kinds of commands the link may run again
  Faults      \* what may fail: "memory", "access", "sync", "full"

FDs     == FirstFD .. FirstFD + MaxHandles
Objects == Paths \cup {Folder}
Modes   == {"r", "w", "rw"}
Unsought == -1   \* seek_dirty: the FIL's pointer is not where offset is
Errors  == {"EFILNF", "EPTHNF", "EACCDN", "EIHNDL", "EINTRN", "ENSMEM", "ENMFIL"}

ASSUME GemAssumption ==
  /\ Folder \notin Paths /\ NoPath \notin Objects /\ NoKey \notin Keys
  /\ DOMAIN Contents \subseteq Paths
  /\ \A p \in DOMAIN Contents : Contents[p] \in Seq(Nat) /\ Len(Contents[p]) <= MaxSize
  /\ FirstFD \in Nat /\ MaxHandles \in Nat /\ LockSize \in Nat
  /\ ReadSize \in Nat \ {0} /\ WriteSize \in Nat \ {0} /\ LongMod \in Nat \ {0}
  /\ MaxSize \in Nat /\ 2 * MaxSize < LongMod /\ Asked \subseteq Nat
  /\ Seeks \subseteq {"set", "cur", "end"} \X {n \in Int : -LongMod <= 2 * n /\ 2 * n < LongMod}
  /\ OpenModes \subseteq Modes /\ Data \subseteq Seq(Nat) /\ Junk \in Nat
  /\ FDs \cap Keys = {} /\ Stray \notin FDs \cup Keys
  /\ Keys # {}

VARIABLES
  files,   \* the card: content of the files there are
  open,    \* FatFs' lock table, with the FIL or DIR that holds each lock
  fds,     \* fdescriptors
  dtas,    \* dtaHead: per DTA, whether its directory is open
  phase,   \* of the exchange with the RP
  cmd,     \* the command sent
  late,    \* a command that has run and may run again
  ans,     \* what the RP wrote to the shared memory
  call,    \* the Fread or Fwrite in progress
  owned,   \* the handles programs hold, and where they expect to be in the file
  tosDta,  \* TOS' current DTA
  found    \* DTAs in which the last search of the drive found a file

rp    == <<files, open, fds, dtas>>
link  == <<phase, cmd, late, ans>>
atari == <<call, owned, tosDta, found>>
vars  == <<rp, link, atari>>

NoCmd == [kind |-> "none", path |-> NoPath, to |-> Folder, fd |-> FirstFD, mode |-> "r",
          n |-> 0, bytes |-> <<>>, key |-> NoKey]
NoAns == [code |-> "EOK", n |-> 0, bytes |-> <<>>]
\* data: read so far, or to be written; empty: the last chunk stored nothing
NoCall == [kind |-> "none", fd |-> FirstFD, data |-> <<>>, done |-> 0, left |-> 0,
           before |-> <<>>, start |-> 0, empty |-> FALSE, over |-> FALSE, code |-> "EOK"]

Without(f, x) == [y \in DOMAIN f \ {x} |-> f[y]]
With(f, x, v) == [y \in DOMAIN f \cup {x} |-> IF y = x THEN v ELSE f[y]]
Least(m, n)   == IF m < n THEN m ELSE n
Outcome(kind) == IF kind \in Faults THEN BOOLEAN ELSE {TRUE}

Init ==
  /\ files = Contents /\ open = {}
  /\ fds = [h \in {} |-> NoCmd] /\ dtas = [k \in {} |-> FALSE]
  /\ phase = "idle" /\ cmd = NoCmd /\ late = NoCmd /\ ans = NoAns
  /\ call = NoCall /\ owned = [h \in {} |-> [path |-> NoPath, pos |-> 0]]
  /\ tosDta = CHOOSE k \in Keys : TRUE
  /\ found = {}
-----------------------------------------------------------------------------
(* The exchange *)

Send(c) == phase' = "sent" /\ cmd' = c /\ UNCHANGED <<late, ans>>

Tag(c) == IF c.kind = "fseek" /\ c.mode = "cur" THEN "fseekcur" ELSE c.kind

\* The RP runs the command that was sent, or once more the one before.
Runs(c, answer) ==
  \/ /\ phase = "sent" /\ c = cmd
     /\ phase' = "ran" /\ ans' = answer
     /\ late' = IF Tag(c) \in Repeats THEN c ELSE NoCmd
     /\ UNCHANGED <<cmd, atari>>
  \/ /\ c = late /\ c # NoCmd
     /\ ans' = IF phase = "ran" THEN answer ELSE ans
     /\ UNCHANGED <<phase, cmd, late, atari>>

Says(code)    == [NoAns EXCEPT !.code = code]
Counts(n)     == [NoAns EXCEPT !.n = n]
Idle          == phase = "idle" /\ call.kind = "none"
Answered      == phase' = "idle" /\ cmd' = NoCmd /\ ans' = NoAns /\ UNCHANGED late
-----------------------------------------------------------------------------
(* FatFs *)

Entries == {x.obj : x \in open}
Full    == Cardinality(Entries) >= LockSize

CanRead(o)  == /\ \A x \in open : x.obj = o => ~x.write
               /\ o \in Entries \/ ~Full
CanWrite(o) == o \notin Entries /\ ~Full
CanOpen(o, mode) == IF mode = "r" THEN CanRead(o) ELSE CanWrite(o)

Lock(o, mode, holder) == [obj |-> o, write |-> mode # "r", by |-> holder]

\* f_lseek: a file open for writing grows, as far as the card has room.
Sought(f, to) ==
  LET size == Len(files[f.path])
      upto == IF f.mode = "r" \/ to <= size THEN size ELSE Least(to, MaxSize)
  IN [content |-> [i \in 1 .. upto |-> IF i <= size THEN files[f.path][i] ELSE Junk],
      at |-> Least(to, upto)]

Overwritten(s, at, b) ==
  [i \in 1 .. (IF at + Len(b) > Len(s) THEN at + Len(b) ELSE Len(s)) |->
     IF i \in at + 1 .. at + Len(b) THEN b[i - at] ELSE s[i]]
-----------------------------------------------------------------------------
(* Opening and closing, on the RP *)

\* getFirstAvailableFD
FirstFreeFD ==
  CHOOSE h \in FDs : h \notin DOMAIN fds /\ \A g \in FirstFD .. h - 1 : g \in DOMAIN fds

\* f_close writes what is left of the file first, and may fail: the lock stays.
CloseFails(mode) == "sync" \in Faults /\ mode # "r"

\* A file FatFs has opened gets a descriptor. If memory is out it is closed again,
\* whatever f_close says: a file that does not close keeps its lock.
\* (Bound: there are no more descriptors than FDs has.)
AddFile(c, memory) ==
  IF memory
  THEN /\ DOMAIN fds # FDs
       /\ open' = open \cup {Lock(c.path, c.mode, FirstFreeFD)}
       /\ fds' = With(fds, FirstFreeFD, [path |-> c.path, mode |-> c.mode, offset |-> 0,
                                         ptr |-> 0, err |-> FALSE])
       /\ Runs(c, Counts(FirstFreeFD))
  ELSE /\ \/ UNCHANGED open
          \/ CloseFails(c.mode) /\ open' = open \cup {Lock(c.path, c.mode, Stray)}
       /\ UNCHANGED fds
       /\ Runs(c, Says("EINTRN"))

\* GEMDRVEMUL_FOPEN_CALL
Fopen(c) ==
  /\ c.kind = "fopen"
  /\ IF c.path \in DOMAIN files /\ CanOpen(c.path, c.mode)
     THEN \E memory \in Outcome("memory") : AddFile(c, memory)
     ELSE Runs(c, Says("EFILNF")) /\ UNCHANGED <<open, fds>>
  /\ UNCHANGED <<files, dtas>>

\* GEMDRVEMUL_FCREATE_CALL: the file is emptied before memory is asked for.
Fcreate(c) ==
  /\ c.kind = "fcreate"
  /\ IF CanWrite(c.path)
     THEN /\ files' = With(files, c.path, <<>>)
          /\ \E memory \in Outcome("memory") : AddFile(c, memory)
     ELSE Runs(c, Says("EPTHNF")) /\ UNCHANGED <<files, open, fds>>
  /\ UNCHANGED dtas

\* Deviation: a file that is closed keeps its descriptor.
FcloseKeepingNode(c) ==
  /\ c.kind = "fclose"
  /\ open' = {x \in open : x.by # c.fd}
  /\ Runs(c, Says(IF c.fd \in DOMAIN fds THEN "EOK" ELSE "EIHNDL"))
  /\ UNCHANGED <<files, fds, dtas>>

\* GEMDRVEMUL_FCLOSE_CALL
Fclose(c) ==
  /\ c.kind = "fclose"
  /\ \/ /\ c.fd \in DOMAIN fds
        /\ open' = {x \in open : x.by # c.fd}
        /\ fds' = Without(fds, c.fd)
        /\ Runs(c, NoAns)
     \/ /\ c.fd \in DOMAIN fds /\ CloseFails(fds[c.fd].mode)
        /\ Runs(c, Says("EINTRN"))
        /\ UNCHANGED <<open, fds>>
     \/ /\ c.fd \notin DOMAIN fds
        /\ Runs(c, Says("EIHNDL"))
        /\ UNCHANGED <<open, fds>>
  /\ UNCHANGED <<files, dtas>>

\* GEMDRVEMUL_FDELETE_CALL; that there is no such file is no error
Fdelete(c) ==
  /\ c.kind = "fdelete"
  /\ IF \E h \in DOMAIN fds : fds[h].path = c.path
     THEN Runs(c, Says("EACCDN")) /\ UNCHANGED files
     ELSE IF c.path \in DOMAIN files /\ c.path \in Entries
     THEN Runs(c, Says("EINTRN")) /\ UNCHANGED files
     ELSE Runs(c, NoAns) /\ files' = Without(files, c.path)
  /\ UNCHANGED <<open, fds, dtas>>

\* GEMDRVEMUL_FRENAME_CALL; f_rename refuses a file that is open
Frename(c) ==
  LET code == IF c.path \notin DOMAIN files THEN "EFILNF"
              ELSE IF c.path \in Entries THEN "EINTRN"
              ELSE IF c.to \in DOMAIN files THEN "EACCDN"
              ELSE "EOK"
  IN /\ c.kind = "frename"
     /\ files' = IF code = "EOK" THEN With(Without(files, c.path), c.to, files[c.path])
                 ELSE files
     /\ Runs(c, Says(code))
     /\ UNCHANGED <<open, fds, dtas>>

\* GEMDRVEMUL_RESET: every search is freed and every file closed; the lock of a
\* file that does not close outlives its descriptor.
Reset(c) ==
  /\ c.kind = "reset"
  /\ \E bad \in SUBSET {h \in DOMAIN fds : CloseFails(fds[h].mode)} :
       open' = {x \in open : x.by = Stray}
                 \cup {Lock(fds[h].path, fds[h].mode, Stray) : h \in bad}
  /\ fds' = [h \in {} |-> NoCmd]
  /\ dtas' = [k \in {} |-> FALSE]
  /\ Runs(c, NoAns)
  /\ UNCHANGED files
-----------------------------------------------------------------------------
(* Position and transfer, on the RP *)

Signed(n) == IF 2 * n >= LongMod THEN n - LongMod ELSE n

\* Comparing a signed offset with an unsigned size makes a negative one large.
Exceeds(n, size) == n < 0 \/ n > size

\* The new offset of an Fseek, 32 bits wide.
SeekOffset(f, mode, n) ==
  LET size == Len(files[f.path])
      from == Signed(f.offset)
  IN CASE mode = "set" -> IF Exceeds(n, size) THEN size ELSE n
       [] mode = "cur" -> IF n < 0 THEN (IF from + n < 0 THEN 0 ELSE from + n)
                          ELSE IF Exceeds(from + n, size) THEN size ELSE from + n
       [] mode = "end" -> IF n <= 0 THEN (size + n) % LongMod ELSE size

\* Deviation: the FIL is not told of the new offset.
FseekKeepingPointer(c) ==
  /\ c.kind = "fseek"
  /\ IF c.fd \in DOMAIN fds
     THEN LET to == SeekOffset(fds[c.fd], c.mode, c.n)
          IN /\ fds' = [fds EXCEPT ![c.fd].offset = to]
             /\ Runs(c, Counts(to))
     ELSE Runs(c, Says("EIHNDL")) /\ UNCHANGED fds
  /\ UNCHANGED <<files, open, dtas>>

\* GEMDRVEMUL_FSEEK_CALL: FatFs is told of the offset by the next transfer.
Fseek(c) ==
  /\ c.kind = "fseek"
  /\ IF c.fd \in DOMAIN fds
     THEN LET to == SeekOffset(fds[c.fd], c.mode, c.n)
          IN /\ fds' = [fds EXCEPT ![c.fd].offset = to, ![c.fd].ptr = Unsought]
             /\ Runs(c, Counts(to))
     ELSE Runs(c, Says("EIHNDL")) /\ UNCHANGED fds
  /\ UNCHANGED <<files, open, dtas>>

\* syncFileOffsetIfNeeded: the content and place a transfer on f works on
Synced(f) == IF f.ptr = Unsought THEN Sought(f, f.offset)
             ELSE [content |-> files[f.path], at |-> f.ptr]

\* A transfer is refused by the access mode, by an earlier error or by the card;
\* what f_lseek did before stays done.  (Bound: one file in error at a time.)
Refused(c, f, denied) ==
  /\ \/ f.err /\ UNCHANGED <<files, fds>>
     \/ /\ ~f.err /\ denied
        /\ files' = [files EXCEPT ![f.path] = Synced(f).content]
        /\ fds' = [fds EXCEPT ![c.fd].ptr = Synced(f).at]
     \/ /\ "access" \in Faults /\ \A h \in DOMAIN fds : ~fds[h].err
        /\ fds' = [fds EXCEPT ![c.fd].err = TRUE]
        /\ UNCHANGED files
  /\ Runs(c, Says("EINTRN"))

\* Deviation: the offset moves on by what was asked for.
AdvanceByAsked(f, at, n) == [f EXCEPT !.ptr = at + n, !.offset = @ + ReadSize]

\* f_read or f_write has moved the FIL's pointer on by n, and the offset follows.
Advance(f, at, n) == [f EXCEPT !.ptr = at + n, !.offset = @ + n]

\* GEMDRVEMUL_READ_BUFF_CALL; n is what the driver still wants
ReadBuff(c) ==
  /\ c.kind = "readbuff"
  /\ \/ /\ c.fd \notin DOMAIN fds
        /\ Runs(c, Says("EIHNDL"))
        /\ UNCHANGED <<files, fds>>
     \/ /\ c.fd \in DOMAIN fds
        /\ LET f == fds[c.fd]
               s == Synced(f)
               n == Least(Least(c.n, ReadSize), Len(s.content) - s.at)
           IN \/ Refused(c, f, f.mode = "w")
              \/ /\ ~f.err /\ f.mode # "w"
                 /\ files' = [files EXCEPT ![f.path] = s.content]
                 /\ fds' = [fds EXCEPT ![c.fd] = Advance(f, s.at, n)]
                 /\ Runs(c, [NoAns EXCEPT !.n = n,
                                          !.bytes = SubSeq(s.content, s.at + 1, s.at + n)])
  /\ UNCHANGED <<open, dtas>>

\* How much of a chunk f_write stores: only what makes a file longer needs room.
Storable(f, s, b) ==
  {n \in 0 .. Len(b) : n = Len(b) \/ ("full" \in Faults /\ s.at + n >= Len(s.content))}

\* GEMDRVEMUL_WRITE_BUFF_CALL
WriteBuff(c) ==
  /\ c.kind = "writebuff"
  /\ \/ /\ c.fd \notin DOMAIN fds
        /\ Runs(c, Says("EIHNDL"))
        /\ UNCHANGED <<files, fds>>
     \/ /\ c.fd \in DOMAIN fds
        /\ LET f == fds[c.fd]
               s == Synced(f)
           IN \/ Refused(c, f, f.mode = "r")
              \/ \E n \in Storable(f, s, c.bytes) :
                   /\ ~f.err /\ f.mode # "r"
                   /\ files' = [files EXCEPT ![f.path] =
                                  Overwritten(s.content, s.at, SubSeq(c.bytes, 1, n))]
                   /\ fds' = [fds EXCEPT ![c.fd] = Advance(f, s.at, n)]
                   /\ Runs(c, Counts(n))
  /\ UNCHANGED <<open, dtas>>
-----------------------------------------------------------------------------
(* Searches, on the RP *)

\* Deviation: the node is freed and its directory left open.
ReleasedUnclosed(k) == [dtas |-> Without(dtas, k), open |-> open]

\* releaseDTA: the directory is closed with its node.
Released(k) == [dtas |-> Without(dtas, k), open |-> {x \in open : x.by # k}]

\* Deviation: a node that exists is started anew.
FsetdtaAnew(c) ==
  /\ c.kind = "fsetdta"
  /\ dtas' = With(dtas, c.key, FALSE)
  /\ Runs(c, NoAns)
  /\ UNCHANGED <<files, open, fds>>

\* GEMDRVEMUL_FSETDTA_CALL: a node without a directory, unless there is one.
Fsetdta(c) ==
  /\ c.kind = "fsetdta"
  /\ \E memory \in Outcome("memory") :
       dtas' = IF c.key \in DOMAIN dtas \/ ~memory THEN dtas ELSE With(dtas, c.key, FALSE)
  /\ Runs(c, NoAns)
  /\ UNCHANGED <<files, open, fds>>

\* GEMDRVEMUL_DTA_RELEASE_CALL
DtaRelease(c) ==
  /\ c.kind = "dtarelease"
  /\ dtas' = Released(c.key).dtas
  /\ open' = Released(c.key).open
  /\ Runs(c, NoAns)
  /\ UNCHANGED <<files, fds>>

\* The files a search for path matches; NoPath stands for *.*
Matches(path) == IF path = NoPath THEN DOMAIN files ELSE DOMAIN files \cap {path}

\* GEMDRVEMUL_FSFIRST_CALL: an earlier search of the same DTA is given up; a full
\* lock table is told as not found.  (Memory is taken to suffice.)
Fsfirst(c) ==
  LET r       == Released(c.key)
      objects == {x.obj : x \in r.open}
      canOpen == Folder \in objects \/ Cardinality(objects) < LockSize
      hit     == canOpen /\ Matches(c.path) # {}
  IN /\ c.kind = "fsfirst"
     /\ dtas' = IF hit THEN With(r.dtas, c.key, TRUE) ELSE r.dtas
     /\ open' = IF hit THEN r.open \cup {Lock(Folder, "r", c.key)} ELSE r.open
     /\ Runs(c, Says(IF hit THEN "EOK" ELSE "EFILNF"))
     /\ UNCHANGED <<files, fds>>

\* GEMDRVEMUL_FSNEXT_CALL: the next match, or the search is over; a DTA whose
\* search has ended, or has not begun, is an error.
Fsnext(c) ==
  LET searching == c.key \in DOMAIN dtas /\ dtas[c.key]
  IN /\ c.kind = "fsnext"
     /\ \/ /\ searching /\ DOMAIN files # {}
           /\ Runs(c, NoAns)
           /\ UNCHANGED <<dtas, open>>
        \/ /\ dtas' = Released(c.key).dtas /\ open' = Released(c.key).open
           /\ Runs(c, Says(IF searching THEN "ENMFIL" ELSE "EINTRN"))
     /\ UNCHANGED <<files, fds>>
-----------------------------------------------------------------------------
(* GEMDOS calls of one command, on the Atari *)

Path(kind, p)   == [NoCmd EXCEPT !.kind = kind, !.path = p]
Handle(kind, h) == [NoCmd EXCEPT !.kind = kind, !.fd = h]

\* What a program may ask for.  (A handle it does not hold is answered EIHNDL.)
AskPath ==
  \/ /\ Cardinality(DOMAIN owned) < MaxHandles
     /\ \E p \in Paths : \/ \E m \in OpenModes : Send([Path("fopen", p) EXCEPT !.mode = m])
                         \/ Send([Path("fcreate", p) EXCEPT !.mode = "rw"])
  \/ \E p \in Paths : Send(Path("fdelete", p))
  \/ \E p, q \in Paths : p # q /\ Send([Path("frename", p) EXCEPT !.to = q])
  \/ \E p \in Paths \cup {NoPath} : Send([Path("fsfirst", p) EXCEPT !.key = tosDta])

AskHandle ==
  \E h \in DOMAIN owned :
    \/ Send(Handle("fclose", h))
    \/ \E s \in Seeks : Send([Handle("fseek", h) EXCEPT !.mode = s[1], !.n = s[2]])

AskNext == tosDta \in found /\ Send([NoCmd EXCEPT !.kind = "fsnext", !.key = tosDta])

Ask ==
  /\ Idle
  /\ AskPath \/ AskHandle \/ AskNext
  /\ UNCHANGED <<rp, atari>>

\* Fsetdta: TOS sets its DTA; the RP is told if the current drive is the emulated
\* one.
SetDta ==
  /\ Idle
  /\ \E k \in Keys :
       /\ tosDta' = k
       /\ \/ Send([NoCmd EXCEPT !.kind = "fsetdta", !.key = k])
          \/ UNCHANGED link
  /\ UNCHANGED <<rp, call, owned, found>>

Back(kinds) == phase = "ran" /\ cmd.kind \in kinds

\* Fopen and Fcreate return a handle, Fclose takes one back.
HandleReturns ==
  /\ Back({"fopen", "fcreate", "fclose"})
  /\ owned' = IF ans.code # "EOK" THEN owned
              ELSE IF cmd.kind = "fclose" THEN Without(owned, cmd.fd)
              ELSE With(owned, ans.n, [path |-> cmd.path, pos |-> 0])
  /\ Answered
  /\ UNCHANGED <<rp, call, tosDta, found>>

\* Fseek returns the position.
SeekReturns ==
  /\ Back({"fseek"})
  /\ owned' = IF ans.code = "EOK" THEN [owned EXCEPT ![cmd.fd].pos = ans.n] ELSE owned
  /\ Answered
  /\ UNCHANGED <<rp, call, tosDta, found>>

\* Fsfirst and Fsnext fill in the DTA, or clear it and have its search released.
SearchReturns ==
  /\ Back({"fsfirst", "fsnext"})
  /\ IF ans.code = "EOK"
     THEN found' = found \cup {cmd.key} /\ Answered
     ELSE /\ found' = found \ {cmd.key}
          /\ phase' = "sent" /\ ans' = NoAns
          /\ cmd' = [NoCmd EXCEPT !.kind = "dtarelease", !.key = cmd.key]
          /\ UNCHANGED late
  /\ UNCHANGED <<rp, call, owned, tosDta>>

StatusReturns ==
  /\ Back({"fdelete", "frename", "fsetdta", "dtarelease", "reset"})
  /\ Answered
  /\ UNCHANGED <<rp, atari>>
-----------------------------------------------------------------------------
(* Fread and Fwrite, on the Atari *)

Begin(kind, h, data, n) ==
  call' = [NoCall EXCEPT !.kind = kind, !.fd = h, !.data = data, !.left = n,
                         !.before = files[owned[h].path], !.start = owned[h].pos]

AskChunk(h, n)   == [Handle("readbuff", h) EXCEPT !.n = n]
SendChunk(h, b)  == [Handle("writebuff", h) EXCEPT !.bytes = SubSeq(b, 1, Least(Len(b), WriteSize))]
GoOn(c)          == phase' = "sent" /\ cmd' = c /\ ans' = NoAns /\ UNCHANGED late

Fread ==
  /\ Idle
  /\ \E h \in DOMAIN owned, n \in Asked :
       Begin("read", h, <<>>, n) /\ Send(AskChunk(h, n))
  /\ UNCHANGED <<rp, owned, tosDta, found>>

Fwrite ==
  /\ Idle
  /\ \E h \in DOMAIN owned, b \in Data :
       /\ owned[h].pos + Len(b) <= MaxSize
       /\ Begin("write", h, b, Len(b)) /\ Send(SendChunk(h, b))
  /\ UNCHANGED <<rp, owned, tosDta, found>>

\* Deviation: the loop goes on until it has all that was asked for.
MoreUntilAll(n) == call.left > n

\* Fread goes on after a full chunk.
More(n) == n = ReadSize /\ call.left > n

ReadChunk ==
  /\ Back({"readbuff"})
  /\ LET more == ans.code = "EOK" /\ More(ans.n)
     IN /\ call' = [call EXCEPT !.data = @ \o ans.bytes, !.done = @ + ans.n,
                                !.left = @ - ans.n, !.over = ~more, !.code = ans.code]
        /\ IF more THEN GoOn(AskChunk(call.fd, call.left - ans.n)) ELSE Answered
  /\ owned' = [owned EXCEPT ![call.fd].pos = @ + ans.n]
  /\ UNCHANGED <<rp, tosDta, found>>

\* Deviation: what was not stored of a chunk is not sent again.
RestAfterChunk(n) == SubSeq(call.data, call.done + Least(WriteSize, call.left) + 1, Len(call.data))

\* What Fwrite has not written after n more bytes.
Rest(n) == SubSeq(call.data, call.done + n + 1, Len(call.data))

\* Fwrite goes on until everything is written.  A chunk of which nothing was
\* stored, or that was refused, is sent again.  (An error is a negative number
\* the code takes for a count; FatFs refuses the file from then on, and some
\* 2^31 / 65 rounds later the loop would end.)
WriteChunk ==
  /\ Back({"writebuff"})
  /\ LET rest == Rest(ans.n)
     IN /\ call' = [call EXCEPT !.done = @ + ans.n, !.left = Len(rest),
                                !.empty = (ans.n = 0), !.over = (rest = <<>>)]
        /\ IF rest # <<>> THEN GoOn(SendChunk(call.fd, rest)) ELSE Answered
  /\ owned' = [owned EXCEPT ![call.fd].pos = @ + ans.n]
  /\ UNCHANGED <<rp, tosDta, found>>

\* The call returns to the program.
CallReturns ==
  /\ call.over
  /\ call' = NoCall
  /\ UNCHANGED <<rp, link, owned, tosDta, found>>
-----------------------------------------------------------------------------
\* The Atari is reset: its programs and TOS start again, and the driver tells the
\* RP.  Frames of before are run or gone by the time it does.
Reboot ==
  /\ owned' = [h \in {} |-> [path |-> NoPath, pos |-> 0]]
  /\ call' = NoCall /\ found' = {}
  /\ tosDta' = CHOOSE k \in Keys : TRUE
  /\ phase' = "sent" /\ late' = NoCmd /\ ans' = NoAns
  /\ cmd' = [NoCmd EXCEPT !.kind = "reset"]
  /\ UNCHANGED rp

Rp ==
  \E c \in {cmd, late} :
    \/ Fopen(c) \/ Fcreate(c) \/ Fclose(c) \/ Fdelete(c) \/ Frename(c) \/ Reset(c)
    \/ Fseek(c) \/ ReadBuff(c) \/ WriteBuff(c)
    \/ Fsetdta(c) \/ DtaRelease(c) \/ Fsfirst(c) \/ Fsnext(c)

Driver == \/ HandleReturns \/ SeekReturns \/ SearchReturns \/ StatusReturns
          \/ ReadChunk \/ WriteChunk \/ CallReturns

Next == Ask \/ SetDta \/ Fread \/ Fwrite \/ Rp \/ Driver \/ Reboot

Spec == Init /\ [][Next]_vars

\* Core 0 runs the command that was sent, and the driver goes on with its answer;
\* no program has to make a call.
FairSpec == Spec /\ WF_vars(Rp /\ phase' # phase) /\ WF_vars(Driver)
-----------------------------------------------------------------------------
(* Properties *)

TypeOK ==
  /\ DOMAIN files \subseteq Paths /\ \A p \in DOMAIN files : files[p] \in Seq(Nat)
  /\ open \subseteq [obj : Objects, write : BOOLEAN, by : FDs \cup Keys \cup {Stray}]
  /\ DOMAIN fds \subseteq FDs
  /\ \A h \in DOMAIN fds :
       fds[h] \in [path : Paths, mode : Modes, offset : Nat, ptr : Nat \cup {Unsought}, err : BOOLEAN]
  /\ DOMAIN dtas \subseteq Keys /\ \A k \in DOMAIN dtas : dtas[k] \in BOOLEAN
  /\ phase \in {"idle", "sent", "ran"} /\ ans.code \in Errors \cup {"EOK"}
  /\ DOMAIN owned \subseteq FDs
  /\ tosDta \in Keys /\ found \subseteq Keys

\* Between calls, the descriptors of the RP are the handles the programs hold,
\* each on its file and at the position the program was told: no handle is left
\* over, handed out twice, or moved by a command that ran again.
HandlesAgree ==
  phase = "idle" =>
    /\ DOMAIN fds = DOMAIN owned
    /\ \A h \in DOMAIN owned : fds[h].path = owned[h].path /\ fds[h].offset = owned[h].pos

\* FatFs holds a lock for each descriptor and each open search.  Any other lock is
\* of a file for writing that the card refused to close, at a reset or when there
\* was no memory for its descriptor: nothing else takes an entry of the small table
\* for good, neither a search nor a file that is only read.
LocksMatch ==
  /\ {x \in open : x.by # Stray} =
       {Lock(fds[h].path, fds[h].mode, h) : h \in DOMAIN fds}
         \cup {Lock(Folder, "r", k) : k \in {k \in DOMAIN dtas : dtas[k]}}
  /\ \A x \in open : x.by = Stray => x.write /\ "sync" \in Faults

\* A file that is open for writing is open once.
ExclusiveWriter ==
  \A g, h \in DOMAIN fds : g # h /\ fds[g].path = fds[h].path => fds[g].mode = "r"

\* A file that is open is not deleted or renamed.
OpenFileExists == \A h \in DOMAIN fds : fds[h].path \in DOMAIN files

\* A search that a program can go on with is open on the RP.
SearchLives == phase = "idle" => \A k \in found : k \in DOMAIN dtas /\ dtas[k]

\* An Fread that returns no error returns what is in the file from the handle's
\* position on, as much as was asked for or up to the end.
ReadExact ==
  (call.kind = "read" /\ call.over /\ call.code = "EOK") =>
    call.data = SubSeq(call.before, call.start + 1,
                       Least(call.start + call.done + call.left, Len(call.before)))

\* An Fwrite that returns has put its bytes at the handle's position, all of them
\* once, and left the rest of the file as it was.
WriteExact ==
  (call.kind = "write" /\ call.over) =>
    files[owned[call.fd].path] = Overwritten(call.before, call.start, call.data)

\* Every Fread returns, and every Fwrite of which each chunk is at least partly
\* stored (needs FairSpec).
CallsReturn == call.kind # "none" ~> (call.kind = "none" \/ call.empty)

\* Every Fwrite returns (needs FairSpec).
FwriteReturns == call.kind = "write" ~> call.kind # "write"
=============================================================================
