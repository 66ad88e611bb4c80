-------------------------------- MODULE Acsi --------------------------------
(***************************************************************************)
(* The ACSI hard disk: hdv_rw and hdv_mediach of acsi.s on the Atari,        *)
(* acsi_loop and acsi_tick of acsi.c on the RP2040, and the image buffer     *)
(* they share.                                                              *)
(*                                                                         *)
(* The command link is used by what it promises (CommandService, which       *)
(* CommandLink is proved to implement): calls are carried out in order, a    *)
(* retransmission may make the RP run the last command again until it has    *)
(* run the next, and a call may fail, its command carried out or not.        *)
(*                                                                         *)
(* A block is ACSI_WRITE_CHUNK_SIZE bytes, and a logical sector is one       *)
(* block.  A block is big-endian in the Atari's memory and little-endian in  *)
(* the image; le says which one a copy is.                                  *)
(***************************************************************************)
EXTENDS Integers, Sequences, FiniteSets

CONSTANTS
  NoCmd,          \* no command
  Drives,         \* drives with a BPB: acsiDriveIsOwned
  Start,          \* first block of each drive's partition
  Count,          \* blocks in each drive's partition
  ImageSize,      \* blocks in the image
  MaxBatch,       \* blocks that ACSIEMUL_BATCH_MAX_BYTES hold
  Values,         \* what a block can hold
  Old,            \* what every block holds at first
  WriteData,      \* bound: what TOS writes, sequences of values
  Requests,       \* bound: what TOS reads and writes: drive, record, blocks
  FlushInterval,  \* ACSI_FLUSH_INTERVAL_MS, in ticks of the clock
  Repeats,        \* kinds of command the link runs again
  Faults          \* bound: what the card may refuse, and "call": calls may fail

Kinds  == {"read", "part", "whole", "last", "mask"}
Blocks == 0 .. ImageSize - 1
Block(d, r) == Start[d] + r
Copies == [val : Values, le : BOOLEAN]

ASSUME AcsiAssumption ==
  /\ Start \in [Drives -> Nat] /\ Count \in [Drives -> Nat \ {0}]
  /\ \A d \in Drives : Start[d] + Count[d] <= ImageSize
  /\ \A d, e \in Drives : d # e => Start[d] + Count[d] <= Start[e] \/ Start[e] + Count[e] <= Start[d]
  /\ ImageSize \in Nat /\ MaxBatch \in Nat \ {0} /\ FlushInterval \in Nat
  /\ Requests \subseteq [drive : Drives, rec : Nat, count : Nat \ {0}]
  /\ Old \in Values
  /\ WriteData \subseteq Seq(Values) \ {<<>>}
  /\ Repeats \subseteq Kinds
  /\ Faults \subseteq {"open", "read", "write", "sync", "call"}

ReadCmds  == [op : {"read"}, drive : Drives, rec : Nat, count : Nat]
WriteCmds == [op : {"write"}, drive : Drives, rec : Nat, off : Nat, total : Nat, data : Values]
MaskCmds  == [op : {"mask"}, mask : SUBSET Drives]
Cmds      == ReadCmds \cup WriteCmds \cup MaskCmds

ASSUME NoCmdAssumption == NoCmd \notin Cmds

VARIABLES
  cur, call, done, effect,  \* the link: see CommandService
  pc,        \* where the Atari is: "idle" when TOS is not in the driver
  job,       \* what TOS asked for
  at,        \* blocks of the job in batches that are done
  off,       \* blocks of the current batch sent, or copied
  got,       \* blocks of the current read delivered to TOS
  running,   \* the read whose blocks the RP has loaded but not swapped
  buffer,    \* ACSIEMUL_IMAGE_BUFFER
  status,    \* ACSIEMUL_SVAR_RW_STATUS
  mask,      \* ACSIEMUL_SVAR_MEDIA_CHANGED_MASK
  image,     \* the blocks of the image file
  isOpen,    \* acsiRuntimeImage.isOpen
  dirty,     \* acsiWriteDirty
  dirtyAge,  \* time since acsiWriteDirtyAtMs, up to FlushInterval
  unsynced,  \* history: written since the last f_sync
  disk       \* history: what the writes TOS saw succeed put on the disk

link    == <<cur, call, done, effect>>
atari   == <<pc, job, at, off, got>>
flush   == <<dirty, dirtyAge, unsynced>>
rp      == <<running, buffer, status, mask, image, isOpen, flush>>
vars    == <<link, atari, rp, disk>>

Service == INSTANCE CommandService

NoJob   == [op |-> "none"]
Unknown == "unknown"   \* a write to the block failed

Init ==
  /\ Service!Init
  /\ pc = "idle" /\ job = NoJob /\ at = 0 /\ off = 0 /\ got = <<>>
  /\ running = NoCmd
  /\ buffer = [i \in 1 .. MaxBatch |-> [val |-> Old, le |-> FALSE]]
  /\ status = 0
  /\ mask = Drives
  /\ image = [b \in Blocks |-> [val |-> Old, le |-> TRUE]]
  /\ isOpen = FALSE
  /\ dirty = FALSE /\ dirtyAge = 0 /\ unsynced = FALSE
  /\ disk = [b \in Blocks |-> Old]
-----------------------------------------------------------------------------
(* The Atari *)

\* TOS calls the driver.
Enter(j) == /\ pc = "idle"
            /\ pc' = "send"
            /\ job' = j
            /\ UNCHANGED <<at, off, got, link, rp, disk>>

\* A read may reach past the end of the partition.
RwabsRead(q) == Enter([op |-> "read", drive |-> q.drive, rec |-> q.rec, count |-> q.count])

RwabsWrite(q, words) ==
  /\ Len(words) = q.count
  /\ q.rec + q.count <= Count[q.drive]
  /\ Enter([op |-> "write", drive |-> q.drive, rec |-> q.rec, count |-> q.count, data |-> words])

\* bclr d2, d1
MaskWithout(d) == mask \ {d}

\* hdv_mediach of a drive whose bit is set; otherwise it sends nothing.
Mediach(d) == d \in mask /\ Enter([op |-> "mask", mask |-> MaskWithout(d)])

\* Blocks of the job's next batch.
Batch == IF job.count - at < MaxBatch THEN job.count - at ELSE MaxBatch

\* Deviation: the record number is not advanced between batches.
ReadCommandAtStart == [op |-> "read", drive |-> job.drive, rec |-> job.rec, count |-> Batch]

ReadCommand == [op |-> "read", drive |-> job.drive, rec |-> job.rec + at, count |-> Batch]

ChunkCommand == [op |-> "write", drive |-> job.drive, rec |-> job.rec + at, off |-> off,
                 total |-> Batch, data |-> job.data[at + off + 1]]

Send ==
  /\ pc = "send"
  /\ pc' = "wait"
  /\ Service!Submit(CASE job.op = "read"  -> ReadCommand
                      [] job.op = "write" -> ChunkCommand
                      [] job.op = "mask"  -> [op |-> "mask", mask |-> job.mask])
  /\ UNCHANGED <<job, at, off, got, rp, disk>>

\* The token came back.
Answered ==
  /\ pc = "wait"
  /\ Service!Answer
  /\ pc' = "status"
  /\ UNCHANGED <<job, at, off, got, rp, disk>>

\* A chunk that is not the batch's last: the next one follows.
ChunkDone ==
  /\ pc = "status" /\ job.op = "write" /\ off + 1 < Batch
  /\ Service!Return
  /\ pc' = "send"
  /\ off' = off + 1
  /\ UNCHANGED <<job, at, got, rp, disk>>

\* hdv_mediach returns MED_CHANGED, whether or not its command arrived.
MaskDone ==
  /\ job.op = "mask"
  /\ \/ pc = "status" /\ Service!Return
     \/ pc = "wait" /\ "call" \in Faults /\ Service!Fail
  /\ pc' = "idle" /\ job' = NoJob
  /\ UNCHANGED <<at, off, got, rp, disk>>

\* The batch is acknowledged: its status decides.
AtStatus == /\ pc = "status"
            /\ job.op = "read" \/ (job.op = "write" /\ off + 1 = Batch)

JobBlocks == {Block(job.drive, job.rec + i - 1) : i \in 1 .. job.count}
DataAt(b) == job.data[b - Block(job.drive, job.rec) + 1]

\* A batch is done; the last one ends the call.
BatchDone ==
  /\ off' = 0
  /\ IF at + Batch < job.count
     THEN pc' = "send" /\ at' = at + Batch /\ UNCHANGED <<job, got, disk>>
     ELSE /\ pc' = "idle" /\ job' = NoJob /\ at' = 0 /\ got' = <<>>
          /\ disk' = IF job.op = "write"
                     THEN [b \in Blocks |-> IF b \in JobBlocks THEN DataAt(b) ELSE disk[b]]
                     ELSE disk

\* A status other than 0, or a call that failed, ends the job with an error.
BatchFailed ==
  /\ \/ AtStatus /\ status # 0 /\ Service!Return
     \/ pc = "wait" /\ job.op # "mask" /\ "call" \in Faults /\ Service!Fail
  /\ pc' = "idle" /\ job' = NoJob /\ at' = 0 /\ off' = 0 /\ got' = <<>>
  /\ disk' = IF job.op = "write"
             THEN [b \in Blocks |-> IF b \in JobBlocks THEN Unknown ELSE disk[b]]
             ELSE disk
  /\ UNCHANGED rp

WriteSucceeds ==
  /\ AtStatus /\ status = 0 /\ job.op = "write"
  /\ Service!Return
  /\ BatchDone
  /\ UNCHANGED rp

StartCopy ==
  /\ AtStatus /\ status = 0 /\ job.op = "read"
  /\ pc' = "copy" /\ off' = 0
  /\ UNCHANGED <<link, job, at, got, rp, disk>>

\* The Atari copies the buffer while the RP goes on.
CopyBlock ==
  /\ pc = "copy" /\ off < Batch
  /\ got' = Append(got, buffer[off + 1])
  /\ off' = off + 1
  /\ UNCHANGED <<pc, job, at, link, rp, disk>>

CopyDone ==
  /\ pc = "copy" /\ off = Batch
  /\ Service!Return
  /\ BatchDone
  /\ UNCHANGED rp
-----------------------------------------------------------------------------
(* The RP2040: acsi_loop *)

Kind(c) == CASE c.op = "read" -> "read"
             [] c.op = "mask" -> "mask"
             [] c.op = "write" -> IF c.off + 1 < c.total THEN "part"
                                  ELSE IF c.total = 1 THEN "whole" ELSE "last"

\* The link hands c over: the command of the call, or the last one again.
Due(c) ==
  /\ running = NoCmd
  /\ \/ c = cur /\ call = "open" /\ ~done
     \/ c = effect /\ Kind(c) \in Repeats

Ran(c) == IF c = cur /\ call = "open" THEN Service!Perform ELSE UNCHANGED link

\* The outcomes the card may give an operation of a kind.
Outcome(kind) == IF kind \in Faults THEN BOOLEAN ELSE {TRUE}

\* acsiEnsureRuntimeImageOpen; ok: whether the card lets a closed image be opened
EnsureOpen(ok) == isOpen' = (isOpen \/ ok)

\* Deviation: the last block is left as it is.
SwapAllButLast(buf, n) == [i \in DOMAIN buf |-> IF i < n THEN [buf[i] EXCEPT !.le = ~@] ELSE buf[i]]

\* CHANGE_ENDIANESS_BLOCK16, of the first n blocks
Swap(buf, n) == [i \in DOMAIN buf |-> IF i <= n THEN [buf[i] EXCEPT !.le = ~@] ELSE buf[i]]

\* ACSIEMUL_READ_SECTOR_BATCH is refused or fails (READ_SECTOR: count 1).
ReadFails(c) ==
  /\ Due(c) /\ c.op = "read"
  /\ \/ /\ c.rec + c.count > Count[c.drive]
        /\ status' = -8
        /\ UNCHANGED isOpen
     \/ /\ c.rec + c.count <= Count[c.drive]
        /\ status' = -11
        /\ \/ ~isOpen /\ "open" \in Faults /\ EnsureOpen(FALSE)
           \/ "read" \in Faults /\ EnsureOpen(TRUE)
  /\ Ran(c)
  /\ UNCHANGED <<running, buffer, mask, image, flush, atari, disk>>

\* The buffer with the blocks of the image that c reads.
Loaded(c) == [i \in DOMAIN buffer |-> IF i <= c.count THEN image[Block(c.drive, c.rec + i - 1)]
                                      ELSE buffer[i]]

\* The blocks are in the buffer, as they are in the image.
ReadLoads(c) ==
  /\ Due(c) /\ c.op = "read"
  /\ c.rec + c.count <= Count[c.drive]
  /\ EnsureOpen(TRUE)
  /\ running' = c
  /\ buffer' = Loaded(c)
  /\ UNCHANGED <<link, status, mask, image, flush, atari, disk>>

ReadSwaps ==
  /\ running # NoCmd
  /\ buffer' = Swap(buffer, running.count)
  /\ status' = 0
  /\ running' = NoCmd
  /\ Ran(running)
  /\ UNCHANGED <<mask, image, isOpen, flush, atari, disk>>

\* Deviation: every write opens the flush window anew.
MarkWriteDirtyAnew == dirty' = TRUE /\ dirtyAge' = 0

\* acsiMarkWriteDirty
MarkWriteDirty == dirty' = TRUE /\ dirtyAge' = IF dirty THEN dirtyAge ELSE 0

\* The chunk of c at its place in the buffer.
WithChunk(c) == [buffer EXCEPT ![c.off + 1] = [val |-> c.data, le |-> FALSE]]

\* The first n blocks of buf in the image.
Written(c, buf, n) ==
  [b \in Blocks |-> LET i == b - Block(c.drive, c.rec) + 1
                    IN IF i \in 1 .. n THEN buf[i] ELSE image[b]]

\* ACSIEMUL_WRITE_SECTOR_BATCH, a chunk that is not the last
WriteChunk(c) ==
  /\ Due(c) /\ c.op = "write" /\ c.off + 1 < c.total
  /\ buffer' = WithChunk(c)
  /\ Ran(c)
  /\ UNCHANGED <<running, status, mask, image, isOpen, flush, atari, disk>>

\* The last chunk: the batch is swapped in place and written (WRITE_SECTOR: a
\* batch of one sector).  A write that fails may have written some blocks.
WriteLast(c) ==
  LET buf == Swap(WithChunk(c), c.total)
  IN /\ Due(c) /\ c.op = "write" /\ c.off + 1 = c.total
     /\ buffer' = buf
     /\ \/ /\ ~isOpen /\ "open" \in Faults /\ EnsureOpen(FALSE)
           /\ status' = -11
           /\ UNCHANGED <<image, flush>>
        \/ /\ "write" \in Faults /\ EnsureOpen(TRUE)
           /\ status' = -10
           /\ \E n \in 0 .. c.total - 1 : image' = Written(c, buf, n)
           /\ UNCHANGED flush
        \/ /\ EnsureOpen(TRUE)
           /\ status' = 0
           /\ image' = Written(c, buf, c.total)
           /\ MarkWriteDirty
           /\ unsynced' = TRUE
     /\ Ran(c)
     /\ UNCHANGED <<running, mask, atari, disk>>

\* ACSIEMUL_SET_SHARED_VAR
SetMask(c) ==
  /\ Due(c) /\ c.op = "mask"
  /\ mask' = c.mask
  /\ Ran(c)
  /\ UNCHANGED <<running, buffer, status, image, isOpen, flush, atari, disk>>

Run(c) == ReadFails(c) \/ ReadLoads(c) \/ WriteChunk(c) \/ WriteLast(c) \/ SetMask(c)
-----------------------------------------------------------------------------
(* acsi_tick, once in every pass of the main loop *)

FlushDue == running = NoCmd /\ dirty /\ isOpen /\ dirtyAge = FlushInterval

TickSyncs ==
  /\ FlushDue
  /\ dirty' = FALSE /\ unsynced' = FALSE /\ dirtyAge' = 0
  /\ UNCHANGED <<running, buffer, status, mask, image, isOpen, link, atari, disk>>

TickFails ==
  /\ FlushDue /\ "sync" \in Faults
  /\ dirtyAge' = 0
  /\ UNCHANGED <<dirty, unsynced, running, buffer, status, mask, image, isOpen, link, atari, disk>>

Clock ==
  /\ dirty /\ dirtyAge < FlushInterval
  /\ dirtyAge' = dirtyAge + 1
  /\ UNCHANGED <<dirty, unsynced, running, buffer, status, mask, image, isOpen, link, atari, disk>>
-----------------------------------------------------------------------------
Tos    == \/ \E q \in Requests : RwabsRead(q)
          \/ \E q \in Requests, words \in WriteData : RwabsWrite(q, words)
          \/ \E d \in Drives : Mediach(d)
Driver == \/ Send \/ Answered \/ ChunkDone \/ MaskDone
          \/ BatchFailed \/ WriteSucceeds \/ StartCopy \/ CopyBlock \/ CopyDone
Rp     == (\E c \in {cur, effect} \ {NoCmd} : Run(c)) \/ ReadSwaps
Next   == Tos \/ Driver \/ Rp \/ TickSyncs \/ TickFails \/ Clock

Spec == Init /\ [][Next]_vars

\* The clock runs, the RP comes back from every handler, and a flush that is
\* due over and over works in the end.
FairSpec == Spec /\ WF_vars(Clock) /\ WF_vars(ReadSwaps) /\ SF_vars(TickSyncs)
-----------------------------------------------------------------------------
(* Properties *)

TypeOK ==
  /\ cur \in Cmds \cup {NoCmd} /\ effect \in Cmds \cup {NoCmd} /\ call \in {"none", "open", "answered"} /\ done \in BOOLEAN
  /\ pc \in {"idle", "send", "wait", "status", "copy"}
  /\ off \in 0 .. MaxBatch /\ at \in Nat
  /\ got \in Seq(Copies)
  /\ running \in ReadCmds \cup {NoCmd}
  /\ buffer \in [1 .. MaxBatch -> Copies]
  /\ status \in {0, -8, -10, -11}
  /\ mask \subseteq Drives
  /\ image \in [Blocks -> Copies]
  /\ isOpen \in BOOLEAN /\ dirty \in BOOLEAN /\ unsynced \in BOOLEAN
  /\ dirtyAge \in 0 .. FlushInterval
  /\ disk \in [Blocks -> Values \cup {Unknown}]

InFlux == IF job.op = "write" THEN JobBlocks ELSE {}

\* What TOS wrote with success is in the image, each block in its place and
\* in the image's byte order, whatever is retransmitted, however the write
\* was cut into chunks and batches, and whatever happened to other blocks.
DiskAsWritten ==
  \A b \in Blocks \ InFlux :
    disk[b] # Unknown => image[b] = [val |-> disk[b], le |-> TRUE]

\* What a read delivers to TOS is what TOS wrote there, in the byte order of
\* the Atari, also if the read takes several batches or follows a write that
\* used the same buffer.
ReadBack ==
  job.op = "read" =>
    \A i \in 1 .. Len(got) :
      LET b == Block(job.drive, job.rec + i - 1)
      IN disk[b] # Unknown => got[i] = [val |-> disk[b], le |-> FALSE]

\* Written data is flushed in the end, though flushes may fail and writes may
\* keep coming (needs FairSpec).
EventuallyFlushed == unsynced ~> ~unsynced
=============================================================================
