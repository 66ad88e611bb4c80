----------------------------- MODULE TProtocol -----------------------------
(***************************************************************************)
(* The words of the command link: the frame a driver reads out of ROM3, the *)
(* ring its words land in, and the parser of tprotocol.h that finds frames  *)
(* in the ring.  The ring keeps no count of overruns: 16384 unread words    *)
(* look like none.  The parser starts over when a word is consumed later    *)
(* than PROTOCOL_READ_RESTART_MICROSECONDS after the header.                *)
(*                                                                         *)
(* Time is in ticks.  A word in the ring remembers the frame it belongs to  *)
(* and its place in it, which the code does not: properties use that only.  *)
(***************************************************************************)
EXTENDS Integers, Sequences

CONSTANTS
  Payloads,     \* payloads drivers send, sequences of words
  Commands,     \* command codes
  Header,       \* PROTOCOL_HEADER
  WordMod,      \* words have 16 bits: 65536
  RingWords,    \* COMM_RING_WORDS
  RestartGap,   \* PROTOCOL_READ_RESTART_MICROSECONDS
  ClockMod,     \* timerawl has 32 bits
  MaxQuiet,     \* bound: ticks between two words while a frame is half read
  MaxFrames,    \* bound: frames sent
  MaxMisses     \* bound: words the bus sampler misses

Words == 0 .. WordMod - 1

ASSUME ProtocolAssumption ==
  /\ WordMod \in Nat /\ Commands \subseteq Words
  /\ \A p \in Payloads : p \in Seq(Words) /\ 2 * Len(p) \in Words
  /\ Header \in Words
  /\ RingWords \in Nat /\ RingWords > 2 /\ RestartGap \in Nat
  /\ ClockMod \in Nat /\ ClockMod > RestartGap + MaxQuiet
  /\ MaxQuiet \in Nat /\ MaxFrames \in Nat /\ MaxMisses \in Nat

Frames == [command_id : Commands, payload : Payloads]

\* The driver adds up the command, the size and the payload, 16 bits wide.
Sum16(cmd, size, words) ==
  LET sum[n \in 0 .. Len(words)] ==
        IF n = 0 THEN (cmd + size) % WordMod ELSE (sum[n - 1] + words[n]) % WordMod
  IN sum[Len(words)]

\* What send_sync_command_to_sidecart puts on the bus for f.
Wire(f) ==
  LET size == 2 * Len(f.payload)
  IN <<Header, f.command_id, size>> \o f.payload
       \o <<Sum16(f.command_id, size, f.payload)>>

\* What the parser holds of f when it has read all of it.
Received(f) ==
  [command_id |-> f.command_id, payload_size |-> 2 * Len(f.payload), payload |-> f.payload]

Nothing == [command_id |-> -1, payload_size |-> 0, payload |-> <<>>]
NoWord  == [val |-> 0, frame |-> Nothing, idx |-> 0]

VARIABLES
  frames,             \* frames started so far
  misses,             \* words missed so far
  out,                \* words of the current frame the Atari has still to send
  ring,               \* words between commReadIdx and the DMA's write index
  nextTPstep,         \* state of the parser
  transmission,       \* the frame being put together
  last_header_found,  \* time stamp of the header
  now,                \* timer_hw->timerawl
  got,                \* what the last word had handed to the callback, or Nothing
  seen,               \* history: the last word consumed
  follow,             \* history: words of one frame consumed without a break
  quiet               \* history: ticks since the last word was consumed

parser == <<nextTPstep, transmission, last_header_found, got, seen, follow>>
count  == <<frames, misses>>
vars   == <<count, out, ring, parser, now, quiet>>

Blank == [command_id |-> 0, payload_size |-> 0, payload |-> <<>>]

Init ==
  /\ frames = 0 /\ misses = 0
  /\ out = <<>> /\ ring = <<>>
  /\ nextTPstep = "HEADER_DETECTION" /\ transmission = Blank
  /\ last_header_found = 0 /\ now = 0
  /\ got = Nothing /\ seen = NoWord /\ follow = 0 /\ quiet = 0
-----------------------------------------------------------------------------
(* The Atari and the ring *)

\* A driver starts to send a frame.
StartFrame(f) ==
  /\ out = <<>>
  /\ frames < MaxFrames
  /\ frames' = frames + 1
  /\ out' = [i \in DOMAIN Wire(f) |-> [val |-> Wire(f)[i], frame |-> f, idx |-> i]]
  /\ UNCHANGED <<misses, ring, parser, now, quiet>>

\* The next word reaches the ring.  The read index cannot tell a full lap
\* from none, so the word that completes the lap hides all unread ones.  A
\* lap is 16384 bus cycles of some microseconds: more than the restart gap.
SendWord ==
  LET lap == Len(ring) = RingWords - 1
  IN /\ out # <<>>
     /\ lap => quiet > RestartGap
     /\ out' = Tail(out)
     /\ ring' = IF lap THEN <<>> ELSE Append(ring, Head(out))
     /\ follow' = IF lap THEN 0 ELSE follow
     /\ UNCHANGED <<count, nextTPstep, transmission, last_header_found, got, seen, now, quiet>>

\* The bus sampler misses a word; the rest of the frame counts as broken.
MissWord ==
  /\ out # <<>>
  /\ misses < MaxMisses
  /\ misses' = misses + 1
  /\ out' = [i \in 1 .. Len(out) - 1 |-> [out[i + 1] EXCEPT !.idx = 0]]
  /\ UNCHANGED <<frames, ring, parser, now, quiet>>

Tick ==
  /\ now' = (now + 1) % ClockMod
  /\ nextTPstep = "HEADER_DETECTION" \/ quiet < MaxQuiet
  /\ quiet' = IF quiet < MaxQuiet THEN quiet + 1 ELSE quiet
  /\ UNCHANGED <<count, out, ring, parser>>
-----------------------------------------------------------------------------
(* The parser: commemul_poll hands over one word at a time *)

Late == (now - last_header_found) % ClockMod > RestartGap

\* Deviation: the parser does not look at the time.
StepNoTimer == nextTPstep

\* The state in which the word is read.
Step == IF Late THEN "HEADER_DETECTION" ELSE nextTPstep

\* Deviation: a frame is accepted whatever its checksum.
ChecksumIgnored(w) == TRUE

\* The sum takes half the size in words: the last word of an odd size is stored,
\* and handed over, but not summed.
ChecksumOK(w) ==
  w.val = Sum16(transmission.command_id, transmission.payload_size,
                SubSeq(transmission.payload, 1, transmission.payload_size \div 2))

\* n words of payload are there
PayloadComplete(n) == 2 * n >= transmission.payload_size

\* Bookkeeping of a consumed word that completes no frame, or frame f.
Consumed(w, f) ==
  /\ ring' = Tail(ring)
  /\ got' = f
  /\ seen' = w
  /\ quiet' = 0
  /\ follow' = IF w.idx = 1 /\ Step = "HEADER_DETECTION" THEN 1
               ELSE IF w.idx > 1 /\ follow = w.idx - 1 /\ ~Late THEN w.idx
               ELSE 0
  /\ UNCHANGED <<count, out, now>>

ReadHeader(w) ==
  /\ Step = "HEADER_DETECTION"
  /\ nextTPstep' = IF w.val = Header THEN "COMMAND_READ" ELSE "HEADER_DETECTION"
  /\ last_header_found' = now
  /\ Consumed(w, Nothing)
  /\ UNCHANGED transmission

ReadCommand(w) ==
  /\ Step = "COMMAND_READ"
  /\ transmission' = [transmission EXCEPT !.command_id = w.val]
  /\ nextTPstep' = "PAYLOAD_SIZE_READ"
  /\ Consumed(w, Nothing)
  /\ UNCHANGED last_header_found

ReadSize(w) ==
  /\ Step = "PAYLOAD_SIZE_READ"
  /\ transmission' = [transmission EXCEPT !.payload_size = w.val, !.payload = <<>>]
  /\ nextTPstep' = IF w.val = 0 THEN "PAYLOAD_READ_END" ELSE "PAYLOAD_READ_INPROGRESS"
  /\ Consumed(w, Nothing)
  /\ UNCHANGED last_header_found

\* Deviation: a data word that looks like a header starts a new frame.
ReadPayloadRestarting(w) ==
  /\ Step = "PAYLOAD_READ_INPROGRESS"
  /\ transmission' = [transmission EXCEPT !.payload = Append(@, w.val)]
  /\ nextTPstep' = IF w.val = Header THEN "COMMAND_READ"
                   ELSE IF PayloadComplete(Len(transmission.payload) + 1)
                   THEN "PAYLOAD_READ_END" ELSE "PAYLOAD_READ_INPROGRESS"
  /\ Consumed(w, Nothing)
  /\ UNCHANGED last_header_found

ReadPayload(w) ==
  /\ Step = "PAYLOAD_READ_INPROGRESS"
  /\ transmission' = [transmission EXCEPT !.payload = Append(@, w.val)]
  /\ nextTPstep' = IF PayloadComplete(Len(transmission.payload) + 1)
                   THEN "PAYLOAD_READ_END" ELSE "PAYLOAD_READ_INPROGRESS"
  /\ Consumed(w, Nothing)
  /\ UNCHANGED last_header_found

\* The word after the payload is the checksum: the command callback or the
\* error callback runs.
ReadChecksum(w) ==
  /\ Step = "PAYLOAD_READ_END"
  /\ nextTPstep' = "HEADER_DETECTION"
  /\ last_header_found' = 0
  /\ Consumed(w, IF ChecksumOK(w) THEN transmission ELSE Nothing)
  /\ UNCHANGED transmission

Consume ==
  /\ ring # <<>>
  /\ LET w == Head(ring)
     IN ReadHeader(w) \/ ReadCommand(w) \/ ReadSize(w) \/ ReadPayload(w) \/ ReadChecksum(w)

Next == \/ \E f \in Frames : StartFrame(f)
        \/ SendWord
        \/ MissWord
        \/ Tick
        \/ Consume

Spec == Init /\ [][Next]_vars
-----------------------------------------------------------------------------
(* Properties *)

Steps == {"HEADER_DETECTION", "COMMAND_READ", "PAYLOAD_SIZE_READ",
          "PAYLOAD_READ_INPROGRESS", "PAYLOAD_READ_END"}

BusWords == [val : Words, frame : Frames \cup {Nothing}, idx : Nat]

\* What is put together never takes more words than its size field says.
TypeOK ==
  /\ frames \in 0 .. MaxFrames /\ misses \in 0 .. MaxMisses
  /\ out \in Seq(BusWords) /\ ring \in Seq(BusWords) /\ Len(ring) < RingWords
  /\ nextTPstep \in Steps
  /\ transmission \in [command_id : Words, payload_size : Words, payload : Seq(Words)]
  /\ 2 * Len(transmission.payload) <= transmission.payload_size + 1
  /\ now \in 0 .. ClockMod - 1 /\ last_header_found \in 0 .. ClockMod - 1
  /\ got \in [command_id : Words, payload_size : Words, payload : Seq(Words)] \cup {Nothing}
  /\ seen \in BusWords /\ follow \in Nat /\ quiet \in 0 .. MaxQuiet

\* What is handed to the command callback is the frame whose word completed it:
\* none is put together from pieces of two, whatever the pauses, the words missed
\* (which leave odd sizes, whose last word is not summed) and the laps of the ring.
\* With 16 bits of sum this is so of the frames of an instance, not of any frames.
NoPhantom == got # Nothing => got = Received(seen.frame)

\* A frame read without a break is handed over, whatever its payload holds
\* and whatever the parser was doing when it began.
FollowedIsDelivered ==
  (follow > 0 /\ follow = Len(Wire(seen.frame))) => got = Received(seen.frame)

\* The resynchronisation retries rely on: the first word of a frame consumed
\* after a silence longer than the restart gap is recognised as a header,
\* even if an earlier frame was cut off anywhere.
HeardAfterSilence ==
  [][(ring # <<>> /\ Head(ring).idx = 1 /\ quiet > RestartGap /\ ring' = Tail(ring))
       => nextTPstep' = "COMMAND_READ"]_vars
=============================================================================
