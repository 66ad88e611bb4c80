--------------------------- MODULE TProtocol_proofs ---------------------------
(* Proofs about TProtocol: a frame read without a break is handed over, and    *)
(* the first frame after a silence is heard - for any payloads, any length of  *)
(* ring, restart gap and clock, and whatever words are missed or lapped; and   *)
(* while none is missed no frame is put together from pieces of two.           *)
EXTENDS TProtocol, SequenceTheorems, NaturalsInduction, WellFoundedInduction, TLAPS

\* A word that is not of a broken frame is what its frame has there.
Genuine(w) ==
  w.idx > 0 => /\ w.frame \in Frames /\ w.idx \in 1 .. Len(w.frame.payload) + 4
               /\ w.val = Wire(w.frame)[w.idx]

AllGenuine == /\ \A i \in 1 .. Len(out) : Genuine(out[i])
              /\ \A i \in 1 .. Len(ring) : Genuine(ring[i])

\* A word that does not begin a frame comes after the one before it.
Continues(v, w) == w.idx > 1 => v.idx = w.idx - 1 /\ v.frame = w.frame

InOrder ==
  /\ \A i \in 1 .. Len(out) - 1 : Continues(out[i], out[i + 1])
  /\ \A i \in 1 .. Len(ring) - 1 : Continues(ring[i], ring[i + 1])
  /\ ring # <<>> /\ out # <<>> => Continues(ring[Len(ring)], out[1])

\* While the last word consumed counts as followed, the next one is its successor.
SeenInOrder ==
  follow > 0 => /\ seen.idx = follow /\ seen.frame \in Frames
                /\ follow <= Len(seen.frame.payload) + 4
                /\ ring # <<>> => Continues(seen, ring[1])
                /\ ring = <<>> /\ out # <<>> => Continues(seen, out[1])

\* What the parser has put together of a frame f when it has read k words of it.
HasRead(k, f) ==
  LET n == Len(f.payload)
  IN /\ k = 1 => nextTPstep = "COMMAND_READ"
     /\ k = 2 => nextTPstep = "PAYLOAD_SIZE_READ"
     /\ k \in 3 .. n + 2 => nextTPstep = "PAYLOAD_READ_INPROGRESS"
     /\ k = n + 3 => nextTPstep = "PAYLOAD_READ_END"
     /\ k \in 2 .. n + 3 => transmission.command_id = f.command_id
     /\ k \in 3 .. n + 3 => /\ transmission.payload_size = 2 * n
                            /\ transmission.payload = SubSeq(f.payload, 1, k - 3)
     /\ k = n + 4 => got = Received(f)

Reading == follow > 0 => HasRead(follow, seen.frame)

FollowInv == AllGenuine /\ InOrder /\ SeenInOrder /\ Reading

\* The header's time stamp is as old as the silence at least, and no older than
\* the gap and the silence.
Age == (now - last_header_found) % ClockMod
AgeInv == nextTPstep # "HEADER_DETECTION" => quiet <= Age /\ Age <= RestartGap + quiet

\* A payload that is not complete has room for a word.
Growing == nextTPstep = "PAYLOAD_READ_INPROGRESS" =>
             2 * Len(transmission.payload) < transmission.payload_size

IInv == TypeOK /\ Growing /\ AgeInv /\ FollowInv
-----------------------------------------------------------------------------
(* The checksum                                                             *)

LEMMA UpTo ==
  ASSUME NEW N \in Nat, NEW S, 0 \in S, \A n \in 1 .. N : n - 1 \in S => n \in S
  PROVE  0 .. N \subseteq S
<1> DEFINE R   == OpToRel(<, Nat)
           Bad == (0 .. N) \ S
<1>1. SUFFICES ASSUME Bad # {} PROVE FALSE OBVIOUS
<1>2. Bad \subseteq Nat OBVIOUS
<1>3. PICK x \in Bad : \A y \in Bad : <<y, x>> \notin R
  BY <1>1, <1>2, NatLessThanWellFounded, WFMin
<1>4. ASSUME NEW y \in Bad, y < x PROVE <<y, x>> \in R
  <2>1. <<y, x>> \in Nat \X Nat BY <1>2
  <2>2. \E q \in Nat \X Nat : q = <<y, x>> /\ q[1] < q[2] BY <1>4, <2>1
  <2> QED BY <2>1, <2>2, Zenon DEF OpToRel
<1> HIDE DEF R
<1>5. \A y \in Bad : ~(y < x) BY <1>3, <1>4, Zenon
<1>6. x \in 1 .. N BY <1>3
<1>7. x - 1 \in Bad /\ x - 1 < x BY <1>6
<1> QED BY <1>5, <1>7

\* The sum has 16 bits.
LEMMA Sum16Type ==
  ASSUME NEW cmd \in Words, NEW size \in Words, NEW p \in Seq(Words)
  PROVE  Sum16(cmd, size, p) \in Words
<1> DEFINE N       == Len(p)
           a       == (cmd + size) % WordMod
           Add(x, n) == (x + p[n]) % WordMod
           Partial(n, g) == /\ g \in [0 .. n -> Words] /\ g[0] = a
                            /\ \A i \in 1 .. n : g[i] = Add(g[i - 1], i)
           Has(n)  == \E g : Partial(n, g)
           Round(g) == [n \in 0 .. N |-> IF n = 0 THEN (cmd + size) % WordMod
                                         ELSE (g[n - 1] + p[n]) % WordMod]
           sum     == CHOOSE g : g = Round(g)
           S       == {n \in 0 .. N : Has(n)}
           T       == {n \in 0 .. N : sum[n] \in Words}
<1>1. N \in Nat /\ a \in Words /\ \A x \in Words, n \in 1 .. N : Add(x, n) \in Words
  BY ProtocolAssumption DEF Words
<1>2. \A g : /\ Round(g) = [n \in 0 .. N |-> Round(g)[n]] /\ Round(g)[0] = a
             /\ \A n \in 1 .. N : Round(g)[n] = Add(g[n - 1], n)
  BY <1>1
<1>3. \A g : (/\ g = [n \in 0 .. N |-> g[n]] /\ g[0] = a
              /\ \A n \in 1 .. N : g[n] = Add(g[n - 1], n)) => g = Round(g)
  <2> SUFFICES ASSUME NEW g, g = [n \in 0 .. N |-> g[n]], g[0] = a,
                      \A n \in 1 .. N : g[n] = Add(g[n - 1], n)
               PROVE  g = Round(g)
    OBVIOUS
  <2>1. ASSUME NEW n \in 0 .. N PROVE g[n] = Round(g)[n]
    <3>1. CASE n = 0 BY <3>1
    <3>2. CASE n # 0
      <4>1. n \in 1 .. N BY <1>1, <3>2
      <4> QED BY <3>2, <4>1
    <3> QED BY <3>1, <3>2
  <2>2. Round(g) = [n \in 0 .. N |-> Round(g)[n]] OBVIOUS
  <2> HIDE DEF Round
  <2> QED BY <2>1, <2>2
<1>4. Sum16(cmd, size, p) = sum[N] BY DEF Sum16
<1> HIDE DEF N, a, Add, Round, sum
<1>5. Has(0)
  <2>1. Partial(0, [i \in 0 .. 0 |-> a]) BY <1>1
  <2> HIDE DEF Partial
  <2> QED BY <2>1
<1>6. ASSUME NEW n \in 1 .. N, Has(n - 1) PROVE Has(n)
  <2>1. PICK g : Partial(n - 1, g) BY <1>6
  <2> DEFINE h == [i \in 0 .. n |-> IF i = n THEN Add(g[n - 1], n) ELSE g[i]]
  <2>2. n \in Nat /\ n - 1 \in 0 .. n - 1 BY <1>1
  <2>3. Add(g[n - 1], n) \in Words BY <1>1, <2>1, <2>2
  <2>4. h \in [0 .. n -> Words] BY <2>1, <2>2, <2>3
  <2>5. h[0] = a BY <2>1, <2>2
  <2>6. ASSUME NEW i \in 1 .. n PROVE h[i] = Add(h[i - 1], i)
    <3>1. h[i - 1] = g[i - 1] BY <2>2
    <3>2. CASE i = n BY <2>2, <3>1, <3>2
    <3>3. CASE i # n
      <4>1. i \in 1 .. n - 1 BY <2>2, <3>3
      <4>2. h[i] = g[i] /\ g[i] = Add(g[i - 1], i) BY <2>1, <2>2, <3>3, <4>1
      <4> QED BY <3>1, <4>2
    <3> QED BY <3>2, <3>3
  <2> HIDE DEF h
  <2>7. Partial(n, h) BY <2>4, <2>5, <2>6, Zenon
  <2> HIDE DEF Partial
  <2> QED BY <2>7
<1>7. PICK g : Partial(N, g)
  <2> HIDE DEF Has
  <2>1. 0 \in S BY <1>1, <1>5
  <2>2. \A n \in 1 .. N : n - 1 \in S => n \in S BY <1>1, <1>6
  <2> HIDE DEF S
  <2>3. 0 .. N \subseteq S BY <1>1, <2>1, <2>2, UpTo
  <2>4. Has(N) BY <1>1, <2>3 DEF S
  <2> QED BY <2>4 DEF Has
<1>8. g = Round(g) BY <1>3, <1>7
<1>9. sum = Round(sum) BY <1>8, Zenon DEF sum
<1>10. sum[0] = a /\ \A n \in 1 .. N : sum[n] = Add(sum[n - 1], n) BY <1>2, <1>9
<1>11. 0 \in T /\ \A n \in 1 .. N : n - 1 \in T => n \in T
  <2>1. 0 \in T BY <1>1, <1>10
  <2>2. ASSUME NEW n \in 1 .. N, n - 1 \in T PROVE n \in T BY <1>1, <1>10, <2>2
  <2> QED BY <2>1, <2>2
<1>12. N \in T
  <2> HIDE DEF T
  <2>1. 0 .. N \subseteq T BY <1>1, <1>11, UpTo
  <2> QED BY <1>1, <2>1
<1> QED BY <1>4, <1>12
-----------------------------------------------------------------------------
(* The clock and the frame                                                  *)

LEMMA Elapsed ==
  ASSUME NEW a \in 0 .. ClockMod - 1, NEW b \in 0 .. ClockMod - 1
  PROVE  (a - b) % ClockMod = IF a >= b THEN a - b ELSE a - b + ClockMod
BY ProtocolAssumption

LEMMA OneTick ==
  ASSUME NEW a \in 0 .. ClockMod - 1
  PROVE  (a + 1) % ClockMod = IF a = ClockMod - 1 THEN 0 ELSE a + 1
BY ProtocolAssumption

LEMMA WireFacts ==
  ASSUME NEW f \in Frames
  PROVE  /\ f.command_id \in Words /\ f.payload \in Seq(Words) /\ 2 * Len(f.payload) \in Words
         /\ Wire(f) \in Seq(Words) /\ Len(Wire(f)) = Len(f.payload) + 4
         /\ Wire(f)[1] = Header /\ Wire(f)[2] = f.command_id /\ Wire(f)[3] = 2 * Len(f.payload)
         /\ \A i \in 1 .. Len(f.payload) : Wire(f)[i + 3] = f.payload[i]
         /\ Wire(f)[Len(f.payload) + 4] = Sum16(f.command_id, 2 * Len(f.payload), f.payload)
<1>1. f.command_id \in Words /\ f.payload \in Seq(Words) /\ 2 * Len(f.payload) \in Words
  BY ProtocolAssumption DEF Frames
<1> DEFINE n   == Len(f.payload)
           sum == Sum16(f.command_id, 2 * n, f.payload)
           top == <<Header, f.command_id, 2 * n>>
<1>2. n \in Nat /\ sum \in Words
  <2>1. n \in Nat BY <1>1
  <2> DEFINE size == 2 * Len(f.payload)
  <2>2. f.command_id \in Words /\ f.payload \in Seq(Words) /\ size \in Words BY <1>1
  <2> HIDE DEF size
  <2>3. Sum16(f.command_id, size, f.payload) \in Words BY <2>2, Sum16Type
  <2> QED BY <2>1, <2>3 DEF size
<1>3. Wire(f) = (top \o f.payload) \o <<sum>> BY DEF Wire
<1> HIDE DEF sum
<1>4. /\ top \in Seq(Words) /\ Len(top) = 3
      /\ top[1] = Header /\ top[2] = f.command_id /\ top[3] = 2 * n
  BY <1>1, ProtocolAssumption
<1> HIDE DEF top
<1>5. /\ top \o f.payload \in Seq(Words) /\ Len(top \o f.payload) = n + 3
      /\ \A i \in 1 .. 3 : (top \o f.payload)[i] = top[i]
      /\ \A i \in 1 .. n : (top \o f.payload)[i + 3] = f.payload[i]
  <2>1. /\ top \o f.payload \in Seq(Words) /\ Len(top \o f.payload) = 3 + n
        /\ \A i \in 1 .. 3 + n : (top \o f.payload)[i] = IF i <= 3 THEN top[i] ELSE f.payload[i - 3]
    <3> DEFINE p == f.payload
    <3>1. p \in Seq(Words) BY <1>1
    <3> HIDE DEF p
    <3>2. /\ top \o p \in Seq(Words) /\ Len(top \o p) = Len(top) + Len(p)
          /\ \A i \in 1 .. Len(top) + Len(p) :
               (top \o p)[i] = IF i <= Len(top) THEN top[i] ELSE p[i - Len(top)]
      BY <1>4, <3>1, ConcatProperties, Zenon
    <3> QED BY <1>4, <3>2, Zenon DEF p
  <2> DEFINE body == top \o f.payload
  <2> HIDE DEF body
  <2>2. \A i \in 1 .. 3 : body[i] = top[i] BY <1>2, <2>1 DEF body
  <2>3. ASSUME NEW i \in 1 .. n PROVE body[i + 3] = f.payload[i]
    <3>1. i + 3 \in 1 .. 3 + n /\ ~(i + 3 <= 3) /\ (i + 3) - 3 = i BY <1>2
    <3> QED BY <2>1, <3>1 DEF body
  <2> QED BY <1>2, <2>1, <2>2, <2>3 DEF body
<1> DEFINE body == top \o f.payload
<1> HIDE DEF body
<1>6. /\ Wire(f) \in Seq(Words) /\ Len(Wire(f)) = n + 4
      /\ \A i \in 1 .. n + 3 : Wire(f)[i] = body[i]
      /\ Wire(f)[n + 4] = sum
  BY <1>2, <1>3, <1>5 DEF body
<1>7. ASSUME NEW i \in 1 .. n PROVE Wire(f)[i + 3] = f.payload[i]
  <2>1. i + 3 \in 1 .. n + 3 BY <1>2
  <2>2. body[i + 3] = f.payload[i] BY <1>5 DEF body
  <2> QED BY <1>6, <2>1, <2>2
<1> QED BY <1>1, <1>2, <1>4, <1>5, <1>6, <1>7 DEF body, sum
-----------------------------------------------------------------------------
(* The Atari, the sampler and time                                          *)

LEMMA HeadAndTail ==
  ASSUME NEW S, NEW s \in Seq(S), s # <<>>
  PROVE  /\ Len(s) \in Nat \ {0} /\ Head(s) = s[1] /\ s[1] \in S
         /\ Tail(s) \in Seq(S) /\ Len(Tail(s)) = Len(s) - 1
         /\ \A i \in 1 .. Len(s) - 1 : Tail(s)[i] = s[i + 1]
BY HeadTailProperties

LEMMA Appended ==
  ASSUME NEW S, NEW s \in Seq(S), NEW x \in S
  PROVE  /\ Append(s, x) \in Seq(S) /\ Len(Append(s, x)) = Len(s) + 1
         /\ \A i \in 1 .. Len(s) : Append(s, x)[i] = s[i]
         /\ Append(s, x)[Len(s) + 1] = x
BY AppendProperties

LEMMA StartFrameKeeps == ASSUME IInv, NEW f \in Frames, StartFrame(f) PROVE IInv'
<1> USE DEF IInv
<1>1. /\ out = <<>> /\ frames < MaxFrames /\ frames' = frames + 1
      /\ out' = [i \in DOMAIN Wire(f) |-> [val |-> Wire(f)[i], frame |-> f, idx |-> i]]
      /\ UNCHANGED <<misses, ring, now, quiet>> /\ UNCHANGED parser
  BY DEF StartFrame
<1>2. UNCHANGED <<nextTPstep, transmission, last_header_found, got, seen, follow>> BY <1>1 DEF parser
<1> DEFINE n == Len(f.payload) + 4
           word(i) == [val |-> Wire(f)[i], frame |-> f, idx |-> i]
<1>3. n \in Nat /\ n >= 4 /\ DOMAIN Wire(f) = 1 .. n /\ Wire(f) \in [1 .. n -> Words] BY WireFacts
<1>4. out' \in [1 .. n -> BusWords] /\ \A i \in 1 .. n : out'[i] = word(i)
  BY <1>1, <1>3 DEF BusWords
<1>5. out' \in Seq(BusWords) /\ Len(out') = n BY <1>3, <1>4
<1>6. TypeOK' BY <1>1, <1>2, <1>5, ProtocolAssumption DEF TypeOK
<1>7. Growing' /\ AgeInv' BY <1>1, <1>2 DEF Growing, AgeInv, Age
<1>8. \A i \in 1 .. n : out'[i].idx = i /\ out'[i].frame = f /\ out'[i].val = Wire(f)[i]
  <2>1. \A i : word(i).idx = i /\ word(i).frame = f /\ word(i).val = Wire(f)[i] OBVIOUS
  <2> HIDE DEF word, n
  <2> QED BY <1>4, <2>1
<1>9. AllGenuine' BY <1>1, <1>3, <1>5, <1>8 DEF AllGenuine, Genuine, FollowInv
<1>10. InOrder' BY <1>1, <1>3, <1>5, <1>8 DEF InOrder, Continues, FollowInv
<1>11. SeenInOrder' BY <1>1, <1>2, <1>3, <1>5, <1>8 DEF SeenInOrder, Continues, FollowInv
<1>12. Reading' BY <1>2 DEF Reading, HasRead, FollowInv
<1> QED BY <1>6, <1>7, <1>9, <1>10, <1>11, <1>12 DEF FollowInv

LEMMA SendWordKeeps == ASSUME IInv, SendWord PROVE IInv'
<1> USE DEF IInv
<1>1. /\ out # <<>> /\ out' = Tail(out)
      /\ UNCHANGED <<frames, misses, nextTPstep, transmission, last_header_found, got, seen, now, quiet>>
  BY DEF SendWord, count
<1>2. out \in Seq(BusWords) /\ ring \in Seq(BusWords) /\ follow \in Nat BY DEF TypeOK
<1>3. /\ Len(out) \in Nat \ {0} /\ Head(out) = out[1] /\ out[1] \in BusWords
      /\ out' \in Seq(BusWords) /\ Len(out') = Len(out) - 1
      /\ \A i \in 1 .. Len(out) - 1 : out'[i] = out[i + 1]
  BY <1>1, <1>2, HeadAndTail
<1>4. Growing' /\ AgeInv' BY <1>1 DEF Growing, AgeInv, Age
<1>5. /\ \A i \in 1 .. Len(out') : Genuine(out'[i])
      /\ \A i \in 1 .. Len(out') - 1 : Continues(out'[i], out'[i + 1])
  <2>1. ASSUME NEW i \in 1 .. Len(out') PROVE Genuine(out'[i])
    BY <1>3 DEF FollowInv, AllGenuine
  <2>2. ASSUME NEW i \in 1 .. Len(out') - 1 PROVE Continues(out'[i], out'[i + 1])
    <3>1. i + 1 \in 1 .. Len(out) - 1 /\ i \in 1 .. Len(out) - 1 BY <1>3
    <3>2. out'[i] = out[i + 1] /\ out'[i + 1] = out[(i + 1) + 1] BY <1>3, <3>1
    <3> QED BY <3>1, <3>2 DEF FollowInv, InOrder
  <2> QED BY <2>1, <2>2
<1>6. CASE Len(ring) = RingWords - 1
  <2>1. ring' = <<>> /\ follow' = 0 BY <1>6 DEF SendWord
  <2>2. TypeOK' BY <1>1, <1>3, <2>1, ProtocolAssumption DEF TypeOK
  <2>3. AllGenuine' /\ InOrder' BY <1>5, <2>1 DEF AllGenuine, InOrder, Genuine, Continues
  <2> QED BY <1>4, <2>1, <2>2, <2>3 DEF FollowInv, SeenInOrder, Reading
<1>7. CASE Len(ring) # RingWords - 1
  <2>1. ring' = Append(ring, out[1]) /\ follow' = follow BY <1>3, <1>7 DEF SendWord
  <2>2. /\ ring' \in Seq(BusWords) /\ Len(ring') = Len(ring) + 1
        /\ \A i \in 1 .. Len(ring) : ring'[i] = ring[i]
        /\ ring'[Len(ring) + 1] = out[1]
    BY <1>2, <1>3, <2>1, Appended
  <2>3. Len(ring) \in Nat /\ Len(ring) < RingWords BY <1>2 DEF TypeOK
  <2>4. TypeOK' BY <1>1, <1>3, <1>7, <2>1, <2>2, <2>3, ProtocolAssumption DEF TypeOK
  <2>5. \A i \in 1 .. Len(ring') : Genuine(ring'[i])
    BY <1>3, <2>2, <2>3 DEF FollowInv, AllGenuine
  <2>6. AllGenuine' BY <1>5, <2>5 DEF AllGenuine, Genuine
  <2>7. ASSUME NEW i \in 1 .. Len(ring') - 1 PROVE Continues(ring'[i], ring'[i + 1])
    <3>1. i \in 1 .. Len(ring) /\ ring'[i] = ring[i] BY <2>2, <2>3
    <3>2. CASE i = Len(ring)
      <4>1. ring # <<>> /\ ring'[i + 1] = out[1] BY <2>2, <2>3, <3>2
      <4> QED BY <1>1, <3>1, <3>2, <4>1 DEF FollowInv, InOrder
    <3>3. CASE i # Len(ring)
      <4>1. i + 1 \in 1 .. Len(ring) /\ i \in 1 .. Len(ring) - 1 BY <2>3, <3>1, <3>3
      <4> QED BY <2>2, <3>1, <4>1 DEF FollowInv, InOrder
    <3> QED BY <3>2, <3>3
  <2>8. ring' # <<>> /\ out' # <<>> => Continues(ring'[Len(ring')], out'[1])
    <3>1. SUFFICES ASSUME out' # <<>> PROVE Continues(ring'[Len(ring')], out'[1]) OBVIOUS
    <3>2. 1 \in 1 .. Len(out) - 1 /\ out'[1] = out[1 + 1] BY <1>3, <3>1
    <3>3. ring'[Len(ring')] = out[1] BY <2>2
    <3> QED BY <3>2, <3>3 DEF FollowInv, InOrder
  <2>9. InOrder' BY <1>5, <2>7, <2>8 DEF InOrder, Continues
  <2>10. SeenInOrder'
    <3>1. follow > 0 => Continues(seen, ring'[1])
      <4>1. CASE ring = <<>> BY <1>1, <2>2, <4>1 DEF FollowInv, SeenInOrder
      <4>2. CASE ring # <<>>
        <5>1. 1 \in 1 .. Len(ring) BY <2>3, <4>2, <1>2
        <5> QED BY <2>2, <4>2, <5>1 DEF FollowInv, SeenInOrder
      <4> QED BY <4>1, <4>2
    <3>2. ring' # <<>> BY <2>2, <2>3
    <3> QED BY <1>1, <2>1, <3>1, <3>2 DEF FollowInv, SeenInOrder, Continues
  <2>11. Reading' BY <1>1, <2>1 DEF Reading, HasRead, FollowInv
  <2> QED BY <1>4, <2>4, <2>6, <2>9, <2>10, <2>11 DEF FollowInv
<1> QED BY <1>6, <1>7

LEMMA MissWordKeeps == ASSUME IInv, MissWord PROVE IInv'
<1> USE DEF IInv
<1>1. /\ out # <<>> /\ misses < MaxMisses /\ misses' = misses + 1
      /\ out' = [i \in 1 .. Len(out) - 1 |-> [out[i + 1] EXCEPT !.idx = 0]]
      /\ UNCHANGED <<frames, ring, now, quiet>> /\ UNCHANGED parser
  BY DEF MissWord
<1>2. UNCHANGED <<nextTPstep, transmission, last_header_found, got, seen, follow>> BY <1>1 DEF parser
<1>3. out \in Seq(BusWords) /\ Len(out) \in Nat \ {0} BY <1>1, HeadAndTail DEF TypeOK
<1>4. ASSUME NEW i \in 1 .. Len(out) - 1 PROVE out'[i] \in BusWords /\ out'[i].idx = 0
  <2>1. i + 1 \in 1 .. Len(out) /\ out[i + 1] \in BusWords BY <1>3
  <2>2. out'[i] = [out[i + 1] EXCEPT !.idx = 0] BY <1>1
  <2> QED BY <2>1, <2>2 DEF BusWords
<1>5. out' \in Seq(BusWords) /\ Len(out') = Len(out) - 1 BY <1>1, <1>3, <1>4
<1>6. TypeOK'
  <2>1. misses < MaxMisses /\ misses' = misses + 1 /\ UNCHANGED <<frames, ring, now, quiet>>
    BY <1>1
  <2> QED BY <1>2, <1>5, <2>1, ProtocolAssumption DEF TypeOK
<1>7. Growing' /\ AgeInv' BY <1>1, <1>2 DEF Growing, AgeInv, Age
<1>8. \A i \in 1 .. Len(out') : out'[i].idx = 0 BY <1>4, <1>5
<1>9. AllGenuine' BY <1>1, <1>8 DEF AllGenuine, Genuine, FollowInv
<1>10. out' # <<>> => out'[1].idx = 0 BY <1>3, <1>5, <1>8
<1>11. InOrder'
  <2>1. ASSUME NEW i \in 1 .. Len(out') - 1 PROVE Continues(out'[i], out'[i + 1])
    <3>1. i + 1 \in 1 .. Len(out') BY <1>3, <1>5
    <3> QED BY <1>8, <3>1 DEF Continues
  <2> QED BY <1>1, <1>10, <2>1 DEF InOrder, Continues, FollowInv
<1>12. SeenInOrder' BY <1>1, <1>2, <1>10 DEF SeenInOrder, Continues, FollowInv
<1>13. Reading' BY <1>2 DEF Reading, HasRead, FollowInv
<1> QED BY <1>6, <1>7, <1>9, <1>11, <1>12, <1>13 DEF FollowInv

LEMMA TickKeeps == ASSUME IInv, Tick PROVE IInv'
<1> USE DEF IInv
<1>1. /\ now' = (now + 1) % ClockMod
      /\ nextTPstep = "HEADER_DETECTION" \/ quiet < MaxQuiet
      /\ quiet' = IF quiet < MaxQuiet THEN quiet + 1 ELSE quiet
      /\ UNCHANGED <<frames, misses, out, ring>> /\ UNCHANGED parser
  BY DEF Tick, count
<1>2. UNCHANGED <<nextTPstep, transmission, last_header_found, got, seen, follow>> BY <1>1 DEF parser
<1>3. now \in 0 .. ClockMod - 1 /\ last_header_found \in 0 .. ClockMod - 1 /\ quiet \in 0 .. MaxQuiet
  BY DEF TypeOK
<1>4. now' = (IF now = ClockMod - 1 THEN 0 ELSE now + 1) /\ now' \in 0 .. ClockMod - 1
  BY <1>1, <1>3, OneTick, ProtocolAssumption
<1>5. TypeOK' BY <1>1, <1>2, <1>3, <1>4, ProtocolAssumption DEF TypeOK
<1>6. FollowInv'
  BY <1>1, <1>2 DEF FollowInv, AllGenuine, Genuine, InOrder, SeenInOrder, Continues, Reading, HasRead
<1>7. AgeInv'
  <2>1. SUFFICES ASSUME nextTPstep # "HEADER_DETECTION" PROVE quiet' <= Age' /\ Age' <= RestartGap + quiet'
    BY <1>2 DEF AgeInv
  <2>2. quiet < MaxQuiet /\ quiet' = quiet + 1 BY <1>1, <2>1
  <2>3. quiet <= Age /\ Age <= RestartGap + quiet BY <2>1 DEF AgeInv
  <2>4. Age = IF now >= last_header_found THEN now - last_header_found
              ELSE now - last_header_found + ClockMod
    BY <1>3, Elapsed DEF Age
  <2>5. Age' = IF now' >= last_header_found THEN now' - last_header_found
               ELSE now' - last_header_found + ClockMod
    BY <1>2, <1>3, <1>4, Elapsed DEF Age
  <2>6. Age' = Age + 1
    BY <1>3, <1>4, <2>2, <2>3, <2>4, <2>5, ProtocolAssumption
  <2>7. Age \in Nat BY <1>3, <2>4, ProtocolAssumption
  <2> QED BY <1>3, <2>2, <2>3, <2>6, <2>7, ProtocolAssumption
<1>8. Growing' BY <1>2 DEF Growing
<1> QED BY <1>5, <1>6, <1>7, <1>8
-----------------------------------------------------------------------------
(* The parser *)

\* What is there to know of the word that is read.
LEMMA WordRead ==
  ASSUME IInv, ring # <<>>, NEW g, Consumed(Head(ring), g)
  PROVE  /\ ring' \in Seq(BusWords) /\ Len(ring') < RingWords
         /\ seen' \in BusWords /\ follow' \in Nat /\ quiet' = 0
         /\ AllGenuine' /\ InOrder' /\ SeenInOrder'
         /\ seen' = ring[1] /\ Genuine(ring[1]) /\ ring[1] \in BusWords /\ got' = g
         /\ UNCHANGED <<frames, misses, out, now>>
<1> USE DEF IInv
<1>1. ring \in Seq(BusWords) /\ out \in Seq(BusWords) /\ Len(ring) < RingWords /\ follow \in Nat
  BY DEF TypeOK
<1>2. /\ Len(ring) \in Nat \ {0} /\ Head(ring) = ring[1] /\ ring[1] \in BusWords
      /\ Tail(ring) \in Seq(BusWords) /\ Len(Tail(ring)) = Len(ring) - 1
      /\ \A i \in 1 .. Len(ring) - 1 : Tail(ring)[i] = ring[i + 1]
  BY <1>1, HeadAndTail
<1> DEFINE w == ring[1]
<1>3. /\ ring' = Tail(ring) /\ got' = g /\ seen' = w /\ quiet' = 0
      /\ follow' = IF w.idx = 1 /\ Step = "HEADER_DETECTION" THEN 1
                   ELSE IF w.idx > 1 /\ follow = w.idx - 1 /\ ~Late THEN w.idx ELSE 0
      /\ UNCHANGED <<frames, misses, out, now>>
  BY <1>2 DEF Consumed, count
<1>4. w.idx \in Nat /\ w.frame \in Frames \cup {Nothing} BY <1>2 DEF BusWords
<1>5. Genuine(w) BY <1>2 DEF FollowInv, AllGenuine
<1>6. follow' \in Nat /\ (follow' > 0 => w.idx = follow' /\ w.idx > 0) BY <1>3, <1>4
<1>7. AllGenuine'
  <2>1. ASSUME NEW i \in 1 .. Len(ring') PROVE Genuine(ring'[i])
    <3>1. i + 1 \in 1 .. Len(ring) /\ ring'[i] = ring[i + 1] BY <1>2, <1>3
    <3> QED BY <3>1 DEF FollowInv, AllGenuine
  <2> QED BY <1>3, <2>1 DEF FollowInv, AllGenuine, Genuine
<1>8. InOrder'
  <2>1. ASSUME NEW i \in 1 .. Len(ring') - 1 PROVE Continues(ring'[i], ring'[i + 1])
    <3>1. i + 1 \in 1 .. Len(ring) - 1 /\ i \in 1 .. Len(ring) - 1 BY <1>2, <1>3
    <3>2. ring'[i] = ring[i + 1] /\ ring'[i + 1] = ring[(i + 1) + 1] BY <1>2, <1>3, <3>1
    <3> QED BY <3>1, <3>2 DEF FollowInv, InOrder
  <2>2. ring' # <<>> => ring'[Len(ring')] = ring[Len(ring)]
    <3>1. SUFFICES ASSUME ring' # <<>> PROVE ring'[Len(ring')] = ring[Len(ring)] OBVIOUS
    <3>2. Len(ring) - 1 \in 1 .. Len(ring) - 1 BY <1>2, <1>3, <3>1
    <3> QED BY <1>2, <1>3, <3>2
  <2> QED BY <1>3, <2>1, <2>2 DEF FollowInv, InOrder, Continues
<1>9. SeenInOrder'
  <2>1. ring' # <<>> => Continues(w, ring'[1])
    <3>1. SUFFICES ASSUME ring' # <<>> PROVE Continues(w, ring'[1]) OBVIOUS
    <3>2. 1 \in 1 .. Len(ring) - 1 BY <1>2, <1>3, <3>1
    <3>3. ring'[1] = ring[1 + 1] BY <1>2, <1>3, <3>2
    <3> QED BY <3>2, <3>3 DEF FollowInv, InOrder
  <2>2. ring' = <<>> /\ out # <<>> => Continues(w, out[1])
    <3>1. SUFFICES ASSUME ring' = <<>>, out # <<>> PROVE Continues(w, out[1]) OBVIOUS
    <3>2. Tail(ring) = <<>> BY <1>3, <3>1
    <3>3. Len(Tail(ring)) = 0
      <4>1. Len(<<>>) = 0 OBVIOUS
      <4> QED BY <3>2, <4>1, Zenon
    <3>4. Len(ring) = 1 BY <1>2, <3>3
    <3> QED BY <3>1, <3>4 DEF FollowInv, InOrder
  <2>3. w.idx > 0 => w.frame \in Frames /\ w.idx <= Len(w.frame.payload) + 4
    <3>1. SUFFICES ASSUME w.idx > 0 PROVE w.frame \in Frames /\ w.idx <= Len(w.frame.payload) + 4
      OBVIOUS
    <3>2. w.frame \in Frames /\ w.idx \in 1 .. Len(w.frame.payload) + 4 BY <1>5, <3>1 DEF Genuine
    <3>3. Len(w.frame.payload) \in Nat BY <3>2, WireFacts
    <3> QED BY <3>2, <3>3
  <2> QED BY <1>3, <1>6, <2>1, <2>2, <2>3 DEF SeenInOrder, Continues
<1>10. ring' \in Seq(BusWords) /\ Len(ring') < RingWords BY <1>1, <1>2, <1>3, ProtocolAssumption
<1> QED BY <1>2, <1>3, <1>5, <1>6, <1>7, <1>8, <1>9, <1>10

\* A word that follows what was read of its frame is the frame's next, and the
\* parser is where that frame has brought it.
LEMMA NextOfFrame ==
  ASSUME IInv, ring # <<>>, NEW g, Consumed(Head(ring), g), follow' > 0,
         NEW w, w = ring[1], NEW k, k = w.idx, NEW n, n = Len(w.frame.payload)
  PROVE  /\ follow' = k /\ seen' = w /\ w.frame \in Frames /\ n \in Nat /\ k \in 1 .. n + 4
         /\ w.val = Wire(w.frame)[k]
         /\ \/ k = 1 /\ Step = "HEADER_DETECTION"
            \/ k > 1 /\ Step = nextTPstep /\ HasRead(k - 1, w.frame)
<1> USE DEF IInv
<1>1. Genuine(w) /\ w \in BusWords /\ seen' = w BY WordRead
<1>2. k \in Nat BY <1>1 DEF BusWords
<1>3. follow' = IF k = 1 /\ Step = "HEADER_DETECTION" THEN 1
                ELSE IF k > 1 /\ follow = k - 1 /\ ~Late THEN k ELSE 0
  <2>1. Head(ring) = ring[1] BY HeadAndTail DEF TypeOK
  <2> QED BY <2>1 DEF Consumed
<1>4. follow' = k /\ k > 0 BY <1>2, <1>3
<1>5. w.frame \in Frames /\ k \in 1 .. n + 4 /\ w.val = Wire(w.frame)[k] BY <1>1, <1>4 DEF Genuine
<1>6. n \in Nat BY <1>5, WireFacts
<1>7. CASE k = 1 /\ Step = "HEADER_DETECTION" BY <1>1, <1>4, <1>5, <1>6, <1>7
<1>8. CASE k > 1 /\ follow = k - 1 /\ ~Late
  <2>1. follow > 0 BY <1>2, <1>8
  <2>2. seen.frame = w.frame BY <1>8, <2>1 DEF FollowInv, SeenInOrder, Continues
  <2>3. HasRead(k - 1, w.frame) BY <1>8, <2>1, <2>2 DEF FollowInv, Reading
  <2> QED BY <1>1, <1>4, <1>5, <1>6, <1>8, <2>3 DEF Step
<1> QED BY <1>2, <1>3, <1>4, <1>7, <1>8

\* The time stamp of a header stays good while the parser goes on.
LEMMA StampKept ==
  ASSUME IInv, Step # "HEADER_DETECTION", UNCHANGED <<now, last_header_found>>, quiet' = 0
  PROVE  AgeInv' /\ last_header_found' \in 0 .. ClockMod - 1
<1>1. ~Late BY DEF Step
<1>2. now \in 0 .. ClockMod - 1 /\ last_header_found \in 0 .. ClockMod - 1 BY DEF IInv, TypeOK
<1>3. Age \in Nat BY <1>2, Elapsed, ProtocolAssumption DEF Age
<1>4. Age' = Age BY DEF Age
<1>5. Age <= RestartGap BY <1>1, <1>3, ProtocolAssumption DEF Late, Age
<1> QED BY <1>2, <1>3, <1>4, <1>5, ProtocolAssumption DEF AgeInv

\* What every branch of the parser has to show.
ParserKept == /\ nextTPstep' \in Steps /\ AgeInv' /\ Growing' /\ Reading'
              /\ last_header_found' \in 0 .. ClockMod - 1
              /\ transmission' \in [command_id : Words, payload_size : Words, payload : Seq(Words)]
              /\ 2 * Len(transmission'.payload) <= transmission'.payload_size + 1
              /\ got' \in [command_id : Words, payload_size : Words, payload : Seq(Words)] \cup {Nothing}

LEMMA ReadHeaderKeeps == ASSUME IInv, ring # <<>>, ReadHeader(Head(ring)) PROVE ParserKept
<1> USE DEF IInv
<1>1. /\ Step = "HEADER_DETECTION" /\ last_header_found' = now /\ transmission' = transmission
      /\ Consumed(Head(ring), Nothing)
  BY DEF ReadHeader
<1>2. quiet' = 0 /\ got' = Nothing /\ now' = now BY <1>1, WordRead
<1>3. nextTPstep' = IF ring[1].val = Header THEN "COMMAND_READ" ELSE "HEADER_DETECTION"
  BY HeadAndTail DEF ReadHeader, TypeOK
<1>4. now \in 0 .. ClockMod - 1 BY DEF TypeOK
<1>5. AgeInv'
  <2>1. Age' = 0 BY <1>1, <1>2, <1>4, Elapsed DEF Age
  <2> QED BY <1>2, <2>1, ProtocolAssumption DEF AgeInv
<1>6. Reading'
  <2>1. SUFFICES ASSUME follow' > 0 PROVE HasRead(follow, seen.frame)' BY DEF Reading
  <2> DEFINE w == ring[1]
             k == w.idx
             n == Len(w.frame.payload)
  <2>2. /\ follow' = k /\ seen' = w /\ w.frame \in Frames /\ n \in Nat /\ k \in 1 .. n + 4
        /\ w.val = Wire(w.frame)[k]
        /\ \/ k = 1 /\ Step = "HEADER_DETECTION"
           \/ k > 1 /\ Step = nextTPstep /\ HasRead(k - 1, w.frame)
    BY <1>1, <2>1, NextOfFrame
  <2> HIDE DEF w, k, n
  <2>3. k = 1
    <3>1. SUFFICES ASSUME k > 1, nextTPstep = "HEADER_DETECTION", HasRead(k - 1, w.frame) PROVE FALSE
      BY <1>1, <2>2
    <3>2. k - 1 = 1 \/ k - 1 = 2 \/ k - 1 \in 3 .. n + 2 \/ k - 1 = n + 3 BY <2>2, <3>1
    <3> QED BY <3>1, <3>2 DEF HasRead, n
  <2>4. nextTPstep' = "COMMAND_READ"
    <3>1. w.val = Header BY <2>2, <2>3, WireFacts
    <3> QED BY <1>3, <3>1 DEF w
  <2> QED BY <2>2, <2>3, <2>4 DEF HasRead, n
<1>7. Growing' BY <1>3 DEF Growing
<1> QED BY <1>1, <1>2, <1>3, <1>4, <1>5, <1>6, <1>7 DEF ParserKept, TypeOK, Steps

LEMMA ReadCommandKeeps == ASSUME IInv, ring # <<>>, ReadCommand(Head(ring)) PROVE ParserKept
<1> USE DEF IInv
<1>1. /\ Step = "COMMAND_READ" /\ last_header_found' = last_header_found
      /\ nextTPstep' = "PAYLOAD_SIZE_READ" /\ Consumed(Head(ring), Nothing)
  BY DEF ReadCommand
<1>2. quiet' = 0 /\ got' = Nothing /\ now' = now /\ ring[1] \in BusWords BY <1>1, WordRead
<1>3. transmission' = [transmission EXCEPT !.command_id = ring[1].val]
  BY HeadAndTail DEF ReadCommand, TypeOK
<1>4. AgeInv' /\ last_header_found' \in 0 .. ClockMod - 1 BY <1>1, <1>2, StampKept
<1>5. transmission \in [command_id : Words, payload_size : Words, payload : Seq(Words)] BY DEF TypeOK
<1>6. /\ transmission' \in [command_id : Words, payload_size : Words, payload : Seq(Words)]
      /\ transmission'.command_id = ring[1].val /\ transmission'.payload_size = transmission.payload_size
      /\ transmission'.payload = transmission.payload
  BY <1>2, <1>3, <1>5 DEF BusWords
<1>7. Reading'
  <2>1. SUFFICES ASSUME follow' > 0 PROVE HasRead(follow, seen.frame)' BY DEF Reading
  <2> DEFINE w == ring[1]
             k == w.idx
             n == Len(w.frame.payload)
  <2>2. /\ follow' = k /\ seen' = w /\ w.frame \in Frames /\ n \in Nat /\ k \in 1 .. n + 4
        /\ w.val = Wire(w.frame)[k]
        /\ \/ k = 1 /\ Step = "HEADER_DETECTION"
           \/ k > 1 /\ Step = nextTPstep /\ HasRead(k - 1, w.frame)
    BY <1>1, <2>1, NextOfFrame
  <2> HIDE DEF w, k, n
  <2>3. k = 2
    <3>1. k > 1 /\ nextTPstep = "COMMAND_READ" /\ HasRead(k - 1, w.frame) BY <1>1, <2>2
    <3>2. k - 1 = 1 \/ k - 1 = 2 \/ k - 1 \in 3 .. n + 2 \/ k - 1 = n + 3 BY <2>2, <3>1
    <3>3. k - 1 = 1 BY <3>1, <3>2 DEF HasRead, n
    <3> QED BY <2>2, <3>3
  <2>4. transmission'.command_id = w.frame.command_id
    BY <1>6, <2>2, <2>3, WireFacts DEF w
  <2> QED BY <1>1, <2>2, <2>3, <2>4 DEF HasRead, n
<1>8. Growing' BY <1>1 DEF Growing
<1> QED BY <1>1, <1>2, <1>4, <1>6, <1>7, <1>8 DEF ParserKept, TypeOK, Steps

LEMMA ReadSizeKeeps == ASSUME IInv, ring # <<>>, ReadSize(Head(ring)) PROVE ParserKept
<1> USE DEF IInv
<1>1. /\ Step = "PAYLOAD_SIZE_READ" /\ last_header_found' = last_header_found
      /\ Consumed(Head(ring), Nothing)
  BY DEF ReadSize
<1>2. quiet' = 0 /\ got' = Nothing /\ now' = now /\ ring[1] \in BusWords BY <1>1, WordRead
<1>3. /\ transmission' = [transmission EXCEPT !.payload_size = ring[1].val, !.payload = <<>>]
      /\ nextTPstep' = IF ring[1].val = 0 THEN "PAYLOAD_READ_END" ELSE "PAYLOAD_READ_INPROGRESS"
  BY HeadAndTail DEF ReadSize, TypeOK
<1>4. AgeInv' /\ last_header_found' \in 0 .. ClockMod - 1 BY <1>1, <1>2, StampKept
<1>5. transmission \in [command_id : Words, payload_size : Words, payload : Seq(Words)] BY DEF TypeOK
<1>6. /\ transmission' \in [command_id : Words, payload_size : Words, payload : Seq(Words)]
      /\ transmission'.command_id = transmission.command_id
      /\ transmission'.payload_size = ring[1].val /\ transmission'.payload = <<>>
  <2>1. <<>> \in Seq(Words) /\ ring[1].val \in Words BY <1>2 DEF BusWords
  <2>2. transmission' = [command_id |-> transmission.command_id, payload_size |-> ring[1].val,
                         payload |-> <<>>]
    BY <1>3, <1>5
  <2> QED BY <1>5, <2>1, <2>2
<1>7. Len(transmission'.payload) = 0 /\ ring[1].val \in Nat
  BY <1>2, <1>6 DEF BusWords, Words
<1>8. Reading'
  <2>1. SUFFICES ASSUME follow' > 0 PROVE HasRead(follow, seen.frame)' BY DEF Reading
  <2> DEFINE w == ring[1]
             k == w.idx
             n == Len(w.frame.payload)
  <2>2. /\ follow' = k /\ seen' = w /\ w.frame \in Frames /\ n \in Nat /\ k \in 1 .. n + 4
        /\ w.val = Wire(w.frame)[k]
        /\ \/ k = 1 /\ Step = "HEADER_DETECTION"
           \/ k > 1 /\ Step = nextTPstep /\ HasRead(k - 1, w.frame)
    BY <1>1, <2>1, NextOfFrame
  <2> HIDE DEF w, k, n
  <2>3. k = 3 /\ transmission.command_id = w.frame.command_id
    <3>1. k > 1 /\ nextTPstep = "PAYLOAD_SIZE_READ" /\ HasRead(k - 1, w.frame) BY <1>1, <2>2
    <3>2. k - 1 = 1 \/ k - 1 = 2 \/ k - 1 \in 3 .. n + 2 \/ k - 1 = n + 3 BY <2>2, <3>1
    <3>3. k - 1 = 2 BY <3>1, <3>2 DEF HasRead, n
    <3> QED BY <2>2, <3>1, <3>3 DEF HasRead, n
  <2>4. transmission'.payload_size = 2 * n BY <1>6, <2>2, <2>3, WireFacts DEF w, n
  <2>5. nextTPstep' = IF n = 0 THEN "PAYLOAD_READ_END" ELSE "PAYLOAD_READ_INPROGRESS"
    BY <1>3, <1>6, <2>2, <2>4
  <2>6. SubSeq(w.frame.payload, 1, 0) = <<>>
    BY <2>2, WireFacts, SubSeqEmpty
  <2> QED BY <1>6, <2>2, <2>3, <2>4, <2>5, <2>6 DEF HasRead, n
<1>9. Growing' BY <1>3, <1>6, <1>7 DEF Growing
<1> QED BY <1>2, <1>3, <1>4, <1>6, <1>7, <1>8, <1>9 DEF ParserKept, Steps

LEMMA OneMore ==
  ASSUME NEW S, NEW p \in Seq(S), NEW i \in 1 .. Len(p)
  PROVE  /\ SubSeq(p, 1, i) = Append(SubSeq(p, 1, i - 1), p[i])
         /\ Len(SubSeq(p, 1, i)) = i /\ Len(SubSeq(p, 1, i - 1)) = i - 1
<1>1. \A j \in 1 .. i : p[j] \in S OBVIOUS
<1>2. /\ SubSeq(p, 1, i) \in Seq(S) /\ Len(SubSeq(p, 1, i)) = i
      /\ \A j \in 1 .. i : SubSeq(p, 1, i)[j] = p[j]
  OBVIOUS
<1>3. /\ SubSeq(p, 1, i - 1) \in Seq(S) /\ Len(SubSeq(p, 1, i - 1)) = i - 1
      /\ \A j \in 1 .. i - 1 : SubSeq(p, 1, i - 1)[j] = p[j]
  OBVIOUS
<1> DEFINE a == SubSeq(p, 1, i)
           b == SubSeq(p, 1, i - 1)
<1> HIDE DEF a, b
<1>4. /\ Append(b, p[i]) \in Seq(S) /\ Len(Append(b, p[i])) = i
      /\ \A j \in 1 .. i : Append(b, p[i])[j] = p[j]
  <2>1. b \in Seq(S) /\ Len(b) = i - 1 /\ p[i] \in S BY <1>3 DEF b
  <2>2. /\ Append(b, p[i]) \in Seq(S) /\ Len(Append(b, p[i])) = (i - 1) + 1
        /\ \A j \in 1 .. i - 1 : Append(b, p[i])[j] = b[j]
        /\ Append(b, p[i])[(i - 1) + 1] = p[i]
    BY <2>1, Appended
  <2> QED BY <1>3, <2>2 DEF b
<1>5. a = Append(b, p[i])
  <2> DEFINE c == Append(b, p[i])
  <2> HIDE DEF c
  <2>1. /\ a \in Seq(S) /\ c \in Seq(S) /\ Len(a) = Len(c)
        /\ \A j \in 1 .. Len(a) : a[j] = c[j]
    BY <1>2, <1>4 DEF a, c
  <2>2. a = c BY <2>1, SeqEqual
  <2> QED BY <2>2 DEF c
<1> QED BY <1>2, <1>3, <1>5 DEF a, b

LEMMA ReadPayloadKeeps == ASSUME IInv, ring # <<>>, ReadPayload(Head(ring)) PROVE ParserKept
<1> USE DEF IInv
<1>1. /\ Step = "PAYLOAD_READ_INPROGRESS" /\ last_header_found' = last_header_found
      /\ Consumed(Head(ring), Nothing)
  BY DEF ReadPayload
<1>2. quiet' = 0 /\ got' = Nothing /\ now' = now /\ ring[1] \in BusWords BY <1>1, WordRead
<1> DEFINE l == Len(transmission.payload)
<1>3. /\ transmission' = [transmission EXCEPT !.payload = Append(@, ring[1].val)]
      /\ nextTPstep' = IF 2 * (l + 1) >= transmission.payload_size
                       THEN "PAYLOAD_READ_END" ELSE "PAYLOAD_READ_INPROGRESS"
  BY HeadAndTail DEF ReadPayload, PayloadComplete, TypeOK
<1>4. AgeInv' /\ last_header_found' \in 0 .. ClockMod - 1 BY <1>1, <1>2, StampKept
<1>5. /\ transmission \in [command_id : Words, payload_size : Words, payload : Seq(Words)]
      /\ l \in Nat /\ transmission.payload_size \in Nat
  BY DEF TypeOK, Words
<1>6. /\ transmission' \in [command_id : Words, payload_size : Words, payload : Seq(Words)]
      /\ transmission'.command_id = transmission.command_id
      /\ transmission'.payload_size = transmission.payload_size
      /\ transmission'.payload = Append(transmission.payload, ring[1].val)
      /\ Len(transmission'.payload) = l + 1
  <2>1. ring[1].val \in Words BY <1>2 DEF BusWords
  <2>2. transmission.payload \in Seq(Words) BY <1>5
  <2>3. /\ Append(transmission.payload, ring[1].val) \in Seq(Words)
        /\ Len(Append(transmission.payload, ring[1].val)) = l + 1
    BY <2>1, <2>2, Appended
  <2> DEFINE more == Append(transmission.payload, ring[1].val)
  <2>4. transmission' = [command_id |-> transmission.command_id,
                         payload_size |-> transmission.payload_size, payload |-> more]
    BY <1>3, <1>5
  <2> HIDE DEF more
  <2>5. more \in Seq(Words) /\ Len(more) = l + 1 BY <2>3 DEF more
  <2>6. transmission'.payload = more BY <2>4
  <2> QED BY <1>5, <2>4, <2>5, <2>6 DEF more
<1>7. 2 * l < transmission.payload_size
  BY <1>1 DEF Step, Growing
<1>8. Reading'
  <2>1. SUFFICES ASSUME follow' > 0 PROVE HasRead(follow, seen.frame)' BY DEF Reading
  <2> DEFINE w == ring[1]
             k == w.idx
             n == Len(w.frame.payload)
             p == w.frame.payload
  <2>2. /\ follow' = k /\ seen' = w /\ w.frame \in Frames /\ n \in Nat /\ k \in 1 .. n + 4
        /\ w.val = Wire(w.frame)[k]
        /\ \/ k = 1 /\ Step = "HEADER_DETECTION"
           \/ k > 1 /\ Step = nextTPstep /\ HasRead(k - 1, w.frame)
    BY <1>1, <2>1, NextOfFrame
  <2> HIDE DEF w, k, n, l
  <2>3. /\ k - 1 \in 3 .. n + 2 /\ transmission.command_id = w.frame.command_id
        /\ transmission.payload_size = 2 * n /\ transmission.payload = SubSeq(p, 1, k - 4)
    <3>1. k > 1 /\ nextTPstep = "PAYLOAD_READ_INPROGRESS" /\ HasRead(k - 1, w.frame) BY <1>1, <2>2
    <3>2. k - 1 = 1 \/ k - 1 = 2 \/ k - 1 \in 3 .. n + 2 \/ k - 1 = n + 3 BY <2>2, <3>1
    <3>3. k - 1 \in 3 .. n + 2 BY <3>1, <3>2 DEF HasRead, n
    <3>4. k - 1 \in 2 .. n + 3 /\ k - 1 \in 3 .. n + 3 /\ (k - 1) - 3 = k - 4 BY <2>2, <3>3
    <3> QED BY <3>1, <3>3, <3>4 DEF HasRead, n
  <2>4. k - 3 \in 1 .. n /\ (k - 3) - 1 = k - 4 BY <2>2, <2>3
  <2>5. w.val = p[k - 3]
    <3>1. (k - 3) + 3 = k BY <2>2
    <3>2. \A i \in 1 .. n : Wire(w.frame)[i + 3] = p[i] BY <2>2, WireFacts DEF n
    <3> QED BY <2>2, <2>4, <3>1, <3>2
  <2>6. /\ SubSeq(p, 1, k - 3) = Append(SubSeq(p, 1, k - 4), p[k - 3])
        /\ Len(SubSeq(p, 1, k - 4)) = k - 4
    BY <2>2, <2>4, WireFacts, OneMore DEF n
  <2>7. transmission'.payload = SubSeq(p, 1, k - 3) /\ l = k - 4
    BY <1>6, <2>3, <2>5, <2>6 DEF w, l
  <2>8. nextTPstep' = IF k = n + 3 THEN "PAYLOAD_READ_END" ELSE "PAYLOAD_READ_INPROGRESS"
    <3>1. 2 * (l + 1) >= transmission.payload_size <=> k = n + 3 BY <2>2, <2>3, <2>7
    <3> QED BY <1>3, <3>1
  <2> HIDE DEF p
  <2>9. /\ k # 1 /\ k # 2 /\ k # n + 4 /\ (k \in 3 .. n + 2 <=> k # n + 3)
        /\ transmission'.command_id = w.frame.command_id /\ transmission'.payload_size = 2 * n
    BY <1>6, <2>2, <2>3
  <2> QED BY <2>2, <2>7, <2>8, <2>9 DEF HasRead, n, p
<1>9. Growing' BY <1>3, <1>5, <1>6 DEF Growing
<1>10. 2 * Len(transmission'.payload) <= transmission'.payload_size + 1 BY <1>5, <1>6, <1>7
<1> QED BY <1>2, <1>3, <1>4, <1>6, <1>8, <1>9, <1>10 DEF ParserKept, Steps

LEMMA ReadChecksumKeeps == ASSUME IInv, ring # <<>>, ReadChecksum(Head(ring)) PROVE ParserKept
<1> USE DEF IInv
<1> DEFINE g == IF ChecksumOK(Head(ring)) THEN transmission ELSE Nothing
<1>1. /\ Step = "PAYLOAD_READ_END" /\ last_header_found' = 0 /\ transmission' = transmission
      /\ nextTPstep' = "HEADER_DETECTION" /\ Consumed(Head(ring), g)
  BY DEF ReadChecksum
<1>2. got' = g /\ Head(ring) = ring[1]
  <2> HIDE DEF g
  <2> QED BY <1>1, WordRead, HeadAndTail DEF TypeOK
<1>3. transmission \in [command_id : Words, payload_size : Words, payload : Seq(Words)] BY DEF TypeOK
<1>4. got' \in [command_id : Words, payload_size : Words, payload : Seq(Words)] \cup {Nothing}
  BY <1>2, <1>3
<1>5. AgeInv' /\ Growing' /\ last_header_found' \in 0 .. ClockMod - 1
  BY <1>1, ProtocolAssumption DEF AgeInv, Growing
<1>6. Reading'
  <2>1. SUFFICES ASSUME follow' > 0 PROVE HasRead(follow, seen.frame)' BY DEF Reading
  <2> DEFINE w == ring[1]
             k == w.idx
             n == Len(w.frame.payload)
  <2> HIDE DEF g
  <2>2. /\ follow' = k /\ seen' = w /\ w.frame \in Frames /\ n \in Nat /\ k \in 1 .. n + 4
        /\ w.val = Wire(w.frame)[k]
        /\ \/ k = 1 /\ Step = "HEADER_DETECTION"
           \/ k > 1 /\ Step = nextTPstep /\ HasRead(k - 1, w.frame)
    BY <1>1, <2>1, NextOfFrame
  <2> HIDE DEF w, k, n
  <2>3. /\ k = n + 4 /\ transmission.command_id = w.frame.command_id
        /\ transmission.payload_size = 2 * n /\ transmission.payload = SubSeq(w.frame.payload, 1, n)
    <3>1. k > 1 /\ nextTPstep = "PAYLOAD_READ_END" /\ HasRead(k - 1, w.frame) BY <1>1, <2>2
    <3>2. k - 1 = 1 \/ k - 1 = 2 \/ k - 1 \in 3 .. n + 2 \/ k - 1 = n + 3 BY <2>2, <3>1
    <3>3. k - 1 = n + 3 BY <3>1, <3>2 DEF HasRead, n
    <3>4. k = n + 4 /\ k - 1 \in 2 .. n + 3 /\ k - 1 \in 3 .. n + 3 /\ (k - 1) - 3 = n
      BY <2>2, <3>3
    <3> QED BY <3>1, <3>4 DEF HasRead, n
  <2>4. transmission.payload = w.frame.payload BY <2>2, <2>3, WireFacts, SubSeqFull DEF n
  <2>5. ChecksumOK(w)
    <3>1. transmission.payload_size \div 2 = n BY <2>2, <2>3
    <3>2. SubSeq(transmission.payload, 1, transmission.payload_size \div 2) = w.frame.payload
      BY <2>2, <2>3, <2>4, <3>1, WireFacts, SubSeqFull DEF n
    <3> QED BY <2>2, <2>3, <3>2, WireFacts DEF ChecksumOK, n
  <2>6. g = Received(w.frame)
    <3>1. transmission = [command_id |-> transmission.command_id,
                          payload_size |-> transmission.payload_size,
                          payload |-> transmission.payload]
      BY <1>3
    <3>2. transmission = Received(w.frame) BY <2>3, <2>4, <3>1 DEF Received, n
    <3> QED BY <1>2, <2>5, <3>2 DEF g, w
  <2>7. k # 1 /\ k # 2 /\ k # n + 3 /\ k \notin 3 .. n + 2 /\ k \notin 2 .. n + 3 /\ k \notin 3 .. n + 3
    BY <2>2, <2>3
  <2> QED BY <1>2, <2>2, <2>6, <2>7 DEF HasRead, n
<1> QED BY <1>1, <1>3, <1>4, <1>5, <1>6 DEF ParserKept, TypeOK, Steps

LEMMA ConsumeKeeps == ASSUME IInv, Consume PROVE IInv'
<1>1. ring # <<>> BY DEF Consume
<1>2. PICK g : Consumed(Head(ring), g)
  BY DEF Consume, ReadHeader, ReadCommand, ReadSize, ReadPayload, ReadChecksum
<1>3. ParserKept
  BY <1>1, ReadHeaderKeeps, ReadCommandKeeps, ReadSizeKeeps, ReadPayloadKeeps, ReadChecksumKeeps
  DEF Consume
<1>4. /\ ring' \in Seq(BusWords) /\ Len(ring') < RingWords
      /\ seen' \in BusWords /\ follow' \in Nat /\ quiet' = 0
      /\ AllGenuine' /\ InOrder' /\ SeenInOrder'
      /\ UNCHANGED <<frames, misses, out, now>>
  BY <1>1, <1>2, WordRead
<1>5. TypeOK' BY <1>3, <1>4, ProtocolAssumption DEF IInv, TypeOK, ParserKept
<1> QED BY <1>3, <1>4, <1>5 DEF IInv, FollowInv, ParserKept

LEMMA InitInv == Init => IInv
<1> SUFFICES ASSUME Init PROVE IInv OBVIOUS
<1>1. 0 \in Words /\ <<>> \in Seq(Words) BY ProtocolAssumption DEF Words
<1>2. Blank \in [command_id : Words, payload_size : Words, payload : Seq(Words)]
  BY <1>1 DEF Blank
<1>3. NoWord \in BusWords BY <1>1 DEF NoWord, BusWords
<1>4. Len(transmission.payload) = 0 /\ transmission.payload_size = 0 BY DEF Init, Blank
<1>5. TypeOK BY <1>1, <1>2, <1>3, <1>4, ProtocolAssumption DEF Init, TypeOK, Steps
<1>6. FollowInv BY DEF Init, FollowInv, AllGenuine, InOrder, SeenInOrder, Reading
<1> QED BY <1>5, <1>6 DEF IInv, Init, Growing, AgeInv

LEMMA StutterKeeps == ASSUME IInv, UNCHANGED vars PROVE IInv'
BY DEF vars, parser, count, IInv, TypeOK, Growing, AgeInv, Age, FollowInv, AllGenuine, Genuine, InOrder,
   SeenInOrder, Continues, Reading, HasRead

LEMMA Inductive == Spec => []IInv
<1>1. Init => IInv BY InitInv
<1>2. IInv /\ [Next]_vars => IInv'
  BY StartFrameKeeps, SendWordKeeps, MissWordKeeps, TickKeeps, ConsumeKeeps, StutterKeeps DEF Next
<1> QED BY <1>1, <1>2, PTL DEF Spec

\* Whatever words are missed or lapped, the parser stays in its types: what it puts
\* together never takes more words than the size field it read, and the ring never
\* holds a full lap.
THEOREM TypeCorrect == Spec => []TypeOK
<1>1. IInv => TypeOK BY DEF IInv
<1> QED BY <1>1, Inductive, PTL

\* A frame whose words are consumed one after the other, none later than the restart
\* gap after its header, is handed to the command callback as it was sent, for any
\* payload - words that look like a header included - and any state before it.
THEOREM FollowedDelivered == Spec => []FollowedIsDelivered
<1>1. ASSUME IInv PROVE FollowedIsDelivered
  <2>1. SUFFICES ASSUME follow > 0, follow = Len(Wire(seen.frame)) PROVE got = Received(seen.frame)
    BY DEF FollowedIsDelivered
  <2>2. seen.frame \in Frames /\ HasRead(follow, seen.frame)
    BY <1>1, <2>1 DEF IInv, FollowInv, SeenInOrder, Reading
  <2> QED BY <2>1, <2>2, WireFacts DEF HasRead
<1> QED BY <1>1, Inductive, PTL

\* Only the parser takes one word from the ring.
LEMMA OneWordTaken ==
  ASSUME IInv, [Next]_vars, ring # <<>>, ring' = Tail(ring) PROVE Consume \/ UNCHANGED vars
<1> DEFINE t == Tail(ring)
           m == Append(ring, Head(out))
<1>1. ring \in Seq(BusWords) BY DEF IInv, TypeOK
<1>2. Len(ring) \in Nat \ {0} /\ Len(t) = Len(ring) - 1 BY <1>1, HeadAndTail
<1>3. SendWord => Len(m) = Len(ring) + 1
  <2>1. SUFFICES ASSUME SendWord PROVE Len(m) = Len(ring) + 1 OBVIOUS
  <2>2. Head(out) \in BusWords BY <2>1, HeadAndTail DEF IInv, TypeOK, SendWord
  <2> QED BY <1>1, <2>2, Appended
<1>4. ring' = t /\ (SendWord => t = IF Len(ring) = RingWords - 1 THEN <<>> ELSE m) BY DEF SendWord
<1>5. Len(<<>>) = 0 OBVIOUS
<1> HIDE DEF t, m
<1>6. ring' # ring BY <1>2, <1>4
<1>7. t # <<>> \/ Len(ring) = 1
  <2>1. SUFFICES ASSUME t = <<>> PROVE Len(ring) = 1 OBVIOUS
  <2>2. Len(t) = 0 BY <1>5, <2>1, Zenon
  <2> QED BY <1>2, <2>2
<1>8. ~SendWord BY <1>2, <1>3, <1>4, <1>7, ProtocolAssumption
<1> QED BY <1>6, <1>8 DEF Next, StartFrame, MissWord, Tick

\* The first word of a frame that is consumed after a silence longer than the restart
\* gap is taken as its header, wherever an earlier frame broke off: the time stamp of
\* that frame's header is then too old.
THEOREM HeardWhenSilent == Spec => HeardAfterSilence
<1> DEFINE Heard == ring # <<>> /\ Head(ring).idx = 1 /\ quiet > RestartGap /\ ring' = Tail(ring)
                      => nextTPstep' = "COMMAND_READ"
<1>1. ASSUME IInv, [Next]_vars PROVE [Heard]_vars
  <2>1. SUFFICES ASSUME Consume, ring # <<>>, Head(ring).idx = 1, quiet > RestartGap
                 PROVE nextTPstep' = "COMMAND_READ"
    BY <1>1, OneWordTaken
  <2>2. Step = "HEADER_DETECTION"
    <3>1. SUFFICES ASSUME nextTPstep # "HEADER_DETECTION" PROVE Late BY DEF Step
    <3>2. quiet <= Age BY <1>1, <3>1 DEF IInv, AgeInv
    <3>3. now \in 0 .. ClockMod - 1 /\ last_header_found \in 0 .. ClockMod - 1 /\ quiet \in 0 .. MaxQuiet
      BY <1>1 DEF IInv, TypeOK
    <3>4. Age \in Nat BY <3>3, Elapsed, ProtocolAssumption DEF Age
    <3> QED BY <2>1, <3>2, <3>3, <3>4, ProtocolAssumption DEF Late, Age
  <2>3. Head(ring) = ring[1] /\ 1 \in 1 .. Len(ring)
    BY <1>1, <2>1, HeadAndTail DEF IInv, TypeOK
  <2>4. Genuine(ring[1]) BY <1>1, <2>3 DEF IInv, FollowInv, AllGenuine
  <2>5. Head(ring).val = Header BY <2>1, <2>3, <2>4, WireFacts DEF Genuine
  <2> QED BY <2>1, <2>2, <2>5 DEF Consume, ReadHeader, ReadCommand, ReadSize, ReadPayload, ReadChecksum
<1>2. Spec => [][Heard]_vars BY <1>1, Inductive, PTL DEF Spec
<1> QED BY <1>2 DEF HeardAfterSilence
-----------------------------------------------------------------------------
(* While no word is missed                                                  *)

\* Nothing but the first word of a frame looks like a header.
HeaderUnique == \A f \in Frames : \A i \in 2 .. Len(Wire(f)) : Wire(f)[i] # Header

Ends(w) == w.idx = Len(w.frame.payload) + 4

\* A frame begins where the one before it has ended.
Succeeds(v, w) == w.idx = 1 => Ends(v)

Unbroken == /\ \A i \in 1 .. Len(out) : out[i].idx > 0
            /\ \A i \in 1 .. Len(ring) : ring[i].idx > 0

Joined ==
  /\ \A i \in 1 .. Len(out) - 1 : Succeeds(out[i], out[i + 1])
  /\ \A i \in 1 .. Len(ring) - 1 : Succeeds(ring[i], ring[i + 1])
  /\ ring # <<>> /\ out # <<>> => Succeeds(ring[Len(ring)], out[1])
  /\ follow > 0 /\ ring # <<>> => Succeeds(seen, ring[1])
  /\ follow > 0 /\ ring = <<>> /\ out # <<>> => Succeeds(seen, out[1])

\* The last word on its way is the last one of its frame.
Ended ==
  /\ out # <<>> => Ends(out[Len(out)])
  /\ out = <<>> /\ ring # <<>> => Ends(ring[Len(ring)])
  /\ out = <<>> /\ ring = <<>> /\ follow > 0 => Ends(seen)

\* The parser is inside the frame whose words it has followed, or about to start over.
Aligned ==
  nextTPstep # "HEADER_DETECTION" =>
    quiet > RestartGap \/ (follow > 0 /\ follow < Len(seen.frame.payload) + 4)

Stream   == Unbroken /\ Joined /\ Ended
Unmissed == misses = 0 => Stream /\ Aligned /\ NoPhantom

LEMMA StartFrameWhole ==
  ASSUME IInv, Stream, Aligned, NoPhantom, NEW f \in Frames, StartFrame(f)
  PROVE  Stream' /\ Aligned' /\ NoPhantom'
<1> USE DEF Stream
<1>1. /\ out = <<>> /\ UNCHANGED <<ring, quiet>> /\ UNCHANGED parser
      /\ out' = [i \in DOMAIN Wire(f) |-> [val |-> Wire(f)[i], frame |-> f, idx |-> i]]
  BY DEF StartFrame
<1>2. UNCHANGED <<nextTPstep, transmission, last_header_found, got, seen, follow>> BY <1>1 DEF parser
<1> DEFINE n == Len(f.payload) + 4
           word(i) == [val |-> Wire(f)[i], frame |-> f, idx |-> i]
<1>3. n \in Nat /\ n >= 4 /\ DOMAIN Wire(f) = 1 .. n /\ Wire(f) \in [1 .. n -> Words] BY WireFacts
<1>4. out' \in [1 .. n -> BusWords] /\ \A i \in 1 .. n : out'[i] = word(i)
  BY <1>1, <1>3 DEF BusWords
<1>5. out' \in Seq(BusWords) /\ Len(out') = n /\ out' # <<>> BY <1>3, <1>4
<1>6. \A i \in 1 .. n : out'[i].idx = i /\ out'[i].frame = f
  <2>1. \A i : word(i).idx = i /\ word(i).frame = f OBVIOUS
  <2> HIDE DEF word, n
  <2> QED BY <1>4, <2>1
<1>7. Unbroken' BY <1>1, <1>5, <1>6 DEF Unbroken
<1>8. \A i \in 1 .. n - 1 : Succeeds(out'[i], out'[i + 1])
  <2>1. ASSUME NEW i \in 1 .. n - 1 PROVE out'[i + 1].idx # 1
    <3>1. i + 1 \in 1 .. n BY <1>3
    <3> QED BY <1>6, <3>1
  <2> QED BY <2>1 DEF Succeeds
<1>9. Joined' BY <1>1, <1>2, <1>5, <1>8 DEF Joined, Ended, Succeeds, Ends
<1>10. Ended'
  <2>1. Ends(out'[Len(out')]) BY <1>3, <1>5, <1>6 DEF Ends
  <2> QED BY <1>5, <2>1 DEF Ended, Ends
<1>11. Aligned' /\ NoPhantom' BY <1>1, <1>2 DEF Aligned, NoPhantom
<1> QED BY <1>7, <1>9, <1>10, <1>11

LEMMA SendWordWhole ==
  ASSUME IInv, Stream, Aligned, NoPhantom, SendWord PROVE Stream' /\ Aligned' /\ NoPhantom'
<1> USE DEF Stream
<1>1. /\ out # <<>> /\ out' = Tail(out)
      /\ UNCHANGED <<frames, misses, nextTPstep, transmission, last_header_found, got, seen, now, quiet>>
  BY DEF SendWord, count
<1>2. out \in Seq(BusWords) /\ ring \in Seq(BusWords) /\ follow \in Nat /\ Len(ring) \in Nat
  BY DEF IInv, TypeOK
<1>3. /\ Len(out) \in Nat \ {0} /\ Head(out) = out[1] /\ out[1] \in BusWords
      /\ out' \in Seq(BusWords) /\ Len(out') = Len(out) - 1
      /\ \A i \in 1 .. Len(out) - 1 : out'[i] = out[i + 1]
  BY <1>1, <1>2, HeadAndTail
<1>4. NoPhantom' BY <1>1 DEF NoPhantom
<1>5. /\ \A i \in 1 .. Len(out') : out'[i].idx > 0
      /\ \A i \in 1 .. Len(out') - 1 : Succeeds(out'[i], out'[i + 1])
      /\ out' # <<>> => Ends(out'[Len(out')]) /\ Succeeds(out[1], out'[1])
      /\ out' = <<>> => Ends(out[1])
  <2>1. ASSUME NEW i \in 1 .. Len(out') PROVE out'[i].idx > 0 BY <1>3 DEF Unbroken
  <2>2. ASSUME NEW i \in 1 .. Len(out') - 1 PROVE Succeeds(out'[i], out'[i + 1])
    <3>1. i + 1 \in 1 .. Len(out) - 1 /\ i \in 1 .. Len(out) - 1 BY <1>3
    <3>2. out'[i] = out[i + 1] /\ out'[i + 1] = out[(i + 1) + 1] BY <1>3, <3>1
    <3> QED BY <3>1, <3>2 DEF Joined
  <2>3. ASSUME out' # <<>> PROVE Ends(out'[Len(out')]) /\ Succeeds(out[1], out'[1])
    <3>1. Len(out') \in 1 .. Len(out) - 1 /\ 1 \in 1 .. Len(out) - 1 /\ Len(out') + 1 = Len(out)
      BY <1>3, <2>3
    <3>2. out'[Len(out')] = out[Len(out)] /\ out'[1] = out[1 + 1] BY <1>3, <3>1
    <3> QED BY <1>1, <3>1, <3>2 DEF Joined, Ended
  <2>4. ASSUME out' = <<>> PROVE Ends(out[1])
    <3>1. Len(<<>>) = 0 OBVIOUS
    <3>2. Len(out') = 0 BY <2>4, <3>1, Zenon
    <3>3. Len(out) = 1 BY <1>3, <3>2
    <3> QED BY <1>1, <3>3 DEF Ended
  <2> QED BY <2>1, <2>2, <2>3, <2>4
<1>6. CASE Len(ring) = RingWords - 1
  <2>1. ring' = <<>> /\ follow' = 0 /\ quiet > RestartGap BY <1>6 DEF SendWord
  <2>2. Len(ring') = 0 /\ ~(0 > 0) BY <2>1
  <2>3. Unbroken' BY <1>5, <2>2 DEF Unbroken
  <2>4. Joined' BY <1>5, <2>1, <2>2 DEF Joined, Succeeds, Ends
  <2>5. Ended' BY <1>5, <2>1, <2>2 DEF Ended, Ends
  <2>6. Aligned' BY <1>1, <2>1 DEF Aligned
  <2> QED BY <1>4, <2>3, <2>4, <2>5, <2>6
<1>7. CASE Len(ring) # RingWords - 1
  <2>1. ring' = Append(ring, out[1]) /\ follow' = follow BY <1>3, <1>7 DEF SendWord
  <2>2. /\ ring' \in Seq(BusWords) /\ Len(ring') = Len(ring) + 1
        /\ \A i \in 1 .. Len(ring) : ring'[i] = ring[i]
        /\ ring'[Len(ring) + 1] = out[1]
    BY <1>2, <1>3, <2>1, Appended
  <2>3. ring' # <<>> /\ ring'[Len(ring')] = out[1] BY <1>2, <2>2
  <2>4. ASSUME NEW i \in 1 .. Len(ring') PROVE ring'[i].idx > 0
    <3>1. CASE i = Len(ring) + 1 BY <1>3, <2>2, <3>1 DEF Unbroken
    <3>2. CASE i # Len(ring) + 1
      <4>1. i \in 1 .. Len(ring) BY <1>2, <2>2, <3>2
      <4> QED BY <2>2, <4>1 DEF Unbroken
    <3> QED BY <3>1, <3>2
  <2>5. ASSUME NEW i \in 1 .. Len(ring') - 1 PROVE Succeeds(ring'[i], ring'[i + 1])
    <3>1. i \in 1 .. Len(ring) /\ ring'[i] = ring[i] BY <1>2, <2>2
    <3>2. CASE i = Len(ring)
      <4>1. ring # <<>> /\ ring'[i + 1] = out[1] BY <1>2, <2>2, <3>2
      <4> QED BY <1>1, <3>1, <3>2, <4>1 DEF Joined
    <3>3. CASE i # Len(ring)
      <4>1. i + 1 \in 1 .. Len(ring) /\ i \in 1 .. Len(ring) - 1 BY <1>2, <3>1, <3>3
      <4> QED BY <2>2, <3>1, <4>1 DEF Joined
    <3> QED BY <3>2, <3>3
  <2>6. follow > 0 => Succeeds(seen, ring'[1])
    <3>1. CASE ring = <<>>
      <4>1. ring'[1] = out[1] BY <2>2, <3>1
      <4> QED BY <1>1, <3>1, <4>1 DEF Joined
    <3>2. CASE ring # <<>>
      <4>1. 1 \in 1 .. Len(ring) BY <1>2, <3>2
      <4> QED BY <2>2, <3>2, <4>1 DEF Joined
    <3> QED BY <3>1, <3>2
  <2>7. Unbroken' BY <1>5, <2>4 DEF Unbroken
  <2>8. Joined' BY <1>1, <1>5, <2>1, <2>3, <2>5, <2>6 DEF Joined, Succeeds, Ends
  <2>9. Ended' BY <1>5, <2>3 DEF Ended, Ends
  <2>10. Aligned' BY <1>1, <2>1 DEF Aligned
  <2> QED BY <1>4, <2>7, <2>8, <2>9, <2>10
<1> QED BY <1>6, <1>7

\* What the stream still is when a word has been taken from it.
LEMMA WordTaken ==
  ASSUME IInv, Stream, ring # <<>>, NEW g, Consumed(Head(ring), g) PROVE Stream'
<1> USE DEF Stream
<1>1. ring \in Seq(BusWords) /\ out \in Seq(BusWords) BY DEF IInv, TypeOK
<1>2. /\ Len(ring) \in Nat \ {0} /\ ring' = Tail(ring) /\ Len(ring') = Len(ring) - 1
      /\ \A i \in 1 .. Len(ring) - 1 : ring'[i] = ring[i + 1]
      /\ seen' = ring[1] /\ out' = out
  BY <1>1, HeadAndTail, WordRead DEF Consumed
<1>3. ASSUME NEW i \in 1 .. Len(ring') PROVE ring'[i].idx > 0
  <2>1. i + 1 \in 1 .. Len(ring) /\ ring'[i] = ring[i + 1] BY <1>2
  <2> QED BY <2>1 DEF Unbroken
<1>4. ASSUME NEW i \in 1 .. Len(ring') - 1 PROVE Succeeds(ring'[i], ring'[i + 1])
  <2>1. i + 1 \in 1 .. Len(ring) - 1 /\ i \in 1 .. Len(ring) - 1 BY <1>2
  <2>2. ring'[i] = ring[i + 1] /\ ring'[i + 1] = ring[(i + 1) + 1] BY <1>2, <2>1
  <2> QED BY <2>1, <2>2 DEF Joined
<1>5. ring' # <<>> => ring'[Len(ring')] = ring[Len(ring)] /\ Succeeds(ring[1], ring'[1])
  <2>1. SUFFICES ASSUME ring' # <<>>
                 PROVE ring'[Len(ring')] = ring[Len(ring)] /\ Succeeds(ring[1], ring'[1])
    OBVIOUS
  <2>2. Len(ring) - 1 \in 1 .. Len(ring) - 1 /\ 1 \in 1 .. Len(ring) - 1 BY <1>1, <1>2, <2>1
  <2>3. ring'[1] = ring[1 + 1] /\ ring'[Len(ring')] = ring[Len(ring)] BY <1>2, <2>2
  <2> QED BY <2>2, <2>3 DEF Joined
<1>6. ring' = <<>> => ring[Len(ring)] = ring[1]
  <2>1. SUFFICES ASSUME ring' = <<>> PROVE ring[Len(ring)] = ring[1] OBVIOUS
  <2>2. Len(<<>>) = 0 OBVIOUS
  <2> DEFINE t == Tail(ring)
             l == Len(ring)
  <2>3. l \in Nat /\ t = <<>> /\ Len(t) = l - 1 BY <1>1, <1>2, <2>1, HeadAndTail
  <2> HIDE DEF t, l
  <2>4. Len(t) = 0 BY <2>2, <2>3, Zenon
  <2>5. l = 1 BY <2>3, <2>4
  <2> QED BY <2>5 DEF l
<1>7. Unbroken' BY <1>2, <1>3 DEF Unbroken
<1>8. Joined' BY <1>2, <1>4, <1>5, <1>6 DEF Joined, Succeeds, Ends
<1>9. Ended' BY <1>2, <1>5, <1>6 DEF Ended, Ends
<1> QED BY <1>7, <1>8, <1>9

\* A word that is not read as a header goes on with the frame that is being followed.
LEMMA OnlyFollowed ==
  ASSUME IInv, Stream, Aligned, ring # <<>>, NEW g, Consumed(Head(ring), g),
         Step # "HEADER_DETECTION"
  PROVE  /\ follow' > 1 /\ ring[1].frame \in Frames
         /\ follow' \in Nat /\ follow' <= Len(ring[1].frame.payload) + 4
<1> USE DEF Stream
<1> DEFINE w == ring[1]
<1>1. ~Late /\ nextTPstep # "HEADER_DETECTION" BY DEF Step
<1>2. now \in 0 .. ClockMod - 1 /\ last_header_found \in 0 .. ClockMod - 1 /\ quiet \in 0 .. MaxQuiet
  BY DEF IInv, TypeOK
<1>3. Age \in Nat BY <1>2, Elapsed, ProtocolAssumption DEF Age
<1>4. Age <= RestartGap BY <1>1, <1>3, ProtocolAssumption DEF Late, Age
<1>5. quiet <= RestartGap BY <1>1, <1>2, <1>3, <1>4, ProtocolAssumption DEF IInv, AgeInv
<1>6. follow > 0 /\ follow < Len(seen.frame.payload) + 4
  BY <1>1, <1>2, <1>5, ProtocolAssumption DEF Aligned
<1>7. seen.idx = follow /\ seen.frame \in Frames /\ Continues(seen, w) /\ follow \in Nat
  BY <1>6 DEF IInv, FollowInv, SeenInOrder, TypeOK
<1>8. Len(seen.frame.payload) \in Nat BY <1>7, WireFacts
<1>9. w.idx # 1 BY <1>6, <1>7, <1>8 DEF Joined, Succeeds, Ends
<1>10. Head(ring) = w /\ w \in BusWords /\ 1 \in 1 .. Len(ring)
  BY HeadAndTail DEF IInv, TypeOK
<1>11. w.idx > 1 BY <1>9, <1>10 DEF Unbroken, BusWords
<1>12. follow = w.idx - 1 /\ seen.frame = w.frame BY <1>7, <1>10, <1>11 DEF Continues, BusWords
<1>13. follow' = w.idx BY <1>1, <1>10, <1>11, <1>12 DEF Consumed
<1> QED BY <1>6, <1>7, <1>8, <1>10, <1>11, <1>12, <1>13 DEF BusWords

\* The first word after a break is no header unless a frame begins with it.
LEMMA HeaderWhole ==
  ASSUME HeaderUnique, IInv, Stream, Aligned, ring # <<>>, ReadHeader(Head(ring))
  PROVE  Aligned' /\ NoPhantom'
<1>1. Consumed(Head(ring), Nothing) /\ Step = "HEADER_DETECTION" BY DEF ReadHeader
<1>2. /\ seen' = ring[1] /\ got' = Nothing /\ Genuine(ring[1]) /\ Head(ring) = ring[1]
      /\ ring[1] \in BusWords /\ 1 \in 1 .. Len(ring)
  BY <1>1, WordRead, HeadAndTail DEF IInv, TypeOK
<1>3. SUFFICES ASSUME nextTPstep' # "HEADER_DETECTION" PROVE Aligned'
  BY <1>2 DEF Aligned, NoPhantom
<1>4. ring[1].val = Header BY <1>2, <1>3 DEF ReadHeader
<1> DEFINE w == ring[1]
           n == Len(w.frame.payload)
<1>5. w.idx > 0 /\ w.idx \in Nat BY <1>2 DEF Stream, Unbroken, BusWords
<1>6. w.frame \in Frames /\ w.idx \in 1 .. n + 4 /\ w.val = Wire(w.frame)[w.idx]
  BY <1>2, <1>5 DEF Genuine
<1>7. n \in Nat /\ Len(Wire(w.frame)) = n + 4 BY <1>6, WireFacts
<1>8. w.idx = 1
  <2>1. SUFFICES ASSUME w.idx # 1 PROVE FALSE OBVIOUS
  <2>2. w.idx \in 2 .. Len(Wire(w.frame)) BY <1>6, <1>7, <2>1
  <2> QED BY <1>4, <1>6, <2>2 DEF HeaderUnique
<1>9. follow' = 1 BY <1>1, <1>2, <1>8 DEF Consumed
<1> QED BY <1>2, <1>7, <1>9 DEF Aligned

\* A word in the middle of a frame completes none, and more words of it follow.
LEMMA MiddleWhole ==
  ASSUME IInv, Stream, Aligned, ring # <<>>,
         \/ ReadCommand(Head(ring)) \/ ReadSize(Head(ring)) \/ ReadPayload(Head(ring))
  PROVE  Aligned' /\ NoPhantom'
<1> DEFINE w == ring[1]
           n == Len(w.frame.payload)
<1>1. /\ Consumed(Head(ring), Nothing) /\ Step # "HEADER_DETECTION"
      /\ Step # "PAYLOAD_READ_END"
  BY DEF ReadCommand, ReadSize, ReadPayload
<1>2. seen' = w /\ got' = Nothing BY <1>1, WordRead
<1>3. follow' > 1 /\ w.frame \in Frames /\ follow' \in Nat /\ follow' <= n + 4
  BY <1>1, OnlyFollowed
<1>4. n \in Nat BY <1>3, WireFacts
<1>5. /\ follow' = w.idx /\ w.idx > 1
      /\ Step = nextTPstep /\ HasRead(w.idx - 1, w.frame)
  <2>1. follow' > 0 BY <1>3
  <2> DEFINE k == w.idx
  <2>2. /\ follow' = k /\ seen' = w /\ w.frame \in Frames /\ n \in Nat /\ k \in 1 .. n + 4
        /\ w.val = Wire(w.frame)[k]
        /\ \/ k = 1 /\ Step = "HEADER_DETECTION"
           \/ k > 1 /\ Step = nextTPstep /\ HasRead(k - 1, w.frame)
    BY <1>1, <2>1, NextOfFrame
  <2> QED BY <1>1, <2>2
<1>6. w.idx # n + 4
  <2>1. SUFFICES ASSUME w.idx = n + 4 PROVE FALSE OBVIOUS
  <2>2. w.idx - 1 = n + 3 BY <1>4, <2>1
  <2> HIDE DEF w
  <2>3. nextTPstep = "PAYLOAD_READ_END" BY <1>5, <2>2 DEF HasRead
  <2> QED BY <1>1, <1>5, <2>3
<1>7. follow' > 0 /\ follow' < Len(seen'.frame.payload) + 4
  <2>1. Len(seen'.frame.payload) = n BY <1>2
  <2> HIDE DEF n, w
  <2>2. follow' < n + 4 BY <1>3, <1>4, <1>5, <1>6
  <2> QED BY <1>3, <2>1, <2>2
<1> QED BY <1>2, <1>7 DEF Aligned, NoPhantom

\* The word taken for a checksum is the checksum of the frame that was followed.
LEMMA ChecksumWhole ==
  ASSUME IInv, Stream, Aligned, ring # <<>>, ReadChecksum(Head(ring))
  PROVE  Aligned' /\ NoPhantom'
<1> DEFINE w == ring[1]
           n == Len(w.frame.payload)
           g == IF ChecksumOK(Head(ring)) THEN transmission ELSE Nothing
<1>1. Consumed(Head(ring), g) /\ Step = "PAYLOAD_READ_END" /\ nextTPstep' = "HEADER_DETECTION"
  BY DEF ReadChecksum
<1> HIDE DEF g
<1>2. seen' = w BY <1>1, WordRead
<1>3. follow' > 1 /\ w.frame \in Frames /\ follow' \in Nat /\ follow' <= n + 4
  BY <1>1, OnlyFollowed
<1>4. n \in Nat BY <1>3, WireFacts
<1>5. /\ follow' = w.idx /\ w.idx > 1 /\ w.idx \in 1 .. n + 4
      /\ Step = nextTPstep /\ HasRead(w.idx - 1, w.frame)
  <2>1. follow' > 0 BY <1>3
  <2> DEFINE k == w.idx
  <2>2. /\ follow' = k /\ seen' = w /\ w.frame \in Frames /\ n \in Nat /\ k \in 1 .. n + 4
        /\ w.val = Wire(w.frame)[k]
        /\ \/ k = 1 /\ Step = "HEADER_DETECTION"
           \/ k > 1 /\ Step = nextTPstep /\ HasRead(k - 1, w.frame)
    BY <1>1, <2>1, NextOfFrame
  <2> QED BY <1>1, <2>2
<1>6. w.idx = n + 4
  <2> DEFINE k == w.idx - 1
  <2>1. k = 1 \/ k = 2 \/ k \in 3 .. n + 2 \/ k = n + 3 \/ w.idx = n + 4 BY <1>4, <1>5
  <2>2. HasRead(k, w.frame) /\ nextTPstep = "PAYLOAD_READ_END" BY <1>1, <1>5
  <2>3. k = n + 3 BY <1>4, <1>5, <2>1, <2>2 DEF HasRead
  <2> QED BY <1>4, <1>5, <2>3
<1>7. Reading' BY ReadChecksumKeeps DEF ParserKept
<1>8. got' = Received(seen'.frame)
  <2>1. follow' > 0 /\ follow' = Len(seen'.frame.payload) + 4 BY <1>2, <1>3, <1>5, <1>6
  <2> QED BY <1>7, <2>1 DEF Reading, HasRead
<1> QED BY <1>1, <1>8 DEF Aligned, NoPhantom

LEMMA UnmissedKept ==
  ASSUME HeaderUnique, IInv, Unmissed, [Next]_vars PROVE Unmissed'
<1>1. SUFFICES ASSUME misses' = 0 PROVE Stream' /\ Aligned' /\ NoPhantom'
  BY DEF Unmissed
<1>2. misses \in Nat BY ProtocolAssumption DEF IInv, TypeOK
<1>3. CASE MissWord BY <1>1, <1>2, <1>3 DEF MissWord
<1>4. CASE \E f \in Frames : StartFrame(f)
  <2>1. PICK f \in Frames : StartFrame(f) BY <1>4
  <2>2. misses = 0 BY <1>1, <2>1 DEF StartFrame
  <2> QED BY <2>1, <2>2, StartFrameWhole DEF Unmissed
<1>5. CASE SendWord
  <2>1. misses = 0 BY <1>1, <1>5 DEF SendWord, count
  <2> QED BY <1>5, <2>1, SendWordWhole DEF Unmissed
<1>6. CASE Tick
  <2>1. /\ UNCHANGED <<frames, misses, out, ring>> /\ UNCHANGED parser
        /\ quiet' = IF quiet < MaxQuiet THEN quiet + 1 ELSE quiet
    BY <1>6 DEF Tick, count
  <2>2. UNCHANGED <<nextTPstep, transmission, last_header_found, got, seen, follow>>
    BY <2>1 DEF parser
  <2>3. Stream /\ Aligned /\ NoPhantom BY <1>1, <2>1 DEF Unmissed
  <2>4. Stream' BY <2>1, <2>2, <2>3 DEF Stream, Unbroken, Joined, Ended, Succeeds, Ends
  <2>5. quiet > RestartGap => quiet' > RestartGap
    BY <2>1, ProtocolAssumption DEF IInv, TypeOK
  <2> QED BY <2>2, <2>3, <2>4, <2>5 DEF Aligned, NoPhantom
<1>7. CASE Consume
  <2>1. ring # <<>> BY <1>7 DEF Consume
  <2>2. PICK g : Consumed(Head(ring), g)
    BY <1>7 DEF Consume, ReadHeader, ReadCommand, ReadSize, ReadPayload, ReadChecksum
  <2>3. misses = 0 BY <1>1, <2>2 DEF Consumed, count
  <2>4. Stream /\ Aligned BY <2>3 DEF Unmissed
  <2>5. Stream' BY <2>1, <2>2, <2>4, WordTaken
  <2>6. Aligned' /\ NoPhantom'
    BY <1>7, <2>1, <2>4, HeaderWhole, MiddleWhole, ChecksumWhole DEF Consume
  <2> QED BY <2>5, <2>6
<1>8. CASE UNCHANGED vars
  BY <1>1, <1>8 DEF vars, parser, count, Unmissed, Stream, Unbroken, Joined, Ended, Succeeds, Ends,
     Aligned, NoPhantom
<1> QED BY <1>3, <1>4, <1>5, <1>6, <1>7, <1>8 DEF Next

\* As long as no word has been missed, and nothing but its first word looks like a
\* header in any frame, a frame that is handed over is the one whose last word
\* completed it, whatever the pauses, wherever the parser starts over and however far
\* the ring is lapped: what the checksum has to catch are missed words and data that
\* looks like a header, nothing else.
THEOREM WholeFrames ==
  ASSUME HeaderUnique
  PROVE  Spec => [](misses = 0 => NoPhantom)
<1>1. Init => Unmissed
  BY DEF Init, Unmissed, Stream, Unbroken, Joined, Ended, Aligned, NoPhantom
<1>2. IInv /\ Unmissed /\ [Next]_vars => Unmissed' BY UnmissedKept
<1>3. Unmissed => (misses = 0 => NoPhantom) BY DEF Unmissed
<1> QED BY <1>1, <1>2, <1>3, Inductive, PTL DEF Spec
=============================================================================
