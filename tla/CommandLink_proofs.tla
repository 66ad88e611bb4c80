------------------------- MODULE CommandLink_proofs -------------------------
(* Proofs about CommandLink: the invariant LinkInv is inductive, and with   *)
(* it what a driver may rely on, for every number of commands, attempts,    *)
(* slow answers and seed values.                                           *)
EXTENDS CommandLink, TLAPS

-----------------------------------------------------------------------------
(* Ages *)

\* An age is a distance on the circle of seeds; only the seed has age 0 and
\* different tokens have different ages.
LEMMA AgeFacts ==
  ASSUME NEW s \in Tokens, NEW t \in Tokens
  PROVE  /\ AgeFrom(s, t) \in 0 .. CounterMod - 1
         /\ AgeFrom(s, t) = 0 <=> t = s
         /\ \A u \in Tokens : AgeFrom(s, t) = AgeFrom(s, u) => t = u
BY LinkAssumption DEF AgeFrom, Tokens

\* An answer makes every token that is at most two answers old one older.
LEMMA AgeBump ==
  ASSUME NEW s \in Tokens, NEW t \in Tokens, AgeFrom(s, t) <= 2
  PROVE  /\ Bump(s) \in Tokens
         /\ AgeFrom(Bump(s), t) = AgeFrom(s, t) + 1
BY LinkAssumption DEF AgeFrom, Tokens, Bump

LEMMA BumpType ==
  ASSUME NEW s \in Tokens
  PROVE  Bump(s) \in Tokens
BY LinkAssumption DEF Tokens, Bump

LEMMA FrameFacts ==
  /\ NoFrame \notin Frames
  /\ NoToken \notin Tokens
  /\ 0 \in Tokens
BY LinkAssumption DEF NoFrame, Frames, NoToken, Tokens

LEMMA RingFrames ==
  ASSUME ring \in Seq(Frames), NEW i \in 1 .. Len(ring)
  PROVE  ring[i] \in Frames /\ ring[i].tok \in Tokens /\ ring[i].cmd \in Cmds
<1>1. ring[i] \in Frames
  OBVIOUS
<1> QED BY <1>1 DEF Frames

-----------------------------------------------------------------------------
(* Types *)

LEMMA TypeInit == Init => TypeOK
<1> SUFFICES ASSUME Init PROVE TypeOK
  OBVIOUS
<1>1. tries \in 0 .. MaxTries /\ early \in 0 .. MaxEarly
  BY LinkAssumption DEF Init
<1>2. ring \in Seq(Frames)
  BY DEF Init
<1>3. tok \in Tokens /\ seed \in Tokens
  BY FrameFacts DEF Init
<1> QED BY <1>1, <1>2, <1>3 DEF Init, TypeOK

LEMMA TypeStep == TypeOK /\ [Next]_vars => TypeOK'
<1> SUFFICES ASSUME TypeOK, [Next]_vars PROVE TypeOK'
  OBVIOUS
<1> USE LinkAssumption DEF TypeOK
<1>1. ASSUME NEW c \in Cmds, Issue(c) PROVE TypeOK'
  <2>1. tries' \in 0 .. MaxTries
    BY <1>1 DEF Issue
  <2> QED BY <1>1, <2>1 DEF Issue, rpVars
<1>2. CASE ReadSeed
  BY <1>2 DEF ReadSeed, rpVars
<1>3. CASE SendFrame
  <2>1. [tok |-> tok, cmd |-> cmd] \in Frames
    BY <1>3 DEF SendFrame, Frames
  <2> QED BY <1>3, <2>1 DEF SendFrame, rpVars
<1>4. CASE LoseFrame
  BY <1>4 DEF LoseFrame, rpVars
<1>5. CASE TokenFound
  BY <1>5 DEF TokenFound, rpVars
<1>6. CASE CopyResult
  BY <1>6 DEF CopyResult, rpVars
<1>7. CASE Retry
  BY <1>7 DEF Retry, TimedOut, rpVars
<1>8. CASE Reissue
  BY <1>8 DEF Reissue, TimedOut, rpVars
<1>9. CASE GiveUp
  BY <1>9 DEF GiveUp, TimedOut, rpVars
<1>10. CASE Poll
  <2>1. Head(ring) \in Frames
    BY <1>10 DEF Poll
  <2> QED BY <1>10, <2>1, FrameFacts DEF Poll, atariVars
<1>11. CASE Execute
  <2>1. pending \in Frames
    BY <1>11 DEF Execute
  <2> QED BY <1>11, <2>1 DEF Execute, atariVars, Frames
<1>12. CASE Reply
  <2>1. pending \in Frames
    BY <1>12 DEF Reply
  <2> QED BY <1>12, <2>1, BumpType DEF Reply, atariVars, Frames
<1>13. CASE UNCHANGED vars
  BY <1>13 DEF vars, atariVars, rpVars
<1> QED
  BY <1>1, <1>2, <1>3, <1>4, <1>5, <1>6, <1>7, <1>8, <1>9, <1>10, <1>11,
     <1>12, <1>13 DEF Next, Atari, Rp

\* Every variable of the link keeps its type.
THEOREM TypeCorrect == Spec => []TypeOK
<1>1. Init => TypeOK
  BY TypeInit
<1>2. TypeOK /\ [Next]_vars => TypeOK'
  BY TypeStep
<1> QED BY <1>1, <1>2, PTL DEF Spec
-----------------------------------------------------------------------------
(* Ages of the tokens in flight *)

\* What an answer does to ages: those of the ring and of the sender that are
\* bounded grow by one.
LEMMA ReplyAges ==
  ASSUME TypeOK, AgeBounds, AgeOrder, Reply
  PROVE  /\ \A i \in 1 .. Len(ring) :
              AgeFrom(seed', ring[i].tok) = Age(ring[i].tok) + 1
         /\ AgeFrom(seed', pending.tok) = Age(pending.tok) + 1
         /\ Sent => AgeFrom(seed', tok) = Age(tok) + 1
         /\ Age(pending.tok) \in 0 .. 2
         /\ pending \in Frames
<1>1. /\ seed \in Tokens /\ seed' = Bump(seed) /\ tok \in Tokens
      /\ phase = "reply" /\ Busy = 1
      /\ pending \in Frames /\ pending.tok \in Tokens
  BY DEF TypeOK, Reply, Frames, Busy
<1>2. \A i \in 1 .. Len(ring) : ring[i] \in Frames /\ ring[i].tok \in Tokens
  BY RingFrames DEF TypeOK
<1>3. Age(pending.tok) \in 0 .. 2
  BY <1>1, AgeFacts, LinkAssumption DEF AgeBounds, Age
<1>4. AgeFrom(seed', pending.tok) = Age(pending.tok) + 1
  BY <1>1, <1>3, AgeBump DEF Age
<1>5. ASSUME NEW i \in 1 .. Len(ring)
      PROVE  AgeFrom(seed', ring[i].tok) = Age(ring[i].tok) + 1
  <2>1. Age(ring[i].tok) \in 0 .. CounterMod - 1
    BY <1>1, <1>2, AgeFacts DEF Age
  <2>2. Age(ring[i].tok) <= 2
    BY <1>1, <2>1, LinkAssumption DEF AgeBounds
  <2> QED BY <1>1, <1>2, <2>2, AgeBump DEF Age
<1>6. ASSUME Sent PROVE AgeFrom(seed', tok) = Age(tok) + 1
  <2>1. Age(tok) \in 0 .. CounterMod - 1
    BY <1>1, AgeFacts DEF Age
  <2>2. Age(tok) <= 2
    BY <1>1, <1>3, <1>6, <2>1, LinkAssumption DEF AgeOrder
  <2> QED BY <1>1, <2>2, AgeBump DEF Age
<1> QED BY <1>1, <1>3, <1>4, <1>5, <1>6

LEMMA AgeBoundsInit == Init => AgeBounds
BY DEF Init, AgeBounds, Busy, Backlog

LEMMA AgeBoundsStep ==
  TypeOK /\ AgeBounds /\ AgeOrder /\ [Next]_vars => AgeBounds'
<1> SUFFICES ASSUME TypeOK, AgeBounds, AgeOrder, [Next]_vars PROVE AgeBounds'
  OBVIOUS
<1>t. /\ seed \in Tokens /\ tok \in Tokens /\ ring \in Seq(Frames)
      /\ phase \in {"poll", "run", "reply"}
  BY DEF TypeOK
<1>a. \A t \in Tokens : Age(t) \in Int
  BY <1>t, AgeFacts, LinkAssumption DEF Age
<1>b. Busy \in {0, 1} /\ Backlog \in {0, 1}
  BY DEF Busy, Backlog
<1>c. \A i \in 1 .. Len(ring) : ring[i].tok \in Tokens
  BY <1>t, RingFrames
<1>1. ASSUME UNCHANGED <<ring, phase, pending, token, seed>>,
             pc' = "send" => pc = "send" /\ tok' = tok
      PROVE  AgeBounds'
  BY <1>1 DEF AgeBounds, Age, Busy, Backlog
<1>2. CASE ReadSeed
  <2>1. Age(tok)' = 0
    BY <1>2, <1>t, AgeFacts DEF ReadSeed, rpVars, Age
  <2>2. (Age(tok) + Busy + Backlog <= 2)'
    BY <1>2, <1>b, <2>1 DEF ReadSeed, rpVars, Busy, Backlog
  <2> QED BY <1>2, <2>2 DEF ReadSeed, rpVars, AgeBounds, Age, Busy
<1>3. CASE SendFrame
  <2>1. Age(tok) + Busy <= 2
    BY <1>3, <1>a, <1>b, <1>t DEF SendFrame, AgeBounds
  <2>2. ASSUME NEW i \in 1 .. Len(ring')
        PROVE  Age(ring'[i].tok) + Busy <= 2
    <3>1. CASE i = Len(ring) + 1
      BY <1>3, <1>t, <2>1, <3>1 DEF SendFrame
    <3>2. CASE i \in 1 .. Len(ring)
      BY <1>3, <1>t, <3>2 DEF SendFrame, AgeBounds
    <3> QED BY <1>3, <1>t, <3>1, <3>2 DEF SendFrame
  <2> QED BY <1>3, <2>2 DEF SendFrame, rpVars, AgeBounds, Age, Busy
<1>4. CASE Poll
  <2>1. Age(pending.tok)' <= 2
    BY <1>4, <1>t, <1>a, <1>c DEF Poll, AgeBounds, Age, Busy
  <2>2. pc = "send" => Age(tok) + 1 <= 2
    BY <1>4, <1>t, <1>a DEF Poll, AgeBounds, Busy, Backlog
  <2>3. pc' = "send" => (Age(tok) + Busy + Backlog <= 2)'
    BY <1>4, <1>t, <1>a, <2>2 DEF Poll, atariVars, Age, Busy, Backlog
  <2> QED BY <1>4, <2>1, <2>3 DEF Poll, atariVars, AgeBounds, Age
<1>5. CASE Execute
  BY <1>5 DEF Execute, atariVars, AgeBounds, Age, Busy, Backlog
<1>6. CASE Reply
  <2>1. Busy = 1 /\ Busy' = 0 /\ Backlog' = Backlog
    BY <1>6 DEF Reply, Busy, Backlog
  <2>2. pc' = "send" => (Age(tok) + Busy + Backlog <= 2)'
    BY <1>6, <1>a, <1>b, <1>t, <2>1, ReplyAges
    DEF Reply, atariVars, AgeBounds, Age, Sent
  <2>3. \A i \in 1 .. Len(ring') : (Age(ring[i].tok) + Busy)' <= 2
    BY <1>6, <1>a, <1>c, <2>1, ReplyAges DEF Reply, AgeBounds, Age
  <2>4. Age(token)' \in 1 .. 3
    BY <1>6, ReplyAges DEF Reply, Age
  <2> QED BY <1>6, <2>2, <2>3, <2>4 DEF Reply, AgeBounds
<1>7. ASSUME NEW c \in Cmds, Issue(c) PROVE AgeBounds'
  BY <1>7, <1>1 DEF Issue, rpVars
<1>8. CASE LoseFrame
  BY <1>8, <1>1 DEF LoseFrame, rpVars
<1>9. CASE TokenFound
  BY <1>9, <1>1 DEF TokenFound, rpVars
<1>10. CASE CopyResult
  BY <1>10, <1>1 DEF CopyResult, rpVars
<1>11. CASE Retry \/ Reissue \/ GiveUp
  BY <1>11, <1>1 DEF Retry, Reissue, GiveUp, TimedOut, rpVars
<1>12. CASE UNCHANGED vars
  BY <1>12, <1>1 DEF vars, atariVars, rpVars
<1> QED
  BY <1>2, <1>3, <1>4, <1>5, <1>6, <1>7, <1>8, <1>9, <1>10, <1>11, <1>12
  DEF Next, Atari, Rp
-----------------------------------------------------------------------------
(* Order *)

LEMMA AgeOrderInit == Init => AgeOrder
BY DEF Init, AgeOrder, Sent

LEMMA AgeOrderStep ==
  TypeOK /\ AgeBounds /\ AgeOrder /\ [Next]_vars => AgeOrder'
<1> SUFFICES ASSUME TypeOK, AgeBounds, AgeOrder, [Next]_vars PROVE AgeOrder'
  OBVIOUS
<1>t. /\ seed \in Tokens /\ tok \in Tokens /\ ring \in Seq(Frames)
      /\ token \in Tokens \cup {NoToken}
      /\ phase \in {"poll", "run", "reply"}
      /\ phase # "poll" => pending.tok \in Tokens
  BY DEF TypeOK, Frames
<1>a. \A t \in Tokens : Age(t) \in Nat
  BY <1>t, AgeFacts, LinkAssumption DEF Age
<1>c. \A i \in 1 .. Len(ring) : ring[i].tok \in Tokens
  BY <1>t, RingFrames
<1>1. ASSUME UNCHANGED <<ring, phase, pending, token, seed>>,
             Sent' => Sent /\ tok' = tok
      PROVE  AgeOrder'
  BY <1>1 DEF AgeOrder, Age
<1>2. CASE ReadSeed
  <2>1. Age(tok)' = 0
    BY <1>2, <1>t, AgeFacts DEF ReadSeed, rpVars, Age
  <2> QED BY <1>2, <2>1, <1>a, <1>c, <1>t DEF ReadSeed, rpVars, AgeOrder, Age
<1>3. CASE SendFrame
  <2>1. /\ Len(ring') = Len(ring) + 1
        /\ ring'[Len(ring) + 1].tok = tok
        /\ \A i \in 1 .. Len(ring) : ring'[i] = ring[i]
    BY <1>3, <1>t DEF SendFrame
  <2>2. ASSUME NEW i \in 1 .. Len(ring')
        PROVE  /\ Age(ring'[i].tok) >= Age(tok)
               /\ phase # "poll" => Age(pending.tok) >= Age(ring'[i].tok)
               /\ token # NoToken => Age(token) >= Age(ring'[i].tok)
    <3>1. CASE i = Len(ring) + 1
      BY <1>3, <1>a, <1>t, <2>1, <3>1 DEF SendFrame, AgeOrder, Sent
    <3>2. CASE i \in 1 .. Len(ring)
      BY <1>3, <2>1, <3>2 DEF SendFrame, AgeOrder, Sent
    <3> QED BY <1>t, <2>1, <3>1, <3>2
  <2>3. ASSUME NEW i \in 1 .. Len(ring'), NEW j \in 1 .. Len(ring'), i < j
        PROVE  Age(ring'[i].tok) >= Age(ring'[j].tok)
    <3>1. CASE j = Len(ring) + 1
      BY <2>1, <2>2, <3>1
    <3>2. CASE j \in 1 .. Len(ring)
      <4>1. i \in 1 .. Len(ring)
        BY <2>3, <3>2
      <4> QED BY <2>1, <2>3, <3>2, <4>1 DEF AgeOrder
    <3> QED BY <1>t, <2>1, <3>1, <3>2
  <2> QED BY <1>3, <2>2, <2>3 DEF SendFrame, rpVars, AgeOrder, Age, Sent
<1>4. CASE Poll
  <2>1. 1 \in 1 .. Len(ring) /\ pending' = ring[1] /\ Len(ring') = 0
    BY <1>4, <1>t DEF Poll
  <2>2. /\ token # NoToken => Age(token) >= Age(ring[1].tok)
        /\ Sent => Age(ring[1].tok) >= Age(tok)
    BY <2>1 DEF AgeOrder
  <2>3. token # NoToken /\ Sent => Age(token) >= Age(tok)
    BY DEF AgeOrder
  <2> QED BY <1>4, <2>1, <2>2, <2>3 DEF Poll, atariVars, AgeOrder, Age, Sent
<1>5. CASE Execute
  BY <1>5 DEF Execute, atariVars, AgeOrder, Age, Sent
<1>6. CASE Reply
  <2>1. /\ token' = pending.tok /\ ring' = ring /\ phase' = "poll"
        /\ phase # "poll" /\ tok' = tok /\ Sent' = Sent
    BY <1>6 DEF Reply, atariVars, Sent
  <2>2. ASSUME NEW i \in 1 .. Len(ring'), NEW j \in 1 .. Len(ring'), i < j
        PROVE  AgeFrom(seed', ring'[i].tok) >= AgeFrom(seed', ring'[j].tok)
    BY <1>6, <1>a, <1>c, <2>1, <2>2, ReplyAges DEF AgeOrder
  <2>3. ASSUME NEW i \in 1 .. Len(ring')
        PROVE  /\ AgeFrom(seed', token') >= AgeFrom(seed', ring'[i].tok)
               /\ Sent => AgeFrom(seed', ring'[i].tok) >= AgeFrom(seed', tok')
    BY <1>6, <1>a, <1>c, <1>t, <2>1, ReplyAges DEF AgeOrder
  <2>4. Sent => AgeFrom(seed', token') >= AgeFrom(seed', tok')
    BY <1>6, <1>a, <1>t, <2>1, ReplyAges DEF AgeOrder
  <2> QED BY <2>1, <2>2, <2>3, <2>4 DEF AgeOrder, Age
<1>7. ASSUME NEW c \in Cmds, Issue(c) PROVE AgeOrder'
  BY <1>7, <1>1 DEF Issue, rpVars, Sent
<1>8. CASE LoseFrame
  BY <1>8, <1>1 DEF LoseFrame, rpVars, Sent
<1>9. CASE TokenFound
  BY <1>9, <1>1 DEF TokenFound, rpVars, Sent
<1>10. CASE CopyResult
  BY <1>10, <1>1 DEF CopyResult, rpVars, Sent
<1>11. CASE Retry \/ Reissue \/ GiveUp
  BY <1>11, <1>1 DEF Retry, Reissue, GiveUp, TimedOut, rpVars, Sent
<1>12. CASE UNCHANGED vars
  BY <1>12, <1>1 DEF vars, atariVars, rpVars, Sent
<1> QED
  BY <1>2, <1>3, <1>4, <1>5, <1>6, <1>7, <1>8, <1>9, <1>10, <1>11, <1>12
  DEF Next, Atari, Rp

\* The seed a new attempt reads is never the token in memory, whether or not
\* callers give up: no answer completes an attempt that was not sent yet.
THEOREM FreshToken == Spec => []TokenFresh
<1> DEFINE AInv == TypeOK /\ AgeBounds /\ AgeOrder
<1>1. Init => AInv
  BY TypeInit, AgeBoundsInit, AgeOrderInit
<1>2. AInv /\ [Next]_vars => AInv'
  BY TypeStep, AgeBoundsStep, AgeOrderStep
<1>3. AInv => TokenFresh
  <2>1. SUFFICES ASSUME TypeOK, AgeBounds, token = seed PROVE FALSE
    BY DEF TokenFresh
  <2>2. seed \in Tokens /\ token # NoToken
    BY <2>1, FrameFacts DEF TypeOK
  <2>3. Age(token) = 0
    BY <2>1, <2>2, AgeFacts DEF Age
  <2> QED BY <2>1, <2>2, <2>3 DEF AgeBounds
<1> QED BY <1>1, <1>2, <1>3, PTL DEF Spec
-----------------------------------------------------------------------------
(* Calls: callers that give up only when the RP owes them nothing *)

\* In flight, equal ages are equal tokens.
LEMMA SameAge ==
  ASSUME TypeOK, NEW t \in Tokens, NEW u \in Tokens, Age(t) = Age(u)
  PROVE  t = u
BY AgeFacts DEF TypeOK, Age

\* While the token answers the current attempt, what is queued carries the
\* same token.
LEMMA AnsweredQueue ==
  ASSUME TypeOK, AgeOrder, Sent, token = tok
  PROVE  /\ \A i \in 1 .. Len(ring) : ring[i].tok = tok
         /\ phase # "poll" => pending.tok = tok
<1>t. /\ seed \in Tokens /\ tok \in Tokens /\ ring \in Seq(Frames)
      /\ phase # "poll" => pending.tok \in Tokens
      /\ token # NoToken
  BY FrameFacts DEF TypeOK, Frames
<1>a. \A t \in Tokens : Age(t) \in Nat
  BY <1>t, AgeFacts, LinkAssumption DEF Age
<1>1. ASSUME NEW i \in 1 .. Len(ring) PROVE ring[i].tok = tok
  <2>1. ring[i].tok \in Tokens
    BY <1>t, RingFrames
  <2>2. Age(ring[i].tok) = Age(tok)
    BY <1>t, <1>a, <2>1 DEF AgeOrder
  <2> QED BY <1>t, <2>1, <2>2, SameAge
<1>2. ASSUME phase # "poll" PROVE pending.tok = tok
  <2>1. Age(pending.tok) = Age(tok)
    BY <1>t, <1>a, <1>2 DEF AgeOrder
  <2> QED BY <1>t, <1>2, <2>1, SameAge
<1> QED BY <1>1, <1>2

\* The token in memory is at least one answer old, the seed is not.
LEMMA TokenNotSeed ==
  ASSUME TypeOK, AgeBounds
  PROVE  token # seed
<1>1. SUFFICES ASSUME token = seed PROVE FALSE
  OBVIOUS
<1>2. seed \in Tokens /\ token # NoToken
  BY <1>1, FrameFacts DEF TypeOK
<1> QED BY <1>1, <1>2, AgeFacts DEF AgeBounds, Age

\* What is queued was sent before or with the current attempt: a frame that
\* carries the seed of now is a frame of the current attempt.
LEMMA SeedOwner ==
  ASSUME TypeOK, AgeOrder, TokenOwner, Sent
  PROVE  /\ \A i \in 1 .. Len(ring) :
              ring[i].tok = seed => ring[i].tok = tok /\ ring[i].cmd = cmd
         /\ phase # "poll" /\ pending.tok = seed =>
              pending.tok = tok /\ pending.cmd = cmd
<1>t. /\ seed \in Tokens /\ tok \in Tokens /\ ring \in Seq(Frames)
  BY DEF TypeOK
<1>a. Age(seed) = 0 /\ Age(tok) \in Nat /\ (Age(tok) = 0 => tok = seed)
  BY <1>t, AgeFacts, LinkAssumption DEF Age
<1> QED BY <1>t, <1>a DEF AgeOrder, TokenOwner, MineAt

LEMMA TokenOwnerInit == Init => TokenOwner
BY FrameFacts DEF Init, TokenOwner, Sent

LEMMA TokenOwnerStep ==
  ASSUME Patient
  PROVE  TypeOK /\ AgeBounds /\ AgeOrder /\ TokenOwner /\ [Next]_vars
           => TokenOwner'
<1> SUFFICES ASSUME TypeOK, AgeBounds, AgeOrder, TokenOwner, [Next]_vars
             PROVE  TokenOwner'
  OBVIOUS
<1>t. /\ seed \in Tokens /\ tok \in Tokens /\ ring \in Seq(Frames)
      /\ phase \in {"poll", "run", "reply"}
      /\ pc \in {"idle", "read", "send", "wait", "copy"}
      /\ served \in BOOLEAN
      /\ phase # "poll" => pending.tok \in Tokens
  BY DEF TypeOK, Frames
<1>c. \A i \in 1 .. Len(ring) : ring[i].tok \in Tokens
  BY <1>t, RingFrames
<1>n. token # seed
  BY TokenNotSeed
<1>1. ASSUME NEW c \in Cmds, Issue(c) PROVE TokenOwner'
  BY <1>1 DEF Issue, rpVars, TokenOwner, MineAt, Sent
<1>2. CASE ReadSeed
  BY <1>2, <1>n DEF ReadSeed, rpVars, TokenOwner, MineAt, Sent
<1>3. CASE SendFrame
  <2>1. ASSUME NEW i \in 1 .. Len(ring') PROVE MineAt(ring[i])'
    <3>1. CASE i = Len(ring) + 1
      BY <1>3, <1>t, <3>1 DEF SendFrame, MineAt, Sent
    <3>2. CASE i \in 1 .. Len(ring)
      BY <1>3, <1>t, <3>2 DEF SendFrame, TokenOwner, MineAt, Sent
    <3> QED BY <1>3, <1>t, <3>1, <3>2 DEF SendFrame
  <2> QED BY <1>3, <2>1 DEF SendFrame, rpVars, TokenOwner, MineAt, Sent
<1>4. CASE LoseFrame
  BY <1>4 DEF LoseFrame, rpVars, TokenOwner, MineAt, Sent
<1>5. CASE TokenFound
  BY <1>5 DEF TokenFound, rpVars, TokenOwner, MineAt, Sent
<1>6. CASE CopyResult
  <2>1. Sent /\ token = tok
    BY <1>6 DEF CopyResult, TokenOwner, Sent
  <2>2. /\ \A i \in 1 .. Len(ring) : ring[i].tok # seed
        /\ phase # "poll" => pending.tok # seed
    BY <2>1, <1>n, AnsweredQueue
  <2> QED BY <1>6, <2>2 DEF CopyResult, rpVars, TokenOwner, MineAt, Sent
<1>7. CASE Retry \/ Reissue
  <2>1. /\ pc = "wait" /\ pc' = "read" /\ Sent /\ ~Sent'
        /\ UNCHANGED <<cmd, tok, ring, phase, pending, token, seed, result, served>>
    BY <1>7 DEF Retry, Reissue, TimedOut, rpVars, Sent
  <2>2. \A i \in 1 .. Len(ring') : MineAt(ring[i])'
    BY <2>1, SeedOwner DEF MineAt
  <2>3. phase' # "poll" => MineAt(pending)'
    BY <2>1, SeedOwner DEF MineAt
  <2>4. phase' = "reply" =>
          (result = pending.cmd /\ (pending.tok = seed => served))'
    BY <2>1, SeedOwner DEF TokenOwner
  <2> QED BY <2>1, <2>2, <2>3, <2>4 DEF TokenOwner
<1>8. CASE GiveUp
  <2>1. /\ pc' = "idle" /\ ring' = <<>> /\ phase' = "poll"
    BY <1>8 DEF GiveUp, TimedOut, AnswerOwed, rpVars
  <2> QED BY <2>1 DEF TokenOwner, MineAt, Sent
<1>9. CASE Poll
  <2>1. 1 \in 1 .. Len(ring) /\ pending' = ring[1] /\ Len(ring') = 0
    BY <1>9, <1>t DEF Poll
  <2>2. MineAt(ring[1])
    BY <2>1 DEF TokenOwner
  <2> QED BY <1>9, <2>1, <2>2 DEF Poll, atariVars, TokenOwner, MineAt, Sent
<1>10. CASE Execute
  BY <1>10, <1>t DEF Execute, atariVars, TokenOwner, MineAt, Sent
<1>11. CASE Reply
  <2>1. /\ UNCHANGED <<pc, cmd, tok, ring, result, served>>
        /\ token' = pending.tok /\ phase' = "poll" /\ phase = "reply"
        /\ Sent' = Sent
    BY <1>11 DEF Reply, atariVars, Sent
  <2>2. seed' \in Tokens
    BY <1>11, <1>t, BumpType DEF Reply
  <2>3. \A i \in 1 .. Len(ring) : ring[i].tok # seed'
    <3>1. ASSUME NEW i \in 1 .. Len(ring) PROVE ring[i].tok # seed'
      <4>1. AgeFrom(seed', ring[i].tok) = Age(ring[i].tok) + 1
        BY <1>11, ReplyAges
      <4>2. Age(ring[i].tok) \in Nat
        BY <1>t, <1>c, AgeFacts, LinkAssumption DEF Age
      <4> QED BY <1>c, <2>2, <4>1, <4>2, AgeFacts
    <3> QED BY <3>1
  <2>4. pc = "copy" => pending.tok = tok
    BY <2>1, AnsweredQueue DEF TokenOwner, Sent
  <2>5. Sent /\ token' = tok => served
    BY <2>1 DEF TokenOwner
  <2>6. \A i \in 1 .. Len(ring') : MineAt(ring[i])'
    BY <2>1, <2>3 DEF TokenOwner, MineAt
  <2> QED BY <2>1, <2>4, <2>5, <2>6 DEF TokenOwner
<1>12. CASE UNCHANGED vars
  BY <1>12 DEF vars, atariVars, rpVars, TokenOwner, MineAt, Sent
<1> QED
  BY <1>1, <1>2, <1>3, <1>4, <1>5, <1>6, <1>7, <1>8, <1>9, <1>10, <1>11, <1>12
  DEF Next, Atari, Rp
LEMMA CallOrderInit == Init => CallOrder
BY DEF Init, CallOrder

LEMMA CallOrderStep ==
  ASSUME Patient
  PROVE  TypeOK /\ AgeOrder /\ TokenOwner /\ CallOrder /\ [Next]_vars
           => CallOrder'
<1> SUFFICES ASSUME TypeOK, AgeOrder, TokenOwner, CallOrder, [Next]_vars
             PROVE  CallOrder'
  OBVIOUS
<1>t. /\ ring \in Seq(Frames)
      /\ phase \in {"poll", "run", "reply"}
      /\ served \in BOOLEAN
      /\ pc # "idle" => cmd \in Cmds
  BY DEF TypeOK
<1>0. ASSUME UNCHANGED <<cmd, ring, phase, pending, result, served>>,
             pc' = "idle" => pc = "idle" \/ served
      PROVE  CallOrder'
  BY <1>0 DEF CallOrder
<1>1. ASSUME NEW c \in Cmds, Issue(c) PROVE CallOrder'
  \* everything queued is the previous command, which ran last
  <2>1. \A i \in 1 .. Len(ring) : ring[i].cmd = result
    BY <1>1 DEF Issue, CallOrder
  <2>2. phase # "poll" => pending.cmd = result
    BY <1>1 DEF Issue, CallOrder
  <2> QED BY <1>1, <2>1, <2>2 DEF Issue, rpVars, CallOrder
<1>2. CASE ReadSeed \/ LoseFrame \/ TokenFound
  BY <1>2, <1>0 DEF ReadSeed, LoseFrame, TokenFound, rpVars
<1>3. CASE SendFrame
  <2>1. /\ Len(ring') = Len(ring) + 1
        /\ ring'[Len(ring) + 1].cmd = cmd
        /\ \A i \in 1 .. Len(ring) : ring'[i] = ring[i]
        /\ pc' = "wait"
        /\ UNCHANGED <<cmd, phase, pending, result, served>>
    BY <1>3, <1>t DEF SendFrame, rpVars
  <2>2. ASSUME NEW i \in 1 .. Len(ring')
        PROVE  /\ phase # "poll" /\ pending.cmd = cmd => ring'[i].cmd = cmd
               /\ ring'[i].cmd \in {cmd, result}
               /\ served => ring'[i].cmd = cmd
    <3>1. CASE i = Len(ring) + 1
      BY <2>1, <3>1
    <3>2. CASE i \in 1 .. Len(ring)
      BY <2>1, <3>2 DEF CallOrder
    <3> QED BY <1>t, <2>1, <3>1, <3>2
  <2>3. ASSUME NEW i \in 1 .. Len(ring'), NEW j \in 1 .. Len(ring'), i < j,
               ring'[i].cmd = cmd
        PROVE  ring'[j].cmd = cmd
    <3>1. CASE j = Len(ring) + 1
      BY <2>1, <3>1
    <3>2. CASE j \in 1 .. Len(ring)
      <4>1. i \in 1 .. Len(ring)
        BY <2>3, <3>2
      <4> QED BY <2>1, <2>3, <3>2, <4>1 DEF CallOrder
    <3> QED BY <1>t, <2>1, <3>1, <3>2
  <2> QED BY <2>1, <2>2, <2>3 DEF CallOrder
<1>4. CASE CopyResult
  <2>1. served
    BY <1>4 DEF CopyResult, TokenOwner, Sent
  <2> QED BY <1>4, <1>0, <2>1 DEF CopyResult, rpVars
<1>5. CASE Retry \/ Reissue
  BY <1>5, <1>0 DEF Retry, Reissue, TimedOut, rpVars
<1>6. CASE GiveUp
  BY <1>6 DEF GiveUp, TimedOut, AnswerOwed, rpVars, CallOrder
<1>7. CASE Poll
  <2>1. 1 \in 1 .. Len(ring) /\ pending' = ring[1] /\ Len(ring') = 0
    BY <1>7, <1>t DEF Poll
  <2>2. /\ ring[1].cmd \in {cmd, result}
        /\ served => ring[1].cmd = cmd
    BY <2>1 DEF CallOrder
  <2>3. pc = "idle" => served
    BY <1>7 DEF Poll, CallOrder
  <2> QED BY <1>7, <2>1, <2>2, <2>3 DEF Poll, atariVars, CallOrder
<1>8. CASE Execute
  <2>1. CASE pending.cmd = cmd
    BY <1>8, <2>1 DEF Execute, atariVars, CallOrder
  <2>2. CASE pending.cmd # cmd
    \* a repetition of the previous command: nothing has changed
    <3>1. ~served /\ result' = result /\ served' = served
      BY <1>8, <1>t, <2>2 DEF Execute, CallOrder
    <3> QED BY <1>8, <3>1 DEF Execute, atariVars, CallOrder
  <2> QED BY <2>1, <2>2
<1>9. CASE Reply
  BY <1>9 DEF Reply, atariVars, CallOrder
<1>10. CASE UNCHANGED vars
  BY <1>10, <1>0 DEF vars, atariVars, rpVars
<1> QED
  BY <1>1, <1>2, <1>3, <1>4, <1>5, <1>6, <1>7, <1>8, <1>9, <1>10
  DEF Next, Atari, Rp

-----------------------------------------------------------------------------
(* What follows *)

\* LinkInv holds in every reachable state.
THEOREM LinkInvariant == Spec => []LinkInv
<1>1. Init => LinkInv
  BY TypeInit, AgeBoundsInit, AgeOrderInit, TokenOwnerInit, CallOrderInit
  DEF LinkInv
<1>2. LinkInv /\ [Next]_vars => LinkInv'
  <2> SUFFICES ASSUME LinkInv, [Next]_vars PROVE LinkInv'
    OBVIOUS
  <2>1. TypeOK' /\ AgeBounds' /\ AgeOrder'
    BY TypeStep, AgeBoundsStep, AgeOrderStep DEF LinkInv
  <2>2. Patient => TokenOwner' /\ CallOrder'
    BY TokenOwnerStep, CallOrderStep DEF LinkInv
  <2> QED BY <2>1, <2>2 DEF LinkInv
<1> QED BY <1>1, <1>2, PTL DEF Spec

\* If callers give up only on what the RP never got, success means that the
\* command ran after the call and that the results in shared memory are its own.
THEOREM AckSound == ASSUME Patient PROVE Spec => []AckMeansExecuted
<1>1. LinkInv => AckMeansExecuted
  BY DEF LinkInv, TokenOwner, CallOrder, AckMeansExecuted, Sent
<1> QED BY <1>1, LinkInvariant, PTL

\* If callers give up only on what the RP never got, no run of an older command
\* follows the run of the current one.
THEOREM NoStaleRun == ASSUME Patient PROVE Spec => []NothingStaleBehind
<1>1. LinkInv => NothingStaleBehind
  <2> SUFFICES ASSUME LinkInv, served, NEW f \in Queued PROVE f.cmd = cmd
    BY DEF NothingStaleBehind
  <2>1. ring \in Seq(Frames)
    BY DEF LinkInv, TypeOK
  <2>2. CASE phase # "poll" /\ f = pending
    BY <2>2 DEF LinkInv, CallOrder
  <2>3. CASE \E i \in 1 .. Len(ring) : f = ring[i]
    BY <2>3 DEF LinkInv, CallOrder
  <2> QED BY <2>1, <2>2, <2>3 DEF Queued
<1> QED BY <1>1, LinkInvariant, PTL

\* If callers give up only on what the RP never got, the link implements
\* CommandService: retransmissions, lost frames, slow answers and duplicate runs
\* do not show.
THEOREM LinkImplementsService ==
  ASSUME Patient PROVE Spec => ImplementsService
<1>1. Init => Service!Init
  BY DEF Init, CallState, Service!Init
<1>2. LinkInv /\ [Next]_vars => [Service!Next]_(Service!vars)
  <2> SUFFICES ASSUME LinkInv, [Next]_vars,
                      ~ UNCHANGED <<cmd, CallState, served, result>>
               PROVE  Service!Next
    BY DEF Service!vars
  <2>t. served \in BOOLEAN
    BY DEF LinkInv, TypeOK
  <2>1. ASSUME NEW c \in Cmds, Issue(c) PROVE Service!Next
    <3>1. Service!Submit(c)
      BY <2>1 DEF Issue, rpVars, CallState, Service!Submit
    <3> QED BY <3>1 DEF Service!Next
  <2>2. CASE ReadSeed \/ SendFrame \/ LoseFrame
    BY <2>2 DEF ReadSeed, SendFrame, LoseFrame, rpVars, CallState
  <2>3. CASE TokenFound
    <3>1. served /\ result = cmd
      BY <2>3 DEF TokenFound, LinkInv, TokenOwner, CallOrder, Sent
    <3>2. Service!Answer
      BY <2>3, <3>1 DEF TokenFound, rpVars, CallState, Service!Answer
    <3> QED BY <3>2 DEF Service!Next
  <2>4. CASE CopyResult
    <3>1. result = cmd
      BY <2>4 DEF CopyResult, LinkInv, TokenOwner, CallOrder, Sent
    <3>2. Service!Return
      BY <2>4, <3>1 DEF CopyResult, rpVars, CallState, Service!Return
    <3> QED BY <3>2 DEF Service!Next
  <2>5. CASE Retry \/ Reissue
    BY <2>5 DEF Retry, Reissue, TimedOut, rpVars, CallState
  <2>6. CASE GiveUp
    <3>1. Service!Fail
      BY <2>6 DEF GiveUp, TimedOut, rpVars, CallState, Service!Fail
    <3> QED BY <3>1 DEF Service!Next
  <2>7. CASE Poll
    BY <2>7 DEF Poll, atariVars, CallState
  <2>8. CASE Execute
    <3>1. CASE pending.cmd = cmd
      <4>1. ~served /\ pc \in {"read", "send", "wait"}
        BY <2>8, <2>t, <3>1
        DEF Execute, atariVars, CallState, LinkInv, CallOrder, TokenOwner, TypeOK, Sent
      <4>2. Service!Perform
        BY <2>8, <3>1, <4>1 DEF Execute, atariVars, CallState, Service!Perform
      <4> QED BY <4>2 DEF Service!Next
    <3>2. CASE pending.cmd # cmd
      BY <2>8, <2>t, <3>2 DEF Execute, atariVars, CallState, LinkInv, CallOrder
    <3> QED BY <3>1, <3>2
  <2>9. CASE Reply
    BY <2>9 DEF Reply, atariVars, CallState
  <2>10. CASE UNCHANGED vars
    BY <2>10 DEF vars, atariVars, rpVars, CallState
  <2> QED
    BY <2>1, <2>2, <2>3, <2>4, <2>5, <2>6, <2>7, <2>8, <2>9, <2>10 DEF Next, Atari, Rp
<1> QED
  BY <1>1, <1>2, LinkInvariant, PTL DEF Spec, ImplementsService, Service!Spec
=============================================================================
