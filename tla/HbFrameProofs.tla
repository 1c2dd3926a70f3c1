--------------------------- MODULE HbFrameProofs ---------------------------
(***************************************************************************)
(* The frame's properties, without the enumeration.  A step of the         *)
(* checksum can be undone, so that the checksum of one byte names it; the  *)
(* checksum AA, the only one that makes the parser take the end of a frame *)
(* for the start of the next, is that of 141 and not of 142 or 140.        *)
(***************************************************************************)
EXTENDS HbFrame, TLAPS

LEMMA ShiftByte == \A c \in Byte : Shift(c) \in Byte
BY DEF Shift, Byte

\* A step of the checksum loses nothing: the lowest bit tells which half c was in.
LEMMA ShiftInjective == ASSUME NEW c \in Byte, NEW d \in Byte, Shift(c) = Shift(d) PROVE c = d
<1>1. ASSUME NEW e \in Byte, e < 128 PROVE Shift(e) = 2 * e
  BY <1>1 DEF Shift, Byte
<1>2. ASSUME NEW e \in Byte, e >= 128
      PROVE  \E k \in 0 .. 31 : \E r \in {0, 2, 4, 6} : 2 * (e - 128) = 8 * k + r /\ Shift(e) = 8 * k + (7 - r)
  <2>1. (2 * e) % 256 = 2 * (e - 128)
    BY <1>2 DEF Byte
  <2> DEFINE x == 2 * (e - 128)
  <2>2. x \in 0 .. 254 /\ x = 8 * (x \div 8) + (x % 8) /\ x % 8 \in 0 .. 7 /\ x \div 8 \in 0 .. 31
    BY <1>2 DEF Byte
  <2>3. x % 8 \in {0, 2, 4, 6}
    BY <1>2, <2>2 DEF Byte
  <2>4. Shift(e) = 8 * (x \div 8) + (7 - (x % 8))
    BY <1>2, <2>1 DEF Shift
  <2> QED
    BY <2>2, <2>3, <2>4
<1>3. CASE c < 128 /\ d < 128
  BY <1>1, <1>3 DEF Byte
<1>4. CASE c >= 128 /\ d >= 128
  BY <1>2, <1>4 DEF Byte
<1>5. CASE c < 128 /\ d >= 128
  BY <1>1, <1>2, <1>5 DEF Byte
<1>6. CASE c >= 128 /\ d < 128
  BY <1>1, <1>2, <1>6 DEF Byte
<1> QED
  BY <1>3, <1>4, <1>5, <1>6 DEF Byte

-----------------------------------------------------------------------------
LEMMA CrcInjective == ASSUME NEW s \in Byte, NEW t \in Byte, Crc8(s) = Crc8(t) PROVE s = t
<1> DEFINE a1 == Shift(s)  a2 == Shift(a1)  a3 == Shift(a2)  a4 == Shift(a3)
           a5 == Shift(a4)  a6 == Shift(a5)  a7 == Shift(a6)
           b1 == Shift(t)  b2 == Shift(b1)  b3 == Shift(b2)  b4 == Shift(b3)
           b5 == Shift(b4)  b6 == Shift(b5)  b7 == Shift(b6)
<1>1. Shift(a7) = Shift(b7)
  BY DEF Crc8
<1>2. a1 \in Byte /\ b1 \in Byte
  BY ShiftByte
<1> HIDE DEF a1, b1
<1>3. a2 \in Byte /\ b2 \in Byte
  BY <1>2, ShiftByte
<1> HIDE DEF a2, b2
<1>4. a3 \in Byte /\ b3 \in Byte
  BY <1>3, ShiftByte
<1> HIDE DEF a3, b3
<1>5. a4 \in Byte /\ b4 \in Byte
  BY <1>4, ShiftByte
<1> HIDE DEF a4, b4
<1>6. a5 \in Byte /\ b5 \in Byte
  BY <1>5, ShiftByte
<1> HIDE DEF a5, b5
<1>7. a6 \in Byte /\ b6 \in Byte
  BY <1>6, ShiftByte
<1> HIDE DEF a6, b6
<1>8. a7 \in Byte /\ b7 \in Byte
  BY <1>7, ShiftByte
<1> HIDE DEF a7, b7
<1>9. a7 = b7
  BY <1>1, <1>8, ShiftInjective
<1>10. a6 = b6
  BY <1>7, <1>9, ShiftInjective DEF a7, b7
<1>11. a5 = b5
  BY <1>6, <1>10, ShiftInjective DEF a6, b6
<1>12. a4 = b4
  BY <1>5, <1>11, ShiftInjective DEF a5, b5
<1>13. a3 = b3
  BY <1>4, <1>12, ShiftInjective DEF a4, b4
<1>14. a2 = b2
  BY <1>3, <1>13, ShiftInjective DEF a3, b3
<1>15. a1 = b1
  BY <1>2, <1>14, ShiftInjective DEF a2, b2
<1> QED
  BY <1>15, ShiftInjective DEF a1, b1

\* The two checksums that meet the marks of the next frame.
LEMMA CrcOfMark == Crc8(170) = 95
<1>1. /\ Shift(170) = 83 /\ Shift(83) = 166 /\ Shift(166) = 75 /\ Shift(75) = 150
      /\ Shift(150) = 43 /\ Shift(43) = 86 /\ Shift(86) = 172 /\ Shift(172) = 95
  BY DEF Shift
<1> QED
  BY <1>1 DEF Crc8

LEMMA CrcIsMark == ASSUME NEW s \in Byte, Crc8(s) = 170 PROVE s = 141
<1>1. /\ Shift(141) = 29 /\ Shift(29) = 58 /\ Shift(58) = 116 /\ Shift(116) = 232
      /\ Shift(232) = 215 /\ Shift(215) = 169 /\ Shift(169) = 85 /\ Shift(85) = 170
  BY DEF Shift
<1>2. Crc8(141) = 170
  BY <1>1 DEF Crc8
<1> QED
  BY <1>2, CrcInjective DEF Byte

LEMMA CrcByte == \A s \in Byte : Crc8(s) \in Byte
<1> SUFFICES ASSUME NEW s \in Byte PROVE Crc8(s) \in Byte
  OBVIOUS
<1>1. Shift(s) \in Byte
  BY ShiftByte
<1>2. Shift(Shift(s)) \in Byte
  BY <1>1, ShiftByte
<1>3. Shift(Shift(Shift(s))) \in Byte
  BY <1>2, ShiftByte
<1>4. Shift(Shift(Shift(Shift(s)))) \in Byte
  BY <1>3, ShiftByte
<1>5. Shift(Shift(Shift(Shift(Shift(s))))) \in Byte
  BY <1>4, ShiftByte
<1>6. Shift(Shift(Shift(Shift(Shift(Shift(s)))))) \in Byte
  BY <1>5, ShiftByte
<1>7. Shift(Shift(Shift(Shift(Shift(Shift(Shift(s))))))) \in Byte
  BY <1>6, ShiftByte
<1> QED
  BY <1>7, ShiftByte DEF Crc8

-----------------------------------------------------------------------------
LEMMA AfterParser == \A p \in Parser, b \in Byte : After(p, b) \in Parser
BY DEF After, Parser

\* A parser that waits for a frame receives it and waits for the next.
LEMMA InStep ==
  ASSUME NEW p \in Parser, NEW s \in Byte, p.state = 0
  PROVE  Received(p, s) /\ AfterFrame(p, s) \in Parser /\ AfterFrame(p, s).state = 0
<1>1. Awaits(p, s) = [state |-> 3, seq |-> s]
  BY DEF Awaits, After, Parser, Byte
<1> QED
  BY <1>1 DEF Received, Beats, AfterFrame, After, Parser

\* Wherever it was before, a parser waits for a frame after one, unless the checksum
\* of that one looked like a mark.
LEMMA NearlyInStep ==
  ASSUME NEW p \in Parser, NEW s \in Byte
  PROVE  /\ AfterFrame(p, s) \in Parser /\ AfterFrame(p, s).state \in {0, 1}
         /\ AfterFrame(p, s).state = 1 => Crc8(s) = 170
<1> DEFINE p1 == After(p, 170)  p2 == After(p1, 85)  p3 == Awaits(p, s)
<1>1. AfterFrame(p, s) \in Parser
  <2>1. p1 \in Parser
    BY AfterParser DEF Byte
  <2>2. p2 \in Parser
    BY <2>1, AfterParser DEF Byte
  <2>3. p3 \in Parser
    BY <2>2, AfterParser DEF Awaits
  <2> QED
    BY <2>3, AfterParser, CrcByte DEF AfterFrame
<1>2. CASE p.state = 0
  BY <1>1, <1>2, InStep
<1>3. CASE p.state # 0
  <2>1. p2.state \in {0, 3} /\ p2 \in Parser
    BY <1>3 DEF After, Parser, Byte
  <2>2. p3.state \in {0, 1}
    BY <2>1 DEF Awaits, After, Parser, Byte
  <2>3. AfterFrame(p, s).state = 1 => Crc8(s) = 170
    BY <2>2 DEF AfterFrame, After
  <2>4. AfterFrame(p, s).state = 2 => p3.state = 1 /\ Crc8(s) = 85
    BY <2>2 DEF AfterFrame, After
  <2>5. p3.state = 1 => s = 170
    BY <2>1 DEF Awaits, After, Parser, Byte
  <2>6. AfterFrame(p, s).state # 2
    BY <2>4, <2>5, CrcOfMark
  <2>7. AfterFrame(p, s).state # 3
    BY <2>2 DEF AfterFrame, After
  <2> QED
    BY <1>1, <2>3, <2>6, <2>7 DEF Parser
<1> QED
  BY <1>2, <1>3

\* From every state of the parser one of the next three intact frames is received, and
\* after it every one (Heartbeat::parseByte): a disturbance costs at most three frames,
\* its own and two more.  That is one more than the timeout of 2000 ms bears: see
\* CalmIsNotSilent, where MaxLost is the number of frames lost.
THEOREM FramesRecover == Resynchronizes
<1> SUFFICES ASSUME NEW p \in Parser, NEW s \in Byte
             PROVE  LET q == AfterFrame(p, s)
                        r == AfterFrame(q, Succ(s))
                    IN  /\ Received(p, s) \/ Received(q, Succ(s)) \/ Received(r, Succ(Succ(s)))
                        /\ Received(p, s) => Received(q, Succ(s))
  BY DEF Resynchronizes
<1> DEFINE q == AfterFrame(p, s)
           r == AfterFrame(q, Succ(s))
<1>1. Succ(s) \in Byte /\ Succ(Succ(s)) \in Byte /\ Succ(s) # s
  BY DEF Succ, Byte
<1>2. q \in Parser /\ q.state \in {0, 1} /\ (q.state = 1 => Crc8(s) = 170)
  BY NearlyInStep
<1>3. r \in Parser /\ r.state \in {0, 1} /\ (r.state = 1 => Crc8(Succ(s)) = 170)
  BY <1>1, <1>2, NearlyInStep
<1>4. q.state = 0 => Received(q, Succ(s))
  BY <1>1, <1>2, InStep
<1>5. r.state = 0 => Received(r, Succ(Succ(s)))
  BY <1>1, <1>3, InStep
<1>6. q.state = 0 \/ r.state = 0
  BY <1>1, <1>2, <1>3, CrcIsMark
<1>7. Received(p, s) => q.state = 0
  BY DEF Received, Beats, AfterFrame, After
<1> QED
  BY <1>4, <1>5, <1>6, <1>7

\* A frame with a disturbed sequence number or checksum renews nothing
\* (Heartbeat::crc8).
THEOREM FramesAreChecked == OnlyIntactBeat
<1> SUFFICES ASSUME NEW s \in Byte, NEW t \in Byte, Crc8(s) = Crc8(t) PROVE s = t
  BY DEF OnlyIntactBeat, Beats
<1> QED
  BY CrcInjective
=============================================================================
