------------------------------ MODULE HbFrame ------------------------------
(***************************************************************************)
(* The heartbeat frame of Heartbeat.cpp, byte by byte: AA 55 SEQ CRC.      *)
(* Failover takes a frame as received or lost; here is how many frames a   *)
(* disturbance of the line may cost.                                       *)
(***************************************************************************)
EXTENDS Naturals

Byte == 0 .. 255

\* crc << 1 in eight bits, with ^ 0x07 if a bit is shifted out.
Shift(c) ==
  LET d == (2 * c) % 256
  IN  IF c >= 128 THEN 8 * (d \div 8) + (7 - (d % 8)) ELSE d

\* crc8 of one byte.
Crc8(b) == Shift(Shift(Shift(Shift(Shift(Shift(Shift(Shift(b))))))))

\* seq++
Succ(s) == (s + 1) % 256

\* _state and _seq
Parser == [state : 0 .. 3, seq : Byte]

\* parseByte: the parser after a byte, ...
After(p, b) ==
  [state |-> CASE p.state = 0 -> IF b = 170 THEN 1 ELSE 0
               [] p.state = 1 -> IF b = 85 THEN 2 ELSE 0
               [] p.state = 2 -> 3
               [] p.state = 3 -> 0,
   seq |-> IF p.state = 2 THEN b ELSE p.seq]

\* ... and whether the byte completes a frame, which renews _lastRxMs.
Beats(p, b) == p.state = 3 /\ b = Crc8(p.seq)

\* send: the parser before the last byte of frame s, and after it.
Awaits(p, s) == After(After(After(p, 170), 85), s)
AfterFrame(p, s) == After(Awaits(p, s), Crc8(s))
Received(p, s) == Beats(Awaits(p, s), Crc8(s))

-----------------------------------------------------------------------------
\* Wherever noise, a reset or lost bytes have left the parser, one of the next three
\* intact frames is received, and from then on every frame is.
Resynchronizes ==
  \A p \in Parser, s \in Byte :
    LET q == AfterFrame(p, s)
        r == AfterFrame(q, Succ(s))
    IN  /\ Received(p, s) \/ Received(q, Succ(s)) \/ Received(r, Succ(Succ(s)))
        /\ Received(p, s) => Received(q, Succ(s))

\* A frame whose sequence number or checksum was disturbed is no beat.
OnlyIntactBeat ==
  \A s, t \in Byte : Beats([state |-> 3, seq |-> t], Crc8(s)) => s = t
=============================================================================
