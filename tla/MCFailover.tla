----------------------------- MODULE MCFailover -----------------------------
(***************************************************************************)
(* Instances of the pair of controllers: a is the primary, b the standby.  *)
(* The frames whose loss MaxLost bounds are checked byte by byte.          *)
(***************************************************************************)
EXTENDS Failover, HbFrame

CONSTANTS a, b

MCRole == [d \in Ctl |-> IF d = a THEN "primary" ELSE "standby"]

\* HbFrame's properties, computed for the parser in every state.
ASSUME FramesRecover == Resynchronizes
ASSUME FramesAreChecked == OnlyIntactBeat
=============================================================================
