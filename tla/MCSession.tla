----------------------------- MODULE MCSession -----------------------------
(***************************************************************************)
(* Instances of the handshake for TLC: one row of each kind.               *)
(***************************************************************************)
EXTENDS Session

MCRows == {
  [rack |-> "rack", role |-> "Primary", enabled |-> TRUE],
  [rack |-> "rack", role |-> "Standby", enabled |-> FALSE],
  [rack |-> "rack", role |-> "other", enabled |-> TRUE] }

\* What begin() makes of a board without a link.
Unplugged == { [rack |-> "rack", role |-> "Primary", enabled |-> TRUE] }
=============================================================================
