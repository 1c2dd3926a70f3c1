--------------------------- MODULE OtaImplements ---------------------------
(***************************************************************************)
(* The updater seen as a TrialBoot: the image in the boot slot is the      *)
(* current one, a trial lasts from the switch of the boot target to the    *)
(* write that ends it, and the fallback is whatever the other slot holds.  *)
(***************************************************************************)
EXTENDS Ota

\* The trial has begun but is not yet armed, or is disarmed but not yet over.
OnTrial == nvsProb \/ pc \in {"mark", "revert2", "switch"}

Abs == INSTANCE TrialBoot WITH
  None <- Blank,
  current <- slot[bootSlot],
  fallback <- IF OnTrial THEN slot[Other(bootSlot)] ELSE Blank,
  accepted <- proven

\* The environment under which the code keeps the promise of TrialBoot: NVS
\* opens and the boot partition can be set, no update is requested during a
\* trial, and power is not lost between the two halves of a switch of images.
SafeEnv ==
  /\ MaxFlashFails = 0
  /\ ~RequestOnTrial
  /\ PowerLossAt \cap {"mark", "revert2", "switch"} = {}

\* Every step of the updater is a step of TrialBoot or leaves it unchanged: a
\* trial starts only off trial, ends by acceptance or by going back to the
\* very image it replaced, and acceptance is never taken back.
ImplementsTrial == Abs!TSafe

\* The same with the promise that every trial is decided.
DecidesTrials == Abs!TSpec
=============================================================================
