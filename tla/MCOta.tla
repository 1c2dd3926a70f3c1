------------------------------- MODULE MCOta -------------------------------
(***************************************************************************)
(* Instances of the updater for TLC: one image per kind of fault.          *)
(***************************************************************************)
EXTENDS OtaImplements

CONSTANTS factory, good, mute, crashing, dead

MCFault == [i \in Image |->
  CASE i = mute -> "mute" [] i = crashing -> "panicsInLoop"
    [] i = dead -> "panicsInSetup" [] OTHER -> "none"]

AllPoints == Points
\* Everywhere but between the two halves of a switch of images.
SafePoints == Points \ {"mark", "revert2", "switch"}
=============================================================================
