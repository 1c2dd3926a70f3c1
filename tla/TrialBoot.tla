------------------------------ MODULE TrialBoot ------------------------------
(***************************************************************************)
(* What the updater promises, without slots, NVS keys or resets: a board   *)
(* runs one image; installing another puts it on trial with the old one    *)
(* kept as a fallback; every trial is decided, by accepting the new image  *)
(* or by going back.  No image stays in charge without being accepted.     *)
(***************************************************************************)
CONSTANTS Image, Factory, None    \* None is not an image

VARIABLES current, fallback, accepted

tvars == <<current, fallback, accepted>>

OnTrial == fallback # None

TInit == current = Factory /\ fallback = None /\ accepted = {Factory}

Install(i) ==
  /\ ~OnTrial
  /\ current' = i /\ fallback' = current
  /\ UNCHANGED accepted

Accept ==
  /\ OnTrial
  /\ fallback' = None /\ accepted' = accepted \cup {current}
  /\ UNCHANGED current

Rollback ==
  /\ OnTrial
  /\ current' = fallback /\ fallback' = None
  /\ UNCHANGED accepted

Verdict == Accept \/ Rollback
TNext == Verdict \/ \E i \in Image : Install(i)

TSafe == TInit /\ [][TNext]_tvars
TSpec == TSafe /\ WF_tvars(Verdict)
=============================================================================
