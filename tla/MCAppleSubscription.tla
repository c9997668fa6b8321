------------------------ MODULE MCAppleSubscription ------------------------
(***************************************************************************)
(* Instances of AppleSubscription for TLC: its bounds are numbers, so the  *)
(* configurations give them directly.                                      *)
(***************************************************************************)
EXTENDS AppleSubscription
=============================================================================
