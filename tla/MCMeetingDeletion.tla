------------------------- MODULE MCMeetingDeletion -------------------------
(***************************************************************************)
(* Instances of MeetingDeletion for TLC.                                   *)
(***************************************************************************)
EXTENDS MeetingDeletion

CONSTANTS h1, w1, part1, commit1, input1

OneHandler == {h1}
OneWorker == {w1}
OnePart == {part1}
OneCommit == {commit1}
OneInput == {input1}
NoTransfer == {}
=============================================================================
