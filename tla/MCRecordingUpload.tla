------------------------- MODULE MCRecordingUpload -------------------------
(***************************************************************************)
(* Instances of RecordingUpload for TLC: two recordings of one account     *)
(* that share one upload slot.                                             *)
(***************************************************************************)
EXTENDS RecordingUpload, TLC

CONSTANTS m1, m2, u1, u2, a1, a2, h1, h2

TwoMeetings == {m1, m2}
TwoUploads == {u1, u2}
MeetingOfEach == (u1 :> m1) @@ (u2 :> m2)
ContentOfEach == (u1 :> a1) @@ (u2 :> a2)
SizeOfEach == (u1 :> 1) @@ (u2 :> 2)
TwoPartsAndOne == (u1 :> {0, 1}) @@ (u2 :> {0})
TwoHandlers == {h1, h2}
=============================================================================
