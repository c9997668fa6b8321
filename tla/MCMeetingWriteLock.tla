------------------------ MODULE MCMeetingWriteLock -------------------------
(***************************************************************************)
(* An instance of MeetingWriteLock for TLC: an app process with mutations  *)
(* of one meeting by two users and a part's transfer, and a worker process *)
(* that publishes the meeting's result.                                    *)
(***************************************************************************)
EXTENDS MeetingWriteLock, TLC

CONSTANTS app, worker, chunk1, chunk2, chunk3, job, u1, u2, m1, up1

TwoProcs == {app, worker}
FourCalls == {chunk1, chunk2, chunk3, job}
ProcOfFour == [c \in FourCalls |-> IF c = job THEN worker ELSE app]
KindOfFour == (chunk1 :> "mutation") @@ (chunk2 :> "mutation") @@
              (chunk3 :> "transfer") @@ (job :> "publication")
UserOfFour == [c \in FourCalls |-> IF c = chunk2 THEN u2 ELSE u1]
MeetingOfFour == [c \in FourCalls |-> m1]
UploadOfFour == [c \in FourCalls |-> up1]
=============================================================================
