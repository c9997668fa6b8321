-------------------------- MODULE MCRecordingIndex --------------------------
(***************************************************************************)
(* Instances of RecordingIndex for TLC.                                    *)
(***************************************************************************)
EXTENDS RecordingIndex
=============================================================================
