-------------------------- MODULE MCProviderLedger --------------------------
(***************************************************************************)
(* Instances of ProviderLedger for TLC: two operations of a meeting that   *)
(* compete for the minutes, or two callers that race for its stages.       *)
(***************************************************************************)
EXTENDS ProviderLedger, TLC

CONSTANTS m1, op1, op2, c1, c2

OneMeeting == {m1}
TwoOps == {op1, op2}
OneOp == {op1}
MeetingOfBoth == (op1 :> m1) @@ (op2 :> m1)
MeetingOfOne == op1 :> m1
CostOfOne == op1 :> 1
CostOfEach == (op1 :> 1) @@ (op2 :> 1)
TwoCallers == {c1, c2}
OneCaller == {c1}
AsrOnly == {"asr"}
ChunkAndAsr == {"realtime:1", "asr"}
Apple == {"apple"}
Manual == {"manual"}
Both == {"apple", "manual"}
NoChanges == {}
OpSymmetry == Permutations(TwoOps)
CallerSymmetry == Permutations(TwoCallers)
=============================================================================
