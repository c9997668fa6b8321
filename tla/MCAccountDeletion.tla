------------------------- MODULE MCAccountDeletion -------------------------
(***************************************************************************)
(* Instances of AccountDeletion for TLC.                                   *)
(***************************************************************************)
EXTENDS AccountDeletion

CONSTANTS r1, w1, m1, p1, e1

OneRequest == {r1}
OneWorker == {w1}
OneMeeting == {m1}
OnePart == {p1}
OneEdit == {e1}
AllToOne == [t \in Transfers |-> m1]
=============================================================================
