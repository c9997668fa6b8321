-------------------------- MODULE DurableRegister --------------------------
(***************************************************************************)
(* What an index of recordings promises to the store that keeps it: one    *)
(* value survives every interruption.  A write takes effect once, at some  *)
(* moment between its beginning and its end, or never if it is             *)
(* interrupted; a load returns the value.  Values are numbered in the      *)
(* order in which their writes begin.                                      *)
(***************************************************************************)
EXTENDS Naturals

VARIABLES value,     \* what a load returns
          begun,     \* the last write that began
          finished,  \* the last write that reported success
          seen       \* what the last load returned or the last write left

register == <<value, begun, finished, seen>>

Init == value = 0 /\ begun = 0 /\ finished = 0 /\ seen = 0

(* A write is built on what was loaded or written before. *)
Begin ==
  /\ seen = value
  /\ begun' = begun + 1
  /\ UNCHANGED <<value, finished, seen>>

TakeEffect ==
  /\ value < begun
  /\ value' = begun
  /\ UNCHANGED <<begun, finished, seen>>

Finish ==
  /\ value = begun
  /\ finished' = begun
  /\ seen' = begun
  /\ UNCHANGED <<value, begun>>

Load ==
  /\ seen' = value
  /\ UNCHANGED <<value, begun, finished>>

Next == Begin \/ TakeEffect \/ Finish \/ Load

Spec == Init /\ [][Next]_register
=============================================================================
