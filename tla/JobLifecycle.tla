---------------------------- MODULE JobLifecycle ----------------------------
(***************************************************************************)
(* What the durable finalization queue promises about one meeting's jobs:  *)
(* at most one is unfinished, each is worked on a bounded number of times, *)
(* and every job reaches one terminal status and stays there.              *)
(***************************************************************************)
EXTENDS Naturals

CONSTANTS Jobs, MaxAttempts

VARIABLES status, attempt

lifecycle == <<status, attempt>>

Unfinished == {"queued", "processing", "retry_wait"}
Outcomes == {"completed", "failed", "cancelled"}

Init == /\ status = [j \in Jobs |-> "none"]
        /\ attempt = [j \in Jobs |-> 0]

(* A job is only created when the meeting has no unfinished one. *)
Submit(j) ==
  /\ status[j] = "none"
  /\ \A i \in Jobs : status[i] \notin Unfinished
  /\ status' = [status EXCEPT ![j] = "queued"]
  /\ UNCHANGED attempt

(* Every piece of work on a job, a reclaim included, costs an attempt. *)
Work(j) ==
  /\ status[j] \in Unfinished
  /\ attempt[j] < MaxAttempts
  /\ status' = [status EXCEPT ![j] = "processing"]
  /\ attempt' = [attempt EXCEPT ![j] = @ + 1]

(* A job is put back only while it has an attempt left. *)
GiveBack(j) ==
  /\ status[j] = "processing"
  /\ attempt[j] < MaxAttempts
  /\ status' = [status EXCEPT ![j] = "retry_wait"]
  /\ UNCHANGED attempt

(* Only a job in work completes or fails; any unfinished one is cancelled. *)
End(j, outcome) ==
  /\ status[j] \in Unfinished
  /\ outcome # "cancelled" => status[j] = "processing"
  /\ status' = [status EXCEPT ![j] = outcome]
  /\ UNCHANGED attempt

(* Deleting the meeting removes its rows. *)
DeleteAll ==
  /\ status' = [j \in Jobs |-> IF status[j] = "none" THEN "none" ELSE "deleted"]
  /\ UNCHANGED attempt

Next ==
  \/ \E j \in Jobs : \/ Submit(j)
                     \/ Work(j)
                     \/ GiveBack(j)
                     \/ \E outcome \in Outcomes : End(j, outcome)
  \/ DeleteAll

Spec ==
  /\ Init
  /\ [][Next]_lifecycle
  /\ <>[](\A j \in Jobs : status[j] \notin Unfinished)
=============================================================================
