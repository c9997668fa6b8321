---------------------- MODULE FinalizationQueueProofs ----------------------
(***************************************************************************)
(* What holds of the finalization queue for any number of POSTs, workers,  *)
(* jobs and attempts, through crashes, expired leases and late heartbeats. *)
(***************************************************************************)
EXTENDS FinalizationQueue, TLAPS

Row == [status : Active \cup Terminal \cup {"none", "deleted"}, attempt : 0..MaxAttempts,
        lockedBy : Workers \cup {None}, lease : BOOLEAN, op : Ops \cup {None}, code : Codes]
Post == [at : {"none", "checked", "inserted"}, op : Ops \cup {None},
         job : Jobs \cup {None}, processing : BOOLEAN]
Run == [at : Points, job : Jobs \cup {None}, started : Projections,
        attempt : 0..MaxAttempts, lost : BOOLEAN, code : Codes]
Beat == [at : {"none", "renewed", "cancel"}, job : Jobs \cup {None}, mine : BOOLEAN]

JobTyped == job \in [Jobs -> Row]
ProjTyped == proj \in Projections
PostTyped == post \in [Clients -> Post]
RunTyped == run \in [Workers -> Run] /\ beat \in [Workers -> Beat]
RestTyped ==
  /\ result \in Ops \cup {None} /\ billed \subseteq Ops /\ deleted \in BOOLEAN
  /\ fence \in Workers \cup Clients \cup {None} /\ writes \in [Ops -> Nat]

Typed == JobTyped /\ ProjTyped /\ PostTyped /\ RunTyped /\ RestTyped

(* A row is locked while it is processed, and waits only while it has an   *)
(* attempt left; rows lose their operation in the purge of the meeting.    *)
RowFits(j) ==
  /\ job[j].lockedBy # None => job[j].status = "processing"
  /\ job[j].status \in {"queued", "retry_wait"} => job[j].attempt < MaxAttempts
  /\ job[j].status \notin {"none", "deleted"} => job[j].op \in Ops
  /\ job[j].status = "none" => job[j].attempt = 0
  /\ job[j].status = "deleted" => deleted

RowsFit == \A j \in Jobs : RowFits(j)

(* A POST has its operation, and the fence while it projects its job. *)
PostFits(c) ==
  /\ post[c].at # "none" => post[c].op \in Ops
  /\ post[c].at = "inserted" => post[c].job \in Jobs /\ fence = c

PostsFit == \A c \in Clients : PostFits(c)

(* A worker is on a job that exists; it publishes inside the fence, and    *)
(* its count of the attempts is right while the row is its own.            *)
RunFits(w) ==
  LET j == run[w].job IN
  /\ run[w].at \notin {"idle", "report"} => j \in Jobs /\ job[j].status # "none"
  /\ run[w].at \in {"running", "saved", "billed"} => run[w].started.op \in Ops
  /\ run[w].at \in {"saved", "billed"} => fence = w
  /\ j \in Jobs /\ job[j].lockedBy = w => job[j].attempt = run[w].attempt

RunsFit == \A w \in Workers : RunFits(w)

(* A heartbeat is about a job; nobody is in the fence of a deleted meeting. *)
BeatsFit == \A w \in Workers : beat[w].at # "none" => beat[w].job \in Jobs
FenceFits == fence # None => ~deleted

IInv == Typed /\ RowsFit /\ PostsFit /\ RunsFit /\ BeatsFit /\ FenceFits /\ OneActiveJob

-----------------------------------------------------------------------------
(* The rows' constants, and what an operation is. *)
LEMMA ConstantsFit ==
  /\ NoJob \in Row /\ Idle \in Run /\ NoBeat \in Beat /\ NoPost \in Post
  /\ NoProjection \in Projections
  /\ None \notin Ops /\ None \notin Workers /\ None \notin Clients /\ None \notin Jobs
  /\ MaxAttempts \in Nat \ {0} /\ Workers \cap Clients = {}
PROOF
  BY QueueAssumption DEF NoJob, Row, Idle, Run, NoBeat, Beat, NoPost, Post, NoProjection,
     Projections, Ops, Active, Terminal, Codes, Points

LEMMA InitFits == Init => IInv
PROOF
  <1> SUFFICES ASSUME Init PROVE IInv
    OBVIOUS
  <1> USE ConstantsFit
  <1>1. Typed
    BY DEF Init, Typed, JobTyped, ProjTyped, PostTyped, RunTyped, RestTyped
  <1>2. RowsFit /\ PostsFit /\ RunsFit /\ BeatsFit /\ FenceFits /\ OneActiveJob
    BY DEF Init, RowsFit, RowFits, PostsFit, PostFits, RunsFit, RunFits, BeatsFit, FenceFits,
       OneActiveJob, NoJob, NoPost, NoBeat, Idle, Active
  <1> QED  BY <1>1, <1>2 DEF IInv

(* The projections that are written. *)
LEMMA ProjectionsTyped ==
  ASSUME Typed
  PROVE  /\ \A j \in Jobs : QueuedProjection(j) \in Projections
         /\ \A op \in Ops : StartedProjection(op) \in Projections
                            /\ StartedProjection(op).op = op
         /\ \A p \in Projections : CompletedProjection(p) \in Projections
                                   /\ FailedProjection(p) \in Projections
                                   /\ WrittenUnlessDeleted(p) \in Projections
         /\ result \in Ops => ExistingCompleted \in Projections
PROOF
  <1> USE DEF Typed, ProjTyped, Projections
  <1>1. \A j \in Jobs : QueuedProjection(j) \in Projections
    BY DEF QueuedProjection, JobTyped, Row
  <1>2. \A op \in Ops : StartedProjection(op) \in Projections
                        /\ StartedProjection(op).op = op
    BY DEF StartedProjection
  <1>3. \A p \in Projections : CompletedProjection(p) \in Projections
                               /\ FailedProjection(p) \in Projections
                               /\ WrittenUnlessDeleted(p) \in Projections
    BY DEF CompletedProjection, FailedProjection, WrittenUnlessDeleted
  <1>4. result \in Ops => ExistingCompleted \in Projections
    BY <1>2, <1>3 DEF ExistingCompleted
  <1> QED  BY <1>1, <1>2, <1>3, <1>4

-----------------------------------------------------------------------------
(* The steps of a worker.                                                  *)

(* A step of a worker leaves the others alone, ... *)
LEMMA WorkersApart ==
  ASSUME Typed, NEW w \in Workers,
         \/ WorkerSteps(w) \/ HeartbeatRenews(w) \/ HeartbeatRefreshes(w)
         \/ HeartbeatCancels(w) \/ HeartbeatTimesOut(w) \/ WorkerCrashes(w)
  PROVE  /\ \A v \in Workers \ {w} : run'[v] = run[v] /\ beat'[v] = beat[v]
         /\ UNCHANGED <<deleted, post>>
PROOF
  <1> USE DEF Typed, RunTyped, workerVars, meetingVars
  <1>1. ASSUME WorkerSteps(w)
        PROVE  /\ \A v \in Workers \ {w} : run'[v] = run[v] /\ beat'[v] = beat[v]
               /\ UNCHANGED <<deleted, post>>
    BY <1>1 DEF WorkerSteps, FailExhaustedJobs, ClaimNextJob, Preflight, RunFails, SaveResult,
       PublishFails, RecordUsage, CompleteProjection, FailProjection, CompleteJob, SettleJob,
       RequeueProjection, ReportFailure, LockTimesOut, GoTo, Throw, Stop
  <1>2. ASSUME ~WorkerSteps(w)
        PROVE  /\ \A v \in Workers \ {w} : run'[v] = run[v] /\ beat'[v] = beat[v]
               /\ UNCHANGED <<deleted, post>>
    BY <1>2 DEF HeartbeatRenews, HeartbeatRefreshes, HeartbeatCancels, HeartbeatTimesOut,
       WorkerCrashes, LoseLease
  <1> QED  BY <1>1, <1>2

(* ... takes it to its next point, or to the claimed job, or it stops. *)
Kept(w) == /\ run'[w].job = run[w].job /\ run'[w].attempt = run[w].attempt
           /\ run'[w].started = run[w].started

LEMMA WorkerMoves ==
  ASSUME Typed, NEW w \in Workers
  PROVE  /\ \A place \in Points : GoTo(w, place) =>
              run'[w] \in Run /\ beat'[w] \in Beat /\ Kept(w) /\ run'[w].at = place
              /\ beat' = beat
         /\ \A place \in Points, code \in Codes : Throw(w, place, code) =>
              run'[w] \in Run /\ beat'[w] \in Beat /\ Kept(w) /\ run'[w].at = place
              /\ beat' = beat
         /\ Stop(w) => run'[w] = Idle /\ beat'[w] \in Beat /\ beat'[w].at = beat[w].at
                       /\ beat'[w].job = beat[w].job
         /\ run' = LoseLease(w) => run'[w] \in Run /\ Kept(w) /\ run'[w].at = run[w].at
PROOF
  <1> USE DEF Typed, RunTyped, Run, Beat, Kept
  <1>1. \A place \in Points : GoTo(w, place) =>
              run'[w] \in Run /\ beat'[w] \in Beat /\ Kept(w) /\ run'[w].at = place
              /\ beat' = beat
    <2> SUFFICES ASSUME NEW place \in Points, GoTo(w, place)
                 PROVE  /\ run'[w] \in Run /\ beat'[w] \in Beat /\ Kept(w)
                        /\ run'[w].at = place /\ beat' = beat
      OBVIOUS
    <2>1. run'[w] = [run[w] EXCEPT !.at = place] /\ beat' = beat
      BY DEF GoTo
    <2> QED  BY <2>1
  <1>2. \A place \in Points, code \in Codes : Throw(w, place, code) =>
              run'[w] \in Run /\ beat'[w] \in Beat /\ Kept(w) /\ run'[w].at = place
              /\ beat' = beat
    <2> SUFFICES ASSUME NEW place \in Points, NEW code \in Codes, Throw(w, place, code)
                 PROVE  /\ run'[w] \in Run /\ beat'[w] \in Beat /\ Kept(w)
                        /\ run'[w].at = place /\ beat' = beat
      OBVIOUS
    <2>1. run'[w] = [run[w] EXCEPT !.at = place, !.code = code] /\ beat' = beat
      BY DEF Throw
    <2> QED  BY ZenonT(40), <2>1
  <1>3. Stop(w) => run'[w] = Idle /\ beat'[w] \in Beat /\ beat'[w].at = beat[w].at
                   /\ beat'[w].job = beat[w].job
    <2> SUFFICES ASSUME Stop(w)
                 PROVE  /\ run'[w] = Idle /\ beat'[w] \in Beat
                        /\ beat'[w].at = beat[w].at /\ beat'[w].job = beat[w].job
      OBVIOUS
    <2>1. run'[w] = Idle /\ beat'[w] = [beat[w] EXCEPT !.mine = FALSE]
      BY DEF Stop
    <2>2. beat[w] \in Beat
      OBVIOUS
    <2>3. \A b \in Beat : /\ [b EXCEPT !.mine = FALSE] \in Beat
                          /\ [b EXCEPT !.mine = FALSE].at = b.at
                          /\ [b EXCEPT !.mine = FALSE].job = b.job
      OBVIOUS
    <2> QED  BY <2>1, <2>2, <2>3
  <1>4. run' = LoseLease(w) => run'[w] \in Run /\ Kept(w) /\ run'[w].at = run[w].at
    <2> SUFFICES ASSUME run' = LoseLease(w)
                 PROVE  run'[w] \in Run /\ Kept(w) /\ run'[w].at = run[w].at
      OBVIOUS
    <2>1. PICK lost \in BOOLEAN : run' = [run EXCEPT ![w].lost = lost]
      BY DEF LoseLease
    <2> QED  BY SMTT(30), <2>1
  <1> QED  BY <1>1, <1>2, <1>3, <1>4

(* The job rows that a step writes. *)
LEMMA RowsWritten ==
  ASSUME Typed, NEW j \in Jobs, NEW status \in Active \cup Terminal, NEW code \in Codes
  PROVE  LET rows == Unlocked(j, status, code) IN
         /\ rows \in [Jobs -> Row]
         /\ \A i \in Jobs \ {j} : rows[i] = job[i]
         /\ rows[j].status = status /\ rows[j].lockedBy = None /\ rows[j].op = job[j].op
         /\ rows[j].attempt = job[j].attempt
PROOF
  <1> DEFINE row == [job[j] EXCEPT !.status = status, !.code = code, !.lockedBy = None,
                                   !.lease = FALSE]
  <1>1. job[j] \in Row
    BY DEF Typed, JobTyped
  <1>2. /\ row \in Row /\ row.status = status /\ row.lockedBy = None
        /\ row.op = job[j].op /\ row.attempt = job[j].attempt
    BY <1>1 DEF Row
  <1>3. Unlocked(j, status, code)[j] = row
    BY DEF Typed, JobTyped, Unlocked
  <1>4. \A i \in Jobs \ {j} : Unlocked(j, status, code)[i] = job[i]
    BY DEF Typed, JobTyped, Unlocked
  <1>5. Unlocked(j, status, code) = [i \in Jobs |-> Unlocked(j, status, code)[i]]
    BY DEF Typed, JobTyped, Unlocked
  <1> HIDE DEF row
  <1> QED  BY <1>2, <1>3, <1>4, <1>5 DEF Typed, JobTyped

-----------------------------------------------------------------------------
(* The job rows.                                                           *)

(* What a step makes of a row: it stays in the table, and is locked by the *)
(* worker that had it, or by one that claims it.                           *)
RowMoves(j) ==
  /\ job[j].status # "none" => job'[j].status # "none"
  /\ \/ job'[j].lockedBy = None
     \/ job'[j].lockedBy = job[j].lockedBy /\ job'[j].attempt = job[j].attempt
     \/ \E w \in Workers : ClaimNextJob(w, j)

RowsGood == JobTyped' /\ RowsFit' /\ OneActiveJob' /\ \A j \in Jobs : RowMoves(j)

LEMMA RowsKept ==
  ASSUME IInv, UNCHANGED job, deleted => deleted'
  PROVE  RowsGood
PROOF
  BY DEF IInv, Typed, JobTyped, RowsFit, RowFits, OneActiveJob, RowsGood, RowMoves

(* One row changes; a waiting or processed one was so, or is the only one. *)
LEMMA RowChanges ==
  ASSUME IInv, NEW j \in Jobs, job' \in [Jobs -> Row],
         \A i \in Jobs \ {j} : job'[i] = job[i], UNCHANGED deleted,
         RowFits(j)', RowMoves(j),
         job'[j].status \in Active => job[j].status \in Active \/ ActiveJobs = {}
  PROVE  RowsGood
PROOF
  <1> USE DEF IInv
  <1>1. JobTyped' /\ RowsFit'
    BY DEF JobTyped, RowsFit, RowFits
  <1>2. OneActiveJob'
    BY DEF OneActiveJob, ActiveJobs
  <1>3. \A i \in Jobs : RowMoves(i)
    BY DEF RowMoves
  <1> QED  BY <1>1, <1>2, <1>3 DEF RowsGood

(* The worker or heartbeat that unlocks a row was processing it. *)
LEMMA Unlocks ==
  ASSUME IInv, NEW j \in Jobs, job[j].status \in Active,
         NEW status \in (Terminal \cup {"retry_wait"}), NEW code \in Codes,
         status = "retry_wait" => job[j].attempt < MaxAttempts,
         job' = Unlocked(j, status, code), UNCHANGED deleted
  PROVE  RowsGood
PROOF
  <1> USE DEF IInv
  <1>1. /\ job' \in [Jobs -> Row] /\ \A i \in Jobs \ {j} : job'[i] = job[i]
        /\ job'[j].status = status /\ job'[j].lockedBy = None
        /\ job'[j].op = job[j].op /\ job'[j].attempt = job[j].attempt
    <2>1. Typed /\ status \in Active \cup Terminal
      BY DEF Active
    <2> QED  BY <2>1, RowsWritten
  <1>2. RowFits(j)' /\ RowMoves(j)
    BY <1>1 DEF RowsFit, RowFits, RowMoves, Active, Terminal
  <1> QED  BY <1>1, <1>2, RowChanges

(* Every row ends, or none does, at once. *)
LEMMA RowsEnd ==
  ASSUME IInv, deleted => deleted',
         job' \in [Jobs -> Row],
         \A i \in Jobs : \/ job'[i] = job[i]
                         \/ /\ job'[i].status \in Terminal \cup {"deleted"}
                            /\ job'[i].lockedBy = None
                            /\ job'[i].status = "deleted" => deleted
                            /\ job'[i].status # "deleted" => job'[i].op \in Ops
  PROVE  RowsGood
PROOF
  <1> USE DEF IInv
  <1>1. JobTyped' /\ RowsFit'
    BY DEF JobTyped, RowsFit, RowFits, Terminal
  <1>2. OneActiveJob'
    BY DEF OneActiveJob, Active, Terminal
  <1>3. \A i \in Jobs : RowMoves(i)
    BY DEF RowMoves, Terminal
  <1> QED  BY <1>1, <1>2, <1>3 DEF RowsGood

LEMMA RowsStep ==
  ASSUME IInv, Next
  PROVE  RowsGood
PROOF
  <1> USE DEF meetingVars, workerVars
  <1>1. ASSUME NEW c \in Clients, NEW j \in Jobs, PostEnqueues(c, j) PROVE RowsGood
    <2>1. CASE UNCHANGED job
      BY <1>1, <2>1, RowsKept DEF PostEnqueues
    <2>2. CASE ActiveJobs = {} /\ ~UNCHANGED job
      <3> DEFINE row == [NoJob EXCEPT !.status = "queued", !.op = post[c].op]
      <3>1. post[c].op \in Ops
        BY <1>1 DEF IInv, PostsFit, PostFits, PostEnqueues
      <3>2. /\ row \in Row /\ row.status = "queued" /\ row.lockedBy = None
            /\ row.attempt = 0 /\ row.op \in Ops
        BY <3>1, ConstantsFit DEF Row, NoJob, Active
      <3>3. job' = [job EXCEPT ![j] = row] /\ UNCHANGED deleted
        BY <1>1, <2>2 DEF PostEnqueues
      <3> HIDE DEF row
      <3>4. job' \in [Jobs -> Row] /\ job'[j] = row /\ \A i \in Jobs \ {j} : job'[i] = job[i]
        BY <3>2, <3>3 DEF IInv, Typed, JobTyped
      <3>5. RowFits(j)' /\ RowMoves(j)
        BY <3>2, <3>4, ConstantsFit DEF RowFits, RowMoves
      <3> QED  BY <2>2, <3>3, <3>4, <3>5, RowChanges
    <2> QED  BY <1>1, <2>1, <2>2 DEF PostEnqueues
  <1>2. CASE CancelJobs
    <2>1. \A i \in Jobs : i \in ActiveJobs =>
            LET row == [job[i] EXCEPT !.status = "cancelled", !.lockedBy = None, !.lease = FALSE]
            IN  row \in Row /\ row.status = "cancelled" /\ row.lockedBy = None
                /\ row.op = job[i].op
      BY DEF IInv, Typed, JobTyped, Row, Terminal
    <2>2. \A i \in ActiveJobs : job[i].op \in Ops
      BY DEF IInv, RowsFit, RowFits, ActiveJobs, Active
    <2>3. \A i \in Jobs : \/ job'[i] = job[i]
                         \/ /\ job'[i].status \in Terminal \cup {"deleted"}
                            /\ job'[i].lockedBy = None
                            /\ job'[i].status = "deleted" => deleted
                            /\ job'[i].status # "deleted" => job'[i].op \in Ops
      BY <1>2, <2>1, <2>2 DEF CancelJobs, Terminal
    <2>4. job' \in [Jobs -> Row]
      BY <1>2, <2>1 DEF CancelJobs, IInv, Typed, JobTyped
    <2> QED  BY <1>2, <2>3, <2>4, RowsEnd DEF CancelJobs
  <1>3. CASE PurgeMeeting
    <2>1. \A i \in Jobs :
            LET row == [NoJob EXCEPT !.status = "deleted", !.attempt = job[i].attempt]
            IN  row \in Row /\ row.status = "deleted" /\ row.lockedBy = None
      BY ConstantsFit DEF IInv, Typed, JobTyped, Row, NoJob
    <2>2. job' \in [Jobs -> Row] /\ deleted
      BY <1>3, <2>1 DEF PurgeMeeting, IInv, Typed, JobTyped
    <2>3. \A i \in Jobs : job'[i] = job[i] \/ (job'[i].status = "deleted" /\ job'[i].lockedBy = None)
      BY <1>3, <2>1 DEF PurgeMeeting
    <2> QED  BY <1>3, <2>2, <2>3, RowsEnd DEF PurgeMeeting
  <1>4. ASSUME NEW w \in Workers, FailExhaustedJobs(w) PROVE RowsGood
    <2>1. \A i \in Exhausted :
            LET row == [job[i] EXCEPT !.status = "failed", !.code = "exhausted",
                                      !.lockedBy = None, !.lease = FALSE]
            IN  row \in Row /\ row.status = "failed" /\ row.lockedBy = None
                /\ row.op = job[i].op
      BY ZenonT(40) DEF IInv, Typed, JobTyped, Row, Terminal, Codes, Exhausted, ActiveJobs
    <2>2. \A i \in Exhausted : job[i].op \in Ops
      BY DEF IInv, RowsFit, RowFits, Exhausted, ActiveJobs, Active
    <2>3. \A i \in Jobs : \/ job'[i] = job[i]
                         \/ /\ job'[i].status \in Terminal \cup {"deleted"}
                            /\ job'[i].lockedBy = None
                            /\ job'[i].status = "deleted" => deleted
                            /\ job'[i].status # "deleted" => job'[i].op \in Ops
      BY <1>4, <2>1, <2>2 DEF FailExhaustedJobs, Terminal
    <2>4. job' \in [Jobs -> Row]
      BY <1>4, <2>1 DEF FailExhaustedJobs, IInv, Typed, JobTyped
    <2> QED  BY <1>4, <2>3, <2>4, RowsEnd DEF FailExhaustedJobs
  <1>5. ASSUME NEW w \in Workers, NEW j \in Jobs, ClaimNextJob(w, j) PROVE RowsGood
    <2> DEFINE row == [job[j] EXCEPT !.status = "processing", !.lockedBy = w,
                                     !.attempt = @ + 1, !.lease = TRUE, !.code = "none"]
    <2>1. job[j] \in Row /\ job[j].attempt < MaxAttempts /\ job[j].status \in Active
      BY <1>5 DEF IInv, Typed, JobTyped, ClaimNextJob, Due, Active
    <2>2. row \in Row /\ row.status = "processing" /\ row.op = job[j].op
      <3>1. job[j].attempt + 1 \in 0..MaxAttempts
        BY <2>1, ConstantsFit DEF Row
      <3> QED  BY <2>1, <3>1 DEF Row, Active, Codes
    <2>3. job' = [job EXCEPT ![j] = row] /\ UNCHANGED deleted
      BY <1>5 DEF ClaimNextJob, IInv, Typed, JobTyped
    <2> HIDE DEF row
    <2>4. job' \in [Jobs -> Row] /\ job'[j] = row /\ \A i \in Jobs \ {j} : job'[i] = job[i]
      BY <2>2, <2>3 DEF IInv, Typed, JobTyped
    <2>5. RowFits(j)' /\ RowMoves(j)
      BY <1>5, <2>1, <2>2, <2>4 DEF IInv, RowsFit, RowFits, RowMoves, Active
    <2> QED  BY <2>1, <2>3, <2>4, <2>5, RowChanges
  <1>6. ASSUME NEW w \in Workers, SettleJob(w) PROVE RowsGood
    <2> DEFINE j == run[w].job
    <2>1. j \in Jobs
      BY <1>6 DEF IInv, RunsFit, RunFits, SettleJob, At
    <2>2. CASE UNCHANGED job
      BY <1>6, <2>2, RowsKept DEF SettleJob
    <2>3. CASE job[j].lockedBy = w
      <3>1. job[j].status = "processing" /\ job[j].attempt = run[w].attempt
        BY <2>1, <2>3, ConstantsFit DEF IInv, RowsFit, RowFits, RunsFit, RunFits
      <3>2. PICK status \in Terminal \cup {"retry_wait"}, code \in Codes :
              job' = Unlocked(j, status, code)
              /\ (status = "retry_wait" => run[w].attempt < MaxAttempts)
        <4>1. run[w].code \in Codes /\ "meeting_deleted" \in Codes
          BY DEF IInv, Typed, RunTyped, Run, Codes
        <4> QED  BY <1>6, <2>3, <4>1 DEF SettleJob, Terminal
      <3> QED  BY <1>6, <2>1, <3>1, <3>2, Unlocks DEF SettleJob, Active
    <2> QED  BY <1>6, <2>2, <2>3 DEF SettleJob
  <1>7. ASSUME NEW w \in Workers, CompleteJob(w) PROVE RowsGood
    <2> DEFINE j == run[w].job
    <2>1. j \in Jobs
      BY <1>7 DEF IInv, RunsFit, RunFits, CompleteJob, At
    <2>2. CASE UNCHANGED job
      BY <1>7, <2>2, RowsKept DEF CompleteJob
    <2>3. CASE job[j].lockedBy = w /\ job' = Unlocked(j, "completed", "none")
      <3>1. job[j].status = "processing"
        BY <2>1, <2>3, ConstantsFit DEF IInv, RowsFit, RowFits
      <3> QED  BY <1>7, <2>1, <2>3, <3>1, Unlocks DEF CompleteJob, Active, Terminal, Codes
    <2> QED  BY <1>7, <2>2, <2>3 DEF CompleteJob
  <1>8. ASSUME NEW w \in Workers, HeartbeatCancels(w) PROVE RowsGood
    <2> DEFINE j == beat[w].job
    <2>1. j \in Jobs
      BY <1>8 DEF IInv, BeatsFit, HeartbeatCancels
    <2>2. CASE UNCHANGED job
      BY <1>8, <2>2, RowsKept DEF HeartbeatCancels
    <2>3. CASE job[j].lockedBy = w /\ job' = Unlocked(j, "cancelled", "fatal")
      <3>1. job[j].status = "processing"
        BY <2>1, <2>3, ConstantsFit DEF IInv, RowsFit, RowFits
      <3> QED  BY <1>8, <2>1, <2>3, <3>1, Unlocks DEF HeartbeatCancels, Active, Terminal, Codes
    <2> QED  BY <1>8, <2>2, <2>3 DEF HeartbeatCancels
  <1>9. ASSUME NEW j \in Jobs, NEW lease \in BOOLEAN, job' = [job EXCEPT ![j].lease = lease],
               UNCHANGED deleted
        PROVE  RowsGood
    <2>1. /\ job' \in [Jobs -> Row] /\ \A i \in Jobs \ {j} : job'[i] = job[i]
          /\ job'[j].status = job[j].status /\ job'[j].op = job[j].op
          /\ job'[j].lockedBy = job[j].lockedBy /\ job'[j].attempt = job[j].attempt
      BY <1>9 DEF IInv, Typed, JobTyped, Row
    <2>2. RowFits(j)' /\ RowMoves(j)
      BY <1>9, <2>1 DEF IInv, RowsFit, RowFits, RowMoves
    <2> QED  BY <1>9, <2>1, <2>2, RowChanges
  <1>10. ASSUME NEW w \in Workers, HeartbeatRenews(w) PROVE RowsGood
    <2>1. run[w].job \in Jobs
      BY <1>10 DEF IInv, Typed, RunTyped, Run, HeartbeatRenews
    <2> QED  BY <1>9, <1>10, <2>1, RowsKept DEF HeartbeatRenews
  <1>11. ASSUME NEW j \in Jobs, JobLeaseExpires(j) PROVE RowsGood
    BY <1>9, <1>11 DEF JobLeaseExpires
  <1>12. ASSUME UNCHANGED job, deleted => deleted' PROVE RowsGood
    BY <1>12, RowsKept
  <1>13. CASE ClientNext
    BY <1>1, <1>2, <1>3, <1>12, <1>13 DEF ClientNext, PostChecks, PostRefused, PostProjects,
       PostLost, PostReturnsExisting, DeleteMeeting
  <1>14. ASSUME NEW w \in Workers, WorkerSteps(w) PROVE RowsGood
    BY <1>4, <1>5, <1>6, <1>7, <1>12, <1>14 DEF WorkerSteps, Preflight, RunFails, SaveResult,
       PublishFails, RecordUsage, CompleteProjection, FailProjection, RequeueProjection, ReportFailure,
       LockTimesOut
  <1>15. CASE WorkerNext
    BY <1>8, <1>10, <1>12, <1>14, <1>15 DEF WorkerNext, HeartbeatRefreshes, HeartbeatTimesOut,
       WorkerCrashes
  <1>16. CASE TimeNext
    BY <1>11, <1>12, <1>16 DEF TimeNext, ProjectionLeaseExpires
  <1> QED  BY <1>13, <1>15, <1>16 DEF Next

-----------------------------------------------------------------------------
(* POSTs and the fence.                                                    *)

LEMMA PostsStep ==
  ASSUME IInv, Next
  PROVE  PostTyped' /\ PostsFit' /\ FenceFits'
PROOF
  <1> USE ConstantsFit DEF IInv, Typed, meetingVars, workerVars
  <1> DEFINE Fit == PostTyped' /\ PostsFit' /\ FenceFits'
  <1>1. ASSUME UNCHANGED <<post, deleted>>, fence' = fence PROVE Fit
    BY <1>1 DEF PostTyped, PostsFit, PostFits, FenceFits
  <1>2. ASSUME UNCHANGED <<post, deleted>>, NEW w \in Workers,
               fence \in {None, w}, fence' \in {None, w}, fence' = w => ~deleted
        PROVE  Fit
    BY <1>2 DEF PostTyped, PostsFit, PostFits, FenceFits
  <1>3. ASSUME NEW c \in Clients, NEW row \in Post, post' = [post EXCEPT ![c] = row],
               UNCHANGED deleted, fence' # None => ~deleted,
               fence' = fence \/ (fence \in {None, c} /\ fence' \in {None, c}),
               row.at # "none" => row.op \in Ops,
               row.at = "inserted" => row.job \in Jobs /\ fence' = c
        PROVE  Fit
    <2>1. PostTyped' /\ post'[c] = row /\ \A d \in Clients \ {c} : post'[d] = post[d]
      BY <1>3 DEF PostTyped
    <2>2. PostsFit'
      BY <1>3, <2>1 DEF PostsFit, PostFits
    <2> QED  BY <1>3, <2>1, <2>2 DEF FenceFits
  <1>4. ASSUME NEW c \in Clients, NEW op \in Ops, PostChecks(c, op) PROVE Fit
    <2>1. [NoPost EXCEPT !.at = "checked", !.op = op] \in Post
      BY DEF NoPost, Post
    <2> QED  BY <1>3, <1>4, <2>1 DEF PostChecks, NoPost, FenceFits
  <1>5. ASSUME NEW c \in Clients, NEW j \in Jobs, PostEnqueues(c, j) PROVE Fit
    <2>1. post[c].op \in Ops
      BY <1>5 DEF PostsFit, PostFits, PostEnqueues
    <2>2. [at |-> "inserted", op |-> post[c].op, job |-> j,
           processing |-> job'[j].status = "processing"] \in Post
      BY <2>1 DEF Post
    <2> QED  BY <1>3, <1>5, <2>1, <2>2 DEF PostEnqueues
  <1>6. ASSUME NEW c \in Clients, PostRefused(c) \/ PostProjects(c) \/ PostLost(c) PROVE Fit
    <2>1. post' = [post EXCEPT ![c] = NoPost] /\ UNCHANGED deleted /\ NoPost.at = "none"
      BY <1>6 DEF PostRefused, PostProjects, PostLost, NoPost
    <2>2. fence' = fence \/ (fence \in {None, c} /\ fence' \in {None, c})
      BY <1>6 DEF PostRefused, PostProjects, PostLost, PostsFit, PostFits
    <2>3. fence' # None => ~deleted
      BY <1>6 DEF PostRefused, PostProjects, PostLost, FenceFits
    <2> QED  BY <1>3, <2>1, <2>2, <2>3
  <1>7. CASE PostReturnsExisting \/ CancelJobs \/ PurgeMeeting
    BY <1>1, <1>7 DEF PostReturnsExisting, CancelJobs, PurgeMeeting
  <1>8. CASE DeleteMeeting
    BY <1>8 DEF DeleteMeeting, PostTyped, PostsFit, PostFits, FenceFits
  <1>9. ASSUME NEW w \in Workers,
               \/ FailExhaustedJobs(w) \/ Preflight(w)
               \/ \E j \in Jobs : ClaimNextJob(w, j)
               \/ \E code \in Codes : RunFails(w, code)
               \/ FailProjection(w) \/ CompleteJob(w) \/ SettleJob(w)
               \/ RequeueProjection(w) \/ ReportFailure(w) \/ LockTimesOut(w)
               \/ RecordUsage(w) \/ HeartbeatRenews(w) \/ HeartbeatRefreshes(w)
               \/ HeartbeatCancels(w) \/ HeartbeatTimesOut(w)
        PROVE  Fit
    <2>1. UNCHANGED <<post, deleted, fence>>
      BY <1>9 DEF FailExhaustedJobs, ClaimNextJob, Preflight, RunFails, RecordUsage,
         FailProjection, CompleteJob, SettleJob, RequeueProjection, ReportFailure,
         LockTimesOut, HeartbeatRenews, HeartbeatRefreshes, HeartbeatCancels, HeartbeatTimesOut
    <2> QED  BY <1>1, <2>1
  <1>10. ASSUME NEW w \in Workers,
                \/ SaveResult(w) \/ CompleteProjection(w) \/ WorkerCrashes(w)
                \/ \E code \in Codes : PublishFails(w, code)
         PROVE  Fit
    <2>1. UNCHANGED <<post, deleted>> /\ (fence' = w => ~deleted)
      BY <1>10 DEF SaveResult, CompleteProjection, WorkerCrashes, PublishFails, FenceFits
    <2>2. fence' = fence \/ (fence \in {None, w} /\ fence' \in {None, w})
      BY <1>10
      DEF SaveResult, CompleteProjection, WorkerCrashes, PublishFails, RunsFit, RunFits, At
    <2> QED  BY <1>1, <1>2, <2>1, <2>2
  <1>11. CASE ClientNext
    BY <1>4, <1>5, <1>6, <1>7, <1>8, <1>11 DEF ClientNext
  <1>12. CASE WorkerNext
    <2>1. \A w \in Workers : WorkerSteps(w) => Fit
      BY <1>9, <1>10 DEF WorkerSteps, Codes
    <2> QED  BY <1>9, <1>10, <1>12, <2>1 DEF WorkerNext
  <1>13. CASE TimeNext
    BY <1>1, <1>13 DEF TimeNext, JobLeaseExpires, ProjectionLeaseExpires
  <1> QED  BY <1>11, <1>12, <1>13 DEF Next

-----------------------------------------------------------------------------
(* Workers and their heartbeats.                                           *)

(* A worker that does not move stays fit, whatever becomes of its row. *)
LEMMA RunKept ==
  ASSUME IInv, RowsGood, NEW v \in Workers, run'[v] = run[v], fence = v => fence' = v
  PROVE  RunFits(v)'
PROOF
  <1>1. RunFits(v) /\ run[v] \in Run
    BY DEF IInv, RunsFit, Typed, RunTyped
  <1>2. \A j \in Jobs : RowMoves(j)
    BY DEF RowsGood
  <1>3. \A j \in Jobs : ~ClaimNextJob(v, j)
    BY ZenonT(40) DEF IInv, Typed, RunTyped, ClaimNextJob, Idle, At
  <1>4. \A j \in Jobs, u \in Workers : ClaimNextJob(u, j) => job'[j].lockedBy = u
    BY DEF IInv, Typed, JobTyped, ClaimNextJob
  <1> QED  BY <1>1, <1>2, <1>3, <1>4, ConstantsFit DEF RunFits, RowMoves

(* One that goes to its next point is fit there. *)
LEMMA RunGoesOn ==
  ASSUME IInv, RowsGood, NEW w \in Workers, Kept(w),
         run'[w].at \notin {"idle", "report"} => run[w].at \notin {"idle", "report"},
         run'[w].at \in {"running", "saved", "billed"} =>
           run[w].at \in {"running", "saved", "billed"},
         run'[w].at \in {"saved", "billed"} => fence' = w
  PROVE  RunFits(w)'
PROOF
  <1>1. RunFits(w) /\ run[w] \in Run
    BY DEF IInv, RunsFit, Typed, RunTyped
  <1>2. \A j \in Jobs : RowMoves(j)
    BY DEF RowsGood
  <1>3. \A j \in Jobs : ~ClaimNextJob(w, j)
    BY ZenonT(40) DEF IInv, Typed, RunTyped, ClaimNextJob, Idle, At
  <1>4. \A j \in Jobs, u \in Workers : ClaimNextJob(u, j) => job'[j].lockedBy = u
    BY DEF IInv, Typed, JobTyped, ClaimNextJob
  <1> QED  BY <1>1, <1>2, <1>3, <1>4, ConstantsFit DEF RunFits, RowMoves, Kept

(* One that stops or crashes is on no job. *)
LEMMA RunStops ==
  ASSUME NEW w \in Workers, run'[w] = Idle
  PROVE  RunFits(w)' /\ run'[w] \in Run
PROOF BY ConstantsFit DEF RunFits, Idle

RunGood(w) == run'[w] \in Run /\ RunFits(w)'
BeatGood(w) == beat'[w] \in Beat /\ (beat'[w].at # "none" => beat'[w].job \in Jobs)

(* The steps of the worker loop. *)
LEMMA WorkerFits ==
  ASSUME IInv, RowsGood, NEW w \in Workers, WorkerSteps(w)
  PROVE  RunGood(w) /\ BeatGood(w)
PROOF
  <1> USE WorkerMoves, ConstantsFit DEF IInv, meetingVars, workerVars
  <1> DEFINE Good == RunGood(w) /\ BeatGood(w)
  <1>1. /\ run[w] \in Run /\ beat[w] \in Beat /\ BeatsFit
        /\ Typed /\ RunFits(w)
    BY DEF RunsFit, Typed, RunTyped
  <1>2. ASSUME Stop(w) PROVE Good
    BY <1>1, <1>2, RunStops DEF RunGood, BeatGood, BeatsFit
  <1>3. ASSUME run'[w] \in Run, beat' = beat, Kept(w),
               run'[w].at \notin {"idle", "report"} => run[w].at \notin {"idle", "report"},
               run'[w].at \in {"running", "saved", "billed"} =>
                 run[w].at \in {"running", "saved", "billed"},
               run'[w].at \in {"saved", "billed"} => fence' = w
        PROVE  Good
    BY <1>1, <1>3, RunGoesOn DEF RunGood, BeatGood, BeatsFit
  <1>4. ASSUME NEW place \in Points \ {"running", "saved", "billed"}, NEW code \in Codes,
               GoTo(w, place) \/ Throw(w, place, code),
               place # "report" => run[w].at \notin {"idle", "report"}
        PROVE  Good
    BY <1>1, <1>3, <1>4
  <1>5. CASE FailExhaustedJobs(w)
    BY <1>4, <1>5 DEF FailExhaustedJobs, Points, Codes
  <1>6. ASSUME NEW j \in Jobs, ClaimNextJob(w, j) PROVE Good
    <2> DEFINE row == [Idle EXCEPT !.at = "preflight", !.job = j, !.attempt = job[j].attempt + 1]
    <2>1. job[j].attempt + 1 \in 0..MaxAttempts
      BY <1>6 DEF Typed, JobTyped, Row, ClaimNextJob, Due
    <2>2. row \in Run /\ row.at = "preflight" /\ row.job = j /\ row.attempt = job[j].attempt + 1
      BY <2>1 DEF Run, Idle, Points
    <2>3. run' = [run EXCEPT ![w] = row] /\ beat' = beat
      BY <1>6 DEF ClaimNextJob
    <2>4. job'[j].status = "processing" /\ job'[j].attempt = job[j].attempt + 1
      BY <1>6 DEF ClaimNextJob, Typed, JobTyped, Row
    <2> HIDE DEF row
    <2>5. run'[w] = row
      BY <2>3 DEF Typed, RunTyped
    <2>6. RunFits(w)'
      BY <2>2, <2>4, <2>5 DEF RunFits
    <2> QED  BY <1>1, <2>2, <2>3, <2>5, <2>6 DEF RunGood, BeatGood, BeatsFit
  <1>7. CASE Preflight(w)
    <2>1. CASE \E place \in {"settle", "finish"}, code \in Codes :
                 GoTo(w, place) \/ Throw(w, place, code)
      BY <1>4, <1>7, <2>1 DEF Preflight, At, Points
    <2>2. CASE ~deleted /\ run' = [run EXCEPT ![w].at = "running",
                   ![w].started = StartedProjection(job[run[w].job].op)] /\ UNCHANGED <<beat, job>>
      <3> DEFINE op == job[run[w].job].op
      <3>1. run[w].job \in Jobs /\ op \in Ops
        BY <1>1, <1>7, <2>2 DEF Preflight, At, RunFits, RowsFit, RowFits
      <3>2. StartedProjection(op) \in Projections /\ StartedProjection(op).op = op
        BY <1>1, <3>1, ProjectionsTyped
      <3>3. run'[w] = [run[w] EXCEPT !.at = "running", !.started = StartedProjection(op)]
        BY <2>2 DEF Typed, RunTyped
      <3>4. /\ run'[w] \in Run /\ run'[w].at = "running" /\ run'[w].job = run[w].job
            /\ run'[w].attempt = run[w].attempt /\ run'[w].started.op \in Ops
        BY ZenonT(40), <1>1, <3>1, <3>2, <3>3 DEF Run, Points
      <3>5. RunFits(w)'
        BY <1>1, <1>7, <2>2, <3>1, <3>4 DEF RunFits, Preflight, At
      <3> QED  BY <1>1, <2>2, <3>4, <3>5 DEF RunGood, BeatGood, BeatsFit
    <2> QED  BY <1>7, <2>1, <2>2 DEF Preflight, Codes
  <1>8. ASSUME NEW code \in Codes, RunFails(w, code) PROVE Good
    BY <1>4, <1>8 DEF RunFails, At, Points
  <1>9. CASE SaveResult(w)
    <2>1. CASE \E place \in {"settle", "failing"}, code \in Codes : Throw(w, place, code)
      BY <1>4, <1>9, <2>1 DEF SaveResult, At, Points
    <2>2. CASE GoTo(w, "saved") /\ fence' = w
      BY <1>1, <1>3, <1>9, <2>2 DEF SaveResult, At, Points
    <2> QED  BY <1>9, <2>1, <2>2 DEF SaveResult, Codes
  <1>10. CASE RecordUsage(w)
    BY <1>1, <1>3, <1>10 DEF RecordUsage, At, Points, RunFits
  <1>11. CASE CompleteProjection(w)
    BY <1>4, <1>11 DEF CompleteProjection, At, Points, Codes
  <1>12. CASE FailProjection(w)
    BY <1>4, <1>12 DEF FailProjection, At, Points, Codes
  <1>13. CASE CompleteJob(w)
    BY <1>2, <1>4, <1>13 DEF CompleteJob, At, Points, Codes
  <1>14. CASE SettleJob(w)
    BY <1>2, <1>4, <1>14 DEF SettleJob, At, Points, Codes
  <1>15. CASE RequeueProjection(w) \/ ReportFailure(w)
    BY <1>2, <1>15 DEF RequeueProjection, ReportFailure
  <1>16. CASE LockTimesOut(w)
    BY <1>2, <1>4, <1>16 DEF LockTimesOut, At, Points, Codes
  <1>17. ASSUME NEW code \in Codes, PublishFails(w, code) PROVE Good
    BY <1>4, <1>17 DEF PublishFails, At, Points
  <1>18. \A code \in {"retryable", "fatal"} : code \in Codes
    BY DEF Codes
  <1> QED
    BY <1>5, <1>6, <1>7, <1>8, <1>9, <1>10, <1>11, <1>12, <1>13, <1>14, <1>15, <1>16, <1>17,
       <1>18
    DEF WorkerSteps

(* The heartbeats and the crash of a worker. *)
LEMMA HeartbeatFits ==
  ASSUME IInv, RowsGood, NEW w \in Workers,
         \/ HeartbeatRenews(w) \/ HeartbeatRefreshes(w) \/ HeartbeatCancels(w)
         \/ HeartbeatTimesOut(w) \/ WorkerCrashes(w)
  PROVE  RunGood(w) /\ BeatGood(w)
PROOF
  <1> USE ConstantsFit DEF IInv, meetingVars, workerVars
  <1>1. /\ run[w] \in Run /\ beat[w] \in Beat /\ BeatsFit /\ Typed /\ RunFits(w)
    BY DEF RunsFit, Typed, RunTyped
  <1>2. ASSUME run' = run \/ run' = LoseLease(w), UNCHANGED fence PROVE RunGood(w)
    BY <1>1, <1>2, WorkerMoves, RunKept, RunGoesOn DEF RunGood, RunFits
  <1>3. CASE HeartbeatRenews(w)
    <2>1. run[w].job \in Jobs
      BY <1>1, <1>3 DEF HeartbeatRenews, Run
    <2>2. [at |-> "renewed", job |-> run[w].job, mine |-> TRUE] \in Beat
      BY <2>1 DEF Beat
    <2>3. BeatGood(w)
      <3>1. CASE UNCHANGED beat
        BY <1>1, <3>1 DEF BeatGood, BeatsFit
      <3>2. CASE beat' = [beat EXCEPT ![w] =
                            [at |-> "renewed", job |-> run[w].job, mine |-> TRUE]]
        BY <1>1, <2>1, <2>2, <3>2 DEF BeatGood, Typed, RunTyped
      <3> QED  BY <1>3, <3>1, <3>2 DEF HeartbeatRenews
    <2> QED  BY <1>2, <1>3, <2>3 DEF HeartbeatRenews
  <1>4. CASE HeartbeatRefreshes(w)
    <2>1. beat'[w] = NoBeat \/ beat'[w] = [beat[w] EXCEPT !.at = "cancel"]
      BY <1>4 DEF HeartbeatRefreshes, Typed, RunTyped
    <2>2. BeatGood(w)
      BY <1>1, <1>4, <2>1 DEF HeartbeatRefreshes, BeatGood, BeatsFit, Beat, NoBeat
    <2> QED  BY <1>2, <1>4, <2>2 DEF HeartbeatRefreshes
  <1>5. CASE HeartbeatCancels(w) \/ HeartbeatTimesOut(w)
    <2>1. BeatGood(w)
      <3>1. beat'[w] = NoBeat
        BY <1>1, <1>5 DEF HeartbeatCancels, HeartbeatTimesOut, Typed, RunTyped
      <3> QED  BY <3>1 DEF BeatGood, NoBeat
    <2> QED  BY <1>2, <1>5, <2>1 DEF HeartbeatCancels, HeartbeatTimesOut
  <1>6. CASE WorkerCrashes(w)
    <2>1. run'[w] = Idle /\ beat'[w] = NoBeat
      BY <1>6 DEF WorkerCrashes, Typed, RunTyped
    <2> QED  BY <2>1, RunStops DEF RunGood, BeatGood, NoBeat
  <1> QED  BY <1>3, <1>4, <1>5, <1>6

LEMMA RunsStep ==
  ASSUME IInv, Next
  PROVE  RunTyped' /\ RunsFit' /\ BeatsFit'
PROOF
  <1> USE DEF IInv
  <1>1. RowsGood
    BY RowsStep
  <1>2. ASSUME UNCHANGED <<run, beat>>, \A v \in Workers : fence = v => fence' = v
        PROVE  RunTyped' /\ RunsFit' /\ BeatsFit'
    BY <1>1, <1>2, RunKept DEF Typed, RunTyped, RunsFit, BeatsFit
  <1>3. CASE ClientNext
    <2>1. UNCHANGED <<run, beat>>
      BY <1>3 DEF ClientNext, PostChecks, PostRefused, PostEnqueues, PostProjects, PostLost,
         PostReturnsExisting, DeleteMeeting, CancelJobs, PurgeMeeting, workerVars
    <2>2. \A v \in Workers : fence = v => fence' = v
      BY <1>3, ConstantsFit DEF ClientNext, PostChecks, PostRefused, PostEnqueues,
         PostProjects, PostLost, PostReturnsExisting, DeleteMeeting, CancelJobs,
         PurgeMeeting, workerVars, meetingVars, PostsFit, PostFits
    <2> QED  BY <1>2, <2>1, <2>2
  <1>4. ASSUME NEW w \in Workers,
               \/ WorkerSteps(w) \/ HeartbeatRenews(w) \/ HeartbeatRefreshes(w)
               \/ HeartbeatCancels(w) \/ HeartbeatTimesOut(w) \/ WorkerCrashes(w)
        PROVE  RunTyped' /\ RunsFit' /\ BeatsFit'
    <2>1. RunGood(w) /\ BeatGood(w)
      BY <1>1, <1>4, WorkerFits, HeartbeatFits
    <2>2. \A v \in Workers \ {w} : run'[v] = run[v] /\ beat'[v] = beat[v]
      BY <1>4, WorkersApart
    <2>3. \A v \in Workers \ {w} : fence = v => fence' = v
      BY <1>4, ConstantsFit DEF WorkerSteps, FailExhaustedJobs, ClaimNextJob, Preflight,
         RunFails, SaveResult, RecordUsage, PublishFails, CompleteProjection, FailProjection,
         CompleteJob, SettleJob, RequeueProjection, ReportFailure, LockTimesOut, HeartbeatRenews,
         HeartbeatRefreshes, HeartbeatCancels, HeartbeatTimesOut, WorkerCrashes,
         meetingVars, RunsFit, RunFits, At
    <2>4. \A v \in Workers : RunGood(v) /\ BeatGood(v)
      BY <1>1, <2>1, <2>2, <2>3, RunKept DEF RunGood, BeatGood, Typed, RunTyped, BeatsFit
    <2>5. run' = [v \in Workers |-> run'[v]] /\ beat' = [v \in Workers |-> beat'[v]]
      BY <1>4 DEF Typed, RunTyped, WorkerSteps, FailExhaustedJobs, ClaimNextJob, Preflight,
         RunFails, SaveResult, RecordUsage, PublishFails, CompleteProjection, FailProjection,
         CompleteJob, SettleJob, RequeueProjection, ReportFailure, LockTimesOut, HeartbeatRenews,
         HeartbeatRefreshes, HeartbeatCancels, HeartbeatTimesOut, WorkerCrashes,
         GoTo, Throw, Stop, LoseLease
    <2> QED  BY <2>4, <2>5 DEF RunGood, BeatGood, RunTyped, RunsFit, BeatsFit
  <1>5. CASE TimeNext
    BY <1>2, <1>5 DEF TimeNext, JobLeaseExpires, ProjectionLeaseExpires, workerVars, meetingVars
  <1> QED  BY <1>3, <1>4, <1>5 DEF Next, WorkerNext

-----------------------------------------------------------------------------
(* The meeting: projection, result, usage events.                          *)

LEMMA MeetingStep ==
  ASSUME IInv, Next
  PROVE  ProjTyped' /\ RestTyped'
PROOF
  <1> USE ConstantsFit DEF IInv, meetingVars, workerVars
  <1>1. Typed
    OBVIOUS
  <1>2. ASSUME UNCHANGED <<proj, result, billed, deleted, writes>>,
               fence' \in Workers \cup Clients \cup {None}
        PROVE  ProjTyped' /\ RestTyped'
    BY <1>1, <1>2 DEF Typed, ProjTyped, RestTyped
  <1>3. ASSUME proj' \in Projections, UNCHANGED <<result, billed, deleted, writes>>,
               fence' = fence \/ fence' = None
        PROVE  ProjTyped' /\ RestTyped'
    BY <1>1, <1>3 DEF Typed, ProjTyped, RestTyped
  <1>4. ASSUME result \in Ops, proj' = ExistingCompleted, billed' = ExistingBilled,
               UNCHANGED <<result, deleted, fence, writes>>
        PROVE  ProjTyped' /\ RestTyped'
    BY <1>1, <1>4, ProjectionsTyped DEF Typed, ProjTyped, RestTyped, ExistingBilled
  <1>5. CASE ClientNext
    <2>1. ASSUME NEW c \in Clients, PostProjects(c) PROVE ProjTyped' /\ RestTyped'
      <3>1. post[c].job \in Jobs
        BY <2>1 DEF PostsFit, PostFits, PostProjects
      <3> QED  BY <1>1, <1>3, <2>1, <3>1, ProjectionsTyped DEF PostProjects, Typed, ProjTyped
    <2>2. CASE PostReturnsExisting
      BY <1>1, <1>4, <2>2 DEF PostReturnsExisting, Typed, RestTyped
    <2>3. CASE DeleteMeeting
      BY <1>1, <2>3 DEF DeleteMeeting, Typed, ProjTyped, RestTyped
    <2>4. CASE PurgeMeeting
      BY <1>1, <2>4 DEF PurgeMeeting, Typed, ProjTyped, RestTyped
    <2>5. ASSUME NEW c \in Clients,
                 \/ \E op \in Ops : PostChecks(c, op)
                 \/ \E j \in Jobs : PostEnqueues(c, j)
                 \/ PostRefused(c) \/ PostLost(c)
          PROVE  ProjTyped' /\ RestTyped'
      BY <1>1, <1>2, <2>5 DEF PostChecks, PostEnqueues, PostRefused, PostLost, Typed, RestTyped
    <2>6. CASE CancelJobs
      BY <1>1, <1>2, <2>6 DEF CancelJobs, Typed, RestTyped
    <2> QED  BY <1>5, <2>1, <2>2, <2>3, <2>4, <2>5, <2>6 DEF ClientNext
  <1>6. ASSUME NEW w \in Workers, WorkerSteps(w) PROVE ProjTyped' /\ RestTyped'
    <2>1. RunFits(w) /\ run[w] \in Run
      BY <1>1 DEF RunsFit, Typed, RunTyped
    <2>2. CASE Preflight(w)
      <3>1. CASE ~deleted /\ proj' = StartedProjection(job[run[w].job].op)
                 /\ UNCHANGED <<result, billed, deleted, fence, writes>>
        <4>1. job[run[w].job].op \in Ops
          BY <2>1, <2>2, <3>1 DEF Preflight, At, RunFits, RowsFit, RowFits
        <4> QED  BY <1>1, <1>3, <3>1, <4>1, ProjectionsTyped
      <3>2. CASE UNCHANGED <<proj, billed>>
        BY <1>1, <1>2, <2>2, <3>2 DEF Preflight, Typed, RestTyped
      <3>3. CASE result # None /\ billed' = ExistingBilled /\ proj' = ExistingCompleted
        BY <1>1, <1>4, <2>2, <3>3 DEF Preflight, Typed, RestTyped
      <3> QED  BY <2>2, <3>1, <3>2, <3>3 DEF Preflight
    <2>3. CASE SaveResult(w)
      <3>1. CASE UNCHANGED <<result, fence, writes>>
        BY <1>1, <1>2, <2>3, <3>1 DEF SaveResult, Typed, RestTyped
      <3>2. CASE fence' = w /\ result' = run[w].started.op
                 /\ writes' = [writes EXCEPT ![run[w].started.op] = @ + 1]
        <4>1. run[w].started.op \in Ops
          BY <2>1, <2>3 DEF SaveResult, At, RunFits
        <4> QED  BY <1>1, <2>3, <3>2, <4>1 DEF SaveResult, Typed, ProjTyped, RestTyped
      <3> QED  BY <2>3, <3>1, <3>2 DEF SaveResult
    <2>4. CASE RecordUsage(w)
      BY <1>1, <2>1, <2>4 DEF RecordUsage, At, RunFits, Typed, ProjTyped, RestTyped
    <2>5. CASE \/ CompleteProjection(w) \/ FailProjection(w)
               \/ \E code \in {"retryable", "fatal"} : PublishFails(w, code)
      <3>1. run[w].started \in Projections
        BY <2>1 DEF Run
      <3> QED
        BY <1>1, <1>3, <2>5, <3>1, ProjectionsTyped
        DEF CompleteProjection, FailProjection, PublishFails, Typed, ProjTyped
    <2>6. CASE RequeueProjection(w)
      BY <1>1, <1>3, <2>1, <2>6, ProjectionsTyped DEF RequeueProjection, At, RunFits
    <2>7. CASE ReportFailure(w)
      BY <1>1, <1>3, <2>7, ProjectionsTyped DEF ReportFailure, Typed, ProjTyped
    <2>8. CASE \/ FailExhaustedJobs(w) \/ CompleteJob(w) \/ SettleJob(w) \/ LockTimesOut(w)
               \/ \E j \in Jobs : ClaimNextJob(w, j)
               \/ \E code \in {"retryable", "fatal"} : RunFails(w, code)
      BY <1>1, <1>2, <2>8 DEF FailExhaustedJobs, CompleteJob, SettleJob, LockTimesOut,
         ClaimNextJob, RunFails, Typed, RestTyped
    <2> QED  BY <1>6, <2>2, <2>3, <2>4, <2>5, <2>6, <2>7, <2>8 DEF WorkerSteps
  <1>7. ASSUME NEW w \in Workers,
               HeartbeatRenews(w) \/ HeartbeatCancels(w) \/ HeartbeatTimesOut(w)
               \/ WorkerCrashes(w)
        PROVE  ProjTyped' /\ RestTyped'
    BY <1>1, <1>2, <1>7 DEF HeartbeatRenews, HeartbeatCancels, HeartbeatTimesOut, WorkerCrashes,
       Typed, RestTyped
  <1>8. ASSUME NEW w \in Workers, HeartbeatRefreshes(w) PROVE ProjTyped' /\ RestTyped'
    BY ZenonT(40), <1>1, <1>3, <1>8 DEF HeartbeatRefreshes, Typed, ProjTyped, Projections
  <1>9. CASE TimeNext
    BY <1>1, <1>3, <1>9 DEF TimeNext, JobLeaseExpires, ProjectionLeaseExpires, Typed,
       ProjTyped, Projections
  <1> QED  BY <1>5, <1>6, <1>7, <1>8, <1>9 DEF Next, WorkerNext

LEMMA TypesHold == Spec => []IInv
PROOF
  <1>1. ASSUME IInv, Next PROVE IInv'
    <2>1. JobTyped' /\ RowsFit' /\ OneActiveJob'
      BY <1>1, RowsStep DEF RowsGood
    <2>2. PostTyped' /\ PostsFit' /\ FenceFits'
      BY <1>1, PostsStep
    <2>3. RunTyped' /\ RunsFit' /\ BeatsFit'
      BY <1>1, RunsStep
    <2>4. ProjTyped' /\ RestTyped'
      BY <1>1, MeetingStep
    <2> QED  BY <2>1, <2>2, <2>3, <2>4 DEF IInv, Typed
  <1>2. IInv /\ UNCHANGED vars => IInv'
    BY DEF IInv, Typed, JobTyped, ProjTyped, PostTyped, RunTyped, RestTyped, RowsFit, RowFits,
       PostsFit, PostFits, RunsFit, RunFits, BeatsFit, FenceFits, OneActiveJob, vars
  <1> QED  BY InitFits, <1>1, <1>2, PTL DEF Spec

-----------------------------------------------------------------------------
(* The result is saved once.                                               *)

(* What the preflight hands out instead of starting a run. *)
Existing(op) == result # None /\ (op \in Forced => result = op)

(* What was saved is handed out; the worker that has its job locked runs   *)
(* for a result that is not there, and no other worker can save one.       *)
PublishInv ==
  /\ ~deleted => \A op \in Ops : writes[op] # 0 => Existing(op)
  /\ ~deleted => \A w \in Workers :
       run[w].at = "running" /\ job[run[w].job].lockedBy = w => ~Existing(run[w].started.op)
  /\ PublishedOnce

(* Whoever runs with a locked job is the only one, as there is one job. *)
LEMMA OneRuns ==
  ASSUME IInv, NEW v \in Workers, NEW w \in Workers,
         run[v].at = "running", job[run[v].job].lockedBy = v,
         run[w].at = "running", job[run[w].job].lockedBy = w
  PROVE  v = w
PROOF
  <1>1. run[v].job \in Jobs /\ run[w].job \in Jobs
    BY DEF IInv, RunsFit, RunFits
  <1>2. job[run[v].job].status \in Active /\ job[run[w].job].status \in Active
    BY <1>1, ConstantsFit DEF IInv, RowsFit, RowFits, Active
  <1> QED  BY <1>1, <1>2 DEF IInv, OneActiveJob

LEMMA PublishStep ==
  ASSUME \A f, g \in Forced : f = g, IInv, RunsFit', PublishInv, Next
  PROVE  PublishInv'
PROOF
  <1> USE ConstantsFit DEF meetingVars, workerVars
  <1>1. \A j \in Jobs : RowMoves(j)
    BY RowsStep DEF RowsGood
  <1>2. Typed
    BY DEF IInv
  <1>3. \A j \in Jobs, u \in Workers : ClaimNextJob(u, j) =>
          job'[j].lockedBy = u /\ run'[u].at = "preflight"
    BY <1>2 DEF Typed, JobTyped, RunTyped, ClaimNextJob
  \* A run goes on with the lock it had, unless its preflight starts it.
  <1>4. ASSUME UNCHANGED writes, result' = result, ~deleted' => ~deleted,
               \A w \in Workers : run'[w].at = "running" =>
                 \/ run[w].at = "running" /\ run'[w].job = run[w].job
                    /\ run'[w].started = run[w].started
                 \/ ~Existing(run'[w].started.op)
        PROVE  PublishInv'
    <2>1. PublishedOnce'
      BY <1>4 DEF PublishInv, PublishedOnce
    <2>2. ~deleted' => \A op \in Ops : writes'[op] # 0 => Existing(op)'
      BY <1>4 DEF PublishInv, Existing
    <2>3. ASSUME ~deleted', NEW w \in Workers, run'[w].at = "running",
                 job'[run'[w].job].lockedBy = w
          PROVE  (~Existing(run[w].started.op))'
      <3>1. CASE run[w].at = "running" /\ run'[w].job = run[w].job
                 /\ run'[w].started = run[w].started
        <4>1. run[w].job \in Jobs
          BY <3>1 DEF IInv, RunsFit, RunFits
        <4>2. job[run[w].job].lockedBy = w
          BY <1>1, <1>3, <2>3, <3>1, <4>1 DEF RowMoves
        <4> QED  BY <1>4, <2>3, <3>1, <4>2 DEF PublishInv, Existing
      <3> QED  BY <1>4, <2>3, <3>1 DEF Existing
    <2> QED  BY <2>1, <2>2, <2>3 DEF PublishInv
  <1>5. CASE ClientNext
    <2>1. CASE PurgeMeeting
      BY <2>1 DEF PurgeMeeting, PublishInv, PublishedOnce
    <2>2. CASE ~PurgeMeeting
      <3>1. UNCHANGED <<run, writes, result>> /\ (deleted' = deleted \/ deleted' = TRUE)
        BY <1>5, <2>2 DEF ClientNext, PostChecks, PostRefused, PostEnqueues, PostProjects,
           PostLost, PostReturnsExisting, DeleteMeeting, CancelJobs
      <3> QED  BY <1>4, <3>1
    <2> QED  BY <2>1, <2>2
  <1>6. ASSUME NEW w \in Workers, SaveResult(w) PROVE PublishInv'
    <2>1. CASE UNCHANGED <<result, writes>> /\ run'[w].at # "running"
      BY <1>2, <1>4, <1>6, <2>1, WorkersApart DEF WorkerSteps, SaveResult
    <2>2. CASE ~deleted /\ HasJobLease(w) /\ result' = run[w].started.op
               /\ writes' = [writes EXCEPT ![run[w].started.op] = @ + 1]
               /\ run'[w].at = "saved"
      <3> DEFINE op == run[w].started.op
      <3>1. run[w].at = "running" /\ job[run[w].job].lockedBy = w /\ op \in Ops
        BY <1>6, <2>2 DEF SaveResult, At, HasJobLease, IInv, RunsFit, RunFits
      <3>2. ~Existing(op)
        BY <2>2, <3>1 DEF PublishInv
      <3>3. writes[op] = 0
        BY <2>2, <3>1, <3>2 DEF PublishInv
      <3>4. writes'[op] = 1 /\ \A o \in Ops \ {op} : writes'[o] = writes[o]
        BY <1>2, <2>2, <3>1, <3>3 DEF Typed, RestTyped
      <3>5. PublishedOnce'
        BY <3>4 DEF PublishedOnce, PublishInv
      <3>6. ASSUME NEW o \in Ops, writes'[o] # 0 PROVE Existing(o)'
        <4>1. CASE o = op
          BY <2>2, <3>1, <4>1 DEF Existing
        <4>2. CASE o # op
          <5>1. Existing(o)
            BY <2>2, <3>4, <3>6, <4>2 DEF PublishInv
          <5>2. o \notin Forced
            <6> SUFFICES ASSUME o \in Forced PROVE FALSE
              OBVIOUS
            <6>1. op \notin Forced
              BY <4>2
            <6> QED  BY <3>2, <5>1, <6>1 DEF Existing
          <5> QED  BY <2>2, <3>1, <5>2 DEF Existing
        <4> QED  BY <4>1, <4>2
      <3>7. ASSUME NEW v \in Workers, run'[v].at = "running", job'[run'[v].job].lockedBy = v
            PROVE  FALSE
        <4>1. v # w /\ run'[v] = run[v] /\ job' = job
          BY <1>2, <1>6, <2>2, <3>7, WorkersApart DEF WorkerSteps, SaveResult
        <4> QED  BY <3>1, <3>7, <4>1, OneRuns
      <3> QED  BY <3>5, <3>6, <3>7 DEF PublishInv
    <2>3. \A place \in {"settle", "failing"}, code \in Codes :
            Throw(w, place, code) => run'[w].at # "running"
      BY <1>2, WorkerMoves DEF Points
    <2>4. GoTo(w, "saved") => run'[w].at = "saved"
      BY <1>2, WorkerMoves DEF Points
    <2> QED  BY <1>6, <2>1, <2>2, <2>3, <2>4 DEF SaveResult, Codes
  <1>7. ASSUME NEW w \in Workers, Preflight(w) PROVE PublishInv'
    <2> DEFINE op == job[run[w].job].op
    <2>1. UNCHANGED <<result, writes, deleted>>
      BY <1>7 DEF Preflight
    <2>2. \A v \in Workers \ {w} : run'[v] = run[v]
      BY <1>2, <1>7, WorkersApart DEF WorkerSteps
    <2>3. CASE \E place \in {"settle", "finish"}, code \in Codes :
                 GoTo(w, place) \/ Throw(w, place, code)
      <3>1. run'[w].at # "running"
        BY <1>2, <2>3, WorkerMoves DEF Points
      <3> QED  BY <1>4, <2>1, <2>2, <3>1
    <2>4. CASE ~Existing(op) /\ ~deleted /\ run' = [run EXCEPT ![w].at = "running",
                                                     ![w].started = StartedProjection(op)]
      <3>1. op \in Ops
        BY <1>7, <2>4 DEF Preflight, At, IInv, RunsFit, RunFits, RowsFit, RowFits
      <3>2. run'[w].started.op = op
        BY <1>2, <2>4, <3>1, ProjectionsTyped DEF Typed, RunTyped, Run
      <3> QED  BY <1>4, <2>1, <2>2, <2>4, <3>2
    <2> QED  BY <1>7, <2>3, <2>4 DEF Preflight, Existing, Codes
  <1>8. ASSUME NEW w \in Workers, WorkerSteps(w), ~SaveResult(w), ~Preflight(w)
        PROVE  PublishInv'
    <2>1. UNCHANGED <<writes, result, deleted>>
      BY <1>8 DEF WorkerSteps, FailExhaustedJobs, ClaimNextJob, RunFails, RecordUsage,
         PublishFails, CompleteProjection, FailProjection, CompleteJob, SettleJob, RequeueProjection,
         ReportFailure, LockTimesOut
    <2>2. \A v \in Workers \ {w} : run'[v] = run[v]
      BY <1>2, <1>8, WorkersApart
    <2>3. \A place \in Points \ {"running"}, code \in Codes :
            GoTo(w, place) \/ Throw(w, place, code) => run'[w].at # "running"
      BY <1>2, WorkerMoves
    <2>4. Stop(w) => run'[w].at # "running"
      BY <1>2, WorkerMoves DEF Idle
    <2>5. \A j \in Jobs : ClaimNextJob(w, j) => run'[w].at # "running"
      BY <1>3
    <2>6. \A code \in {"retryable", "fatal"} :
            RunFails(w, code) \/ PublishFails(w, code) => run'[w].at # "running"
      BY <2>3 DEF RunFails, PublishFails, Points, Codes
    <2>7. run'[w].at # "running"
      BY <1>8, <2>3, <2>4, <2>5, <2>6 DEF WorkerSteps, FailExhaustedJobs, RecordUsage,
         CompleteProjection, FailProjection, CompleteJob, SettleJob, RequeueProjection,
         ReportFailure, LockTimesOut, Points, Codes
    <2> QED  BY <1>4, <2>1, <2>2, <2>7
  <1>9. ASSUME NEW w \in Workers,
               \/ HeartbeatRenews(w) \/ HeartbeatRefreshes(w) \/ HeartbeatCancels(w)
               \/ HeartbeatTimesOut(w) \/ WorkerCrashes(w)
        PROVE  PublishInv'
    <2>1. UNCHANGED <<writes, result, deleted>>
      BY <1>9 DEF HeartbeatRenews, HeartbeatRefreshes, HeartbeatCancels, HeartbeatTimesOut,
         WorkerCrashes
    <2>2. \A v \in Workers \ {w} : run'[v] = run[v]
      BY <1>2, <1>9, WorkersApart
    <2>3. run' = LoseLease(w) \/ run' = run \/ run'[w] = Idle
      BY <1>2, <1>9 DEF HeartbeatRenews, HeartbeatRefreshes, HeartbeatCancels,
         HeartbeatTimesOut, WorkerCrashes, Typed, RunTyped
    <2>4. run'[w].at = "running" => run[w].at = "running" /\ run'[w].job = run[w].job
                                    /\ run'[w].started = run[w].started
      BY <1>2, <2>3, WorkerMoves DEF Kept, Idle
    <2> QED  BY <1>4, <2>1, <2>2, <2>4
  <1>10. CASE TimeNext
    <2>1. UNCHANGED <<run, writes, result, deleted>>
      BY <1>10 DEF TimeNext, JobLeaseExpires, ProjectionLeaseExpires
    <2> QED  BY <1>4, <2>1
  <1> QED  BY <1>5, <1>6, <1>7, <1>8, <1>9, <1>10 DEF Next, WorkerNext

-----------------------------------------------------------------------------
(* "Completed" means billed.                                               *)

(* A worker that publishes has its result in place until it is done. *)
BilledInv ==
  /\ CompletedIsBilled
  /\ \A w \in Workers :
       /\ run[w].at \in {"saved", "billed"} => result = run[w].started.op
       /\ run[w].at = "billed" => run[w].started.op \in billed

(* The projections that do not newly complete. *)
LEMMA NotCompleted ==
  ASSUME Typed
  PROVE  /\ \A j \in Jobs : QueuedProjection(j).status # "completed"
         /\ \A op \in Ops : StartedProjection(op).status = "completed" =>
                              proj.status = "completed"
         /\ \A p \in Projections : FailedProjection(p).status = "completed" =>
                                     proj.status = "completed"
         /\ \A p \in Projections :
              p.status # "completed" \/ proj.status = "completed" =>
                (WrittenUnlessDeleted(p).status = "completed" => proj.status = "completed")
PROOF
  <1>1. \A p \in Projections : FailedProjection(p).status = "completed" =>
                                 proj.status = "completed"
    BY DEF FailedProjection, Projections
  <1> QED
    BY <1>1 DEF QueuedProjection, StartedProjection, WrittenUnlessDeleted

LEMMA BilledStep ==
  ASSUME Forced = {}, IInv, RunsFit', BilledInv, Next
  PROVE  BilledInv'
PROOF
  <1> USE ConstantsFit DEF meetingVars, workerVars
  <1>1. Typed
    BY DEF IInv
  <1>2. ASSUME result' = result, billed \subseteq billed',
               proj'.status = "completed" => proj.status = "completed" \/ result \in billed',
               \A w \in Workers : run'[w].at \in {"saved", "billed"} =>
                 run[w].at = run'[w].at /\ run[w].started = run'[w].started
        PROVE  BilledInv'
    BY <1>2 DEF BilledInv, CompletedIsBilled
  <1>3. fence = None => \A w \in Workers : run[w].at \notin {"saved", "billed"}
    BY DEF IInv, RunsFit, RunFits
  <1>4. CASE ClientNext
    <2>1. CASE PurgeMeeting
      BY <1>3, <2>1 DEF PurgeMeeting, BilledInv, CompletedIsBilled, NoProjection
    <2>2. CASE PostReturnsExisting
      BY <1>2, <2>2 DEF PostReturnsExisting, ExistingBilled
    <2>3. ASSUME NEW c \in Clients, PostProjects(c) PROVE BilledInv'
      <3>1. post[c].job \in Jobs
        BY <2>3 DEF IInv, PostsFit, PostFits, PostProjects
      <3> QED  BY <1>1, <1>2, <2>3, <3>1, NotCompleted DEF PostProjects
    <2>4. ASSUME NEW c \in Clients,
                 \/ \E op \in Ops : PostChecks(c, op)
                 \/ \E j \in Jobs : PostEnqueues(c, j)
                 \/ PostRefused(c) \/ PostLost(c)
          PROVE  BilledInv'
      BY <1>2, <2>4 DEF PostChecks, PostEnqueues, PostRefused, PostLost
    <2>5. CASE DeleteMeeting \/ CancelJobs
      BY <1>2, <2>5 DEF DeleteMeeting, CancelJobs
    <2> QED  BY <1>4, <2>1, <2>2, <2>3, <2>4, <2>5 DEF ClientNext
  <1>5. ASSUME NEW w \in Workers, WorkerSteps(w) PROVE BilledInv'
    <2>1. /\ \A v \in Workers \ {w} : run'[v] = run[v]
          /\ RunFits(w) /\ run[w] \in Run
      BY <1>1, <1>5, WorkersApart DEF IInv, RunsFit, Typed, RunTyped
    <2>2. \A place \in Points \ {"saved", "billed"}, code \in Codes :
            GoTo(w, place) \/ Throw(w, place, code) => run'[w].at \notin {"saved", "billed"}
      BY <1>1, WorkerMoves
    <2>3. Stop(w) => run'[w].at \notin {"saved", "billed"}
      BY <1>1, WorkerMoves DEF Idle
    <2>4. ASSUME result' = result, billed \subseteq billed',
                 proj'.status = "completed" => proj.status = "completed" \/ result \in billed',
                 run'[w].at \notin {"saved", "billed"}
          PROVE  BilledInv'
      BY <1>2, <2>1, <2>4
    <2>5. CASE Preflight(w)
      <3> DEFINE op == job[run[w].job].op
      <3>1. CASE UNCHANGED <<proj, billed>> /\ \E code \in Codes : Throw(w, "settle", code)
        BY <2>2, <2>4, <2>5, <3>1 DEF Preflight, Points
      <3>2. CASE billed' = ExistingBilled /\ GoTo(w, "finish")
        BY <2>2, <2>4, <2>5, <3>2 DEF Preflight, Points, Codes, ExistingBilled
      <3>3. CASE ~deleted /\ proj' = StartedProjection(op) /\ UNCHANGED billed
                 /\ run' = [run EXCEPT ![w].at = "running", ![w].started = StartedProjection(op)]
        <4>1. op \in Ops
          BY <2>1, <2>5, <3>3 DEF Preflight, At, IInv, RunFits, RowsFit, RowFits
        <4>2. run'[w].at = "running"
          BY <1>1, <3>3 DEF Typed, RunTyped, Run
        <4> QED  BY <1>1, <2>4, <2>5, <3>3, <4>1, <4>2, NotCompleted DEF Preflight
      <3> QED  BY <2>5, <3>1, <3>2, <3>3 DEF Preflight, Codes
    <2>6. CASE SaveResult(w)
      <3>1. CASE UNCHANGED <<result, fence, writes>>
                 /\ \E place \in {"settle", "failing"}, code \in Codes : Throw(w, place, code)
        BY <2>2, <2>4, <2>6, <3>1 DEF SaveResult, Points
      <3>2. CASE result' = run[w].started.op /\ GoTo(w, "saved")
        <4>1. run[w].started.op = "initial"
          BY <2>1, <2>6 DEF SaveResult, At, RunFits, Ops
        <4>2. result \in billed => result = "initial"
          BY <1>1 DEF Typed, RestTyped, Ops
        <4>3. run'[w].at = "saved" /\ run'[w].started = run[w].started
          BY <1>1, <3>2, WorkerMoves DEF Points, Kept
        <4> QED
          BY <1>3, <2>1, <2>6, <3>2, <4>1, <4>2, <4>3
          DEF SaveResult, BilledInv, CompletedIsBilled
      <3> QED  BY <2>6, <3>1, <3>2 DEF SaveResult, Codes
    <2>7. CASE RecordUsage(w)
      <3>1. run'[w].at = "billed" /\ run'[w].started = run[w].started
        BY <1>1, <2>7, WorkerMoves DEF RecordUsage, Points, Kept
      <3> QED
        BY <2>1, <2>7, <3>1 DEF RecordUsage, At, BilledInv, CompletedIsBilled
    <2>8. CASE CompleteProjection(w)
      <3>1. result \in billed
        BY <2>8 DEF CompleteProjection, At, BilledInv
      <3> QED  BY <2>2, <2>4, <2>8, <3>1 DEF CompleteProjection, Points, Codes
    <2>9. CASE FailProjection(w)
      <3>1. run[w].started \in Projections
        BY <2>1 DEF Run
      <3>2. run'[w].at \notin {"saved", "billed"}
        BY <2>2, <2>9 DEF FailProjection, Points, Codes
      <3> QED  BY <1>1, <2>4, <2>9, <3>1, <3>2, NotCompleted DEF FailProjection
    <2>10. CASE RequeueProjection(w)
      <3>1. run[w].job \in Jobs
        BY <2>1, <2>10 DEF RequeueProjection, At, RunFits
      <3> QED
        BY <1>1, <2>3, <2>4, <2>10, <3>1, NotCompleted, ProjectionsTyped DEF RequeueProjection
    <2>11. CASE ReportFailure(w)
      <3>1. FailedProjection(proj) \in Projections /\ proj \in Projections
        BY <1>1, ProjectionsTyped DEF Typed, ProjTyped
      <3>2. proj'.status = "completed" => proj.status = "completed"
        BY <1>1, <2>11, <3>1, NotCompleted DEF ReportFailure
      <3> QED  BY <2>3, <2>4, <2>11, <3>2 DEF ReportFailure
    <2>12. CASE \/ FailExhaustedJobs(w) \/ CompleteJob(w) \/ SettleJob(w) \/ LockTimesOut(w)
                \/ \E j \in Jobs : ClaimNextJob(w, j)
                \/ \E code \in {"retryable", "fatal"} : RunFails(w, code)
      <3>1. UNCHANGED <<proj, result, billed>>
        BY <2>12 DEF FailExhaustedJobs, CompleteJob, SettleJob, LockTimesOut, ClaimNextJob,
           RunFails
      <3>2. \A j \in Jobs : ClaimNextJob(w, j) => run'[w].at = "preflight"
        BY <1>1 DEF ClaimNextJob, Typed, RunTyped
      <3>3. run'[w].at \notin {"saved", "billed"}
        BY <2>2, <2>3, <2>12, <3>2 DEF FailExhaustedJobs, CompleteJob, SettleJob, LockTimesOut,
           RunFails, Points, Codes
      <3> QED  BY <2>4, <3>1, <3>3
    <2>13. ASSUME NEW code \in {"retryable", "fatal"}, PublishFails(w, code)
           PROVE  BilledInv'
      <3>1. UNCHANGED <<result, billed>> /\ run'[w].at \notin {"saved", "billed"}
        BY <2>2, <2>13 DEF PublishFails, Points, Codes
      <3>2. proj' = proj \/ result \in billed
        BY <2>13 DEF PublishFails, At, BilledInv
      <3> QED  BY <2>4, <3>1, <3>2
    <2> QED
      BY <1>5, <2>5, <2>6, <2>7, <2>8, <2>9, <2>10, <2>11, <2>12, <2>13 DEF WorkerSteps
  <1>6. ASSUME NEW w \in Workers,
               \/ HeartbeatRenews(w) \/ HeartbeatRefreshes(w) \/ HeartbeatCancels(w)
               \/ HeartbeatTimesOut(w) \/ WorkerCrashes(w)
        PROVE  BilledInv'
    <2>1. \A v \in Workers \ {w} : run'[v] = run[v]
      BY <1>1, <1>6, WorkersApart
    <2>2. run' = LoseLease(w) \/ run' = run \/ run'[w] = Idle
      BY <1>1, <1>6 DEF HeartbeatRenews, HeartbeatRefreshes, HeartbeatCancels,
         HeartbeatTimesOut, WorkerCrashes, Typed, RunTyped
    <2>3. run'[w].at \in {"saved", "billed"} =>
            run[w].at = run'[w].at /\ run[w].started = run'[w].started
      BY <1>1, <2>2, WorkerMoves DEF Kept, Idle
    <2>4. UNCHANGED <<result, billed>> /\ (proj' = proj \/ proj' = [proj EXCEPT !.lease = TRUE])
      BY <1>6 DEF HeartbeatRenews, HeartbeatRefreshes, HeartbeatCancels, HeartbeatTimesOut,
         WorkerCrashes
    <2>5. proj'.status = proj.status
      BY <1>1, <2>4 DEF Typed, ProjTyped, Projections
    <2> QED  BY <1>2, <2>1, <2>3, <2>4, <2>5
  <1>7. CASE TimeNext
    <2>1. UNCHANGED <<result, billed, run>>
          /\ (proj' = proj \/ proj' = [proj EXCEPT !.lease = FALSE])
      BY <1>7 DEF TimeNext, JobLeaseExpires, ProjectionLeaseExpires
    <2>2. proj'.status = proj.status
      BY <1>1, <2>1 DEF Typed, ProjTyped, Projections
    <2> QED  BY <1>2, <2>1, <2>2
  <1> QED  BY <1>4, <1>5, <1>6, <1>7 DEF Next, WorkerNext

-----------------------------------------------------------------------------
(* After the deletion.                                                     *)

(* Nobody is inside the fence of a deleted meeting; who enters it later    *)
(* asks for the tombstone.                                                 *)
LEMMA QuietAfterDeletion ==
  ASSUME IInv, Next, deleted
  PROVE  /\ proj' \in {proj, [proj EXCEPT !.lease = FALSE], NoProjection}
         /\ result' \in {result, None}
         /\ billed' = billed
PROOF
  <1> USE DEF meetingVars, workerVars
  <1>1. fence = None
    BY DEF IInv, FenceFits
  <1>2. \A c \in Clients : post[c].at # "inserted"
    BY <1>1, ConstantsFit DEF IInv, PostsFit, PostFits
  <1>3. \A w \in Workers : run[w].at \notin {"saved", "billed"}
    BY <1>1, ConstantsFit DEF IInv, RunsFit, RunFits
  <1>4. CASE ClientNext
    BY <1>2, <1>4 DEF ClientNext, PostChecks, PostRefused, PostEnqueues, PostProjects, PostLost,
       PostReturnsExisting, DeleteMeeting, CancelJobs, PurgeMeeting
  <1>5. ASSUME NEW w \in Workers, WorkerSteps(w)
        PROVE  UNCHANGED <<proj, result, billed>>
    BY <1>3, <1>5 DEF WorkerSteps, FailExhaustedJobs, ClaimNextJob, Preflight, RunFails,
       PublishFails, SaveResult, RecordUsage, CompleteProjection, FailProjection, CompleteJob, SettleJob,
       RequeueProjection, ReportFailure, LockTimesOut, WrittenUnlessDeleted, At
  <1>6. CASE WorkerNext
    BY <1>5, <1>6 DEF WorkerNext, HeartbeatRenews, HeartbeatRefreshes, HeartbeatCancels,
       HeartbeatTimesOut, WorkerCrashes
  <1>7. CASE TimeNext
    BY <1>7 DEF TimeNext, JobLeaseExpires, ProjectionLeaseExpires
  <1> QED  BY <1>4, <1>6, <1>7 DEF Next

-----------------------------------------------------------------------------
(* The lifecycle of the jobs.                                              *)

status == [j \in Jobs |-> job[j].status]
attempt == [j \in Jobs |-> job[j].attempt]

(* A step that changes one row makes one step of its lifecycle. *)
LEMMA OneRowSteps ==
  ASSUME IInv, NEW j \in Jobs, NEW new \in Row, job' = [job EXCEPT ![j] = new],
         \/ new.status = job[j].status /\ new.attempt = job[j].attempt
         \/ /\ job[j].status = "none" /\ ActiveJobs = {}
            /\ new.status = "queued" /\ new.attempt = job[j].attempt
         \/ /\ job[j].status \in Active /\ job[j].attempt < MaxAttempts
            /\ new.status = "processing" /\ new.attempt = job[j].attempt + 1
         \/ /\ job[j].status = "processing" /\ job[j].attempt < MaxAttempts
            /\ new.status = "retry_wait" /\ new.attempt = job[j].attempt
         \/ /\ job[j].status \in Active /\ new.status \in Terminal
            /\ new.status # "cancelled" => job[j].status = "processing"
            /\ new.attempt = job[j].attempt
  PROVE  [Lifecycle!Next]_<<status, attempt>>
PROOF
  <1>1. /\ status' = [status EXCEPT ![j] = new.status]
        /\ attempt' = [attempt EXCEPT ![j] = new.attempt]
        /\ status[j] = job[j].status /\ attempt[j] = job[j].attempt
    BY DEF IInv, Typed, JobTyped, status, attempt
  <1>2. CASE new.status = job[j].status /\ new.attempt = job[j].attempt
    BY <1>1, <1>2 DEF status, attempt
  <1>3. CASE new.status = "queued" /\ new.attempt = job[j].attempt
             /\ job[j].status = "none" /\ ActiveJobs = {}
    <2>1. Lifecycle!Submit(j)
      BY <1>1, <1>3 DEF Lifecycle!Submit, Lifecycle!Unfinished, ActiveJobs, Active, status, attempt
    <2> QED  BY <2>1 DEF Lifecycle!Next
  <1>4. CASE new.status = "processing" /\ new.attempt = job[j].attempt + 1
             /\ job[j].status \in Active /\ job[j].attempt < MaxAttempts
    <2>1. Lifecycle!Work(j)
      BY <1>1, <1>4 DEF Lifecycle!Work, Lifecycle!Unfinished, Active, status, attempt
    <2> QED  BY <2>1 DEF Lifecycle!Next
  <1>5. CASE new.status = "retry_wait" /\ new.attempt = job[j].attempt
             /\ job[j].status = "processing" /\ job[j].attempt < MaxAttempts
    <2>1. Lifecycle!GiveBack(j)
      BY <1>1, <1>5 DEF Lifecycle!GiveBack, status, attempt
    <2> QED  BY <2>1 DEF Lifecycle!Next
  <1>6. CASE /\ new.status \in Terminal /\ new.attempt = job[j].attempt
             /\ job[j].status \in Active
             /\ new.status # "cancelled" => job[j].status = "processing"
    <2>1. Lifecycle!End(j, new.status)
      BY <1>1, <1>6 DEF Lifecycle!End, Lifecycle!Unfinished, Active, status, attempt
    <2> QED  BY <1>6, <2>1 DEF Lifecycle!Next, Lifecycle!Outcomes, Terminal
  <1> QED  BY <1>2, <1>3, <1>4, <1>5, <1>6


(* Unlocking a row of a job that is processed. *)
LEMMA UnlockSteps ==
  ASSUME IInv, NEW j \in Jobs, job[j].status = "processing",
         NEW new \in Terminal \cup {"retry_wait"}, NEW code \in Codes,
         new = "retry_wait" => job[j].attempt < MaxAttempts,
         job' = Unlocked(j, new, code)
  PROVE  [Lifecycle!Next]_<<status, attempt>>
PROOF
  <1>1. Typed /\ new \in Active \cup Terminal
    BY DEF IInv, Active
  <1>2. /\ job' \in [Jobs -> Row] /\ \A i \in Jobs \ {j} : job'[i] = job[i]
        /\ job'[j].status = new /\ job'[j].attempt = job[j].attempt
    BY <1>1, RowsWritten
  <1>3. job'[j] \in Row /\ job' = [job EXCEPT ![j] = job'[j]]
    BY <1>1, <1>2 DEF Typed, JobTyped
  <1> QED  BY <1>2, <1>3, OneRowSteps DEF Active

LEMMA LifecycleSteps ==
  ASSUME IInv, RowsGood, Next
  PROVE  [Lifecycle!Next]_<<status, attempt>>
PROOF
  <1> DEFINE Steps == [Lifecycle!Next]_<<status, attempt>>
  <1> USE DEF meetingVars, workerVars
  <1>1. Typed /\ job \in [Jobs -> Row] /\ job' \in [Jobs -> Row]
    BY DEF IInv, Typed, JobTyped, RowsGood
  <1>2. ASSUME UNCHANGED job PROVE Steps
    BY <1>2 DEF status, attempt
  \* At most one job changes when all that are unfinished do.
  <1>3. ASSUME NEW j \in Jobs, \A i \in Jobs \ {j} : job'[i] = job[i],
               job[j].status \in Active, job'[j].status \in Terminal,
               job'[j].attempt = job[j].attempt,
               job'[j].status # "cancelled" => job[j].status = "processing"
        PROVE  Steps
    <2>1. job'[j] \in Row /\ job' = [job EXCEPT ![j] = job'[j]]
      BY <1>1, <1>3
    <2> QED  BY <1>3, <2>1, OneRowSteps
  <1>4. ASSUME NEW c \in Clients, NEW j \in Jobs, PostEnqueues(c, j), ~UNCHANGED job
        PROVE  Steps
    <2>1. /\ job' = [job EXCEPT ![j] = job'[j]] /\ job'[j] \in Row
          /\ ActiveJobs = {} /\ job[j].status = "none"
          /\ job'[j].status = "queued" /\ job'[j].attempt = 0
      BY <1>1, <1>4 DEF PostEnqueues, NoJob
    <2>2. job[j].attempt = 0
      BY <2>1 DEF IInv, RowsFit, RowFits
    <2> QED  BY <2>1, <2>2, OneRowSteps
  <1>5. CASE CancelJobs
    <2>1. CASE ActiveJobs = {}
      <3>1. \A i \in Jobs : job'[i] = job[i]
        BY <1>5, <2>1 DEF CancelJobs
      <3> QED  BY <1>1, <1>2, <3>1
    <2>2. ASSUME NEW j \in ActiveJobs PROVE Steps
      <3>1. j \in Jobs /\ job[j].status \in Active /\ job[j] \in Row
            /\ \A i \in Jobs \ {j} : i \notin ActiveJobs
        BY <1>1, <2>2 DEF ActiveJobs, IInv, OneActiveJob
      <3>2. /\ job'[j] = [job[j] EXCEPT !.status = "cancelled", !.lockedBy = None,
                                        !.lease = FALSE]
            /\ \A i \in Jobs \ {j} : job'[i] = job[i]
        BY <1>5, <2>2, <3>1 DEF CancelJobs
      <3>3. job'[j].status = "cancelled" /\ job'[j].attempt = job[j].attempt
        BY <3>1, <3>2 DEF Row
      <3> QED  BY <1>3, <3>1, <3>2, <3>3 DEF Terminal
    <2> QED  BY <2>1, <2>2
  <1>6. CASE PurgeMeeting
    <2>1. \A j \in Jobs : /\ job'[j].status = IF job[j].status = "none" THEN "none" ELSE "deleted"
                          /\ job'[j].attempt = job[j].attempt
      BY <1>1, <1>6 DEF PurgeMeeting, NoJob
    <2>2. Lifecycle!DeleteAll
      BY <2>1 DEF Lifecycle!DeleteAll
    <2> QED  BY <2>2 DEF Lifecycle!Next
  <1>7. ASSUME NEW w \in Workers, FailExhaustedJobs(w) PROVE Steps
    <2>1. PICK j \in Exhausted : TRUE
      BY <1>7 DEF FailExhaustedJobs
    <2>2. j \in Jobs /\ job[j].status \in Active /\ job[j].attempt >= MaxAttempts
          /\ job[j] \in Row /\ \A i \in Jobs \ {j} : i \notin Exhausted
      BY <1>1 DEF Exhausted, ActiveJobs, IInv, OneActiveJob
    <2>3. job[j].status = "processing"
      <3>1. ~(job[j].attempt < MaxAttempts)
        BY <2>2, ConstantsFit DEF Row
      <3> QED  BY <2>2, <3>1 DEF IInv, RowsFit, RowFits, Active
    <2>4. /\ job'[j] = [job[j] EXCEPT !.status = "failed", !.code = "exhausted",
                                      !.lockedBy = None, !.lease = FALSE]
          /\ \A i \in Jobs \ {j} : job'[i] = job[i]
      BY <1>7, <2>1, <2>2 DEF FailExhaustedJobs
    <2>5. job'[j].status = "failed" /\ job'[j].attempt = job[j].attempt
      BY <2>2, <2>4 DEF Row
    <2> QED  BY <1>3, <2>2, <2>3, <2>4, <2>5 DEF Terminal
  <1>8. ASSUME NEW w \in Workers, NEW j \in Jobs, ClaimNextJob(w, j) PROVE Steps
    <2>1. job[j].status \in Active /\ job[j].attempt < MaxAttempts /\ job[j] \in Row
      BY <1>1, <1>8 DEF ClaimNextJob, Due, Active
    <2>2. /\ job'[j].status = "processing" /\ job'[j].attempt = job[j].attempt + 1
          /\ job' = [job EXCEPT ![j] = job'[j]] /\ job'[j] \in Row
      BY <1>1, <1>8 DEF ClaimNextJob, Row
    <2> QED  BY <2>1, <2>2, OneRowSteps
  <1>9. ASSUME NEW w \in Workers, NEW j \in Jobs, job[j].lockedBy = w
        PROVE  job[j].status = "processing"
    BY <1>9, ConstantsFit DEF IInv, RowsFit, RowFits
  <1>10. ASSUME NEW w \in Workers, SettleJob(w), ~UNCHANGED job PROVE Steps
    <2> DEFINE j == run[w].job
    <2>1. /\ j \in Jobs /\ job[j].lockedBy = w
          /\ job[j].attempt = run[w].attempt /\ run[w].code \in Codes
      BY <1>10 DEF SettleJob, At, IInv, RunsFit, RunFits, Typed, RunTyped, Run
    <2>2. PICK new \in Terminal \cup {"retry_wait"}, code \in Codes :
            job' = Unlocked(j, new, code)
            /\ (new = "retry_wait" => run[w].attempt < MaxAttempts)
      BY <1>10, <2>1 DEF SettleJob, Terminal, Codes
    <2> QED  BY <1>9, <2>1, <2>2, UnlockSteps
  <1>11. ASSUME NEW w \in Workers, CompleteJob(w), ~UNCHANGED job PROVE Steps
    <2>1. /\ run[w].job \in Jobs /\ job[run[w].job].lockedBy = w
          /\ job' = Unlocked(run[w].job, "completed", "none")
      BY <1>11 DEF CompleteJob, At, IInv, RunsFit, RunFits
    <2> QED  BY <1>9, <2>1, UnlockSteps DEF Terminal, Codes
  <1>12. ASSUME NEW w \in Workers, HeartbeatCancels(w), ~UNCHANGED job PROVE Steps
    <2>1. /\ beat[w].job \in Jobs /\ job[beat[w].job].lockedBy = w
          /\ job' = Unlocked(beat[w].job, "cancelled", "fatal")
      BY <1>12 DEF HeartbeatCancels, IInv, BeatsFit
    <2> QED  BY <1>9, <2>1, UnlockSteps DEF Terminal, Codes
  <1>13. ASSUME NEW j \in Jobs, NEW lease \in BOOLEAN, job' = [job EXCEPT ![j].lease = lease]
         PROVE  Steps
    <2>1. /\ job'[j].status = job[j].status /\ job'[j].attempt = job[j].attempt
          /\ job' = [job EXCEPT ![j] = job'[j]] /\ job'[j] \in Row
      BY <1>1, <1>13 DEF Row
    <2> QED  BY <2>1, OneRowSteps
  <1>14. ASSUME NEW w \in Workers, HeartbeatRenews(w), ~UNCHANGED job PROVE Steps
    <2>1. run[w].job \in Jobs
      BY <1>1, <1>14 DEF Typed, RunTyped, Run, HeartbeatRenews
    <2> QED  BY <1>13, <1>14, <2>1 DEF HeartbeatRenews
  <1>15. CASE ClientNext
    BY <1>2, <1>4, <1>5, <1>6, <1>15 DEF ClientNext, PostChecks, PostRefused, PostProjects,
       PostLost, PostReturnsExisting, DeleteMeeting
  <1>16. ASSUME NEW w \in Workers, WorkerSteps(w) PROVE Steps
    BY <1>2, <1>7, <1>8, <1>10, <1>11, <1>16 DEF WorkerSteps, Preflight, RunFails, SaveResult,
       PublishFails, RecordUsage, CompleteProjection, FailProjection, RequeueProjection, ReportFailure,
       LockTimesOut
  <1>17. CASE WorkerNext
    BY <1>2, <1>12, <1>14, <1>16, <1>17 DEF WorkerNext, HeartbeatRefreshes, HeartbeatTimesOut,
       WorkerCrashes
  <1>18. CASE TimeNext
    BY <1>2, <1>13, <1>18 DEF TimeNext, JobLeaseExpires, ProjectionLeaseExpires
  <1> QED  BY <1>15, <1>17, <1>18 DEF Next

-----------------------------------------------------------------------------
(* Job rows, projection, POSTs, workers and heartbeats keep their types;   *)
(* attempts stay within the maximum (claimNextJob, failExhaustedJobs).     *)
THEOREM TypeCorrect == Spec => []TypeOK
PROOF
  <1>1. IInv => TypeOK
    BY DEF IInv, Typed, JobTyped, ProjTyped, PostTyped, RunTyped, RestTyped, TypeOK, Row, Post,
       Run, Beat
  <1> QED  BY TypesHold, <1>1, PTL

(* A meeting has one unfinished job, however many POSTs race with workers  *)
(* that reclaim, give back and exhaust it                                  *)
(* (enqueueMeetingFinalizationJobUnsafe).                                  *)
THEOREM OneUnfinished == Spec => []OneActiveJob
PROOF BY TypesHold, PTL DEF IInv

(* After the tombstone no worker, heartbeat or late POST writes the        *)
(* meeting again (runMeetingFinalization, refreshMeetingFinalizationLease, *)
(* queueMeetingFinalization).                                              *)
THEOREM QuietAfterDelete == Spec => NoWriteAfterDelete
PROOF
  <1>1. IInv /\ [Next]_vars =>
          [deleted => /\ proj' \in {proj, [proj EXCEPT !.lease = FALSE], NoProjection}
                      /\ result' \in {result, None}
                      /\ billed' = billed]_vars
    BY QuietAfterDeletion
  <1> QED  BY TypesHold, <1>1, PTL DEF Spec, NoWriteAfterDelete

(* An operation's result is saved once, whatever leases expire, workers    *)
(* die or jobs are reclaimed while an older worker runs, provided that     *)
(* there is one key of regenerations: a key that is used again after       *)
(* another's result is published is a new run (hasActiveJobLease).         *)
THEOREM SavedOnce ==
  ASSUME \A f, g \in Forced : f = g
  PROVE  Spec => []PublishedOnce
PROOF
  <1>1. Init => PublishInv
    BY ConstantsFit DEF Init, PublishInv, PublishedOnce, Idle
  <1>2. IInv /\ IInv' /\ PublishInv /\ [Next]_vars => PublishInv'
    <2>1. ASSUME IInv, IInv', PublishInv, Next PROVE PublishInv'
      BY <2>1, PublishStep DEF IInv
    <2>2. PublishInv /\ UNCHANGED vars => PublishInv'
      BY DEF PublishInv, PublishedOnce, Existing, vars
    <2> QED  BY <2>1, <2>2
  <1>3. PublishInv => PublishedOnce
    BY DEF PublishInv
  <1> QED  BY TypesHold, <1>1, <1>2, <1>3, PTL DEF Spec

(* Where nothing is regenerated, a projection that says "completed" has a  *)
(* result whose usage is recorded, at every crash point of the publish     *)
(* (runMeetingFinalization, completeExistingResult).                       *)
THEOREM CompletedMeansBilled ==
  ASSUME Forced = {}
  PROVE  Spec => []CompletedIsBilled
PROOF
  <1>1. Init => BilledInv
    BY DEF Init, BilledInv, CompletedIsBilled, NoProjection, Idle
  <1>2. IInv /\ IInv' /\ BilledInv /\ [Next]_vars => BilledInv'
    <2>1. ASSUME IInv, IInv', BilledInv, Next PROVE BilledInv'
      BY <2>1, BilledStep DEF IInv
    <2>2. BilledInv /\ UNCHANGED vars => BilledInv'
      BY DEF BilledInv, CompletedIsBilled, vars
    <2> QED  BY <2>1, <2>2
  <1>3. BilledInv => CompletedIsBilled
    BY DEF BilledInv
  <1> QED  BY TypesHold, <1>1, <1>2, <1>3, PTL DEF Spec

(* The rows implement the lifecycle of a job, as far as safety goes: every *)
(* statement on the table is a step of JobLifecycle or none                *)
(* (finalization-queue.ts).                                                *)
THEOREM RowsFollowLifecycle ==
  Spec => Lifecycle!Init /\ [][Lifecycle!Next]_<<status, attempt>>
PROOF
  <1>1. Init => Lifecycle!Init
    BY DEF Init, Lifecycle!Init, NoJob
  <1>2. IInv /\ [Next]_vars => [Lifecycle!Next]_<<status, attempt>>
    <2>1. ASSUME IInv, Next PROVE [Lifecycle!Next]_<<status, attempt>>
      BY <2>1, RowsStep, LifecycleSteps
    <2>2. UNCHANGED vars => UNCHANGED <<status, attempt>>
      BY DEF vars, status, attempt
    <2> QED  BY <2>1, <2>2
  <1> QED  BY TypesHold, <1>1, <1>2, PTL DEF Spec
=============================================================================
