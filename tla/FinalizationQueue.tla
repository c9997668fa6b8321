------------------------- MODULE FinalizationQueue -------------------------
(***************************************************************************)
(* The durable finalization queue of one meeting: the job rows, the        *)
(* processing.json projection that clients poll, the workers that claim    *)
(* jobs and publish the result, their heartbeats, duplicate POSTs and the  *)
(* meeting's deletion.                                                     *)
(*                                                                         *)
(* A job statement is one SQL transaction and takes effect at any time.    *)
(* A projection is read and written under the meeting's write fence, a     *)
(* cross-process lock: sections that end in one step need the fence to be  *)
(* free, longer ones hold it.  Clocks are abstracted: a lease is a Boolean *)
(* that expires at any moment.  One owner and one sealed recording: owner  *)
(* and audio-revision comparisons always succeed and are left out.         *)
(***************************************************************************)
EXTENDS Naturals, FiniteSets

CONSTANTS
  Workers,      \* worker processes, each running one job at a time
  Clients,      \* POST handlers in flight
  Jobs,         \* job ids: a bound on the rows ever inserted
  Forced,       \* operation keys of explicit regenerations (force = true)
  MaxAttempts,  \* OWNMINUTES_FINALIZATION_MAX_ATTEMPTS
  None,
  Heartbeats,   \* TRUE: heartbeats may arrive; FALSE: none does in time
  Crashes,      \* TRUE: workers and API servers may die at any step
  LockTimeouts  \* whose waits for the write fence may time out: {"run", "beat"}

ASSUME QueueAssumption ==
  /\ MaxAttempts \in Nat \ {0}
  /\ None \notin Workers \cup Clients \cup Jobs \cup Forced \cup {"initial"}
  /\ "initial" \notin Forced
  /\ Workers \cap Clients = {}
  /\ Heartbeats \in BOOLEAN
  /\ Crashes \in BOOLEAN
  /\ LockTimeouts \subseteq {"run", "beat"}

VARIABLES
  job,      \* meeting_finalization_jobs
  proj,     \* processing.json
  result,   \* the operation whose result.json is published
  billed,   \* operations with a recorded meeting_finalize usage event
  deleted,  \* the meeting's tombstone exists
  fence,    \* who is inside a fenced section of several steps
  post,     \* what each POST handler is doing
  run,      \* what each worker is doing
  beat,     \* the heartbeat each worker has in flight
  writes    \* history: how often each operation's result was saved

workerVars == <<run, beat>>
meetingVars == <<proj, result, billed, deleted, fence, writes>>
vars == <<job, proj, result, billed, deleted, fence, post, run, beat, writes>>

Ops == {"initial"} \cup Forced
Active == {"queued", "processing", "retry_wait"}
Terminal == {"completed", "failed", "cancelled"}
Codes == {"none", "retryable", "fatal", "lock_timeout", "meeting_deleted",
          "exhausted"}
Points == {"idle", "preflight", "running", "saved", "billed", "finish",
           "failing", "settle", "requeue", "report"}

NoJob == [status |-> "none", attempt |-> 0, lockedBy |-> None, lease |-> FALSE,
          op |-> None, code |-> "none"]
NoProjection == [status |-> "none", job |-> None, op |-> None, lease |-> FALSE]
Idle == [at |-> "idle", job |-> None, started |-> NoProjection, attempt |-> 0,
         lost |-> FALSE, code |-> "none"]
NoBeat == [at |-> "none", job |-> None, mine |-> FALSE]
NoPost == [at |-> "none", op |-> None, job |-> None, processing |-> FALSE]

Projections == [status : {"none", "queued", "processing", "completed", "failed"},
                job : Jobs \cup {None}, op : Ops \cup {None}, lease : BOOLEAN]

TypeOK ==
  /\ job \in [Jobs -> [status : Active \cup Terminal \cup {"none", "deleted"},
                       attempt : 0..MaxAttempts, lockedBy : Workers \cup {None},
                       lease : BOOLEAN, op : Ops \cup {None}, code : Codes]]
  /\ proj \in Projections
  /\ result \in Ops \cup {None}
  /\ billed \subseteq Ops
  /\ deleted \in BOOLEAN
  /\ fence \in Workers \cup Clients \cup {None}
  /\ post \in [Clients -> [at : {"none", "checked", "inserted"},
                           op : Ops \cup {None}, job : Jobs \cup {None},
                           processing : BOOLEAN]]
  /\ run \in [Workers -> [at : Points, job : Jobs \cup {None},
                          started : Projections, attempt : 0..MaxAttempts,
                          lost : BOOLEAN, code : Codes]]
  /\ beat \in [Workers -> [at : {"none", "renewed", "cancel"},
                           job : Jobs \cup {None}, mine : BOOLEAN]]
  /\ writes \in [Ops -> Nat]

Init ==
  /\ job = [j \in Jobs |-> NoJob]
  /\ proj = NoProjection
  /\ result = None
  /\ billed = {}
  /\ deleted = FALSE
  /\ fence = None
  /\ post = [c \in Clients |-> NoPost]
  /\ run = [w \in Workers |-> Idle]
  /\ beat = [w \in Workers |-> NoBeat]
  /\ writes = [o \in Ops |-> 0]

-----------------------------------------------------------------------------
(* The projection.                                                         *)

(* sameFinalizationIdentity *)
SameRun(p, q) == p.job = q.job /\ p.op = q.op

(* queueMeetingFinalization *)
QueuedProjection(j) ==
  [status |-> "queued", job |-> j, op |-> job[j].op, lease |-> FALSE]

(* startMeetingFinalization keeps the job id of a run of the same operation. *)
StartedProjection(op) ==
  IF proj.status = "completed" /\ proj.op = op THEN proj
  ELSE [status |-> "processing", op |-> op, lease |-> TRUE,
        job |-> IF proj.op = op THEN proj.job ELSE None]

(* completeMeetingFinalization *)
CompletedProjection(started) ==
  IF proj.status # "none" /\ ~SameRun(proj, started) THEN proj
  ELSE [started EXCEPT !.status = "completed", !.lease = FALSE]

(* failMeetingFinalization *)
FailedProjection(started) ==
  IF proj.status = "completed" \/ (proj.status # "none" /\ ~SameRun(proj, started))
  THEN proj
  ELSE [started EXCEPT !.status = "failed", !.lease = FALSE]

(* completeExistingResult *)
ExistingCompleted ==
  CompletedProjection(IF proj.status = "none" THEN StartedProjection(result)
                      ELSE proj)

-----------------------------------------------------------------------------
(* POST finalize and the enqueue.                                          *)

(* Mutant: a job in processing does not count as active. *)
WaitingJobs == {j \in Jobs : job[j].status \in {"queued", "retry_wait"}}

ActiveJobs == {j \in Jobs : job[j].status \in Active}

(***************************************************************************)
(* The route reads the result before the enqueue takes the fence; what it  *)
(* read may be out of date by then.  A current result is returned inline.  *)
(***************************************************************************)
PostChecks(c, op) ==
  /\ post[c].at = "none"
  /\ ~deleted
  /\ result = None \/ op \in Forced
  /\ post' = [post EXCEPT ![c] = [NoPost EXCEPT !.at = "checked", !.op = op]]
  /\ UNCHANGED <<job, meetingVars, workerVars>>

(* Mutant: an existing result is taken to be billed already. *)
BilledBefore == billed

(* completeExistingResult records usage again; the event is idempotent. *)
ExistingBilled == billed \cup {result}

(* An inline finalize of a current result: the preflight of the API server. *)
PostReturnsExisting ==
  /\ ~deleted /\ fence = None
  /\ result # None
  /\ billed' = ExistingBilled
  /\ proj' = ExistingCompleted
  /\ UNCHANGED <<job, result, deleted, fence, writes, post, workerVars>>

(* Deleted meanwhile, or another operation is active: 410 or 409. *)
PostRefused(c) ==
  /\ post[c].at = "checked"
  /\ fence = None
  /\ \/ deleted
     \/ \E j \in ActiveJobs : post[c].op \in Forced /\ job[j].op # post[c].op
  /\ post' = [post EXCEPT ![c] = NoPost]
  /\ UNCHANGED <<job, meetingVars, workerVars>>

(* The enqueue transaction joins the active job or inserts a new one. *)
PostEnqueues(c, j) ==
  LET op == post[c].op
  IN  /\ post[c].at = "checked"
      /\ fence = None /\ ~deleted
      /\ IF ActiveJobs # {}
         THEN /\ j \in ActiveJobs
              /\ op \in Forced => job[j].op = op
              /\ job' = job
         ELSE /\ job[j].status = "none"
              /\ job' = [job EXCEPT ![j] = [NoJob EXCEPT !.status = "queued",
                                                         !.op = op]]
      /\ fence' = c
      /\ post' = [post EXCEPT ![c] =
                    [at |-> "inserted", op |-> op, job |-> j,
                     processing |-> job'[j].status = "processing"]]
      /\ UNCHANGED <<proj, result, billed, deleted, writes, workerVars>>

(***************************************************************************)
(* Still under the fence: the projection is queued again unless the job    *)
(* was being processed when the transaction read it and the projection     *)
(* says so too.                                                            *)
(***************************************************************************)
PostProjects(c) ==
  LET j == post[c].job
      keep == /\ post[c].processing
              /\ proj.status = "processing"
              /\ proj.job = j /\ proj.op = job[j].op
  IN  /\ post[c].at = "inserted"
      /\ proj' = IF keep THEN proj ELSE QueuedProjection(j)
      /\ fence' = None
      /\ post' = [post EXCEPT ![c] = NoPost]
      /\ UNCHANGED <<job, result, billed, deleted, writes, workerVars>>

(* The API server dies; its session's lock goes with it. *)
PostLost(c) ==
  /\ Crashes
  /\ post[c].at # "none"
  /\ post' = [post EXCEPT ![c] = NoPost]
  /\ fence' = IF fence = c THEN None ELSE fence
  /\ UNCHANGED <<job, proj, result, billed, deleted, writes, workerVars>>

-----------------------------------------------------------------------------
(* Deletion of the meeting.                                                *)

(* deleteUserMeeting: the tombstone, under the meeting's lock. *)
DeleteMeeting ==
  /\ ~deleted /\ fence = None
  /\ deleted' = TRUE
  /\ UNCHANGED <<job, proj, result, billed, fence, writes, post, workerVars>>

(* cancelMeetingFinalizationJobs, which the DELETE route does not await. *)
CancelJobs ==
  /\ deleted
  /\ job' = [j \in Jobs |-> IF j \in ActiveJobs
                            THEN [job[j] EXCEPT !.status = "cancelled",
                                    !.lockedBy = None, !.lease = FALSE]
                            ELSE job[j]]
  /\ UNCHANGED <<meetingVars, post, workerVars>>

(* purgeMeetingRelationalData and the object prefix; retried until done. *)
PurgeMeeting ==
  /\ deleted /\ fence = None
  /\ proj' = NoProjection
  /\ result' = None
  /\ job' = [j \in Jobs |-> IF job[j].status = "none" THEN job[j]
                            ELSE [NoJob EXCEPT !.status = "deleted",
                                               !.attempt = job[j].attempt]]
  /\ UNCHANGED <<billed, deleted, fence, writes, post, workerVars>>

-----------------------------------------------------------------------------
(* The worker loop.                                                        *)

At(w, point) == run[w].at = point

Stop(w) == /\ run' = [run EXCEPT ![w] = Idle]
           /\ beat' = [beat EXCEPT ![w].mine = FALSE]

GoTo(w, point) == /\ run' = [run EXCEPT ![w].at = point]
                  /\ UNCHANGED beat

Throw(w, point, code) ==
  /\ run' = [run EXCEPT ![w].at = point, ![w].code = code]
  /\ UNCHANGED beat

Unlocked(j, status, code) ==
  [job EXCEPT ![j].status = status, ![j].code = code, ![j].lockedBy = None,
              ![j].lease = FALSE]

(* Mutant: off by one, the last attempt does not exhaust the job. *)
BeyondExhausted ==
  {j \in ActiveJobs : /\ job[j].attempt > MaxAttempts
                      /\ job[j].status = "processing" => ~job[j].lease}

Exhausted ==
  {j \in ActiveJobs : /\ job[j].attempt >= MaxAttempts
                      /\ job[j].status = "processing" => ~job[j].lease}

(* failExhaustedJobs: the statement, then the projection (ReportFailure). *)
FailExhaustedJobs(w) ==
  /\ At(w, "idle")
  /\ ~deleted
  /\ Exhausted # {}
  /\ job' = [j \in Jobs |-> IF j \in Exhausted
                            THEN [job[j] EXCEPT !.status = "failed",
                                    !.code = "exhausted", !.lockedBy = None,
                                    !.lease = FALSE]
                            ELSE job[j]]
  /\ GoTo(w, "report")
  /\ UNCHANGED <<meetingVars, post>>

(* Mutant: the attempts of a reclaimed job are not limited. *)
DueForEver(j) ==
  job[j].status \in {"queued", "retry_wait"}
    \/ (job[j].status = "processing" /\ ~job[j].lease)

(* A waiting job, or one whose worker let the lease expire. *)
Due(j) ==
  /\ job[j].attempt < MaxAttempts
  /\ \/ job[j].status \in {"queued", "retry_wait"}
     \/ job[j].status = "processing" /\ ~job[j].lease

(* claimNextJob *)
ClaimNextJob(w, j) ==
  /\ At(w, "idle")
  /\ ~deleted
  /\ Due(j)
  /\ job' = [job EXCEPT ![j].status = "processing", ![j].lockedBy = w,
                        ![j].attempt = @ + 1, ![j].lease = TRUE,
                        ![j].code = "none"]
  /\ run' = [run EXCEPT ![w] = [Idle EXCEPT !.at = "preflight", !.job = j,
                                            !.attempt = job[j].attempt + 1]]
  /\ UNCHANGED <<meetingVars, post, beat>>

(***************************************************************************)
(* The preflight of runMeetingFinalization, one fenced section: hand out   *)
(* the existing result, stand back while another run's projection lease is *)
(* alive, or start a run of this job's operation.  An explicit job stands  *)
(* back before it asks whether the result is already its own.              *)
(***************************************************************************)
Preflight(w) ==
  LET op == job[run[w].job].op
      existing == result # None /\ (op \in Forced => result = op)
      standsBack == /\ proj.status = "processing" /\ proj.lease
                    /\ op \in Forced \/ ~existing
  IN  /\ At(w, "preflight")
      /\ fence = None
      /\ \/ /\ deleted
            /\ Throw(w, "settle", "meeting_deleted")
            /\ UNCHANGED <<proj, billed>>
         \/ /\ ~deleted /\ ~standsBack /\ existing
            /\ billed' = ExistingBilled
            /\ proj' = ExistingCompleted
            /\ GoTo(w, "finish")
         \/ /\ ~deleted /\ standsBack
            /\ Throw(w, "settle", "retryable")
            /\ UNCHANGED <<proj, billed>>
         \/ /\ ~deleted /\ ~standsBack /\ ~existing
            /\ proj' = StartedProjection(op)
            /\ run' = [run EXCEPT ![w].at = "running",
                                  ![w].started = StartedProjection(op)]
            /\ UNCHANGED <<billed, beat>>
      /\ UNCHANGED <<job, result, deleted, fence, writes, post>>

(* External: audio, quota or a provider fails the run. *)
RunFails(w, code) ==
  /\ At(w, "running")
  /\ Throw(w, "failing", code)
  /\ UNCHANGED <<job, meetingVars, post>>

(* Mutant: the worker trusts its last heartbeat instead of the row. *)
NotToldLost(w) == ~run[w].lost

(* assertProcessingLease with hasActiveJobLease *)
HasJobLease(w) ==
  LET j == run[w].job
  IN  ~run[w].lost /\ job[j].lockedBy = w /\ job[j].lease

(***************************************************************************)
(* Publishing is one fenced section of three durable writes: the result,   *)
(* its usage event and the completed projection.                           *)
(***************************************************************************)
SaveResult(w) ==
  LET op == run[w].started.op
  IN  /\ At(w, "running")
      /\ fence = None
      /\ \/ /\ deleted
            /\ Throw(w, "settle", "meeting_deleted")
            /\ UNCHANGED <<result, fence, writes>>
         \/ /\ ~deleted /\ ~HasJobLease(w)
            /\ Throw(w, "failing", "retryable")
            /\ UNCHANGED <<result, fence, writes>>
         \/ /\ ~deleted /\ HasJobLease(w)
            /\ result' = op
            /\ writes' = [writes EXCEPT ![op] = @ + 1]
            /\ fence' = w
            /\ GoTo(w, "saved")
      /\ UNCHANGED <<job, proj, billed, deleted, post>>

RecordUsage(w) ==
  /\ At(w, "saved")
  /\ billed' = billed \cup {run[w].started.op}
  /\ GoTo(w, "billed")
  /\ UNCHANGED <<job, proj, result, deleted, fence, writes, post>>

CompleteProjection(w) ==
  /\ At(w, "billed")
  /\ proj' = CompletedProjection(run[w].started)
  /\ fence' = None
  /\ GoTo(w, "finish")
  /\ UNCHANGED <<job, result, billed, deleted, writes, post>>

(***************************************************************************)
(* The publish section throws after the result was saved: the usage is     *)
(* refused or its query fails, or the projection's write fails, which may  *)
(* have stored it all the same.                                            *)
(***************************************************************************)
PublishFails(w, code) ==
  /\ \/ At(w, "saved") /\ UNCHANGED proj
     \/ At(w, "billed") /\ proj' \in {proj, CompletedProjection(run[w].started)}
  /\ fence' = None
  /\ Throw(w, "failing", code)
  /\ UNCHANGED <<job, result, billed, deleted, writes, post>>

(* The catch of runMeetingFinalization: fail the projection it started. *)
FailProjection(w) ==
  /\ At(w, "failing")
  /\ fence = None
  /\ IF deleted
     THEN Throw(w, "settle", "meeting_deleted") /\ UNCHANGED proj
     ELSE GoTo(w, "settle") /\ proj' = FailedProjection(run[w].started)
  /\ UNCHANGED <<job, result, billed, deleted, fence, writes, post>>

(* completeJob *)
CompleteJob(w) ==
  LET j == run[w].job
      owned == job[j].lockedBy = w /\ job[j].lease
  IN  /\ At(w, "finish")
      /\ IF owned
         THEN job' = Unlocked(j, "completed", "none") /\ Stop(w)
         ELSE job' = job /\ Throw(w, "settle", "retryable")
      /\ UNCHANGED <<meetingVars, post>>

(* normalizeWorkerError: every error of the meeting lock is final. *)
Retryable(code) == code = "retryable"

(***************************************************************************)
(* The catch of runFinalizationWorkerOnce: cancelJob, retryJobLater or     *)
(* failJob, each only for the worker that still has the row locked.        *)
(***************************************************************************)
SettleJob(w) ==
  LET j == run[w].job
      code == run[w].code
      again == Retryable(code) /\ run[w].attempt < MaxAttempts
  IN  /\ At(w, "settle")
      /\ \/ /\ job[j].lockedBy # w
            /\ Stop(w) /\ UNCHANGED job
         \/ /\ job[j].lockedBy = w /\ code = "meeting_deleted"
            /\ job' = Unlocked(j, "cancelled", code) /\ Stop(w)
         \/ /\ job[j].lockedBy = w /\ code # "meeting_deleted" /\ again
            /\ job' = Unlocked(j, "retry_wait", code) /\ GoTo(w, "requeue")
         \/ /\ job[j].lockedBy = w /\ code # "meeting_deleted" /\ ~again
            /\ job' = Unlocked(j, "failed", code) /\ GoTo(w, "report")
      /\ UNCHANGED <<meetingVars, post>>

(* Mutant: a projection is written without asking for the tombstone. *)
WrittenAnyway(p) == p

(* isMeetingWriteAllowed: a deleted meeting keeps the projection it has. *)
WrittenUnlessDeleted(p) == IF deleted THEN proj ELSE p

(* queueMeetingFinalization after retryJobLater, in a step of its own. *)
RequeueProjection(w) ==
  /\ At(w, "requeue")
  /\ fence = None
  /\ proj' = WrittenUnlessDeleted(QueuedProjection(run[w].job))
  /\ Stop(w)
  /\ UNCHANGED <<job, result, billed, deleted, fence, writes, post>>

(***************************************************************************)
(* After failJob or failExhaustedJobs: whatever projection is current is   *)
(* failed, whichever job it belongs to by then.                            *)
(***************************************************************************)
ReportFailure(w) ==
  /\ At(w, "report")
  /\ fence = None
  /\ proj' = IF proj.status = "none" THEN proj
             ELSE WrittenUnlessDeleted(FailedProjection(proj))
  /\ Stop(w)
  /\ UNCHANGED <<job, result, billed, deleted, fence, writes, post>>

WorkerCrashes(w) ==
  /\ Crashes
  /\ ~At(w, "idle")
  /\ run' = [run EXCEPT ![w] = Idle]
  /\ beat' = [beat EXCEPT ![w] = NoBeat]
  /\ fence' = IF fence = w THEN None ELSE fence
  /\ UNCHANGED <<job, proj, result, billed, deleted, writes, post>>

(***************************************************************************)
(* meeting_write_lock_timeout: a fenced section cannot start because other *)
(* traffic of the meeting, or a backup, holds the lock too long.  The      *)
(* finalizer's own catch makes it retryable; outside of it the worker sees *)
(* the MeetingAccessError itself.                                          *)
(***************************************************************************)
LockTimesOut(w) ==
  /\ "run" \in LockTimeouts
  /\ \/ At(w, "preflight") /\ Throw(w, "settle", "lock_timeout")
     \/ At(w, "running") /\ Throw(w, "settle", "retryable")
     \/ At(w, "failing") /\ Throw(w, "settle", "lock_timeout")
     \/ (At(w, "requeue") \/ At(w, "report")) /\ Stop(w)
  /\ UNCHANGED <<job, meetingVars, post>>

-----------------------------------------------------------------------------
(* Heartbeats: a timer of the claim; one started may outlive its run.      *)

LoseLease(w) == [run EXCEPT ![w].lost = IF At(w, "idle") THEN FALSE ELSE TRUE]

HeartbeatRenews(w) ==
  LET j == run[w].job
  IN  /\ Heartbeats
      /\ beat[w].at = "none"
      /\ run[w].job # None
      /\ IF job[j].lockedBy = w
         THEN /\ job' = [job EXCEPT ![j].lease = TRUE]
              /\ beat' = [beat EXCEPT ![w] =
                            [at |-> "renewed", job |-> j, mine |-> TRUE]]
              /\ UNCHANGED run
         ELSE run' = LoseLease(w) /\ UNCHANGED <<job, beat>>
      /\ UNCHANGED <<meetingVars, post>>

(* refreshMeetingFinalizationLease; a projection of another run cancels. *)
HeartbeatRefreshes(w) ==
  LET j == beat[w].job
      same == /\ proj.status = "processing"
              /\ proj.job = j /\ proj.op = job[j].op
  IN  /\ beat[w].at = "renewed"
      /\ fence = None
      /\ IF ~deleted /\ same
         THEN /\ proj' = [proj EXCEPT !.lease = TRUE]
              /\ beat' = [beat EXCEPT ![w] = NoBeat]
         ELSE /\ beat' = [beat EXCEPT ![w].at = "cancel"]
              /\ UNCHANGED proj
      /\ UNCHANGED <<job, result, billed, deleted, fence, writes, post, run>>

HeartbeatCancels(w) ==
  LET j == beat[w].job
  IN  /\ beat[w].at = "cancel"
      /\ job' = IF job[j].lockedBy = w THEN Unlocked(j, "cancelled", "fatal")
                ELSE job
      /\ run' = IF beat[w].mine THEN LoseLease(w) ELSE run
      /\ beat' = [beat EXCEPT ![w] = NoBeat]
      /\ UNCHANGED <<meetingVars, post>>

HeartbeatTimesOut(w) ==
  /\ "beat" \in LockTimeouts
  /\ beat[w].at = "renewed"
  /\ run' = IF beat[w].mine THEN LoseLease(w) ELSE run
  /\ beat' = [beat EXCEPT ![w] = NoBeat]
  /\ UNCHANGED <<job, meetingVars, post>>

-----------------------------------------------------------------------------
(* Time: a lease runs out unless a heartbeat comes first.                  *)

JobLeaseExpires(j) ==
  /\ job[j].lease
  /\ job' = [job EXCEPT ![j].lease = FALSE]
  /\ UNCHANGED <<meetingVars, post, workerVars>>

ProjectionLeaseExpires ==
  /\ proj.lease
  /\ proj' = [proj EXCEPT !.lease = FALSE]
  /\ UNCHANGED <<job, result, billed, deleted, fence, writes, post, workerVars>>

-----------------------------------------------------------------------------
WorkerSteps(w) ==
  \/ FailExhaustedJobs(w)
  \/ \E j \in Jobs : ClaimNextJob(w, j)
  \/ Preflight(w)
  \/ \E code \in {"retryable", "fatal"} : RunFails(w, code) \/ PublishFails(w, code)
  \/ SaveResult(w)
  \/ RecordUsage(w)
  \/ CompleteProjection(w)
  \/ FailProjection(w)
  \/ CompleteJob(w)
  \/ SettleJob(w)
  \/ RequeueProjection(w)
  \/ ReportFailure(w)
  \/ LockTimesOut(w)

ClientNext ==
  \/ \E c \in Clients : \/ \E op \in Ops : PostChecks(c, op)
                        \/ PostRefused(c)
                        \/ \E j \in Jobs : PostEnqueues(c, j)
                        \/ PostProjects(c)
                        \/ PostLost(c)
  \/ PostReturnsExisting
  \/ DeleteMeeting
  \/ CancelJobs
  \/ PurgeMeeting

WorkerNext ==
  \E w \in Workers : \/ WorkerSteps(w)
                     \/ HeartbeatRenews(w)
                     \/ HeartbeatRefreshes(w)
                     \/ HeartbeatCancels(w)
                     \/ HeartbeatTimesOut(w)
                     \/ WorkerCrashes(w)

TimeNext == ProjectionLeaseExpires \/ \E j \in Jobs : JobLeaseExpires(j)

Next == ClientNext \/ WorkerNext \/ TimeNext

Spec == Init /\ [][Next]_vars

(***************************************************************************)
(* Fairness.  Workers poll for ever and PostgreSQL hands out the fence in  *)
(* order, so a step that waits for it is strongly fair; the holder goes    *)
(* on; nobody renews the lease of a worker that is gone; the deletion      *)
(* cleanup is a durable retry.  Clients, crashes and heartbeats owe        *)
(* nothing.                                                                *)
(***************************************************************************)
OrphanLeaseExpires(j) ==
  /\ job[j].lockedBy # None
  /\ run[job[j].lockedBy].job # j
  /\ JobLeaseExpires(j)

Fairness ==
  /\ \A w \in Workers : SF_vars(WorkerSteps(w))
  /\ \A c \in Clients : WF_vars(PostProjects(c))
  /\ \A j \in Jobs : WF_vars(OrphanLeaseExpires(j))
  /\ WF_vars(ProjectionLeaseExpires)
  /\ SF_vars(PurgeMeeting)

FairSpec == Spec /\ Fairness

-----------------------------------------------------------------------------
(* Properties.                                                             *)

(* However many POSTs race, a meeting has one unfinished job: the advisory *)
(* transaction lock of enqueueMeetingFinalizationJobUnsafe is there for it. *)
OneActiveJob ==
  \A i, j \in Jobs : {job[i].status, job[j].status} \subseteq Active => i = j

(* One operation's result is saved once, whatever leases expire, workers   *)
(* die or jobs are reclaimed while an older worker still runs: a retry     *)
(* finds the result, a worker that lost its lease stops before saving.     *)
PublishedOnce == \A op \in Ops : writes[op] =< 1

(* Clients take "completed" for the end of a run: its result is there and  *)
(* its usage event was recorded, at every crash point of the publish.      *)
CompletedIsBilled == proj.status = "completed" => result \in billed

(* A publish that began before the deletion finishes before it; after it   *)
(* no worker, heartbeat or late POST writes the meeting again.             *)
NoWriteAfterDelete ==
  [][deleted => /\ proj' \in {proj, [proj EXCEPT !.lease = FALSE], NoProjection}
                /\ result' \in {result, None}
                /\ billed' = billed]_vars

(* The queue's rows implement the lifecycle it promises, with liveness.    *)
Lifecycle == INSTANCE JobLifecycle WITH
  status <- [j \in Jobs |-> job[j].status],
  attempt <- [j \in Jobs |-> job[j].attempt]

ImplementsLifecycle == Lifecycle!Spec
=============================================================================
