----------------------- MODULE AccountDeletionProofs ------------------------
(***************************************************************************)
(* What holds of the deletion of an account for any requests, workers,     *)
(* meetings and transfers: the rows are well typed and claims bounded, a   *)
(* receipt is true, nothing is forgotten, and every object has an owner.   *)
(***************************************************************************)
EXTENDS AccountDeletion, TLAPS

(* Nothing is left of a meeting, and its deletion is over. *)
Settled(m) == Erased(m) /\ tomb[m] # "pending"

(* A transfer on its way has its intent, which outlives its handler. *)
IntentsHeld ==
  \A t \in Transfers :
    put[t] \in {"sending", "landed", "late", "orphan"} => intent[t] = "live"

(* Only a cleaning removes a manifest, after the tombstone, and the fence  *)
(* is what a complete one leaves.                                          *)
TombsFit ==
  \A m \in Meetings : /\ tomb[m] = "none" => "manifest" \in objects[m]
                      /\ tomb[m] = "fence" => Erased(m)

(* A DELETE has the account's lock until it answers, and the job while it  *)
(* deletes; whoever has read the job's table found no row of a deleted     *)
(* account.                                                                *)
RequestFits(r) ==
  /\ at[r] \in {"check", "schedule", "delete", "cancel"} => ulock = r
  /\ at[r] \in {"check", "schedule", "delete"} => ~deleted
  /\ at[r] = "delete" => job.row
  /\ at[r] \in {"tombstones", "jobs", "catalog", "coverage", "transfers"} => deleted
  /\ at[r] \in {"catalog", "coverage", "transfers"} => ~job.row

RequestsFit == \A r \in Requests : RequestFits(r)

(* The job goes when nothing is left; nothing comes back. *)
JobKept == deleted => job.row \/ \A m \in Meetings : Settled(m)

ToldRight == told => deleted /\ ~job.row

(* What a pass without a failure has visited, or never had to, is settled. *)
PassFits(w) ==
  /\ pass[w].at # "idle" => deleted
  /\ pass[w].at = "visit" /\ ~pass[w].pending =>
       \A m \in Meetings : m \in pass[w].todo \/ Settled(m)
  /\ pass[w].at \in {"catalog", "coverage", "transfers", "unowned", "finish"} =>
       \A m \in Meetings : Settled(m)

PassesFit == \A w \in Workers : PassFits(w)

(* A claim whose pass has stopped, or is too old, cost a fault. *)
Spent == job.holder # None /\ (pass[job.holder].at = "idle" \/ ~job.fresh)

AttemptsFit ==
  /\ job.attempt \in Nat /\ job.attempt =< MaxAttempts + faults
  /\ job.holder = None /\ ~job.dead => job.attempt < MaxAttempts
  /\ Spent => job.attempt < MaxAttempts + faults

(* TypeOK, but for the bound of the attempts *)
JobRow == [row : BOOLEAN, holder : Workers \cup {None}, fresh : BOOLEAN,
           due : BOOLEAN, attempt : Nat, dead : BOOLEAN]
RequestStages == {"tombstones", "jobs", "catalog", "coverage", "transfers", "idle",
                  "check", "schedule", "delete", "cancel", "answered"}
PassRow == [at : {"idle", "discover", "visit", "finish", "retry", "catalog", "coverage",
                  "transfers", "unowned"},
            todo : SUBSET Meetings, pending : BOOLEAN]

StoreTyped ==
  /\ tomb \in [Meetings -> {"none", "pending", "fence"}]
  /\ objects \in [Meetings -> SUBSET Objects]
  /\ catalog \subseteq Meetings
  /\ coverage \in [Meetings -> {"none", "owned", "unowned"}]
  /\ intent \in [Transfers -> {"none", "live", "expired"}]

ProcsTyped ==
  /\ ulock \in Requests \cup {None}
  /\ mlock \in [Meetings -> Edits \cup {None}]
  /\ at \in [Requests -> RequestStages]
  /\ put \in [Transfers -> {"idle", "sending", "landed", "late", "orphan", "done"}]
  /\ pass \in [Workers -> PassRow]

RestTyped ==
  /\ deleted \in BOOLEAN /\ told \in BOOLEAN
  /\ job \in JobRow
  /\ audit \in [fresh : BOOLEAN, clean : BOOLEAN]
  /\ faults \in 0..MaxFaults

Typed == StoreTyped /\ ProcsTyped /\ RestTyped

StoreFits == IntentsHeld /\ TombsFit

IInv ==
  Typed /\ StoreFits /\ RequestsFit /\ JobKept /\ ToldRight /\ PassesFit
    /\ AttemptsFit

(* The disjuncts of Next, by who takes the step. *)
RequestStep ==
  \E r \in Requests : RequestNext(r) \/ RequestCrashes(r) \/ AskWithReceipt(r)
TransferStep ==
  \/ \E t \in Parts : PartNext(t)
  \/ \E t \in Edits : EditNext(t)
  \/ \E t \in Transfers : TransferCrashes(t) \/ OrphanLands(t) \/ IntentExpires(t)
MeetingStep == \E m \in Meetings : DeleteMeeting(m) \/ MeetingCleanup(m)
WorkerStep == \E w \in Workers : Audit(w) \/ Claim(w) \/ PassNext(w) \/ WorkerStops(w)
ClockStep == AuditAges \/ ClaimGoesStale \/ BecomesDue \/ Replay

-----------------------------------------------------------------------------
(* The tables a status and a pass ask, in their order. *)
LEMMA Tables ==
  /\ Reads = {"tombstones", "jobs", "catalog", "coverage", "transfers"}
  /\ DOMAIN NextRead = {"tombstones", "jobs", "catalog", "coverage"}
  /\ NextRead["tombstones"] = "jobs" /\ NextRead["jobs"] = "catalog"
  /\ NextRead["catalog"] = "coverage" /\ NextRead["coverage"] = "transfers"
  /\ DOMAIN NextCheck = {"catalog", "coverage", "transfers", "unowned"}
  /\ NextCheck["catalog"] = "coverage" /\ NextCheck["coverage"] = "transfers"
  /\ NextCheck["transfers"] = "unowned" /\ NextCheck["unowned"] = "finish"
PROOF
  <1>1. DOMAIN NextRead = {"tombstones", "jobs", "catalog", "coverage"}
    BY DEF NextRead
  <1>2. /\ NextRead["tombstones"] = "jobs" /\ NextRead["jobs"] = "catalog"
        /\ NextRead["catalog"] = "coverage" /\ NextRead["coverage"] = "transfers"
    BY DEF NextRead
  <1>3. DOMAIN NextCheck = {"catalog", "coverage", "transfers", "unowned"}
    BY DEF NextCheck
  <1>4. /\ NextCheck["catalog"] = "coverage" /\ NextCheck["coverage"] = "transfers"
        /\ NextCheck["transfers"] = "unowned" /\ NextCheck["unowned"] = "finish"
    BY DEF NextCheck
  <1>5. {NextRead[r] : r \in DOMAIN NextRead} = {"jobs", "catalog", "coverage", "transfers"}
    BY <1>1, <1>2
  <1> QED  BY <1>1, <1>2, <1>3, <1>4, <1>5 DEF Reads, FirstRead

(* The bound of the attempts is the one TypeOK asks for. *)
LEMMA InvariantIsTyped == IInv => TypeOK
PROOF
  <1> SUFFICES ASSUME IInv PROVE TypeOK
    OBVIOUS
  <1>1. job.attempt \in 0..(MaxAttempts + MaxFaults)
    BY AccountAssumption DEF IInv, AttemptsFit, Typed, RestTyped
  <1>2. job \in [row : BOOLEAN, holder : Workers \cup {None}, fresh : BOOLEAN,
                 due : BOOLEAN, attempt : 0..(MaxAttempts + MaxFaults), dead : BOOLEAN]
    BY <1>1 DEF IInv, Typed, RestTyped, JobRow
  <1>3. at \in [Requests -> Reads \cup {"idle", "check", "schedule", "delete", "cancel",
                                        "answered"}]
    BY Tables DEF IInv, Typed, ProcsTyped, RequestStages
  <1>4. pass \in [Workers -> [at : {"idle", "discover", "visit", "finish", "retry"}
                                     \cup DOMAIN NextCheck,
                              todo : SUBSET Meetings, pending : BOOLEAN]]
    BY Tables DEF IInv, Typed, ProcsTyped, PassRow
  <1> QED  BY <1>2, <1>3, <1>4 DEF IInv, Typed, StoreTyped, ProcsTyped, RestTyped, TypeOK

(* An active account that nobody has asked to delete. *)
LEMMA InitFits == Init => IInv
PROOF
  <1> SUFFICES ASSUME Init PROVE IInv
    OBVIOUS
  <1>1. Typed
    <2>1. StoreTyped
      <3>1. objects \in [Meetings -> SUBSET Objects]
        BY DEF Init, Objects
      <3> QED  BY <3>1 DEF Init, StoreTyped
    <2>2. ProcsTyped
      <3>1. Idle \in PassRow
        BY DEF Idle, PassRow
      <3>2. pass \in [Workers -> PassRow]
        BY <3>1 DEF Init
      <3> QED  BY <3>2 DEF Init, ProcsTyped, RequestStages
    <2>3. RestTyped
      <3>1. NoJob \in JobRow
        BY DEF NoJob, JobRow
      <3>2. faults \in 0..MaxFaults
        BY AccountAssumption DEF Init
      <3> QED  BY <3>1, <3>2 DEF Init, RestTyped
    <2> QED  BY <2>1, <2>2, <2>3 DEF Typed
  <1>2. StoreFits
    BY DEF Init, StoreFits, IntentsHeld, TombsFit
  <1>3. RequestsFit /\ JobKept /\ ToldRight /\ PassesFit
    BY DEF Init, RequestsFit, RequestFits, JobKept, ToldRight, PassesFit, PassFits, Idle
  <1>4. AttemptsFit
    BY AccountAssumption DEF Init, AttemptsFit, Spent, NoJob
  <1> QED  BY <1>1, <1>2, <1>3, <1>4 DEF IInv

-----------------------------------------------------------------------------
(* Who takes a step, and what each of them leaves alone. *)
LEMMA Frames ==
  /\ Next => RequestStep \/ TransferStep \/ MeetingStep \/ WorkerStep \/ ClockStep
  /\ RequestStep => UNCHANGED <<audit, store, mlock, put, pass>>
  /\ TransferStep => UNCHANGED <<deleted, job, audit, ulock, at, pass, told>>
  /\ MeetingStep => UNCHANGED <<deleted, job, audit, locks, procs, told, faults>>
  /\ WorkerStep => UNCHANGED <<deleted, locks, at, put, told>>
  /\ ClockStep => UNCHANGED <<deleted, store, locks, procs, told>>
PROOF
  <1>1. Next => RequestStep \/ TransferStep \/ MeetingStep \/ WorkerStep \/ ClockStep
    BY DEF Next, RequestStep, TransferStep, MeetingStep, WorkerStep, ClockStep
  <1>2. RequestStep => UNCHANGED <<audit, store, mlock, put, pass>>
    BY DEF RequestStep, RequestNext, Enter, Check, Schedule, DeleteAccount, Cancel,
       ReadStatus, RequestCrashes, AskWithReceipt, locks
  <1>3. TransferStep => UNCHANGED <<deleted, job, audit, ulock, at, pass, told>>
    BY DEF TransferStep, PartNext, EditNext, BeginPart, PartLands, PartFails, PublishPart,
       FindsDeleted, LateCleanup, BeginManifest, ManifestLands, ManifestFails,
       IndexManifest, TransferCrashes, OrphanLands, IntentExpires, locks, procs
  <1>4. MeetingStep => UNCHANGED <<deleted, job, audit, locks, procs, told, faults>>
    BY DEF MeetingStep, DeleteMeeting, MeetingCleanup
  <1>5. WorkerStep => UNCHANGED <<deleted, locks, at, put, told>>
    BY DEF WorkerStep, Audit, Claim, PassNext, Discover, Visit, VisitCleans, VisitFails,
       VisitFindsNothing, AllVisited, CheckLeft, PassFails, Finish, Retry, WorkerStops,
       locks, procs
  <1>6. ClockStep => UNCHANGED <<deleted, store, locks, procs, told>>
    BY DEF ClockStep, AuditAges, ClaimGoesStale, BecomesDue, Replay, store, locks, procs
  <1> QED  BY <1>1, <1>2, <1>3, <1>4, <1>5, <1>6

(* The rows the steps write are well typed. *)
LEMMA RowsTyped ==
  /\ NoJob \in JobRow /\ NewJob \in JobRow
  /\ job \in JobRow =>
       /\ Retried \in JobRow
       /\ [job EXCEPT !.fresh = FALSE] \in JobRow /\ [job EXCEPT !.due = TRUE] \in JobRow
       /\ \A w \in Workers : ClaimedBy(w) \in JobRow
  /\ Idle \in PassRow
PROOF
  <1>1. NoJob \in JobRow /\ NewJob \in JobRow
    BY DEF NoJob, NewJob, JobRow
  <1>2. ASSUME job \in JobRow PROVE
          /\ Retried \in JobRow
          /\ [job EXCEPT !.fresh = FALSE] \in JobRow /\ [job EXCEPT !.due = TRUE] \in JobRow
          /\ \A w \in Workers : ClaimedBy(w) \in JobRow
    <2>1. Retried \in JobRow
      <3>1. \A b \in BOOLEAN :
              [job EXCEPT !.holder = None, !.fresh = FALSE, !.due = b, !.dead = b] \in JobRow
        BY <1>2 DEF JobRow
      <3>2. (job.attempt >= MaxAttempts) \in BOOLEAN
        BY <1>2, AccountAssumption DEF JobRow
      <3> QED  BY <3>1, <3>2, Zenon DEF Retried
    <2>2. [job EXCEPT !.fresh = FALSE] \in JobRow /\ [job EXCEPT !.due = TRUE] \in JobRow
      BY <1>2 DEF JobRow
    <2>3. \A w \in Workers : ClaimedBy(w) \in JobRow
      <3>1. job.attempt + 1 \in Nat
        BY <1>2 DEF JobRow
      <3>2. \A w \in Workers, n \in Nat :
              [job EXCEPT !.holder = w, !.fresh = TRUE, !.attempt = n] \in JobRow
        BY <1>2 DEF JobRow
      <3> QED  BY <3>1, <3>2, Zenon DEF ClaimedBy
    <2> QED  BY <2>1, <2>2, <2>3
  <1>3. Idle \in PassRow
    BY DEF Idle, PassRow
  <1> QED  BY <1>1, <1>2, <1>3

-----------------------------------------------------------------------------
(* Typing.                                                                 *)

(* What a transfer is about. *)
LEMMA Targets ==
  /\ Parts \subseteq Transfers /\ Edits \subseteq Transfers
  /\ \A t \in Transfers : MeetingOf[t] \in Meetings
PROOF BY AccountAssumption DEF Transfers

(* A cleaning, complete or not, keeps the types of the store. *)
LEMMA CleaningTyped ==
  ASSUME StoreTyped, NEW m \in Meetings, Cleaned(m) \/ NotCleaned(m)
  PROVE  StoreTyped'
PROOF
  <1>1. CASE Cleaned(m)
    BY <1>1 DEF StoreTyped, Cleaned
  <1>2. CASE NotCleaned(m)
    BY <1>2 DEF StoreTyped, NotCleaned
  <1> QED  BY <1>1, <1>2

(* So does the audit. *)
LEMMA BackfillTyped ==
  ASSUME StoreTyped, Backfill, UNCHANGED <<tomb, objects>>
  PROVE  StoreTyped'
PROOF
  <1>1. \A m \in Meetings : CoverageOf(m) \in {"none", "owned", "unowned"}
    BY DEF CoverageOf, StoreTyped
  <1>2. coverage' \in [Meetings -> {"none", "owned", "unowned"}]
    BY <1>1 DEF Backfill
  <1>3. intent' \in [Transfers -> {"none", "live", "expired"}]
    BY DEF Backfill, StoreTyped
  <1>4. catalog' \subseteq Meetings
    BY DEF Backfill, StoreTyped
  <1> QED  BY <1>2, <1>3, <1>4 DEF StoreTyped

(* Every step keeps the types of the store, ... *)
LEMMA StoreTypedStep ==
  ASSUME Typed, Next
  PROVE  StoreTyped'
PROOF
  <1> USE DEF Typed
  <1>1. CASE UNCHANGED store
    BY <1>1 DEF StoreTyped, store
  <1>2. CASE TransferStep
    <2>1. ASSUME NEW t \in Parts, PartNext(t) PROVE StoreTyped'
      BY <2>1, Targets DEF PartNext, StoreTyped, BeginPart, PartLands, PartFails, PublishPart,
         FindsDeleted, LateCleanup, IntentBecomes, Stores, Indexes, Objects, store
    <2>2. ASSUME NEW t \in Edits, EditNext(t) PROVE StoreTyped'
      BY <2>2, Targets DEF EditNext, StoreTyped, BeginManifest, ManifestLands, ManifestFails,
         IndexManifest, IntentBecomes, Stores, Indexes, Objects, store
    <2>3. ASSUME NEW t \in Transfers, TransferCrashes(t) \/ OrphanLands(t) \/ IntentExpires(t)
          PROVE StoreTyped'
      BY <2>3, Targets DEF StoreTyped, TransferCrashes, OrphanLands, IntentExpires,
         IntentBecomes, Stores, Objects, store
    <2> QED  BY <1>2, <2>1, <2>2, <2>3 DEF TransferStep
  <1>3. CASE MeetingStep
    <2>1. ASSUME NEW m \in Meetings, DeleteMeeting(m) PROVE StoreTyped'
      BY <2>1 DEF DeleteMeeting, StoreTyped
    <2>2. ASSUME NEW m \in Meetings, MeetingCleanup(m) PROVE StoreTyped'
      BY <2>2, CleaningTyped DEF MeetingCleanup
    <2> QED  BY <1>3, <2>1, <2>2 DEF MeetingStep
  <1>4. ASSUME NEW w \in Workers, Audit(w) \/ Claim(w) \/ PassNext(w) \/ WorkerStops(w)
        PROVE StoreTyped'
    <2>1. CASE Audit(w)
      BY <2>1, BackfillTyped DEF Audit
    <2>2. CASE Discover(w)
      BY <2>2, BackfillTyped, <1>1 DEF Discover, store
    <2>3. CASE Visit(w)
      <3>1. ASSUME NEW m \in Meetings, VisitCleans(w, m) \/ VisitFails(w, m)
            PROVE StoreTyped'
        BY <3>1, CleaningTyped DEF VisitCleans, VisitFails
      <3>2. ASSUME NEW m \in Meetings, VisitFindsNothing(w, m) PROVE StoreTyped'
        BY <3>2 DEF VisitFindsNothing, StoreTyped
      <3> QED  BY <2>3, <3>1, <3>2 DEF Visit
    <2>4. CASE UNCHANGED store
      BY <2>4, <1>1
    <2> QED
      BY <1>4, <2>1, <2>2, <2>3, <2>4 DEF PassNext, Claim, AllVisited, CheckLeft, PassFails,
         Finish, Retry, WorkerStops
  <1> QED  BY <1>1, <1>2, <1>3, <1>4, Frames DEF WorkerStep

(* ... those of the locks, requests, transfers and passes, ... *)
LEMMA ProcsTypedStep ==
  ASSUME Typed, Next
  PROVE  ProcsTyped'
PROOF
  <1> USE DEF Typed
  <1>1. CASE UNCHANGED <<locks, procs>>
    BY <1>1 DEF ProcsTyped, locks, procs
  <1>2. ASSUME NEW r \in Requests, RequestNext(r) \/ RequestCrashes(r) \/ AskWithReceipt(r)
        PROVE ProcsTyped'
    <2>1. at[r] \in DOMAIN NextRead => NextRead[at[r]] \in RequestStages
      BY Tables DEF RequestStages
    <2>2. /\ \E stage \in RequestStages : Goes(r, stage)
          /\ ulock' \in {ulock, r, None}
          /\ UNCHANGED <<mlock, put, pass>>
      BY <1>2, <2>1 DEF RequestNext, Enter, Check, Schedule, DeleteAccount, Cancel, ReadStatus,
         RequestCrashes, AskWithReceipt, Answers, FirstRead, RequestStages, locks, Goes
    <2> QED  BY <2>2 DEF ProcsTyped, Goes
  <1>3. CASE TransferStep
    <2>1. ASSUME NEW t \in Parts, PartNext(t) PROVE ProcsTyped'
      BY <2>1, Targets DEF PartNext, ProcsTyped, BeginPart, PartLands, PartFails, PublishPart,
         FindsDeleted, LateCleanup, Moves, locks
    <2>2. ASSUME NEW t \in Edits, EditNext(t) PROVE ProcsTyped'
      BY <2>2, Targets DEF EditNext, ProcsTyped, BeginManifest, ManifestLands, ManifestFails,
         IndexManifest, Moves, LeavesLock, locks
    <2>3. ASSUME NEW t \in Transfers, TransferCrashes(t) \/ OrphanLands(t) \/ IntentExpires(t)
          PROVE ProcsTyped'
      BY <2>3, Targets DEF ProcsTyped, TransferCrashes, OrphanLands, IntentExpires, Moves,
         LeavesLock, locks, procs
    <2> QED  BY <1>3, <2>1, <2>2, <2>3 DEF TransferStep
  <1>4. ASSUME NEW w \in Workers, Audit(w) \/ Claim(w) \/ PassNext(w) \/ WorkerStops(w)
        PROVE ProcsTyped'
    <2>1. ASSUME NEW p \in PassRow, Passes(w, p), UNCHANGED <<locks, at, put>>
          PROVE ProcsTyped'
      BY <2>1 DEF ProcsTyped, Passes, locks
    <2>2. ASSUME NEW stage \in {"idle", "discover", "retry", "finish"} \cup DOMAIN NextCheck,
                 Turns(w, stage), UNCHANGED <<locks, at, put>>
          PROVE ProcsTyped'
      <3>1. [Idle EXCEPT !.at = stage] \in PassRow
        BY <2>2, Tables, RowsTyped DEF PassRow
      <3> QED  BY <2>1, <2>2, <3>1 DEF Turns
    <2>3. pass[w] \in PassRow
      BY DEF ProcsTyped
    <2>4. CASE Audit(w)
      BY <2>4, <1>1 DEF Audit
    <2>5. CASE Claim(w) \/ PassFails(w) \/ Finish(w) \/ Retry(w) \/ WorkerStops(w)
      BY <2>5, <2>2 DEF Claim, PassFails, Finish, Retry, WorkerStops
    <2>6. CASE AllVisited(w)
      BY <2>6, <2>2, Tables DEF AllVisited
    <2>7. CASE CheckLeft(w)
      <3>1. NextCheck[pass[w].at] \in {"finish"} \cup DOMAIN NextCheck
        BY <2>7, Tables DEF CheckLeft
      <3> QED  BY <2>7, <3>1, <2>2 DEF CheckLeft
    <2>8. CASE Discover(w)
      <3>1. \A left \in SUBSET Meetings :
              [Idle EXCEPT !.at = "visit", !.todo = left] \in PassRow
        BY RowsTyped DEF PassRow
      <3>2. \E left \in SUBSET Meetings :
              Passes(w, [Idle EXCEPT !.at = "visit", !.todo = left])
        BY <2>8 DEF Discover
      <3> QED  BY <2>8, <3>1, <3>2, <2>1 DEF Discover
    <2>9. CASE Visit(w)
      <3>1. \A left \in SUBSET Meetings, b \in BOOLEAN :
              [pass[w] EXCEPT !.todo = left, !.pending = b] \in PassRow
        BY <2>3 DEF PassRow
      <3>2. \A m \in Meetings, failed \in BOOLEAN :
              /\ pass[w].todo \ {m} \in SUBSET Meetings
              /\ (pass[w].pending \/ failed) \in BOOLEAN
        BY <2>3 DEF PassRow
      <3>3. \E left \in SUBSET Meetings, b \in BOOLEAN :
              Passes(w, [pass[w] EXCEPT !.todo = left, !.pending = b])
        BY <2>9, <3>2 DEF Visit, VisitCleans, VisitFails, VisitFindsNothing, Visited
      <3> QED
        BY <2>9, <3>1, <3>3, <2>1 DEF Visit, VisitCleans, VisitFails, VisitFindsNothing
    <2> QED  BY <1>4, <2>4, <2>5, <2>6, <2>7, <2>8, <2>9 DEF PassNext
  <1> QED
    BY <1>1, <1>2, <1>3, <1>4, Frames DEF RequestStep, WorkerStep, locks, procs

(* What the rows the steps write say. *)
LEMMA Fields ==
  ASSUME job \in JobRow
  PROVE  /\ ~NoJob.row /\ NoJob.holder = None /\ NoJob.attempt = 0 /\ ~NoJob.dead
         /\ NewJob.row /\ NewJob.holder = None /\ NewJob.attempt = 0 /\ ~NewJob.dead
         /\ Retried.row = job.row /\ Retried.holder = None
         /\ Retried.attempt = job.attempt
         /\ ~Retried.dead => job.attempt < MaxAttempts
         /\ \A w \in Workers :
              /\ ClaimedBy(w).row = job.row /\ ClaimedBy(w).holder = w
              /\ ClaimedBy(w).fresh /\ ClaimedBy(w).attempt = job.attempt + 1
PROOF
  <1>1. ~NoJob.row /\ NoJob.holder = None /\ NoJob.attempt = 0 /\ ~NoJob.dead
    BY DEF NoJob
  <1>2. NewJob.row /\ NewJob.holder = None /\ NewJob.attempt = 0 /\ ~NewJob.dead
    BY DEF NewJob, NoJob
  <1>3. /\ Retried.row = job.row /\ Retried.holder = None
        /\ Retried.attempt = job.attempt
        /\ ~Retried.dead => job.attempt < MaxAttempts
    <2>1. ~Retried.dead => ~(job.attempt >= MaxAttempts)
      BY DEF Retried, JobRow
    <2>2. Retried.row = job.row /\ Retried.holder = None /\ Retried.attempt = job.attempt
      BY DEF Retried, JobRow
    <2> QED  BY <2>1, <2>2, AccountAssumption DEF JobRow
  <1>4. ASSUME NEW w \in Workers
        PROVE  /\ ClaimedBy(w).row = job.row /\ ClaimedBy(w).holder = w
               /\ ClaimedBy(w).fresh /\ ClaimedBy(w).attempt = job.attempt + 1
    BY DEF ClaimedBy, JobRow
  <1> QED  BY <1>1, <1>2, <1>3, <1>4

(* ... and those of the account, its job, the audit and the faults. *)
LEMMA RestTypedStep ==
  ASSUME Typed, Next
  PROVE  RestTyped'
PROOF
  <1> USE DEF Typed, RestTyped
  <1>1. Fault => faults' \in 0..MaxFaults
    BY AccountAssumption DEF Fault
  <1>2. CASE RequestStep
    BY <1>1, <1>2, RowsTyped, Frames DEF RequestStep, RequestNext, Enter, Check, Schedule,
       DeleteAccount, Cancel, JobOfActiveUser, ReadStatus, RequestCrashes, AskWithReceipt
  <1>3. CASE TransferStep \/ MeetingStep
    BY <1>1, <1>3, Frames DEF TransferStep, PartNext, EditNext, BeginPart, PartLands, PartFails,
       PublishPart, FindsDeleted, LateCleanup, BeginManifest, ManifestLands, ManifestFails,
       IndexManifest, TransferCrashes, OrphanLands, IntentExpires
  <1>4. CASE WorkerStep
    <2>1. Backfill => audit' \in [fresh : BOOLEAN, clean : BOOLEAN]
      BY DEF Backfill
    <2>2. [audit EXCEPT !.fresh = FALSE] \in [fresh : BOOLEAN, clean : BOOLEAN]
      OBVIOUS
    <2> QED
      BY ZenonT(40), <1>1, <1>4, <2>1, <2>2, RowsTyped, Frames DEF WorkerStep, Audit, Claim, PassNext,
         Discover, Visit, VisitCleans, VisitFails, VisitFindsNothing, AllVisited, CheckLeft,
         PassFails, Finish, Retry, WorkerStops
  <1>5. CASE ClockStep
    <2>1. [audit EXCEPT !.fresh = FALSE] \in [fresh : BOOLEAN, clean : BOOLEAN]
      OBVIOUS
    <2> QED
      BY <1>1, <1>5, <2>1, RowsTyped, Frames DEF ClockStep, AuditAges, ClaimGoesStale,
         BecomesDue, Replay
  <1> QED  BY <1>2, <1>3, <1>4, <1>5, Frames

-----------------------------------------------------------------------------
(* The store.                                                              *)

(* The intent of a transfer on its way is one of its meeting's. *)
LEMMA IntentCounts ==
  ASSUME NEW t \in Transfers, intent[t] # "none"
  PROVE  t \in IntentsOf(MeetingOf[t])
PROOF BY DEF IntentsOf

(* A cleaning, complete or not, takes only its own meeting apart, and no   *)
(* intent that is alive.                                                   *)
LEMMA CleaningFits ==
  ASSUME Typed, StoreFits, NEW m \in Meetings, Cleaned(m) \/ NotCleaned(m), UNCHANGED put
  PROVE  /\ StoreFits'
         /\ Cleaned(m) => Settled(m)'
         /\ \A n \in Meetings \ {m} : Settled(n) => Settled(n)'
PROOF
  <1> USE DEF Typed, StoreTyped
  <1>1. ASSUME NEW t \in Transfers, intent[t] = "live" PROVE intent'[t] = "live"
    <2>1. CASE Cleaned(m)
      BY <1>1, <2>1 DEF Cleaned, LiveIntents, IntentsOf
    <2>2. CASE NotCleaned(m)
      BY <1>1, <2>2 DEF NotCleaned
    <2> QED  BY <2>1, <2>2
  <1>2. IntentsHeld'
    BY <1>1 DEF StoreFits, IntentsHeld
  <1>3. ASSUME NEW n \in Meetings \ {m}
        PROVE  /\ tomb'[n] = tomb[n] /\ objects'[n] = objects[n]
               /\ n \in catalog' <=> n \in catalog
               /\ Erased(n) => Erased(n)'
    <2>1. tomb'[n] = tomb[n] /\ objects'[n] = objects[n] /\ (n \in catalog' <=> n \in catalog)
      BY <1>3 DEF Cleaned, NotCleaned
    <2>2. \A t \in Transfers : intent'[t] # "none" => intent[t] # "none"
      BY DEF Cleaned, NotCleaned
    <2> QED  BY <2>1, <2>2 DEF Erased, IntentsOf
  <1>4. Cleaned(m) => Erased(m)' /\ tomb'[m] = "fence"
    BY DEF Cleaned, Erased, IntentsOf
  <1>5. NotCleaned(m) => tomb'[m] = "pending"
    BY DEF NotCleaned
  <1>6. TombsFit'
    <2> SUFFICES ASSUME NEW n \in Meetings
                 PROVE  /\ tomb'[n] = "none" => "manifest" \in objects'[n]
                        /\ tomb'[n] = "fence" => Erased(n)'
      BY DEF TombsFit
    <2>1. CASE n = m
      BY <1>4, <1>5, <2>1
    <2>2. CASE n # m
      BY <1>3, <2>2 DEF StoreFits, TombsFit
    <2> QED  BY <2>1, <2>2
  <1> QED  BY <1>2, <1>3, <1>4, <1>6 DEF StoreFits, Settled

(* The audit gives up no intent that is alive and indexes nothing of a     *)
(* meeting that was deleted, or of a deleted account.                      *)
LEMMA BackfillFits ==
  ASSUME Typed, StoreFits, UNCHANGED <<deleted, tomb, objects, put>>,
         Backfill \/ UNCHANGED <<catalog, intent>>
  PROVE  /\ StoreFits'
         /\ \A m \in Meetings : deleted /\ Settled(m) => Settled(m)'
PROOF
  <1> USE DEF Typed, StoreTyped
  <1>1. \A t \in Transfers : /\ intent'[t] # "none" => intent[t] # "none"
                             /\ intent[t] = "live" => intent'[t] = "live"
    BY DEF Backfill, Expired
  <1>2. \A m \in Meetings : m \in catalog' => m \in catalog \/ (~Closed(m) /\ ~deleted)
    BY DEF Backfill, Closed
  <1>3. IntentsHeld'
    BY <1>1 DEF StoreFits, IntentsHeld
  <1>4. \A m \in Meetings : Erased(m) /\ (deleted \/ Closed(m)) => Erased(m)'
    BY <1>1, <1>2 DEF Erased, IntentsOf
  <1>5. TombsFit'
    BY <1>4 DEF StoreFits, TombsFit, Closed
  <1> QED  BY <1>3, <1>4, <1>5 DEF StoreFits, Settled

(* A step of a transfer: its intent lives until it is over, nothing is     *)
(* indexed for a deleted account, and what it stores is in a meeting that  *)
(* has an intent, or is open.                                              *)
LEMMA TransferFits ==
  ASSUME Typed, StoreFits, TransferStep
  PROVE  /\ StoreFits'
         /\ \A m \in Meetings : deleted /\ Settled(m) => Settled(m)'
PROOF
  <1> USE DEF Typed, StoreTyped, ProcsTyped
  <1> DEFINE Fits == /\ IntentsHeld'
                     /\ \A m \in Meetings : tomb'[m] = "none" => "manifest" \in objects'[m]
                     /\ \A m \in Meetings : Erased(m) /\ (deleted \/ Closed(m)) =>
                          Erased(m)' \/ tomb'[m] = "pending"
                     /\ \A m \in Meetings : tomb'[m] = "fence" => tomb[m] = "fence"
                     /\ \A m \in Meetings : deleted /\ Erased(m) /\ tomb[m] # "pending" =>
                          tomb'[m] # "pending"
  <1>1. ASSUME NEW t \in Parts, PartNext(t) PROVE Fits
    <2>0. t \in Transfers /\ MeetingOf[t] \in Meetings
      BY Targets
    <2>1. CASE BeginPart(t)
      BY <2>0, <2>1 DEF BeginPart, StoreFits, IntentsHeld, TombsFit, Erased, IntentsOf, Closed,
         Open, Moves, IntentBecomes, Stores, Indexes
    <2>2. CASE PartLands(t)
      BY <2>0, <2>2 DEF PartLands, StoreFits, IntentsHeld, TombsFit, Erased, IntentsOf, Moves,
         Stores
    <2>3. CASE PartFails(t)
      BY <2>0, <2>3 DEF PartFails, StoreFits, IntentsHeld, TombsFit, Erased, IntentsOf, Moves,
         IntentBecomes
    <2>4. CASE PublishPart(t)
      BY <2>0, <2>4 DEF PublishPart, StoreFits, IntentsHeld, TombsFit, Erased, IntentsOf, Closed,
         Open, Moves, IntentBecomes, Stores, Indexes
    <2>5. CASE FindsDeleted(t)
      BY <2>0, <2>5 DEF FindsDeleted, StoreFits, IntentsHeld, TombsFit, Erased, IntentsOf, Moves,
         store
    <2>6. CASE LateCleanup(t)
      BY <2>0, <2>6 DEF LateCleanup, StoreFits, IntentsHeld, TombsFit, Erased, IntentsOf, Closed,
         Moves, IntentBecomes
    <2> QED  BY <1>1, <2>1, <2>2, <2>3, <2>4, <2>5, <2>6 DEF PartNext
  <1>2. ASSUME NEW t \in Edits, EditNext(t) PROVE Fits
    <2>0. t \in Transfers /\ MeetingOf[t] \in Meetings
      BY Targets
    <2>1. CASE BeginManifest(t)
      BY <2>0, <2>1 DEF BeginManifest, StoreFits, IntentsHeld, TombsFit, Erased, IntentsOf,
         Closed, Open, Moves, IntentBecomes
    <2>2. CASE ManifestLands(t)
      BY <2>0, <2>2 DEF ManifestLands, StoreFits, IntentsHeld, TombsFit, Erased, IntentsOf,
         Moves, Stores
    <2>3. CASE ManifestFails(t)
      BY <2>0, <2>3 DEF ManifestFails, StoreFits, IntentsHeld, TombsFit, Erased, IntentsOf,
         Moves, store
    <2>4. CASE IndexManifest(t)
      BY <2>0, <2>4 DEF IndexManifest, StoreFits, IntentsHeld, TombsFit, Erased, IntentsOf,
         Closed, Moves, IntentBecomes, Indexes
    <2> QED  BY <1>2, <2>1, <2>2, <2>3, <2>4 DEF EditNext
  <1>3. ASSUME NEW t \in Transfers, TransferCrashes(t) \/ OrphanLands(t) \/ IntentExpires(t)
        PROVE Fits
    <2>0. MeetingOf[t] \in Meetings
      BY Targets
    <2>1. CASE TransferCrashes(t)
      BY <2>1 DEF TransferCrashes, StoreFits, IntentsHeld, TombsFit, Erased, IntentsOf, Moves,
         store
    <2>2. CASE OrphanLands(t)
      BY <2>0, <2>2 DEF OrphanLands, StoreFits, IntentsHeld, TombsFit, Erased, IntentsOf, Moves,
         Stores
    <2>3. CASE IntentExpires(t)
      BY <2>0, <2>3 DEF IntentExpires, StoreFits, IntentsHeld, TombsFit, Erased, IntentsOf,
         IntentBecomes, procs
    <2> QED  BY <1>3, <2>1, <2>2, <2>3
  <1>4. Fits
    BY <1>1, <1>2, <1>3 DEF TransferStep
  <1>5. TombsFit'
    BY <1>4 DEF StoreFits, TombsFit, Closed
  <1>6. \A m \in Meetings : deleted /\ Settled(m) => Settled(m)'
    BY <1>4 DEF Settled
  <1> QED  BY <1>4, <1>5, <1>6 DEF StoreFits

(* Every step keeps the store fit, and a meeting of a deleted account that *)
(* is settled stays so.                                                    *)
LEMMA StoreStep ==
  ASSUME Typed, StoreFits, Next
  PROVE  /\ StoreFits'
         /\ \A m \in Meetings : deleted /\ Settled(m) => Settled(m)'
PROOF
  <1> DEFINE Fits == /\ StoreFits'
                     /\ \A m \in Meetings : deleted /\ Settled(m) => Settled(m)'
  <1>1. CASE UNCHANGED <<store, put>>
    BY <1>1 DEF store, StoreFits, IntentsHeld, TombsFit, Settled, Erased, IntentsOf
  <1>2. CASE TransferStep
    BY <1>2, TransferFits
  <1>3. CASE MeetingStep
    <2>1. ASSUME NEW m \in Meetings, DeleteMeeting(m) PROVE Fits
      <3>1. StoreFits'
        BY <2>1 DEF DeleteMeeting, StoreFits, IntentsHeld, TombsFit, Erased, IntentsOf, procs,
           Typed, StoreTyped
      <3> QED  BY <2>1, <3>1 DEF DeleteMeeting
    <2>2. ASSUME NEW m \in Meetings, MeetingCleanup(m) PROVE Fits
      <3>1. ~Settled(m)
        BY <2>2 DEF MeetingCleanup, Settled
      <3>2. UNCHANGED put /\ (Cleaned(m) \/ NotCleaned(m))
        BY <2>2 DEF MeetingCleanup, procs
      <3> QED  BY <3>1, <3>2, CleaningFits
    <2> QED  BY <1>3, <2>1, <2>2 DEF MeetingStep
  <1>4. ASSUME NEW w \in Workers, Audit(w) \/ Claim(w) \/ PassNext(w) \/ WorkerStops(w)
        PROVE Fits
    <2>1. CASE Audit(w)
      BY <2>1, BackfillFits DEF Audit, procs
    <2>2. CASE Discover(w)
      BY <2>2, BackfillFits DEF Discover
    <2>3. ASSUME NEW m \in Meetings, VisitCleans(w, m) \/ VisitFails(w, m)
          PROVE Fits
      <3>1. ~Settled(m)
        BY <2>3 DEF VisitCleans, VisitFails, Evidence, Settled, Erased
      <3>2. UNCHANGED put /\ (Cleaned(m) \/ NotCleaned(m))
        BY <2>3 DEF VisitCleans, VisitFails
      <3> QED  BY <3>1, <3>2, CleaningFits
    <2>4. ASSUME NEW m \in Meetings, VisitFindsNothing(w, m) PROVE Fits
      BY <2>4 DEF VisitFindsNothing, StoreFits, IntentsHeld, TombsFit, Settled, Erased,
         IntentsOf
    <2>5. CASE UNCHANGED <<store, put>>
      BY <2>5, <1>1
    <2> QED
      BY <1>4, <2>1, <2>2, <2>3, <2>4, <2>5 DEF PassNext, Visit, Claim, AllVisited, CheckLeft,
         PassFails, Finish, Retry, WorkerStops
  <1> QED
    BY <1>1, <1>2, <1>3, <1>4, Frames DEF WorkerStep, procs

-----------------------------------------------------------------------------
(* The account and its job.                                                *)

(* Which steps write the job's row away, or anew. *)
LEMMA RowStep ==
  ASSUME IInv, Next
  PROVE  /\ deleted => deleted'
         /\ deleted /\ ~job.row => ~job'.row
         /\ job.row /\ ~job'.row =>
              \/ \E r \in Requests : at[r] = "cancel" /\ ~deleted /\ Cancel(r)
              \/ \E w \in Workers : Finish(w) /\ job.holder = w
PROOF
  <1> DEFINE Keeps == /\ deleted => deleted'
                      /\ deleted /\ ~job.row => ~job'.row
                      /\ job.row => job'.row
  <1> USE DEF IInv, Typed, RestTyped
  <1>1. CASE UNCHANGED <<deleted, job>>
    BY <1>1
  <1>2. ASSUME NEW r \in Requests, RequestNext(r) \/ RequestCrashes(r) \/ AskWithReceipt(r)
        PROVE Keeps \/ (at[r] = "cancel" /\ ~deleted /\ ~deleted' /\ Cancel(r))
    <2>1. CASE Schedule(r)
      <3>1. ~deleted
        BY <2>1 DEF Schedule, RequestsFit, RequestFits
      <3> QED  BY <2>1, <3>1, Fields DEF Schedule
    <2>2. CASE Cancel(r)
      BY <2>2 DEF Cancel, JobOfActiveUser
    <2>3. CASE DeleteAccount(r)
      BY <2>3 DEF DeleteAccount
    <2> QED
      BY <1>2, <1>1, <2>1, <2>2, <2>3 DEF RequestNext, Enter, Check, ReadStatus, RequestCrashes,
         AskWithReceipt
  <1>3. ASSUME NEW w \in Workers, Audit(w) \/ Claim(w) \/ PassNext(w) \/ WorkerStops(w)
        PROVE Keeps \/ (Finish(w) /\ job.holder = w /\ deleted' = deleted)
    <2>1. CASE Claim(w)
      BY <2>1, Fields DEF Claim
    <2>2. CASE Retry(w)
      BY <2>2, Fields DEF Retry
    <2>3. CASE Finish(w)
      BY <2>3, Fields DEF Finish
    <2> QED
      BY <1>3, <1>1, <2>1, <2>2, <2>3 DEF PassNext, Visit, Audit, Discover, VisitCleans,
         VisitFails, VisitFindsNothing, AllVisited, CheckLeft, PassFails, WorkerStops
  <1>4. CASE ClockStep
    BY <1>4, Fields DEF ClockStep, AuditAges, ClaimGoesStale, BecomesDue, Replay, JobRow
  <1> QED  BY <1>1, <1>2, <1>3, <1>4, Frames, Fields DEF RequestStep, WorkerStep, Finish

(* The lock keeps the requests apart, and no worker takes the job of one   *)
(* that is about to delete.                                                *)
LEMMA RequestsStep ==
  ASSUME IInv, Next
  PROVE  RequestsFit'
PROOF
  <1> USE DEF IInv, Typed, ProcsTyped
  <1>1. ASSUME UNCHANGED <<deleted, at, ulock>>,
               \A r \in Requests : at[r] = "delete" => job'.row
        PROVE  RequestsFit'
    BY <1>1, RowStep DEF RequestsFit, RequestFits
  <1>2. ASSUME NEW r \in Requests, RequestNext(r) \/ RequestCrashes(r) \/ AskWithReceipt(r),
               NEW o \in Requests
        PROVE RequestFits(o)'
    <2>1. CASE Enter(r)
      BY <2>1, AccountAssumption DEF Enter, Goes, RequestsFit, RequestFits
    <2>2. CASE Check(r)
      BY <2>2 DEF Check, Answers, Goes, RequestsFit, RequestFits
    <2>3. CASE Schedule(r)
      BY <2>3, Fields DEF Schedule, Goes, RequestsFit, RequestFits, RestTyped, locks
    <2>4. CASE DeleteAccount(r)
      BY <2>4 DEF DeleteAccount, Goes, RequestsFit, RequestFits, FirstRead, locks
    <2>5. CASE Cancel(r)
      BY <2>5, Fields DEF Cancel, JobOfActiveUser, Answers, Goes, RequestsFit, RequestFits,
         RestTyped
    <2>6. CASE ReadStatus(r)
      <3>1. at[r] = "jobs" /\ ~Pending(at[r]) => ~job.row
        BY DEF Pending
      <3> QED
        BY <2>6, <3>1, Tables DEF ReadStatus, Answers, Goes, RequestsFit, RequestFits
    <2>7. CASE RequestCrashes(r)
      BY <2>7 DEF RequestCrashes, Answers, Goes, RequestsFit, RequestFits
    <2>8. CASE AskWithReceipt(r)
      BY <2>8 DEF AskWithReceipt, Goes, RequestsFit, RequestFits, FirstRead, locks
    <2> QED  BY <1>2, <2>1, <2>2, <2>3, <2>4, <2>5, <2>6, <2>7, <2>8 DEF RequestNext
  <1>3. CASE RequestStep
    BY <1>2, <1>3 DEF RequestStep, RequestsFit
  <1>4. CASE TransferStep \/ MeetingStep
    BY <1>1, <1>4, Frames DEF procs, locks, RequestsFit, RequestFits
  <1>5. CASE WorkerStep \/ ClockStep
    <2>1. UNCHANGED <<deleted, at, ulock>>
      BY <1>5, Frames DEF procs, locks
    <2>2. ASSUME NEW r \in Requests, at[r] = "delete" PROVE job'.row
      <3>1. ~deleted /\ job.row
        BY <2>2 DEF RequestsFit, RequestFits
      <3>2. \A w \in Workers : ~Finish(w)
        BY <3>1 DEF PassesFit, PassFits, Finish
      <3>3. \A o \in Requests : ~(at[o] = "cancel" /\ Cancel(o))
        BY <2>1 DEF Cancel, Answers, Goes
      <3> QED  BY <3>1, <3>2, <3>3, RowStep
    <2> QED  BY <1>1, <2>1, <2>2
  <1> QED  BY <1>3, <1>4, <1>5, Frames

(* The job leaves a deleted account when a pass has found nothing left. *)
LEMMA JobStep ==
  ASSUME IInv, Next
  PROVE  JobKept'
PROOF
  <1> USE DEF IInv, Typed, RestTyped
  <1>1. \A m \in Meetings : deleted /\ Settled(m) => Settled(m)'
    BY StoreStep
  <1>2. CASE deleted /\ ~job.row
    BY <1>1, <1>2 DEF JobKept
  <1>3. CASE deleted /\ job.row
    <2>1. ASSUME NEW w \in Workers, Finish(w) PROVE \A m \in Meetings : Settled(m)'
      BY <1>1, <1>3, <2>1 DEF Finish, PassesFit, PassFits
    <2> QED  BY <1>3, <2>1, RowStep DEF JobKept
  <1>4. CASE ~deleted /\ deleted'
    <2>1. RequestStep
      BY <1>4, Frames
    <2>2. PICK r \in Requests : DeleteAccount(r)
      BY <1>4, <2>1 DEF RequestStep, RequestNext, Enter, Check, Schedule, Cancel, ReadStatus,
         RequestCrashes, AskWithReceipt
    <2>3. job.row
      BY <2>2 DEF DeleteAccount, RequestsFit, RequestFits
    <2> QED  BY <2>2, <2>3 DEF DeleteAccount, JobKept
  <1>5. CASE ~deleted'
    BY <1>5 DEF JobKept
  <1> QED  BY <1>2, <1>3, <1>4, <1>5

(* "deleted" is the answer of the last table, and the job was asked before. *)
LEMMA ToldStep ==
  ASSUME IInv, Next
  PROVE  ToldRight'
PROOF
  <1> USE DEF IInv, Typed, RestTyped, ProcsTyped
  <1>1. ASSUME NEW r \in Requests, ReadStatus(r), told' # told
        PROVE  deleted /\ ~job.row
    <2>1. at[r] \in Reads /\ at[r] \notin DOMAIN NextRead
      BY <1>1 DEF ReadStatus
    <2>2. at[r] = "transfers"
      BY <2>1, Tables
    <2> QED  BY <2>2 DEF RequestsFit, RequestFits
  <1>2. told' = told \/ (deleted /\ ~job.row)
    <2>1. CASE RequestStep
      BY <2>1, <1>1 DEF RequestStep, RequestNext, Enter, Check, Schedule, DeleteAccount, Cancel,
         RequestCrashes, AskWithReceipt
    <2> QED  BY <2>1, Frames
  <1> QED  BY <1>2, RowStep DEF ToldRight

-----------------------------------------------------------------------------
(* The passes.                                                             *)

(* Somebody else's step takes nothing back from a pass. *)
LEMMA PassStays ==
  ASSUME IInv, Next, NEW w \in Workers, UNCHANGED pass
  PROVE  PassFits(w)'
PROOF BY StoreStep, RowStep DEF IInv, PassesFit, PassFits

(* A pass that goes on to a stage without a claim about the store. *)
LEMMA Blank ==
  ASSUME Typed, NEW w \in Workers, NEW stage, Turns(w, stage)
  PROVE  /\ pass'[w].at = stage /\ pass'[w].todo = {} /\ ~pass'[w].pending
         /\ \A v \in Workers \ {w} : pass'[v] = pass[v]
PROOF BY DEF Typed, ProcsTyped, Turns, Passes, Idle

(* A meeting leaves the list of a pass when it is settled, or the pass has *)
(* to come back.                                                           *)
LEMMA PassesStep ==
  ASSUME IInv, Next
  PROVE  PassesFit'
PROOF
  <1> USE DEF IInv, Typed, ProcsTyped
  <1> DEFINE Checked == {"catalog", "coverage", "transfers", "unowned", "finish"}
  <1>0. \A m \in Meetings : deleted /\ Settled(m) => Settled(m)'
    BY StoreStep
  <1>1. CASE UNCHANGED pass
    BY <1>1, PassStays DEF PassesFit
  <1>2. ASSUME NEW w \in Workers, NEW v \in Workers \ {w}, pass'[v] = pass[v]
        PROVE  PassFits(v)'
    BY <1>0, <1>2, RowStep DEF PassesFit, PassFits
  <1>3. ASSUME NEW w \in Workers, NEW stage \in {"idle", "discover", "retry"} \cup Checked,
               Turns(w, stage),
               stage # "idle" => deleted,
               stage \in Checked => \A m \in Meetings : Settled(m)
        PROVE  PassesFit'
    <2>1. pass'[w].at = stage
      BY <1>3, Blank
    <2>2. PassFits(w)'
      BY <1>0, <1>3, <2>1, RowStep DEF PassFits
    <2> QED  BY <1>2, <1>3, <2>2, Blank DEF PassesFit
  <1>4. ASSUME NEW w \in Workers, Audit(w) \/ Claim(w) \/ PassNext(w) \/ WorkerStops(w)
        PROVE  PassesFit'
    <2>0. PassFits(w) /\ pass[w] \in PassRow
      BY DEF PassesFit
    <2>1. CASE Audit(w)
      BY <2>1, <1>1 DEF Audit, procs
    <2>2. CASE Claim(w)
      BY <2>2, <1>3 DEF Claim
    <2>3. CASE Finish(w) \/ Retry(w) \/ WorkerStops(w)
      BY <2>3, <1>3, <2>0 DEF Finish, Retry, WorkerStops, PassFits
    <2>4. CASE PassFails(w)
      BY <2>4, <1>3, <2>0, Tables DEF PassFails, PassFits
    <2>5. CASE AllVisited(w)
      BY <2>5, <1>3, <2>0 DEF AllVisited, PassFits
    <2>6. CASE CheckLeft(w)
      BY <2>6, <1>3, <2>0, Tables DEF CheckLeft, PassFits
    <2>7. CASE Discover(w)
      <3>1. /\ pass'[w].at = "visit"
            /\ pass'[w].todo = {m \in Meetings : objects[m] # {} \/ m \in catalog'
                 \/ tomb[m] = "pending"
                 \/ \E t \in Transfers : MeetingOf[t] = m /\ intent'[t] # "none"}
            /\ \A v \in Workers \ {w} : pass'[v] = pass[v]
        BY <2>7 DEF Discover, Passes, Idle
      <3>2. \A m \in Meetings : m \in pass'[w].todo \/ Settled(m)'
        BY <2>7, <3>1 DEF Discover, Settled, Erased, IntentsOf
      <3>3. PassFits(w)'
        BY <2>0, <2>7, <3>1, <3>2 DEF PassFits, Discover
      <3> QED  BY <1>2, <3>1, <3>3 DEF PassesFit
    <2>8. ASSUME NEW m \in Meetings, NEW failed \in BOOLEAN, Visits(w, m), Visited(w, m, failed),
                 ~failed => Settled(m)', UNCHANGED deleted
          PROVE  PassesFit'
      <3>1. /\ pass'[w].at = "visit" /\ pass'[w].todo = pass[w].todo \ {m}
            /\ ~pass'[w].pending => ~pass[w].pending /\ ~failed
            /\ \A v \in Workers \ {w} : pass'[v] = pass[v]
        BY <2>8, <2>0 DEF Visits, Visited, Passes, PassRow
      <3>2. deleted
        BY <2>0, <2>8 DEF PassFits, Visits
      <3>3. PassFits(w)'
        BY <1>0, <2>0, <2>8, <3>1, <3>2 DEF PassFits, Visits
      <3> QED  BY <1>2, <3>1, <3>3 DEF PassesFit
    <2>9. CASE Visit(w)
      <3>1. ASSUME NEW m \in Meetings, VisitCleans(w, m) PROVE PassesFit'
        <4>1. Settled(m)'
          BY <3>1, CleaningFits DEF VisitCleans
        <4> QED  BY <2>8, <3>1, <4>1 DEF VisitCleans
      <3>2. ASSUME NEW m \in Meetings, VisitFails(w, m) PROVE PassesFit'
        BY <2>8, <3>2 DEF VisitFails
      <3>3. ASSUME NEW m \in Meetings, VisitFindsNothing(w, m) PROVE PassesFit'
        <4>1. Settled(m)
          BY <3>3 DEF VisitFindsNothing, Evidence, Settled, StoreFits, TombsFit, StoreTyped
        <4>2. deleted
          BY <2>0, <3>3 DEF PassFits, VisitFindsNothing, Visits
        <4>3. Settled(m)'
          BY <1>0, <4>1, <4>2
        <4> QED  BY <2>8, <3>3, <4>3 DEF VisitFindsNothing
      <3> QED  BY <2>9, <3>1, <3>2, <3>3 DEF Visit
    <2> QED  BY <1>4, <2>1, <2>2, <2>3, <2>4, <2>5, <2>6, <2>7, <2>9 DEF PassNext
  <1> QED  BY <1>1, <1>4, Frames DEF WorkerStep, procs

(* A claim is one more attempt.  It takes a job nobody holds, or one whose *)
(* holder already cost a fault.                                            *)
LEMMA AttemptsStep ==
  ASSUME IInv, Next
  PROVE  AttemptsFit'
PROOF
  <1> USE AccountAssumption DEF IInv, Typed, RestTyped
  <1>0. /\ job.attempt \in Nat /\ job.holder \in Workers \cup {None} /\ faults \in Nat
        /\ None \notin Workers
    BY DEF JobRow
  <1>1. ASSUME job'.attempt = job.attempt, faults' \in Nat, faults' >= faults,
               job'.holder = None /\ ~job'.dead => job.attempt < MaxAttempts,
               Spent' => job.attempt < MaxAttempts + faults'
        PROVE  AttemptsFit'
    BY <1>0, <1>1 DEF AttemptsFit
  <1>2. ASSUME UNCHANGED <<job, pass>>, faults' \in Nat, faults' >= faults
        PROVE  AttemptsFit'
    BY <1>0, <1>1, <1>2 DEF AttemptsFit, Spent
  <1>3. CASE job' \in {NoJob, NewJob} /\ UNCHANGED faults
    BY <1>0, <1>3, Fields DEF AttemptsFit, Spent
  <1>4. Fault => faults' = faults + 1 /\ faults' \in Nat
    BY <1>0 DEF Fault
  <1>5. CASE RequestStep
    <2>1. UNCHANGED <<job, faults>> \/ (UNCHANGED job /\ Fault)
            \/ (job' \in {NoJob, NewJob} /\ UNCHANGED faults)
      BY <1>5 DEF RequestStep, RequestNext, Enter, Check, Schedule, DeleteAccount, Cancel,
         JobOfActiveUser, ReadStatus, RequestCrashes, AskWithReceipt
    <2>2. UNCHANGED pass
      BY <1>5, Frames
    <2> QED  BY <1>0, <1>2, <1>3, <1>4, <2>1, <2>2
  <1>6. CASE TransferStep \/ MeetingStep
    <2>1. UNCHANGED faults \/ Fault
      BY <1>6, Frames DEF TransferStep, PartNext, EditNext, BeginPart, PartLands, PartFails,
         PublishPart, FindsDeleted, LateCleanup, BeginManifest, ManifestLands, ManifestFails,
         IndexManifest, TransferCrashes, OrphanLands, IntentExpires
    <2>2. UNCHANGED <<job, pass>>
      BY <1>6, Frames DEF procs
    <2> QED  BY <1>0, <1>2, <1>4, <2>1, <2>2
  <1>7. ASSUME NEW w \in Workers, Audit(w) \/ Claim(w) \/ PassNext(w) \/ WorkerStops(w)
        PROVE  AttemptsFit'
    <2>1. ASSUME UNCHANGED <<job, faults>>, pass'[w].at # "idle", pass[w].at # "idle",
                 \A v \in Workers \ {w} : pass'[v] = pass[v]
          PROVE  AttemptsFit'
      BY <1>0, <1>1, <2>1 DEF AttemptsFit, Spent
    <2>2. CASE Audit(w)
      BY <1>0, <1>2, <2>2 DEF Audit, procs
    <2>3. CASE Claim(w)
      <3>1. job'.holder = w /\ job'.fresh /\ job'.attempt = job.attempt + 1
        BY <2>3, Fields DEF Claim
      <3>2. pass'[w].at = "discover"
        BY <2>3, Blank DEF Claim
      <3>3. job.attempt < MaxAttempts + faults
        BY <1>0, <2>3 DEF Claim, AttemptsFit, Spent
      <3> QED  BY <1>0, <2>3, <3>1, <3>2, <3>3 DEF Claim, AttemptsFit, Spent
    <2>4. CASE Retry(w)
      <3>1. CASE job.holder = w
        BY <1>0, <1>1, <2>4, <3>1, Fields DEF Retry, Spent, AttemptsFit
      <3>2. CASE job.holder # w
        BY <1>0, <1>1, <2>4, <3>2, Blank DEF Retry, Spent, AttemptsFit
      <3> QED  BY <3>1, <3>2
    <2>5. CASE Finish(w)
      <3>1. CASE job.holder = w
        BY <1>3, <2>5, <3>1 DEF Finish
      <3>2. CASE job.holder # w
        BY <1>0, <1>1, <2>5, <3>2, Blank DEF Finish, Spent, AttemptsFit
      <3> QED  BY <3>1, <3>2
    <2>6. CASE WorkerStops(w)
      <3>1. CASE job.holder = w
        BY <1>0, <1>1, <1>4, <2>6, <3>1 DEF WorkerStops, AttemptsFit
      <3>2. CASE job.holder # w
        BY <1>0, <1>1, <2>6, <3>2, Blank DEF WorkerStops, Spent, AttemptsFit
      <3> QED  BY <3>1, <3>2
    <2>7. CASE AllVisited(w) \/ CheckLeft(w) \/ PassFails(w)
      BY <2>1, <2>7, Blank, Tables DEF AllVisited, CheckLeft, PassFails
    <2>8. CASE Discover(w)
      BY <2>1, <2>8 DEF Discover, Passes, Idle, ProcsTyped
    <2>9. CASE Visit(w)
      <3>1. ASSUME NEW m \in Meetings, NEW failed \in BOOLEAN, Visits(w, m),
                   Visited(w, m, failed), UNCHANGED <<job, faults>>
            PROVE  AttemptsFit'
        BY <2>1, <3>1 DEF Visits, Visited, Passes, ProcsTyped, PassRow
      <3> QED  BY <2>9, <3>1 DEF Visit, VisitCleans, VisitFails, VisitFindsNothing
    <2> QED  BY <1>7, <2>2, <2>3, <2>4, <2>5, <2>6, <2>7, <2>8, <2>9 DEF PassNext
  <1>8. CASE ClockStep
    <2>1. UNCHANGED pass
      BY <1>8, Frames DEF procs
    <2>2. CASE AuditAges
      BY <1>0, <1>2, <2>1, <2>2 DEF AuditAges
    <2>3. CASE BecomesDue
      <3>1. /\ job'.attempt = job.attempt /\ job'.holder = job.holder
            /\ job'.dead = job.dead /\ job'.fresh = job.fresh
        BY <2>3 DEF BecomesDue, JobRow
      <3> QED  BY <1>0, <1>1, <2>1, <2>3, <3>1 DEF BecomesDue, Spent, AttemptsFit
    <2>4. CASE Replay
      BY <1>3, <2>4 DEF Replay
    <2>5. CASE ClaimGoesStale
      <3>1. /\ job'.attempt = job.attempt /\ job'.holder = job.holder /\ job'.dead = job.dead
        BY <2>5 DEF ClaimGoesStale, JobRow
      <3>2. CASE pass[job.holder].at = "idle"
        BY <1>0, <1>1, <2>1, <2>5, <3>1, <3>2 DEF ClaimGoesStale, Spent, AttemptsFit
      <3>3. CASE pass[job.holder].at # "idle"
        BY <1>0, <1>1, <1>4, <2>1, <2>5, <3>1, <3>3 DEF ClaimGoesStale, AttemptsFit
      <3> QED  BY <3>2, <3>3
    <2> QED  BY <1>8, <2>2, <2>3, <2>4, <2>5 DEF ClockStep
  <1> QED  BY <1>5, <1>6, <1>7, <1>8, Frames DEF WorkerStep

-----------------------------------------------------------------------------

(* A stutter keeps the invariant. *)
LEMMA StutterFits == IInv /\ UNCHANGED vars => IInv'
PROOF
  BY DEF vars, store, locks, procs, IInv, Typed, StoreTyped, ProcsTyped, RestTyped, StoreFits,
     IntentsHeld, TombsFit, RequestsFit, RequestFits, JobKept, ToldRight, PassesFit, PassFits,
     AttemptsFit, Spent, Settled, Erased, IntentsOf

(* The invariant is inductive. *)
LEMMA InvariantHolds == Spec => []IInv
PROOF
  <1>1. IInv /\ Next => IInv'
    BY StoreTypedStep, ProcsTypedStep, RestTypedStep, StoreStep, RequestsStep, JobStep, ToldStep,
       PassesStep, AttemptsStep DEF IInv, Typed
  <1>2. IInv /\ [Next]_vars => IInv'
    BY <1>1, StutterFits
  <1> QED  BY InitFits, <1>2, PTL DEF Spec

(* The rows keep their types, and the job's attempts stay within the bound *)
(* plus the faults: nothing but a stop or a stall lets one claim follow    *)
(* another without a retry in between (claimNextAccountDeletionCleanupJob). *)
THEOREM TypeCorrect == Spec => []TypeOK
PROOF BY InvariantHolds, InvariantIsTyped, PTL

(* Whoever was told "deleted" was told the truth, for any number of        *)
(* clients, workers, meetings and transfers: the job was read away after   *)
(* the deletion, and it only goes when nothing is left, for good           *)
(* (resolveAccountDeletionStatus).                                         *)
THEOREM ReceiptsAreTrue == Spec => []ReceiptIsTrue
PROOF
  <1>1. IInv => ReceiptIsTrue
    BY DEF IInv, ToldRight, JobKept, Settled, ReceiptIsTrue
  <1> QED  BY InvariantHolds, <1>1, PTL

(* What is left of a deleted account is never without a job or a tombstone *)
(* (cancelAccountDeletionCleanupForActiveUser, deleteAllUserMeetings).     *)
THEOREM NothingIsForgotten == Spec => []NothingForgotten
PROOF
  <1>1. IInv => NothingForgotten
    BY DEF IInv, JobKept, Settled, NothingForgotten
  <1> QED  BY InvariantHolds, <1>1, PTL

(* Every object can be attributed to its account until it is gone, however *)
(* a cleaning stops (classifyCanonicalMeetingPrefixOwnership).             *)
THEOREM EvidenceIsKept == Spec => []EvidenceKept
PROOF
  <1>1. IInv => EvidenceKept
    BY DEF IInv, Typed, StoreTyped, StoreFits, TombsFit, EvidenceKept, Evidence, Erased
  <1> QED  BY InvariantHolds, <1>1, PTL

=============================================================================
