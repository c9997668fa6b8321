-------------------------- MODULE AccountDeletion --------------------------
(***************************************************************************)
(* The deletion of one account: the DELETE requests, the durable cleanup   *)
(* job and the workers that take it through the account's meetings, the    *)
(* storage audit they need first, and the writers that are caught in the   *)
(* middle.  A receipt says "deleted" when nothing of the account is left.  *)
(*                                                                         *)
(* A statement, a SQL transaction, and a section under a meeting's write   *)
(* lock are one action each; only a manifest's PUT takes its own step in   *)
(* the middle of one.  The cleaning of one meeting is such a section:      *)
(* MeetingDeletion takes it apart.  Clocks are abstracted to jobs that     *)
(* become due, claims and intents that run out and an audit that ages; an  *)
(* intent outlives the handler that made it.                               *)
(***************************************************************************)
EXTENDS Naturals, FiniteSets

CONSTANTS
  Requests,   \* clients that ask for the deletion, signed in while the account
              \* was active, and then ask with their receipt again and again
  Workers,    \* processes that run runAccountDeletionObjectCleanupOnce
  Meetings,   \* the account's meetings
  Parts,      \* upload parts: a PUT without any lock, between two short phases
  Edits,      \* writes of a manifest, under the meeting's lock
  MeetingOf,  \* the meeting each of them writes to
  None,
  MaxAttempts,  \* accountDeletionCleanupMaxAttempts
  MaxFaults     \* bound: crashes, lost heartbeats and stalls

Transfers == Parts \cup Edits

ASSUME AccountAssumption ==
  /\ None \notin Requests \cup Workers \cup Edits
  /\ Parts \cap Edits = {}
  /\ MeetingOf \in [Transfers -> Meetings]
  /\ MaxAttempts \in Nat \ {0} /\ MaxFaults \in Nat

VARIABLES
  deleted,   \* users.deleted_at is set
  job,       \* the row of account_deletion_cleanup_jobs
  audit,     \* meeting_storage_integrity_state: not too old, without blocker
  tomb,      \* each meeting's tombstone, or the fence it became
  objects,   \* what the store holds under each meeting's prefix
  catalog,   \* the meetings with a row in the catalog
  coverage,  \* meeting_catalog_coverage_fences, with or without an owner
  intent,    \* meeting_object_transfer_intents
  ulock,     \* holder of the account's write lock
  mlock,     \* holder of each meeting's write lock over several steps
  at,        \* where each client's request is
  put,       \* where each transfer is
  pass,      \* where each worker's pass is
  told,      \* history: somebody was told "deleted"
  faults     \* how many faults there were

store == <<tomb, objects, catalog, coverage, intent>>
locks == <<ulock, mlock>>
procs == <<at, put, pass>>
vars == <<deleted, job, audit, store, locks, procs, told, faults>>

Objects == {"manifest"} \cup Parts
NoJob == [row |-> FALSE, holder |-> None, fresh |-> FALSE, due |-> FALSE,
          attempt |-> 0, dead |-> FALSE]
(* What scheduleAccountDeletionCleanup writes, whatever was there. *)
NewJob == [NoJob EXCEPT !.row = TRUE, !.due = TRUE]
Idle == [at |-> "idle", todo |-> {}, pending |-> FALSE]

(* resolveAccountDeletionStatus asks five tables, one after the other. *)
FirstRead == "tombstones"
NextRead == [tombstones |-> "jobs", jobs |-> "catalog", catalog |-> "coverage",
             coverage |-> "transfers"]
Reads == {FirstRead} \cup {NextRead[r] : r \in DOMAIN NextRead}

(* What deleteAllUserMeetings asks when it has visited every meeting. *)
NextCheck == [catalog |-> "coverage", coverage |-> "transfers",
              transfers |-> "unowned", unowned |-> "finish"]

TypeOK ==
  /\ deleted \in BOOLEAN
  /\ job \in [row : BOOLEAN, holder : Workers \cup {None}, fresh : BOOLEAN,
              due : BOOLEAN, attempt : 0..(MaxAttempts + MaxFaults),
              dead : BOOLEAN]
  /\ audit \in [fresh : BOOLEAN, clean : BOOLEAN]
  /\ tomb \in [Meetings -> {"none", "pending", "fence"}]
  /\ objects \in [Meetings -> SUBSET Objects]
  /\ catalog \subseteq Meetings
  /\ coverage \in [Meetings -> {"none", "owned", "unowned"}]
  /\ intent \in [Transfers -> {"none", "live", "expired"}]
  /\ ulock \in Requests \cup {None}
  /\ mlock \in [Meetings -> Edits \cup {None}]
  /\ at \in [Requests -> Reads \cup {"idle", "check", "schedule", "delete",
                                    "cancel", "answered"}]
  /\ put \in [Transfers -> {"idle", "sending", "landed", "late", "orphan", "done"}]
  /\ pass \in [Workers -> [at : {"idle", "discover", "visit", "finish", "retry"}
                                  \cup DOMAIN NextCheck,
                           todo : SUBSET Meetings, pending : BOOLEAN]]
  /\ told \in BOOLEAN
  /\ faults \in 0..MaxFaults

(* An active account whose meetings are kept, indexed and audited. *)
Init ==
  /\ deleted = FALSE /\ told = FALSE
  /\ job = NoJob
  /\ audit = [fresh |-> TRUE, clean |-> TRUE]
  /\ tomb = [m \in Meetings |-> "none"]
  /\ objects = [m \in Meetings |-> {"manifest"}]
  /\ catalog = Meetings
  /\ coverage = [m \in Meetings |-> "none"]
  /\ intent = [t \in Transfers |-> "none"]
  /\ ulock = None
  /\ mlock = [m \in Meetings |-> None]
  /\ at = [r \in Requests |-> "idle"]
  /\ put = [t \in Transfers |-> "idle"]
  /\ pass = [w \in Workers |-> Idle]
  /\ faults = 0

IntentsOf(m) == {t \in Transfers : MeetingOf[t] = m /\ intent[t] # "none"}
(* Mutant: the cleaning of a meeting does not wait for its transfers. *)
NobodyWaitedFor(m) == {}

LiveIntents(m) == {t \in IntentsOf(m) : intent[t] = "live"}

(* isMeetingWriteAllowed, negated *)
Closed(m) == tomb[m] # "none"
(* classifyCanonicalMeetingPrefixOwnership finds the account; a fence only *)
(* keeps a proof of its owner, which is not asked here.                    *)
Evidence(m) ==
  \/ "manifest" \in objects[m] \/ m \in catalog
  \/ tomb[m] = "pending" \/ IntentsOf(m) # {}

Fault == faults < MaxFaults /\ faults' = faults + 1

-----------------------------------------------------------------------------
(* DELETE /api/auth/delete, and the receipts.                              *)

Goes(r, stage) == at' = [at EXCEPT ![r] = stage]

Answers(r) ==
  /\ Goes(r, "answered")
  /\ ulock' = IF ulock = r THEN None ELSE ulock

(* The request under the user's lock; a client that was refused comes      *)
(* again.                                                                  *)
Enter(r) ==
  /\ at[r] \in {"idle", "answered"} /\ ~deleted
  /\ ulock = None
  /\ ulock' = r
  /\ Goes(r, "check")
  /\ UNCHANGED <<deleted, job, audit, store, mlock, put, pass, told, faults>>

(* assertAccountDeletionStorageIntegrity: 503 without a valid audit. *)
Check(r) ==
  /\ at[r] = "check"
  /\ IF audit.fresh /\ audit.clean
     THEN Goes(r, "schedule") /\ UNCHANGED ulock
     ELSE Answers(r)
  /\ UNCHANGED <<deleted, job, audit, store, mlock, put, pass, told, faults>>

Schedule(r) ==
  /\ at[r] = "schedule"
  /\ job' = NewJob
  /\ Goes(r, "delete")
  /\ UNCHANGED <<deleted, audit, store, locks, put, pass, told, faults>>

(* deleteAccount commits; or it fails, or commits and its answer is lost.  *)
DeleteAccount(r) ==
  /\ at[r] = "delete"
  /\ \/ deleted' = TRUE /\ Goes(r, FirstRead)
     \/ deleted' \in {deleted, TRUE} /\ Goes(r, "cancel")
  /\ UNCHANGED <<job, audit, store, locks, put, pass, told, faults>>

(* Mutant: the cancellation does not ask whether the account is active. *)
WhoeverOwnsIt == NoJob

JobOfActiveUser == IF deleted THEN job ELSE NoJob

(* cancelAccountDeletionCleanupForActiveUser; its own failure is ignored. *)
Cancel(r) ==
  /\ at[r] = "cancel"
  /\ job' \in {job, JobOfActiveUser}
  /\ Answers(r)
  /\ UNCHANGED <<deleted, audit, store, mlock, put, pass, told, faults>>

(* POST with the receipt, without the lock; a DELETE that finds the        *)
(* account deleted asks no more than that.                                 *)
AskWithReceipt(r) ==
  /\ at[r] \in {"idle", "answered"} /\ deleted
  /\ Goes(r, FirstRead)
  /\ UNCHANGED <<deleted, job, audit, store, locks, put, pass, told, faults>>

Pending(table) ==
  \/ table = "tombstones" /\ \E m \in Meetings : tomb[m] = "pending"
  \/ table = "jobs" /\ job.row
  \/ table = "catalog" /\ catalog # {}
  \/ table = "coverage" /\ \E m \in Meetings : coverage[m] = "owned"
  \/ table = "transfers" /\ \E t \in Transfers : intent[t] # "none"
  \/ table = "unowned" /\ \E m \in Meetings : coverage[m] = "unowned"

(* One table of resolveAccountDeletionStatus: whatever is pending in one   *)
(* of them decides the answer.                                             *)
ReadStatus(r) ==
  /\ at[r] \in Reads
  /\ IF ~Pending(at[r]) /\ at[r] \in DOMAIN NextRead
     THEN Goes(r, NextRead[at[r]]) /\ UNCHANGED <<ulock, told>>
     ELSE Answers(r) /\ told' = (told \/ ~Pending(at[r]))
  /\ UNCHANGED <<deleted, job, audit, store, mlock, put, pass, faults>>

(* The process dies; the database frees its locks. *)
RequestCrashes(r) ==
  /\ at[r] \notin {"idle", "answered"}
  /\ Fault
  /\ Answers(r)
  /\ UNCHANGED <<deleted, job, audit, store, mlock, put, pass, told>>

-----------------------------------------------------------------------------
(* Uploads and edits.                                                      *)

Moves(t, stage) == put' = [put EXCEPT ![t] = stage]
IntentBecomes(t, i) == intent' = [intent EXCEPT ![t] = i]
Stores(t, things) == objects' = [objects EXCEPT ![MeetingOf[t]] = @ \cup things]
Open(t) == mlock[MeetingOf[t]] = None /\ ~Closed(MeetingOf[t])
LeavesLock(t) ==
  mlock' = [m \in Meetings |-> IF mlock[m] = t THEN None ELSE mlock[m]]

(* upsertMeetingCatalog and resolveMeetingCatalogBackfillBlocker *)
Indexes(m) ==
  /\ catalog' = catalog \cup {m}
  /\ coverage' = [coverage EXCEPT ![m] = "none"]

(* The first short phase of a part, under the user's and the meeting's     *)
(* locks: the account is active, the manifest has the upload's lease.      *)
BeginPart(t) ==
  /\ put[t] = "idle"
  /\ ulock = None /\ ~deleted /\ Open(t)
  /\ Moves(t, "sending") /\ IntentBecomes(t, "live") /\ Stores(t, {"manifest"})
  /\ Indexes(MeetingOf[t])
  /\ UNCHANGED <<deleted, job, audit, tomb, locks, at, pass, told, faults>>

PartLands(t) ==
  /\ put[t] = "sending"
  /\ Moves(t, "landed") /\ Stores(t, {t})
  /\ UNCHANGED <<deleted, job, audit, tomb, catalog, coverage, intent, locks, at,
                 pass, told, faults>>

(* Nothing was stored: the intent is given up. *)
PartFails(t) ==
  /\ put[t] = "sending"
  /\ Moves(t, "done") /\ IntentBecomes(t, "none")
  /\ UNCHANGED <<deleted, job, audit, tomb, objects, catalog, coverage, locks, at,
                 pass, told, faults>>

(* The second short phase publishes the part with its manifest ... *)
PublishPart(t) ==
  /\ put[t] = "landed"
  /\ ulock = None /\ ~deleted /\ Open(t)
  /\ Moves(t, "done") /\ IntentBecomes(t, "none") /\ Stores(t, {"manifest"})
  /\ Indexes(MeetingOf[t])
  /\ UNCHANGED <<deleted, job, audit, tomb, locks, at, pass, told, faults>>

(* ... or finds the account or the meeting deleted. *)
FindsDeleted(t) ==
  /\ put[t] = "landed" /\ ulock = None
  /\ deleted \/ (mlock[MeetingOf[t]] = None /\ Closed(MeetingOf[t]))
  /\ Moves(t, "late")
  /\ UNCHANGED <<deleted, job, audit, store, locks, at, pass, told, faults>>

(* scheduleLateMeetingDeletionCleanup retries or reopens the deletion of   *)
(* the meeting; when only the account is deleted so far there is none, and *)
(* the error leaves the intent where it is.                                *)
LateCleanup(t) ==
  LET m == MeetingOf[t] IN
  /\ put[t] = "late" /\ mlock[m] = None
  /\ Moves(t, "done")
  /\ IF Closed(m)
     THEN /\ tomb' = [tomb EXCEPT ![m] = "pending"]
          /\ IntentBecomes(t, "none")
     ELSE UNCHANGED <<tomb, intent>>
  /\ UNCHANGED <<deleted, job, audit, objects, catalog, coverage, locks, at, pass,
                 told, faults>>

(* persistMeetingManifest, first its intent: only for an active account. *)
BeginManifest(t) ==
  /\ put[t] = "idle"
  /\ ~deleted /\ Open(t)
  /\ Moves(t, "sending") /\ IntentBecomes(t, "live")
  /\ mlock' = [mlock EXCEPT ![MeetingOf[t]] = t]
  /\ UNCHANGED <<deleted, job, audit, tomb, objects, catalog, coverage, ulock, at,
                 pass, told, faults>>

ManifestLands(t) ==
  /\ put[t] = "sending"
  /\ Moves(t, "landed") /\ Stores(t, {"manifest"})
  /\ UNCHANGED <<deleted, job, audit, tomb, catalog, coverage, intent, locks, at,
                 pass, told, faults>>

(* A failed PUT leaves the intent to the next audit. *)
ManifestFails(t) ==
  /\ put[t] = "sending"
  /\ Moves(t, "done")
  /\ LeavesLock(t)
  /\ UNCHANGED <<deleted, job, audit, store, ulock, at, pass, told, faults>>

(* upsertMeetingCatalog takes no row for a deleted account: its error      *)
(* leaves the intent too.                                                  *)
IndexManifest(t) ==
  /\ put[t] = "landed"
  /\ Moves(t, "done")
  /\ IF deleted THEN UNCHANGED <<catalog, coverage, intent>>
     ELSE Indexes(MeetingOf[t]) /\ IntentBecomes(t, "none")
  /\ LeavesLock(t)
  /\ UNCHANGED <<deleted, job, audit, tomb, objects, ulock, at, pass, told, faults>>

(* A PUT of a dead process may still arrive while its intent lives. *)
TransferCrashes(t) ==
  /\ put[t] \in {"sending", "landed", "late"}
  /\ Fault
  /\ Moves(t, IF put[t] = "sending" THEN "orphan" ELSE "done")
  /\ LeavesLock(t)
  /\ UNCHANGED <<deleted, job, audit, store, ulock, at, pass, told>>

OrphanLands(t) ==
  /\ put[t] = "orphan"
  /\ Moves(t, "done")
  /\ \/ Stores(t, IF t \in Parts THEN {t} ELSE {"manifest"})
     \/ UNCHANGED objects
  /\ UNCHANGED <<deleted, job, audit, tomb, catalog, coverage, intent, locks, at,
                 pass, told, faults>>

IntentExpires(t) ==
  /\ intent[t] = "live" /\ put[t] = "done"
  /\ IntentBecomes(t, "expired")
  /\ UNCHANGED <<deleted, job, audit, tomb, objects, catalog, coverage, locks, procs,
                 told, faults>>

(* DELETE of a single meeting, by its owner. *)
DeleteMeeting(m) ==
  /\ ~deleted /\ ~Closed(m) /\ mlock[m] = None
  /\ tomb' = [tomb EXCEPT ![m] = "pending"]
  /\ UNCHANGED <<deleted, job, audit, objects, catalog, coverage, intent, locks, procs,
                 told, faults>>

-----------------------------------------------------------------------------
(* The storage audit.                                                      *)

AuditAges ==
  /\ audit.fresh
  /\ audit' = [audit EXCEPT !.fresh = FALSE]
  /\ UNCHANGED <<deleted, job, store, locks, procs, told, faults>>

Expired(t) == t \in Edits /\ intent[t] = "expired" /\ ~Closed(MeetingOf[t])

(* recoverExpiredMeetingCatalogTransfers indexes the manifest of an        *)
(* expired intent without asking for the state of its owner: for a deleted *)
(* account upsertMeetingCatalog refuses, and the audit ends there.         *)
AuditBlocked ==
  deleted /\ \E t \in Edits : Expired(t) /\ "manifest" \in objects[MeetingOf[t]]

(* What the audit makes of a prefix. *)
CoverageOf(m) ==
  CASE objects[m] = {} -> "none"
    [] Closed(m) -> coverage[m]
    [] "manifest" \in objects[m] -> IF deleted THEN "owned" ELSE "none"
    [] OTHER -> IF Evidence(m) THEN "owned" ELSE "unowned"

(* backfillMeetingCatalog, each prefix under its meeting's lock. *)
Backfill ==
  /\ ~AuditBlocked
  /\ \A m \in Meetings : mlock[m] = None
  /\ coverage' = [m \in Meetings |-> CoverageOf(m)]
  /\ catalog' = IF deleted THEN catalog
                ELSE catalog \cup {m \in Meetings : ~Closed(m) /\ "manifest" \in objects[m]}
  /\ intent' = [t \in Transfers |->
       IF Expired(t) /\ (objects[MeetingOf[t]] = {} \/ "manifest" \in objects[MeetingOf[t]])
       THEN "none" ELSE intent[t]]
  /\ audit' = [fresh |-> TRUE, clean |-> \A m \in Meetings : coverage'[m] # "unowned"]

(* refreshMeetingStorageIntegrityAudit, before a claim: an audit that is   *)
(* fresh, but old enough, may be renewed too.                              *)
Audit(w) ==
  /\ pass[w].at = "idle"
  /\ Backfill
  /\ UNCHANGED <<deleted, job, tomb, objects, locks, procs, told, faults>>

-----------------------------------------------------------------------------
(* runAccountDeletionObjectCleanupOnce.                                    *)

Passes(w, p) == pass' = [pass EXCEPT ![w] = p]
Turns(w, stage) == Passes(w, [Idle EXCEPT !.at = stage])

(* Mutant: only a failed pass would be counted, and it is not. *)
Uncounted(w) == [job EXCEPT !.holder = w, !.fresh = TRUE]

ClaimedBy(w) == [job EXCEPT !.holder = w, !.fresh = TRUE, !.attempt = @ + 1]

Claim(w) ==
  /\ pass[w].at = "idle" /\ audit.fresh /\ audit.clean
  /\ deleted /\ job.row /\ ~job.dead /\ job.due /\ ~job.fresh
  /\ job' = ClaimedBy(w)
  /\ Turns(w, "discover")
  /\ UNCHANGED <<deleted, audit, store, locks, at, put, told, faults>>

(* discoverMeetingIdsForAccountDeletion: a catalog that is not ready is    *)
(* filled first; a failure of that is only logged.                         *)
Discover(w) ==
  /\ pass[w].at = "discover"
  /\ Backfill \/ UNCHANGED <<coverage, catalog, intent, audit>>
  /\ Passes(w, [Idle EXCEPT !.at = "visit",
                  !.todo = {m \in Meetings : objects[m] # {} \/ m \in catalog'
                              \/ tomb[m] = "pending"
                              \/ \E t \in Transfers : MeetingOf[t] = m /\ intent'[t] # "none"}])
  /\ UNCHANGED <<deleted, job, tomb, objects, locks, at, put, told, faults>>

(* The deletion of one meeting, with its tombstone: nothing may hold an    *)
(* intent any more that is not expired.                                    *)
Cleaned(m) ==
  /\ LiveIntents(m) = {}
  /\ tomb' = [tomb EXCEPT ![m] = "fence"]
  /\ objects' = [objects EXCEPT ![m] = {}]
  /\ catalog' = catalog \ {m}
  /\ coverage' = [coverage EXCEPT ![m] = "none"]
  /\ intent' = [t \in Transfers |-> IF MeetingOf[t] = m THEN "none" ELSE intent[t]]

(* It fails at the store, at an intent, or after the purge of the rows. *)
NotCleaned(m) ==
  /\ tomb' = [tomb EXCEPT ![m] = "pending"]
  /\ \E left \in SUBSET objects[m] :
       /\ objects' = [objects EXCEPT ![m] = left]
       /\ coverage' = [coverage EXCEPT ![m] = IF left = {} THEN "none" ELSE @]
       /\ \/ UNCHANGED catalog
          \/ left = {} /\ LiveIntents(m) = {} /\ catalog' = catalog \ {m}
  /\ intent' = [t \in Transfers |->
       IF MeetingOf[t] = m /\ intent[t] = "expired" THEN "none" ELSE intent[t]]

(* deleteAllUserMeetings takes the meetings one by one. *)
Visited(w, m, failed) ==
  Passes(w, [pass[w] EXCEPT !.todo = @ \ {m}, !.pending = @ \/ failed])

Visits(w, m) ==
  /\ pass[w].at = "visit" /\ m \in pass[w].todo
  /\ mlock[m] = None

VisitCleans(w, m) ==
  /\ Visits(w, m) /\ Evidence(m)
  /\ Cleaned(m)
  /\ Visited(w, m, FALSE)
  /\ UNCHANGED <<deleted, job, audit, locks, at, put, told, faults>>

VisitFails(w, m) ==
  /\ Visits(w, m) /\ Evidence(m)
  /\ NotCleaned(m)
  /\ Visited(w, m, TRUE)
  /\ UNCHANGED <<deleted, job, audit, locks, at, put, told, faults>>

(* Somebody finished this meeting since it was discovered: the prefix that *)
(* is not there is quarantined, and no audit is valid before the next one. *)
VisitFindsNothing(w, m) ==
  /\ Visits(w, m) /\ ~Evidence(m)
  /\ coverage' = [coverage EXCEPT ![m] = "unowned"]
  /\ audit' = [audit EXCEPT !.fresh = FALSE]
  /\ Visited(w, m, FALSE)
  /\ UNCHANGED <<deleted, job, tomb, objects, catalog, intent, locks, at, put, told,
                 faults>>

(* A query, the store or the wait for a meeting's lock fails. *)
PassFails(w) ==
  /\ pass[w].at \in {"discover", "visit"} \cup DOMAIN NextCheck
  /\ Turns(w, "retry")
  /\ UNCHANGED <<deleted, job, audit, store, locks, at, put, told, faults>>

AllVisited(w) ==
  /\ pass[w].at = "visit" /\ pass[w].todo = {}
  /\ Turns(w, IF pass[w].pending THEN "retry" ELSE "catalog")
  /\ UNCHANGED <<deleted, job, audit, store, locks, at, put, told, faults>>

CheckLeft(w) ==
  /\ pass[w].at \in DOMAIN NextCheck
  /\ Turns(w, IF Pending(pass[w].at) THEN "retry" ELSE NextCheck[pass[w].at])
  /\ UNCHANGED <<deleted, job, audit, store, locks, at, put, told, faults>>

(* delete ... where user_id = $1 and claim_token = $2 *)
Finish(w) ==
  /\ pass[w].at = "finish"
  /\ job' = IF job.holder = w THEN NoJob ELSE job
  /\ Turns(w, "idle")
  /\ UNCHANGED <<deleted, audit, store, locks, at, put, told, faults>>

(* Mutant: no job is ever given up. *)
RetriedForEver == [job EXCEPT !.holder = None, !.fresh = FALSE, !.due = FALSE]

Retried ==
  [job EXCEPT !.holder = None, !.fresh = FALSE,
              !.due = job.attempt >= MaxAttempts,
              !.dead = job.attempt >= MaxAttempts]

Retry(w) ==
  /\ pass[w].at = "retry"
  /\ job' = IF job.holder = w THEN Retried ELSE job
  /\ Turns(w, "idle")
  /\ UNCHANGED <<deleted, audit, store, locks, at, put, told, faults>>

(* A heartbeat that finds another claim stops the pass; so does one that   *)
(* fails, and a crash.                                                     *)
WorkerStops(w) ==
  /\ pass[w].at # "idle"
  /\ IF job.holder # w THEN UNCHANGED faults ELSE Fault
  /\ Turns(w, "idle")
  /\ UNCHANGED <<deleted, job, audit, store, locks, at, put, told>>

(* Five minutes without a heartbeat, which only a stalled process misses. *)
ClaimGoesStale ==
  /\ job.fresh
  /\ IF pass[job.holder].at = "idle" THEN UNCHANGED faults ELSE Fault
  /\ job' = [job EXCEPT !.fresh = FALSE]
  /\ UNCHANGED <<deleted, audit, store, locks, procs, told>>

BecomesDue ==
  /\ job.row /\ ~job.due
  /\ job' = [job EXCEPT !.due = TRUE]
  /\ UNCHANGED <<deleted, audit, store, locks, procs, told, faults>>

(* replayDeadLetteredAccountDeletionCleanup, by an operator *)
Replay ==
  /\ deleted /\ job.row /\ job.dead
  /\ job' = NewJob
  /\ UNCHANGED <<deleted, audit, store, locks, procs, told, faults>>

(* The worker of single meetings, on one that is pending. *)
MeetingCleanup(m) ==
  /\ tomb[m] = "pending" /\ mlock[m] = None
  /\ Cleaned(m) \/ NotCleaned(m)
  /\ UNCHANGED <<deleted, job, audit, locks, procs, told, faults>>

-----------------------------------------------------------------------------

RequestNext(r) ==
  \/ Enter(r) \/ Check(r) \/ Schedule(r) \/ DeleteAccount(r) \/ Cancel(r)
  \/ ReadStatus(r)

PartNext(t) ==
  \/ BeginPart(t) \/ PartLands(t) \/ PartFails(t) \/ PublishPart(t)
  \/ FindsDeleted(t) \/ LateCleanup(t)

EditNext(t) ==
  \/ BeginManifest(t) \/ ManifestLands(t) \/ ManifestFails(t) \/ IndexManifest(t)

Visit(w) ==
  \E m \in Meetings :
    VisitCleans(w, m) \/ VisitFails(w, m) \/ VisitFindsNothing(w, m)

PassNext(w) ==
  \/ Discover(w) \/ Visit(w) \/ AllVisited(w) \/ CheckLeft(w) \/ PassFails(w)
  \/ Finish(w) \/ Retry(w)

Next ==
  \/ \E r \in Requests : RequestNext(r) \/ RequestCrashes(r) \/ AskWithReceipt(r)
  \/ \E t \in Parts : PartNext(t)
  \/ \E t \in Edits : EditNext(t)
  \/ \E t \in Transfers : TransferCrashes(t) \/ OrphanLands(t) \/ IntentExpires(t)
  \/ \E m \in Meetings : DeleteMeeting(m) \/ MeetingCleanup(m)
  \/ \E w \in Workers : Audit(w) \/ Claim(w) \/ PassNext(w) \/ WorkerStops(w)
  \/ AuditAges \/ ClaimGoesStale \/ BecomesDue \/ Replay

Spec == Init /\ [][Next]_vars

(* What is begun goes on: a pass, a request, an edit under its lock.  The  *)
(* refresh and the claim are one call of the worker's loop, so the claim   *)
(* comes while the audit is fresh.  Nobody owes a replay or a success.     *)
FairSpec ==
  /\ Spec
  /\ \A w \in Workers : /\ WF_vars(PassNext(w)) /\ WF_vars(Audit(w))
                        /\ SF_vars(Claim(w))
  /\ \A r \in Requests : WF_vars(at[r] \notin {"idle", "answered"} /\ RequestNext(r))
  /\ \A t \in Parts : WF_vars(put[t] # "idle" /\ PartNext(t))
  /\ \A t \in Edits : WF_vars(put[t] # "idle" /\ EditNext(t))
  /\ \A t \in Transfers : WF_vars(IntentExpires(t))
  /\ WF_vars(ClaimGoesStale) /\ WF_vars(BecomesDue)

-----------------------------------------------------------------------------

Erased(m) == objects[m] = {} /\ m \notin catalog /\ IntentsOf(m) = {}

(* A receipt that said "deleted" was right and stays right: no object, no  *)
(* catalog row, no tombstone, no intent and no job is left or comes back   *)
(* (resolveAccountDeletionStatus reads one table after the other).         *)
ReceiptIsTrue ==
  told => /\ ~job.row
          /\ \A m \in Meetings : Erased(m) /\ tomb[m] # "pending"

(* What a deleted account left somewhere, somebody still has to remove:    *)
(* the account's job, through failed requests, lost answers and crashes,   *)
(* or the meeting's own tombstone.                                         *)
NothingForgotten ==
  deleted => \A m \in Meetings : Erased(m) \/ job.row \/ tomb[m] = "pending"

(* Every object of a deleted account can be attributed to it until it is   *)
(* gone, though its cleaning may stop anywhere: an object nobody owns      *)
(* would stop the deletion of every account.                               *)
EvidenceKept == \A m \in Meetings : objects[m] # {} => Evidence(m)

(* A deleted account is erased, or its job comes to the dead letters after *)
(* a bounded number of claims, or the audit is blocked by a manifest of a  *)
(* deleted account: a pass that is retried does not go on for ever.        *)
(* (A deleted account stays deleted.)                                      *)
EventuallySettled ==
  []<>(deleted => \/ AuditBlocked \/ job.dead
                  \/ ~job.row /\ \A m \in Meetings : Erased(m))

=============================================================================
