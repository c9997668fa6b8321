-------------------------- MODULE MeetingDeletion --------------------------
(***************************************************************************)
(* The deletion of one meeting and its objects: the tombstone, the durable *)
(* cleanup claims of the workers, and the object transfers (resumable      *)
(* upload parts, recording commits, transient ASR inputs) that PUT without *)
(* any lock and may land after the prefix was erased.                      *)
(*                                                                         *)
(* A statement is one SQL transaction.  The meeting's write lock is held   *)
(* across steps only by a deletion; a fenced section of a transfer is one  *)
(* step that needs the lock to be free.  Clocks are abstracted to rows     *)
(* that become due and claims and intents that run out.  One owner, whose  *)
(* account is not being deleted.                                           *)
(***************************************************************************)
EXTENDS Naturals, FiniteSets

CONSTANTS
  Handlers,   \* DELETE requests in flight
  Workers,    \* processes that run runMeetingDeletionCleanupOnce
  Parts,      \* saveMeetingRecordingUploadPart calls: one PUT phase
  Commits,    \* commitMeetingRecordingUpload calls: audio, then receipt
  Inputs,     \* prepareForAsr calls: a transient object, removed after use
  None,
  FailAfterPut,  \* the transfers that may fail although their object is stored
  MaxCrashes     \* bound: crashes of deletions

Transfers == Parts \cup Commits \cup Inputs
Deleters == Handlers \cup Workers

ASSUME DeletionAssumption ==
  /\ None \notin Deleters
  /\ Handlers \cap Workers = {}
  /\ Parts \cap Commits = {} /\ Parts \cap Inputs = {} /\ Commits \cap Inputs = {}
  /\ FailAfterPut \subseteq Transfers
  /\ MaxCrashes \in Nat

VARIABLES
  tomb,     \* the meeting's row of meeting_deletion_tombstones
  gone,     \* its meeting_deletion_fences row exists
  catalog,  \* its meetings row exists
  objects,  \* what the object store holds under the meeting's prefix
  intent,   \* meeting_object_transfer_intents
  lock,     \* the deletion inside the meeting's write lock
  at,       \* what each deletion is doing
  xfer,     \* what each transfer is doing
  crashes   \* how many deletions have crashed

rows == <<tomb, gone, catalog, intent>>
vars == <<tomb, gone, catalog, objects, intent, lock, at, xfer, crashes>>

Manifest == <<None, 1>>
(* A transfer's objects are numbered in the order it puts them. *)
Object == {Manifest} \cup (Transfers \X {1, 2})
NoTombstone == [pending |-> FALSE, token |-> None, fresh |-> FALSE, due |-> FALSE]
(* A tombstone that any worker may claim now, and one to be retried later. *)
DueTombstone == [NoTombstone EXCEPT !.pending = TRUE, !.due = TRUE]
Postponed == [NoTombstone EXCEPT !.pending = TRUE]

TypeOK ==
  /\ tomb \in [pending : BOOLEAN, token : Workers \cup {None}, fresh : BOOLEAN,
               due : BOOLEAN]
  /\ gone \in BOOLEAN
  /\ catalog \in BOOLEAN
  /\ objects \subseteq Object
  /\ intent \in [Transfers -> {"none", "live", "expired"}]
  /\ lock \in Deleters \cup {None}
  /\ at \in [Deleters -> {"idle", "claimed", "resolve", "erase", "purge",
                          "complete", "fail", "answered"}]
  /\ xfer \in [Transfers ->
       [at : {"idle", "sending", "landed", "failed", "late", "reopen", "release",
              "using", "cleaning", "cleaned", "orphan", "done"},
        puts : 0..2, then : {"release", "cleaning", "done"}]]
  /\ crashes \in 0..MaxCrashes

Init ==
  /\ tomb = NoTombstone
  /\ gone = FALSE
  /\ catalog = TRUE
  /\ objects = {Manifest}
  /\ intent = [t \in Transfers |-> "none"]
  /\ lock = None
  /\ at = [d \in Deleters |-> "idle"]
  /\ xfer = [t \in Transfers |-> [at |-> "idle", puts |-> 0, then |-> "done"]]
  /\ crashes = 0

(* isMeetingWriteAllowed, negated *)
Deleted == tomb.pending \/ gone
(* The deletion is over: only the one-way fence is left. *)
Completed == gone /\ ~tomb.pending

-----------------------------------------------------------------------------
(* Transfers.                                                              *)

Goes(t, place) == xfer' = [xfer EXCEPT ![t].at = place]
Is(t, place) == xfer[t].at = place

(* beginMeetingObjectTransferIntent, inside the fence. *)
Begin(t) ==
  /\ Is(t, "idle")
  /\ lock = None /\ ~Deleted
  /\ intent' = [intent EXCEPT ![t] = "live"]
  /\ Goes(t, "sending")
  /\ UNCHANGED <<tomb, gone, catalog, objects, lock, at, crashes>>

(* The lock-free PUT. *)
PutLands(t) ==
  /\ Is(t, "sending")
  /\ objects' = objects \cup {<<t, xfer[t].puts + 1>>}
  /\ xfer' = [xfer EXCEPT ![t].at = "landed", ![t].puts = @ + 1]
  /\ UNCHANGED <<rows, lock, at, crashes>>

(***************************************************************************)
(* The transfer fails before its fenced check, with an error that          *)
(* isMeetingDeletionTransferError does not know.  A PUT that was refused   *)
(* stored nothing; after one that was not (the answer was lost, a second   *)
(* PUT failed, the lock timed out) the object is there.                    *)
(***************************************************************************)
PutFails(t) ==
  /\ Is(t, "sending")
  /\ \E stored \in SUBSET {<<t, xfer[t].puts + 1>>} :
       /\ stored = {} \/ t \in FailAfterPut
       /\ objects' = objects \cup stored
  /\ Goes(t, "failed")
  /\ UNCHANGED <<rows, lock, at, crashes>>

(* What a transfer still does after its late cleanup was scheduled. *)
Afterwards(t) ==
  IF t \in Inputs THEN "cleaning"
  ELSE IF Deleted THEN "release" ELSE "done"

(* The fenced section after a PUT finds the meeting deleted (410), or its  *)
(* intent resolved by a deletion.                                          *)
FindsDeleted(t) ==
  /\ Is(t, "landed")
  /\ lock = None
  /\ Deleted \/ (intent[t] = "none" /\ t \notin Inputs)
  /\ xfer' = [xfer EXCEPT ![t].at = "late", ![t].then = Afterwards(t)]
  /\ UNCHANGED <<rows, objects, lock, at, crashes>>

(* The audio of the recording is stored, its receipt is not. *)
AwaitsPublication(t) == t \in Commits /\ xfer[t].puts = 1

(* publishPreparedRecordingCommitUnsafe; the receipt's PUT follows. *)
Publish(t) ==
  /\ Is(t, "landed") /\ AwaitsPublication(t)
  /\ lock = None /\ ~Deleted
  /\ objects' = objects \cup {Manifest}
  /\ catalog' = TRUE
  /\ Goes(t, "sending")
  /\ UNCHANGED <<tomb, gone, intent, lock, at, crashes>>

(* The postflight of a part or a commit: the intent ends with the manifest.*)
Postflight(t) ==
  /\ Is(t, "landed") /\ t \notin Inputs
  /\ ~AwaitsPublication(t)
  /\ lock = None /\ ~Deleted /\ intent[t] # "none"
  /\ objects' = IF t \in Parts THEN objects \cup {Manifest} ELSE objects
  /\ catalog' = (catalog \/ t \in Parts)
  /\ intent' = [intent EXCEPT ![t] = "none"]
  /\ Goes(t, "done")
  /\ UNCHANGED <<tomb, gone, lock, at, crashes>>

(* assertRevisionCurrent: the provider may fetch the input from here on. *)
InputReady(t) ==
  /\ Is(t, "landed") /\ t \in Inputs
  /\ lock = None /\ ~Deleted
  /\ Goes(t, "using")
  /\ UNCHANGED <<rows, objects, lock, at, crashes>>

InputUsed(t) ==
  /\ Is(t, "using")
  /\ Goes(t, "cleaning")
  /\ UNCHANGED <<rows, objects, lock, at, crashes>>

(* completeTransferIntentAfterSettledFailure; a transient input is removed *)
(* first.                                                                  *)
Settles(t) ==
  /\ Is(t, "failed") \/ Is(t, "release")
  /\ IF t \in Inputs
     THEN Goes(t, "cleaning") /\ UNCHANGED intent
     ELSE Goes(t, "done") /\ intent' = [intent EXCEPT ![t] = "none"]
  /\ UNCHANGED <<tomb, gone, catalog, objects, lock, at, crashes>>

-----------------------------------------------------------------------------
(* scheduleLateMeetingDeletionCleanup.                                     *)

(* retryMeetingDeletionCleanup without a claim token: it also takes the    *)
(* claim away from a cleanup in progress.                                  *)
LateRetry(t) ==
  /\ Is(t, "late")
  /\ IF tomb.pending
     THEN tomb' = Postponed /\ Goes(t, xfer[t].then)
     ELSE UNCHANGED tomb /\ Goes(t, "reopen")
  /\ UNCHANGED <<gone, catalog, objects, intent, lock, at, crashes>>

(* Mutant: a deletion that is over stays over. *)
StaysClosed == tomb

ReopenedTombstone == IF gone THEN DueTombstone ELSE tomb

(* reopenMeetingDeletionCleanup; without a fence nothing can be reopened   *)
(* and the error leaves the intent where it is.                            *)
LateReopen(t) ==
  /\ Is(t, "reopen")
  /\ lock = None
  /\ tomb' = ReopenedTombstone
  /\ Goes(t, IF gone THEN xfer[t].then ELSE "done")
  /\ UNCHANGED <<gone, catalog, objects, intent, lock, at, crashes>>

-----------------------------------------------------------------------------
(* deleteTransientUnsafe.                                                  *)

CleanInput(t) ==
  /\ Is(t, "cleaning")
  /\ objects' = objects \ {<<t, 1>>}
  /\ Goes(t, "cleaned")
  /\ UNCHANGED <<rows, lock, at, crashes>>

CleanedInput(t) ==
  /\ Is(t, "cleaned")
  /\ intent[t] # "none"
  /\ intent' = [intent EXCEPT ![t] = "none"]
  /\ Goes(t, "done")
  /\ UNCHANGED <<tomb, gone, catalog, objects, lock, at, crashes>>

(* The object cannot be removed, or its intent is gone: the deletion, if   *)
(* there is one, has to look again.                                        *)
CleanFails(t) ==
  /\ Is(t, "cleaning") \/ (Is(t, "cleaned") /\ intent[t] = "none")
  /\ xfer' = [xfer EXCEPT ![t].at = IF Deleted THEN "late" ELSE "done",
                          ![t].then = "done"]
  /\ UNCHANGED <<rows, objects, lock, at, crashes>>

-----------------------------------------------------------------------------
(* Deletions: a DELETE request, and the durable cleanup.                   *)

Step(d, from, to) == at[d] = from /\ at' = [at EXCEPT ![d] = to]
(* A request is answered once; a worker polls again. *)
Over(d) == IF d \in Handlers THEN "answered" ELSE "idle"

(* deleteUserMeeting up to the tombstone.  A completed deletion answers 404. *)
RequestDelete(h) ==
  /\ Step(h, "idle", "resolve")
  /\ lock = None /\ ~Completed
  /\ lock' = h
  /\ tomb' = IF tomb.pending THEN tomb ELSE DueTombstone
  /\ UNCHANGED <<gone, catalog, objects, intent, xfer, crashes>>

(* claimMeetingDeletionCleanup *)
Claim(w) ==
  /\ Step(w, "idle", "claimed")
  /\ tomb.pending /\ tomb.due /\ ~tomb.fresh
  /\ tomb' = [tomb EXCEPT !.token = w, !.fresh = TRUE]
  /\ UNCHANGED <<gone, catalog, objects, intent, lock, xfer, crashes>>

EnterLock(w) ==
  /\ Step(w, "claimed", "resolve")
  /\ lock = None
  /\ lock' = w
  /\ UNCHANGED <<rows, objects, xfer, crashes>>

(* The lock timeout is outside the try block: the claim stays. *)
LockTimesOut(w) ==
  /\ Step(w, "claimed", "idle")
  /\ lock # None
  /\ UNCHANGED <<rows, objects, lock, xfer, crashes>>

(* resolveExpiredMeetingObjectTransfersForDeletion *)
ResolveExpired(d) ==
  /\ Step(d, "resolve", "erase")
  /\ intent' = [t \in Transfers |->
                  IF intent[t] = "expired" THEN "none" ELSE intent[t]]
  /\ UNCHANGED <<tomb, gone, catalog, objects, lock, xfer, crashes>>

(* deletePrefix lists again after the removal and fails unless the prefix  *)
(* is empty, so it succeeds at the moment of that listing.                 *)
Erase(d) ==
  /\ Step(d, "erase", "purge")
  /\ objects' = {}
  /\ UNCHANGED <<rows, lock, xfer, crashes>>

(* A failing store, an object that landed meanwhile, the inline deadline:  *)
(* before the first removal, or after the last.                            *)
EraseFails(d) ==
  /\ Step(d, "erase", "fail")
  /\ objects' \in {objects, {}}
  /\ UNCHANGED <<rows, lock, xfer, crashes>>

(* A DELETE request passes no claim token. *)
Owns(d) == tomb.pending /\ (d \in Handlers \/ tomb.token = d)

(* Mutant: an intent that has run out no longer holds a deletion back. *)
NoneIsLive == \A t \in Transfers : intent[t] # "live"

NoneIsLeft == \A t \in Transfers : intent[t] = "none"

(* purgeMeetingCatalogAfterObjectDeletion *)
Purge(d) ==
  /\ IF Owns(d) /\ NoneIsLeft
     THEN Step(d, "purge", "complete") /\ catalog' = FALSE
     ELSE Step(d, "purge", "fail") /\ UNCHANGED catalog
  /\ UNCHANGED <<tomb, gone, objects, intent, lock, xfer, crashes>>

(* moveCompletedMeetingDeletionToFence: nothing to do for a lost claim.    *)
Complete(d) ==
  /\ IF Owns(d) /\ (catalog \/ ~NoneIsLeft)
     THEN Step(d, "complete", "fail") /\ UNCHANGED <<gone, tomb, lock>>
     ELSE /\ Step(d, "complete", Over(d))
          /\ lock' = None
          /\ IF Owns(d) THEN gone' = TRUE /\ tomb' = NoTombstone
                        ELSE UNCHANGED <<gone, tomb>>
  /\ UNCHANGED <<catalog, objects, intent, xfer, crashes>>

(* retryMeetingDeletionCleanup, then the end of the locked section. *)
Retry(d) ==
  /\ Step(d, "fail", Over(d))
  /\ tomb' = IF Owns(d) THEN Postponed ELSE tomb
  /\ lock' = None
  /\ UNCHANGED <<gone, catalog, objects, intent, xfer, crashes>>

-----------------------------------------------------------------------------
(* Crashes and time.                                                       *)

(* PostgreSQL frees the lock of a lost connection. *)
DeleterCrashes(d) ==
  /\ at[d] \notin {"idle", "answered"} /\ crashes < MaxCrashes
  /\ crashes' = crashes + 1
  /\ at' = [at EXCEPT ![d] = Over(d)]
  /\ lock' = IF lock = d THEN None ELSE lock
  /\ UNCHANGED <<rows, objects, xfer>>

(* A request in flight may still arrive at the store.  A transfer that has *)
(* outlived its own intent is assumed not to crash as well.                *)
TransferCrashes(t) ==
  /\ xfer[t].at \notin {"idle", "orphan", "done"}
  /\ intent[t] = "live" \/ (intent[t] = "expired" /\ ~Is(t, "sending"))
  /\ Goes(t, IF Is(t, "sending") THEN "orphan" ELSE "done")
  /\ UNCHANGED <<rows, objects, lock, at, crashes>>

OrphanLands(t) ==
  /\ Is(t, "orphan")
  /\ \E arrived \in {{}, {<<t, xfer[t].puts + 1>>}} : objects' = objects \cup arrived
  /\ Goes(t, "done")
  /\ UNCHANGED <<rows, lock, at, crashes>>

(* The intent's lifetime bounds the PUT of a process that is gone; a live  *)
(* handler may take longer.                                                *)
IntentExpires(t) ==
  /\ intent[t] = "live" /\ ~Is(t, "orphan")
  /\ intent' = [intent EXCEPT ![t] = "expired"]
  /\ UNCHANGED <<tomb, gone, catalog, objects, lock, at, xfer, crashes>>

BecomesDue ==
  /\ tomb.pending /\ ~tomb.due
  /\ tomb' = [tomb EXCEPT !.due = TRUE]
  /\ UNCHANGED <<gone, catalog, objects, intent, lock, at, xfer, crashes>>

ClaimExpires ==
  /\ tomb.fresh
  /\ tomb' = [tomb EXCEPT !.fresh = FALSE]
  /\ UNCHANGED <<gone, catalog, objects, intent, lock, at, xfer, crashes>>

-----------------------------------------------------------------------------
TransferSteps(t) ==
  \/ PutLands(t)
  \/ PutFails(t)
  \/ FindsDeleted(t)
  \/ Publish(t)
  \/ Postflight(t)
  \/ InputReady(t)
  \/ InputUsed(t)
  \/ Settles(t)
  \/ LateRetry(t)
  \/ LateReopen(t)
  \/ CleanInput(t)
  \/ CleanedInput(t)
  \/ OrphanLands(t)

CleanupSteps(d) ==
  \/ ResolveExpired(d)
  \/ Erase(d)
  \/ EraseFails(d)
  \/ Purge(d)
  \/ Complete(d)
  \/ Retry(d)

Next ==
  \/ \E t \in Transfers : \/ Begin(t)
                          \/ TransferSteps(t)
                          \/ CleanFails(t)
                          \/ TransferCrashes(t)
                          \/ IntentExpires(t)
  \/ \E h \in Handlers : RequestDelete(h)
  \/ \E w \in Workers : Claim(w) \/ EnterLock(w) \/ LockTimesOut(w)
  \/ \E d \in Deleters : CleanupSteps(d) \/ DeleterCrashes(d)
  \/ BecomesDue
  \/ ClaimExpires

Spec == Init /\ [][Next]_vars

(***************************************************************************)
(* Fairness.  Workers poll for ever, and the object store does not fail    *)
(* every one of their removals; whoever is not dead goes on, and the lock  *)
(* is granted to it when nobody holds it; clocks run.                      *)
(***************************************************************************)
WorkerSteps(w) == Claim(w) \/ EnterLock(w) \/ CleanupSteps(w)

Fairness ==
  /\ \A w \in Workers : WF_vars(WorkerSteps(w)) /\ SF_vars(Erase(w))
  /\ \A h \in Handlers : WF_vars(CleanupSteps(h))
  /\ \A t \in Transfers : WF_vars(TransferSteps(t)) /\ WF_vars(IntentExpires(t))
  /\ WF_vars(BecomesDue \/ ClaimExpires)

FairSpec == Spec /\ Fairness

-----------------------------------------------------------------------------
(* Properties.                                                             *)

(* The comment of scheduleLateMeetingDeletionCleanup: a lock-free late PUT *)
(* cannot survive a cleanup that completed while it was in flight.  When a *)
(* deletion is over, an object is left only if its transfer has yet to     *)
(* look at the meeting, to remove the object or to reopen the deletion.    *)
ErasedUnlessOwed ==
  Completed =>
    \A o \in objects : \E t \in Transfers :
      /\ o \in {t} \X {1, 2}
      /\ xfer[t].at \in {"landed", "late", "reopen", "failed", "using", "cleaning"}

(* A deletion once accepted ends with an empty prefix and no row that      *)
(* names the meeting, for good, however many cleanups crash, lose their    *)
(* claim or are overtaken by late transfers.  (An accepted deletion stays  *)
(* accepted, so the one moment serves every behaviour.)                    *)
EventuallyErased ==
  <>[](Deleted => Completed /\ objects = {} /\ ~catalog)
=============================================================================
