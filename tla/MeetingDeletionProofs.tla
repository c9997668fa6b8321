----------------------- MODULE MeetingDeletionProofs ------------------------
(***************************************************************************)
(* What holds of a meeting's deletion for any requests, workers and        *)
(* transfers: the rows are well typed; and where a PUT that stores its     *)
(* object never reports a failure, a deletion that is over has left no     *)
(* object that nobody will remove.                                         *)
(***************************************************************************)
EXTENDS MeetingDeletion, TLAPS

Stages == {"idle", "claimed", "resolve", "erase", "purge", "complete", "fail", "answered"}
Places == {"idle", "sending", "landed", "failed", "late", "reopen", "release", "using",
           "cleaning", "cleaned", "orphan", "done"}
Transfer == [at : Places, puts : 0..2, then : {"release", "cleaning", "done"}]
Tombstone == [pending : BOOLEAN, token : Workers \cup {None}, fresh : BOOLEAN, due : BOOLEAN]

(* A transfer puts one object, only a commit two, and only an input cleans. *)
TransferFits(t) ==
  /\ xfer[t].at \in {"idle", "sending", "orphan"} =>
       xfer[t].puts \in {0, 1} /\ (t \notin Commits => xfer[t].puts = 0)
  /\ xfer[t].at \in {"using", "cleaning", "cleaned"} \/ xfer[t].then = "cleaning" =>
       t \in Inputs
  /\ xfer[t].at = "orphan" => intent[t] = "live"
  /\ t \notin Commits => <<t, 2>> \notin objects

TransfersFit == \A t \in Transfers : TransferFits(t)

(* A deletion past its claim has the meeting's lock. *)
LockFits ==
  \A d \in Deleters :
    at[d] \in {"resolve", "erase", "purge", "complete", "fail"} => lock = d

(* What is stored while a deletion has the lock was put after its listing: *)
(* whoever put it waits for the lock, or died and left its intent.         *)
ListingFits ==
  \A d \in Deleters : at[d] \in {"purge", "complete"} =>
    \A o \in objects : \E t \in Transfers :
      /\ o \in {t} \X {1, 2}
      /\ xfer[t].at = "landed" \/ (xfer[t].at = "done" /\ intent[t] # "none")

(* A deletion that is over left no intent, and what landed later is still  *)
(* in the hands of its transfer.                                           *)
OverFits ==
  /\ gone => \A t \in Transfers : intent[t] = "none"
  /\ Completed => \A o \in objects : \E t \in Transfers :
       /\ o \in {t} \X {1, 2}
       /\ xfer[t].at \in {"landed", "late", "reopen", "using", "cleaning"}

Typed ==
  /\ tomb \in Tombstone
  /\ gone \in BOOLEAN /\ catalog \in BOOLEAN
  /\ objects \subseteq Object
  /\ intent \in [Transfers -> {"none", "live", "expired"}]
  /\ lock \in Deleters \cup {None}
  /\ at \in [Deleters -> Stages]
  /\ xfer \in [Transfers -> Transfer]
  /\ crashes \in 0..MaxCrashes

TInv == Typed /\ TransfersFit /\ LockFits
IInv == TInv /\ ListingFits /\ OverFits

-----------------------------------------------------------------------------
(* Who takes a step. *)
TransferStep(t) ==
  Begin(t) \/ TransferSteps(t) \/ CleanFails(t) \/ TransferCrashes(t) \/ IntentExpires(t)
DeleterStep(d) ==
  \/ d \in Handlers /\ RequestDelete(d)
  \/ d \in Workers /\ (Claim(d) \/ EnterLock(d) \/ LockTimesOut(d))
  \/ CleanupSteps(d) \/ DeleterCrashes(d)
ClockStep == BecomesDue \/ ClaimExpires

(* The disjuncts of Next, by actor, and what each leaves alone. *)
LEMMA Steps ==
  /\ Next => \/ \E t \in Transfers : TransferStep(t)
             \/ \E d \in Deleters : DeleterStep(d)
             \/ ClockStep
  /\ \A t \in Transfers : TransferStep(t) => UNCHANGED <<gone, lock, at, crashes>>
  /\ \A d \in Deleters : DeleterStep(d) => UNCHANGED xfer
  /\ ClockStep => UNCHANGED <<gone, catalog, objects, intent, lock, at, xfer, crashes>>
PROOF
  <1>1. Next => \/ \E t \in Transfers : TransferStep(t)
                \/ \E d \in Deleters : DeleterStep(d)
                \/ ClockStep
    BY DEF Next, TransferStep, DeleterStep, ClockStep, Deleters
  <1>2. \A t \in Transfers : TransferStep(t) => UNCHANGED <<gone, lock, at, crashes>>
    BY DEF TransferStep, Begin, TransferSteps, PutLands, PutFails, FindsDeleted, Publish,
       Postflight, InputReady, InputUsed, Settles, LateRetry, LateReopen, CleanInput,
       CleanedInput, OrphanLands, CleanFails, TransferCrashes, IntentExpires, rows
  <1>3. \A d \in Deleters : DeleterStep(d) => UNCHANGED xfer
    BY DEF DeleterStep, RequestDelete, Claim, EnterLock, LockTimesOut, CleanupSteps,
       ResolveExpired, Erase, EraseFails, Purge, Complete, Retry, DeleterCrashes
  <1>4. ClockStep => UNCHANGED <<gone, catalog, objects, intent, lock, at, xfer, crashes>>
    BY DEF ClockStep, BecomesDue, ClaimExpires
  <1> QED  BY <1>1, <1>2, <1>3, <1>4

(* The tombstones the steps write are well typed. *)
LEMMA TombstonesTyped ==
  /\ NoTombstone \in Tombstone /\ DueTombstone \in Tombstone /\ Postponed \in Tombstone
  /\ ~NoTombstone.pending /\ DueTombstone.pending /\ Postponed.pending
PROOF BY DEF NoTombstone, DueTombstone, Postponed, Tombstone

(* What a step of a transfer makes of it, and of its intent. *)
LEMMA TransferMoves ==
  ASSUME Typed, TransfersFit, NEW t \in Transfers, TransferStep(t)
  PROVE  /\ xfer' \in [Transfers -> Transfer]
         /\ intent' \in [Transfers -> {"none", "live", "expired"}]
         /\ \A o \in Transfers \ {t} : xfer'[o] = xfer[o] /\ intent'[o] = intent[o]
PROOF
  <1> USE DEF Typed, Transfer
  <1>1. intent' \in [Transfers -> {"none", "live", "expired"}]
    BY DEF TransferStep, Begin, TransferSteps, PutLands, PutFails, FindsDeleted, Publish,
       Postflight, InputReady, InputUsed, Settles, LateRetry, LateReopen, CleanInput,
       CleanedInput, OrphanLands, CleanFails, TransferCrashes, IntentExpires, rows
  <1>2. \A o \in Transfers \ {t} : intent'[o] = intent[o]
    BY DEF TransferStep, Begin, TransferSteps, PutLands, PutFails, FindsDeleted, Publish,
       Postflight, InputReady, InputUsed, Settles, LateRetry, LateReopen, CleanInput,
       CleanedInput, OrphanLands, CleanFails, TransferCrashes, IntentExpires, rows
  <1>3. ASSUME NEW place \in Places, Goes(t, place)
        PROVE  /\ xfer' \in [Transfers -> Transfer]
               /\ \A o \in Transfers \ {t} : xfer'[o] = xfer[o]
    BY <1>3 DEF Goes
  <1>4. CASE PutLands(t)
    <2>1. xfer[t].puts + 1 \in 0..2
      BY <1>4 DEF PutLands, Is, TransfersFit, TransferFits
    <2> QED  BY <1>1, <1>2, <1>4, <2>1 DEF PutLands, Places
  <1>5. CASE FindsDeleted(t) \/ CleanFails(t)
    BY SMTT(30), <1>1, <1>2, <1>5 DEF FindsDeleted, CleanFails, Afterwards, Places
  <1>6. CASE IntentExpires(t)
    BY <1>1, <1>2, <1>6 DEF IntentExpires
  <1>7. CASE \E place \in Places : Goes(t, place)
    BY <1>1, <1>2, <1>3, <1>7
  <1>8. xfer[t].then \in Places
    BY DEF Places
  <1> QED
    BY <1>4, <1>5, <1>6, <1>7, <1>8 DEF TransferStep, Begin, TransferSteps, PutFails, Publish,
       Postflight, InputReady, InputUsed, Settles, LateRetry, LateReopen, CleanInput,
       CleanedInput, OrphanLands, TransferCrashes, Places

(* Every step keeps the types. *)
LEMMA TypedStep ==
  ASSUME TInv, Next
  PROVE  Typed'
PROOF
  <1> USE DEF TInv
  <1>1. ASSUME NEW t \in Transfers, TransferStep(t) PROVE Typed'
    <2>1. tomb' \in Tombstone
      BY <1>1, TombstonesTyped DEF Typed, TransferStep, Begin, TransferSteps, PutLands, PutFails,
         FindsDeleted, Publish, Postflight, InputReady, InputUsed, Settles, LateRetry, LateReopen,
         ReopenedTombstone, CleanInput, CleanedInput, OrphanLands, CleanFails, TransferCrashes,
         IntentExpires, rows
    <2>2. catalog' \in BOOLEAN
      BY <1>1 DEF Typed, TransferStep, Begin, TransferSteps, PutLands, PutFails, FindsDeleted,
         Publish, Postflight, InputReady, InputUsed, Settles, LateRetry, LateReopen, CleanInput,
         CleanedInput, OrphanLands, CleanFails, TransferCrashes, IntentExpires, rows
    <2>3. xfer[t].at \in {"sending", "orphan"} => <<t, xfer[t].puts + 1>> \in Object
      <3>1. xfer[t].at \in {"sending", "orphan"} => xfer[t].puts + 1 \in {1, 2}
        <4>1. xfer[t].at \in {"sending", "orphan"} => xfer[t].puts = 0 \/ xfer[t].puts = 1
          BY <1>1 DEF TransfersFit, TransferFits
        <4>2. 0 + 1 = 1 /\ 1 + 1 = 2
          OBVIOUS
        <4> QED  BY <4>1, <4>2
      <3> QED  BY <1>1, <3>1 DEF Object
    <2>4. objects' \subseteq Object
      BY <1>1, <2>3 DEF Typed, Object, TransferStep, Begin, TransferSteps, PutLands, PutFails,
         FindsDeleted, Publish, Postflight, InputReady, InputUsed, Settles, LateRetry, LateReopen,
         CleanInput, CleanedInput, OrphanLands, CleanFails, TransferCrashes, IntentExpires, Is,
         rows
    <2> QED  BY <1>1, <2>1, <2>2, <2>4, TransferMoves, Steps DEF Typed
  <1>2. ASSUME NEW d \in Deleters, DeleterStep(d) PROVE Typed'
    <2>1. tomb' \in Tombstone
      <3>1. [tomb EXCEPT !.token = d, !.fresh = TRUE] \in Tombstone \/ d \notin Workers
        BY DEF Typed, Tombstone
      <3> QED
        BY <1>2, <3>1, TombstonesTyped DEF Typed, DeleterStep, RequestDelete, Claim, EnterLock,
           LockTimesOut, CleanupSteps, ResolveExpired, Erase, EraseFails, Purge, Complete, Retry,
           DeleterCrashes, rows
    <2>2. gone' \in BOOLEAN /\ catalog' \in BOOLEAN
      BY <1>2 DEF Typed, DeleterStep, RequestDelete, Claim, EnterLock, LockTimesOut, CleanupSteps,
         ResolveExpired, Erase, EraseFails, Purge, Complete, Retry, DeleterCrashes, rows
    <2>3. objects' \subseteq Object /\ intent' \in [Transfers -> {"none", "live", "expired"}]
      BY <1>2 DEF Typed, DeleterStep, RequestDelete, Claim, EnterLock, LockTimesOut, CleanupSteps,
         ResolveExpired, Erase, EraseFails, Purge, Complete, Retry, DeleterCrashes, rows
    <2>4. lock' \in Deleters \cup {None} /\ crashes' \in 0..MaxCrashes
      BY <1>2, DeletionAssumption DEF Typed, DeleterStep, RequestDelete, Claim, EnterLock,
         LockTimesOut, CleanupSteps, ResolveExpired, Erase, EraseFails, Purge, Complete, Retry,
         DeleterCrashes, rows
    <2>5. at' \in [Deleters -> Stages]
      BY <1>2 DEF Typed, DeleterStep, RequestDelete, Claim, EnterLock, LockTimesOut, CleanupSteps,
         ResolveExpired, Erase, EraseFails, Purge, Complete, Retry, DeleterCrashes, Step, Over,
         Stages
    <2> QED  BY <1>2, <2>1, <2>2, <2>3, <2>4, <2>5, Steps DEF Typed
  <1>3. CASE ClockStep
    <2>1. tomb' \in Tombstone
      BY <1>3 DEF Typed, Tombstone, ClockStep, BecomesDue, ClaimExpires
    <2> QED  BY <1>3, <2>1, Steps DEF Typed
  <1> QED  BY <1>1, <1>2, <1>3, Steps

(* Whoever is past its claim took the lock, and leaves it on every path. *)
LEMMA LockStep ==
  ASSUME TInv, Next
  PROVE  LockFits'
PROOF
  <1> USE DEF TInv
  <1>1. CASE UNCHANGED <<lock, at>>
    BY <1>1 DEF LockFits
  <1>2. ASSUME NEW d \in Deleters, DeleterStep(d) PROVE LockFits'
    <2> USE DEF Step, Over, LockFits, Typed
    <2>1. CASE d \in Handlers /\ RequestDelete(d)
      BY <2>1, DeletionAssumption DEF RequestDelete
    <2>2. CASE d \in Workers /\ (Claim(d) \/ EnterLock(d) \/ LockTimesOut(d))
      BY <2>2, DeletionAssumption DEF Claim, EnterLock, LockTimesOut
    <2>3. CASE ResolveExpired(d) \/ Erase(d) \/ EraseFails(d) \/ Purge(d)
      BY <2>3 DEF ResolveExpired, Erase, EraseFails, Purge
    <2>4. CASE Complete(d)
      BY <2>4 DEF Complete
    <2>5. CASE Retry(d)
      BY <2>5 DEF Retry
    <2>6. CASE DeleterCrashes(d)
      BY <2>6 DEF DeleterCrashes
    <2> QED  BY <1>2, <2>1, <2>2, <2>3, <2>4, <2>5, <2>6 DEF DeleterStep, CleanupSteps
  <1> QED  BY <1>1, <1>2, Steps

(* A step keeps every transfer within what it may put and clean. *)
LEMMA TransfersStep ==
  ASSUME TInv, Next
  PROVE  TransfersFit'
PROOF
  <1> USE DEF TInv
  <1>1. ASSUME UNCHANGED xfer, objects' \subseteq objects \cup {Manifest},
               \A t \in Transfers : intent[t] = "live" => intent'[t] = "live"
        PROVE  TransfersFit'
    <2>1. ASSUME NEW t \in Transfers PROVE <<t, 2>> # Manifest
      BY DEF Manifest
    <2> QED  BY <1>1, <2>1 DEF TransfersFit, TransferFits
  <1>2. ASSUME NEW d \in Deleters, DeleterStep(d) PROVE TransfersFit'
    <2>1. \A t \in Transfers : intent[t] = "live" => intent'[t] = "live"
      BY <1>2 DEF Typed, DeleterStep, RequestDelete, Claim, EnterLock, LockTimesOut, CleanupSteps,
         ResolveExpired, Erase, EraseFails, Purge, Complete, Retry, DeleterCrashes, rows
    <2>2. objects' \subseteq objects
      BY <1>2 DEF DeleterStep, RequestDelete, Claim, EnterLock, LockTimesOut, CleanupSteps,
         ResolveExpired, Erase, EraseFails, Purge, Complete, Retry, DeleterCrashes, rows
    <2> QED  BY <1>1, <1>2, <2>1, <2>2, Steps
  <1>3. ASSUME NEW t \in Transfers, TransferStep(t), NEW o \in Transfers PROVE TransferFits(o)'
    <2>0. /\ TransferFits(o) /\ TransferFits(t) /\ xfer[t] \in Transfer
          /\ Parts \cap Inputs = {} /\ Commits \cap Inputs = {}
      BY <1>3, DeletionAssumption DEF TransfersFit, Typed
    <2>1. \A n \in Nat : <<o, 2>> # Manifest /\ (<<o, 2>> = <<t, n>> => o = t /\ n = 2)
      BY DEF Manifest
    <2>2. CASE o # t
      <3>1. xfer'[o] = xfer[o] /\ intent'[o] = intent[o]
        BY <1>3, <2>2, TransferMoves
      <3>2. \E n \in {1, 2} : objects' \subseteq objects \cup {Manifest, <<t, n>>}
        <4>1. ASSUME NEW n \in {0, 1}, objects' \subseteq objects \cup {<<t, n + 1>>}
              PROVE  \E k \in {1, 2} : objects' \subseteq objects \cup {Manifest, <<t, k>>}
          BY <4>1
        <4>2. xfer[t].at \in {"sending", "orphan"} => xfer[t].puts \in {0, 1}
          BY <2>0 DEF TransferFits
        <4> QED
          BY <1>3, <4>1, <4>2 DEF TransferStep, Begin, TransferSteps, PutLands, PutFails,
             FindsDeleted, Publish, Postflight, InputReady, InputUsed, Settles, LateRetry,
             LateReopen, CleanInput, CleanedInput, OrphanLands, CleanFails, TransferCrashes,
             IntentExpires, Is, rows
      <3>3. <<o, 2>> \in objects' => <<o, 2>> \in objects
        BY <2>1, <2>2, <3>2
      <3> QED  BY <2>0, <3>1, <3>3 DEF TransferFits
    <2>3. CASE o = t
      <3> USE <1>3, <2>0, <2>1, <2>3 DEF Typed, TransferFits, Transfer, Is, Goes, rows
      <3>1. CASE Begin(t)
        BY <3>1 DEF Begin
      <3>2. CASE PutLands(t)
        BY <3>2 DEF PutLands
      <3>3. CASE PutFails(t)
        BY <3>3 DEF PutFails
      <3>4. CASE FindsDeleted(t)
        BY <3>4 DEF FindsDeleted, Afterwards
      <3>5. CASE Publish(t)
        BY <3>5 DEF Publish, AwaitsPublication
      <3>6. CASE Postflight(t)
        BY <3>6 DEF Postflight
      <3>7. CASE InputReady(t) \/ InputUsed(t)
        BY <3>7 DEF InputReady, InputUsed
      <3>8. CASE Settles(t)
        BY <3>8 DEF Settles
      <3>9. CASE LateRetry(t) \/ LateReopen(t)
        BY <3>9 DEF LateRetry, LateReopen
      <3>10. CASE CleanInput(t) \/ CleanedInput(t)
        BY <3>10 DEF CleanInput, CleanedInput
      <3>11. CASE OrphanLands(t)
        BY <3>11 DEF OrphanLands
      <3>12. CASE CleanFails(t)
        BY <3>12 DEF CleanFails
      <3>13. CASE TransferCrashes(t)
        BY <3>13 DEF TransferCrashes
      <3>14. CASE IntentExpires(t)
        BY <3>14 DEF IntentExpires
      <3> QED
        BY <3>1, <3>2, <3>3, <3>4, <3>5, <3>6, <3>7, <3>8, <3>9, <3>10, <3>11, <3>12, <3>13,
           <3>14 DEF TransferStep, TransferSteps
    <2> QED  BY <2>2, <2>3
  <1>4. CASE ClockStep
    BY <1>1, <1>4, Steps
  <1> QED  BY <1>2, <1>3, <1>4, Steps DEF TransfersFit

-----------------------------------------------------------------------------
(* What is left of a meeting.                                              *)

(* A step of a transfer, where no PUT both stores its object and fails: it *)
(* stores one of its own, and then waits for the lock or is dead.          *)
LEMMA NewObjects ==
  ASSUME FailAfterPut = {}, TInv, NEW t \in Transfers, TransferStep(t),
         lock # None \/ Deleted, NEW o \in objects', o \notin objects
  PROVE  /\ o \in {t} \X {1, 2}
         /\ xfer'[t].at = "landed" \/ (xfer'[t].at = "done" /\ intent'[t] = "live")
PROOF
  <1> USE DEF TInv
  <1>0. /\ TransferFits(t) /\ xfer[t] \in Transfer
        /\ xfer \in [Transfers -> Transfer] /\ intent' \in [Transfers -> {"none", "live", "expired"}]
    BY TransferMoves DEF TransfersFit, Typed
  <1>1. xfer[t].at \in {"sending", "orphan"} => xfer[t].puts + 1 \in {1, 2}
    <2>1. xfer[t].at \in {"sending", "orphan"} => xfer[t].puts = 0 \/ xfer[t].puts = 1
      BY <1>0 DEF TransferFits
    <2> QED  BY <2>1
  <1>2. CASE PutLands(t)
    BY <1>0, <1>1, <1>2 DEF PutLands, Is, Transfer
  <1>3. CASE OrphanLands(t)
    BY <1>0, <1>1, <1>3 DEF OrphanLands, Is, Goes, Transfer, TransferFits, rows
  <1> QED
    BY <1>2, <1>3 DEF TransferStep, Begin, TransferSteps, PutFails, FindsDeleted, Publish,
       Postflight, InputReady, InputUsed, Settles, LateRetry, LateReopen, CleanInput,
       CleanedInput, CleanFails, TransferCrashes, IntentExpires, rows

(* Nothing that lands after a listing gets past its transfer while the     *)
(* deletion that made the listing has the lock.                            *)
LEMMA ListingStep ==
  ASSUME FailAfterPut = {}, TInv, ListingFits, Next
  PROVE  ListingFits'
PROOF
  <1> USE DeletionAssumption DEF TInv
  <1> DEFINE Waits(t) ==
        xfer[t].at = "landed" \/ (xfer[t].at = "done" /\ intent[t] # "none")
  <1>1. ASSUME UNCHANGED <<xfer, intent>>, objects' \subseteq objects,
               \A d \in Deleters : at'[d] \in {"purge", "complete"} =>
                 at[d] \in {"purge", "complete"} \/ objects' = {}
        PROVE  ListingFits'
    BY <1>1 DEF ListingFits
  <1>2. ASSUME NEW t \in Transfers, TransferStep(t) PROVE ListingFits'
    <2> SUFFICES ASSUME NEW d \in Deleters, at'[d] \in {"purge", "complete"},
                        NEW o \in objects'
                 PROVE  \E u \in Transfers : o \in {u} \X {1, 2} /\ Waits(u)'
      BY DEF ListingFits
    <2>1. at[d] \in {"purge", "complete"} /\ lock = d /\ lock # None
      BY <1>2, Steps DEF LockFits
    <2>2. CASE o \in objects
      <3>1. PICK u \in Transfers : o \in {u} \X {1, 2} /\ Waits(u)
        BY <2>1, <2>2 DEF ListingFits
      <3>2. CASE u # t
        BY <1>2, <3>1, <3>2, TransferMoves
      <3>3. CASE u = t
        <4>1. Waits(t)'
          BY <1>2, <2>1, <3>1, <3>3 DEF Typed, Transfer, TransferStep, Begin, TransferSteps, PutLands,
             PutFails, FindsDeleted, Publish, Postflight, InputReady, InputUsed, Settles,
             LateRetry, LateReopen, CleanInput, CleanedInput, OrphanLands, CleanFails,
             TransferCrashes, IntentExpires, Is, Goes, rows
        <4> QED  BY <3>1, <3>3, <4>1
      <3> QED  BY <3>2, <3>3
    <2>3. CASE o \notin objects
      BY <1>2, <2>1, <2>3, NewObjects
    <2> QED  BY <2>2, <2>3
  <1>3. ASSUME NEW d \in Deleters, DeleterStep(d) PROVE ListingFits'
    <2>1. CASE ResolveExpired(d)
      <3>1. \A e \in Deleters : at'[e] \notin {"purge", "complete"}
        BY <2>1 DEF ResolveExpired, Step, LockFits, Typed
      <3> QED  BY <3>1 DEF ListingFits
    <2>2. CASE Erase(d) \/ EraseFails(d)
      BY <1>1, <2>2 DEF Erase, EraseFails, Step, rows, Typed
    <2>3. CASE Purge(d)
      BY <1>1, <2>3 DEF Purge, Step, Typed
    <2>4. CASE Complete(d) \/ Retry(d) \/ DeleterCrashes(d)
      BY <1>1, <2>4 DEF Complete, Retry, DeleterCrashes, Step, Over, Typed, rows
    <2>5. CASE d \in Handlers /\ RequestDelete(d)
      BY <1>1, <2>5 DEF RequestDelete, Step, Typed
    <2>6. CASE d \in Workers /\ (Claim(d) \/ EnterLock(d) \/ LockTimesOut(d))
      BY <1>1, <2>6 DEF Claim, EnterLock, LockTimesOut, Step, Typed, rows
    <2> QED  BY <1>3, <2>1, <2>2, <2>3, <2>4, <2>5, <2>6 DEF DeleterStep, CleanupSteps
  <1>4. CASE ClockStep
    BY <1>1, <1>4, Steps
  <1> QED  BY <1>2, <1>3, <1>4, Steps

(* A deletion ends without intents, so that a late transfer is one that    *)
(* lives and finds the meeting deleted.                                    *)
LEMMA OverStep ==
  ASSUME FailAfterPut = {}, TInv, ListingFits, OverFits, Next
  PROVE  OverFits'
PROOF
  <1> USE DeletionAssumption DEF TInv
  <1> DEFINE Kept(t) == xfer[t].at \in {"landed", "late", "reopen", "using", "cleaning"}
  <1>1. ASSUME UNCHANGED <<gone, xfer>>, objects' \subseteq objects,
               gone => tomb'.pending \/ ~tomb.pending,
               \A t \in Transfers : intent[t] = "none" => intent'[t] = "none"
        PROVE  OverFits'
    BY <1>1 DEF OverFits, Completed
  <1>2. ASSUME NEW t \in Transfers, TransferStep(t) PROVE OverFits'
    <2>1. CASE ~gone
      BY <1>2, <2>1, Steps DEF OverFits, Completed
    <2>2. CASE gone
      <3>1. UNCHANGED gone /\ Deleted
        BY <1>2, <2>2, Steps DEF Deleted
      <3>2. \A u \in Transfers : intent[u] = "none"
        BY <2>2 DEF OverFits
      <3>3. intent' = intent
        <4>1. intent'[t] = "none"
          BY <1>2, <3>1, <3>2 DEF Typed, TransferStep, Begin, TransferSteps, PutLands, PutFails,
             FindsDeleted, Publish, Postflight, InputReady, InputUsed, Settles, LateRetry,
             LateReopen, CleanInput, CleanedInput, OrphanLands, CleanFails, TransferCrashes,
             IntentExpires, rows
        <4> QED  BY <1>2, <3>2, <4>1, TransferMoves DEF Typed
      <3>4. ASSUME Completed', NEW o \in objects'
            PROVE  \E u \in Transfers : o \in {u} \X {1, 2} /\ Kept(u)'
        <4>1. Completed
          BY <1>2, <2>2, <3>4, TombstonesTyped DEF Completed, TransferStep, Begin, TransferSteps,
             PutLands, PutFails, FindsDeleted, Publish, Postflight, InputReady, InputUsed, Settles,
             LateRetry, LateReopen, ReopenedTombstone, CleanInput, CleanedInput, OrphanLands,
             CleanFails, TransferCrashes, IntentExpires, rows
        <4>2. CASE o \notin objects
          BY <1>2, <3>1, <3>2, <3>3, <3>4, <4>2, NewObjects
        <4>3. CASE o \in objects
          <5>1. PICK u \in Transfers : o \in {u} \X {1, 2} /\ Kept(u)
            BY <4>1, <4>3 DEF OverFits
          <5>2. CASE u # t
            BY <1>2, <5>1, <5>2, TransferMoves
          <5>3. CASE u = t
            <6>1. CleanInput(t) => FALSE
              <7>1. ASSUME CleanInput(t) PROVE t \in Inputs /\ <<t, 2>> \notin objects
                BY <7>1 DEF CleanInput, Is, TransfersFit, TransferFits
              <7> QED  BY <3>4, <4>3, <5>1, <5>3, <7>1 DEF CleanInput
            <6>2. Kept(t)'
              <7> USE DEF Typed, Transfer, Is, Goes, rows
              <7>1. CASE FindsDeleted(t) \/ InputUsed(t)
                BY <7>1 DEF FindsDeleted, InputUsed
              <7>2. CASE LateRetry(t)
                BY <4>1, <7>2 DEF LateRetry, Completed
              <7>3. CASE LateReopen(t)
                BY <2>2, <3>4, <7>3, TombstonesTyped DEF LateReopen, ReopenedTombstone, Completed
              <7>4. CASE CleanFails(t)
                BY <3>1, <7>4 DEF CleanFails
              <7>5. ~(TransferCrashes(t) \/ IntentExpires(t) \/ CleanedInput(t))
                BY <1>2, <3>2 DEF TransferCrashes, IntentExpires, CleanedInput
              <7>6. ~(Begin(t) \/ Publish(t) \/ Postflight(t) \/ InputReady(t))
                BY <3>1 DEF Begin, Publish, Postflight, InputReady
              <7>7. ~(PutLands(t) \/ PutFails(t) \/ Settles(t) \/ OrphanLands(t))
                BY <5>1, <5>3 DEF PutLands, PutFails, Settles, OrphanLands
              <7> QED
                BY <1>2, <6>1, <7>1, <7>2, <7>3, <7>4, <7>5, <7>6, <7>7 DEF TransferStep,
                   TransferSteps
            <6> QED  BY <5>1, <5>3, <6>2
          <5> QED  BY <5>2, <5>3
        <4> QED  BY <4>2, <4>3
      <3> QED  BY <3>1, <3>2, <3>3, <3>4 DEF OverFits
    <2> QED  BY <2>1, <2>2
  <1>3. ASSUME NEW d \in Deleters, DeleterStep(d) PROVE OverFits'
    <2>1. CASE Complete(d) /\ Owns(d) /\ ~(catalog \/ ~NoneIsLeft)
      <3>1. /\ at[d] = "complete" /\ UNCHANGED <<objects, intent, xfer>>
            /\ \A t \in Transfers : intent[t] = "none"
        BY <2>1 DEF Complete, Step, NoneIsLeft
      <3> QED  BY <3>1 DEF ListingFits, OverFits
    <2>2. CASE Complete(d) /\ ~(Owns(d) /\ ~(catalog \/ ~NoneIsLeft))
      BY <1>1, <2>2, <1>3, Steps DEF Complete
    <2>3. CASE ResolveExpired(d)
      BY <1>1, <2>3, <1>3, Steps DEF ResolveExpired, Typed
    <2>4. CASE Erase(d) \/ EraseFails(d) \/ Purge(d) \/ DeleterCrashes(d)
      BY <1>1, <2>4 DEF Erase, EraseFails, Purge, DeleterCrashes, rows
    <2>5. CASE Retry(d)
      BY <1>1, <2>5, TombstonesTyped DEF Retry
    <2>6. CASE d \in Handlers /\ RequestDelete(d)
      BY <1>1, <2>6, TombstonesTyped DEF RequestDelete
    <2>7. CASE d \in Workers /\ (Claim(d) \/ EnterLock(d) \/ LockTimesOut(d))
      BY <1>1, <2>7 DEF Claim, EnterLock, LockTimesOut, rows, Typed, Tombstone
    <2> QED
      BY <1>3, <2>1, <2>2, <2>3, <2>4, <2>5, <2>6, <2>7 DEF DeleterStep, CleanupSteps
  <1>4. CASE ClockStep
    BY <1>1, <1>4, Steps DEF ClockStep, BecomesDue, ClaimExpires, Typed, Tombstone
  <1> QED  BY <1>2, <1>3, <1>4, Steps

-----------------------------------------------------------------------------

(* An active meeting with its manifest. *)
LEMMA InitFits == Init => IInv
PROOF
  <1> SUFFICES ASSUME Init PROVE IInv
    OBVIOUS
  <1>1. [at |-> "idle", puts |-> 0, then |-> "done"] \in Transfer
    BY DEF Transfer, Places
  <1>2. Typed
    <2>1. xfer \in [Transfers -> Transfer]
      BY <1>1 DEF Init
    <2>2. objects \subseteq Object /\ tomb \in Tombstone
      BY TombstonesTyped DEF Init, Object
    <2>3. crashes \in 0..MaxCrashes /\ at \in [Deleters -> Stages]
      BY DeletionAssumption DEF Init, Stages
    <2> QED  BY <2>1, <2>2, <2>3 DEF Init, Typed
  <1>3. \A t \in Transfers : <<t, 2>> # Manifest
    BY DEF Manifest
  <1>4. TransfersFit
    BY <1>3 DEF Init, TransfersFit, TransferFits
  <1>5. LockFits /\ ListingFits /\ OverFits
    BY DEF Init, LockFits, ListingFits, OverFits, Completed
  <1> QED  BY <1>2, <1>4, <1>5 DEF IInv, TInv

(* Types, transfers and the lock need no assumption about answers. *)
LEMMA TypesHold == Spec => []TInv
PROOF
  <1>1. TInv /\ Next => TInv'
    BY TypedStep, TransfersStep, LockStep DEF TInv
  <1>2. TInv /\ UNCHANGED vars => TInv'
    BY DEF TInv, Typed, TransfersFit, TransferFits, LockFits, vars
  <1>3. Init => TInv
    BY InitFits DEF IInv
  <1> QED  BY <1>1, <1>2, <1>3, PTL DEF Spec

(* The rows keep their types whatever fails: a transfer puts at most two   *)
(* objects and its intent and place go together with the deletions' claims *)
(* (meeting-transfer-intent.ts, claimMeetingDeletionCleanup).              *)
THEOREM TypeCorrect == Spec => []TypeOK
PROOF
  <1>1. TInv => TypeOK
    BY DEF TInv, Typed, TypeOK, Tombstone, Transfer, Places, Stages
  <1> QED  BY TypesHold, <1>1, PTL

(* When a deletion is over, whatever is stored under the meeting's prefix  *)
(* is still in the hands of its transfer, for any number of requests,      *)
(* workers and transfers (scheduleLateMeetingDeletionCleanup,              *)
(* moveCompletedMeetingDeletionToFence), provided that no PUT that stored  *)
(* its object reports a failure; with one that does, TLC finds the object  *)
(* left behind.                                                            *)
THEOREM ErasedIfAnswersHold ==
  ASSUME FailAfterPut = {}
  PROVE  Spec => []ErasedUnlessOwed
PROOF
  <1>1. IInv /\ Next => IInv'
    BY TypedStep, TransfersStep, LockStep, ListingStep, OverStep DEF IInv, TInv
  <1>2. IInv /\ UNCHANGED vars => IInv'
    BY DEF IInv, TInv, Typed, TransfersFit, TransferFits, LockFits, ListingFits, OverFits,
       Completed, vars
  <1>3. IInv => ErasedUnlessOwed
    BY DEF IInv, OverFits, ErasedUnlessOwed
  <1> QED  BY InitFits, <1>1, <1>2, <1>3, PTL DEF Spec

=============================================================================
