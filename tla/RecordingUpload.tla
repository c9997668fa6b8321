-------------------------- MODULE RecordingUpload --------------------------
(***************************************************************************)
(* Resumable uploads of the full recordings of one account: the client of  *)
(* apps/mobile/src/api.ts, which asks for the status, PUTs the parts that  *)
(* are missing and POSTs the commit, and the server's handlers, which       *)
(* reserve the account's upload budget with a lease in the meeting's       *)
(* manifest, stage parts outside the locks, assemble them and publish.     *)
(*                                                                         *)
(* A section under the account's write lock is one step, except the        *)
(* admission of a new upload, which erases the staging of stale ones while *)
(* it holds that lock.  Object-store requests are steps of their own.      *)
(* Clocks are abstracted to leases and staging manifests that go stale.    *)
(* The account and its meetings are not deleted: MeetingDeletion covers    *)
(* that, and the transfer intents.                                         *)
(***************************************************************************)
EXTENDS Naturals, FiniteSets, Functions

CONSTANTS
  Meetings,
  Uploads,    \* upload ids, each of one meeting
  MeetingOf,
  Content,    \* the audio each upload carries
  Size,       \* its declared bytes
  PartsOf,    \* its part indices
  Handlers,   \* requests the server works on at a time
  MaxActive,  \* maxActiveUploadsPerUser
  MaxBytes,   \* maxStagedBytesPerUser
  MaxFaults,  \* bound: crashes, refused object requests, requests given up
              \* while they run, and 72 hours of absence
  None

ASSUME UploadAssumption ==
  /\ MeetingOf \in [Uploads -> Meetings]
  /\ Size \in [Uploads -> Nat \ {0}]
  /\ PartsOf \in [Uploads -> (SUBSET Nat) \ {{}}]
  /\ IsFiniteSet(Uploads)
  /\ MaxActive \in Nat \ {0} /\ MaxBytes \in Nat /\ MaxFaults \in Nat
  /\ \A u \in Uploads : Size[u] =< MaxBytes
  /\ None \notin Uploads \cup Handlers \cup {Content[u] : u \in Uploads}

VARIABLES
  lease,    \* manifest.recordingUpload of each meeting
  staging,  \* uploads/<uploadId>/manifest.json
  stored,   \* uploads/<uploadId>/parts
  receipt,  \* the uploads with an object in upload-receipts
  audio,    \* the canonical audio object of each meeting: whose content
  chunk,    \* the meeting manifest's sealed chunk: the content of its digest
  lock,     \* the handler inside withUserWriteLock between two steps
  req,      \* what each handler does
  client,   \* what each upload's client knows
  faults

Parts == UNION {PartsOf[u] : u \in Uploads}

server == <<lease, staging, stored, receipt, audio, chunk>>
vars == <<server, lock, req, client, faults>>

NoStaging == [kept |-> FALSE, parts |-> {}, stale |-> FALSE, newer |-> FALSE]
NoLease == [upload |-> None, stale |-> FALSE]
Idle == [at |-> "idle", upload |-> None, part |-> None, seen |-> {},
         swept |-> None, heard |-> FALSE]

AtPart == {"admit", "sweeping", "transfer", "storing", "listing", "renewing",
           "confirming"}
AtCommit == {"preflight", "assembling", "sealing", "putting", "publishing",
             "receipting", "checking", "cleaning"}
AtStatus == {"status", "discarding"}

TypeOK ==
  /\ lease \in [Meetings -> [upload : Uploads \cup {None}, stale : BOOLEAN]]
  /\ staging \in [Uploads ->
       [kept : BOOLEAN, parts : SUBSET Parts, stale : BOOLEAN, newer : BOOLEAN]]
  /\ stored \in [Uploads -> SUBSET Parts]
  /\ receipt \subseteq Uploads
  /\ audio \in [Meetings -> {Content[u] : u \in Uploads} \cup {None}]
  /\ chunk \in [Meetings -> {Content[u] : u \in Uploads} \cup {None}]
  /\ lock \in {None} \cup {h \in Handlers : req[h].at = "sweeping"}
  /\ req \in [Handlers ->
       [at : {"idle"} \cup AtPart \cup AtCommit \cup AtStatus,
        upload : Uploads \cup {None}, part : Parts \cup {None},
        seen : SUBSET Parts, swept : Uploads \cup {None}, heard : BOOLEAN]]
  /\ client \in [Uploads ->
       [on : BOOLEAN, view : SUBSET Parts, acked : BOOLEAN]]
  /\ faults \in 0..MaxFaults

Init ==
  /\ lease = [m \in Meetings |-> NoLease]
  /\ staging = [u \in Uploads |-> NoStaging]
  /\ stored = [u \in Uploads |-> {}]
  /\ receipt = {}
  /\ audio = [m \in Meetings |-> None]
  /\ chunk = [m \in Meetings |-> None]
  /\ lock = None
  /\ req = [h \in Handlers |-> Idle]
  /\ client = [u \in Uploads |-> [on |-> FALSE, view |-> {}, acked |-> FALSE]]
  /\ faults = 0

-----------------------------------------------------------------------------
(* The client.                                                             *)

Faulty == faults < MaxFaults /\ faults' = faults + 1

Awaits(u) == \E h \in Handlers : req[h].upload = u /\ req[h].heard

Sends(h, u, r) ==
  /\ req[h].at = "idle" /\ ~Awaits(u) /\ ~client[u].acked
  /\ req' = [req EXCEPT ![h] = [r EXCEPT !.upload = u, !.heard = TRUE]]
  /\ UNCHANGED <<server, lock, client, faults>>

(* A sync attempt begins with the status of the upload. *)
SendStatus(h, u) == ~client[u].on /\ Sends(h, u, [Idle EXCEPT !.at = "status"])

SendPart(h, u) ==
  /\ client[u].on
  /\ \E p \in PartsOf[u] \ client[u].view :
       /\ \A q \in PartsOf[u] \ client[u].view : p =< q
       /\ Sends(h, u, [Idle EXCEPT !.at = "admit", !.part = p])

SendCommit(h, u) ==
  /\ client[u].on /\ PartsOf[u] \subseteq client[u].view
  /\ Sends(h, u, [Idle EXCEPT !.at = "preflight"])

(* A request times out, or the app is killed: the server may still work on *)
(* it while the next attempt starts over.                                  *)
GiveUp(h) ==
  /\ req[h].heard /\ Faulty
  /\ req' = [req EXCEPT ![h].heard = FALSE]
  /\ client' = [client EXCEPT ![req[h].upload].on = FALSE]
  /\ UNCHANGED <<server, lock>>

(* Responses.  An error ends the attempt; the recording stays pending.     *)
Answers(h, on, view, acked) ==
  LET u == req[h].upload IN
  /\ req' = [req EXCEPT ![h] = Idle]
  /\ client' = IF ~req[h].heard THEN client
               ELSE [client EXCEPT ![u] =
                       [on |-> on, view |-> view,
                        acked |-> @.acked \/ acked]]

Refuses(h) == Answers(h, FALSE, {}, FALSE)
Acks(h) == Answers(h, FALSE, {}, TRUE)

Goes(h, at) == req' = [req EXCEPT ![h].at = at] /\ UNCHANGED client

-----------------------------------------------------------------------------
(* Locks, staging and budget.                                              *)

(* A whole section of the account, and the meeting fence inside it. *)
Locked == lock = None /\ UNCHANGED lock

UploadLockFree(u) ==
  \A h \in Handlers : req[h].upload = u => req[h].at \notin {"storing", "listing"}

(* deleteRecordingUploadStaging: all of the prefix, or some of it when the *)
(* object store refuses.  Its callers only log the failure.                *)
DeletesStaging(u) ==
  \/ /\ staging' = [staging EXCEPT ![u] = NoStaging]
     /\ stored' = [stored EXCEPT ![u] = {}]
     /\ UNCHANGED faults
  \/ /\ Faulty
     /\ \E left \in SUBSET stored[u] : stored' = [stored EXCEPT ![u] = left]
     /\ staging' \in {staging, [staging EXCEPT ![u] = NoStaging]}

(* The uploads the account's live leases reserve budget for. *)
Reserved ==
  {u \in Uploads : lease[MeetingOf[u]] = [upload |-> u, stale |-> FALSE]}

Stale ==
  {u \in Uploads : lease[MeetingOf[u]] = [upload |-> u, stale |-> TRUE]}

WithinPolicy(S) ==
  Cardinality(S) =< MaxActive /\ SumFunctionOnSet(Size, S) =< MaxBytes

Free(S) ==
  lease' = [m \in Meetings |-> IF lease[m].upload \in S THEN NoLease ELSE lease[m]]

(* The lease was updated after the staging manifest, or with its time. *)
Renews(u) ==
  /\ lease' = [lease EXCEPT ![MeetingOf[u]] = [upload |-> u, stale |-> FALSE]]
  /\ staging' = [staging EXCEPT ![u].newer = FALSE]

-----------------------------------------------------------------------------
(* saveMeetingRecordingUploadPart.                                         *)

(* A plausible error: the admission counts only what is reserved already.  *)
DecidesWithoutOwn(h, measured) ==
  LET u == req[h].upload
      holder == lease[MeetingOf[u]].upload
      fits == measured => WithinPolicy(Reserved) IN
  \/ /\ holder \notin {None, u} \/ ~fits
     /\ Refuses(h)
     /\ UNCHANGED <<lease, staging>>
  \/ /\ holder \in {None, u} /\ fits
     /\ IF holder = None THEN Renews(u) ELSE UNCHANGED <<lease, staging>>
     /\ Goes(h, "transfer")

(* The second half of the admission, in the meeting's fence: another       *)
(* upload of the meeting, a budget exceeded, or the transfer may start.    *)
Decides(h, measured) ==
  LET u == req[h].upload
      holder == lease[MeetingOf[u]].upload
      fits == measured => WithinPolicy(Reserved \cup {u}) IN
  \/ /\ holder \notin {None, u} \/ ~fits
     /\ Refuses(h)
     /\ UNCHANGED <<lease, staging>>
  \/ /\ holder \in {None, u} /\ fits
     /\ IF holder = None THEN Renews(u) ELSE UNCHANGED <<lease, staging>>
     /\ Goes(h, "transfer")

(* Only an upload without a lease, or with a stale one, is measured.       *)
NeedsBudget(u) ==
  \/ lease[MeetingOf[u]].upload = None
  \/ lease[MeetingOf[u]] = [upload |-> u, stale |-> TRUE]

Admit(h) ==
  LET u == req[h].upload IN
  /\ req[h].at = "admit" /\ lock = None
  /\ \/ /\ ~NeedsBudget(u) \/ Stale = {}
        /\ Decides(h, NeedsBudget(u))
        /\ UNCHANGED lock
     \/ /\ NeedsBudget(u) /\ Stale # {}
        /\ Goes(h, "sweeping")
        /\ lock' = h
        /\ UNCHANGED <<lease, staging>>
  /\ UNCHANGED <<stored, receipt, audio, chunk, faults>>

(* sweepAndMeasureRecordingUploads frees each stale lease and erases what  *)
(* it had staged, under the account's lock.                                *)
SweepLease(h) ==
  /\ req[h].at = "sweeping" /\ req[h].swept = None
  /\ \E u \in Stale :
       /\ Free({u})
       /\ req' = [req EXCEPT ![h].swept = u]
  /\ UNCHANGED <<staging, stored, receipt, audio, chunk, lock, client, faults>>

SweepStaging(h) ==
  /\ req[h].at = "sweeping" /\ req[h].swept # None
  /\ DeletesStaging(req[h].swept)
  /\ req' = [req EXCEPT ![h].swept = None]
  /\ UNCHANGED <<lease, receipt, audio, chunk, lock, client>>

(* A plausible error: the section is not left after a sweep. *)
AdmitSweptLocked(h) ==
  /\ req[h].at = "sweeping" /\ req[h].swept = None /\ Stale = {}
  /\ Decides(h, TRUE)
  /\ UNCHANGED <<stored, receipt, audio, chunk, lock, faults>>

AdmitSwept(h) ==
  /\ req[h].at = "sweeping" /\ req[h].swept = None /\ Stale = {}
  /\ Decides(h, TRUE)
  /\ lock' = None
  /\ UNCHANGED <<stored, receipt, audio, chunk, faults>>

(* putRecordingUploadPart, under the upload's lock. *)
ReadStaging(h) ==
  LET u == req[h].upload  p == req[h].part IN
  /\ req[h].at = "transfer" /\ UploadLockFree(u)
  /\ req' = [req EXCEPT ![h].seen = IF u \in receipt THEN {} ELSE staging[u].parts,
                        ![h].at = IF u \in receipt THEN "confirming"
                                  ELSE IF p \in staging[u].parts THEN "renewing"
                                  ELSE "storing"]
  /\ UNCHANGED <<server, lock, client, faults>>

StorePart(h) ==
  /\ req[h].at = "storing"
  /\ stored' = [stored EXCEPT ![req[h].upload] = @ \cup {req[h].part}]
  /\ Goes(h, "listing")
  /\ UNCHANGED <<lease, staging, receipt, audio, chunk, lock, faults>>

ListPart(h) ==
  LET u == req[h].upload IN
  /\ req[h].at = "listing"
  /\ staging' = [staging EXCEPT ![u] =
       [kept |-> TRUE, parts |-> req[h].seen \cup {req[h].part},
        stale |-> FALSE, newer |-> TRUE]]
  /\ Goes(h, "renewing")
  /\ UNCHANGED <<lease, stored, receipt, audio, chunk, lock, faults>>

(* The second short phase; the budget is not measured again. *)
RenewLease(h) ==
  LET u == req[h].upload IN
  /\ req[h].at \in {"renewing", "confirming"} /\ Locked
  /\ \/ /\ lease[MeetingOf[u]].upload \notin {None, u}
        /\ Refuses(h)
        /\ UNCHANGED <<lease, staging>>
     \/ /\ lease[MeetingOf[u]].upload \in {None, u}
        /\ IF req[h].at = "renewing" THEN Renews(u) ELSE UNCHANGED <<lease, staging>>
        /\ Answers(h, TRUE, client[u].view \cup req[h].seen \cup {req[h].part}, FALSE)
  /\ UNCHANGED <<stored, receipt, audio, chunk, faults>>

-----------------------------------------------------------------------------
(* commitMeetingRecordingUpload.                                           *)

Preflight(h) ==
  LET u == req[h].upload IN
  /\ req[h].at = "preflight" /\ Locked
  /\ \/ u \in receipt /\ Free({u}) /\ Acks(h)
     \/ u \notin receipt /\ Goes(h, "assembling") /\ UNCHANGED lease
  /\ UNCHANGED <<staging, stored, receipt, audio, chunk, faults>>

(* assembleRecordingUpload: not found, incomplete, a part missing, or whole. *)
Assemble(h) ==
  LET u == req[h].upload
      whole == staging[u].kept /\ staging[u].parts = PartsOf[u]
               /\ PartsOf[u] \subseteq stored[u] IN
  /\ req[h].at = "assembling" /\ UploadLockFree(u)
  /\ \/ u \in receipt /\ Goes(h, "sealing")
     \/ u \notin receipt /\ whole /\ Goes(h, "putting")
     \/ u \notin receipt /\ ~whole /\ Refuses(h)
  /\ UNCHANGED <<server, lock, faults>>

SealCommitted(h) ==
  /\ req[h].at = "sealing" /\ Locked
  /\ Free({req[h].upload})
  /\ Acks(h)
  /\ UNCHANGED <<staging, stored, receipt, audio, chunk, faults>>

(* A plausible error: the receipt is written before the publication. *)
PutAudioThenReceipt(h) ==
  LET u == req[h].upload IN
  /\ req[h].at = "putting"
  /\ audio' = [audio EXCEPT ![MeetingOf[u]] = Content[u]]
  /\ Goes(h, "receipting")
  /\ UNCHANGED <<lease, staging, stored, receipt, chunk, lock, faults>>

(* The canonical object is written before anything is compared. *)
PutAudio(h) ==
  LET u == req[h].upload IN
  /\ req[h].at = "putting"
  /\ audio' = [audio EXCEPT ![MeetingOf[u]] = Content[u]]
  /\ Goes(h, "publishing")
  /\ UNCHANGED <<lease, staging, stored, receipt, chunk, lock, faults>>

Publish(h) ==
  LET u == req[h].upload  m == MeetingOf[u] IN
  /\ req[h].at = "publishing" /\ Locked
  /\ \/ /\ \/ ~staging[u].kept /\ u \notin receipt
           \/ chunk[m] \notin {None, Content[u]}
        /\ Refuses(h)
        /\ UNCHANGED <<lease, chunk>>
     \/ /\ staging[u].kept \/ u \in receipt
        /\ chunk[m] \in {None, Content[u]}
        /\ chunk' = [chunk EXCEPT ![m] = Content[u]]
        /\ Free({u})
        /\ Goes(h, "receipting")
  /\ UNCHANGED <<staging, stored, receipt, audio, faults>>

PutReceipt(h) ==
  /\ req[h].at = "receipting"
  /\ receipt' = receipt \cup {req[h].upload}
  /\ Goes(h, "checking")
  /\ UNCHANGED <<lease, staging, stored, audio, chunk, lock, faults>>

(* The audio revision is compared with the published one. *)
CheckPublished(h) ==
  LET u == req[h].upload IN
  /\ req[h].at = "checking" /\ Locked
  /\ IF chunk[MeetingOf[u]] = Content[u] THEN Goes(h, "cleaning") ELSE Refuses(h)
  /\ UNCHANGED <<server, faults>>

CleanCommitted(h) ==
  /\ req[h].at = "cleaning"
  /\ DeletesStaging(req[h].upload)
  /\ Acks(h)
  /\ UNCHANGED <<lease, receipt, audio, chunk, lock>>

-----------------------------------------------------------------------------
(* readMeetingRecordingUploadStatus.                                       *)

ReadStatus(h) ==
  LET u == req[h].upload  own == lease[MeetingOf[u]]
      stale == IF own.upload = u THEN own.stale ELSE staging[u].stale IN
  /\ req[h].at = "status" /\ Locked
  /\ \/ /\ u \in receipt
        /\ Free({u}) /\ Acks(h) /\ UNCHANGED staging
     \/ /\ u \notin receipt /\ ~staging[u].kept
        /\ Free({u}) /\ Answers(h, TRUE, {}, FALSE) /\ UNCHANGED staging
     \/ /\ u \notin receipt /\ staging[u].kept
        /\ \/ /\ own.upload \notin {None, u}
              /\ Refuses(h) /\ UNCHANGED <<lease, staging>>
           \/ /\ own.upload \in {None, u} /\ stale
              /\ Free({u}) /\ Goes(h, "discarding") /\ UNCHANGED staging
           \/ /\ own.upload \in {None, u} /\ ~stale
              /\ IF own.upload = None THEN Renews(u) ELSE UNCHANGED <<lease, staging>>
              /\ Answers(h, TRUE, staging[u].parts, FALSE)
  /\ UNCHANGED <<stored, receipt, audio, chunk, faults>>

(* A plausible error: a later sweep is trusted to erase what was staged. *)
DiscardLater(h) ==
  /\ req[h].at = "discarding"
  /\ Answers(h, TRUE, {}, FALSE)
  /\ UNCHANGED <<server, lock, faults>>

(* After the locks were released. *)
Discard(h) ==
  /\ req[h].at = "discarding"
  /\ DeletesStaging(req[h].upload)
  /\ Answers(h, TRUE, {}, FALSE)
  /\ UNCHANGED <<lease, receipt, audio, chunk, lock>>

-----------------------------------------------------------------------------
(* Faults and time.                                                        *)

PutFails(h) ==
  /\ req[h].at \in {"storing", "listing", "putting", "receipting"}
  /\ Faulty /\ Refuses(h)
  /\ UNCHANGED <<server, lock>>

Crash(h) ==
  /\ req[h].at # "idle"
  /\ Faulty /\ Refuses(h)
  /\ lock' = IF lock = h THEN None ELSE lock
  /\ UNCHANGED server

(* Nothing a client sends renews this upload: it is committed, or its      *)
(* staging manifest lists every part and some of them are gone.            *)
Stuck(u) ==
  u \in receipt \/ (staging[u].parts = PartsOf[u] /\ ~(PartsOf[u] \subseteq stored[u]))

(* Seventy-two hours without a renewal.  That a client which could go on   *)
(* was away for as long counts as a fault, and so happens a few times.     *)
Elapses(u) == IF Stuck(u) THEN UNCHANGED faults ELSE Faulty

LeaseGoesStale(m) ==
  LET u == lease[m].upload IN
  /\ u # None /\ ~lease[m].stale
  /\ Elapses(u)
  /\ lease' = [lease EXCEPT ![m].stale = TRUE]
  /\ staging' = [staging EXCEPT ![u].stale = @ \/ (staging[u].kept /\ ~staging[u].newer)]
  /\ UNCHANGED <<stored, receipt, audio, chunk, lock, req, client>>

StagingGoesStale(u) ==
  /\ staging[u].kept /\ ~staging[u].stale
  /\ lease[MeetingOf[u]] # [upload |-> u, stale |-> FALSE]
  /\ Elapses(u)
  /\ staging' = [staging EXCEPT ![u].stale = TRUE]
  /\ UNCHANGED <<lease, stored, receipt, audio, chunk, lock, req, client>>

-----------------------------------------------------------------------------
Send(u) ==
  \E h \in Handlers : SendStatus(h, u) \/ SendPart(h, u) \/ SendCommit(h, u)

Serve(h) ==
  \/ Admit(h) \/ SweepLease(h) \/ SweepStaging(h) \/ AdmitSwept(h) \/ ReadStaging(h)
  \/ StorePart(h) \/ ListPart(h) \/ RenewLease(h)
  \/ Preflight(h) \/ Assemble(h) \/ SealCommitted(h) \/ PutAudio(h)
  \/ Publish(h) \/ PutReceipt(h) \/ CheckPublished(h) \/ CleanCommitted(h)
  \/ ReadStatus(h) \/ Discard(h)

Next ==
  \/ \E u \in Uploads : Send(u) \/ StagingGoesStale(u)
  \/ \E h \in Handlers : Serve(h) \/ GiveUp(h) \/ PutFails(h) \/ Crash(h)
  \/ \E m \in Meetings : LeaseGoesStale(m)

Spec == Init /\ [][Next]_vars

(* The app retries every pending recording, requests end, the lock goes    *)
(* round, and hours pass.                                                  *)
FairSpec ==
  /\ Spec
  /\ \A u \in Uploads : SF_vars(Send(u)) /\ WF_vars(StagingGoesStale(u))
  /\ \A h \in Handlers : SF_vars(Serve(h))
  /\ \A m \in Meetings : WF_vars(LeaseGoesStale(m))

-----------------------------------------------------------------------------
(* Properties.                                                             *)

(* A client that was acknowledged deletes nothing yet but never uploads    *)
(* again: its receipt, the sealed chunk and the audio object must exist.   *)
AckedIsDurable ==
  \A u \in Uploads : client[u].acked =>
    /\ u \in receipt
    /\ chunk[MeetingOf[u]] = Content[u]
    /\ audio[MeetingOf[u]] = Content[u]

(* Measuring and reserving are one section of the account: concurrent      *)
(* first parts never reserve more than the policy together.                *)
AdmissionsFit ==
  [][\A u \in Uploads :
       (\E h \in Handlers : req[h].upload = u /\ req[h].at \in {"admit", "sweeping"}
                            /\ req'[h].at = "transfer")
         /\ u \notin Reserved /\ u \in Reserved'
       => WithinPolicy(Reserved')]_vars

(* Every recording is synchronised in the end, whatever was left behind by *)
(* crashes, failed deletions and late requests of either upload.           *)
EventuallySynced == <>[](\A u \in Uploads : client[u].acked)
=============================================================================
