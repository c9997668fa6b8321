----------------------- MODULE RecordingUploadProofs ------------------------
(***************************************************************************)
(* What holds of resumable uploads for any meetings, uploads, parts and    *)
(* handlers: the rows are well typed, an admission never takes the account *)
(* over its budget, and, where the uploads of one meeting carry the same   *)
(* recording, an acknowledged one is durable.                              *)
(***************************************************************************)
EXTENDS RecordingUpload, TLAPS

Stages == {"idle"} \cup AtPart \cup AtCommit \cup AtStatus
Recordings == {Content[u] : u \in Uploads}
LeaseRow == [upload : Uploads \cup {None}, stale : BOOLEAN]
StagingRow == [kept : BOOLEAN, parts : SUBSET Parts, stale : BOOLEAN, newer : BOOLEAN]
Request == [at : Stages, upload : Uploads \cup {None}, part : Parts \cup {None},
            seen : SUBSET Parts, swept : Uploads \cup {None}, heard : BOOLEAN]
Client == [on : BOOLEAN, view : SUBSET Parts, acked : BOOLEAN]

LeaseTyped == lease \in [Meetings -> LeaseRow]
StagingTyped == staging \in [Uploads -> StagingRow] /\ stored \in [Uploads -> SUBSET Parts]
AudioTyped ==
  /\ receipt \subseteq Uploads
  /\ audio \in [Meetings -> Recordings \cup {None}]
  /\ chunk \in [Meetings -> Recordings \cup {None}]
ReqTyped == req \in [Handlers -> Request]
ClientTyped == client \in [Uploads -> Client]
RestTyped == faults \in 0..MaxFaults

Typed == LeaseTyped /\ StagingTyped /\ AudioTyped /\ ReqTyped /\ ClientTyped /\ RestTyped

(* A request is about an upload, a PUT about one of its parts; only the    *)
(* sweep of an admission keeps the account's lock over several steps.      *)
RequestFits(h) ==
  /\ req[h].at # "idle" => req[h].upload \in Uploads
  /\ req[h].at \in AtPart => req[h].part \in Parts
  /\ req[h].at = "idle" => ~req[h].heard
  /\ lock = h => req[h].at = "sweeping"

RequestsFit == lock \in Handlers \cup {None} /\ \A h \in Handlers : RequestFits(h)

TInv == Typed /\ RequestsFit

(* A receipt is written after the publication, and that after the audio.   *)
(* Every acknowledgement has seen the receipt.                             *)
CommitFits(h) ==
  LET u == req[h].upload IN
  /\ req[h].at \in {"publishing", "receipting", "checking", "cleaning"} =>
       audio[MeetingOf[u]] = Content[u]
  /\ req[h].at \in {"receipting", "checking", "cleaning"} => chunk[MeetingOf[u]] = Content[u]
  /\ req[h].at \in {"checking", "cleaning", "sealing"} => u \in receipt

CommitsFit == \A h \in Handlers : CommitFits(h)

ReceiptsFit ==
  \A u \in receipt : chunk[MeetingOf[u]] = Content[u] /\ audio[MeetingOf[u]] = Content[u]

AcksFit == \A u \in Uploads : client[u].acked => u \in receipt

IInv == TInv /\ CommitsFit /\ ReceiptsFit /\ AcksFit

-----------------------------------------------------------------------------
(* What an upload is about. *)
LEMMA UploadsFit ==
  /\ \A u \in Uploads : /\ MeetingOf[u] \in Meetings /\ PartsOf[u] \subseteq Parts
                        /\ Content[u] \in Recordings
  /\ None \notin Uploads \cup Handlers \cup Recordings
PROOF BY UploadAssumption DEF Parts, Recordings

(* The rows that say that there is nothing. *)
LEMMA IdleTyped ==
  /\ Idle \in Request /\ Idle.at = "idle" /\ ~Idle.heard
  /\ NoStaging \in StagingRow /\ NoLease \in LeaseRow /\ NoLease.upload = None
PROOF BY DEF Idle, Request, Stages, NoStaging, StagingRow, NoLease, LeaseRow

(* Who takes a step. *)
HandlerStep(h) == Serve(h) \/ GiveUp(h) \/ PutFails(h) \/ Crash(h)
ClockStep ==
  (\E u \in Uploads : StagingGoesStale(u)) \/ \E m \in Meetings : LeaseGoesStale(m)

(* The disjuncts of Next, by who takes the step. *)
LEMMA Steps ==
  /\ Next => \/ \E u \in Uploads : Send(u)
             \/ \E h \in Handlers : HandlerStep(h)
             \/ ClockStep
  /\ \A u \in Uploads : Send(u) => UNCHANGED <<server, lock, client, faults>>
  /\ ClockStep => UNCHANGED <<stored, receipt, audio, chunk, lock, req, client>>
PROOF
  <1>1. Next => \/ \E u \in Uploads : Send(u)
                \/ \E h \in Handlers : HandlerStep(h)
                \/ ClockStep
    BY DEF Next, HandlerStep, ClockStep
  <1>2. \A u \in Uploads : Send(u) => UNCHANGED <<server, lock, client, faults>>
    BY DEF Send, SendStatus, SendPart, SendCommit, Sends
  <1>3. ClockStep => UNCHANGED <<stored, receipt, audio, chunk, lock, req, client>>
    BY DEF ClockStep, StagingGoesStale, LeaseGoesStale
  <1> QED  BY <1>1, <1>2, <1>3

-----------------------------------------------------------------------------
(* Requests and clients.                                                   *)

(* A request goes on, or is answered: the others stay where they are. *)
LEMMA GoesOn ==
  ASSUME TInv, NEW h \in Handlers, NEW r \in Request, req' = [req EXCEPT ![h] = r],
         r.at # "idle", r.upload \in Uploads, r.at \in AtPart => r.part \in Parts,
         lock' = h => r.at = "sweeping", lock' \in {lock, None, h}, UNCHANGED client
  PROVE  ReqTyped' /\ ClientTyped' /\ RequestsFit'
PROOF
  <1> USE UploadsFit DEF TInv, Typed
  <1>1. ReqTyped' /\ ClientTyped'
    BY DEF ReqTyped, ClientTyped
  <1>2. req'[h] = r /\ \A g \in Handlers \ {h} : req'[g] = req[g]
    BY DEF ReqTyped
  <1>3. RequestFits(h)'
    BY <1>2 DEF RequestFits
  <1>4. \A g \in Handlers \ {h} : RequestFits(g)'
    BY <1>2 DEF RequestsFit, RequestFits
  <1> QED  BY <1>1, <1>3, <1>4 DEF RequestsFit

(* A request goes on to its next stage. *)
LEMMA Moves ==
  ASSUME TInv, NEW h \in Handlers, NEW place \in Stages \ {"idle"}, Goes(h, place),
         req[h].at # "idle", place \in AtPart => req[h].at \in AtPart,
         lock' = h => place = "sweeping", lock' \in {lock, None, h}
  PROVE  ReqTyped' /\ ClientTyped' /\ RequestsFit'
PROOF
  <1> USE DEF TInv, Typed
  <1> DEFINE r == [req[h] EXCEPT !.at = place]
  <1>1. req[h] \in Request
    BY DEF ReqTyped
  <1>2. r \in Request /\ r.at = place /\ r.upload = req[h].upload /\ r.part = req[h].part
    BY <1>1 DEF Request
  <1>3. req' = [req EXCEPT ![h] = r] /\ UNCHANGED client
    BY DEF Goes, ReqTyped
  <1>4. RequestFits(h)
    BY DEF RequestsFit
  <1> HIDE DEF r
  <1> QED  BY <1>2, <1>3, <1>4, GoesOn DEF RequestFits

(* A request is answered, whatever its answer. *)
LEMMA Answered ==
  ASSUME TInv, NEW h \in Handlers, NEW on \in BOOLEAN, NEW view \in SUBSET Parts,
         NEW acked \in BOOLEAN, Answers(h, on, view, acked),
         req[h].at # "idle", lock' # h, lock' \in {lock, None}
  PROVE  ReqTyped' /\ ClientTyped' /\ RequestsFit'
PROOF
  <1> USE UploadsFit DEF TInv, Typed
  <1>1. req' = [req EXCEPT ![h] = Idle]
    BY DEF Answers
  <1>2. ReqTyped'
    BY <1>1, IdleTyped DEF ReqTyped
  <1>3. ClientTyped'
    <2>1. req[h].upload \in Uploads
      BY DEF RequestsFit, RequestFits
    <2>2. client[req[h].upload].acked \in BOOLEAN
      BY <2>1 DEF ClientTyped, Client
    <2>3. [on |-> on, view |-> view, acked |-> client[req[h].upload].acked \/ acked] \in Client
      BY <2>2 DEF Client
    <2> QED  BY <2>1, <2>3 DEF Answers, ClientTyped
  <1>4. req'[h] = Idle /\ \A g \in Handlers \ {h} : req'[g] = req[g]
    BY <1>1 DEF ReqTyped
  <1>5. RequestFits(h)'
    BY <1>4, IdleTyped DEF RequestFits, AtPart
  <1>6. \A g \in Handlers \ {h} : RequestFits(g)'
    BY <1>4 DEF RequestsFit, RequestFits
  <1> QED  BY <1>2, <1>3, <1>5, <1>6 DEF RequestsFit

(* Whoever is not sweeping does not have the account's lock. *)
LEMMA NotSweeping ==
  ASSUME TInv, NEW h \in Handlers, req[h].at # "idle"
  PROVE  /\ req[h].upload \in Uploads /\ req[h] \in Request
         /\ req[h].at \in AtPart => req[h].part \in Parts
         /\ req[h].at # "sweeping" => lock # h
         /\ lock \in Handlers \cup {None} /\ None # h
         /\ client[req[h].upload] \in Client /\ staging[req[h].upload] \in StagingRow
PROOF
  BY UploadsFit DEF TInv, Typed, RequestsFit, RequestFits, ReqTyped, ClientTyped, StagingTyped

(* A step of the server keeps the requests fit, ... *)
LEMMA ServeFits ==
  ASSUME TInv, NEW h \in Handlers, Serve(h)
  PROVE  ReqTyped' /\ ClientTyped' /\ RequestsFit'
PROOF
  <1> DEFINE Fit == ReqTyped' /\ ClientTyped' /\ RequestsFit'
  <1>1. ASSUME req[h].at # "idle", lock' # h, lock' \in {lock, None},
               Refuses(h) \/ Acks(h) \/ Answers(h, TRUE, {}, FALSE)
        PROVE  Fit
    BY <1>1, Answered DEF Refuses, Acks
  <1>2. ASSUME NEW place \in Stages \ {"idle", "sweeping"}, Goes(h, place),
               req[h].at # "idle", place \in AtPart => req[h].at \in AtPart,
               lock' # h, lock' \in {lock, None}
        PROVE  Fit
    BY <1>2, Moves
  <1>3. ASSUME NEW measured \in BOOLEAN, Decides(h, measured), req[h].at \in AtPart,
               lock' # h, lock' \in {lock, None}
        PROVE  Fit
    BY <1>1, <1>2, <1>3 DEF Decides, Stages, AtPart
  <1> USE NotSweeping
  <1>4. CASE Admit(h)
    <2>1. CASE lock' = lock /\ \E measured \in BOOLEAN : Decides(h, measured)
      BY <1>3, <1>4, <2>1 DEF Admit, AtPart
    <2>2. CASE lock' = h /\ Goes(h, "sweeping")
      BY Moves, <1>4, <2>2 DEF Admit, AtPart, Stages
    <2>3. NeedsBudget(req[h].upload) \in BOOLEAN
      BY DEF NeedsBudget
    <2> QED  BY <1>4, <2>1, <2>2, <2>3 DEF Admit
  <1>5. CASE SweepLease(h) \/ SweepStaging(h)
    <2>1. PICK s \in Uploads \cup {None} : req' = [req EXCEPT ![h].swept = s]
      BY <1>5 DEF SweepLease, SweepStaging, Stale
    <2>2. req[h].at = "sweeping" /\ UNCHANGED <<lock, client>>
      BY <1>5 DEF SweepLease, SweepStaging
    <2> DEFINE r == [req[h] EXCEPT !.swept = s]
    <2>3. r \in Request /\ r.at = "sweeping" /\ r.upload = req[h].upload /\ r.part = req[h].part
      BY <2>2 DEF Request
    <2>4. req' = [req EXCEPT ![h] = r]
      BY <2>1 DEF TInv, Typed, ReqTyped
    <2> HIDE DEF r
    <2> QED  BY <2>2, <2>3, <2>4, GoesOn DEF AtPart
  <1>6. CASE AdmitSwept(h)
    BY <1>3, <1>6 DEF AdmitSwept, AtPart
  <1>7. CASE ReadStaging(h)
    <2>1. PICK s \in SUBSET Parts, place \in {"confirming", "renewing", "storing"} :
            req' = [req EXCEPT ![h].seen = s, ![h].at = place]
      <3>1. staging[req[h].upload].parts \in SUBSET Parts
        BY <1>7 DEF ReadStaging, StagingRow
      <3> QED  BY <1>7, <3>1 DEF ReadStaging
    <2>2. req[h].at = "transfer" /\ UNCHANGED <<lock, client>>
      BY <1>7 DEF ReadStaging
    <2> DEFINE r == [req[h] EXCEPT !.seen = s, !.at = place]
    <2>3. r \in Request /\ r.at = place /\ r.upload = req[h].upload /\ r.part = req[h].part
      BY <2>2 DEF Request, Stages, AtPart
    <2>4. req' = [req EXCEPT ![h] = r]
      BY <2>1 DEF TInv, Typed, ReqTyped
    <2> HIDE DEF r
    <2> QED  BY <2>1, <2>2, <2>3, <2>4, GoesOn DEF AtPart
  <1>8. CASE StorePart(h) \/ ListPart(h)
    BY <1>2, <1>8 DEF StorePart, ListPart, Stages, AtPart
  <1>9. CASE RenewLease(h)
    <2>1. ASSUME Answers(h, TRUE, client[req[h].upload].view \cup req[h].seen \cup {req[h].part},
                         FALSE)
          PROVE  Fit
      <3>1. client[req[h].upload].view \cup req[h].seen \cup {req[h].part} \in SUBSET Parts
        BY <1>9 DEF RenewLease, AtPart, Client, Request
      <3> QED  BY <1>9, <2>1, <3>1, Answered DEF RenewLease, Locked
    <2> QED  BY <1>1, <1>9, <2>1 DEF RenewLease, Locked
  <1>10. CASE Preflight(h) \/ Assemble(h) \/ SealCommitted(h)
    BY <1>1, <1>2, <1>10 DEF Preflight, Assemble, SealCommitted, Locked, Stages, AtPart, AtCommit
  <1>11. CASE PutAudio(h) \/ Publish(h) \/ PutReceipt(h) \/ CheckPublished(h)
    BY <1>1, <1>2, <1>11 DEF PutAudio, Publish, PutReceipt, CheckPublished, Locked, Stages,
       AtPart, AtCommit
  <1>12. CASE CleanCommitted(h) \/ Discard(h)
    BY <1>1, <1>12 DEF CleanCommitted, Discard
  <1>13. CASE ReadStatus(h)
    <2>1. ASSUME Answers(h, TRUE, staging[req[h].upload].parts, FALSE) PROVE Fit
      <3>1. staging[req[h].upload].parts \in SUBSET Parts
        BY <1>13 DEF ReadStatus, StagingRow
      <3> QED  BY <1>13, <2>1, <3>1, Answered DEF ReadStatus, Locked
    <2> QED
      BY <1>1, <1>2, <1>13, <2>1 DEF ReadStatus, Locked, Stages, AtStatus, AtPart
  <1> QED
    BY <1>4, <1>5, <1>6, <1>7, <1>8, <1>9, <1>10, <1>11, <1>12, <1>13 DEF Serve

(* ... and so does every other step. *)
LEMMA RequestsStep ==
  ASSUME TInv, Next
  PROVE  ReqTyped' /\ ClientTyped' /\ RequestsFit'
PROOF
  <1> DEFINE Fit == ReqTyped' /\ ClientTyped' /\ RequestsFit'
  <1>1. ASSUME NEW u \in Uploads, NEW h \in Handlers,
               SendStatus(h, u) \/ SendPart(h, u) \/ SendCommit(h, u)
        PROVE  Fit
    <2>1. PICK r \in Request :
            /\ req' = [req EXCEPT ![h] = r] /\ r.upload = u
            /\ r.at \in {"status", "admit", "preflight"} /\ (r.at = "admit" => r.part \in Parts)
      <3>1. ASSUME NEW place \in {"status", "preflight"}
            PROVE  LET r == [[Idle EXCEPT !.at = place] EXCEPT !.upload = u, !.heard = TRUE] IN
                     r \in Request /\ r.upload = u /\ r.at = place
        BY <1>1, <3>1 DEF Idle, Request, Stages, AtPart, AtCommit, AtStatus
      <3>2. ASSUME NEW p \in PartsOf[u]
            PROVE  LET r == [[Idle EXCEPT !.at = "admit", !.part = p]
                               EXCEPT !.upload = u, !.heard = TRUE] IN
                     r \in Request /\ r.upload = u /\ r.at = "admit" /\ r.part \in Parts
        BY <1>1, <3>2, UploadsFit DEF Idle, Request, Stages, AtPart, AtCommit, AtStatus
      <3> QED  BY <1>1, <3>1, <3>2 DEF SendStatus, SendPart, SendCommit, Sends
    <2>2. UNCHANGED <<lock, client>> /\ req[h].at = "idle"
      BY <1>1 DEF SendStatus, SendPart, SendCommit, Sends
    <2>3. lock # h
      BY <1>1, <2>2 DEF TInv, RequestsFit, RequestFits
    <2> QED  BY <1>1, <2>1, <2>2, <2>3, GoesOn DEF AtPart
  <1>2. ASSUME NEW h \in Handlers, GiveUp(h) PROVE Fit
    <2> USE DEF TInv, Typed
    <2>1. req[h].at # "idle"
      BY <1>2 DEF GiveUp, RequestsFit, RequestFits
    <2>2. ReqTyped'
      BY <1>2 DEF GiveUp, ReqTyped, Request
    <2>3. ClientTyped'
      BY <1>2, <2>1, NotSweeping DEF GiveUp, ClientTyped, Client
    <2>4. /\ req'[h].at = req[h].at /\ req'[h].upload = req[h].upload
          /\ req'[h].part = req[h].part
          /\ \A g \in Handlers \ {h} : req'[g] = req[g]
      BY <1>2 DEF GiveUp, ReqTyped, Request
    <2>5. RequestsFit'
      BY <1>2, <2>1, <2>4 DEF GiveUp, server, RequestsFit, RequestFits
    <2> QED  BY <2>2, <2>3, <2>5
  <1>3. ASSUME NEW h \in Handlers, PutFails(h) \/ Crash(h) PROVE Fit
    BY <1>3, Answered, NotSweeping DEF PutFails, Crash, Refuses
  <1>4. CASE ClockStep
    BY <1>4, Steps DEF TInv, Typed, ReqTyped, ClientTyped, RequestsFit, RequestFits
  <1> QED  BY <1>1, <1>2, <1>3, <1>4, ServeFits, Steps DEF Send, HandlerStep

-----------------------------------------------------------------------------
(* Leases, staging, audio.                                                 *)

(* Every step keeps the types of the leases, ... *)
LEMMA LeaseStep ==
  ASSUME TInv, Next
  PROVE  LeaseTyped'
PROOF
  <1> USE DEF TInv, Typed, LeaseTyped
  <1>1. CASE UNCHANGED lease
    BY <1>1
  <1>2. ASSUME NEW S, Free(S) PROVE LeaseTyped'
    BY <1>2, IdleTyped DEF Free
  <1>3. ASSUME NEW u \in Uploads, Renews(u) PROVE LeaseTyped'
    BY <1>3, UploadsFit DEF Renews, LeaseRow
  <1>4. ASSUME NEW h \in Handlers, Serve(h) PROVE LeaseTyped'
    <2>1. req[h].at # "idle" => req[h].upload \in Uploads
      BY <1>4, NotSweeping
    <2>2. \A measured : Decides(h, measured) => UNCHANGED lease \/ Renews(req[h].upload)
      BY DEF Decides
    <2>3. UNCHANGED lease \/ (\E S : Free(S)) \/ (req[h].at # "idle" /\ Renews(req[h].upload))
      BY <1>4, <2>2 DEF Serve, Admit, SweepLease, SweepStaging, AdmitSwept, ReadStaging, StorePart,
         ListPart, RenewLease, Preflight, Assemble, SealCommitted, PutAudio, Publish, PutReceipt,
         CheckPublished, CleanCommitted, ReadStatus, Discard, server
    <2> QED  BY <1>1, <1>2, <1>3, <2>1, <2>3
  <1>5. ASSUME NEW m \in Meetings, LeaseGoesStale(m) PROVE LeaseTyped'
    BY <1>5 DEF LeaseGoesStale, LeaseRow
  <1> QED
    BY <1>1, <1>4, <1>5, Steps DEF HandlerStep, GiveUp, PutFails, Crash, ClockStep,
       StagingGoesStale, server

(* ... of what is staged, ... *)
LEMMA StagingStep ==
  ASSUME TInv, Next
  PROVE  StagingTyped'
PROOF
  <1> USE DEF TInv, Typed, StagingTyped
  <1>1. CASE UNCHANGED <<staging, stored>>
    BY <1>1
  <1>2. ASSUME NEW u \in Uploads, DeletesStaging(u) PROVE StagingTyped'
    <2>1. staging' \in [Uploads -> StagingRow]
      BY <1>2, IdleTyped DEF DeletesStaging
    <2>2. stored' \in [Uploads -> SUBSET Parts]
      BY <1>2 DEF DeletesStaging
    <2> QED  BY <2>1, <2>2
  <1>3. ASSUME NEW u \in Uploads, Renews(u), UNCHANGED stored PROVE StagingTyped'
    BY <1>3 DEF Renews, StagingRow
  <1>4. ASSUME NEW h \in Handlers, Serve(h) PROVE StagingTyped'
    <2>1. req[h].at # "idle" => req[h].upload \in Uploads
      BY <1>4, NotSweeping
    <2>2. CASE StorePart(h)
      BY <1>4, <2>1, <2>2, NotSweeping DEF StorePart, AtPart
    <2>3. CASE ListPart(h)
      <3>1. [kept |-> TRUE, parts |-> req[h].seen \cup {req[h].part}, stale |-> FALSE,
             newer |-> TRUE] \in StagingRow
        BY <1>4, <2>3, NotSweeping DEF ListPart, AtPart, StagingRow, Request
      <3> QED  BY <2>1, <2>3, <3>1 DEF ListPart
    <2>4. CASE SweepStaging(h)
      BY <1>2, <1>4, <2>4, NotSweeping DEF SweepStaging, Request
    <2>5. \A measured : Decides(h, measured) => UNCHANGED staging \/ Renews(req[h].upload)
      BY DEF Decides
    <2>6. \/ UNCHANGED <<staging, stored>>
          \/ req[h].at # "idle" /\ DeletesStaging(req[h].upload)
          \/ req[h].at # "idle" /\ Renews(req[h].upload) /\ UNCHANGED stored
          \/ StorePart(h) \/ ListPart(h) \/ SweepStaging(h)
      BY <1>4, <2>5 DEF Serve, Admit, SweepLease, AdmitSwept, ReadStaging, RenewLease, Preflight,
         Assemble, SealCommitted, PutAudio, Publish, PutReceipt, CheckPublished,
         CleanCommitted, ReadStatus, Discard, server
    <2> QED  BY <1>1, <1>2, <1>3, <2>1, <2>2, <2>3, <2>4, <2>6
  <1>5. CASE ClockStep
    <2>1. ASSUME NEW u \in Uploads \cup {None}, NEW b \in BOOLEAN,
                 staging' = [staging EXCEPT ![u].stale = b]
          PROVE  staging' \in [Uploads -> StagingRow]
      BY <2>1 DEF StagingRow
    <2>2. ASSUME NEW u \in Uploads, StagingGoesStale(u) PROVE StagingTyped'
      BY <2>1, <2>2 DEF StagingGoesStale
    <2>3. ASSUME NEW m \in Meetings, LeaseGoesStale(m) PROVE StagingTyped'
      <3>1. lease[m].upload \in Uploads
        BY <2>3 DEF LeaseGoesStale, LeaseTyped, LeaseRow
      <3>2. (staging[lease[m].upload].stale
              \/ (staging[lease[m].upload].kept /\ ~staging[lease[m].upload].newer)) \in BOOLEAN
        BY <3>1 DEF StagingRow
      <3>3. staging' = [staging EXCEPT ![lease[m].upload].stale =
              (staging[lease[m].upload].stale
                \/ (staging[lease[m].upload].kept /\ ~staging[lease[m].upload].newer))]
        BY <2>3, Zenon DEF LeaseGoesStale
      <3> QED  BY <2>1, <2>3, <3>1, <3>2, <3>3 DEF LeaseGoesStale
    <2> QED  BY <1>5, <2>2, <2>3 DEF ClockStep
  <1> QED
    BY <1>1, <1>4, <1>5, Steps DEF HandlerStep, GiveUp, PutFails, Crash, server

(* ... and of what is published. *)
LEMMA AudioStep ==
  ASSUME TInv, Next
  PROVE  AudioTyped' /\ RestTyped'
PROOF
  <1> USE DEF TInv, Typed, AudioTyped, RestTyped
  <1>1. ASSUME UNCHANGED <<receipt, audio, chunk>> PROVE AudioTyped'
    BY <1>1
  <1>2. ASSUME NEW h \in Handlers, Serve(h) PROVE AudioTyped'
    <2>1. CASE PutAudio(h) \/ Publish(h) \/ PutReceipt(h)
      BY <1>2, <2>1, NotSweeping, UploadsFit DEF PutAudio, Publish, PutReceipt
    <2>2. CASE ~(PutAudio(h) \/ Publish(h) \/ PutReceipt(h))
      BY <1>1, <1>2, <2>2 DEF Serve, Admit, SweepLease, SweepStaging, AdmitSwept, ReadStaging,
         StorePart, ListPart, RenewLease, Preflight, Assemble, SealCommitted,
         CheckPublished, CleanCommitted, ReadStatus, Discard, server
    <2> QED  BY <2>1, <2>2
  <1>3. AudioTyped'
    BY <1>1, <1>2, Steps DEF HandlerStep, GiveUp, PutFails, Crash, server
  <1>4. Faulty => faults' \in 0..MaxFaults
    BY UploadAssumption DEF Faulty
  <1>5. ASSUME NEW h \in Handlers, Serve(h) PROVE faults' \in 0..MaxFaults
    BY <1>4, <1>5 DEF Serve, Admit, SweepLease, SweepStaging, AdmitSwept, ReadStaging,
       StorePart, ListPart, RenewLease, Preflight, Assemble, SealCommitted, PutAudio, Publish,
       PutReceipt, CheckPublished, CleanCommitted, ReadStatus, Discard, DeletesStaging
  <1>6. RestTyped'
    BY <1>4, <1>5, Steps DEF HandlerStep, GiveUp, PutFails, Crash, ClockStep, StagingGoesStale,
       LeaseGoesStale, Elapses
  <1> QED  BY <1>3, <1>6

-----------------------------------------------------------------------------
(* Commits.                                                                *)

(* The uploads of one meeting carry the same recording. *)
OneRecording ==
  \A u, v \in Uploads : MeetingOf[u] = MeetingOf[v] => Content[u] = Content[v]

(* What is stored, sealed or receipted stays so. *)
LEMMA NothingLost ==
  ASSUME OneRecording, TInv, Next, NEW v \in Uploads
  PROVE  /\ audio[MeetingOf[v]] = Content[v] => audio'[MeetingOf[v]] = Content[v]
         /\ chunk[MeetingOf[v]] = Content[v] => chunk'[MeetingOf[v]] = Content[v]
         /\ v \in receipt => v \in receipt'
PROOF
  <1> DEFINE Keeps == /\ audio[MeetingOf[v]] = Content[v] => audio'[MeetingOf[v]] = Content[v]
                      /\ chunk[MeetingOf[v]] = Content[v] => chunk'[MeetingOf[v]] = Content[v]
                      /\ v \in receipt => v \in receipt'
  <1>1. CASE UNCHANGED <<receipt, audio, chunk>>
    BY <1>1
  <1>2. ASSUME NEW h \in Handlers, Serve(h) PROVE Keeps
    <2>1. CASE PutAudio(h) \/ Publish(h) \/ PutReceipt(h)
      BY <1>2, <2>1, NotSweeping, UploadsFit DEF PutAudio, Publish, PutReceipt, TInv, Typed,
         AudioTyped, OneRecording
    <2>2. CASE ~(PutAudio(h) \/ Publish(h) \/ PutReceipt(h))
      BY <1>1, <1>2, <2>2 DEF Serve, Admit, SweepLease, SweepStaging, AdmitSwept, ReadStaging,
         StorePart, ListPart, RenewLease, Preflight, Assemble, SealCommitted,
         CheckPublished, CleanCommitted, ReadStatus, Discard, server
    <2> QED  BY <2>1, <2>2
  <1> QED  BY <1>1, <1>2, Steps DEF HandlerStep, GiveUp, PutFails, Crash, server

(* A request that is not in the middle of a publication promises nothing. *)
Early == {"idle", "admit", "sweeping", "transfer", "storing", "listing", "renewing",
          "confirming", "preflight", "assembling", "putting", "status", "discarding"}

(* A commit goes on only when the write before is there. *)
LEMMA CommitMoves ==
  ASSUME OneRecording, IInv, Next, NEW h \in Handlers
  PROVE  CommitFits(h)'
PROOF
  <1> USE DEF IInv, TInv, Typed
  <1> DEFINE u == req[h].upload
  <1>1. CASE req'[h].at \in Early
    BY <1>1 DEF CommitFits, Early
  <1>2. CASE req'[h].at = req[h].at /\ req'[h].upload = req[h].upload
    <2>1. CASE req[h].at = "idle"
      BY <1>2, <2>1 DEF CommitFits
    <2>2. CASE req[h].at # "idle"
      BY <1>2, <2>2, NotSweeping, NothingLost DEF CommitsFit, CommitFits
    <2> QED  BY <2>1, <2>2
  <1>3. CASE Serve(h)
    <2>0. /\ req[h].at # "idle" => u \in Uploads /\ req[h] \in Request
          /\ CommitFits(h) /\ req \in [Handlers -> Request]
      BY NotSweeping DEF CommitsFit, ReqTyped
    <2>1. \A place : Goes(h, place) => req'[h].at = place /\ req'[h].upload = u
      BY <2>0 DEF Goes, Request
    <2>2. \A on, view, acked : Answers(h, on, view, acked) => req'[h].at \in Early
      BY <2>0, IdleTyped DEF Answers, Early
    <2>3. CASE PutAudio(h)
      BY <2>0, <2>1, <2>3, UploadsFit DEF PutAudio, CommitFits, AudioTyped
    <2>4. CASE Publish(h)
      <3>1. CASE Refuses(h)
        BY <1>1, <2>2, <3>1 DEF Refuses
      <3>2. CASE ~Refuses(h)
        <4>1. /\ req[h].at = "publishing" /\ UNCHANGED <<receipt, audio>>
              /\ chunk' = [chunk EXCEPT ![MeetingOf[u]] = Content[u]]
              /\ Goes(h, "receipting")
          BY <2>4, <3>2 DEF Publish
        <4>2. req'[h].at = "receipting" /\ req'[h].upload = u
          BY <2>1, <4>1
        <4>3. u \in Uploads /\ MeetingOf[u] \in Meetings
          BY <2>0, <4>1, UploadsFit
        <4>4. audio[MeetingOf[u]] = Content[u]
          BY <2>0, <4>1 DEF CommitFits
        <4> QED  BY <4>1, <4>2, <4>3, <4>4 DEF CommitFits, AudioTyped
      <3> QED  BY <3>1, <3>2
    <2>5. CASE PutReceipt(h)
      BY <2>0, <2>1, <2>5 DEF PutReceipt, CommitFits
    <2>6. CASE CheckPublished(h)
      BY <2>0, <2>1, <2>2, <1>1, <2>6 DEF CheckPublished, Refuses, CommitFits, server
    <2>7. CASE Assemble(h)
      <3>1. CASE Refuses(h) \/ Goes(h, "putting")
        BY <1>1, <2>1, <2>2, <3>1 DEF Refuses, Early
      <3>2. CASE u \in receipt /\ Goes(h, "sealing")
        BY <2>1, <2>7, <3>2 DEF Assemble, CommitFits, server
      <3> QED  BY <2>7, <3>1, <3>2 DEF Assemble
    <2>8. CASE SweepLease(h) \/ SweepStaging(h) \/ ReadStaging(h)
      <3>1. CASE SweepLease(h)
        BY ZenonT(40), <1>1, <2>0, <3>1 DEF SweepLease, Request, Early
      <3>2. CASE SweepStaging(h)
        BY ZenonT(40), <1>1, <2>0, <3>2 DEF SweepStaging, Request, Early
      <3>3. CASE ReadStaging(h)
        BY ZenonT(40), <1>1, <2>0, <3>3 DEF ReadStaging, Request, Early
      <3> QED  BY <2>8, <3>1, <3>2, <3>3
    <2>9. CASE Admit(h) \/ AdmitSwept(h) \/ StorePart(h) \/ ListPart(h) \/ RenewLease(h)
               \/ Preflight(h) \/ SealCommitted(h) \/ CleanCommitted(h) \/ ReadStatus(h)
               \/ Discard(h)
      <3>1. req'[h].at \in Early
        BY <2>1, <2>2, <2>9 DEF Admit, AdmitSwept, Decides, StorePart, ListPart, RenewLease,
           Preflight, SealCommitted, CleanCommitted, ReadStatus, Discard, Refuses, Acks, Early
      <3> QED  BY <1>1, <3>1
    <2> QED
      BY <1>3, <2>3, <2>4, <2>5, <2>6, <2>7, <2>8, <2>9 DEF Serve
  <1>4. ASSUME NEW v \in Uploads, Send(v)
        PROVE  req'[h].at \in Early \/ (req'[h].at = req[h].at /\ req'[h].upload = req[h].upload)
    <2>1. PICK g \in Handlers :
            /\ \E r : /\ req' = [req EXCEPT ![g] = [r EXCEPT !.upload = v, !.heard = TRUE]]
                      /\ \/ r = [Idle EXCEPT !.at = "status"]
                         \/ \E p \in PartsOf[v] : r = [Idle EXCEPT !.at = "admit", !.part = p]
                         \/ r = [Idle EXCEPT !.at = "preflight"]
      BY <1>4 DEF Send, SendStatus, SendPart, SendCommit, Sends
    <2>2. CASE g = h
      BY ZenonT(40), <2>1, <2>2 DEF ReqTyped, Early, Idle
    <2>3. CASE g # h
      BY <2>1, <2>3 DEF ReqTyped
    <2> QED  BY <2>2, <2>3
  <1>5. ASSUME NEW g \in Handlers, HandlerStep(g), g # h PROVE req'[h] = req[h]
    BY <1>5 DEF ReqTyped, HandlerStep, Serve, Admit, SweepLease, SweepStaging, AdmitSwept, Decides,
       ReadStaging, StorePart, ListPart, RenewLease, Preflight, Assemble, SealCommitted, PutAudio,
       Publish, PutReceipt, CheckPublished, CleanCommitted, ReadStatus, Discard, GiveUp, PutFails,
       Crash, Refuses, Acks, Answers, Goes, server
  <1>6. CASE GiveUp(h)
    BY <1>2, <1>6 DEF GiveUp, ReqTyped, Request
  <1>7. CASE PutFails(h) \/ Crash(h)
    BY <1>1, <1>7, IdleTyped DEF PutFails, Crash, Refuses, Answers, ReqTyped, Early
  <1>8. CASE ClockStep
    BY <1>2, <1>8, Steps
  <1> QED
    BY <1>1, <1>2, <1>3, <1>4, <1>5, <1>6, <1>7, <1>8, Steps DEF HandlerStep

(* A receipt is written by a handler that has published. *)
LEMMA ReceiptsStep ==
  ASSUME OneRecording, IInv, Next
  PROVE  ReceiptsFit'
PROOF
  <1> USE DEF IInv, TInv, Typed
  <1>1. ASSUME NEW v \in receipt', v \notin receipt
        PROVE  \E h \in Handlers : PutReceipt(h) /\ req[h].upload = v
    BY ZenonT(40), <1>1, Steps DEF HandlerStep, Serve, Admit, SweepLease, SweepStaging, AdmitSwept,
       ReadStaging, StorePart, ListPart, RenewLease, Preflight, Assemble, SealCommitted, PutAudio,
       Publish, PutReceipt, CheckPublished, CleanCommitted, ReadStatus, Discard, GiveUp, PutFails,
       Crash, server
  <1>2. ASSUME NEW v \in receipt'
        PROVE  chunk'[MeetingOf[v]] = Content[v] /\ audio'[MeetingOf[v]] = Content[v]
    <2>1. CASE v \in receipt
      BY <2>1, NothingLost DEF ReceiptsFit, AudioTyped
    <2>2. CASE v \notin receipt
      BY <1>1, <1>2, <2>2 DEF PutReceipt, CommitsFit, CommitFits
    <2> QED  BY <2>1, <2>2
  <1> QED  BY <1>2 DEF ReceiptsFit

(* Every acknowledgement comes from a handler that has seen the receipt. *)
LEMMA AcksStep ==
  ASSUME OneRecording, IInv, Next
  PROVE  AcksFit'
PROOF
  <1> USE DEF IInv, TInv, Typed
  <1>1. \A v \in Uploads : v \in receipt => v \in receipt'
    BY NothingLost
  <1>2. CASE \A v \in Uploads : client'[v].acked => client[v].acked
    BY <1>1, <1>2 DEF AcksFit
  <1>3. ASSUME NEW h \in Handlers, req[h].at # "idle", NEW on, NEW view,
               Answers(h, on, view, FALSE)
        PROVE  AcksFit'
    <2>1. client[req[h].upload].acked \in BOOLEAN
      BY <1>3, NotSweeping DEF Client
    <2>2. \A v \in Uploads : client'[v].acked => client[v].acked
      BY <1>3, <2>1, NotSweeping DEF Answers, ClientTyped
    <2> QED  BY <1>2, <2>2
  <1>4. ASSUME NEW h \in Handlers, req[h].at # "idle", req[h].upload \in receipt, Acks(h)
        PROVE  AcksFit'
    <2>1. \A v \in Uploads : client'[v].acked => client[v].acked \/ v = req[h].upload
      BY <1>4, NotSweeping DEF Acks, Answers, ClientTyped
    <2> QED  BY <1>1, <1>4, <2>1 DEF AcksFit
  <1>5. ASSUME NEW h \in Handlers, Serve(h)
        PROVE  AcksFit'
    <2>1. CASE SealCommitted(h) \/ CleanCommitted(h)
      <3>1. req[h].upload \in receipt
        BY <1>5, <2>1 DEF SealCommitted, CleanCommitted, CommitsFit, CommitFits
      <3> QED  BY <1>4, <1>5, <2>1, <3>1 DEF SealCommitted, CleanCommitted
    <2>2. CASE Preflight(h)
      BY <1>2, <1>4, <1>5, <2>2 DEF Preflight, Goes
    <2>3. CASE ReadStatus(h)
      BY <1>2, <1>3, <1>4, <1>5, <2>3 DEF ReadStatus, Goes, Refuses
    <2>4. CASE Admit(h) \/ AdmitSwept(h)
      BY <1>2, <1>3, <1>5, <2>4 DEF Admit, AdmitSwept, Decides, Goes, Refuses
    <2>5. CASE RenewLease(h) \/ Assemble(h) \/ Publish(h) \/ CheckPublished(h) \/ Discard(h)
      BY <1>2, <1>3, <1>5, <2>5 DEF RenewLease, Assemble, Publish, CheckPublished, Discard, Goes,
         Refuses
    <2>6. CASE UNCHANGED client
      BY <1>2, <2>6
    <2> QED
      BY <1>5, <2>1, <2>2, <2>3, <2>4, <2>5, <2>6 DEF Serve, SweepLease, SweepStaging,
         ReadStaging, StorePart, ListPart, PutAudio, PutReceipt, Goes
  <1>6. ASSUME NEW h \in Handlers, GiveUp(h) PROVE AcksFit'
    <2>1. req[h].upload \in Uploads
      BY <1>6 DEF GiveUp, RequestsFit, RequestFits
    <2>2. \A v \in Uploads : client'[v].acked => client[v].acked
      BY <1>6, <2>1 DEF GiveUp, ClientTyped, Client
    <2> QED  BY <1>2, <2>2
  <1>7. ASSUME NEW h \in Handlers, PutFails(h) \/ Crash(h) PROVE AcksFit'
    BY <1>3, <1>7 DEF PutFails, Crash, Refuses
  <1> QED  BY <1>2, <1>5, <1>6, <1>7, Steps DEF HandlerStep

-----------------------------------------------------------------------------
(* The budget.                                                             *)

(* An admission that takes a lease measures all of them with its own. *)
LEMMA AdmissionFits ==
  ASSUME TInv, Next, NEW u \in Uploads, NEW h \in Handlers,
         req[h].upload = u, req[h].at \in {"admit", "sweeping"}, req'[h].at = "transfer",
         u \notin Reserved, u \in Reserved'
  PROVE  WithinPolicy(Reserved')
PROOF
  <1> USE UploadsFit DEF TInv, Typed
  <1>1. Serve(h)
    <2>1. ASSUME NEW v \in Uploads, Send(v) PROVE FALSE
      <3>1. UNCHANGED lease
        BY <2>1, Steps DEF server
      <3> QED  BY <3>1 DEF Reserved
    <2>2. ASSUME NEW g \in Handlers, HandlerStep(g), g # h PROVE FALSE
      <3>1. req'[h] = req[h]
        BY <2>2 DEF ReqTyped, HandlerStep, Serve, Admit, SweepLease, SweepStaging, AdmitSwept,
           Decides, ReadStaging, StorePart, ListPart, RenewLease, Preflight, Assemble,
           SealCommitted, PutAudio, Publish, PutReceipt, CheckPublished, CleanCommitted,
           ReadStatus, Discard, GiveUp, PutFails, Crash, Refuses, Acks, Answers, Goes, server
      <3> QED  BY <3>1
    <2>3. ~(GiveUp(h) \/ PutFails(h) \/ Crash(h))
      <3>1. CASE GiveUp(h) \/ PutFails(h) \/ Crash(h)
        BY <3>1 DEF GiveUp, PutFails, Crash, server, Reserved
      <3> QED  BY <3>1
    <2>4. ~ClockStep
      BY Steps
    <2> QED  BY <2>1, <2>2, <2>3, <2>4, Steps DEF HandlerStep
  <1>2. PICK measured : /\ Decides(h, measured)
                        /\ NeedsBudget(u) => measured
    <2>1. Admit(h) \/ SweepLease(h) \/ SweepStaging(h) \/ AdmitSwept(h)
      BY <1>1 DEF Serve, ReadStaging, StorePart, ListPart, RenewLease, Preflight, Assemble,
         SealCommitted, PutAudio, Publish, PutReceipt, CheckPublished, CleanCommitted,
         ReadStatus, Discard
    <2>2. req[h].at = "sweeping" => ~(SweepLease(h) \/ SweepStaging(h))
      BY DEF SweepLease, SweepStaging, ReqTyped, Request
    <2>3. ~Goes(h, "sweeping")
      BY DEF Goes, ReqTyped, Request
    <2>4. CASE Admit(h)
      BY <2>3, <2>4 DEF Admit
    <2>5. CASE AdmitSwept(h)
      BY <2>5 DEF AdmitSwept
    <2> QED  BY <2>1, <2>2, <2>4, <2>5 DEF SweepLease, SweepStaging
  <1>3. lease' # lease
    BY DEF Reserved
  <1>4. /\ lease[MeetingOf[u]].upload = None
        /\ Renews(u)
        /\ measured => WithinPolicy(Reserved \cup {u})
    BY <1>2, <1>3 DEF Decides
  <1>5. WithinPolicy(Reserved \cup {u})
    BY <1>2, <1>4 DEF NeedsBudget
  <1>6. Reserved' = Reserved \cup {u}
    <2>1. ASSUME NEW v \in Uploads, v # u
          PROVE  lease'[MeetingOf[v]] = [upload |-> v, stale |-> FALSE]
                   <=> lease[MeetingOf[v]] = [upload |-> v, stale |-> FALSE]
      <3>1. CASE MeetingOf[v] # MeetingOf[u]
        BY <1>4, <2>1, <3>1 DEF Renews, LeaseTyped
      <3>2. CASE MeetingOf[v] = MeetingOf[u]
        <4>1. lease'[MeetingOf[v]].upload = u /\ lease[MeetingOf[v]].upload = None
          BY <1>4, <2>1, <3>2 DEF Renews, LeaseTyped
        <4> QED  BY <2>1, <4>1
      <3> QED  BY <3>1, <3>2
    <2> QED  BY <2>1 DEF Reserved
  <1> QED  BY <1>5, <1>6

-----------------------------------------------------------------------------

(* No request, no lease and no recording yet. *)
LEMMA InitFits == Init => IInv
PROOF
  <1> SUFFICES ASSUME Init PROVE IInv
    OBVIOUS
  <1>1. LeaseTyped /\ StagingTyped
    BY IdleTyped DEF Init, LeaseTyped, StagingTyped
  <1>2. AudioTyped /\ RestTyped
    BY UploadAssumption DEF Init, AudioTyped, RestTyped
  <1>3. ReqTyped /\ RequestsFit
    BY IdleTyped, UploadsFit DEF Init, ReqTyped, RequestsFit, RequestFits, AtPart
  <1>4. ClientTyped
    <2>1. [on |-> FALSE, view |-> {}, acked |-> FALSE] \in Client
      BY DEF Client
    <2> QED  BY <2>1 DEF Init, ClientTyped
  <1>5. CommitsFit /\ ReceiptsFit /\ AcksFit
    BY IdleTyped DEF Init, CommitsFit, CommitFits, ReceiptsFit, AcksFit
  <1> QED  BY <1>1, <1>2, <1>3, <1>4, <1>5 DEF IInv, TInv, Typed

(* Types are inductive by themselves. *)
LEMMA TypesStep == TInv /\ [Next]_vars => TInv'
PROOF
  <1>1. TInv /\ Next => TInv'
    BY LeaseStep, StagingStep, AudioStep, RequestsStep DEF TInv, Typed
  <1>2. TInv /\ UNCHANGED vars => TInv'
    BY DEF TInv, Typed, LeaseTyped, StagingTyped, AudioTyped, ReqTyped, ClientTyped, RestTyped,
       RequestsFit, RequestFits, vars, server
  <1> QED  BY <1>1, <1>2

(* They hold without any assumption on the recordings. *)
LEMMA TypesHold == Spec => []TInv
PROOF
  <1>1. Init => TInv
    BY InitFits DEF IInv
  <1> QED  BY <1>1, TypesStep, PTL DEF Spec

(* Leases, staging manifests, receipts and requests keep their types, and  *)
(* the account's lock stays with a sweep only while it sweeps              *)
(* (sweepAndMeasureRecordingUploads).                                      *)
THEOREM TypeCorrect == Spec => []TypeOK
PROOF
  <1>1. TInv => TypeOK
    <2> SUFFICES ASSUME TInv PROVE TypeOK
      OBVIOUS
    <2>1. lock \in {None} \cup {h \in Handlers : req[h].at = "sweeping"}
      BY DEF TInv, RequestsFit, RequestFits
    <2> QED
      BY <2>1 DEF TInv, Typed, LeaseTyped, StagingTyped, AudioTyped, ReqTyped, ClientTyped,
         RestTyped, TypeOK, LeaseRow, StagingRow, Request, Client, Stages, Recordings
  <1> QED  BY TypesHold, <1>1, PTL

(* No admission takes the account over its uploads or bytes, for any       *)
(* number of concurrent first parts: those that sweep, those that do not   *)
(* need to, and those that renew (saveMeetingRecordingUploadPart).         *)
THEOREM AdmissionsAlwaysFit == Spec => AdmissionsFit
PROOF
  <1>1. TInv /\ [Next]_vars => [\A u \in Uploads :
               (\E h \in Handlers : req[h].upload = u /\ req[h].at \in {"admit", "sweeping"}
                                    /\ req'[h].at = "transfer")
                 /\ u \notin Reserved /\ u \in Reserved'
               => WithinPolicy(Reserved')]_vars
    BY AdmissionFits
  <1> QED  BY TypesHold, <1>1, PTL DEF Spec, AdmissionsFit

(* Whoever was acknowledged has a receipt, a sealed chunk and the audio it *)
(* sent, for good: through late commits and statuses, sweeps, discarded    *)
(* staging and crashes (commitMeetingRecordingUpload), provided that the   *)
(* uploads of one meeting are of one recording.                            *)
THEOREM AckedStaysDurable ==
  ASSUME OneRecording
  PROVE  Spec => []AckedIsDurable
PROOF
  <1>1. IInv /\ Next => IInv'
    BY TypesStep, CommitMoves, ReceiptsStep, AcksStep DEF IInv, CommitsFit
  <1>2. IInv /\ UNCHANGED vars => IInv'
    BY TypesStep DEF IInv, CommitsFit, CommitFits, ReceiptsFit, AcksFit, vars, server
  <1>3. IInv => AckedIsDurable
    BY DEF IInv, ReceiptsFit, AcksFit, AckedIsDurable
  <1> QED  BY InitFits, <1>1, <1>2, <1>3, PTL DEF Spec

=============================================================================
