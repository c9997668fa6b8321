-------------------------- MODULE MeetingWriteLock --------------------------
(***************************************************************************)
(* The write coordinator of meeting-write-lock.ts in its PostgreSQL mode:  *)
(* a section first waits in its process's queue for the key, then takes a  *)
(* connection of the process's pool for as long as it lasts, a share of    *)
(* the backup barrier and the key's advisory lock.  Sections nest, and     *)
(* what runs inside needs connections of its own.  The backup takes the    *)
(* barrier alone, in a session that is not of any pool.                    *)
(*                                                                         *)
(* The database session of a section is not lost while the section runs,   *)
(* and so its unlock queries are answered.                                 *)
(***************************************************************************)
EXTENDS Naturals, Sequences, FiniteSets, Functions

CONSTANTS
  Procs,      \* app and worker processes
  Calls,      \* the requests and jobs in progress
  ProcOf,
  KindOf,     \* which sections a call takes
  UserOf,
  MeetingOf,
  UploadOf,
  PoolMax,    \* OWNMINUTES_POSTGRES_POOL_MAX
  MaxBackups, \* bound: backups taken
  None

Kinds == {"mutation", "publication", "transfer"}

VARIABLES
  call,    \* how far each call has come: depth, step and outcome
  queue,   \* localUserWriteQueues and its like, of each process
  conn,    \* the pooled connections that sections hold
  shared,  \* the sections that share the backup barrier
  holder,  \* of each key, the section that holds its advisory lock
  backup,
  backups

vars == <<call, queue, conn, shared, holder, backup, backups>>

Keys == {UserOf[c] : c \in Calls} \cup {MeetingOf[c] : c \in Calls}
          \cup {UploadOf[c] : c \in Calls}
Depths == 1..2

ASSUME LockAssumption ==
  /\ ProcOf \in [Calls -> Procs] /\ KindOf \in [Calls -> Kinds]
  /\ UserOf \in [Calls -> Keys] /\ MeetingOf \in [Calls -> Keys]
  /\ UploadOf \in [Calls -> Keys]
  /\ \A c, d \in Calls : /\ UserOf[c] \notin {MeetingOf[d], UploadOf[d]}
                         /\ MeetingOf[c] # UploadOf[d]
  /\ PoolMax \in Nat \ {0} /\ MaxBackups \in Nat
  /\ None \notin Calls

(* A plausible error: a publication settles its owner inside the fence. *)
SectionsSwapped(c) ==
  CASE KindOf[c] = "mutation" -> <<UserOf[c], MeetingOf[c]>>
    [] KindOf[c] = "publication" -> <<MeetingOf[c], UserOf[c]>>
    [] KindOf[c] = "transfer" -> <<UploadOf[c]>>

(* The sections of a call, outermost first: an HTTP mutation takes its     *)
(* user's lock and then the meeting's fence; a worker's publication enters *)
(* the fence and, for the projection, enters it again; staging a part      *)
(* takes the upload's lock alone.                                          *)
Sections(c) ==
  CASE KindOf[c] = "mutation" -> <<UserOf[c], MeetingOf[c]>>
    [] KindOf[c] = "publication" -> <<MeetingOf[c], MeetingOf[c]>>
    [] KindOf[c] = "transfer" -> <<UploadOf[c]>>

KeyAt(c, d) == Sections(c)[d]
Key(c) == KeyAt(c, call[c].depth)
Section(c) == <<c, call[c].depth>>

(* A plausible error: an inner fence queues behind the outer one. *)
NeverReenters(c, d) == FALSE

(* heldMeetingWriteLocks: only the meeting's lock may be entered again. *)
Reenters(c, d) ==
  /\ KeyAt(c, d) \in {MeetingOf[x] : x \in Calls}
  /\ \E e \in 1..(d - 1) : KeyAt(c, e) = KeyAt(c, d)

Pooled(p) == {s \in conn : ProcOf[s[1]] = p}
PoolFree(p) == Cardinality(Pooled(p)) < PoolMax
First(c) == Head(queue[ProcOf[c]][Key(c)]) = Section(c)

Steps == {"running", "queued", "sharing", "locking", "unlocking", "releasing"}

StateTyped ==
  /\ call \in [Calls -> [depth : 0..2, at : Steps,
                         result : {"ok", "busy", "error"}, done : BOOLEAN]]
  /\ queue \in [Procs -> [Keys -> Seq(Calls \X Depths)]]
  /\ conn \subseteq Calls \X Depths
  /\ shared \subseteq conn
  /\ holder \in [Keys -> Calls \cup {None}]
  /\ backup \in {"idle", "waiting", "holding"}
  /\ backups \in 0..MaxBackups

TypeOK == StateTyped /\ \A p \in Procs : Cardinality(Pooled(p)) =< PoolMax

Init ==
  /\ call = [c \in Calls |-> [depth |-> 0, at |-> "running", result |-> "ok",
                              done |-> FALSE]]
  /\ queue = [p \in Procs |-> [k \in Keys |-> <<>>]]
  /\ conn = {}
  /\ shared = {}
  /\ holder = [k \in Keys |-> None]
  /\ backup = "idle"
  /\ backups = 0

-----------------------------------------------------------------------------
(* Sections.                                                               *)

Goes(c, at) == call' = [call EXCEPT ![c].at = at]

(* withValidatedMeetingWriteLock, withUserWriteLock, withRecordingUploadLock *)
Enter(c) ==
  LET d == call[c].depth + 1  p == ProcOf[c] IN
  /\ call[c].at = "running" /\ ~call[c].done
  /\ d =< Len(Sections(c))
  /\ IF Reenters(c, d)
     THEN /\ call' = [call EXCEPT ![c].depth = d]
          /\ UNCHANGED queue
     ELSE /\ call' = [call EXCEPT ![c].depth = d, ![c].at = "queued"]
          /\ queue' = [queue EXCEPT ![p][KeyAt(c, d)] = Append(@, <<c, d>>)]
  /\ UNCHANGED <<conn, shared, holder, backup, backups>>

Connect(c) ==
  /\ call[c].at = "queued" /\ First(c) /\ PoolFree(ProcOf[c])
  /\ conn' = conn \cup {Section(c)}
  /\ Goes(c, "sharing")
  /\ UNCHANGED <<queue, shared, holder, backup, backups>>

(* A plausible error: the share ends with its statement. *)
ShareBarrierBriefly(c) ==
  /\ call[c].at = "sharing" /\ backup = "idle"
  /\ Goes(c, "locking")
  /\ UNCHANGED <<queue, conn, shared, holder, backup, backups>>

ShareBarrier(c) ==
  /\ call[c].at = "sharing" /\ backup = "idle"
  /\ shared' = shared \cup {Section(c)}
  /\ Goes(c, "locking")
  /\ UNCHANGED <<queue, conn, holder, backup, backups>>

(* A plausible error: the key is shared as the barrier is. *)
TakeKeyShared(c) ==
  /\ call[c].at = "locking"
  /\ holder' = [holder EXCEPT ![Key(c)] = c]
  /\ Goes(c, "running")
  /\ UNCHANGED <<queue, conn, shared, backup, backups>>

TakeKey(c) ==
  /\ call[c].at = "locking" /\ holder[Key(c)] = None
  /\ holder' = [holder EXCEPT ![Key(c)] = c]
  /\ Goes(c, "running")
  /\ UNCHANGED <<queue, conn, shared, backup, backups>>

(* The operation's own queries borrow a connection of the same pool. *)
Operate(c) ==
  /\ call[c].at = "running" /\ call[c].depth = Len(Sections(c)) /\ ~call[c].done
  /\ PoolFree(ProcOf[c])
  /\ call' = [call EXCEPT ![c].at = "unlocking", ![c].done = TRUE]
  /\ UNCHANGED <<queue, conn, shared, holder, backup, backups>>

(* lock_timeout, answered with 503 meeting_write_lock_timeout. *)
LockTimesOut(c) ==
  /\ \/ call[c].at = "sharing" /\ backup # "idle"
     \/ call[c].at = "locking" /\ holder[Key(c)] # None
  /\ call' = [call EXCEPT ![c].at = "releasing", ![c].result = "busy",
                          ![c].done = TRUE]
  /\ UNCHANGED <<queue, conn, shared, holder, backup, backups>>

(* connectionTimeoutMillis, of the section's connection or of a query's:   *)
(* the user or the tombstone may be looked up before the next section too. *)
ConnectTimesOut(c) ==
  /\ ~PoolFree(ProcOf[c])
  /\ \/ call[c].at = "queued" /\ First(c)
     \/ call[c].at = "running" /\ call[c].depth > 0 /\ ~call[c].done
  /\ call' = [call EXCEPT ![c].result = "error", ![c].done = TRUE,
                          ![c].at = IF @ = "queued" THEN "releasing" ELSE "unlocking"]
  /\ UNCHANGED <<queue, conn, shared, holder, backup, backups>>

(* A plausible error: the key is unlocked on success alone. *)
UnlockKeyOnSuccess(c) ==
  LET d == call[c].depth IN
  /\ call[c].at = "unlocking" /\ call[c].done
  /\ IF Reenters(c, d)
     THEN call' = [call EXCEPT ![c].depth = d - 1] /\ UNCHANGED holder
     ELSE /\ holder' = IF call[c].result = "ok" THEN [holder EXCEPT ![Key(c)] = None]
                       ELSE holder
          /\ Goes(c, "releasing")
  /\ UNCHANGED <<queue, conn, shared, backup, backups>>

UnlockKey(c) ==
  LET d == call[c].depth IN
  /\ call[c].at = "unlocking" /\ call[c].done
  /\ IF Reenters(c, d)
     THEN call' = [call EXCEPT ![c].depth = d - 1] /\ UNCHANGED holder
     ELSE /\ holder' = [holder EXCEPT ![Key(c)] = None]
          /\ Goes(c, "releasing")
  /\ UNCHANGED <<queue, conn, shared, backup, backups>>

(* A plausible error: only the key is unlocked before the release. *)
ReleaseSharing(c) ==
  LET d == call[c].depth  p == ProcOf[c] IN
  /\ call[c].at = "releasing"
  /\ conn' = conn \ {Section(c)}
  /\ queue' = [queue EXCEPT ![p][Key(c)] = Tail(@)]
  /\ call' = [call EXCEPT ![c].depth = d - 1,
                          ![c].at = IF d = 1 THEN "running" ELSE "unlocking"]
  /\ UNCHANGED <<shared, holder, backup, backups>>

(* The barrier's share and the connection are given back and the promise   *)
(* settles: the next in the queue runs, the enclosing section goes on.     *)
Release(c) ==
  LET d == call[c].depth  p == ProcOf[c] IN
  /\ call[c].at = "releasing"
  /\ shared' = shared \ {Section(c)}
  /\ conn' = conn \ {Section(c)}
  /\ queue' = [queue EXCEPT ![p][Key(c)] = Tail(@)]
  /\ call' = [call EXCEPT ![c].depth = d - 1,
                          ![c].at = IF d = 1 THEN "running" ELSE "unlocking"]
  /\ UNCHANGED <<holder, backup, backups>>

-----------------------------------------------------------------------------
(* scripts/production-backup.mjs.                                          *)

RequestBarrier ==
  /\ backup = "idle" /\ backups < MaxBackups
  /\ backup' = "waiting" /\ backups' = backups + 1
  /\ UNCHANGED <<call, queue, conn, shared, holder>>

TakeBarrier ==
  /\ backup = "waiting" /\ shared = {}
  /\ backup' = "holding"
  /\ UNCHANGED <<call, queue, conn, shared, holder, backups>>

(* The deadline of 120 s passes, or the copy is done. *)
LeaveBarrier ==
  /\ \/ backup = "waiting" /\ shared # {}
     \/ backup = "holding"
  /\ backup' = "idle"
  /\ UNCHANGED <<call, queue, conn, shared, holder, backups>>

-----------------------------------------------------------------------------
Advance(c) ==
  Enter(c) \/ Connect(c) \/ ShareBarrier(c) \/ TakeKey(c) \/ Operate(c)
    \/ UnlockKey(c) \/ Release(c)

TimesOut(c) == LockTimesOut(c) \/ ConnectTimesOut(c)

Next ==
  \/ \E c \in Calls : Advance(c) \/ TimesOut(c)
  \/ RequestBarrier \/ TakeBarrier \/ LeaveBarrier

Spec == Init /\ [][Next]_vars

(* Every wait but the one in the process's own queue has a timeout. *)
FairSpec ==
  /\ Spec
  /\ \A c \in Calls : WF_vars(Advance(c)) /\ WF_vars(TimesOut(c))

-----------------------------------------------------------------------------
(* Properties.                                                             *)

Over(c) == call[c].done /\ call[c].depth = 0
Waits(c) == call[c].at \in {"queued", "sharing", "locking"}

(* The sections a call is in, without the one it still waits for. *)
Inside(c) ==
  {KeyAt(c, d) : d \in 1..(IF Waits(c) \/ call[c].at = "releasing"
                           THEN call[c].depth - 1 ELSE call[c].depth)}

(* The order of pg_advisory_lock, queue and re-entry: no two calls, of     *)
(* whichever processes, are in sections of the same key.                   *)
SectionsExclude ==
  \A c, d \in Calls : Inside(c) \cap Inside(d) # {} => c = d

(* While the backup copies the database and the objects, no call is in any *)
(* section, at any depth.                                                  *)
BackupIsAlone == backup = "holding" => \A c \in Calls : Inside(c) = {}

(* A connection goes back to the pool without a lock, and a failed or      *)
(* finished call keeps its place in no queue.                              *)
NothingLeftBehind ==
  /\ \A c \in Calls : Over(c) =>
       /\ c \notin {holder[k] : k \in Keys}
       /\ \A s \in conn \cup shared : s[1] # c
       /\ \A p \in Procs, k \in Keys : \A s \in Range(queue[p][k]) : s[1] # c
  /\ \A k \in Keys : holder[k] # None => k \in Inside(holder[k])

(* When no call can go on without a timeout, a pool is exhausted or a      *)
(* backup stands between two sections of one call: the order in which the  *)
(* locks are taken never closes a circle by itself.                        *)
CanGoOn(c) ==
  CASE call[c].at = "queued" -> First(c) /\ PoolFree(ProcOf[c])
    [] call[c].at = "sharing" -> backup = "idle"
    [] call[c].at = "locking" -> holder[Key(c)] = None
    [] call[c].at = "running" /\ call[c].depth = Len(Sections(c)) -> PoolFree(ProcOf[c])
    [] OTHER -> TRUE

OrderIsSafe ==
  (\E c \in Calls : ~Over(c)) /\ (\A c \in Calls : Over(c) \/ ~CanGoOn(c))
    => backup # "idle" \/ \E p \in Procs : ~PoolFree(p)

(* Every call ends, served or refused, and so does every wait in a queue   *)
(* that has no timeout of its own.                                         *)
EveryCallEnds == <>[](\A c \in Calls : Over(c))
=============================================================================
