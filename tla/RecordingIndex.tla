-------------------------- MODULE RecordingIndex ---------------------------
(***************************************************************************)
(* The index of the recordings on a phone                                  *)
(* (apps/mobile/src/atomic-recording-index.ts): a list kept in four files, *)
(* so that a process that dies, or a file system that refuses or tears a   *)
(* file, between any two operations does not cost the user the recordings. *)
(*                                                                         *)
(* Operations of the store run one after the other; each reads the index   *)
(* and may then write it, once or twice.  An operation on one file is one  *)
(* step: removing and moving happen or do not, writing and copying may     *)
(* leave a torn file.  The lists are numbered in the order in which they   *)
(* are written.                                                            *)
(***************************************************************************)
EXTENDS Integers, FiniteSets

CONSTANTS
  MaxWrites,   \* bound: lists that are written
  MaxDamages   \* bound: files that are torn unnoticed, or not readable once

ASSUME IndexAssumption == MaxWrites \in Nat /\ MaxDamages \in Nat

VARIABLES
  file,      \* what is in each file: nothing, something torn, or a list
  at,        \* the next file operation
  task,      \* what the backup is refreshed for: a load, a recovery, a write
  from,      \* the file a recovery copies
  seen,      \* the list the last load returned, or the last write left
  begun,     \* the last list a write was begun with
  finished,  \* history: the last list whose write reported success
  damages

vars == <<file, at, task, from, seen, begun, finished, damages>>

Files == {"primary", "temporary", "backupTemporary", "backup"}
Absent == 0
Torn == -1
Lists == 1..MaxWrites

Refreshing == {"clearing", "copying", "checking", "dropping", "swapping"}
Restoring == {"removing", "restoring"}
Tidying == {"tidying", "tidyingBackup"}
Writing == {"emptying", "writing", "verifying", "replacing", "publishing", "confirming"}
Steps == {"idle", "reading", "loaded"} \cup Refreshing \cup Restoring \cup Tidying
           \cup Writing

TypeOK ==
  /\ file \in [Files -> {Torn, Absent} \cup Lists]
  /\ at \in Steps
  /\ task \in {"load", "recovery", "write"}
  /\ from \in Files
  /\ seen \in 0..MaxWrites /\ begun \in 0..MaxWrites /\ finished \in 0..begun
  /\ damages \in 0..MaxDamages

Init ==
  /\ file = [f \in Files |-> Absent]
  /\ at = "idle" /\ task = "load" /\ from = "backup"
  /\ seen = 0 /\ begun = 0 /\ finished = 0 /\ damages = 0

Intact(f) == file[f] \in Lists

-----------------------------------------------------------------------------
(* Operations on one file.                                                 *)

Goes(step) == at' = step
Keeps == UNCHANGED <<task, from, seen, begun, finished>>

Removes(step, f, next) ==
  /\ at = step
  /\ file' = [file EXCEPT ![f] = Absent]
  /\ Goes(next) /\ Keeps /\ UNCHANGED damages

Moves(step, f, g, next) ==
  /\ at = step
  /\ file[f] # Absent
  /\ file' = [file EXCEPT ![g] = file[f], ![f] = Absent]
  /\ Goes(next) /\ Keeps /\ UNCHANGED damages

(* What is written may be torn without an error. *)
Puts(step, f, contents, next) ==
  /\ at = step
  /\ contents # Absent
  /\ \/ /\ file' = [file EXCEPT ![f] = contents]
        /\ UNCHANGED damages
     \/ /\ damages < MaxDamages
        /\ file' = [file EXCEPT ![f] = Torn]
        /\ damages' = damages + 1
  /\ Goes(next) /\ Keeps

(* assertValidIndexFile, which throws otherwise. *)
Verifies(step, f, next) ==
  /\ at = step
  /\ Intact(f)
  /\ Goes(next) /\ Keeps /\ UNCHANGED <<file, damages>>

-----------------------------------------------------------------------------
(* Reading.                                                                *)

Begin ==
  /\ at = "idle"
  /\ Goes("reading") /\ Keeps /\ UNCHANGED <<file, damages>>

(* A file that cannot be read is taken for an invalid one. *)
Unread(blind) ==
  /\ damages + Cardinality(blind) =< MaxDamages
  /\ damages' = damages + Cardinality(blind)

Reads(f, blind) == f \notin blind /\ Intact(f)

ReadsPrimary(blind) ==
  /\ at = "reading" /\ Unread(blind)
  /\ Reads("primary", blind)
  /\ seen' = file["primary"]
  /\ task' = "load"
  /\ Goes("clearing")
  /\ UNCHANGED <<file, from, begun, finished>>

(* The newest of the other files that is valid. *)
Candidate(f, blind) ==
  /\ f # "primary" /\ Reads(f, blind)
  /\ f \in {"backupTemporary", "backup"} => ~Reads("temporary", blind)
  /\ f = "backup" => ~Reads("backupTemporary", blind)

(* Mutant: any of them. *)
ReadsAnyCandidate(blind) ==
  /\ at = "reading" /\ Unread(blind)
  /\ ~Reads("primary", blind)
  /\ \E f \in Files \ {"primary"} : Reads(f, blind) /\ seen' = file[f] /\ from' = f
  /\ task' = "recovery"
  /\ Goes("removing")
  /\ UNCHANGED <<file, begun, finished>>

ReadsCandidate(blind) ==
  /\ at = "reading" /\ Unread(blind)
  /\ ~Reads("primary", blind)
  /\ \E f \in Files : /\ Candidate(f, blind)
                      /\ seen' = file[f]
                      /\ from' = f
  /\ task' = "recovery"
  /\ Goes("removing")
  /\ UNCHANGED <<file, begun, finished>>

(* Without any file the index is empty, otherwise it is unrecoverable and *)
(* every operation stops there.                                           *)
ReadsNothing(blind) ==
  /\ at = "reading" /\ Unread(blind)
  /\ \A f \in Files : ~Reads(f, blind)
  /\ IF \A f \in Files : file[f] = Absent
       THEN seen' = 0 /\ Goes("loaded")
       ELSE Goes("idle") /\ UNCHANGED seen
  /\ UNCHANGED <<file, task, from, begun, finished>>

(* restorePrimary *)
RestoreRemoves == Removes("removing", "primary", "restoring")
RestoreCopies == Puts("restoring", "primary", file[from], "clearing")

(* refreshBackup *)
RefreshClears == Removes("clearing", "backupTemporary", "copying")
RefreshCopies == Puts("copying", "backupTemporary", file["primary"], "checking")
(* Mutant: the copy is not looked at. *)
RefreshUnverified ==
  at = "checking" /\ Goes("dropping") /\ Keeps /\ UNCHANGED <<file, damages>>

RefreshVerifies == Verifies("checking", "backupTemporary", "dropping")
RefreshDrops == Removes("dropping", "backup", "swapping")

RefreshMoves ==
  /\ at = "swapping" /\ file["backupTemporary"] # Absent
  /\ file' = [file EXCEPT !["backup"] = file["backupTemporary"],
                          !["backupTemporary"] = Absent]
  /\ IF task = "write" THEN Goes("loaded") /\ finished' = begun /\ seen' = begun
                       ELSE Goes("tidying") /\ UNCHANGED <<finished, seen>>
  /\ UNCHANGED <<task, from, begun, damages>>

(* removeQuietly: an error is ignored. *)
Tidies(step, f, next) ==
  /\ at = step
  /\ \/ file' = [file EXCEPT ![f] = Absent]
     \/ UNCHANGED file
  /\ Goes(next) /\ Keeps /\ UNCHANGED damages

TidiesTemporary ==
  Tidies("tidying", "temporary", IF task = "recovery" THEN "tidyingBackup" ELSE "loaded")
TidiesBackup == Tidies("tidyingBackup", "backupTemporary", "loaded")

-----------------------------------------------------------------------------
(* Writing what was loaded, or written a moment ago, with a change.        *)

WriteBegins ==
  /\ at = "loaded"
  /\ begun < MaxWrites
  /\ begun' = begun + 1
  /\ task' = "write"
  /\ Goes("emptying")
  /\ UNCHANGED <<file, from, seen, finished, damages>>

WriteRemoves == Removes("emptying", "temporary", "writing")
WritePuts == Puts("writing", "temporary", begun, "verifying")
WriteVerifies == Verifies("verifying", "temporary", "replacing")
WriteDrops == Removes("replacing", "primary", "publishing")
WriteMoves == Moves("publishing", "temporary", "primary", "confirming")
WriteConfirms == Verifies("confirming", "primary", "clearing")

(* An operation ends with its load, or with its first or second write. *)
Returns ==
  /\ at = "loaded"
  /\ Goes("idle") /\ Keeps /\ UNCHANGED <<file, damages>>

-----------------------------------------------------------------------------
(* What goes wrong.                                                        *)

(* The file an interrupted step may leave torn. *)
Target ==
  CASE at = "writing" -> {"temporary"}
    [] at = "restoring" -> {"primary"}
    [] at = "copying" -> {"backupTemporary"}
    [] OTHER -> {}

Interrupted == \/ UNCHANGED file
               \/ \E f \in Target : file' = [file EXCEPT ![f] = Torn]

(* A file operation fails, or a verification does not find a list.  A load *)
(* that found the primary goes on without its backup; the others throw.    *)
Fails ==
  /\ at \notin {"idle", "loaded"} \cup Tidying
  /\ Interrupted
  /\ Goes(IF task = "load" /\ at \in Refreshing THEN "tidying" ELSE "idle")
  /\ Keeps /\ UNCHANGED damages

(* The process dies. *)
Crash ==
  /\ at # "idle"
  /\ Interrupted
  /\ Goes("idle") /\ Keeps /\ UNCHANGED damages

(* A file that was written is found torn when the phone starts again. *)
Damage ==
  /\ at = "idle" /\ damages < MaxDamages
  /\ \E f \in Files : Intact(f) /\ file' = [file EXCEPT ![f] = Torn]
  /\ damages' = damages + 1
  /\ UNCHANGED at /\ Keeps

Next ==
  \/ Begin \/ Returns
  \/ \E blind \in SUBSET Files :
       ReadsPrimary(blind) \/ ReadsCandidate(blind) \/ ReadsNothing(blind)
  \/ RestoreRemoves \/ RestoreCopies
  \/ RefreshClears \/ RefreshCopies \/ RefreshVerifies \/ RefreshDrops \/ RefreshMoves
  \/ TidiesTemporary \/ TidiesBackup
  \/ WriteBegins \/ WriteRemoves \/ WritePuts \/ WriteVerifies \/ WriteDrops
  \/ WriteMoves \/ WriteConfirms
  \/ Fails \/ Crash \/ Damage

Spec == Init /\ [][Next]_vars

-----------------------------------------------------------------------------
(* The properties.                                                         *)

(* The list the next load returns, if every file can be read. *)
Recoverable ==
  IF Intact("primary") THEN file["primary"]
  ELSE IF \E f \in Files : Candidate(f, {})
         THEN file[CHOOSE f \in Files : Candidate(f, {})]
         ELSE 0

(* No step of a load or a write throws away the only copy of a list whose  *)
(* write reported success, though one file is torn, or not readable once,  *)
(* and wherever earlier operations stopped; and no load returns less.  Two *)
(* damages are too many: a list restored from the backup's copy loses that *)
(* copy before anyone sees that the restored one is torn.                  *)
NothingIsThrownAway ==
  [][Recoverable >= finished /\ damages =< 1 /\ damages' = damages =>
       /\ Recoverable' >= finished'
       /\ at' = "loaded" => seen' >= finished']_vars

(* Until a file is damaged the four files are one durable register: a      *)
(* write takes effect at once, on what was there, or not at all, and no    *)
(* load returns anything else; an interrupted write that a load showed     *)
(* stays.                                                                  *)
Register == INSTANCE DurableRegister WITH value <- Recoverable
ImplementsRegister ==
  Register!Init /\ [][damages' = 0 => [Register!Next]_(Register!register)]_vars
=============================================================================
