----------------------- MODULE RecordingIndexProofs ------------------------
(***************************************************************************)
(* The four files are one durable register, for any number of writes,      *)
(* whatever operation the process dies in or the file system refuses, as   *)
(* long as no file was damaged; and after one damage no list whose write   *)
(* reported success is given up.                                           *)
(***************************************************************************)
EXTENDS RecordingIndex, FiniteSetTheorems, TLAPS

primary == file["primary"]
temporary == file["temporary"]
backupTemporary == file["backupTemporary"]

Typed ==
  /\ file \in [Files -> {Torn, Absent} \cup Lists]
  /\ at \in Steps
  /\ task \in {"load", "recovery", "write"}
  /\ from \in Files
  /\ seen \in 0..MaxWrites /\ begun \in 0..MaxWrites /\ finished \in 0..begun
  /\ damages = 0

(* Only while nothing was ever written to the end is nothing intact; when  *)
(* the primary is away, the temporary file is what replaces it.            *)
SomethingIntact ==
  ~Intact("primary") /\ ~Intact("temporary") =>
    /\ \A f \in Files : ~Intact(f)
    /\ seen = 0 /\ finished = 0

Effect == IF Intact("primary") THEN primary ELSE IF Intact("temporary") THEN temporary ELSE 0

(* Where a load is: what it will return is what there is. *)
LoadFits ==
  /\ task # "write" /\ at \in Refreshing => Intact("primary") /\ seen = primary
  /\ at \in Restoring => from = "temporary" /\ Intact("temporary") /\ seen = temporary
  /\ at = "removing" => ~Intact("primary")
  /\ at = "restoring" => primary = Absent
  /\ at \in Tidying => Intact("primary") /\ seen = primary
  /\ at = "loaded" => /\ seen = Effect
                      /\ Intact("primary") \/ \A f \in Files : file[f] = Absent
  /\ at \in Restoring \cup Tidying => task # "write"
  /\ at \in {"checking", "dropping", "swapping"} => backupTemporary = primary

(* Where a write is: the new list is in the temporary file before the      *)
(* primary goes, and in the primary before the backup does.                *)
WriteFits ==
  /\ at \in Writing => task = "write"
  /\ at \in {"emptying", "writing"} =>
       /\ \A f \in Files : file[f] < begun
       /\ Intact("primary") \/ \A f \in Files : f # "temporary" => ~Intact(f)
  /\ at = "emptying" => Intact("primary") \/ ~Intact("temporary")
  /\ at = "writing" => temporary = Absent
  /\ at \in {"verifying", "replacing"} => temporary = begun /\ primary < begun
  /\ at = "publishing" => temporary = begun /\ primary = Absent
  /\ at = "confirming" \/ (task = "write" /\ at \in Refreshing) => primary = begun
  /\ at \in Writing \/ (task = "write" /\ at \in Refreshing) => begun > 0

NotAhead == \A f \in Files : file[f] =< begun

IInv == Typed /\ SomethingIntact /\ LoadFits /\ WriteFits /\ NotAhead

-----------------------------------------------------------------------------
LEMMA BlindFinite ==
  ASSUME NEW blind \in SUBSET Files
  PROVE  IsFiniteSet(blind) /\ Cardinality(blind) \in Nat
PROOF
  <1>1. \A x, y : IsFiniteSet({x}) /\ IsFiniteSet({x} \cup {y})
    BY FS_Singleton, FS_Union
  <1>2. IsFiniteSet({"primary"} \cup {"temporary"})
        /\ IsFiniteSet({"backupTemporary"} \cup {"backup"})
    BY <1>1
  <1>3. Files = ({"primary"} \cup {"temporary"}) \cup ({"backupTemporary"} \cup {"backup"})
    BY DEF Files
  <1> QED  BY <1>2, <1>3, FS_Union, FS_Subset, FS_CardinalityType

LEMMA NothingBlind ==
  ASSUME IInv, damages' = 0, NEW blind \in SUBSET Files, Unread(blind)
  PROVE  blind = {}
PROOF
  <1>1. IsFiniteSet(blind) /\ Cardinality(blind) \in Nat
    BY BlindFinite
  <1>2. Cardinality(blind) = 0
    BY <1>1 DEF Unread, IInv, Typed
  <1> QED  BY <1>1, <1>2, FS_EmptySet

LEMMA InitFits == Init => IInv
PROOF
  BY IndexAssumption DEF Init, IInv, Typed, SomethingIntact, LoadFits, WriteFits, NotAhead,
     Files, Lists, Steps, Intact, Torn, Absent, Refreshing, Restoring, Tidying, Writing, Effect,
     primary, temporary, backupTemporary

(* What the next load will return. *)
LEMMA WhatIsThere == Typed /\ SomethingIntact => Recoverable = Effect
PROOF
  <1> SUFFICES ASSUME Typed, SomethingIntact
               PROVE  Recoverable = Effect
    OBVIOUS
  <1>1. CASE Intact("primary")
    BY <1>1 DEF Recoverable, Effect, primary
  <1>2. CASE ~Intact("primary") /\ Intact("temporary")
    <2>1. \A f \in Files : Candidate(f, {}) <=> f = "temporary"
      BY <1>2 DEF Candidate, Reads, Files
    <2>2. (CHOOSE f \in Files : Candidate(f, {})) = "temporary"
      BY <2>1 DEF Files
    <2> QED  BY <1>2, <2>1, <2>2 DEF Recoverable, Effect, temporary, Files
  <1>3. CASE ~Intact("primary") /\ ~Intact("temporary")
    BY <1>3 DEF Recoverable, Effect, SomethingIntact, Candidate, Reads
  <1> QED  BY <1>1, <1>2, <1>3

-----------------------------------------------------------------------------
(* Every step keeps the invariant, and is one of the register or none.     *)

Good == IInv' /\ (\/ Recoverable' = Recoverable /\ UNCHANGED <<begun, finished, seen>>
                  \/ Register!Next)

LEMMA ReadSteps ==
  ASSUME IInv, damages' = 0,
         \/ Begin \/ Returns \/ WriteBegins
         \/ \E blind \in SUBSET Files :
              ReadsPrimary(blind) \/ ReadsCandidate(blind) \/ ReadsNothing(blind)
  PROVE  Good
PROOF
  <1> USE DEF Intact, Lists, Torn, Absent, Files, Keeps, Goes
  <1>1. Typed'
    <2>1. CASE Begin \/ Returns \/ WriteBegins
      BY <2>1, IndexAssumption DEF IInv, Typed, Begin, Returns, WriteBegins, Steps, Refreshing,
         Restoring, Tidying, Writing
    <2>2. ASSUME NEW blind \in SUBSET Files, Unread(blind),
                 ReadsPrimary(blind) \/ ReadsCandidate(blind) \/ ReadsNothing(blind)
          PROVE  Typed'
      <3>1. damages' = 0
        OBVIOUS
      <3>2. at' \in {"clearing", "removing", "loaded", "idle"}
        BY <2>2 DEF ReadsPrimary, ReadsCandidate, ReadsNothing
      <3>3. at' \in Steps
        BY <3>2 DEF Steps, Refreshing, Restoring
      <3>4. seen' \in 0..MaxWrites
        BY <2>2, IndexAssumption DEF IInv, Typed, ReadsPrimary, ReadsCandidate, ReadsNothing,
           Reads, Candidate
      <3>5. UNCHANGED <<file, begun, finished>> /\ from' \in Files
            /\ task' \in {"load", "recovery", "write"}
        BY <2>2 DEF IInv, Typed, ReadsPrimary, ReadsCandidate, ReadsNothing
      <3> QED  BY <3>1, <3>3, <3>4, <3>5 DEF IInv, Typed
    <2> QED  BY <2>1, <2>2 DEF ReadsPrimary, ReadsCandidate, ReadsNothing
  <1>2. UNCHANGED file
    BY DEF Begin, Returns, WriteBegins, ReadsPrimary, ReadsCandidate, ReadsNothing
  <1>3. SomethingIntact' /\ LoadFits' /\ WriteFits' /\ NotAhead'
    <2>1. CASE Begin \/ Returns
      BY <2>1, <1>1 DEF IInv, Typed, SomethingIntact, LoadFits, WriteFits, NotAhead, Begin, Returns,
         Refreshing, Restoring, Tidying, Writing, Effect, primary, temporary, backupTemporary
    <2>2. CASE WriteBegins
      BY <2>2, <1>1 DEF IInv, Typed, SomethingIntact, LoadFits, WriteFits, NotAhead, WriteBegins,
         Refreshing, Restoring, Tidying, Writing, Effect, primary, temporary, backupTemporary
    <2>3. ASSUME NEW blind \in SUBSET Files, Unread(blind),
                 ReadsPrimary(blind) \/ ReadsCandidate(blind) \/ ReadsNothing(blind)
          PROVE  SomethingIntact' /\ LoadFits' /\ WriteFits' /\ NotAhead'
      <3>1. blind = {}
        BY <2>3, NothingBlind
      <3> QED
        BY <3>1, <2>3, <1>1 DEF IInv, Typed, SomethingIntact, LoadFits, WriteFits, NotAhead, Reads,
           Candidate, ReadsPrimary, ReadsCandidate, ReadsNothing,
           Refreshing, Restoring, Tidying, Writing, Effect, primary, temporary, backupTemporary
    <2> QED  BY <2>1, <2>2, <2>3 DEF ReadsPrimary, ReadsCandidate, ReadsNothing
  <1>4. Recoverable = Effect /\ Recoverable' = Recoverable
    BY <1>2, WhatIsThere DEF IInv, Recoverable, Candidate, Reads
  <1>5. CASE Begin \/ Returns
    BY <1>1, <1>3, <1>4, <1>5 DEF Good, IInv, Begin, Returns
  <1>6. CASE WriteBegins
    BY <1>1, <1>3, <1>4, <1>6 DEF Good, IInv, LoadFits, WriteBegins, Register!Next, Register!Begin
  <1>7. ASSUME NEW blind \in SUBSET Files, Unread(blind),
               ReadsPrimary(blind) \/ ReadsCandidate(blind) \/ ReadsNothing(blind)
        PROVE  Good
    <2>1. blind = {}
      BY <1>7, NothingBlind
    <2>2. UNCHANGED <<begun, finished>> /\ (seen' = Effect \/ seen' = seen)
      BY <1>7, <2>1 DEF IInv, SomethingIntact, Effect, primary, temporary, ReadsPrimary,
         ReadsCandidate, ReadsNothing, Reads, Candidate
    <2> QED  BY <1>1, <1>3, <1>4, <2>2 DEF Good, IInv, Register!Next, Register!Load
  <1> QED  BY <1>5, <1>6, <1>7 DEF ReadsPrimary, ReadsCandidate, ReadsNothing

-----------------------------------------------------------------------------
(* What a step does to the register, once the invariant holds after it.    *)
LEMMA WhatWillBeThere == (Typed /\ SomethingIntact => Recoverable = Effect)'
PROOF BY WhatIsThere, PTL

LEMMA Stutters ==
  ASSUME IInv, IInv', Effect' = Effect, UNCHANGED <<begun, finished, seen>>
  PROVE  Good
PROOF
  <1>1. Recoverable = Effect
    BY WhatIsThere DEF IInv
  <1>2. Recoverable' = Effect'
    BY WhatWillBeThere DEF IInv
  <1> QED  BY <1>1, <1>2 DEF Good, IInv

(* The steps that touch one file, by the part of the operation they are in. *)
LEMMA RestoreSteps ==
  ASSUME IInv, damages' = 0, RestoreRemoves \/ RestoreCopies
  PROVE  Good
PROOF
  <1> USE DEF Intact, Lists, Torn, Absent, Files, Keeps, Goes, Refreshing, Restoring, Tidying,
              Writing, primary, temporary, backupTemporary, Effect
  <1>1. CASE RestoreRemoves
    <2>1. /\ at = "removing" /\ at' = "restoring" /\ damages' = 0
          /\ UNCHANGED <<task, from, seen, begun, finished>>
          /\ file' = [file EXCEPT !["primary"] = Absent]
      BY <1>1 DEF RestoreRemoves, Removes, IInv, Typed
    <2>2. Typed'
      BY <2>1 DEF IInv, Typed, Steps
    <2>3. ~Intact("primary") /\ Intact("temporary") /\ seen = temporary /\ from = "temporary"
          /\ task # "write"
      BY <2>1 DEF IInv, LoadFits
    <2>4. Effect' = Effect
      BY <2>1, <2>3 DEF IInv, Typed
    <2>5. SomethingIntact' /\ LoadFits' /\ WriteFits' /\ NotAhead'
      BY <2>1, <2>3 DEF IInv, Typed, SomethingIntact, LoadFits, WriteFits, NotAhead
    <2> QED  BY <2>1, <2>2, <2>4, <2>5, Stutters DEF IInv
  <1>2. CASE RestoreCopies
    <2>1. IInv' /\ Effect' = Effect /\ UNCHANGED <<begun, finished, seen>>
      BY <1>2, IndexAssumption DEF RestoreCopies, Puts, IInv, Typed, SomethingIntact, LoadFits,
         WriteFits, NotAhead, Steps
    <2> QED  BY <2>1, Stutters
  <1> QED  BY <1>1, <1>2

LEMMA RefreshSteps ==
  ASSUME IInv, damages' = 0,
         RefreshClears \/ RefreshCopies \/ RefreshVerifies \/ RefreshDrops
  PROVE  Good
PROOF
  <1> USE DEF Intact, Lists, Torn, Absent, Files, Keeps, Goes, Refreshing, Restoring, Tidying,
              Writing, primary, temporary, backupTemporary, Effect
  <1>1. CASE RefreshClears
    <2>1. IInv' /\ Effect' = Effect /\ UNCHANGED <<begun, finished, seen>>
      BY <1>1, IndexAssumption DEF RefreshClears, Removes, IInv, Typed, SomethingIntact, LoadFits,
         WriteFits, NotAhead, Steps
    <2> QED  BY <2>1, Stutters
  <1>2. CASE RefreshCopies
    <2>1. IInv' /\ Effect' = Effect /\ UNCHANGED <<begun, finished, seen>>
      BY <1>2, IndexAssumption DEF RefreshCopies, Puts, IInv, Typed, SomethingIntact, LoadFits,
         WriteFits, NotAhead, Steps
    <2> QED  BY <2>1, Stutters
  <1>3. CASE RefreshVerifies
    <2>1. IInv' /\ Effect' = Effect /\ UNCHANGED <<begun, finished, seen>>
      BY <1>3, IndexAssumption DEF RefreshVerifies, Verifies, IInv, Typed, SomethingIntact, LoadFits,
         WriteFits, NotAhead, Steps
    <2> QED  BY <2>1, Stutters
  <1>4. CASE RefreshDrops
    <2>1. IInv' /\ Effect' = Effect /\ UNCHANGED <<begun, finished, seen>>
      BY <1>4, IndexAssumption DEF RefreshDrops, Removes, IInv, Typed, SomethingIntact, LoadFits,
         WriteFits, NotAhead, Steps
    <2> QED  BY <2>1, Stutters
  <1> QED  BY <1>1, <1>2, <1>3, <1>4

LEMMA TidySteps ==
  ASSUME IInv, damages' = 0,
         TidiesTemporary \/ TidiesBackup
  PROVE  Good
PROOF
  <1> USE DEF Intact, Lists, Torn, Absent, Files, Keeps, Goes, Refreshing, Restoring, Tidying,
              Writing, primary, temporary, backupTemporary, Effect
  <1>1. CASE TidiesTemporary
    <2>1. IInv' /\ Effect' = Effect /\ UNCHANGED <<begun, finished, seen>>
      BY <1>1, IndexAssumption DEF TidiesTemporary, Tidies, IInv, Typed, SomethingIntact, LoadFits,
         WriteFits, NotAhead, Steps
    <2> QED  BY <2>1, Stutters
  <1>2. CASE TidiesBackup
    <2>1. IInv' /\ Effect' = Effect /\ UNCHANGED <<begun, finished, seen>>
      BY <1>2, IndexAssumption DEF TidiesBackup, Tidies, IInv, Typed, SomethingIntact, LoadFits,
         WriteFits, NotAhead, Steps
    <2> QED  BY <2>1, Stutters
  <1> QED  BY <1>1, <1>2

LEMMA WriteSteps ==
  ASSUME IInv, damages' = 0,
         WriteRemoves \/ WriteVerifies \/ WriteMoves \/ WriteConfirms
  PROVE  Good
PROOF
  <1> USE DEF Intact, Lists, Torn, Absent, Files, Keeps, Goes, Refreshing, Restoring, Tidying,
              Writing, primary, temporary, backupTemporary, Effect
  <1>1. CASE WriteRemoves
    <2>1. IInv' /\ Effect' = Effect /\ UNCHANGED <<begun, finished, seen>>
      BY <1>1, IndexAssumption DEF WriteRemoves, Removes, IInv, Typed, SomethingIntact, LoadFits,
         WriteFits, NotAhead, Steps
    <2> QED  BY <2>1, Stutters
  <1>2. CASE WriteVerifies
    <2>1. IInv' /\ Effect' = Effect /\ UNCHANGED <<begun, finished, seen>>
      BY <1>2, IndexAssumption DEF WriteVerifies, Verifies, IInv, Typed, SomethingIntact, LoadFits,
         WriteFits, NotAhead, Steps
    <2> QED  BY <2>1, Stutters
  <1>3. CASE WriteMoves
    <2>1. IInv' /\ Effect' = Effect /\ UNCHANGED <<begun, finished, seen>>
      BY <1>3, IndexAssumption DEF WriteMoves, Moves, IInv, Typed, SomethingIntact, LoadFits,
         WriteFits, NotAhead, Steps
    <2> QED  BY <2>1, Stutters
  <1>4. CASE WriteConfirms
    <2>1. IInv' /\ Effect' = Effect /\ UNCHANGED <<begun, finished, seen>>
      BY <1>4, IndexAssumption DEF WriteConfirms, Verifies, IInv, Typed, SomethingIntact, LoadFits,
         WriteFits, NotAhead, Steps
    <2> QED  BY <2>1, Stutters
  <1> QED  BY <1>1, <1>2, <1>3, <1>4

(* The steps in which a write takes effect, or finishes. *)
LEMMA WritePutsFits ==
  ASSUME IInv, damages' = 0, WritePuts
  PROVE  Good
PROOF
  <1> USE DEF Intact, Lists, Torn, Absent, Files, Keeps, Goes, Refreshing, Restoring, Tidying,
              Writing, primary, temporary, backupTemporary, Effect
  <1>1. IInv' /\ UNCHANGED <<begun, finished, seen>>
    BY IndexAssumption DEF WritePuts, Puts, IInv, Typed, SomethingIntact, LoadFits, WriteFits,
       NotAhead, Steps
  <1>2. Effect' = Effect \/ (Effect < begun /\ Effect' = begun)
    BY IndexAssumption DEF WritePuts, Puts, IInv, Typed, SomethingIntact, WriteFits
  <1>3. Recoverable = Effect /\ Recoverable' = Effect'
    BY <1>1, WhatIsThere, WhatWillBeThere DEF IInv
  <1> QED  BY <1>1, <1>2, <1>3 DEF Good, Register!Next, Register!TakeEffect

LEMMA WriteDropsFits ==
  ASSUME IInv, damages' = 0, WriteDrops
  PROVE  Good
PROOF
  <1> USE DEF Intact, Lists, Torn, Absent, Files, Keeps, Goes, Refreshing, Restoring, Tidying,
              Writing, primary, temporary, backupTemporary, Effect
  <1>1. IInv' /\ UNCHANGED <<begun, finished, seen>>
    BY IndexAssumption DEF WriteDrops, Removes, IInv, Typed, SomethingIntact, LoadFits, WriteFits,
       NotAhead, Steps
  <1>2. Effect' = Effect \/ (Effect < begun /\ Effect' = begun)
    BY IndexAssumption DEF WriteDrops, Removes, IInv, Typed, SomethingIntact, WriteFits
  <1>3. Recoverable = Effect /\ Recoverable' = Effect'
    BY <1>1, WhatIsThere, WhatWillBeThere DEF IInv
  <1> QED  BY <1>1, <1>2, <1>3 DEF Good, Register!Next, Register!TakeEffect

LEMMA RefreshMovesFits ==
  ASSUME IInv, damages' = 0, RefreshMoves
  PROVE  Good
PROOF
  <1> USE DEF Intact, Lists, Torn, Absent, Files, Keeps, Goes, Refreshing, Restoring, Tidying,
              Writing, primary, temporary, backupTemporary, Effect
  <1>1. IInv' /\ UNCHANGED begun
    BY IndexAssumption DEF RefreshMoves, IInv, Typed, SomethingIntact, LoadFits, WriteFits,
       NotAhead, Steps
  <1>2. Effect' = Effect
    BY DEF RefreshMoves, IInv, Typed
  <1>3. \/ UNCHANGED <<finished, seen>>
        \/ Effect = begun /\ finished' = begun /\ seen' = begun
    <2>1. CASE task # "write"
      BY <2>1 DEF RefreshMoves
    <2>2. CASE task = "write"
      <3>1. primary = begun
        BY <2>2 DEF RefreshMoves, IInv, WriteFits
      <3>2. finished' = begun /\ seen' = begun
        BY <2>2 DEF RefreshMoves
      <3>3. begun \in Lists
        BY <2>2, IndexAssumption DEF IInv, Typed, RefreshMoves, WriteFits
      <3>4. Effect = begun
        BY <3>1, <3>3 DEF IInv, Typed, SomethingIntact
      <3> QED  BY <3>2, <3>4
    <2> QED  BY <2>1, <2>2
  <1>4. Recoverable = Effect /\ Recoverable' = Effect'
    BY <1>1, WhatIsThere, WhatWillBeThere DEF IInv
  <1> QED  BY <1>1, <1>2, <1>3, <1>4 DEF Good, Register!Next, Register!Finish

(* A step that is interrupted tears only a file nothing depends on. *)
LEMMA InterruptedFits ==
  ASSUME IInv, damages' = 0, Fails \/ Crash
  PROVE  Good
PROOF
  <1> USE DEF Intact, Lists, Torn, Absent, Files, Keeps, Goes, Refreshing, Restoring, Tidying,
              Writing, primary, temporary, backupTemporary, Effect
  <1>1. UNCHANGED <<task, from, seen, begun, finished, damages>>
        /\ (at' = "idle" \/ (at' = "tidying" /\ task = "load" /\ at \in Refreshing))
    BY DEF Fails, Crash
  <1>2. \/ UNCHANGED file
        \/ at = "writing" /\ file' = [file EXCEPT !["temporary"] = Torn]
        \/ at = "restoring" /\ file' = [file EXCEPT !["primary"] = Torn]
        \/ at = "copying" /\ file' = [file EXCEPT !["backupTemporary"] = Torn]
    BY DEF Fails, Crash, Interrupted, Target
  <1>3. Typed'
    BY <1>1, <1>2 DEF IInv, Typed, Steps
  <1>4. Effect' = Effect
    BY <1>2 DEF IInv, Typed, WriteFits, LoadFits
  <1>5. SomethingIntact' /\ NotAhead'
    BY <1>1, <1>2 DEF IInv, Typed, SomethingIntact, WriteFits, LoadFits, NotAhead
  <1>6. LoadFits' /\ WriteFits'
    BY <1>1, <1>2, <1>3 DEF IInv, Typed, WriteFits, LoadFits
  <1> QED  BY <1>1, <1>3, <1>4, <1>5, <1>6, Stutters DEF IInv

LEMMA StepFits ==
  ASSUME IInv, damages' = 0, [Next]_vars
  PROVE  Good
PROOF
  <1>1. ~Damage
    BY DEF Damage, IInv, Typed
  <1>2. ASSUME UNCHANGED vars
        PROVE  Good
    <2>1. IInv'
      BY <1>2 DEF vars, IInv, Typed, SomethingIntact, LoadFits, WriteFits, NotAhead, Effect, Intact,
         primary, temporary, backupTemporary
    <2>2. Effect' = Effect /\ UNCHANGED <<begun, finished, seen>>
      BY <1>2 DEF vars, Effect, Intact, primary, temporary
    <2> QED  BY <2>1, <2>2, Stutters
  <1> QED
    BY <1>1, <1>2, ReadSteps, RestoreSteps, RefreshSteps, TidySteps, WriteSteps, WritePutsFits,
       WriteDropsFits, RefreshMovesFits, InterruptedFits DEF Next

(* Damage with the types: nothing but a fault changes the count.           *)
LEMMA TypeStep == TypeOK /\ [Next]_vars => TypeOK' /\ damages =< damages'
PROOF
  <1> SUFFICES ASSUME TypeOK, [Next]_vars
               PROVE  TypeOK' /\ damages =< damages'
    OBVIOUS
  <1> USE IndexAssumption DEF TypeOK, Intact, Lists, Torn, Absent, Keeps, Goes
  <1>1. ASSUME NEW blind \in SUBSET Files, Unread(blind)
        PROVE  damages' \in 0..MaxDamages /\ damages =< damages'
    BY <1>1, BlindFinite DEF Unread
  <1>2. ASSUME NEW blind \in SUBSET Files,
               ReadsPrimary(blind) \/ ReadsCandidate(blind) \/ ReadsNothing(blind)
        PROVE  TypeOK' /\ damages =< damages'
    <2>1. at' \in {"clearing", "removing", "loaded", "idle"}
      BY <1>2 DEF ReadsPrimary, ReadsCandidate, ReadsNothing
    <2>2. at' \in Steps
      BY <2>1 DEF Steps, Refreshing, Restoring
    <2>3. seen' \in 0..MaxWrites
      BY <1>2 DEF ReadsPrimary, ReadsCandidate, ReadsNothing, Reads, Candidate, Files
    <2>4. UNCHANGED <<file, begun, finished>> /\ from' \in Files
          /\ task' \in {"load", "recovery", "write"}
      BY <1>2 DEF ReadsPrimary, ReadsCandidate, ReadsNothing
    <2> QED
      BY <1>1, <1>2, <2>2, <2>3, <2>4 DEF ReadsPrimary, ReadsCandidate, ReadsNothing
  <1>3. CASE Begin \/ Returns \/ WriteBegins
    BY <1>3 DEF Begin, Returns, WriteBegins, Steps, Writing
  <1>4. CASE RestoreRemoves \/ RestoreCopies
    BY <1>4 DEF RestoreRemoves, RestoreCopies, Removes, Puts, Steps, Restoring, Refreshing, Files
  <1>5. CASE RefreshClears \/ RefreshCopies \/ RefreshVerifies \/ RefreshDrops
    BY <1>5 DEF RefreshClears, RefreshCopies, RefreshVerifies, RefreshDrops, Removes, Puts,
       Verifies, Steps, Refreshing, Files
  <1>6. CASE RefreshMoves
    BY <1>6 DEF RefreshMoves, Steps, Tidying, Files
  <1>7. CASE TidiesTemporary \/ TidiesBackup
    BY <1>7 DEF TidiesTemporary, TidiesBackup, Tidies, Steps, Tidying, Files
  <1>8. CASE WriteRemoves \/ WritePuts \/ WriteVerifies
    BY <1>8 DEF WriteRemoves, WritePuts, WriteVerifies, Removes, Puts, Verifies, Steps, Writing,
       Files
  <1>9. CASE WriteDrops \/ WriteMoves \/ WriteConfirms
    BY <1>9 DEF WriteDrops, WriteMoves, WriteConfirms, Removes, Moves, Verifies, Steps, Writing,
       Refreshing, Files
  <1>10. CASE Fails \/ Crash
    <2>1. at' \in Steps
      BY <1>10 DEF Fails, Crash, Steps, Tidying
    <2>2. file' \in [Files -> {Torn, Absent} \cup Lists]
      BY <1>10 DEF Fails, Crash, Interrupted, Target, Files
    <2> QED  BY <1>10, <2>1, <2>2 DEF Fails, Crash
  <1>11. CASE Damage
    BY <1>11 DEF Damage
  <1>12. CASE UNCHANGED vars
    BY <1>12 DEF vars
  <1> QED
    BY <1>2, <1>3, <1>4, <1>5, <1>6, <1>7, <1>8, <1>9, <1>10, <1>11, <1>12 DEF Next

(* Whatever is damaged, the files, the records that were loaded and the    *)
(* operation's place keep their types; faults are counted and bounded.     *)
THEOREM TypeCorrect == Spec => []TypeOK
PROOF
  <1>1. Init => TypeOK
    BY IndexAssumption DEF Init, TypeOK, Files, Lists, Steps
  <1> QED  BY <1>1, TypeStep, PTL DEF Spec

(* While no file is damaged, what a load returns is in the primary, or in  *)
(* the temporary file that replaces it.                                    *)
THEOREM InvariantHolds == Spec => [](damages = 0 => IInv)
PROOF
  <1>1. Init => (damages = 0 => IInv)
    BY InitFits
  <1>2. TypeOK /\ (damages = 0 => IInv) /\ [Next]_vars => (damages = 0 => IInv)'
    <2> SUFFICES ASSUME TypeOK, damages = 0 => IInv, [Next]_vars, damages' = 0
                 PROVE  IInv'
      OBVIOUS
    <2>1. damages = 0
      BY TypeStep, IndexAssumption DEF TypeOK
    <2> QED  BY <2>1, StepFits DEF Good
  <1> QED  BY <1>1, <1>2, TypeCorrect, PTL DEF Spec

(* Until a file is damaged the four files implement one durable register:  *)
(* a write takes effect once or never, a finished one stays, and a load    *)
(* returns what took effect last, wherever the process dies.               *)
THEOREM IsARegister == Spec => ImplementsRegister
PROOF
  <1>1. Init => Register!Init
    <2>1. Init => Recoverable = 0
      BY DEF Init, Recoverable, Candidate, Reads, Intact, Lists, Absent, Files
    <2> QED  BY <2>1 DEF Init, Register!Init
  <1>2. TypeOK /\ (damages = 0 => IInv) /\ [Next]_vars =>
          [damages' = 0 => [Register!Next]_(Register!register)]_vars
    <2> SUFFICES ASSUME TypeOK, damages = 0 => IInv, [Next]_vars, damages' = 0
                 PROVE  [Register!Next]_(Register!register)
      OBVIOUS
    <2>1. damages = 0
      BY TypeStep, IndexAssumption DEF TypeOK
    <2> QED  BY <2>1, StepFits DEF Good, Register!register
  <1> QED  BY <1>1, <1>2, TypeCorrect, InvariantHolds, PTL DEF Spec, ImplementsRegister

-----------------------------------------------------------------------------
(* One damage.  No file holds an older list than the last one written to   *)
(* the end, so that list is lost only with the last intact file.           *)

NotOlder == \A f \in Files : Intact(f) => finished =< file[f]

(* Where a load is, whatever is damaged: what it takes away has another    *)
(* copy, unless the list was restored from the backup's copy, which only   *)
(* happens after a damage, and is itself torn.                             *)
LoadSafe ==
  /\ at \in Refreshing /\ task = "load" => Intact("primary")
  /\ at \in Restoring => /\ from # "primary" /\ Intact(from) /\ task = "recovery"
                         /\ from = "backupTemporary" => damages > 0
  /\ at = "restoring" => primary = Absent
  /\ at = "clearing" /\ task = "recovery" =>
       \/ Intact("primary")
       \/ from \in {"temporary", "backup"} /\ Intact(from)
       \/ damages > 1
  /\ at = "copying" => backupTemporary = Absent
  /\ at = "checking" => backupTemporary \in {primary, Torn}
  /\ at \in {"dropping", "swapping"} => Intact("primary") /\ backupTemporary = primary
  /\ at \in Tidying => Intact("primary") /\ task # "write"
  /\ at \in Restoring \cup Refreshing \cup Tidying /\ task # "write" => finished =< seen

WriteSafe ==
  /\ at \in Writing => task = "write"
  /\ at \in {"loaded", "emptying"} => Intact("primary") \/ \A f \in Files : ~Intact(f)
  /\ at = "writing" => temporary = Absent
  /\ at = "verifying" => temporary \in {begun, Torn}
  /\ at \in {"replacing", "publishing"} => temporary = begun
  /\ at = "confirming" \/ (task = "write" /\ at \in Refreshing) =>
       primary = begun /\ temporary = Absent
  /\ at \in Writing \/ (task = "write" /\ at \in Refreshing) => begun > 0

KInv == NotOlder /\ LoadSafe /\ WriteSafe

Kept == finished = 0 \/ \E f \in Files : Intact(f)

(* A list that was written is lost when no file is intact. *)
LEMMA LostWithTheLast ==
  ASSUME TypeOK, NotOlder
  PROVE  Recoverable >= finished <=> Kept
PROOF
  <1>1. CASE Intact("primary")
    BY <1>1, IndexAssumption DEF Recoverable, NotOlder, Files, TypeOK, Lists, Intact, Kept
  <1>2. CASE ~Intact("primary") /\ \E f \in Files : Intact(f)
    <2>1. \E f \in Files : Candidate(f, {})
      BY <1>2 DEF Candidate, Reads, Files
    <2>2. PICK g \in Files : g = CHOOSE f \in Files : Candidate(f, {})
      BY <2>1
    <2>3. Candidate(g, {})
      BY <2>1, <2>2
    <2>4. Intact(g) /\ Recoverable = file[g]
      BY <1>2, <2>1, <2>2, <2>3 DEF Candidate, Reads, Recoverable
    <2>5. finished =< file[g] /\ file[g] \in Nat /\ finished \in Nat
      BY <2>4, IndexAssumption DEF NotOlder, Intact, Lists, TypeOK
    <2> QED  BY <1>2, <2>4, <2>5 DEF Kept
  <1>3. CASE \A f \in Files : ~Intact(f)
    <2>1. Recoverable = 0
      BY <1>3 DEF Recoverable, Candidate, Reads, Files
    <2>2. finished \in Nat
      BY IndexAssumption DEF TypeOK
    <2> QED  BY <1>3, <2>1, <2>2 DEF Kept
  <1> QED  BY <1>1, <1>2, <1>3

(* What a step does to the invariant and to what is kept. *)
Safe ==
  /\ KInv'
  /\ damages =< 1 /\ damages' = damages /\ Kept
       => Kept' /\ (at' = "loaded" => finished' =< seen')

LEMMA SafeReads ==
  ASSUME TypeOK, damages = 0 => IInv, KInv,
         \/ Begin \/ Returns \/ WriteBegins
         \/ \E blind \in SUBSET Files :
              ReadsPrimary(blind) \/ ReadsCandidate(blind) \/ ReadsNothing(blind)
  PROVE  Safe
PROOF
  <1> USE IndexAssumption DEF TypeOK, KInv, NotOlder, LoadSafe, WriteSafe, Kept, Safe, Intact,
          Lists, Torn, Absent, Refreshing, Restoring, Tidying, Writing, Keeps, Goes,
          primary, temporary, backupTemporary
  <1>1. CASE Begin \/ Returns
    BY <1>1 DEF Begin, Returns
  <1>2. CASE WriteBegins
    BY <1>2 DEF WriteBegins
  <1>3. ASSUME NEW blind \in SUBSET Files, ReadsPrimary(blind) PROVE Safe
    BY <1>3 DEF ReadsPrimary, Reads, Files
  <1>4. ASSUME NEW blind \in SUBSET Files, ReadsCandidate(blind) PROVE Safe
    <2>1. PICK f \in Files : Candidate(f, blind) /\ seen' = file[f] /\ from' = f
      BY <1>4 DEF ReadsCandidate
    <2>2. f # "primary" /\ Intact(f)
      BY <2>1 DEF Candidate, Reads
    <2>3. f = "backupTemporary" => damages' > 0
      <3>1. damages' \in Nat
        BY <1>4, BlindFinite DEF ReadsCandidate, Unread
      <3>2. ASSUME f = "backupTemporary", damages' = 0 PROVE FALSE
        <4>1. damages = 0 /\ IInv
          BY <1>4, <3>2, BlindFinite DEF ReadsCandidate, Unread
        <4>2. blind = {}
          BY <1>4, <3>2, <4>1, NothingBlind DEF ReadsCandidate
        <4>3. ~Intact("primary") /\ ~Intact("temporary")
          BY <1>4, <2>1, <3>2, <4>2 DEF ReadsCandidate, Candidate, Reads
        <4> QED  BY <2>2, <4>1, <4>3 DEF IInv, SomethingIntact
      <3> QED  BY <3>1, <3>2
    <2>4. /\ at = "reading" /\ at' = "removing" /\ task' = "recovery"
          /\ UNCHANGED <<file, begun, finished>>
      BY <1>4 DEF ReadsCandidate
    <2> QED  BY <2>1, <2>2, <2>3, <2>4
  <1>5. ASSUME NEW blind \in SUBSET Files, ReadsNothing(blind) PROVE Safe
    BY <1>5 DEF ReadsNothing, Files
  <1> QED  BY <1>1, <1>2, <1>3, <1>4, <1>5

LEMMA SafeRestores ==
  ASSUME TypeOK, KInv, RestoreRemoves \/ RestoreCopies
  PROVE  Safe
PROOF
  <1> USE IndexAssumption DEF TypeOK, KInv, NotOlder, LoadSafe, WriteSafe, Kept, Safe, Intact,
          Lists, Torn, Absent, Refreshing, Restoring, Tidying, Writing, Keeps, Goes,
          primary, temporary, backupTemporary, Files
  <1>1. CASE RestoreRemoves
    BY <1>1 DEF RestoreRemoves, Removes
  <1>2. CASE RestoreCopies
    BY <1>2 DEF RestoreCopies, Puts
  <1> QED  BY <1>1, <1>2

LEMMA SafeRefreshes ==
  ASSUME TypeOK, KInv,
         RefreshClears \/ RefreshCopies \/ RefreshVerifies \/ RefreshDrops \/ RefreshMoves
  PROVE  Safe
PROOF
  <1> USE IndexAssumption DEF TypeOK, KInv, NotOlder, LoadSafe, WriteSafe, Kept, Safe, Intact,
          Lists, Torn, Absent, Refreshing, Restoring, Tidying, Writing, Keeps, Goes,
          primary, temporary, backupTemporary, Files
  <1>1. CASE RefreshClears
    BY <1>1 DEF RefreshClears, Removes
  <1>2. CASE RefreshCopies
    BY <1>2 DEF RefreshCopies, Puts
  <1>3. CASE RefreshVerifies
    BY <1>3 DEF RefreshVerifies, Verifies
  <1>4. CASE RefreshDrops
    BY <1>4 DEF RefreshDrops, Removes
  <1>5. CASE RefreshMoves
    BY <1>5 DEF RefreshMoves
  <1> QED  BY <1>1, <1>2, <1>3, <1>4, <1>5

LEMMA SafeTidies ==
  ASSUME TypeOK, KInv, TidiesTemporary \/ TidiesBackup
  PROVE  Safe
PROOF
  <1> USE IndexAssumption DEF TypeOK, KInv, NotOlder, LoadSafe, WriteSafe, Kept, Safe, Intact,
          Lists, Torn, Absent, Refreshing, Restoring, Tidying, Writing, Keeps, Goes,
          primary, temporary, backupTemporary, Files
  <1>1. CASE TidiesTemporary
    BY <1>1 DEF TidiesTemporary, Tidies
  <1>2. CASE TidiesBackup
    BY <1>2 DEF TidiesBackup, Tidies
  <1> QED  BY <1>1, <1>2

LEMMA SafeWrites ==
  ASSUME TypeOK, KInv,
         \/ WriteRemoves \/ WritePuts \/ WriteVerifies
         \/ WriteDrops \/ WriteMoves \/ WriteConfirms
  PROVE  Safe
PROOF
  <1> USE IndexAssumption DEF TypeOK, KInv, NotOlder, LoadSafe, WriteSafe, Kept, Safe, Intact,
          Lists, Torn, Absent, Refreshing, Restoring, Tidying, Writing, Keeps, Goes,
          primary, temporary, backupTemporary, Files
  <1>1. CASE WriteRemoves
    BY <1>1 DEF WriteRemoves, Removes
  <1>2. CASE WritePuts
    BY <1>2 DEF WritePuts, Puts
  <1>3. CASE WriteVerifies
    BY <1>3 DEF WriteVerifies, Verifies
  <1>4. CASE WriteDrops
    BY <1>4 DEF WriteDrops, Removes
  <1>5. CASE WriteMoves
    BY <1>5 DEF WriteMoves, Moves
  <1>6. CASE WriteConfirms
    BY <1>6 DEF WriteConfirms, Verifies
  <1> QED  BY <1>1, <1>2, <1>3, <1>4, <1>5, <1>6

LEMMA SafeFaults ==
  ASSUME TypeOK, KInv, Fails \/ Crash \/ Damage
  PROVE  Safe
PROOF
  <1> USE IndexAssumption DEF TypeOK, KInv, NotOlder, LoadSafe, WriteSafe, Kept, Safe, Intact,
          Lists, Torn, Absent, Refreshing, Restoring, Tidying, Writing, Keeps, Goes,
          primary, temporary, backupTemporary, Files
  <1>1. CASE Fails
    BY <1>1 DEF Fails, Interrupted, Target
  <1>2. CASE Crash
    BY <1>2 DEF Crash, Interrupted, Target
  <1>3. CASE Damage
    BY <1>3 DEF Damage
  <1> QED  BY <1>1, <1>2, <1>3

LEMMA SafeStep ==
  ASSUME TypeOK, damages = 0 => IInv, KInv, Next
  PROVE  Safe
PROOF
  BY SafeReads, SafeRestores, SafeRefreshes, SafeTidies, SafeWrites, SafeFaults DEF Next

(* Whatever one damage did, and wherever operations stopped, no further    *)
(* step takes the last copy of a list whose write reported success, and no *)
(* load returns less (restorePrimary, refreshBackup, writeAtomicArrayIndex *)
(* and removeQuietly).                                                     *)
THEOREM NothingLost == Spec => NothingIsThrownAway
PROOF
  <1> DEFINE Step == Recoverable >= finished /\ damages =< 1 /\ damages' = damages =>
                       /\ Recoverable' >= finished'
                       /\ at' = "loaded" => seen' >= finished'
  <1>1. Init => KInv
    BY DEF Init, KInv, NotOlder, LoadSafe, WriteSafe, Intact, Lists, Absent, Refreshing,
       Restoring, Tidying, Writing, primary, temporary, backupTemporary, Files
  <1>2. TypeOK /\ (damages = 0 => IInv) /\ KInv /\ [Next]_vars => KInv'
    <2>1. UNCHANGED vars /\ KInv => KInv'
      BY DEF vars, KInv, NotOlder, LoadSafe, WriteSafe, Intact, primary, temporary,
         backupTemporary
    <2> QED  BY <2>1, SafeStep DEF Safe
  <1>3. Spec => [](TypeOK /\ (damages = 0 => IInv) /\ KInv)
    BY <1>1, <1>2, TypeCorrect, InvariantHolds, PTL DEF Spec
  <1>4. (TypeOK /\ NotOlder => (Recoverable >= finished <=> Kept))'
    BY LostWithTheLast, PTL
  <1>5. TypeOK /\ (damages = 0 => IInv) /\ KInv /\ [Next]_vars => [Step]_vars
    <2> SUFFICES ASSUME TypeOK, damages = 0 => IInv, KInv, Next,
                        Recoverable >= finished, damages =< 1, damages' = damages
                 PROVE  /\ Recoverable' >= finished'
                        /\ at' = "loaded" => seen' >= finished'
      OBVIOUS
    <2>1. Safe /\ TypeOK'
      BY SafeStep, TypeStep
    <2>2. Kept
      BY LostWithTheLast DEF KInv
    <2>3. Kept' /\ (at' = "loaded" => finished' =< seen') /\ NotOlder'
      BY <2>1, <2>2 DEF Safe, KInv
    <2>4. finished' \in Nat /\ seen' \in Nat
      BY <2>1, IndexAssumption DEF TypeOK
    <2> QED  BY <1>4, <2>1, <2>3, <2>4
  <1> HIDE DEF Step
  <1> QED  BY <1>3, <1>5, PTL DEF Spec, NothingIsThrownAway, Step

=============================================================================
