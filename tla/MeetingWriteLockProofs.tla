----------------------- MODULE MeetingWriteLockProofs -----------------------
(***************************************************************************)
(* Theorems about the write coordinator, for any number of processes,      *)
(* calls, keys and pooled connections.                                     *)
(***************************************************************************)
EXTENDS MeetingWriteLock, SequenceTheorems, FiniteSetTheorems, TLAPS

-----------------------------------------------------------------------------
(* The inductive invariant.                                                *)

(* How deep a call's sections nest. *)
Nesting(c) == Len(Sections(c))

(* Of a call's sections, how many it is in. *)
DepthInside(c) ==
  IF Waits(c) \/ call[c].at = "releasing" THEN call[c].depth - 1 ELSE call[c].depth

DepthFits(c) ==
  /\ call[c].depth =< Nesting(c)
  /\ call[c].at # "running" => call[c].depth > 0
  /\ call[c].at \in {"queued", "sharing", "locking", "releasing"}
       => ~Reenters(c, call[c].depth)
  /\ call[c].at \in {"unlocking", "releasing"} <=> call[c].done /\ call[c].depth > 0
  /\ call[c].done => ~Waits(c)

DepthsFit == \A c \in Calls : DepthFits(c)

(* A call holds the key of every section it is in, and a share of the      *)
(* barrier for each that it did not merely enter again.                    *)
KeysHeld ==
  \A c \in Calls : \A e \in 1..DepthInside(c) :
    /\ holder[KeyAt(c, e)] = c
    /\ ~Reenters(c, e) => <<c, e>> \in shared

HoldersInside ==
  \A c \in Calls, k \in Keys :
    holder[k] = c => \E e \in 1..DepthInside(c) : KeyAt(c, e) = k

ConnectionsUsed ==
  /\ \A c \in Calls :
       /\ call[c].at = "sharing" => Section(c) \in conn
       /\ call[c].at = "locking" => Section(c) \in shared
  /\ \A c \in Calls, e \in Depths :
       <<c, e>> \in conn => e =< call[c].depth /\ ~Reenters(c, e)

(* Every section a call waits for or holds has its place in the queue of   *)
(* its process, the first one unless it still waits there.                 *)
PlaceKept(c, e) ==
  LET q == queue[ProcOf[c]][KeyAt(c, e)] IN
  /\ \E i \in 1..Len(q) : q[i] = <<c, e>>
  /\ e < call[c].depth \/ call[c].at # "queued" => q[1] = <<c, e>>

PlacesKept ==
  \A c \in Calls : \A e \in 1..call[c].depth : ~Reenters(c, e) => PlaceKept(c, e)

QueueClean(p, k) ==
  LET q == queue[p][k] IN
  /\ \A i \in 1..Len(q), c \in Calls, e \in Depths :
       q[i] = <<c, e>> =>
         /\ ProcOf[c] = p /\ KeyAt(c, e) = k
         /\ e =< call[c].depth /\ ~Reenters(c, e)
  /\ \A i, j \in 1..Len(q) : q[i] = q[j] => i = j

QueuesClean == \A p \in Procs, k \in Keys : QueueClean(p, k)

BarrierAlone == backup = "holding" => shared = {}

IInv ==
  StateTyped /\ DepthsFit /\ KeysHeld /\ HoldersInside /\ ConnectionsUsed
    /\ PlacesKept /\ QueuesClean /\ BarrierAlone

-----------------------------------------------------------------------------
(* The sections of a call are one or two; the second one is entered again  *)
(* exactly when it has the key of the first.                               *)
LEMMA SectionsFit ==
  ASSUME NEW c \in Calls
  PROVE  /\ Nesting(c) \in 1..2
         /\ \A e \in 1..Nesting(c) : KeyAt(c, e) \in Keys
         /\ ~Reenters(c, 1)
         /\ \A e \in 1..Nesting(c) :
              Reenters(c, e) <=> e = 2 /\ KeyAt(c, 1) = KeyAt(c, 2)
PROOF
  <1>1. /\ UserOf[c] \in Keys /\ MeetingOf[c] \in Keys /\ UploadOf[c] \in Keys
        /\ UserOf[c] # MeetingOf[c]
        /\ KindOf[c] \in Kinds
    BY LockAssumption DEF LockAssumption, Keys
  <1>2. ~Reenters(c, 1)
    BY DEF Reenters
  <1>3. CASE KindOf[c] = "mutation"
    <2>1. Sections(c) = <<UserOf[c], MeetingOf[c]>>
      BY <1>3 DEF Sections
    <2> QED  BY <1>1, <1>2, <2>1 DEF KeyAt, Reenters, Nesting
  <1>4. CASE KindOf[c] = "publication"
    <2>1. Sections(c) = <<MeetingOf[c], MeetingOf[c]>>
      BY <1>4 DEF Sections
    <2>2. Reenters(c, 2)
      BY <2>1 DEF Reenters, KeyAt
    <2> QED  BY <1>1, <1>2, <2>1, <2>2 DEF KeyAt, Nesting
  <1>5. CASE KindOf[c] = "transfer"
    <2>1. Sections(c) = <<UploadOf[c]>>
      BY <1>5 DEF Sections
    <2> QED  BY <1>1, <1>2, <2>1 DEF KeyAt, Nesting
  <1> QED  BY <1>1, <1>3, <1>4, <1>5 DEF Kinds

(* At the start nobody is in a section and every queue is empty.           *)
LEMMA InitEstablishes == Init => IInv
PROOF
  <1> SUFFICES ASSUME Init PROVE IInv
    OBVIOUS
  <1>1. \A c \in Calls : Nesting(c) \in 1..2
    BY SectionsFit
  <1>2. StateTyped
    BY LockAssumption DEF Init, StateTyped, LockAssumption, Steps
  <1>3. DepthsFit /\ KeysHeld
    BY <1>1 DEF Init, DepthsFit, DepthFits, KeysHeld, DepthInside, Waits
  <1>4. HoldersInside /\ ConnectionsUsed /\ PlacesKept
    BY LockAssumption DEF LockAssumption, Init, HoldersInside, ConnectionsUsed, PlacesKept, Section
  <1>5. QueuesClean /\ BarrierAlone
    BY DEF Init, QueuesClean, QueueClean, BarrierAlone
  <1> QED  BY <1>2, <1>3, <1>4, <1>5 DEF IInv

-----------------------------------------------------------------------------
(* How the steps of a section write a call.                                *)
CallRow == [depth : 0..2, at : Steps, result : {"ok", "busy", "error"},
            done : BOOLEAN]

(* A step writes one call, and keeps it well typed.                        *)
Moves(c, d, at, done) ==
  /\ call' \in [Calls -> CallRow]
  /\ \A x \in Calls \ {c} : call'[x] = call[x]
  /\ call'[c].depth = d /\ call'[c].at = at /\ call'[c].done = done

(* A re-entry, or its end, changes the depth alone.                        *)
LEMMA DepthMoves ==
  ASSUME call \in [Calls -> CallRow], NEW c \in Calls, NEW d \in 0..2,
         call' = [call EXCEPT ![c].depth = d]
  PROVE  Moves(c, d, call[c].at, call[c].done)
BY DEF CallRow, Moves

(* A lock or a connection is taken or given back at the same depth.        *)
LEMMA StepMoves ==
  ASSUME call \in [Calls -> CallRow], NEW c \in Calls, NEW at \in Steps, Goes(c, at)
  PROVE  Moves(c, call[c].depth, at, call[c].done)
BY DEF CallRow, Moves, Goes

(* A new section, and the end of one, change both.                         *)
LEMMA DepthAndStepMove ==
  ASSUME call \in [Calls -> CallRow], NEW c \in Calls, NEW d \in 0..2, NEW at \in Steps,
         call' = [call EXCEPT ![c].depth = d, ![c].at = at]
  PROVE  Moves(c, d, at, call[c].done)
BY DEF CallRow, Moves

(* The operation is done.                                                  *)
LEMMA EndMoves ==
  ASSUME call \in [Calls -> CallRow], NEW c \in Calls, NEW at \in Steps,
         call' = [call EXCEPT ![c].at = at, ![c].done = TRUE]
  PROVE  Moves(c, call[c].depth, at, TRUE)
BY DEF CallRow, Moves

(* A wait that ran out of time.                                            *)
LEMMA FailureMoves ==
  ASSUME call \in [Calls -> CallRow], NEW c \in Calls, NEW at \in Steps,
         NEW result \in {"ok", "busy", "error"},
         call' = [call EXCEPT ![c].at = at, ![c].result = result, ![c].done = TRUE]
  PROVE  Moves(c, call[c].depth, at, TRUE)
BY DEF CallRow, Moves

-----------------------------------------------------------------------------
(* A section at the end of a queue.                                        *)
LEMMA Queued ==
  ASSUME NEW S, NEW q \in Seq(S), NEW s \in S,
         \A i, j \in 1..Len(q) : q[i] = q[j] => i = j,
         \A i \in 1..Len(q) : q[i] # s
  PROVE  \E r \in Seq(S) :
           /\ r = Append(q, s) /\ Len(r) = Len(q) + 1 /\ r[Len(q) + 1] = s
           /\ \A i \in 1..Len(q) : r[i] = q[i]
           /\ \A i, j \in 1..Len(r) : r[i] = r[j] => i = j
PROOF
  <1> DEFINE r == Append(q, s)
  <1>1. /\ r \in Seq(S) /\ Len(r) = Len(q) + 1 /\ r[Len(q) + 1] = s
        /\ Len(q) \in Nat
        /\ \A i \in 1..Len(q) : r[i] = q[i]
    OBVIOUS
  <1> HIDE DEF r
  <1>2. ASSUME NEW i \in 1..Len(r), NEW j \in 1..Len(r), r[i] = r[j]
        PROVE  i = j
    <2>1. CASE i = Len(q) + 1 /\ j = Len(q) + 1
      BY <2>1
    <2>2. CASE i = Len(q) + 1 /\ j # Len(q) + 1
      <3>1. j \in 1..Len(q)
        BY <1>1, <2>2
      <3> QED  BY <1>1, <1>2, <2>2, <3>1
    <2>3. CASE i # Len(q) + 1 /\ j = Len(q) + 1
      <3>1. i \in 1..Len(q)
        BY <1>1, <2>3
      <3> QED  BY <1>1, <1>2, <2>3, <3>1
    <2>4. CASE i # Len(q) + 1 /\ j # Len(q) + 1
      <3>1. i \in 1..Len(q) /\ j \in 1..Len(q)
        BY <1>1, <2>4
      <3> QED  BY <1>1, <1>2, <3>1
    <2> QED  BY <2>1, <2>2, <2>3, <2>4
  <1> QED  BY <1>1, <1>2 DEF r

(* A section that starts: the call queues for a new key, or enters again   *)
(* the fence it is in.                                                     *)
LEMMA EnterPreserves ==
  ASSUME IInv, NEW c \in Calls, Enter(c)
  PROVE  IInv'
PROOF
  <1> DEFINE d == call[c].depth + 1
             p == ProcOf[c]
             k == KeyAt(c, d)
  <1>0. call \in [Calls -> CallRow]
    BY DEF IInv, StateTyped, CallRow
  <1>1. d \in 1..2 /\ d =< Nesting(c) /\ call[c].depth = d - 1
    <2>3. call[c].depth \in 0..2
      BY <1>0 DEF CallRow
    <2>4. d =< Nesting(c)
      BY DEF Enter, Nesting
    <2> QED  BY <2>3, <2>4, SectionsFit
  <1>2. call[c].at = "running" /\ ~call[c].done
    BY DEF Enter
  <1>3. p \in Procs /\ k \in Keys
    BY <1>1, SectionsFit, LockAssumption DEF LockAssumption
  <1>4. CASE Reenters(c, d)
    <2>3. /\ call' = [call EXCEPT ![c].depth = d]
          /\ UNCHANGED <<queue, conn, shared, holder, backup, backups>>
      BY <1>4 DEF Enter
    <2>4. d = 2 /\ KeyAt(c, 1) = KeyAt(c, 2)
      BY <1>1, <1>4, SectionsFit
    <2> HIDE DEF d
    <2>5. Moves(c, d, "running", call[c].done)
      <3>1. d \in 0..2 /\ call' = [call EXCEPT ![c].depth = d]
        BY <1>1, <2>3
      <3>2. Moves(c, d, call[c].at, call[c].done)
        BY <1>0, <3>1, DepthMoves
      <3> QED  BY <1>2, <3>2
    <2>6. StateTyped'
      BY <2>3, <2>5 DEF Moves, IInv, StateTyped, CallRow
    <2>7. DepthsFit'
      BY <1>1, <1>2, <2>5 DEF Moves, IInv, DepthsFit, DepthFits, Waits
    <2>8. KeysHeld'
      <3> SUFFICES ASSUME NEW x \in Calls, NEW e \in 1..DepthInside(x)'
                   PROVE  /\ holder[KeyAt(x, e)] = x
                          /\ ~Reenters(x, e) => <<x, e>> \in shared
        BY <2>3 DEF KeysHeld
      <3>1. CASE x # c
        BY <2>5, <3>1 DEF IInv, KeysHeld, DepthInside, Waits, Moves
      <3>2. CASE x = c
        <4>1. DepthInside(c)' = d /\ DepthInside(c) = d - 1
          BY <1>1, <1>2, <2>5 DEF DepthInside, Waits, Moves
        <4>2. CASE e = d
          <5>1. 1 \in 1..DepthInside(c)
            BY <4>1, <2>4
          <5>2. holder[KeyAt(c, 1)] = c
            BY <5>1 DEF IInv, KeysHeld
          <5> QED  BY <5>2, <4>2, <3>2, <1>4, <2>4
        <4>3. CASE e # d
          BY <4>1, <4>3, <3>2, <1>1 DEF IInv, KeysHeld
        <4> QED BY <4>2, <4>3
      <3> QED  BY <3>1, <3>2
    <2>9. HoldersInside'
      BY <1>0, <1>1, <1>2, <1>4, <2>3, <2>4, <2>5 DEF Moves, IInv, HoldersInside, DepthInside, Waits
    <2>10. ConnectionsUsed'
      BY <1>0, <1>1, <1>2, <2>3, <2>5 DEF Moves, IInv, ConnectionsUsed, Section, Depths
    <2>11. PlacesKept'
      <3> SUFFICES ASSUME NEW x \in Calls, NEW e \in 1..call'[x].depth, ~Reenters(x, e)
                   PROVE  PlaceKept(x, e)'
        BY DEF PlacesKept
      <3>1. CASE x # c
        BY <2>3, <2>5, <3>1 DEF IInv, PlacesKept, PlaceKept, Moves
      <3>2. CASE x = c
        <4>1. e # d /\ e \in 1..call[c].depth
          BY <1>1, <1>4, <2>5, <3>2 DEF Moves
        <4> QED  BY ZenonT(40), <1>2, <2>3, <2>5, <3>2, <4>1 DEF IInv, PlacesKept, PlaceKept, Moves
      <3> QED  BY <3>1, <3>2
    <2>12. QueuesClean'
      BY <1>0, <1>1, <2>3, <2>5 DEF Moves, IInv, QueuesClean, QueueClean, Depths
    <2>13. BarrierAlone'
      BY <1>1, <2>3 DEF IInv, BarrierAlone
    <2> QED  BY <2>6, <2>7, <2>8, <2>9, <2>10, <2>11, <2>12, <2>13 DEF IInv
  <1>5. CASE ~Reenters(c, d)
    <2> DEFINE q == queue[p][k]
    <2>1. /\ call' = [call EXCEPT ![c].depth = d, ![c].at = "queued"]
          /\ queue' = [queue EXCEPT ![p][k] = Append(q, <<c, d>>)]
          /\ UNCHANGED <<conn, shared, holder, backup, backups>>
      BY <1>5 DEF Enter
    <2> HIDE DEF d, q
    <2>2. Moves(c, d, "queued", call[c].done)
      <3>1. d \in 0..2 /\ call' = [call EXCEPT ![c].depth = d, ![c].at = "queued"]
        BY <1>1, <2>1
      <3> QED  BY <1>0, <3>1, DepthAndStepMove DEF Steps
    <2>3. q \in Seq(Calls \X Depths) /\ <<c, d>> \in Calls \X Depths /\ Len(q) \in Nat
      BY <1>1, <1>3 DEF IInv, StateTyped, Depths, q
    <2>4. QueueClean(p, k)
      BY <1>3 DEF IInv, QueuesClean
    <2>5. /\ \A i, j \in 1..Len(q) : q[i] = q[j] => i = j
          /\ \A i \in 1..Len(q) : q[i] # <<c, d>>
      BY <1>1, <2>4 DEF QueueClean, q, Depths
    <2>6. PICK r \in Seq(Calls \X Depths) :
           /\ r = Append(q, <<c, d>>) /\ Len(r) = Len(q) + 1 /\ r[Len(q) + 1] = <<c, d>>
           /\ \A i \in 1..Len(q) : r[i] = q[i]
           /\ \A i, j \in 1..Len(r) : r[i] = r[j] => i = j
      <3> DEFINE S == Calls \X Depths
                 s == <<c, d>>
      <3>1. q \in Seq(S) /\ s \in S /\ \A i \in 1..Len(q) : q[i] # s
        BY <2>3, <2>5
      <3> HIDE DEF S, s
      <3>2. \E r \in Seq(S) :
              /\ r = Append(q, s) /\ Len(r) = Len(q) + 1 /\ r[Len(q) + 1] = s
              /\ \A i \in 1..Len(q) : r[i] = q[i]
              /\ \A i, j \in 1..Len(r) : r[i] = r[j] => i = j
        BY <2>5, <3>1, Queued
      <3> QED  BY <3>2 DEF S, s
    <2>7. StateTyped'
      BY <1>3, <2>1, <2>2, <2>6 DEF Moves, IInv, StateTyped, CallRow
    <2>8. DepthsFit'
      BY <1>1, <1>2, <1>5, <2>2 DEF Moves, IInv, DepthsFit, DepthFits, Waits
    <2>9. DepthInside(c)' = DepthInside(c)
      BY <1>1, <1>2, <2>2 DEF DepthInside, Waits, Moves
    <2>10. \A x \in Calls : DepthInside(x)' = DepthInside(x)
      BY <2>2, <2>9 DEF DepthInside, Waits, Moves
    <2>11. KeysHeld' /\ HoldersInside'
      BY <2>1, <2>10 DEF IInv, StateTyped, KeysHeld, HoldersInside
    <2>12. ConnectionsUsed'
      BY <1>0, <1>1, <1>2, <2>1, <2>2 DEF Moves, IInv, ConnectionsUsed, Section, Depths
    <2>13. /\ queue'[p][k] = r
           /\ \A pp \in Procs, kk \in Keys :
                ~(pp = p /\ kk = k) => queue'[pp][kk] = queue[pp][kk]
      BY <1>3, <2>1, <2>6 DEF IInv, StateTyped
    <2>14. PlacesKept'
      <3> SUFFICES ASSUME NEW x \in Calls, NEW e \in 1..call'[x].depth, ~Reenters(x, e)
                   PROVE  PlaceKept(x, e)'
        BY DEF PlacesKept
      <3>1. ProcOf[x] \in Procs /\ KeyAt(x, e) \in Keys
        <4>1. call'[x].depth =< Nesting(x) /\ call'[x].depth \in 0..2
          BY <2>2, <2>8 DEF DepthsFit, DepthFits, Moves, CallRow
        <4> QED  BY <4>1, SectionsFit, LockAssumption DEF LockAssumption
      <3>2. CASE x = c /\ e = d
        <4>1. queue'[ProcOf[x]][KeyAt(x, e)] = r /\ ~(e < call'[x].depth)
                /\ call'[x].at = "queued"
          BY <1>1, <2>2, <2>13, <3>2 DEF Moves
        <4>2. Len(q) + 1 \in 1..Len(r) /\ r[Len(q) + 1] = <<x, e>>
          BY <2>3, <2>6, <3>2
        <4> QED  BY <4>1, <4>2 DEF PlaceKept
      <3>3. CASE ~(x = c /\ e = d)
        <4>1. e \in 1..call[x].depth
          BY <1>1, <2>2, <3>3 DEF Moves
        <4>2. PlaceKept(x, e)
          BY <4>1 DEF IInv, PlacesKept
        <4>3. e < call'[x].depth \/ call'[x].at # "queued"
                => e < call[x].depth \/ call[x].at # "queued"
          BY <1>2, <2>2 DEF Moves
        <4>4. CASE ProcOf[x] = p /\ KeyAt(x, e) = k
          <5>1. PICK i \in 1..Len(q) : q[i] = <<x, e>>
            BY <4>2, <4>4 DEF PlaceKept, q
          <5>2. i \in 1..Len(r) /\ r[i] = <<x, e>> /\ 1 \in 1..Len(q) /\ r[1] = q[1]
            BY <2>3, <2>6, <5>1
          <5> QED  BY <2>13, <4>2, <4>3, <4>4, <5>2 DEF PlaceKept, q
        <4>5. CASE ~(ProcOf[x] = p /\ KeyAt(x, e) = k)
          BY <2>13, <3>1, <4>2, <4>3, <4>5 DEF PlaceKept
        <4> QED  BY <4>4, <4>5
      <3> QED  BY <3>2, <3>3
    <2>15. QueuesClean'
      <3> SUFFICES ASSUME NEW pp \in Procs, NEW kk \in Keys
                   PROVE  QueueClean(pp, kk)'
        BY DEF QueuesClean
      <3>1. \A x \in Calls : call[x].depth \in 0..2 /\ call'[x].depth \in 0..2
                               /\ call[x].depth =< call'[x].depth
        BY <1>0, <1>1, <2>2 DEF Moves, CallRow
      <3>2. CASE pp = p /\ kk = k
        <4>1. ASSUME NEW i \in 1..Len(r), NEW x \in Calls, NEW e \in Depths, r[i] = <<x, e>>
              PROVE  /\ ProcOf[x] = p /\ KeyAt(x, e) = k
                     /\ e =< call'[x].depth /\ ~Reenters(x, e)
          <5>1. CASE i = Len(q) + 1
            <6>1. x = c /\ e = d
              BY <2>6, <4>1, <5>1
            <6> QED  BY <1>1, <1>5, <2>2, <6>1 DEF Moves
          <5>2. CASE i # Len(q) + 1
            <6>1. i \in 1..Len(q) /\ q[i] = <<x, e>>
              BY <2>3, <2>6, <4>1, <5>2
            <6>2. /\ ProcOf[x] = p /\ KeyAt(x, e) = k
                  /\ e =< call[x].depth /\ ~Reenters(x, e)
              BY <2>4, <6>1 DEF QueueClean, q
            <6> QED  BY <3>1, <6>2 DEF Depths
          <5> QED  BY <5>1, <5>2
        <4>2. queue'[pp][kk] = r
          BY <2>13, <3>2
        <4>3. \A i \in 1..Len(r), x \in Calls, e \in Depths :
                r[i] = <<x, e>> =>
                  /\ ProcOf[x] = pp /\ KeyAt(x, e) = kk
                  /\ e =< call'[x].depth /\ ~Reenters(x, e)
          BY <3>2, <4>1
        <4> QED  BY <2>6, <4>2, <4>3 DEF QueueClean
      <3>3. CASE ~(pp = p /\ kk = k)
        <4>1. QueueClean(pp, kk) /\ queue'[pp][kk] = queue[pp][kk]
          BY <2>13, <3>3 DEF IInv, QueuesClean
        <4> QED  BY <3>1, <4>1 DEF QueueClean, Depths
      <3> QED  BY <3>2, <3>3
    <2>16. BarrierAlone'
      BY <2>1 DEF IInv, BarrierAlone
    <2> QED  BY <2>7, <2>8, <2>11, <2>12, <2>14, <2>16, <2>15 DEF IInv
  <1> QED  BY <1>4, <1>5

-----------------------------------------------------------------------------
(* While nobody enters or leaves a queue, places keep their meaning: a     *)
(* call that goes on is the first, and one that leaves a section it had    *)
(* entered again has no place of its own there.                            *)
LEMMA QueuesStay ==
  ASSUME IInv, NEW c \in Calls, NEW d, NEW at, NEW done, Moves(c, d, at, done),
         UNCHANGED queue,
         \/ d = call[c].depth /\ (call[c].at = "queued" => First(c))
         \/ d = call[c].depth - 1 /\ Reenters(c, call[c].depth)
  PROVE  PlacesKept' /\ QueuesClean'
PROOF
  <1>1. \A x \in Calls : call[x].depth \in 0..2 /\ call'[x].depth \in 0..2
    BY DEF IInv, StateTyped, Moves, CallRow
  <1>2. ASSUME NEW x \in Calls, NEW e \in Int, ~Reenters(x, e)
        PROVE  e =< call'[x].depth <=> e =< call[x].depth
    <2>1. CASE x # c
      BY <2>1 DEF Moves
    <2>2. CASE x = c
      <3>1. call'[c].depth = d
        BY DEF Moves
      <3> QED  BY <1>1, <1>2, <2>2, <3>1
    <2> QED  BY <2>1, <2>2
  <1>3. PlacesKept'
    <2> SUFFICES ASSUME NEW x \in Calls, NEW e \in 1..call'[x].depth, ~Reenters(x, e)
                 PROVE  PlaceKept(x, e)'
      BY DEF PlacesKept
    <2>1. PlaceKept(x, e) /\ e \in 1..call[x].depth
      BY <1>1, <1>2 DEF IInv, PlacesKept
    <2>2. CASE x # c
      BY <2>1, <2>2 DEF PlaceKept, Moves
    <2>3. CASE x = c
      <3>1. CASE call[c].at = "queued" /\ e = call[c].depth
        <4>1. First(c)
          <5>1. d # call[c].depth - 1 \/ ~Reenters(c, call[c].depth)
            BY <2>3, <3>1
          <5> QED  BY <3>1, <5>1
        <4>2. queue[ProcOf[c]][KeyAt(c, e)][1] = <<c, e>>
          <5>1. KeyAt(c, e) = Key(c) /\ Section(c) = <<c, e>>
            BY <3>1 DEF Key, Section
          <5> QED  BY <4>1, <5>1 DEF First
        <4> QED  BY <2>1, <2>3, <4>2 DEF PlaceKept
      <3>2. CASE ~(call[c].at = "queued" /\ e = call[c].depth)
        BY <1>1, <2>1, <2>3, <3>2 DEF PlaceKept
      <3> QED  BY <3>1, <3>2
    <2> QED  BY <2>2, <2>3
  <1>4. QueuesClean'
    <2> SUFFICES ASSUME NEW p \in Procs, NEW k \in Keys PROVE QueueClean(p, k)'
      BY DEF QueuesClean
    <2>1. QueueClean(p, k)
      BY DEF IInv, QueuesClean
    <2> QED  BY <1>2, <2>1 DEF QueueClean, Depths
  <1> QED  BY <1>3, <1>4

(* The first in its queue takes a connection.                              *)
LEMMA ConnectPreserves ==
  ASSUME IInv, NEW c \in Calls, Connect(c)
  PROVE  IInv'
PROOF
  <1> DEFINE d == call[c].depth
  <1>1. call \in [Calls -> CallRow] /\ d \in 0..2
    BY DEF IInv, StateTyped, CallRow
  <1>2. /\ call[c].at = "queued" /\ First(c)
        /\ conn' = conn \cup {<<c, d>>} /\ Goes(c, "sharing")
        /\ UNCHANGED <<queue, shared, holder, backup, backups>>
    BY DEF Connect, Section
  <1>3. d \in Depths /\ ~Reenters(c, d)
    BY <1>1, <1>2 DEF IInv, DepthsFit, DepthFits, Depths
  <1>4. Moves(c, d, "sharing", call[c].done)
    BY <1>1, <1>2, StepMoves DEF Steps
  <1> HIDE DEF d
  <1>5. StateTyped'
    BY <1>2, <1>3, <1>4 DEF Moves, IInv, StateTyped, CallRow
  <1>6. DepthsFit'
    BY <1>2, <1>3, <1>4 DEF Moves, IInv, DepthsFit, DepthFits, Waits, d
  <1>7. \A x \in Calls : DepthInside(x)' = DepthInside(x)
    BY <1>2, <1>4 DEF DepthInside, Waits, Moves, d
  <1>8. KeysHeld' /\ HoldersInside'
    BY <1>2, <1>7 DEF IInv, StateTyped, KeysHeld, HoldersInside
  <1>9. ConnectionsUsed'
    BY <1>1, <1>2, <1>3, <1>4 DEF Moves, IInv, ConnectionsUsed, Section, Depths, d
  <1>10. PlacesKept' /\ QueuesClean'
    BY <1>2, <1>4, QueuesStay DEF d
  <1>11. BarrierAlone'
    BY <1>2 DEF IInv, BarrierAlone
  <1> QED  BY <1>5, <1>6, <1>8, <1>9, <1>10, <1>11 DEF IInv

(* A share of the barrier is taken while no backup asks for it.            *)
LEMMA ShareBarrierPreserves ==
  ASSUME IInv, NEW c \in Calls, ShareBarrier(c)
  PROVE  IInv'
PROOF
  <1> DEFINE d == call[c].depth
  <1>1. call \in [Calls -> CallRow] /\ d \in 0..2
    BY DEF IInv, StateTyped, CallRow
  <1>2. /\ call[c].at = "sharing" /\ backup = "idle"
        /\ shared' = shared \cup {<<c, d>>} /\ Goes(c, "locking")
        /\ UNCHANGED <<queue, conn, holder, backup, backups>>
    BY DEF ShareBarrier, Section
  <1>3. <<c, d>> \in conn
    BY <1>2 DEF IInv, ConnectionsUsed, Section
  <1>4. Moves(c, d, "locking", call[c].done)
    BY <1>1, <1>2, StepMoves DEF Steps
  <1> HIDE DEF d
  <1>5. StateTyped'
    BY <1>2, <1>3, <1>4 DEF Moves, IInv, StateTyped, CallRow
  <1>6. DepthsFit'
    BY <1>2, <1>4 DEF Moves, IInv, DepthsFit, DepthFits, Waits, d
  <1>7. \A x \in Calls : DepthInside(x)' = DepthInside(x)
    BY <1>2, <1>4 DEF DepthInside, Waits, Moves, d
  <1>8. KeysHeld' /\ HoldersInside'
    BY <1>2, <1>7 DEF IInv, StateTyped, KeysHeld, HoldersInside
  <1>9. ConnectionsUsed'
    BY <1>1, <1>2, <1>4 DEF Moves, IInv, ConnectionsUsed, Section, Depths, d
  <1>10. PlacesKept' /\ QueuesClean'
    BY <1>2, <1>4, QueuesStay DEF d
  <1>11. BarrierAlone'
    BY <1>2 DEF IInv, BarrierAlone
  <1> QED  BY <1>5, <1>6, <1>8, <1>9, <1>10, <1>11 DEF IInv

(* A free key is taken: the call is in the section.                        *)
LEMMA TakeKeyPreserves ==
  ASSUME IInv, NEW c \in Calls, TakeKey(c)
  PROVE  IInv'
PROOF
  <1> DEFINE d == call[c].depth
             k == KeyAt(c, d)
  <1>1. call \in [Calls -> CallRow] /\ d \in 0..2
    BY DEF IInv, StateTyped, CallRow
  <1>2. /\ call[c].at = "locking" /\ holder[k] = None
        /\ holder' = [holder EXCEPT ![k] = c] /\ Goes(c, "running")
        /\ UNCHANGED <<queue, conn, shared, backup, backups>>
    BY DEF TakeKey, Key
  <1>3. /\ d \in 1..2 /\ ~Reenters(c, d) /\ <<c, d>> \in shared
        /\ ~call[c].done /\ d =< Nesting(c)
    BY <1>1, <1>2 DEF IInv, DepthsFit, DepthFits, ConnectionsUsed, Section, Waits
  <1>4. k \in Keys
    BY <1>3, SectionsFit
  <1>5. Moves(c, d, "running", call[c].done)
    BY <1>1, <1>2, StepMoves DEF Steps
  <1>6. holder \in [Keys -> Calls \cup {None}]
    BY DEF IInv, StateTyped
  <1> HIDE DEF d, k
  <1>7. StateTyped'
    BY <1>2, <1>4, <1>5 DEF Moves, IInv, StateTyped, CallRow
  <1>8. DepthsFit'
    BY <1>2, <1>3, <1>5 DEF Moves, IInv, DepthsFit, DepthFits, Waits, d
  <1>9. /\ DepthInside(c) = d - 1 /\ DepthInside(c)' = d
        /\ \A x \in Calls \ {c} : DepthInside(x)' = DepthInside(x)
    BY <1>2, <1>5 DEF DepthInside, Waits, Moves, d
  <1>10. KeysHeld'
    <2> SUFFICES ASSUME NEW x \in Calls, NEW e \in 1..DepthInside(x)'
                 PROVE  /\ holder'[KeyAt(x, e)] = x
                        /\ ~Reenters(x, e) => <<x, e>> \in shared
      BY <1>2 DEF KeysHeld
    <2>1. CASE x = c /\ e = d
      BY <1>2, <1>3, <1>4, <1>6, <2>1 DEF k
    <2>2. CASE ~(x = c /\ e = d)
      <3>1. e \in 1..DepthInside(x)
        BY <1>3, <1>9, <2>2
      <3>2. holder[KeyAt(x, e)] = x /\ (~Reenters(x, e) => <<x, e>> \in shared)
        BY <3>1 DEF IInv, KeysHeld
      <3>3. KeyAt(x, e) # k
        BY <1>2, <3>2, LockAssumption DEF LockAssumption
      <3> QED  BY <1>2, <3>2, <3>3
    <2> QED  BY <2>1, <2>2
  <1>11. HoldersInside'
    <2> SUFFICES ASSUME NEW x \in Calls, NEW l \in Keys, holder'[l] = x
                 PROVE  \E e \in 1..DepthInside(x)' : KeyAt(x, e) = l
      BY DEF HoldersInside
    <2>1. CASE l = k
      <3>1. x = c
        BY <1>2, <1>4, <1>6, <2>1
      <3>2. d \in 1..DepthInside(c)' /\ KeyAt(c, d) = l
        BY <1>3, <1>9, <2>1 DEF k
      <3> QED  BY <3>1, <3>2
    <2>2. CASE l # k
      <3>1. holder[l] = x
        BY <1>2, <1>6, <2>2
      <3>2. PICK e \in 1..DepthInside(x) : KeyAt(x, e) = l
        BY <3>1 DEF IInv, HoldersInside
      <3>3. e \in 1..DepthInside(x)'
        BY <1>3, <1>9, <3>2
      <3> QED  BY <3>2, <3>3
    <2> QED  BY <2>1, <2>2
  <1>12. ConnectionsUsed'
    BY <1>1, <1>2, <1>5 DEF Moves, IInv, ConnectionsUsed, Section, Depths, d
  <1>13. PlacesKept' /\ QueuesClean'
    BY <1>2, <1>5, QueuesStay DEF d
  <1>14. BarrierAlone'
    BY <1>2 DEF IInv, BarrierAlone
  <1> QED  BY <1>7, <1>8, <1>10, <1>11, <1>12, <1>13, <1>14 DEF IInv

(* The innermost section has done its work.                                *)
LEMMA OperatePreserves ==
  ASSUME IInv, NEW c \in Calls, Operate(c)
  PROVE  IInv'
PROOF
  <1> DEFINE d == call[c].depth
  <1>1. call \in [Calls -> CallRow] /\ d \in 0..2
    BY DEF IInv, StateTyped, CallRow
  <1>2. /\ call[c].at = "running" /\ d = Nesting(c)
        /\ call' = [call EXCEPT ![c].at = "unlocking", ![c].done = TRUE]
        /\ UNCHANGED <<queue, conn, shared, holder, backup, backups>>
    BY DEF Operate, Nesting
  <1>3. d \in 1..2
    BY <1>2, SectionsFit
  <1>4. Moves(c, d, "unlocking", TRUE)
    BY <1>1, <1>2, EndMoves DEF Steps
  <1> HIDE DEF d
  <1>5. StateTyped'
    BY <1>2, <1>4 DEF Moves, IInv, StateTyped, CallRow
  <1>6. DepthsFit'
    BY <1>2, <1>3, <1>4 DEF Moves, IInv, DepthsFit, DepthFits, Waits, d
  <1>7. \A x \in Calls : DepthInside(x)' = DepthInside(x)
    BY <1>2, <1>4 DEF DepthInside, Waits, Moves, d
  <1>8. KeysHeld' /\ HoldersInside'
    BY <1>2, <1>7 DEF IInv, StateTyped, KeysHeld, HoldersInside
  <1>9. ConnectionsUsed'
    BY <1>1, <1>2, <1>4 DEF Moves, IInv, ConnectionsUsed, Section, Depths, d
  <1>10. PlacesKept' /\ QueuesClean'
    BY <1>2, <1>4, QueuesStay DEF d
  <1>11. BarrierAlone'
    BY <1>2 DEF IInv, BarrierAlone
  <1> QED  BY <1>5, <1>6, <1>8, <1>9, <1>10, <1>11 DEF IInv

(* lock_timeout, at the barrier or at the key.                             *)
LEMMA LockTimesOutPreserves ==
  ASSUME IInv, NEW c \in Calls, LockTimesOut(c)
  PROVE  IInv'
PROOF
  <1> DEFINE d == call[c].depth
  <1>1. call \in [Calls -> CallRow] /\ d \in 0..2
    BY DEF IInv, StateTyped, CallRow
  <1>2. /\ call[c].at \in {"sharing", "locking"}
        /\ call' = [call EXCEPT ![c].at = "releasing", ![c].result = "busy",
                                ![c].done = TRUE]
        /\ UNCHANGED <<queue, conn, shared, holder, backup, backups>>
    BY DEF LockTimesOut
  <1>3. d \in 1..2 /\ ~Reenters(c, d)
    BY <1>1, <1>2 DEF IInv, DepthsFit, DepthFits
  <1>4. Moves(c, d, "releasing", TRUE)
    BY <1>1, <1>2, FailureMoves DEF Steps
  <1> HIDE DEF d
  <1>5. StateTyped'
    BY <1>2, <1>4 DEF Moves, IInv, StateTyped, CallRow
  <1>6. DepthsFit'
    BY <1>2, <1>3, <1>4 DEF Moves, IInv, DepthsFit, DepthFits, Waits, d
  <1>7. \A x \in Calls : DepthInside(x)' = DepthInside(x)
    BY <1>2, <1>4 DEF DepthInside, Waits, Moves, d
  <1>8. KeysHeld' /\ HoldersInside'
    BY <1>2, <1>7 DEF IInv, StateTyped, KeysHeld, HoldersInside
  <1>9. ConnectionsUsed'
    BY <1>1, <1>2, <1>4 DEF Moves, IInv, ConnectionsUsed, Section, Depths, d
  <1>10. PlacesKept' /\ QueuesClean'
    BY <1>2, <1>4, QueuesStay DEF d
  <1>11. BarrierAlone'
    BY <1>2 DEF IInv, BarrierAlone
  <1> QED  BY <1>5, <1>6, <1>8, <1>9, <1>10, <1>11 DEF IInv

(* No connection in time, for the section or for a query inside it.        *)
LEMMA ConnectTimesOutPreserves ==
  ASSUME IInv, NEW c \in Calls, ConnectTimesOut(c)
  PROVE  IInv'
PROOF
  <1> DEFINE d == call[c].depth
             at == IF call[c].at = "queued" THEN "releasing" ELSE "unlocking"
  <1>1. call \in [Calls -> CallRow] /\ d \in 0..2
    BY DEF IInv, StateTyped, CallRow
  <1>2. /\ call' = [call EXCEPT ![c].at = at, ![c].result = "error", ![c].done = TRUE]
        /\ UNCHANGED <<queue, conn, shared, holder, backup, backups>>
    BY <1>1 DEF ConnectTimesOut, CallRow
  <1>3. \/ call[c].at = "queued" /\ First(c) /\ at = "releasing"
        \/ call[c].at = "running" /\ d > 0 /\ at = "unlocking"
    BY DEF ConnectTimesOut
  <1>4. d \in 1..2 /\ (at = "releasing" => ~Reenters(c, d))
    BY <1>1, <1>3, SectionsFit DEF IInv, DepthsFit, DepthFits
  <1>5. Moves(c, d, at, TRUE)
    BY <1>1, <1>2, FailureMoves DEF Steps
  <1> HIDE DEF d, at
  <1>6. StateTyped'
    BY <1>2, <1>5 DEF Moves, IInv, StateTyped, CallRow
  <1>7. DepthsFit'
    BY <1>3, <1>4, <1>5 DEF Moves, IInv, DepthsFit, DepthFits, Waits, d
  <1>8. \A x \in Calls : DepthInside(x)' = DepthInside(x)
    BY <1>3, <1>5 DEF DepthInside, Waits, Moves, d
  <1>9. KeysHeld' /\ HoldersInside'
    BY <1>2, <1>8 DEF IInv, StateTyped, KeysHeld, HoldersInside
  <1>10. ConnectionsUsed'
    BY <1>1, <1>2, <1>3, <1>5 DEF Moves, IInv, ConnectionsUsed, Section, Depths, d
  <1>11. PlacesKept' /\ QueuesClean'
    BY <1>2, <1>3, <1>5, QueuesStay DEF d
  <1>12. BarrierAlone'
    BY <1>2 DEF IInv, BarrierAlone
  <1> QED  BY <1>6, <1>7, <1>9, <1>10, <1>11, <1>12 DEF IInv

(* A section that ends gives its key back, unless it only entered again.   *)
LEMMA UnlockKeyPreserves ==
  ASSUME IInv, NEW c \in Calls, UnlockKey(c)
  PROVE  IInv'
PROOF
  <1> DEFINE d == call[c].depth
             k == KeyAt(c, d)
  <1>1. call \in [Calls -> CallRow] /\ d \in 0..2
    BY DEF IInv, StateTyped, CallRow
  <1>2. /\ call[c].at = "unlocking" /\ call[c].done
        /\ UNCHANGED <<queue, conn, shared, backup, backups>>
    BY DEF UnlockKey
  <1>3. d \in 1..2 /\ d =< Nesting(c)
    BY <1>1, <1>2 DEF IInv, DepthsFit, DepthFits
  <1>4. k \in Keys /\ holder \in [Keys -> Calls \cup {None}]
    BY <1>3, SectionsFit DEF IInv, StateTyped
  <1>5. DepthInside(c) = d
    BY <1>2 DEF DepthInside, Waits
  <1>6. CASE Reenters(c, d)
    <2>1. call' = [call EXCEPT ![c].depth = d - 1] /\ UNCHANGED holder
      BY <1>6 DEF UnlockKey
    <2>2. d = 2 /\ KeyAt(c, 1) = KeyAt(c, 2)
      BY <1>3, <1>6, SectionsFit
    <2>3. Moves(c, d - 1, call[c].at, call[c].done)
      <3>1. d - 1 \in 0..2 /\ call' = [call EXCEPT ![c].depth = d - 1]
        BY <2>1, <2>2
      <3> QED  BY <1>1, <3>1, DepthMoves
    <2> HIDE DEF d, k
    <2>4. StateTyped'
      BY <1>2, <2>1, <2>3 DEF Moves, IInv, StateTyped, CallRow
    <2>5. DepthsFit'
      <3> SUFFICES ASSUME NEW x \in Calls
                   PROVE  DepthFits(x)'
        BY DEF DepthsFit
      <3>1. DepthFits(x)
        BY DEF IInv, DepthsFit
      <3>2. CASE x # c
        BY <2>3, <3>1, <3>2 DEF DepthFits, Waits, Moves
      <3>3. CASE x = c
        <4>1. call'[c].depth = 1 /\ call'[c].at = "unlocking" /\ call'[c].done = call[c].done
          BY <1>2, <2>2, <2>3 DEF Moves
        <4>2. 1 =< Nesting(c)
          BY SectionsFit
        <4>3. call[c].done
          BY <1>2
        <4> QED  BY <3>3, <4>1, <4>2, <4>3 DEF DepthFits, Waits
      <3> QED  BY <3>2, <3>3
    <2>6. /\ DepthInside(c)' = 1
          /\ \A x \in Calls \ {c} : DepthInside(x)' = DepthInside(x)
      BY <1>2, <2>2, <2>3 DEF DepthInside, Waits, Moves
    <2>7. KeysHeld'
      <3> SUFFICES ASSUME NEW x \in Calls, NEW e \in 1..DepthInside(x)'
                   PROVE  e \in 1..DepthInside(x)
        BY <1>2, <2>1 DEF IInv, KeysHeld
      <3>1. CASE x = c
        BY <1>5, <2>2, <2>6, <3>1
      <3>2. CASE x # c
        BY <2>6, <3>2
      <3> QED  BY <3>1, <3>2
    <2>8. HoldersInside'
      <3> SUFFICES ASSUME NEW x \in Calls, NEW l \in Keys, holder[l] = x
                   PROVE  \E e \in 1..DepthInside(x)' : KeyAt(x, e) = l
        BY <2>1 DEF HoldersInside
      <3>1. PICK e \in 1..DepthInside(x) : KeyAt(x, e) = l
        BY DEF IInv, HoldersInside
      <3>2. CASE x = c
        <4>1. e \in 1..2 /\ 1 \in 1..DepthInside(c)'
          BY <1>5, <2>2, <2>6, <3>1, <3>2
        <4>2. KeyAt(c, 1) = l
          BY <2>2, <3>1, <3>2, <4>1
        <4> QED  BY <3>2, <4>1, <4>2
      <3>3. CASE x # c
        BY <2>6, <3>1, <3>3
      <3> QED  BY <3>2, <3>3
    <2>9. ConnectionsUsed'
      <3>1. \A x \in Calls : /\ call'[x].at = "sharing" => <<x, call'[x].depth>> \in conn
                             /\ call'[x].at = "locking" => <<x, call'[x].depth>> \in shared
        BY <1>2, <2>3 DEF Moves, IInv, ConnectionsUsed, Section
      <3>2. ASSUME NEW x \in Calls, NEW e \in Depths, <<x, e>> \in conn
            PROVE  e =< call'[x].depth /\ ~Reenters(x, e)
        <4>1. e =< call[x].depth /\ ~Reenters(x, e)
          BY <3>2 DEF IInv, ConnectionsUsed
        <4>2. CASE x = c
          <5>1. e # d /\ call'[c].depth = d - 1
            BY <1>6, <2>3, <4>1, <4>2 DEF Moves
          <5> QED  BY <1>1, <4>1, <4>2, <5>1 DEF Depths, d
        <4>3. CASE x # c
          BY <2>3, <4>1, <4>3 DEF Moves
        <4> QED  BY <4>2, <4>3
      <3> QED  BY <1>2, <3>1, <3>2 DEF ConnectionsUsed, Section
    <2>10. PlacesKept' /\ QueuesClean'
      BY <1>2, <1>6, <2>3, QueuesStay DEF d
    <2>11. BarrierAlone'
      BY <1>2 DEF IInv, BarrierAlone
    <2> QED  BY <2>4, <2>5, <2>7, <2>8, <2>9, <2>10, <2>11 DEF IInv
  <1>7. CASE ~Reenters(c, d)
    <2>1. holder' = [holder EXCEPT ![k] = None] /\ Goes(c, "releasing")
      BY <1>7 DEF UnlockKey, Key
    <2>2. Moves(c, d, "releasing", call[c].done)
      BY <1>1, <2>1, StepMoves DEF Steps
    <2>3. holder[k] = c
      <3>1. d \in 1..DepthInside(c)
        BY <1>3, <1>5
      <3> QED  BY <3>1 DEF IInv, KeysHeld
    <2> HIDE DEF d, k
    <2>4. StateTyped'
      BY <1>2, <1>4, <2>1, <2>2 DEF Moves, IInv, StateTyped, CallRow
    <2>5. DepthsFit'
      BY <1>2, <1>3, <1>7, <2>2 DEF Moves, IInv, DepthsFit, DepthFits, Waits, d
    <2>6. /\ DepthInside(c)' = d - 1
          /\ \A x \in Calls \ {c} : DepthInside(x)' = DepthInside(x)
      BY <1>2, <2>2 DEF DepthInside, Waits, Moves
    <2>7. KeysHeld'
      <3> SUFFICES ASSUME NEW x \in Calls, NEW e \in 1..DepthInside(x)'
                   PROVE  /\ holder'[KeyAt(x, e)] = x
                          /\ ~Reenters(x, e) => <<x, e>> \in shared
        BY <1>2 DEF KeysHeld
      <3>1. e \in 1..DepthInside(x)
        BY <1>3, <1>5, <2>6
      <3>2. holder[KeyAt(x, e)] = x /\ (~Reenters(x, e) => <<x, e>> \in shared)
        BY <3>1 DEF IInv, KeysHeld
      <3>3. KeyAt(x, e) # k
        <4>1. CASE x # c
          BY <2>3, <3>2, <4>1
        <4>2. CASE x = c
          <5>1. e = 1 /\ d = 2
            BY <1>3, <2>6, <4>2
          <5> QED  BY <1>3, <1>7, <4>2, <5>1, SectionsFit DEF k
        <4> QED  BY <4>1, <4>2
      <3> QED  BY <1>4, <2>1, <3>2, <3>3
    <2>8. HoldersInside'
      <3> SUFFICES ASSUME NEW x \in Calls, NEW l \in Keys, holder'[l] = x
                   PROVE  \E e \in 1..DepthInside(x)' : KeyAt(x, e) = l
        BY DEF HoldersInside
      <3>1. l # k /\ holder[l] = x
        BY <1>4, <2>1, LockAssumption DEF LockAssumption
      <3>2. PICK e \in 1..DepthInside(x) : KeyAt(x, e) = l
        BY <3>1 DEF IInv, HoldersInside
      <3>3. x = c => e # d
        BY <3>1, <3>2 DEF k
      <3>4. e \in 1..DepthInside(x)'
        BY <1>3, <1>5, <2>6, <3>2, <3>3
      <3> QED  BY <3>2, <3>4
    <2>9. ConnectionsUsed'
      BY <1>1, <1>2, <2>2 DEF Moves, IInv, ConnectionsUsed, Section, Depths, d
    <2>10. PlacesKept' /\ QueuesClean'
      BY <1>2, <2>2, QueuesStay DEF d
    <2>11. BarrierAlone'
      BY <1>2 DEF IInv, BarrierAlone
    <2> QED  BY <2>4, <2>5, <2>7, <2>8, <2>9, <2>10, <2>11 DEF IInv
  <1> QED  BY <1>6, <1>7

(* The first section of a queue leaves it.                                 *)
LEMMA Dequeued ==
  ASSUME NEW S, NEW q \in Seq(S), 1 \in 1..Len(q),
         \A i, j \in 1..Len(q) : q[i] = q[j] => i = j
  PROVE  \E r \in Seq(S) :
           /\ r = Tail(q)
           /\ \A i \in 1..Len(r) : \E j \in 1..Len(q) : r[i] = q[j] /\ r[i] # q[1]
           /\ \A j \in 1..Len(q) : q[j] # q[1] => \E i \in 1..Len(r) : r[i] = q[j]
           /\ \A i, j \in 1..Len(r) : r[i] = r[j] => i = j
PROOF
  <1> DEFINE r == Tail(q)
  <1>1. Len(q) \in Nat /\ Len(q) >= 1
    OBVIOUS
  <1>2. /\ r \in Seq(S) /\ Len(r) = Len(q) - 1
        /\ \A i \in 1..Len(r) : r[i] = q[i + 1]
    BY <1>1
  <1> HIDE DEF r
  <1>3. ASSUME NEW i \in 1..Len(r)
        PROVE  \E j \in 1..Len(q) : r[i] = q[j] /\ r[i] # q[1]
    <2>1. i + 1 \in 1..Len(q) /\ r[i] = q[i + 1] /\ i + 1 # 1
      BY <1>1, <1>2
    <2> QED  BY <2>1
  <1>4. ASSUME NEW j \in 1..Len(q), q[j] # q[1]
        PROVE  \E i \in 1..Len(r) : r[i] = q[j]
    <2>1. j - 1 \in 1..Len(r) /\ (j - 1) + 1 = j
      BY <1>1, <1>2, <1>4
    <2>2. r[j - 1] = q[(j - 1) + 1]
      BY <1>2, <2>1
    <2> QED  BY <2>1, <2>2
  <1>5. ASSUME NEW i \in 1..Len(r), NEW j \in 1..Len(r), r[i] = r[j]
        PROVE  i = j
    <2>1. i + 1 \in 1..Len(q) /\ j + 1 \in 1..Len(q) /\ q[i + 1] = q[j + 1]
      BY <1>1, <1>2, <1>5
    <2>2. i + 1 = j + 1
      BY <2>1
    <2> QED  BY <2>2
  <1> QED  BY <1>2, <1>3, <1>4, <1>5 DEF r

(* What was taken is given back, and the next in the queue runs.           *)
LEMMA ReleasePreserves ==
  ASSUME IInv, NEW c \in Calls, Release(c)
  PROVE  IInv'
PROOF
  <1> DEFINE d == call[c].depth
             p == ProcOf[c]
             k == KeyAt(c, d)
             q == queue[p][k]
             at == IF d = 1 THEN "running" ELSE "unlocking"
  <1>1. call \in [Calls -> CallRow] /\ d \in 0..2
    BY DEF IInv, StateTyped, CallRow
  <1>2. /\ call[c].at = "releasing"
        /\ call' = [call EXCEPT ![c].depth = d - 1, ![c].at = at]
        /\ queue' = [queue EXCEPT ![p][k] = Tail(q)]
        /\ conn' = conn \ {<<c, d>>} /\ shared' = shared \ {<<c, d>>}
        /\ UNCHANGED <<holder, backup, backups>>
    BY DEF Release, Section, Key
  <1>3. d \in 1..2 /\ d =< Nesting(c) /\ ~Reenters(c, d) /\ call[c].done
    <2>1. DepthFits(c)
      BY DEF IInv, DepthsFit
    <2> QED  BY <1>1, <1>2, <2>1 DEF DepthFits
  <1>4. p \in Procs /\ k \in Keys
    BY <1>3, SectionsFit, LockAssumption DEF LockAssumption
  <1>5. Moves(c, d - 1, at, call[c].done)
    <2>1. d - 1 \in 0..2 /\ at \in Steps
      BY <1>3 DEF Steps
    <2> HIDE DEF at, d
    <2> QED  BY <1>1, <1>2, <2>1, DepthAndStepMove
  <1>6. QueueClean(p, k) /\ q \in Seq(Calls \X Depths)
    BY <1>4 DEF IInv, StateTyped, QueuesClean
  <1>7. 1 \in 1..Len(q) /\ q[1] = <<c, d>>
    <2>1. PlaceKept(c, d)
      BY <1>3 DEF IInv, PlacesKept
    <2>2. PICK i \in 1..Len(q) : q[i] = <<c, d>>
      BY <2>1 DEF PlaceKept
    <2>3. 1 \in 1..Len(q)
      BY <1>6, <2>2
    <2> QED  BY <1>2, <2>1, <2>3 DEF PlaceKept
  <1>8. PICK r \in Seq(Calls \X Depths) :
          /\ r = Tail(q)
          /\ \A i \in 1..Len(r) : \E j \in 1..Len(q) : r[i] = q[j] /\ r[i] # q[1]
          /\ \A j \in 1..Len(q) : q[j] # q[1] => \E i \in 1..Len(r) : r[i] = q[j]
          /\ \A i, j \in 1..Len(r) : r[i] = r[j] => i = j
    <2> DEFINE S == Calls \X Depths
    <2>1. \A i, j \in 1..Len(q) : q[i] = q[j] => i = j
      BY <1>6 DEF QueueClean
    <2>2. q \in Seq(S)
      BY <1>6
    <2> HIDE DEF S, q
    <2>3. \E r \in Seq(S) :
            /\ r = Tail(q)
            /\ \A i \in 1..Len(r) : \E j \in 1..Len(q) : r[i] = q[j] /\ r[i] # q[1]
            /\ \A j \in 1..Len(q) : q[j] # q[1] => \E i \in 1..Len(r) : r[i] = q[j]
            /\ \A i, j \in 1..Len(r) : r[i] = r[j] => i = j
      <3>1. 1 \in 1..Len(q)
        BY <1>7
      <3> QED  BY <2>1, <2>2, <3>1, Dequeued
    <2> QED  BY <2>3 DEF S
  <1>9. /\ queue'[p][k] = r
        /\ \A pp \in Procs, kk \in Keys :
             ~(pp = p /\ kk = k) => queue'[pp][kk] = queue[pp][kk]
    BY <1>2, <1>4, <1>8 DEF IInv, StateTyped
  <1>10. /\ call'[c].depth = d - 1 /\ call'[c].at # "queued"
         /\ call'[c].at = at /\ call'[c].done = call[c].done
         /\ \A x \in Calls : call[x].depth \in 0..2 /\ call'[x].depth \in 0..2
                             /\ call'[x].depth =< call[x].depth
    BY <1>1, <1>5 DEF Moves, CallRow
  <1>11. \A x \in Calls \ {c} : call'[x] = call[x]
    BY <1>5 DEF Moves
  <1> HIDE DEF d, k, p, q
  <1>12. StateTyped'
    BY <1>2, <1>4, <1>5, <1>8 DEF Moves, IInv, StateTyped, CallRow
  <1>13. DepthsFit'
    <2> SUFFICES ASSUME NEW x \in Calls PROVE DepthFits(x)'
      BY DEF DepthsFit
    <2>1. CASE x # c
      BY <1>11, <2>1 DEF IInv, DepthsFit, DepthFits, Waits
    <2>2. CASE x = c /\ d = 1
      <3>1. call'[c].depth = 0 /\ call'[c].at = "running" /\ 0 =< Nesting(c)
        BY <1>10, <2>2, SectionsFit
      <3> QED  BY <2>2, <3>1 DEF DepthFits, Waits
    <2>3. CASE x = c /\ d = 2
      <3>1. call'[c].depth = 1 /\ call'[c].at = "unlocking" /\ 1 =< Nesting(c)
        BY <1>10, <2>3, SectionsFit
      <3>2. call'[c].done
        BY <1>3, <1>10
      <3> QED  BY <2>3, <3>1, <3>2 DEF DepthFits, Waits
    <2> QED  BY <1>3, <2>1, <2>2, <2>3
  <1>14. /\ DepthInside(c) = d - 1 /\ DepthInside(c)' = d - 1
         /\ \A x \in Calls \ {c} : DepthInside(x)' = DepthInside(x)
    <2>1. DepthInside(c) = d - 1
      BY <1>2 DEF DepthInside, Waits, d
    <2>2. call'[c].at \in {"running", "unlocking"}
      BY <1>10
    <2>3. DepthInside(c)' = d - 1
      BY <1>10, <2>2 DEF DepthInside, Waits
    <2>4. \A x \in Calls \ {c} : DepthInside(x)' = DepthInside(x)
      BY <1>11 DEF DepthInside, Waits
    <2> QED  BY <2>1, <2>3, <2>4
  <1>15. KeysHeld'
    <2> SUFFICES ASSUME NEW x \in Calls, NEW e \in 1..DepthInside(x)'
                 PROVE  /\ holder[KeyAt(x, e)] = x
                        /\ ~Reenters(x, e) => <<x, e>> \in shared'
      BY <1>2 DEF KeysHeld
    <2>1. e \in 1..DepthInside(x) /\ (x = c => e # d)
      BY <1>3, <1>14
    <2> QED  BY <1>2, <2>1 DEF IInv, KeysHeld
  <1>16. HoldersInside'
    BY <1>2, <1>14 DEF IInv, HoldersInside
  <1>17. ConnectionsUsed'
    <2>1. \A x \in Calls : /\ call'[x].at = "sharing" => <<x, call'[x].depth>> \in conn'
                           /\ call'[x].at = "locking" => <<x, call'[x].depth>> \in shared'
      <3> SUFFICES ASSUME NEW x \in Calls, call'[x].at \in {"sharing", "locking"}
                   PROVE  /\ call'[x].at = "sharing" => <<x, call'[x].depth>> \in conn'
                          /\ call'[x].at = "locking" => <<x, call'[x].depth>> \in shared'
        OBVIOUS
      <3>1. x # c
        BY <1>10
      <3>2. <<x, call'[x].depth>> # <<c, d>>
        BY <3>1
      <3>3. call'[x] = call[x]
        BY <1>11, <3>1
      <3>4. /\ call[x].at = "sharing" => <<x, call[x].depth>> \in conn
            /\ call[x].at = "locking" => <<x, call[x].depth>> \in shared
        BY DEF IInv, ConnectionsUsed, Section
      <3> QED  BY <1>2, <3>2, <3>3, <3>4
    <2>2. ASSUME NEW x \in Calls, NEW e \in Depths, <<x, e>> \in conn'
          PROVE  e =< call'[x].depth /\ ~Reenters(x, e)
      <3>1. e =< call[x].depth /\ ~Reenters(x, e) /\ (x = c => e # d)
        BY <1>2, <2>2 DEF IInv, ConnectionsUsed
      <3>2. CASE x = c
        BY <1>3, <1>10, <3>1, <3>2 DEF Depths, d
      <3>3. CASE x # c
        BY <1>11, <3>1, <3>3
      <3> QED  BY <3>2, <3>3
    <2> QED  BY <2>1, <2>2 DEF ConnectionsUsed, Section
  <1>18. PlacesKept'
    <2> SUFFICES ASSUME NEW x \in Calls, NEW e \in 1..call'[x].depth, ~Reenters(x, e)
                 PROVE  PlaceKept(x, e)'
      BY DEF PlacesKept
    <2>1. e \in 1..call[x].depth /\ ~(x = c /\ e = d)
      BY <1>3, <1>10
    <2>2. PlaceKept(x, e)
      BY <2>1 DEF IInv, PlacesKept
    <2>3. ProcOf[x] \in Procs /\ KeyAt(x, e) \in Keys
      <3>1. call'[x].depth =< Nesting(x)
        BY <1>13 DEF DepthsFit, DepthFits
      <3> QED  BY <1>10, <3>1, SectionsFit, LockAssumption DEF LockAssumption
    <2>4. CASE ProcOf[x] = p /\ KeyAt(x, e) = k
      <3>1. <<x, e>> # q[1]
        BY <1>7, <2>1
      <3>2. ~(e < call[x].depth \/ call[x].at # "queued")
        BY <2>2, <2>4, <3>1 DEF PlaceKept, q
      <3>3. x # c
        BY <1>2, <3>2
      <3>4. PICK j \in 1..Len(q) : q[j] = <<x, e>>
        BY <2>2, <2>4 DEF PlaceKept, q
      <3>5. \E i \in 1..Len(r) : r[i] = <<x, e>>
        <4>1. q[j] # q[1]
          BY <3>1, <3>4
        <4>2. \E i \in 1..Len(r) : r[i] = q[j]
          BY <1>8, <4>1
        <4> QED  BY <3>4, <4>2
      <3>6. queue'[ProcOf[x]][KeyAt(x, e)] = r
        BY <1>9, <2>4
      <3> QED  BY <1>11, <3>2, <3>3, <3>5, <3>6 DEF PlaceKept
    <2>5. CASE ~(ProcOf[x] = p /\ KeyAt(x, e) = k)
      <3>1. queue'[ProcOf[x]][KeyAt(x, e)] = queue[ProcOf[x]][KeyAt(x, e)]
        BY <1>9, <2>3, <2>5
      <3>2. e < call'[x].depth \/ call'[x].at # "queued"
              => e < call[x].depth \/ call[x].at # "queued"
        BY <1>2, <1>11
      <3> QED  BY <2>2, <3>1, <3>2 DEF PlaceKept
    <2> QED  BY <2>4, <2>5
  <1>19. QueuesClean'
    <2> SUFFICES ASSUME NEW pp \in Procs, NEW kk \in Keys PROVE QueueClean(pp, kk)'
      BY DEF QueuesClean
    <2>1. ASSUME NEW x \in Calls, NEW e \in Depths, e =< call[x].depth, ~(x = c /\ e = d)
          PROVE  e =< call'[x].depth
      <3>1. CASE x = c
        BY <1>3, <1>10, <2>1, <3>1 DEF Depths, d
      <3>2. CASE x # c
        BY <1>11, <2>1, <3>2
      <3> QED  BY <3>1, <3>2
    <2>2. CASE pp = p /\ kk = k
      <3>1. ASSUME NEW i \in 1..Len(r), NEW x \in Calls, NEW e \in Depths, r[i] = <<x, e>>
            PROVE  /\ ProcOf[x] = pp /\ KeyAt(x, e) = kk
                   /\ e =< call'[x].depth /\ ~Reenters(x, e)
        <4>1. PICK j \in 1..Len(q) : r[i] = q[j] /\ r[i] # q[1]
          BY <1>8
        <4>2. /\ ProcOf[x] = p /\ KeyAt(x, e) = k
              /\ e =< call[x].depth /\ ~Reenters(x, e)
          BY <1>6, <3>1, <4>1 DEF QueueClean, q
        <4>3. ~(x = c /\ e = d)
          BY <1>7, <3>1, <4>1
        <4> QED  BY <2>1, <2>2, <4>2, <4>3
      <3>2. queue'[pp][kk] = r
        BY <1>9, <2>2
      <3> QED  BY ZenonT(40), <1>8, <3>1, <3>2 DEF QueueClean
    <2>3. CASE ~(pp = p /\ kk = k)
      <3> DEFINE s == queue[pp][kk]
      <3>1. QueueClean(pp, kk) /\ queue'[pp][kk] = s
        BY <1>9, <2>3 DEF IInv, QueuesClean
      <3>2. ASSUME NEW i \in 1..Len(s), NEW x \in Calls, NEW e \in Depths, s[i] = <<x, e>>
            PROVE  /\ ProcOf[x] = pp /\ KeyAt(x, e) = kk
                   /\ e =< call'[x].depth /\ ~Reenters(x, e)
        <4>1. /\ ProcOf[x] = pp /\ KeyAt(x, e) = kk
              /\ e =< call[x].depth /\ ~Reenters(x, e)
          BY <3>1, <3>2 DEF QueueClean
        <4>2. ~(x = c /\ e = d)
          BY <2>3, <4>1 DEF p, k
        <4> QED  BY <2>1, <4>1, <4>2
      <3> QED  BY <3>1, <3>2 DEF QueueClean
    <2> QED  BY <2>2, <2>3
  <1>20. BarrierAlone'
    BY <1>2 DEF IInv, BarrierAlone
  <1> QED  BY <1>12, <1>13, <1>15, <1>16, <1>17, <1>18, <1>19, <1>20 DEF IInv

-----------------------------------------------------------------------------
(* What the sections' variables alone decide.                              *)
LEMMA SectionsStay ==
  ASSUME IInv, UNCHANGED <<call, queue, conn, shared, holder>>
  PROVE  /\ DepthsFit' /\ KeysHeld' /\ HoldersInside'
         /\ ConnectionsUsed' /\ PlacesKept' /\ QueuesClean'
PROOF
  <1>1. DepthsFit' /\ KeysHeld' /\ HoldersInside'
    BY DEF IInv, DepthsFit, DepthFits, KeysHeld, HoldersInside, DepthInside, Waits
  <1>2. ConnectionsUsed'
    BY DEF IInv, ConnectionsUsed, Section
  <1>3. PlacesKept'
    BY DEF IInv, PlacesKept, PlaceKept
  <1>4. QueuesClean'
    <2> SUFFICES ASSUME NEW p \in Procs, NEW k \in Keys PROVE QueueClean(p, k)'
      BY DEF QueuesClean
    <2>1. QueueClean(p, k)
      BY DEF IInv, QueuesClean
    <2> QED  BY <2>1 DEF QueueClean
  <1> QED  BY <1>1, <1>2, <1>3, <1>4

(* The backup touches no section.                                          *)
LEMMA BackupPreserves ==
  ASSUME IInv, RequestBarrier \/ TakeBarrier \/ LeaveBarrier
  PROVE  IInv'
PROOF
  <1>1. UNCHANGED <<call, queue, conn, shared, holder>>
    BY DEF RequestBarrier, TakeBarrier, LeaveBarrier
  <1>2. StateTyped'
    BY <1>1, LockAssumption
    DEF LockAssumption, IInv, StateTyped, RequestBarrier, TakeBarrier, LeaveBarrier
  <1>3. BarrierAlone'
    BY <1>1 DEF IInv, BarrierAlone, RequestBarrier, TakeBarrier, LeaveBarrier
  <1> QED  BY <1>1, <1>2, <1>3, SectionsStay DEF IInv

(* A stuttering step.                                                      *)
LEMMA StutterPreserves ==
  ASSUME IInv, UNCHANGED vars
  PROVE  IInv'
PROOF
  <1>1. UNCHANGED <<call, queue, conn, shared, holder>> /\ UNCHANGED <<backup, backups>>
    BY DEF vars
  <1>2. StateTyped' /\ BarrierAlone'
    BY <1>1 DEF IInv, StateTyped, BarrierAlone
  <1> QED  BY <1>1, <1>2, SectionsStay DEF IInv

(* The invariant is inductive.                                             *)
THEOREM Inductive == Spec => []IInv
PROOF
  <1>1. IInv /\ [Next]_vars => IInv'
    <2> SUFFICES ASSUME IInv, [Next]_vars PROVE IInv'
      OBVIOUS
    <2>1. ASSUME NEW c \in Calls, Advance(c) PROVE IInv'
      BY <2>1, EnterPreserves, ConnectPreserves, ShareBarrierPreserves, TakeKeyPreserves,
         OperatePreserves, UnlockKeyPreserves, ReleasePreserves DEF Advance
    <2>2. ASSUME NEW c \in Calls, TimesOut(c) PROVE IInv'
      BY <2>2, LockTimesOutPreserves, ConnectTimesOutPreserves DEF TimesOut
    <2> QED  BY <2>1, <2>2, BackupPreserves, StutterPreserves DEF Next
  <1> QED  BY <1>1, InitEstablishes, PTL DEF Spec

-----------------------------------------------------------------------------
(* What a call is inside of, by depth.                                     *)
LEMMA InsideIsHeld ==
  ASSUME IInv, NEW c \in Calls, NEW k \in Inside(c)
  PROVE  holder[k] = c
PROOF
  <1>1. PICK e \in 1..DepthInside(c) : k = KeyAt(c, e)
    BY DEF Inside, DepthInside
  <1> QED  BY <1>1 DEF IInv, KeysHeld

(* A section takes a connection only while its process has one free; no    *)
(* other step adds one.                                                    *)
PoolFits == /\ IsFiniteSet(conn)
            /\ \A p \in Procs : Cardinality(Pooled(p)) =< PoolMax

(* The connections of one process, after a section took or gave one back.  *)
LEMMA PoolStep ==
  ASSUME PoolFits, [Next]_vars
  PROVE  PoolFits'
PROOF
  <1>1. \A p \in Procs : IsFiniteSet(Pooled(p)) /\ Cardinality(Pooled(p)) \in Nat
    BY FS_Subset, FS_CardinalityType DEF PoolFits, Pooled
  <1>2. PoolMax \in Nat
    BY LockAssumption DEF LockAssumption
  <1>3. ASSUME NEW c \in Calls, Connect(c) PROVE PoolFits'
    <2>1. IsFiniteSet(conn')
      BY <1>3, FS_AddElement DEF PoolFits, Connect
    <2>2. ASSUME NEW p \in Procs PROVE Cardinality(Pooled(p)') =< PoolMax
      <3>1. CASE p = ProcOf[c]
        <4>1. Pooled(p)' = Pooled(p) \cup {Section(c)}
          BY <1>3, <3>1 DEF Connect, Pooled, Section
        <4>2. Cardinality(Pooled(p)') \in {Cardinality(Pooled(p)), Cardinality(Pooled(p)) + 1}
          BY <1>1, <4>1, FS_AddElement
        <4>3. Cardinality(Pooled(p)) < PoolMax
          BY <1>3, <3>1 DEF Connect, PoolFree
        <4>4. Cardinality(Pooled(p)) \in Nat
          BY <1>1
        <4> QED  BY <1>2, <4>2, <4>3, <4>4
      <3>2. CASE p # ProcOf[c]
        <4>1. Pooled(p)' = Pooled(p)
          BY <1>3, <3>2 DEF Connect, Pooled, Section
        <4> QED  BY <4>1 DEF PoolFits
      <3> QED  BY <3>1, <3>2
    <2> QED  BY <2>1, <2>2 DEF PoolFits
  <1>4. ASSUME conn' \subseteq conn PROVE PoolFits'
    <2>1. IsFiniteSet(conn')
      BY <1>4, FS_Subset DEF PoolFits
    <2>2. ASSUME NEW p \in Procs PROVE Cardinality(Pooled(p)') =< PoolMax
      <3>1. Pooled(p)' \subseteq Pooled(p)
        BY <1>4 DEF Pooled
      <3>2. /\ Cardinality(Pooled(p)') \in Nat
            /\ Cardinality(Pooled(p)') =< Cardinality(Pooled(p))
        BY <1>1, <3>1, FS_Subset, FS_CardinalityType
      <3> QED  BY <1>1, <1>2, <3>2 DEF PoolFits
    <2> QED  BY <2>1, <2>2 DEF PoolFits
  <1>5. (\A c \in Calls : ~Connect(c)) => conn' \subseteq conn
    BY DEF Next, Advance, TimesOut, Enter, ShareBarrier, TakeKey, Operate, UnlockKey, Release,
       LockTimesOut, ConnectTimesOut, RequestBarrier, TakeBarrier, LeaveBarrier, vars
  <1> QED  BY <1>3, <1>4, <1>5

(* Every step keeps the calls, the queues and the locks well typed, and no *)
(* process holds more connections than OWNMINUTES_POSTGRES_POOL_MAX.       *)
THEOREM TypeCorrect == Spec => []TypeOK
PROOF
  <1>1. Init => PoolFits
    <2> SUFFICES ASSUME Init PROVE PoolFits
      OBVIOUS
    <2>1. \A p \in Procs : Pooled(p) = {}
      BY DEF Init, Pooled
    <2>2. \A p \in Procs : Cardinality(Pooled(p)) = 0
      BY <2>1, FS_EmptySet
    <2>3. IsFiniteSet(conn)
      BY FS_EmptySet DEF Init
    <2>4. PoolMax \in Nat
      BY LockAssumption DEF LockAssumption
    <2> QED  BY <2>2, <2>3, <2>4 DEF PoolFits
  <1>2. PoolFits /\ [Next]_vars => PoolFits'
    BY PoolStep
  <1>3. IInv /\ PoolFits => TypeOK
    BY DEF IInv, PoolFits, TypeOK
  <1> QED  BY <1>1, <1>2, <1>3, Inductive, PTL DEF Spec

(* Whatever times out and however sections nest, no two calls of any       *)
(* processes are in sections of one key (withValidatedMeetingWriteLock and *)
(* its advisory lock), as long as a section keeps its database session.    *)
THEOREM Exclusion == Spec => []SectionsExclude
PROOF
  <1>1. IInv => SectionsExclude
    <2> SUFFICES ASSUME IInv, NEW c \in Calls, NEW d \in Calls,
                        NEW k \in Inside(c) \cap Inside(d)
                 PROVE  c = d
      BY DEF SectionsExclude
    <2>1. k \in Inside(c) /\ k \in Inside(d)
      OBVIOUS
    <2>2. holder[k] = c /\ holder[k] = d
      BY <2>1, InsideIsHeld
    <2> QED  BY <2>2
  <1> QED  BY <1>1, Inductive, PTL

(* While the backup holds the barrier no call is in any section            *)
(* (production-backup.mjs and the shared barrier lock).                    *)
THEOREM BackupAlone == Spec => []BackupIsAlone
PROOF
  <1>1. IInv => BackupIsAlone
    <2> SUFFICES ASSUME IInv, backup = "holding", NEW c \in Calls, NEW k \in Inside(c)
                 PROVE  FALSE
      BY DEF BackupIsAlone
    <2>1. PICK e \in 1..DepthInside(c) : k = KeyAt(c, e)
      BY DEF Inside, DepthInside
    <2>2. DepthInside(c) \in Int /\ 1 \in 1..DepthInside(c)
      <3>1. call[c].depth \in 0..2
        BY DEF IInv, StateTyped
      <3>2. DepthInside(c) \in Int
        BY <3>1 DEF DepthInside
      <3> QED  BY <2>1, <3>2
    <2>3. <<c, 1>> \in shared
      BY <2>2, SectionsFit DEF IInv, KeysHeld
    <2> QED  BY <2>3 DEF IInv, BarrierAlone
  <1> QED  BY <1>1, Inductive, PTL

(* A call that is over, served or refused, holds no key, no connection, no *)
(* share of the barrier and no place in a queue; and no lock outlives its  *)
(* section (the finally blocks of withPostgresAdvisoryLock).               *)
THEOREM NothingLeft == Spec => []NothingLeftBehind
PROOF
  <1>1. IInv => NothingLeftBehind
    <2> SUFFICES ASSUME IInv PROVE NothingLeftBehind
      OBVIOUS
    <2>1. ASSUME NEW c \in Calls, Over(c)
          PROVE  /\ c \notin {holder[k] : k \in Keys}
                 /\ \A s \in conn \cup shared : s[1] # c
                 /\ \A p \in Procs, k \in Keys : \A s \in Range(queue[p][k]) : s[1] # c
      <3>1. call[c].depth = 0 /\ call[c].done
        BY <2>1 DEF Over
      <3>2. DepthInside(c) = 0
        <4>1. DepthFits(c)
          BY DEF IInv, DepthsFit
        <4>2. ~Waits(c) /\ call[c].at # "releasing"
          BY <3>1, <4>1 DEF DepthFits
        <4> QED  BY <3>1, <4>2 DEF DepthInside
      <3>3. \A k \in Keys : holder[k] # c
        BY <3>2 DEF IInv, HoldersInside
      <3>4. ASSUME NEW s \in conn \cup shared PROVE s[1] # c
        <4>1. PICK x \in Calls, e \in Depths : s = <<x, e>>
          BY DEF IInv, StateTyped
        <4>2. e =< call[x].depth
          <5>1. s \in conn
            BY DEF IInv, StateTyped
          <5> QED  BY <4>1, <5>1 DEF IInv, ConnectionsUsed
        <4> QED  BY <3>1, <4>1, <4>2 DEF Depths
      <3>5. ASSUME NEW p \in Procs, NEW k \in Keys, NEW s \in Range(queue[p][k])
            PROVE  s[1] # c
        <4> DEFINE q == queue[p][k]
        <4>1. q \in Seq(Calls \X Depths) /\ QueueClean(p, k)
          BY DEF IInv, StateTyped, QueuesClean
        <4>2. PICK i \in 1..Len(q) : s = q[i]
          BY <4>1 DEF Range
        <4>3. PICK x \in Calls, e \in Depths : s = <<x, e>>
          BY <4>1, <4>2
        <4>4. e =< call[x].depth
          BY <4>1, <4>2, <4>3 DEF QueueClean
        <4> QED  BY <3>1, <4>3, <4>4 DEF Depths
      <3> QED  BY <3>3, <3>4, <3>5
    <2>2. ASSUME NEW k \in Keys, holder[k] # None PROVE k \in Inside(holder[k])
      <3>1. holder[k] \in Calls
        BY <2>2 DEF IInv, StateTyped
      <3>2. PICK e \in 1..DepthInside(holder[k]) : KeyAt(holder[k], e) = k
        BY <3>1 DEF IInv, HoldersInside
      <3> QED  BY <3>2 DEF Inside, DepthInside
    <2> QED  BY <2>1, <2>2 DEF NothingLeftBehind
  <1> QED  BY <1>1, Inductive, PTL

-----------------------------------------------------------------------------
(* The order of the locks: users' keys before all others.                  *)
Inner(k) == k \notin {UserOf[c] : c \in Calls}

(* A call that waits at its second section waits for an inner key, and its *)
(* first section is a user's.                                              *)
LEMMA UsersFirst ==
  ASSUME NEW c \in Calls, Nesting(c) = 2, ~Reenters(c, 2)
  PROVE  ~Inner(KeyAt(c, 1)) /\ Inner(KeyAt(c, 2))
PROOF
  <1>1. KindOf[c] \in Kinds /\ \A x \in Calls : UserOf[x] # MeetingOf[c]
    BY LockAssumption DEF LockAssumption
  <1>2. CASE KindOf[c] = "mutation"
    <2>1. Sections(c) = <<UserOf[c], MeetingOf[c]>>
      BY <1>2 DEF Sections
    <2> QED  BY <1>1, <2>1 DEF KeyAt, Inner
  <1>3. CASE KindOf[c] = "publication"
    <2>1. Sections(c) = <<MeetingOf[c], MeetingOf[c]>>
      BY <1>3 DEF Sections
    <2>2. Reenters(c, 2)
      BY <2>1 DEF Reenters, KeyAt
    <2> QED  BY <2>2
  <1>4. CASE KindOf[c] = "transfer"
    <2>1. Sections(c) = <<UploadOf[c]>>
      BY <1>4 DEF Sections
    <2> QED  BY <2>1 DEF Nesting
  <1> QED  BY <1>1, <1>2, <1>3, <1>4 DEF Kinds

(* With no backup and a connection to spare, a call that cannot go on is   *)
(* behind another in its queue or waits for a key somebody has.            *)
Stuck(c) ==
  /\ ~Over(c)
  /\ \/ call[c].at = "queued" /\ ~First(c)
     \/ call[c].at = "locking" /\ holder[Key(c)] # None

AllStuck ==
  /\ backup = "idle" /\ \A p \in Procs : PoolFree(p)
  /\ \A c \in Calls : Over(c) \/ Stuck(c)

LEMMA StuckIfNoneGoesOn ==
  ASSUME StateTyped, backup = "idle", \A p \in Procs : PoolFree(p),
         \A c \in Calls : Over(c) \/ ~CanGoOn(c)
  PROVE  AllStuck
PROOF
  <1> SUFFICES ASSUME NEW c \in Calls, ~Over(c), ~CanGoOn(c) PROVE Stuck(c)
    BY DEF AllStuck
  <1>1. PoolFree(ProcOf[c]) /\ call[c].at \in Steps
    BY LockAssumption DEF LockAssumption, StateTyped
  <1>2. call[c].at \notin {"unlocking", "releasing"}
    BY DEF CanGoOn
  <1>3. call[c].at # "running"
    BY <1>1 DEF CanGoOn
  <1>4. call[c].at # "sharing"
    BY DEF CanGoOn
  <1>5. call[c].at = "queued" => ~First(c)
    BY <1>1 DEF CanGoOn
  <1>6. call[c].at = "locking" => holder[Key(c)] # None
    BY DEF CanGoOn
  <1> QED  BY <1>1, <1>2, <1>3, <1>4, <1>5, <1>6 DEF Stuck, Steps

(* Whoever is in the way of a stuck call is stuck itself: at the same key, *)
(* waiting for its lock; or, past that key, at an inner one.               *)
LEMMA InTheWay ==
  ASSUME IInv, AllStuck, NEW c \in Calls, Stuck(c)
  PROVE  \E x \in Calls :
           /\ Stuck(x)
           /\ \/ /\ call[c].at = "queued" /\ call[x].at = "locking"
                 /\ Key(x) = Key(c)
              \/ ~Inner(Key(c)) /\ Inner(Key(x))
PROOF
  <1> DEFINE k == Key(c)
             d == call[c].depth
  <1>t. /\ StateTyped /\ \A x \in Calls : DepthFits(x) /\ call[x].depth \in 0..2
        /\ ProcOf[c] \in Procs
    BY LockAssumption DEF LockAssumption, IInv, StateTyped, DepthsFit
  <1>1. d \in 1..Nesting(c) /\ Waits(c) /\ k = KeyAt(c, d) /\ k \in Keys
        /\ ~Reenters(c, d)
    BY <1>t, SectionsFit DEF Stuck, DepthFits, Waits, Key
  <1>2. ASSUME NEW x \in Calls, NEW e \in 1..call[x].depth,
               KeyAt(x, e) = k, ~Reenters(x, e), e < call[x].depth, Stuck(x)
        PROVE  ~Inner(Key(c)) /\ Inner(Key(x))
    <2>1. e = 1 /\ call[x].depth = 2 /\ Nesting(x) = 2 /\ ~Reenters(x, 2)
      BY <1>t, <1>2, SectionsFit DEF Stuck, DepthFits
    <2>2. ~Inner(KeyAt(x, 1)) /\ Inner(KeyAt(x, 2))
      BY <2>1, UsersFirst
    <2> QED  BY <1>2, <2>1, <2>2 DEF Key
  <1>4. CASE call[c].at = "queued" /\ ~First(c)
    <2> DEFINE q == queue[ProcOf[c]][k]
    <2>1. PlaceKept(c, d)
      BY <1>1, <1>t DEF IInv, PlacesKept
    <2>2. q \in Seq(Calls \X Depths) /\ Len(q) > 0 /\ QueueClean(ProcOf[c], k)
      <3>1. q \in Seq(Calls \X Depths) /\ QueueClean(ProcOf[c], k)
        BY <1>t, <1>1 DEF StateTyped, IInv, QueuesClean
      <3>2. \E i \in 1..Len(q) : q[i] = <<c, d>>
        BY <1>1, <2>1 DEF PlaceKept
      <3> QED  BY <3>1, <3>2
    <2>3. PICK x \in Calls, e \in Depths : q[1] = <<x, e>>
      BY <2>2
    <2>4. ProcOf[x] = ProcOf[c] /\ KeyAt(x, e) = k /\ e =< call[x].depth /\ ~Reenters(x, e)
      <3> HIDE DEF k
      <3>1. 1 \in 1..Len(q)
        BY <2>2
      <3> QED  BY <2>2, <2>3, <3>1 DEF QueueClean
    <2>5. call[x].depth > 0 /\ Stuck(x)
      BY <1>t, <2>4 DEF AllStuck, Over, Depths
    <2>6. CASE e < call[x].depth
      BY <1>2, <1>t, <2>4, <2>5, <2>6 DEF Depths
    <2>7. CASE e = call[x].depth
      <3>1. Key(x) = k /\ Section(x) = q[1]
        BY <2>3, <2>4, <2>7 DEF Key, Section
      <3>2. First(x)
        BY <2>2, <2>4, <3>1 DEF First
      <3> QED  BY <1>4, <2>5, <3>1, <3>2 DEF Stuck
    <2> QED  BY <1>t, <2>4, <2>6, <2>7 DEF Depths
  <1>5. CASE call[c].at = "locking" /\ holder[Key(c)] # None
    <2>1. PICK x \in Calls : holder[k] = x
      BY <1>t, <1>1, <1>5 DEF StateTyped
    <2>2. PICK e \in 1..DepthInside(x) : KeyAt(x, e) = k
      BY <1>1, <2>1 DEF IInv, HoldersInside
    <2>3. DepthInside(x) =< call[x].depth /\ call[x].depth > 0 /\ DepthInside(x) \in Int
      BY <1>t, <2>2 DEF DepthInside
    <2>4. Stuck(x)
      BY <1>t, <2>3 DEF AllStuck, Over
    <2>5. e < call[x].depth /\ e \in 1..call[x].depth
      BY <1>t, <2>2, <2>3, <2>4 DEF DepthInside, Stuck, Waits
    <2>6. e = 1 /\ ~Reenters(x, e)
      BY <1>t, <2>5, SectionsFit
    <2> QED  BY <1>2, <2>2, <2>4, <2>5, <2>6
  <1> QED  BY <1>4, <1>5 DEF Stuck

(* The order of the locks closes no circle: with no backup under way and a *)
(* connection to spare in every pool, some call that is not over goes on   *)
(* without any timeout (withUserWriteLock before withMeetingWriteLock).    *)
THEOREM NoCircle == Spec => []OrderIsSafe
PROOF
  <1>1. IInv => OrderIsSafe
    <2> SUFFICES ASSUME IInv, backup = "idle", \A p \in Procs : PoolFree(p),
                        \A c \in Calls : Over(c) \/ ~CanGoOn(c),
                        NEW c \in Calls, ~Over(c)
                 PROVE  FALSE
      BY DEF OrderIsSafe
    <2>1. AllStuck /\ Stuck(c)
      BY StuckIfNoneGoesOn DEF IInv, AllStuck
    <2>2. \A x \in Calls : ~(Stuck(x) /\ call[x].at = "locking" /\ Inner(Key(x)))
      BY <2>1, InTheWay DEF Stuck
    <2>3. \A x \in Calls : ~(Stuck(x) /\ Inner(Key(x)))
      BY <2>1, <2>2, InTheWay
    <2>4. \A x \in Calls : ~(Stuck(x) /\ call[x].at = "locking")
      BY <2>1, <2>3, InTheWay
    <2> QED  BY <2>1, <2>3, <2>4, InTheWay
  <1> QED  BY <1>1, Inductive, PTL

=============================================================================
