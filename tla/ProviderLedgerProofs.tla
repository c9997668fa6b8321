------------------------ MODULE ProviderLedgerProofs ------------------------
(***************************************************************************)
(* Theorems about the official-minutes ledger, for any number of meetings, *)
(* operations, callers and minutes.                                        *)
(***************************************************************************)
EXTENDS ProviderLedger, FunctionTheorems, FiniteSetTheorems, TLAPS

(* The minutes pending elsewhere are a number: finitely many reservations  *)
(* hold finitely many minutes each (postgresPendingCapacity).              *)
LEMMA PendingIsNat ==
  ASSUME TypeOK, NEW o \in Ops
  PROVE  Cardinality(HeldByOthers(o)) \in Nat
PROOF
  <1> DEFINE Live == {q \in Ops \ {o} : res[q].status = "reserved" /\ res[q].live}
             Held(p) == {<<p, m>> : m \in (res[p].settled + 1)..res[p].reserved}
             Parts == {Held(p) : p \in Live}
  <1>1. IsFiniteSet(Live)
    BY LedgerAssumption, FS_Subset DEF LedgerAssumption
  <1>2. IsFiniteSet(Parts)
    <2> DEFINE f == [p \in Live |-> Held(p)]
    <2>1. f \in Surjection(Live, Parts)
      BY DEF Surjection
    <2> QED  BY <1>1, <2>1, FS_Surjection
  <1>3. \A T \in Parts : IsFiniteSet(T)
    <2> SUFFICES ASSUME NEW p \in Live PROVE IsFiniteSet(Held(p))
      OBVIOUS
    <2> DEFINE I == (res[p].settled + 1)..res[p].reserved
               g == [m \in I |-> <<p, m>>]
    <2>1. IsFiniteSet(I)
      <3>1. res[p].settled + 1 \in Int /\ res[p].reserved \in Int
        BY DEF TypeOK, ReservationRow
      <3> QED  BY <3>1, FS_Interval
    <2>2. g \in Surjection(I, Held(p))
      BY DEF Surjection
    <2> QED  BY <2>1, <2>2, FS_Surjection
  <1>4. HeldByOthers(o) = UNION Parts
    BY DEF HeldByOthers
  <1> QED  BY <1>2, <1>3, <1>4, FS_UNION, FS_CardinalityType

(* The minutes an archive copies are a number (SettledBy).                 *)
LEMMA SettledByIsNat ==
  ASSUME TypeOK, NEW ops \in SUBSET Ops
  PROVE  SettledBy(ops) \in Nat
PROOF
  <1> DEFINE Cells == (ops \X StageKeys) \X (1..(FreeTotal + PaidTotal))
  <1>1. IsFiniteSet(ops)
    BY LedgerAssumption, FS_Subset DEF LedgerAssumption
  <1>2. IsFiniteSet(StageKeys)
    <2>1. IsFiniteSet({"realtime:1"} \cup {"realtime:2"})
      BY FS_Singleton, FS_AddElement
    <2>2. IsFiniteSet(({"realtime:1"} \cup {"realtime:2"}) \cup {"asr"})
      BY <2>1, FS_AddElement
    <2>3. IsFiniteSet((({"realtime:1"} \cup {"realtime:2"}) \cup {"asr"})
                        \cup {"summary"})
      BY <2>2, FS_AddElement
    <2>4. StageKeys = (({"realtime:1"} \cup {"realtime:2"}) \cup {"asr"})
                        \cup {"summary"}
      BY DEF StageKeys
    <2> QED  BY <2>3, <2>4
  <1>3. IsFiniteSet(1..(FreeTotal + PaidTotal))
    <2>1. FreeTotal + PaidTotal \in Int
      BY LedgerAssumption DEF LedgerAssumption
    <2> QED  BY <2>1, FS_Interval
  <1>4. IsFiniteSet(Cells)
    BY <1>1, <1>2, <1>3, FS_Product
  <1>5. {minute \in Cells : minute[2] =< step[minute[1]].settled} \in SUBSET Cells
    OBVIOUS
  <1> QED  BY <1>4, <1>5, FS_Subset, FS_CardinalityType DEF SettledBy

Statuses == {"none", "claimed", "started", "completed", "released"}

(* What the UPDATE statements of the provider steps keep well typed.        *)
LEMMA StepRowUpdates ==
  ASSUME NEW r \in StepRow, NEW st \in Statuses, NEW n \in Nat, NEW f \in Nat,
         NEW p \in Nat
  PROVE  /\ [r EXCEPT !.status = st] \in StepRow
         /\ [r EXCEPT !.lease = FALSE] \in StepRow
         /\ [r EXCEPT !.status = st, !.settled = n] \in StepRow
         /\ [r EXCEPT !.status = st, !.settled = n, !.free = f] \in StepRow
         /\ [r EXCEPT !.status = st, !.settled = n, !.free = f, !.period = p]
              \in StepRow
PROOF
  BY DEF StepRow, Statuses

(* The upsert of a reservation, and a change of what it settled.            *)
LEMMA ReservationRowUpdates ==
  ASSUME NEW r \in ReservationRow, NEW n \in Nat, NEW q \in Nat
  PROVE  /\ [r EXCEPT !.settled = n] \in ReservationRow
         /\ [r EXCEPT !.status = "reserved", !.reserved = n, !.live = TRUE,
                      !.seq = q] \in ReservationRow
PROOF
  BY DEF ReservationRow

(* The counters of the users row after a start, a refund or a plan change.  *)
LEMMA UserRowUpdates ==
  ASSUME NEW u \in UserRow, NEW n \in Nat, NEW f \in Nat, NEW t \in Nat,
         NEW p \in Nat, NEW plan \in {"free", "paid"}
  PROVE  /\ [u EXCEPT !.used = n, !.freeUsed = f] \in UserRow
         /\ [u EXCEPT !.freeUsed = f, !.used = n] \in UserRow
         /\ [u EXCEPT !.period = p] \in UserRow
         /\ [u EXCEPT !.plan = plan, !.total = t, !.used = n] \in UserRow
         /\ [u EXCEPT !.plan = plan, !.total = t, !.used = n, !.period = p]
              \in UserRow
         /\ [u EXCEPT !.plan = plan, !.total = t, !.used = n, !.period = p,
                      !.freeUsed = f] \in UserRow
PROOF
  BY DEF UserRow

Plans == {"free", "paid"}

(* A plan put on the users row keeps it well typed, touches neither the    *)
(* trial's counter nor the deletion, and never leaves more used than total. *)
LEMMA PlanUpdates ==
  ASSUME NEW u \in UserRow, NEW plan \in Plans
  PROVE  /\ RestoreFree(u) \in UserRow
         /\ RestoreFree(u).deleted = u.deleted
         /\ RestoreFree(u).freeUsed = u.freeUsed
         /\ RestoreFree(u).used = u.freeUsed
         /\ RestoreFree(u).total = FreeTotal
         /\ Granted(u, plan) \in UserRow
         /\ Granted(u, plan).deleted = u.deleted
         /\ Granted(u, plan).freeUsed = u.freeUsed
         /\ Granted(u, plan).used =< Granted(u, plan).total
PROOF
  <1> DEFINE m == PlanMinutes(plan)
             n == Least(u.used, m)
  <1>1. m \in Nat
    BY LedgerAssumption DEF LedgerAssumption, PlanMinutes
  <1>2. n \in Nat /\ n =< m
    BY <1>1 DEF Least, UserRow
  <1>3. Granted(u, plan) = [u EXCEPT !.plan = plan, !.total = m, !.used = n]
    BY DEF Granted
  <1>4. FreeTotal \in Nat /\ FreePeriod \in Nat
    BY LedgerAssumption DEF LedgerAssumption, FreePeriod
  <1>5. /\ RestoreFree(u) \in UserRow
        /\ RestoreFree(u).deleted = u.deleted
        /\ RestoreFree(u).freeUsed = u.freeUsed
        /\ RestoreFree(u).used = u.freeUsed
        /\ RestoreFree(u).total = FreeTotal
    BY <1>4 DEF RestoreFree, UserRow
  <1> HIDE DEF m, n
  <1>6. LET r == [u EXCEPT !.plan = plan, !.total = m, !.used = n]
        IN  /\ r \in UserRow /\ r.deleted = u.deleted
            /\ r.freeUsed = u.freeUsed /\ r.used = n /\ r.total = m
    BY <1>1, <1>2 DEF UserRow, Plans
  <1> QED  BY <1>2, <1>3, <1>5, <1>6

(* Moving the users row to another period changes nothing else of it. *)
LEMMA PeriodUpdate ==
  ASSUME NEW u \in UserRow, NEW n \in Nat
  PROVE  LET r == [u EXCEPT !.period = n]
         IN  /\ r \in UserRow /\ r.deleted = u.deleted /\ r.used = u.used
             /\ r.total = u.total /\ r.freeUsed = u.freeUsed
PROOF
  BY DEF UserRow

(* What a revocation and a refresh may leave on the users row. *)
LEMMA PlanSteps ==
  ASSUME TypeOK
  PROVE  /\ \A g \in grants :
              RevokeGrant(g) \/ GrantExpires(g) =>
                \/ user' = user \/ user' = RestoreFree(user)
                \/ \E plan \in Plans : user' = Granted(user, plan)
         /\ RefreshEntitlements =>
              \/ user' = user \/ user' = RestoreFree(user)
              \/ \E plan \in Plans, n \in Nat :
                   user' = [Granted(user, plan) EXCEPT !.period = n]
PROOF
  <1>1. grants \subseteq GrantRow
    BY DEF TypeOK
  <1>2. \A g \in grants : /\ ActivePlans(grants \ {g}) \subseteq Plans
                          /\ g.prev \in Plans /\ g.plan \in Plans
                          /\ g.order \in Nat
    BY <1>1 DEF ActivePlans, Newest, GrantRow, Plans
  <1>3. ASSUME NEW g \in grants, RevokeGrant(g) \/ GrantExpires(g)
        PROVE  \/ user' = user \/ user' = RestoreFree(user)
               \/ \E plan \in Plans : user' = Granted(user, plan)
    BY <1>2, <1>3 DEF RevokeGrant, GrantExpires
  <1>4. ASSUME RefreshEntitlements
        PROVE  \/ user' = user \/ user' = RestoreFree(user)
               \/ \E plan \in Plans, n \in Nat :
                    user' = [Granted(user, plan) EXCEPT !.period = n]
    BY <1>2, <1>4 DEF RefreshEntitlements, Newest
  <1> QED  BY <1>3, <1>4

(* A revocation and a refresh keep the users row well typed and undeleted. *)
LEMMA PlanStepsKeep ==
  ASSUME TypeOK,
         \/ RefreshEntitlements
         \/ \E g \in grants : RevokeGrant(g) \/ GrantExpires(g)
  PROVE  user' \in UserRow /\ user'.deleted = user.deleted
PROOF
  <1>1. user \in UserRow
    BY DEF TypeOK
  <1>2. CASE user' = user
    BY <1>1, <1>2
  <1>3. CASE user' = RestoreFree(user)
    <2>1. "free" \in Plans
      BY DEF Plans
    <2> QED  BY <1>1, <1>3, <2>1, PlanUpdates
  <1>4. CASE \E plan \in Plans : user' = Granted(user, plan)
    BY <1>1, <1>4, PlanUpdates
  <1>5. ASSUME NEW plan \in Plans, NEW n \in Nat,
               user' = [Granted(user, plan) EXCEPT !.period = n]
        PROVE  user' \in UserRow /\ user'.deleted = user.deleted
    <2>1. Granted(user, plan) \in UserRow /\ Granted(user, plan).deleted = user.deleted
      BY <1>1, PlanUpdates
    <2> QED  BY <1>5, <2>1, PeriodUpdate
  <1> QED  BY <1>2, <1>3, <1>4, <1>5, PlanSteps

-----------------------------------------------------------------------------
(***************************************************************************)
(* The invariant of the cost fence.  A caller past its start owns a step   *)
(* nobody else can claim, for as long as its meeting exists; a paid call   *)
(* that still counts leaves its step started or completed.                 *)
(***************************************************************************)
Key(c) == <<call[c].op, call[c].stage>>

InFlight(c) == call[c].phase \in {"calling", "returned", "saved", "rejected"}

CallsHaveSteps ==
  \A c \in Callers : call[c].phase # "idle" =>
    call[c].op \in Ops /\ call[c].stage \in StageKeys

SpentIsBit == \A k \in Ops \X StageKeys : spent[k] \in {0, 1}

PaidCalls ==
  \A c \in Callers : call[c].phase \in {"calling", "returned", "saved"} =>
                        spent[Key(c)] = 1

OwnStarted ==
  \A c \in Callers : InFlight(c) /\ Fenced(call[c].op) =>
    /\ step[Key(c)].status \in {"started", "completed"}
    /\ step[Key(c)].token = c
    /\ call[c].phase \in {"calling", "rejected"} =>
         step[Key(c)].status = "started"
    /\ call[c].phase = "rejected" => spent[Key(c)] = 0

PaidIsStarted ==
  \A k \in Ops \X StageKeys : spent[k] = 1 /\ Fenced(k[1]) =>
    step[k].status \in {"started", "completed"}

OneCallPerStep ==
  \A c, d \in Callers : c # d /\ InFlight(c) /\ InFlight(d) => Key(c) # Key(d)

DurableIsPaid == \A k \in durable : spent[k] = 1

CallingIsNotDurable ==
  \A c \in Callers : call[c].phase = "calling" => Key(c) \notin durable

FenceInv ==
  /\ TypeOK
  /\ CallsHaveSteps
  /\ SpentIsBit
  /\ PaidCalls
  /\ OwnStarted
  /\ PaidIsStarted
  /\ OneCallPerStep
  /\ DurableIsPaid
  /\ CallingIsNotDurable

(* The cost fence's invariant holds of an account with an empty ledger.     *)
LEMMA FenceInit == Init => FenceInv
PROOF
  <1> SUFFICES ASSUME Init PROVE FenceInv
    OBVIOUS
  <1> USE LedgerAssumption DEF LedgerAssumption, Init, NoOp
  <1>1. TypeOK
    BY DEF TypeOK, UserRow, PlanRead, ReservationRow, StepRow, EventRow, CallState,
           NoManual, NoReservation, NoStep, NoEvent, FreePeriod, Phases
  <1>2. CallsHaveSteps /\ SpentIsBit /\ PaidCalls
    BY DEF CallsHaveSteps, SpentIsBit, PaidCalls
  <1>3. OwnStarted /\ PaidIsStarted /\ OneCallPerStep
    BY DEF OwnStarted, PaidIsStarted, OneCallPerStep, InFlight
  <1>4. DurableIsPaid /\ CallingIsNotDurable
    BY DEF DurableIsPaid, CallingIsNotDurable
  <1> QED  BY <1>1, <1>2, <1>3, <1>4 DEF FenceInv

(***************************************************************************)
(* Every transaction leaves the rows well typed.  Only two subtract        *)
(* without Monus: a definitive refusal, which follows a paid call, and the *)
(* refund, behind provider_step_refund_conflict.                           *)
(***************************************************************************)
LEMMA TypeStep == FenceInv /\ [Next]_vars => TypeOK'
PROOF
  <1> SUFFICES ASSUME FenceInv, [Next]_vars PROVE TypeOK'
    OBVIOUS
  <1> USE LedgerAssumption DEF LedgerAssumption
  <1>t. TypeOK /\ CallsHaveSteps
    BY DEF FenceInv
  <1>c. ASSUME NEW c \in Callers, NEW p \in Phases
        PROVE  /\ NoOp \in CallState
               /\ [call EXCEPT ![c] = NoOp] \in [Callers -> CallState]
               /\ [call EXCEPT ![c].phase = p] \in [Callers -> CallState]
    BY ZenonT(40), <1>t DEF TypeOK, CallState, NoOp, Phases
  <1>p. /\ "claimed" \in Phases /\ "refused" \in Phases /\ "calling" \in Phases
        /\ "returned" \in Phases /\ "saved" \in Phases /\ "rejected" \in Phases
    BY DEF Phases
  <1>s. ASSUME NEW k \in Ops \X StageKeys,
               NEW st \in Statuses
        PROVE  /\ [step[k] EXCEPT !.status = st] \in StepRow
               /\ [step EXCEPT ![k].status = st] \in [Ops \X StageKeys -> StepRow]
    <2>1. step[k] \in StepRow
      BY <1>t DEF TypeOK
    <2>2. [step[k] EXCEPT !.status = st] \in StepRow
      BY <2>1, StepRowUpdates DEF Statuses
    <2>3. [step EXCEPT ![k].status = st]
            = [step EXCEPT ![k] = [step[k] EXCEPT !.status = st]]
      OBVIOUS
    <2> QED  BY <1>t, <2>2, <2>3 DEF TypeOK
  <1>l. ASSUME NEW o \in Ops
        PROVE  [res EXCEPT ![o].live = FALSE] \in [Ops -> ReservationRow]
    BY ZenonT(40), <1>t DEF TypeOK, ReservationRow
  <1>1. ASSUME NEW o \in Ops, ReserveRealtime(o) \/ ReserveFinalization(o)
        PROVE  TypeOK'
    <2>1. PICK minutes \in Nat, seq \in Nat : ReserveUpTo(o, minutes, seq)
      BY <1>1, <1>t DEF ReserveRealtime, ReserveFinalization, MaxChunks, TypeOK,
                        ReservationRow
    <2>2. res' \in [Ops -> ReservationRow]
      <3> DEFINE target == Greatest(res[o].reserved, minutes)
                 row == [res[o] EXCEPT !.status = "reserved", !.reserved = target,
                                       !.live = TRUE, !.seq = seq]
      <3>1. res[o] \in ReservationRow /\ target \in Nat
        BY <1>t DEF TypeOK, ReservationRow, Greatest
      <3>2. row \in ReservationRow
        BY <3>1, ReservationRowUpdates
      <3>3. res' = [res EXCEPT ![o] = row]
        BY <1>t, <2>1 DEF ReserveUpTo, TypeOK
      <3> QED  BY <1>t, <3>2, <3>3 DEF TypeOK
    <2> QED
      BY <1>1, <1>t, <2>2
      DEF ReserveRealtime, ReserveFinalization, TypeOK, planVars, archiveVars,
          callerVars
  <1>2. ASSUME NEW o \in Ops, ReleaseReservation(o) PROVE TypeOK'
    <2>1. step' \in [Ops \X StageKeys -> StepRow]
      <3>1. \A k \in Ops \X StageKeys :
              [step[k] EXCEPT !.status = "released"] \in StepRow
        BY <1>s DEF Statuses
      <3> QED  BY <1>2, <1>t, <3>1 DEF ReleaseReservation, TypeOK
    <2> QED
      BY <1>2, <1>l, <1>t, <2>1
      DEF ReleaseReservation, TypeOK, planVars, archiveVars, callerVars
  <1>3. ASSUME NEW o \in Ops, ReservationExpires(o) PROVE TypeOK'
    BY <1>3, <1>l, <1>t
    DEF ReservationExpires, TypeOK, planVars, archiveVars, callerVars
  <1>4. ASSUME NEW o \in Ops, RecordFinalizeUsage(o) PROVE TypeOK'
    <2>1. res' \in [Ops -> ReservationRow] /\ event' \in [Ops -> EventRow]
      BY ZenonT(40), <1>4, <1>t DEF RecordFinalizeUsage, TypeOK, ReservationRow, EventRow
    <2> QED
      BY <1>4, <1>t, <2>1
      DEF RecordFinalizeUsage, TypeOK, planVars, archiveVars, callerVars
  <1>5. ASSUME NEW o \in Ops, NEW s \in StageKeys, NEW c \in Callers,
               ClaimStep(c, o, s)
        PROVE  TypeOK'
    <2>1. [NoStep EXCEPT !.status = "claimed", !.token = c, !.lease = TRUE]
            \in StepRow
      BY DEF NoStep, StepRow, FreePeriod
    <2>2. [op |-> o, stage |-> s, phase |-> "claimed"] \in CallState
      BY <1>p DEF CallState
    <2> QED
      BY <1>5, <1>t, <2>1, <2>2 DEF ClaimStep, TypeOK, planVars, archiveVars
  <1>6. ASSUME NEW o \in Ops, NEW s \in StageKeys, StepLeaseExpires(o, s)
        PROVE  TypeOK'
    <2>1. step' \in [Ops \X StageKeys -> StepRow]
      <3>1. [step[<<o, s>>] EXCEPT !.lease = FALSE] \in StepRow
        BY <1>t, StepRowUpdates DEF TypeOK, Statuses
      <3>2. step' = [step EXCEPT ![<<o, s>>] =
                       [step[<<o, s>>] EXCEPT !.lease = FALSE]]
        BY <1>6 DEF StepLeaseExpires
      <3> QED  BY <1>t, <3>1, <3>2 DEF TypeOK
    <2> QED
      BY <1>6, <1>t, <2>1 DEF StepLeaseExpires, TypeOK, planVars, archiveVars,
                              callerVars
  <1>7. ASSUME NEW o \in Ops, NEW s \in StageKeys, ReconcileStep(o, s)
        PROVE  TypeOK'
    <2>1. step' \in [Ops \X StageKeys -> StepRow]
      BY <1>7, <1>s DEF ReconcileStep, Statuses
    <2> QED
      BY <1>7, <1>t, <2>1
      DEF ReconcileStep, TypeOK, planVars, archiveVars, callerVars
  <1>a. ASSUME NEW source \in Meetings \cup {Account}, NEW ops \in SUBSET Ops,
               Archive(source, ops)
        PROVE  /\ archived' \in Nat
               /\ sources' \subseteq Meetings \cup {Account}
               /\ res' \in [Ops -> ReservationRow]
               /\ step' \in [Ops \X StageKeys -> StepRow]
    <2>1. SettledBy(ops) \in Nat
      BY <1>t, SettledByIsNat
    <2>2. NoReservation \in ReservationRow /\ NoStep \in StepRow
      BY DEF NoReservation, NoStep, ReservationRow, StepRow, FreePeriod
    <2>3. archived' \in Nat
      BY <1>a, <1>t, <2>1 DEF Archive, TypeOK
    <2>4. sources' \subseteq Meetings \cup {Account}
      BY <1>a, <1>t DEF Archive, TypeOK
    <2>5. res' \in [Ops -> ReservationRow] /\ step' \in [Ops \X StageKeys -> StepRow]
      BY <1>a, <1>t, <2>2 DEF Archive, TypeOK
    <2> QED  BY <2>3, <2>4, <2>5
  <1>8. ASSUME NEW m \in Meetings, PurgeMeetingLedger(m) PROVE TypeOK'
    <2>1. Archive(m, {o \in Ops : MeetingOf[o] = m})
      BY <1>8 DEF PurgeMeetingLedger
    <2>2. /\ archived' \in Nat
          /\ sources' \subseteq Meetings \cup {Account}
          /\ res' \in [Ops -> ReservationRow]
          /\ step' \in [Ops \X StageKeys -> StepRow]
      BY <1>a, <2>1
    <2> QED
      BY <1>8, <1>t, <2>2 DEF PurgeMeetingLedger, TypeOK, planVars, callerVars
  <1>9. ASSUME ArchiveDeletedAccount PROVE TypeOK'
    <2>1. Archive(Account, Ops)
      BY <1>9 DEF ArchiveDeletedAccount
    <2>2. /\ archived' \in Nat
          /\ sources' \subseteq Meetings \cup {Account}
          /\ res' \in [Ops -> ReservationRow]
          /\ step' \in [Ops \X StageKeys -> StepRow]
      BY <1>a, <2>1
    <2> QED
      BY <1>9, <1>t, <2>2 DEF ArchiveDeletedAccount, TypeOK, planVars, callerVars
  <1>10. ASSUME DeleteAccount PROVE TypeOK'
    <2>1. user' \in UserRow
      BY <1>10, <1>t DEF DeleteAccount, TypeOK, FreePeriod, UserRow
    <2>e. event' \in [Ops -> EventRow]
      BY <1>10 DEF DeleteAccount, NoEvent, EventRow
    <2>2. CASE Archive(Account, Ops)
      <3>1. /\ archived' \in Nat
            /\ sources' \subseteq Meetings \cup {Account}
            /\ res' \in [Ops -> ReservationRow]
            /\ step' \in [Ops \X StageKeys -> StepRow]
        BY <1>a, <2>2
      <3> QED  BY <1>10, <1>t, <2>1, <2>e, <3>1 DEF DeleteAccount, TypeOK, callerVars
    <2>3. CASE ~Archive(Account, Ops)
      <3>1. step' \in [Ops \X StageKeys -> StepRow]
        <4>1. step' = [k \in Ops \X StageKeys |->
                         IF step[k].status = "claimed"
                         THEN [step[k] EXCEPT !.status = "released"]
                         ELSE step[k]]
          BY <1>10, <2>3 DEF DeleteAccount
        <4>2. \A k \in Ops \X StageKeys :
                [step[k] EXCEPT !.status = "released"] \in StepRow
          BY <1>s DEF Statuses
        <4> QED  BY <1>t, <4>1, <4>2 DEF TypeOK
      <3> QED
        BY <1>10, <1>t, <2>1, <2>3, <2>e, <3>1 DEF DeleteAccount, TypeOK, callerVars
    <2> QED  BY <2>2, <2>3
  <1>11. ASSUME NEW c \in Callers, StartStep(c) PROVE TypeOK'
    <2> DEFINE o == call[c].op
               k == <<o, call[c].stage>>
               delta == UnsettledDelta(o)
               freeUsed == IF user.plan = "free"
                           THEN Least(FreeTotal, user.freeUsed + delta)
                           ELSE user.freeUsed
               mine == Least(delta, Monus(freeUsed, user.freeUsed))
    <2>1. o \in Ops /\ k \in Ops \X StageKeys
      BY <1>11, <1>t DEF StartStep, CallsHaveSteps
    <2>2. delta \in Nat
      BY <1>t, <2>1 DEF UnsettledDelta, Monus, TypeOK, ReservationRow
    <2>3. freeUsed \in Nat /\ user.freeUsed \in Nat /\ user.period \in Nat
      BY <1>t, <2>2 DEF Least, TypeOK, UserRow
    <2>4. mine \in Nat
      BY <2>2, <2>3 DEF Least, Monus
    <2>5. user' \in UserRow
      <3> DEFINE total == user.used + delta
                 free == IF delta = 0 THEN user.freeUsed ELSE freeUsed
      <3>1. total \in Nat /\ free \in Nat
        BY <1>t, <2>2, <2>3 DEF TypeOK, UserRow
      <3>2. user' = [user EXCEPT !.used = total, !.freeUsed = free]
        BY <1>11 DEF StartStep
      <3> HIDE DEF total, free
      <3> QED  BY <1>t, <3>1, <3>2, UserRowUpdates DEF TypeOK
    <2>6. res' \in [Ops -> ReservationRow]
      <3> DEFINE row == [res[o] EXCEPT !.settled = res[o].settled + delta]
      <3>1. res[o] \in ReservationRow /\ res[o].settled + delta \in Nat
        BY <1>t, <2>1, <2>2 DEF TypeOK, ReservationRow
      <3>2. row \in ReservationRow
        BY <3>1, ReservationRowUpdates
      <3>3. res' = [res EXCEPT ![o] = row]
        BY <1>11 DEF StartStep
      <3> QED  BY <1>t, <2>1, <3>2, <3>3 DEF TypeOK
    <2>7. step' \in [Ops \X StageKeys -> StepRow]
      <3> DEFINE row == [step[k] EXCEPT !.status = "started", !.settled = delta,
                           !.free = IF delta = 0 THEN 0 ELSE mine,
                           !.period = user.period]
      <3>1. step' = [step EXCEPT ![k] = row]
        BY <1>11, <1>t, <2>1 DEF StartStep, TypeOK, StepRow
      <3>2. row \in StepRow
        <4> HIDE DEF delta, mine
        <4>1. step[k] \in StepRow
          BY <1>t, <2>1 DEF TypeOK
        <4>2. (IF delta = 0 THEN 0 ELSE mine) \in Nat
          BY <2>4
        <4> QED  BY ZenonT(40), <2>2, <2>3, <4>1, <4>2, StepRowUpdates DEF Statuses
      <3> QED  BY <1>t, <2>1, <3>1, <3>2 DEF TypeOK
    <2>8. charged' \in Nat /\ spent' \in [Ops \X StageKeys -> Nat]
      BY <1>11, <1>t, <2>1, <2>2 DEF StartStep, TypeOK
    <2>9. /\ call' \in [Callers -> CallState]
          /\ UNCHANGED <<grants, orders, manual, event, archiveVars, durable>>
      BY <1>11, <1>c, <1>p DEF StartStep
    <2> QED
      BY <1>t, <2>5, <2>6, <2>7, <2>8, <2>9 DEF TypeOK, archiveVars
  <1>12. ASSUME NEW c \in Callers,
                StartRefused(c) \/ ProviderReturns(c) \/ CallerLost(c)
         PROVE  TypeOK'
    <2>1. call' \in [Callers -> CallState]
      <3>1. \/ call' = [call EXCEPT ![c] = NoOp]
            \/ \E p \in Phases : call' = [call EXCEPT ![c].phase = p]
        BY <1>12, <1>p DEF StartRefused, ProviderReturns, CallerLost
      <3>2. CASE call' = [call EXCEPT ![c] = NoOp]
        BY <1>c, <1>p, <3>2
      <3>3. CASE \E p \in Phases : call' = [call EXCEPT ![c].phase = p]
        <4>1. PICK p \in Phases : call' = [call EXCEPT ![c].phase = p]
          BY <3>3
        <4> QED  BY <1>c, <4>1
      <3> QED  BY <3>1, <3>2, <3>3
    <2> QED
      BY <1>12, <1>t, <2>1
    DEF StartRefused, ProviderReturns, CallerLost, TypeOK, planVars, ledgerVars,
        archiveVars
  <1>13. ASSUME NEW c \in Callers, ReleaseStep(c) \/ CompleteStep(c)
         PROVE  TypeOK'
    <2>1. <<call[c].op, call[c].stage>> \in Ops \X StageKeys
      BY <1>13, <1>t DEF ReleaseStep, CompleteStep, CallsHaveSteps
    <2>2. step' \in [Ops \X StageKeys -> StepRow]
      <3>1. \/ step' = step
            \/ \E st \in Statuses :
                 step' = [step EXCEPT ![<<call[c].op, call[c].stage>>].status = st]
        BY <1>13 DEF ReleaseStep, CompleteStep, Statuses
      <3>2. CASE step' = step
        BY <1>t, <3>2 DEF TypeOK
      <3>3. CASE \E st \in Statuses :
                   step' = [step EXCEPT ![<<call[c].op, call[c].stage>>].status = st]
        <4> DEFINE k == <<call[c].op, call[c].stage>>
        <4>1. PICK st \in Statuses : step' = [step EXCEPT ![k].status = st]
          BY <3>3
        <4>2. k \in Ops \X StageKeys
          BY <2>1
        <4> HIDE DEF k
        <4> QED  BY <1>s, <4>1, <4>2
      <3> QED  BY <3>1, <3>2, <3>3
    <2>3. call' \in [Callers -> CallState]
      BY <1>13, <1>c, <1>p DEF ReleaseStep, CompleteStep
    <2> QED
      BY <1>13, <1>t, <2>2, <2>3
      DEF ReleaseStep, CompleteStep, TypeOK, planVars, archiveVars
  <1>14. ASSUME NEW c \in Callers, ProviderRejects(c) PROVE TypeOK'
    <2>1. Key(c) \in Ops \X StageKeys /\ spent[Key(c)] = 1
      BY <1>14 DEF FenceInv, ProviderRejects, CallsHaveSteps, PaidCalls, Key
    <2>2. spent' \in [Ops \X StageKeys -> Nat]
      BY <1>14, <1>t, <2>1 DEF ProviderRejects, Key, TypeOK
    <2> QED
      BY <1>14, <1>c, <1>p, <1>t, <2>2
      DEF ProviderRejects, TypeOK, planVars, ledgerVars, archiveVars
  <1>15. ASSUME NEW c \in Callers, SaveOutput(c) PROVE TypeOK'
    <2>1. Key(c) \in Ops \X StageKeys
      BY <1>15, <1>t DEF SaveOutput, CallsHaveSteps, Key
    <2> QED
      BY <1>15, <1>c, <1>p, <1>t, <2>1
      DEF SaveOutput, TypeOK, Key, planVars, ledgerVars, archiveVars
  <1>16. ASSUME NEW c \in Callers, RejectStep(c) PROVE TypeOK'
    <2> DEFINE o == call[c].op
               k == <<o, call[c].stage>>
               back == step[k].settled
    <2>1. o \in Ops /\ k \in Ops \X StageKeys
      BY <1>16, <1>t DEF RejectStep, CallsHaveSteps
    <2>2. back \in Nat /\ step[k].free \in Nat
      BY <1>t, <2>1 DEF TypeOK, StepRow
    <2>3. user' \in UserRow
      <3>1. CASE user' = user
        BY <1>t, <3>1 DEF TypeOK
      <3>2. CASE /\ ~RefundConflict(k)
                 /\ user' = [user EXCEPT
                         !.used = IF PeriodMatches(k) THEN @ - back ELSE @,
                         !.freeUsed = Monus(@, step[k].free)]
        <4> DEFINE used == IF PeriodMatches(k) THEN user.used - back ELSE user.used
                   free == Monus(user.freeUsed, step[k].free)
        <4>1. used \in Nat /\ free \in Nat
          BY <1>t, <2>2, <3>2 DEF TypeOK, UserRow, RefundConflict, Monus
        <4>2. user' = [user EXCEPT !.used = used, !.freeUsed = free]
          BY <3>2
        <4> HIDE DEF used, free
        <4> QED  BY <1>t, <4>1, <4>2, UserRowUpdates DEF TypeOK
      <3> QED  BY <1>16, <3>1, <3>2 DEF RejectStep, Refunded
    <2>4. res' \in [Ops -> ReservationRow]
      <3>1. res' = res \/ res' = [res EXCEPT ![o].settled = Monus(@, back)]
        BY <1>16 DEF RejectStep
      <3>2. res[o] \in ReservationRow /\ Monus(res[o].settled, back) \in Nat
        BY <1>t, <2>1, <2>2 DEF TypeOK, ReservationRow, Monus
      <3>3. [res[o] EXCEPT !.settled = Monus(res[o].settled, back)]
              \in ReservationRow
        BY <3>2, ReservationRowUpdates
      <3>4. \/ res' = res
            \/ res' = [res EXCEPT ![o] =
                         [res[o] EXCEPT !.settled = Monus(res[o].settled, back)]]
        BY <3>1
      <3> QED  BY <1>t, <2>1, <3>3, <3>4 DEF TypeOK
    <2>5. step' \in [Ops \X StageKeys -> StepRow]
      <3>1. \/ step' = step
            \/ step' = [step EXCEPT ![k] = Rejected(k)]
        BY <1>16 DEF RejectStep
      <3>2. Rejected(k) \in StepRow
        <4>1. step[k] \in StepRow /\ step[k].free \in Nat
          BY <1>t, <2>1 DEF TypeOK, StepRow
        <4> QED  BY <4>1, StepRowUpdates DEF Rejected, Statuses
      <3> QED  BY <1>t, <2>1, <3>1, <3>2 DEF TypeOK
    <2>6. charged' \in Nat
      BY <1>16, <1>t, <2>1, <2>2 DEF RejectStep, TypeOK, Monus
    <2>7. /\ call' \in [Callers -> CallState]
          /\ UNCHANGED <<grants, orders, manual, event, archiveVars, durable, spent>>
      BY <1>16, <1>c, <1>p DEF RejectStep
    <2> QED
      BY <1>t, <2>3, <2>4, <2>5, <2>6, <2>7 DEF TypeOK, archiveVars
  <1>17. ASSUME ApplePurchase PROVE TypeOK'
    <2>1. user' \in UserRow
      <3> DEFINE free == IF user.plan = "free" THEN Least(FreeTotal, user.used)
                         ELSE user.freeUsed
      <3>1. free \in Nat /\ orders + 1 \in Nat
        BY <1>t DEF TypeOK, UserRow, Least
      <3>2. user' = [user EXCEPT !.plan = "paid", !.total = PaidTotal, !.used = 0,
                                 !.period = orders + 1, !.freeUsed = free]
        BY <1>17 DEF ApplePurchase
      <3> HIDE DEF free
      <3> QED  BY <1>t, <3>1, <3>2, UserRowUpdates DEF TypeOK
    <2>2. orders' \in Nat /\ grants' \subseteq GrantRow
      BY <1>17, <1>t DEF ApplePurchase, TypeOK, UserRow, GrantRow
    <2> QED
      BY <1>17, <1>t, <2>1, <2>2
      DEF ApplePurchase, TypeOK, ledgerVars, archiveVars, callerVars
  <1>18. ASSUME NEW g \in grants, RevokeGrant(g) \/ GrantExpires(g)
         PROVE  TypeOK'
    <2>1. user' \in UserRow
      BY <1>18, <1>t, PlanStepsKeep
    <2> QED
      BY <1>18, <1>t, <2>1
      DEF RevokeGrant, GrantExpires, TypeOK, ledgerVars, archiveVars, callerVars
  <1>19. ASSUME RefreshEntitlements PROVE TypeOK'
    <2>1. user' \in UserRow
      BY <1>19, <1>t, PlanStepsKeep
    <2> QED
      BY <1>19, <1>t, <2>1
      DEF RefreshEntitlements, TypeOK, ledgerVars, archiveVars, callerVars
  <1>20. ASSUME ManualPlanRead PROVE TypeOK'
    <2>1. manual' \in PlanRead
      BY <1>20, <1>t DEF ManualPlanRead, TypeOK, PlanRead, UserRow
    <2> QED
      BY <1>20, <1>t, <2>1
      DEF ManualPlanRead, TypeOK, ledgerVars, archiveVars, callerVars
  <1>21. ASSUME NEW target \in Plans, NEW byAdmin \in BOOLEAN,
                ManualPlanWrite(target, byAdmin)
         PROVE  TypeOK'
    <2> DEFINE freeUsed == IF manual.plan = "free"
                           THEN Least(FreeTotal, manual.used) ELSE manual.freeUsed
               written == [user EXCEPT !.freeUsed = freeUsed, !.used = manual.used]
    <2>1. manual.used \in Nat /\ freeUsed \in Nat /\ manual.plan \in {"free", "paid"}
      BY <1>t DEF TypeOK, PlanRead, Least
    <2>2. written \in UserRow
      BY <1>t, <2>1 DEF TypeOK, UserRow
    <2>3. RestoreFree(written) \in UserRow /\ Granted(written, target) \in UserRow
      <3> HIDE DEF written
      <3> QED  BY <2>2, PlanUpdates
    <2>4. user' \in UserRow
      BY <1>21, <1>t, <2>3 DEF ManualPlanWrite, TypeOK
    <2>5. orders' \in Nat /\ grants' \subseteq GrantRow
      BY <1>21, <1>t, <2>1 DEF ManualPlanWrite, TypeOK, GrantRow, Plans
    <2>6. NoManual \in PlanRead
      BY DEF NoManual, PlanRead
    <2> QED
      BY <1>21, <1>t, <2>4, <2>5, <2>6
      DEF ManualPlanWrite, TypeOK, ledgerVars, archiveVars, callerVars
  <1>22. CASE UNCHANGED vars
    BY <1>22, <1>t DEF vars, TypeOK
  <1> QED
    BY <1>1, <1>2, <1>3, <1>4, <1>5, <1>6, <1>7, <1>8, <1>9, <1>10, <1>11,
       <1>12, <1>13, <1>14, <1>15, <1>16, <1>17, <1>18, <1>19, <1>20, <1>21,
       <1>22
    DEF Next, LedgerNext, CallerNext, PlanNext, Plans

(***************************************************************************)
(* The steps that make no paid call and save no output: a caller may stop, *)
(* take a claim or see the provider answer; the steps of the meetings that *)
(* still exist keep what the invariant says about them.                    *)
(***************************************************************************)
Paid == {"started", "completed"}

Moved(d) ==
  \/ ~InFlight(d)' /\ (call'[d].phase # "idle" =>
                         call'[d].op \in Ops /\ call'[d].stage \in StageKeys)
  \/ /\ InFlight(d)
     /\ call'[d].op = call[d].op /\ call'[d].stage = call[d].stage
     /\ \/ call'[d].phase = call[d].phase
        \/ call[d].phase = "calling" /\ call'[d].phase = "returned"

StepKept(k) ==
  /\ step'[k].token = step[k].token
  /\ \/ step'[k].status = step[k].status
     \/ step'[k].status = "completed" /\ k \in durable

(* What FenceQuiet and the smaller steps of the callers have in common:    *)
(* no call changes hands and no step row that was paid for loses its claim. *)
LEMMA FenceKept ==
  ASSUME FenceInv, TypeOK', UNCHANGED <<durable, spent>>,
         \A d \in Callers : Moved(d),
         \A o \in Ops : Fenced(o)' => Fenced(o),
         \A k \in Ops \X StageKeys :
           spent[k] = 1 /\ Fenced(k[1])' /\ step[k].status \in Paid
             => step'[k].status \in Paid,
         \A d \in Callers :
           InFlight(d)' /\ Fenced(call[d].op)' => StepKept(Key(d))
  PROVE  FenceInv'
PROOF
  <1>1. /\ TypeOK /\ CallsHaveSteps /\ SpentIsBit /\ PaidCalls /\ OwnStarted
        /\ PaidIsStarted /\ OneCallPerStep /\ DurableIsPaid /\ CallingIsNotDurable
    BY DEF FenceInv
  <1>2. \A d \in Callers : InFlight(d)' =>
          /\ InFlight(d) /\ Key(d)' = Key(d) /\ call'[d].op = call[d].op
          /\ Key(d) \in Ops \X StageKeys /\ Key(d)[1] = call[d].op
          /\ call[d].op \in Ops
    BY <1>1 DEF Moved, Key, CallsHaveSteps, InFlight
  <1>3. CallsHaveSteps'
    BY <1>1 DEF CallsHaveSteps, Moved, InFlight
  <1>4. SpentIsBit'
    BY <1>1 DEF SpentIsBit
  <1>5. PaidCalls'
    <2> SUFFICES ASSUME NEW d \in Callers,
                        call'[d].phase \in {"calling", "returned", "saved"}
                 PROVE  spent'[Key(d)'] = 1
      BY DEF PaidCalls, Key
    <2>1. InFlight(d)' /\ Moved(d)
      BY DEF InFlight
    <2>2. call[d].phase \in {"calling", "returned", "saved"}
      BY <2>1 DEF Moved, InFlight
    <2> QED  BY <1>1, <1>2, <2>1, <2>2 DEF PaidCalls
  <1>6. OwnStarted'
    <2> SUFFICES ASSUME NEW d \in Callers, InFlight(d)', Fenced(call[d].op)',
                        Key(d)' = Key(d)
                 PROVE  /\ step'[Key(d)].status \in Paid
                        /\ step'[Key(d)].token = d
                        /\ call'[d].phase \in {"calling", "rejected"} =>
                             step'[Key(d)].status = "started"
                        /\ call'[d].phase = "rejected" => spent'[Key(d)] = 0
      BY <1>2 DEF OwnStarted, Paid, Fenced
    <2>1. InFlight(d) /\ Fenced(call[d].op) /\ StepKept(Key(d)) /\ Moved(d)
      BY <1>2
    <2>2. call'[d].phase \in {"calling", "rejected"} =>
            call'[d].phase = call[d].phase
      BY <2>1 DEF Moved
    <2>3. /\ step[Key(d)].status \in Paid
          /\ step[Key(d)].token = d
          /\ call[d].phase \in {"calling", "rejected"} =>
               step[Key(d)].status = "started"
          /\ call[d].phase = "rejected" => spent[Key(d)] = 0
      BY <1>1, <2>1 DEF OwnStarted, Paid
    <2>4. call[d].phase \in {"calling", "rejected"} => Key(d) \notin durable
      BY <1>1, <2>3 DEF DurableIsPaid, CallingIsNotDurable
    <2> QED  BY <2>1, <2>2, <2>3, <2>4 DEF StepKept, Paid
  <1>7. PaidIsStarted'
    BY <1>1 DEF PaidIsStarted, Paid
  <1>8. OneCallPerStep'
    BY <1>1, <1>2 DEF OneCallPerStep
  <1>9. DurableIsPaid'
    BY <1>1 DEF DurableIsPaid
  <1>10. CallingIsNotDurable'
    <2> SUFFICES ASSUME NEW d \in Callers, call'[d].phase = "calling"
                 PROVE  Key(d)' \notin durable
      BY DEF CallingIsNotDurable
    <2>1. InFlight(d)' /\ Moved(d)
      BY DEF InFlight
    <2>2. call[d].phase = "calling"
      BY <2>1 DEF Moved
    <2> QED  BY <1>1, <1>2, <2>1, <2>2 DEF CallingIsNotDurable
  <1> QED
    BY <1>3, <1>4, <1>5, <1>6, <1>7, <1>8, <1>9, <1>10 DEF FenceInv

(* Actions that leave the callers and the started steps alone.             *)
LEMMA FenceQuiet ==
  ASSUME FenceInv, TypeOK', UNCHANGED callerVars,
         \A o \in Ops : Fenced(o)' => Fenced(o),
         \A k \in Ops \X StageKeys :
           Fenced(k[1])' /\ step[k].status \in Paid => StepKept(k)
  PROVE  FenceInv'
PROOF
  <1>1. /\ TypeOK /\ CallsHaveSteps /\ OwnStarted
        /\ UNCHANGED <<call, durable, spent>>
    BY DEF FenceInv, callerVars
  <1>2. \A d \in Callers : Moved(d)
    BY <1>1 DEF Moved, InFlight, CallsHaveSteps
  <1>3. \A k \in Ops \X StageKeys :
          spent[k] = 1 /\ Fenced(k[1])' /\ step[k].status \in Paid
            => step'[k].status \in Paid
    BY DEF StepKept, Paid
  <1>4. \A d \in Callers :
          InFlight(d)' /\ Fenced(call[d].op)' => StepKept(Key(d))
    <2> SUFFICES ASSUME NEW d \in Callers, InFlight(d)', Fenced(call[d].op)'
                 PROVE  StepKept(Key(d))
      OBVIOUS
    <2>1. PICK k \in Ops \X StageKeys : k = Key(d) /\ k[1] = call[d].op
      <3>1. call[d].phase # "idle"
        BY <1>1 DEF InFlight
      <3>2. call[d].op \in Ops /\ call[d].stage \in StageKeys
        BY <1>1, <3>1 DEF CallsHaveSteps
      <3>3. Key(d) \in Ops \X StageKeys /\ Key(d)[1] = call[d].op
        BY <3>2 DEF Key
      <3> QED  BY <3>3
    <2>2. InFlight(d) /\ call[d].op \in Ops
      BY <1>1 DEF InFlight, CallsHaveSteps
    <2>3. Fenced(k[1])'
      BY <1>1, <2>1 DEF Fenced
    <2>4. Fenced(call[d].op)
      BY <1>1, <2>1, <2>2, <2>3 DEF Fenced
    <2>5. step[k].status \in Paid
      BY <1>1, <2>1, <2>2, <2>4 DEF OwnStarted, Paid
    <2> QED  BY <2>1, <2>3, <2>5
  <1> QED  BY <1>1, <1>2, <1>3, <1>4, FenceKept

(***************************************************************************)
(* Every transaction and every step of a caller keeps the cost fence.      *)
(***************************************************************************)
LEMMA FenceStep == FenceInv /\ [Next]_vars => FenceInv'
PROOF
  <1> SUFFICES ASSUME FenceInv, [Next]_vars PROVE FenceInv'
    OBVIOUS
  <1> USE LedgerAssumption DEF LedgerAssumption
  <1>t. /\ TypeOK /\ CallsHaveSteps /\ SpentIsBit /\ PaidCalls /\ OwnStarted
        /\ PaidIsStarted /\ OneCallPerStep /\ DurableIsPaid /\ CallingIsNotDurable
        /\ TypeOK'
    BY TypeStep DEF FenceInv
  <1>s. ASSUME UNCHANGED <<callerVars, step, purged>>, user'.deleted = user.deleted
        PROVE  FenceInv'
    <2>1. \A o \in Ops : Fenced(o)' => Fenced(o)
      BY <1>s DEF Fenced
    <2>2. \A k \in Ops \X StageKeys : StepKept(k)
      BY <1>s DEF StepKept
    <2> QED  BY <1>s, <1>t, <2>1, <2>2, FenceQuiet
  <1>k. ASSUME NEW c \in Callers, call[c].phase # "idle"
        PROVE  Key(c) \in Ops \X StageKeys /\ Key(c)[1] = call[c].op
               /\ Key(c) = <<call[c].op, call[c].stage>> /\ call[c].op \in Ops
    BY <1>k, <1>t DEF CallsHaveSteps, Key
  <1>1. ASSUME NEW o \in Ops,
               \/ ReserveRealtime(o) \/ ReserveFinalization(o)
               \/ ReservationExpires(o) \/ RecordFinalizeUsage(o)
        PROVE  FenceInv'
    BY <1>1, <1>s
    DEF ReserveRealtime, ReserveFinalization, ReservationExpires,
        RecordFinalizeUsage, planVars, archiveVars
  <1>2. ASSUME NEW o \in Ops, ReleaseReservation(o) PROVE FenceInv'
    <2>1. UNCHANGED callerVars /\ \A p \in Ops : Fenced(p)' => Fenced(p)
      BY <1>2 DEF ReleaseReservation, Fenced, planVars, archiveVars
    <2>2. \A k \in Ops \X StageKeys : step[k].status \in Paid => step'[k] = step[k]
      BY <1>2 DEF ReleaseReservation, Paid
    <2> QED  BY <1>t, <2>1, <2>2, FenceQuiet DEF StepKept
  <1>3. ASSUME NEW o \in Ops, NEW s \in StageKeys,
               StepLeaseExpires(o, s) \/ ReconcileStep(o, s)
        PROVE  FenceInv'
    <2>1. UNCHANGED callerVars /\ \A p \in Ops : Fenced(p)' => Fenced(p)
      BY <1>3 DEF StepLeaseExpires, ReconcileStep, Fenced, planVars, archiveVars
    <2>2. \A k \in Ops \X StageKeys : step[k].status \in Paid => StepKept(k)
      <3>1. CASE StepLeaseExpires(o, s)
        BY <1>t, <3>1 DEF StepLeaseExpires, StepKept, Paid, TypeOK
      <3>2. CASE ReconcileStep(o, s)
        <4>1. /\ <<o, s>> \in durable
              /\ step' = [step EXCEPT ![<<o, s>>] =
                            [step[<<o, s>>] EXCEPT !.status = "completed"]]
          BY <3>2 DEF ReconcileStep
        <4>2. step[<<o, s>>] \in StepRow
          BY <1>t DEF TypeOK
        <4>3. LET r == [step[<<o, s>>] EXCEPT !.status = "completed"]
              IN  r.status = "completed" /\ r.token = step[<<o, s>>].token
          BY <4>2 DEF StepRow
        <4> QED  BY <1>t, <4>1, <4>3 DEF StepKept, TypeOK
      <3> QED  BY <1>3, <3>1, <3>2
    <2> QED  BY <1>t, <2>1, <2>2, FenceQuiet
  <1>4. ASSUME NEW m \in Meetings, PurgeMeetingLedger(m) PROVE FenceInv'
    <2> DEFINE ops == {o \in Ops : MeetingOf[o] = m}
    <2>1. UNCHANGED callerVars /\ \A p \in Ops : Fenced(p)' => Fenced(p)
      BY <1>4 DEF PurgeMeetingLedger, Fenced, planVars
    <2>2. \A k \in Ops \X StageKeys : Fenced(k[1])' => k[1] \notin ops
      BY <1>4 DEF PurgeMeetingLedger, Fenced
    <2>3. \A k \in Ops \X StageKeys : k[1] \notin ops => step'[k] = step[k]
      BY <1>4 DEF PurgeMeetingLedger, Archive
    <2> QED  BY <1>t, <2>1, <2>2, <2>3, FenceQuiet DEF StepKept
  <1>5. ASSUME DeleteAccount \/ ArchiveDeletedAccount PROVE FenceInv'
    <2>1. UNCHANGED callerVars /\ \A p \in Ops : ~Fenced(p)'
      <3>1. CASE DeleteAccount
        <4>1. user'.deleted
          BY <1>t, <3>1 DEF DeleteAccount, TypeOK, UserRow
        <4> QED  BY <3>1, <4>1 DEF DeleteAccount, Fenced
      <3>2. CASE ArchiveDeletedAccount
        BY <3>2 DEF ArchiveDeletedAccount, Fenced, planVars
      <3> QED  BY <1>5, <3>1, <3>2
    <2>2. \A k \in Ops \X StageKeys : ~Fenced(k[1])'
      BY <2>1
    <2> QED  BY <1>t, <2>1, <2>2, FenceQuiet
  <1>6. ASSUME \/ ApplePurchase \/ RefreshEntitlements \/ ManualPlanRead
               \/ \E g \in grants : RevokeGrant(g) \/ GrantExpires(g)
               \/ \E target \in Plans, byAdmin \in BOOLEAN :
                    ManualPlanWrite(target, byAdmin)
        PROVE  FenceInv'
    <2>1. UNCHANGED <<callerVars, step, purged>>
      BY <1>6
      DEF ApplePurchase, RefreshEntitlements, ManualPlanRead, RevokeGrant,
          GrantExpires, ManualPlanWrite, ledgerVars, archiveVars
    <2>2. user'.deleted = user.deleted
      <3>1. user \in UserRow
        BY <1>t DEF TypeOK
      <3>2. \A u \in UserRow, plan \in Plans :
              /\ RestoreFree(u).deleted = u.deleted
              /\ Granted(u, plan).deleted = u.deleted
              /\ \A n \in Nat : [Granted(u, plan) EXCEPT !.period = n].deleted
                                  = u.deleted
        BY PlanUpdates, PeriodUpdate
      <3>3. CASE ApplePurchase
        BY <3>1, <3>3 DEF ApplePurchase, UserRow
      <3>4. CASE RefreshEntitlements
        BY <1>t, <3>4, PlanStepsKeep
      <3>5. CASE ManualPlanRead
        BY <3>5 DEF ManualPlanRead
      <3>6. CASE \E g \in grants : RevokeGrant(g) \/ GrantExpires(g)
        BY <1>t, <3>6, PlanStepsKeep
      <3>7. CASE \E target \in Plans, byAdmin \in BOOLEAN :
                    ManualPlanWrite(target, byAdmin)
        <4> DEFINE freeUsed == IF manual.plan = "free"
                               THEN Least(FreeTotal, manual.used)
                               ELSE manual.freeUsed
                   written == [user EXCEPT !.freeUsed = freeUsed,
                                           !.used = manual.used]
        <4>1. freeUsed \in Nat /\ manual.used \in Nat
          BY <1>t DEF TypeOK, PlanRead, Least
        <4>2. written \in UserRow /\ written.deleted = user.deleted
          <5> HIDE DEF freeUsed
          <5> QED  BY <3>1, <4>1 DEF UserRow
        <4>3. \/ user' = user \/ user' = RestoreFree(written)
              \/ \E plan \in Plans : user' = Granted(written, plan)
          BY <3>7 DEF ManualPlanWrite
        <4> HIDE DEF written
        <4> QED  BY <3>2, <4>2, <4>3 DEF Plans
      <3> QED  BY <1>6, <3>3, <3>4, <3>5, <3>6, <3>7
    <2> QED  BY <1>s, <2>1, <2>2
  <1>o. ASSUME NEW c \in Callers, UNCHANGED <<durable, spent, purged>>,
               user'.deleted = user.deleted, Moved(c),
               \A d \in Callers \ {c} : call'[d] = call[d],
               \A k \in Ops \X StageKeys :
                 spent[k] = 1 /\ Fenced(k[1]) /\ step[k].status \in Paid
                   => step'[k].status \in Paid,
               \A d \in Callers :
                 InFlight(d) /\ InFlight(d)' /\ Fenced(call[d].op) => StepKept(Key(d))
        PROVE  FenceInv'
    <2>1. \A o \in Ops : Fenced(o)' => Fenced(o)
      BY <1>o DEF Fenced
    <2>2. \A d \in Callers : Moved(d)
      BY <1>o, <1>t DEF Moved, InFlight, CallsHaveSteps
    <2>3. \A k \in Ops \X StageKeys :
            spent[k] = 1 /\ Fenced(k[1])' /\ step[k].status \in Paid
              => step'[k].status \in Paid
      BY <1>o DEF Fenced
    <2>4. \A d \in Callers :
            InFlight(d)' /\ Fenced(call[d].op)' => StepKept(Key(d))
      <3> SUFFICES ASSUME NEW d \in Callers, InFlight(d)', Fenced(call[d].op)'
                   PROVE  StepKept(Key(d))
        OBVIOUS
      <3>1. InFlight(d) /\ call'[d].op = call[d].op
        BY <2>2 DEF Moved
      <3>2. Fenced(call[d].op)
        BY <1>o, <3>1 DEF Fenced
      <3> QED  BY <1>o, <3>1, <3>2
    <2> QED  BY <1>o, <1>t, <2>1, <2>2, <2>3, <2>4, FenceKept
  <1>n. ASSUME NEW c \in Callers, NEW row \in CallState,
               call' = [call EXCEPT ![c] = row]
        PROVE  call'[c] = row /\ \A d \in Callers \ {c} : call'[d] = call[d]
    BY <1>n, <1>t DEF TypeOK
  <1>h. ASSUME NEW c \in Callers, NEW p \in Phases
        PROVE  /\ [call[c] EXCEPT !.phase = p] \in CallState
               /\ [call[c] EXCEPT !.phase = p].phase = p
               /\ [call[c] EXCEPT !.phase = p].op = call[c].op
               /\ [call[c] EXCEPT !.phase = p].stage = call[c].stage
    <2>1. call[c] \in CallState
      BY <1>t DEF TypeOK
    <2> QED  BY <2>1 DEF CallState
  <1>p. ASSUME NEW c \in Callers, NEW p \in Phases,
               call' = [call EXCEPT ![c].phase = p]
        PROVE  /\ call'[c].phase = p /\ call'[c].op = call[c].op
               /\ call'[c].stage = call[c].stage
               /\ \A d \in Callers \ {c} : call'[d] = call[d]
    <2>1. call' = [call EXCEPT ![c] = [call[c] EXCEPT !.phase = p]]
      BY <1>p
    <2>2. [call[c] EXCEPT !.phase = p] \in CallState
      BY <1>h
    <2>3. call'[c] = [call[c] EXCEPT !.phase = p]
          /\ \A d \in Callers \ {c} : call'[d] = call[d]
      BY <1>n, <2>1, <2>2
    <2> QED  BY <1>h, <2>3
  <1>i. NoOp \in CallState /\ NoOp.phase = "idle"
    BY DEF NoOp, CallState, Phases
  <1>7. ASSUME NEW c \in Callers, StartRefused(c) \/ ProviderReturns(c)
               \/ CallerLost(c)
        PROVE  FenceInv'
    <2>1. UNCHANGED <<durable, spent, purged, step>> /\ user'.deleted = user.deleted
      BY <1>7 DEF StartRefused, ProviderReturns, CallerLost, planVars, ledgerVars,
                  archiveVars
    <2>2. Moved(c) /\ \A d \in Callers \ {c} : call'[d] = call[d]
      <3>1. CASE StartRefused(c)
        <4>1. /\ call'[c].phase = "refused" /\ call'[c].op = call[c].op
              /\ call'[c].stage = call[c].stage
              /\ \A d \in Callers \ {c} : call'[d] = call[d]
          BY <1>p, <3>1 DEF StartRefused, Phases
        <4> QED  BY <1>t, <3>1, <4>1 DEF StartRefused, Moved, InFlight, CallsHaveSteps
      <3>2. CASE ProviderReturns(c)
        <4>1. /\ call'[c].phase = "returned" /\ call'[c].op = call[c].op
              /\ call'[c].stage = call[c].stage
              /\ \A d \in Callers \ {c} : call'[d] = call[d]
          BY <1>p, <3>2 DEF ProviderReturns, Phases
        <4> QED  BY <3>2, <4>1 DEF ProviderReturns, Moved, InFlight
      <3>3. CASE CallerLost(c)
        BY <1>i, <1>n, <3>3 DEF CallerLost, Moved, InFlight
      <3> QED  BY <1>7, <3>1, <3>2, <3>3
    <2>3. \A d \in Callers : StepKept(Key(d))
      BY <2>1 DEF StepKept
    <2> QED  BY <1>o, <2>1, <2>2, <2>3
  <1>8. ASSUME NEW o \in Ops, NEW s \in StageKeys, NEW c \in Callers,
               ClaimStep(c, o, s)
        PROVE  FenceInv'
    <2> DEFINE k == <<o, s>>
    <2>1. /\ UNCHANGED <<durable, spent, purged>> /\ user'.deleted = user.deleted
          /\ Fenced(o) /\ step[k].status \notin Paid
          /\ \A q \in Ops \X StageKeys : q # k => step'[q] = step[q]
      BY <1>8, <1>t DEF ClaimStep, Claimable, planVars, archiveVars, Paid, TypeOK
    <2>2. [op |-> o, stage |-> s, phase |-> "claimed"] \in CallState
      BY DEF CallState, Phases
    <2>3. Moved(c) /\ \A d \in Callers \ {c} : call'[d] = call[d]
      BY <1>8, <1>n, <2>2 DEF ClaimStep, Moved, InFlight
    <2>4. \A d \in Callers :
            InFlight(d) /\ InFlight(d)' /\ Fenced(call[d].op) => StepKept(Key(d))
      <3> SUFFICES ASSUME NEW d \in Callers, InFlight(d), Fenced(call[d].op)
                   PROVE  StepKept(Key(d))
        OBVIOUS
      <3>1. call[d].phase # "idle"
        BY DEF InFlight
      <3>2. Key(d) # k
        BY <1>t, <2>1 DEF OwnStarted, Paid
      <3> QED  BY <1>k, <2>1, <3>1, <3>2 DEF StepKept
    <2> QED  BY <1>o, <2>1, <2>3, <2>4
  <1>9. ASSUME NEW c \in Callers, ReleaseStep(c) \/ CompleteStep(c)
        PROVE  FenceInv'
    <2> DEFINE k == Key(c)
    <2>1. /\ UNCHANGED <<durable, spent, purged>> /\ user'.deleted = user.deleted
          /\ call' = [call EXCEPT ![c] = NoOp] /\ call[c].phase # "idle"
      BY <1>9 DEF ReleaseStep, CompleteStep, planVars, archiveVars
    <2>2. Moved(c) /\ ~InFlight(c)' /\ \A d \in Callers \ {c} : call'[d] = call[d]
      BY <1>i, <1>n, <2>1 DEF Moved, InFlight
    <2>3. k \in Ops \X StageKeys /\ \A q \in Ops \X StageKeys : q # k => step'[q] = step[q]
      BY <1>9, <1>k, <1>t, <2>1 DEF ReleaseStep, CompleteStep, TypeOK
    <2>4. \/ step' = step
          \/ ReleaseStep(c) /\ step[k].status = "claimed" /\ step[k].token = c
          \/ InFlight(c) /\ step'[k].status = "completed"
      <3>1. step[k] \in StepRow
        BY <1>t, <2>3 DEF TypeOK
      <3>2. [step[k] EXCEPT !.status = "completed"].status = "completed"
        BY <3>1 DEF StepRow
      <3>3. k = <<call[c].op, call[c].stage>>
        BY DEF Key
      <3>4. CASE ReleaseStep(c)
        BY <3>3, <3>4 DEF ReleaseStep
      <3>5. CASE CompleteStep(c)
        <4>1. step' = step
              \/ step' = [step EXCEPT ![k] = [step[k] EXCEPT !.status = "completed"]]
          BY <3>3, <3>5 DEF CompleteStep
        <4>2. InFlight(c)
          BY <3>5 DEF CompleteStep, InFlight
        <4> QED  BY <1>t, <2>3, <3>2, <4>1, <4>2 DEF TypeOK
      <3> QED  BY <1>9, <3>4, <3>5
    <2>5. \A q \in Ops \X StageKeys :
            step[q].status \in Paid => step'[q].status \in Paid
      BY <2>3, <2>4 DEF Paid
    <2>6. \A d \in Callers :
            InFlight(d) /\ InFlight(d)' /\ Fenced(call[d].op) => StepKept(Key(d))
      <3> SUFFICES ASSUME NEW d \in Callers, InFlight(d), InFlight(d)',
                          Fenced(call[d].op)
                   PROVE  StepKept(Key(d))
        OBVIOUS
      <3>1. d # c
        BY <2>2
      <3>2. Key(d) \in Ops \X StageKeys /\ step[Key(d)].status \in Paid
        BY <1>k, <1>t DEF OwnStarted, Paid, InFlight
      <3>3. Key(d) # k \/ step' = step
        BY <1>t, <2>4, <3>1, <3>2 DEF OneCallPerStep, Paid
      <3> QED  BY <2>3, <3>2, <3>3 DEF StepKept
    <2> QED  BY <1>o, <2>1, <2>2, <2>3, <2>5, <2>6
  <1>10. ASSUME NEW c \in Callers, RejectStep(c) PROVE FenceInv'
    <2> DEFINE k == Key(c)
    <2>1. /\ UNCHANGED <<durable, spent, purged>> /\ InFlight(c)
          /\ call' = [call EXCEPT ![c] = NoOp] /\ call[c].phase = "rejected"
      BY <1>10 DEF RejectStep, archiveVars, InFlight
    <2>2. user'.deleted = user.deleted
      <3>1. user \in UserRow
        BY <1>t DEF TypeOK
      <3>2. \A used, free : [user EXCEPT !.used = used, !.freeUsed = free].deleted
                              = user.deleted
        BY <3>1 DEF UserRow
      <3> QED  BY <1>10, <3>2 DEF RejectStep, Refunded
    <2>3. Moved(c) /\ ~InFlight(c)' /\ \A d \in Callers \ {c} : call'[d] = call[d]
      BY <1>i, <1>n, <2>1 DEF Moved, InFlight
    <2>4. /\ k \in Ops \X StageKeys /\ k[1] = call[c].op
          /\ \A q \in Ops \X StageKeys : q # k => step'[q] = step[q]
      BY <1>10, <1>k, <1>t, <2>1 DEF RejectStep, TypeOK
    <2>5. Fenced(k[1]) => spent[k] = 0
      BY <1>t, <2>1, <2>4 DEF OwnStarted
    <2>6. \A q \in Ops \X StageKeys :
            spent[q] = 1 /\ Fenced(q[1]) /\ step[q].status \in Paid
              => step'[q].status \in Paid
      BY <2>4, <2>5
    <2>7. \A d \in Callers :
            InFlight(d) /\ InFlight(d)' /\ Fenced(call[d].op) => StepKept(Key(d))
      <3> SUFFICES ASSUME NEW d \in Callers, InFlight(d), InFlight(d)'
                   PROVE  StepKept(Key(d))
        OBVIOUS
      <3>1. Key(d) # k /\ Key(d) \in Ops \X StageKeys
        BY <1>k, <1>t, <2>1, <2>3 DEF OneCallPerStep, InFlight
      <3> QED  BY <2>4, <3>1 DEF StepKept
    <2> QED  BY <1>o, <2>1, <2>2, <2>3, <2>6, <2>7
  <1>11. ASSUME NEW c \in Callers, StartStep(c) PROVE FenceInv'
    <2> DEFINE k == Key(c)
    <2>1. /\ UNCHANGED <<durable, purged>> /\ call[c].phase = "claimed"
          /\ Fenced(call[c].op) /\ HoldsClaim(c, k)
          /\ call' = [call EXCEPT ![c].phase = "calling"]
          /\ spent' = [spent EXCEPT ![k] = @ + 1]
      BY <1>11 DEF StartStep, CanStart, archiveVars, Key
    <2>2. user'.deleted = user.deleted
      <3>1. user \in UserRow
        BY <1>t DEF TypeOK
      <3>2. \A used, free : [user EXCEPT !.used = used, !.freeUsed = free].deleted
                              = user.deleted
        BY <3>1 DEF UserRow
      <3> QED  BY <1>11, <3>2 DEF StartStep
    <2>3. /\ k \in Ops \X StageKeys /\ k[1] = call[c].op /\ call[c].op \in Ops
          /\ call[c].stage \in StageKeys /\ k = <<call[c].op, call[c].stage>>
      BY <1>k, <1>t, <2>1 DEF CallsHaveSteps
    <2>4. step[k].status = "claimed" /\ step[k].token = c
      BY <2>1 DEF HoldsClaim
    <2>5. step'[k].status = "started" /\ step'[k].token = c
          /\ \A q \in Ops \X StageKeys : q # k => step'[q] = step[q]
      <3>1. step[k] \in StepRow
        BY <1>t, <2>3 DEF TypeOK
      <3>2. \A a, b, p :
              LET r == [step[k] EXCEPT !.status = "started", !.settled = a,
                                       !.free = b, !.period = p]
              IN  r.status = "started" /\ r.token = step[k].token
        BY <3>1 DEF StepRow
      <3>3. PICK a, b, p : step' = [step EXCEPT ![k] =
              [step[k] EXCEPT !.status = "started", !.settled = a, !.free = b,
                              !.period = p]]
        <4>1. PICK a, b, p :
                step' = [step EXCEPT ![k].status = "started", ![k].settled = a,
                                     ![k].free = b, ![k].period = p]
          BY <1>11 DEF StartStep, Key
        <4>2. [step EXCEPT ![k].status = "started", ![k].settled = a,
                           ![k].free = b, ![k].period = p]
                = [step EXCEPT ![k] = [step[k] EXCEPT !.status = "started",
                                         !.settled = a, !.free = b, !.period = p]]
          BY <1>t, <2>3 DEF TypeOK
        <4> QED  BY <4>1, <4>2
      <3> QED  BY <1>t, <2>3, <2>4, <3>2, <3>3 DEF TypeOK
    <2>6. spent[k] = 0 /\ spent'[k] = 1
          /\ \A q \in Ops \X StageKeys : q # k => spent'[q] = spent[q]
      <3>1. spent[k] = 0
        BY <1>t, <2>1, <2>3, <2>4 DEF SpentIsBit, PaidIsStarted
      <3> QED  BY <1>t, <2>1, <2>3, <3>1 DEF TypeOK
    <2>7. /\ call'[c].phase = "calling" /\ call'[c].op = call[c].op
          /\ call'[c].stage = call[c].stage
          /\ \A d \in Callers \ {c} : call'[d] = call[d]
      BY <1>p, <2>1 DEF Phases
    <2>8. \A d \in Callers \ {c} : InFlight(d) => Key(d) # k
      BY <1>t, <2>1, <2>3, <2>4 DEF OwnStarted, Key
    <2>9. \A o \in Ops : Fenced(o)' <=> Fenced(o)
      BY <2>1, <2>2 DEF Fenced
    <2>10. /\ Key(c)' = k
           /\ \A d \in Callers \ {c} : Key(d)' = Key(d) /\ (InFlight(d)' <=> InFlight(d))
      BY <2>3, <2>7 DEF Key, InFlight
    <2>11. k \notin durable
      BY <1>t, <2>6 DEF DurableIsPaid
    <2>12. CallsHaveSteps'
      BY <1>t, <2>3, <2>7 DEF CallsHaveSteps
    <2>13. SpentIsBit'
      BY <1>t, <2>6 DEF SpentIsBit
    <2>14. PaidCalls'
      <3> SUFFICES ASSUME NEW d \in Callers,
                          call'[d].phase \in {"calling", "returned", "saved"}
                   PROVE  spent'[Key(d)'] = 1
        BY DEF PaidCalls
      <3>1. CASE d = c
        BY <2>6, <2>10, <3>1
      <3>2. CASE d # c
        <4>1. InFlight(d) /\ call[d].phase \in {"calling", "returned", "saved"}
          BY <2>7, <3>2 DEF InFlight
        <4> QED  BY <1>k, <1>t, <2>6, <2>8, <2>10, <3>2, <4>1 DEF PaidCalls, InFlight
      <3> QED  BY <3>1, <3>2
    <2>15. OwnStarted'
      <3> SUFFICES ASSUME NEW d \in Callers, InFlight(d)', Fenced(call[d].op)'
                   PROVE  /\ step'[Key(d)'].status \in {"started", "completed"}
                          /\ step'[Key(d)'].token = d
                          /\ call'[d].phase \in {"calling", "rejected"} =>
                               step'[Key(d)'].status = "started"
                          /\ call'[d].phase = "rejected" => spent'[Key(d)'] = 0
        BY DEF OwnStarted
      <3>1. CASE d = c
        BY <2>5, <2>7, <2>10, <3>1
      <3>2. CASE d # c
        <4>1. InFlight(d) /\ call'[d] = call[d] /\ Key(d)' = Key(d)
              /\ Key(d) # k /\ Key(d) \in Ops \X StageKeys /\ call[d].op \in Ops
          BY <1>k, <2>7, <2>8, <2>10, <3>2 DEF InFlight
        <4>2. Fenced(call[d].op)
          BY <2>1, <2>2, <4>1 DEF Fenced
        <4> QED  BY <1>t, <2>5, <2>6, <4>1, <4>2 DEF OwnStarted
      <3> QED  BY <3>1, <3>2
    <2>16. PaidIsStarted'
      BY <1>t, <2>5, <2>6, <2>9 DEF PaidIsStarted
    <2>17. OneCallPerStep'
      BY <1>t, <2>8, <2>10 DEF OneCallPerStep
    <2>18. DurableIsPaid'
      BY <1>t, <2>1, <2>6 DEF DurableIsPaid, TypeOK
    <2>19. CallingIsNotDurable'
      BY <1>t, <2>1, <2>7, <2>10, <2>11 DEF CallingIsNotDurable
    <2> QED
      BY <1>t, <2>12, <2>13, <2>14, <2>15, <2>16, <2>17, <2>18, <2>19
      DEF FenceInv
  <1>12. ASSUME NEW c \in Callers, ProviderRejects(c) \/ SaveOutput(c)
         PROVE  FenceInv'
    <2> DEFINE k == Key(c)
    <2>1. /\ UNCHANGED <<step, purged, user>> /\ InFlight(c)
          /\ call[c].phase # "idle"
      BY <1>12 DEF ProviderRejects, SaveOutput, planVars, ledgerVars, archiveVars,
                   InFlight
    <2>2. /\ k \in Ops \X StageKeys /\ k[1] = call[c].op /\ call[c].op \in Ops
          /\ call[c].stage \in StageKeys /\ k = <<call[c].op, call[c].stage>>
      BY <1>k, <1>t, <2>1 DEF CallsHaveSteps
    <2>3. \/ /\ call[c].phase = "calling" /\ call'[c].phase = "rejected"
             /\ spent' = [spent EXCEPT ![k] = @ - 1] /\ durable' = durable
          \/ /\ call[c].phase = "returned" /\ call'[c].phase = "saved"
             /\ spent' = spent /\ durable' = durable \cup {k}
      BY <1>12, <1>p DEF ProviderRejects, SaveOutput, Key, Phases
    <2>4. /\ call'[c].op = call[c].op /\ call'[c].stage = call[c].stage
          /\ \A d \in Callers \ {c} : call'[d] = call[d]
      BY <1>12, <1>p DEF ProviderRejects, SaveOutput, Phases
    <2>5. \A d \in Callers : Key(d)' = Key(d) /\ (InFlight(d)' <=> InFlight(d))
      BY <2>2, <2>3, <2>4 DEF Key, InFlight
    <2>6. spent[k] = 1
      BY <1>t, <2>3 DEF PaidCalls
    <2>7. \A d \in Callers \ {c} : InFlight(d) => Key(d) # k
      BY <1>t, <2>1 DEF OneCallPerStep
    <2>8. /\ spent'[k] = IF call'[c].phase = "rejected" THEN 0 ELSE 1
          /\ \A q \in Ops \X StageKeys : q # k => spent'[q] = spent[q]
      BY <1>t, <2>2, <2>3, <2>6 DEF TypeOK
    <2>9. call[c].phase = "calling" => k \notin durable
      BY <1>t DEF CallingIsNotDurable
    <2>10. CallsHaveSteps' /\ SpentIsBit'
      BY <1>t, <2>2, <2>4, <2>8 DEF CallsHaveSteps, SpentIsBit
    <2>11. PaidCalls'
      <3> SUFFICES ASSUME NEW d \in Callers,
                          call'[d].phase \in {"calling", "returned", "saved"}
                   PROVE  spent'[Key(d)'] = 1
        BY DEF PaidCalls
      <3>1. CASE d = c
        BY <2>5, <2>8, <3>1
      <3>2. CASE d # c
        <4>1. InFlight(d) /\ call[d].phase \in {"calling", "returned", "saved"}
          BY <2>4, <3>2 DEF InFlight
        <4> QED  BY <1>k, <1>t, <2>5, <2>7, <2>8, <3>2, <4>1 DEF PaidCalls, InFlight
      <3> QED  BY <3>1, <3>2
    <2>12. OwnStarted'
      <3> SUFFICES ASSUME NEW d \in Callers, InFlight(d)', Fenced(call[d].op)'
                   PROVE  /\ step'[Key(d)'].status \in {"started", "completed"}
                          /\ step'[Key(d)'].token = d
                          /\ call'[d].phase \in {"calling", "rejected"} =>
                               step'[Key(d)'].status = "started"
                          /\ call'[d].phase = "rejected" => spent'[Key(d)'] = 0
        BY DEF OwnStarted
      <3>1. InFlight(d) /\ Key(d)' = Key(d) /\ call'[d].op = call[d].op
        BY <2>4, <2>5
      <3>2. Fenced(call[d].op)
        BY <2>1, <3>1 DEF Fenced
      <3>3. /\ step[Key(d)].status \in {"started", "completed"}
            /\ step[Key(d)].token = d
            /\ call[d].phase \in {"calling", "rejected"} =>
                 step[Key(d)].status = "started"
            /\ call[d].phase = "rejected" => spent[Key(d)] = 0
        BY <1>t, <3>1, <3>2 DEF OwnStarted
      <3>4. CASE d = c
        BY <2>1, <2>3, <2>8, <3>1, <3>3, <3>4
      <3>5. CASE d # c
        <4>1. Key(d) # k /\ Key(d) \in Ops \X StageKeys /\ call'[d] = call[d]
          BY <1>k, <2>4, <2>7, <3>1, <3>5 DEF InFlight
        <4> QED  BY <2>1, <2>8, <3>1, <3>3, <4>1
      <3> QED  BY <3>4, <3>5
    <2>13. PaidIsStarted'
      BY <1>t, <2>1, <2>2, <2>6, <2>8 DEF PaidIsStarted, Fenced
    <2>14. OneCallPerStep'
      BY <1>t, <2>5 DEF OneCallPerStep
    <2>15. DurableIsPaid'
      BY <1>t, <2>2, <2>3, <2>6, <2>8, <2>9 DEF DurableIsPaid, TypeOK
    <2>16. CallingIsNotDurable'
      <3> SUFFICES ASSUME NEW d \in Callers, call'[d].phase = "calling"
                   PROVE  Key(d)' \notin durable'
        BY DEF CallingIsNotDurable
      <3>1. d # c /\ call[d].phase = "calling" /\ InFlight(d)
        BY <2>3, <2>4 DEF InFlight
      <3> QED  BY <1>t, <2>3, <2>5, <2>7, <3>1 DEF CallingIsNotDurable
    <2> QED
      BY <1>t, <2>10, <2>11, <2>12, <2>13, <2>14, <2>15, <2>16 DEF FenceInv
  <1>13. CASE UNCHANGED vars
    BY <1>s, <1>13 DEF vars, callerVars
  <1>14. CASE LedgerNext
    BY <1>1, <1>2, <1>3, <1>4, <1>5, <1>8, <1>14 DEF LedgerNext
  <1>15. CASE CallerNext
    BY <1>7, <1>9, <1>10, <1>11, <1>12, <1>15 DEF CallerNext
  <1>16. CASE PlanNext
    BY <1>6, <1>16 DEF PlanNext
  <1> QED
    <2>1. \/ LedgerNext \/ CallerNext \/ PlanNext \/ UNCHANGED vars
          \/ \E target \in Plans, byAdmin \in BOOLEAN :
                    ManualPlanWrite(target, byAdmin)
      BY DEF Next, Plans
    <2> QED  BY <1>6, <1>13, <1>14, <1>15, <1>16, <2>1

-----------------------------------------------------------------------------
(* Type correctness of the ledger: every transaction of auth-repository.ts *)
(* modelled here leaves the rows it writes in their domains.               *)
THEOREM TypeCorrect == Spec => []TypeOK
PROOF
  <1>1. FenceInv => TypeOK
    BY DEF FenceInv
  <1> QED  BY <1>1, FenceInit, FenceStep, PTL DEF Spec

(* However many callers retry a stage after leases expire, crashes,        *)
(* releases and refunds, the provider is paid at most once per stage       *)
(* (claimProviderStep, startProviderStep, rejectProviderStep).             *)
THEOREM PaidOnce == Spec => []PaidAtMostOnce
PROOF
  <1>1. FenceInv => PaidAtMostOnce
    BY DEF FenceInv, SpentIsBit, PaidAtMostOnce
  <1> QED  BY <1>1, FenceInit, FenceStep, PTL DEF Spec

-----------------------------------------------------------------------------
(***************************************************************************)
(* The quota.  A start adds at most what is available; a change of plan    *)
(* restores at most the trial or clamps to the paid total.  The trial      *)
(* counter, also the copy a manual plan change holds, must stay within the *)
(* trial, or restoring the free plan would overspend it.                   *)
(***************************************************************************)
TrialBounded == user.freeUsed =< FreeTotal /\ manual.freeUsed =< FreeTotal

QuotaInv == FenceInv /\ NoOverspend /\ TrialBounded

(* The quota invariant holds of a new account. *)
LEMMA QuotaInit == Init => QuotaInv
PROOF
  BY FenceInit, LedgerAssumption
  DEF LedgerAssumption, Init, QuotaInv, NoOverspend, TrialBounded, NoManual

(* No transaction or step of a caller uses more than the total.            *)
LEMMA QuotaStep == QuotaInv /\ [Next]_vars => QuotaInv'
PROOF
  <1> SUFFICES ASSUME QuotaInv, [Next]_vars PROVE NoOverspend' /\ TrialBounded'
    BY FenceStep DEF QuotaInv
  <1> USE LedgerAssumption DEF LedgerAssumption
  <1>t. TypeOK /\ CallsHaveSteps /\ NoOverspend /\ TrialBounded
    BY DEF QuotaInv, FenceInv
  <1>u. user \in UserRow /\ manual \in PlanRead
    BY <1>t DEF TypeOK
  <1>f. ASSUME NEW used, NEW free
        PROVE  LET r == [user EXCEPT !.used = used, !.freeUsed = free]
               IN  r.used = used /\ r.freeUsed = free /\ r.total = user.total
    BY <1>u DEF UserRow
  <1>r. ASSUME NEW u \in UserRow, u.freeUsed =< FreeTotal, NEW plan \in Plans
        PROVE  /\ RestoreFree(u).used =< RestoreFree(u).total
               /\ RestoreFree(u).freeUsed =< FreeTotal
               /\ Granted(u, plan).used =< Granted(u, plan).total
               /\ Granted(u, plan).freeUsed =< FreeTotal
    BY <1>r, PlanUpdates
  <1>1. ASSUME UNCHANGED <<user, manual>>
        PROVE  NoOverspend' /\ TrialBounded'
    BY <1>1, <1>t DEF NoOverspend, TrialBounded
  <1>2. CASE LedgerNext
    <2>1. CASE DeleteAccount
      <3>1. user'.used = 0 /\ user'.total = 0 /\ user'.freeUsed = user.freeUsed
        BY <1>u, <2>1 DEF DeleteAccount, UserRow
      <3> QED  BY <1>t, <2>1, <3>1 DEF DeleteAccount, NoOverspend, TrialBounded
    <2>2. CASE ~DeleteAccount
      <3>1. UNCHANGED planVars
        BY <1>2, <2>2
        DEF LedgerNext, ReserveRealtime, ReserveFinalization, ReleaseReservation,
            ReservationExpires, RecordFinalizeUsage, ClaimStep, StepLeaseExpires,
            ReconcileStep, PurgeMeetingLedger, ArchiveDeletedAccount
      <3> QED  BY <1>1, <3>1 DEF planVars
    <2> QED  BY <2>1, <2>2
  <1>3. ASSUME NEW c \in Callers, StartStep(c)
        PROVE  NoOverspend' /\ TrialBounded'
    <2> DEFINE o == call[c].op
               delta == UnsettledDelta(o)
               freeUsed == IF user.plan = "free"
                           THEN Least(FreeTotal, user.freeUsed + delta)
                           ELSE user.freeUsed
    <2>1. o \in Ops
      BY <1>3, <1>t DEF StartStep, CallsHaveSteps
    <2>2. delta \in Nat
      BY <1>t, <2>1 DEF UnsettledDelta, Monus, TypeOK, ReservationRow
    <2>3. user.used + delta =< user.total
      <3>1. Cardinality(HeldByOthers(o)) \in Nat
        BY <1>t, <2>1, PendingIsNat
      <3>2. delta =< Available(o)
        BY <1>3 DEF StartStep, CanStart
      <3>3. user.used \in Nat /\ user.total \in Nat /\ user.used =< user.total
        BY <1>t, <1>u DEF NoOverspend, UserRow
      <3> HIDE DEF delta, o
      <3> QED  BY <2>2, <3>1, <3>2, <3>3 DEF Available, Monus
    <2>4. user'.used = user.used + delta /\ user'.total = user.total
          /\ user'.freeUsed = (IF delta = 0 THEN user.freeUsed ELSE freeUsed)
      <3>1. user' = [user EXCEPT !.used = user.used + delta,
                       !.freeUsed = IF delta = 0 THEN user.freeUsed ELSE freeUsed]
        BY <1>3 DEF StartStep
      <3> HIDE DEF delta, freeUsed
      <3> QED  BY <1>f, <3>1
    <2>5. freeUsed =< FreeTotal /\ manual' = manual
      BY <1>3, <1>t, <1>u, <2>2 DEF StartStep, Least, TrialBounded, UserRow
    <2> QED  BY <1>t, <2>3, <2>4, <2>5 DEF NoOverspend, TrialBounded
  <1>4. ASSUME NEW c \in Callers, RejectStep(c)
        PROVE  NoOverspend' /\ TrialBounded'
    <2> DEFINE k == <<call[c].op, call[c].stage>>
               back == step[k].settled
    <2>1. k \in Ops \X StageKeys
      BY <1>4, <1>t DEF RejectStep, CallsHaveSteps
    <2>2. back \in Nat /\ step[k].free \in Nat
      BY <1>t, <2>1 DEF TypeOK, StepRow
    <2>3. manual' = manual
      BY <1>4 DEF RejectStep
    <2>4. CASE user' = user
      BY <1>1, <2>3, <2>4
    <2>5. CASE /\ ~RefundConflict(k)
               /\ user' = [user EXCEPT
                       !.used = IF PeriodMatches(k) THEN @ - back ELSE @,
                       !.freeUsed = Monus(@, step[k].free)]
      <3> DEFINE used == IF PeriodMatches(k) THEN user.used - back ELSE user.used
                 free == Monus(user.freeUsed, step[k].free)
      <3>1. user'.used = used /\ user'.freeUsed = free /\ user'.total = user.total
        <4>1. user' = [user EXCEPT !.used = used, !.freeUsed = free]
          BY <2>5
        <4> HIDE DEF used, free
        <4> QED  BY <1>f, <4>1
      <3>2. used =< user.total /\ free =< FreeTotal
        BY <1>t, <1>u, <2>2 DEF NoOverspend, TrialBounded, Monus, UserRow
      <3> QED  BY <1>t, <2>3, <3>1, <3>2 DEF NoOverspend, TrialBounded
    <2> QED  BY <1>4, <2>4, <2>5 DEF RejectStep, Refunded
  <1>5. CASE CallerNext
    <2>1. CASE \E c \in Callers : StartStep(c) \/ RejectStep(c)
      BY <1>3, <1>4, <2>1
    <2>2. CASE ~\E c \in Callers : StartStep(c) \/ RejectStep(c)
      <3>1. UNCHANGED planVars
        BY <1>5, <2>2
        DEF CallerNext, StartRefused, ReleaseStep, ProviderReturns,
            ProviderRejects, SaveOutput, CompleteStep, CallerLost
      <3> QED  BY <1>1, <3>1 DEF planVars
    <2> QED  BY <2>1, <2>2
  <1>6. CASE PlanNext
    <2>1. CASE ApplePurchase
      <3> DEFINE free == IF user.plan = "free" THEN Least(FreeTotal, user.used)
                         ELSE user.freeUsed
      <3>1. user' = [user EXCEPT !.plan = "paid", !.total = PaidTotal, !.used = 0,
                                 !.period = orders + 1, !.freeUsed = free]
        BY <2>1 DEF ApplePurchase
      <3>2. free =< FreeTotal
        BY <1>t, <1>u DEF Least, TrialBounded, UserRow
      <3>3. user'.used = 0 /\ user'.total = PaidTotal /\ user'.freeUsed = free
        <4> HIDE DEF free
        <4> QED  BY <1>u, <3>1 DEF UserRow
      <3> QED  BY <1>t, <2>1, <3>2, <3>3 DEF ApplePurchase, NoOverspend, TrialBounded
    <2>2. CASE \E g \in grants : RevokeGrant(g) \/ GrantExpires(g)
      <3>1. manual' = manual
        BY <2>2 DEF RevokeGrant, GrantExpires
      <3>2. \/ user' = user \/ user' = RestoreFree(user)
            \/ \E plan \in Plans : user' = Granted(user, plan)
        BY <1>t, <2>2, PlanSteps
      <3> QED  BY <1>r, <1>t, <1>u, <3>1, <3>2 DEF NoOverspend, TrialBounded, Plans
    <2>3. CASE RefreshEntitlements
      <3>1. ASSUME NEW plan \in Plans, NEW n \in Nat
            PROVE  LET r == [Granted(user, plan) EXCEPT !.period = n]
                   IN  r.used =< r.total /\ r.freeUsed =< FreeTotal
        <4>1. Granted(user, plan) \in UserRow
          BY <1>u, PlanUpdates
        <4>2. /\ Granted(user, plan).used =< Granted(user, plan).total
              /\ Granted(user, plan).freeUsed =< FreeTotal
          BY <1>r, <1>t, <1>u DEF TrialBounded
        <4> QED  BY <4>1, <4>2, PeriodUpdate
      <3>2. manual' = manual
        BY <2>3 DEF RefreshEntitlements
      <3>3. \/ user' = user \/ user' = RestoreFree(user)
            \/ \E plan \in Plans, n \in Nat :
                 user' = [Granted(user, plan) EXCEPT !.period = n]
        BY <1>t, <2>3, PlanSteps
      <3>4. CASE user' = user
        BY <1>1, <3>2, <3>4
      <3>5. CASE user' = RestoreFree(user)
        BY <1>r, <1>t, <1>u, <3>2, <3>5 DEF NoOverspend, TrialBounded, Plans
      <3>6. CASE \E plan \in Plans, n \in Nat :
                   user' = [Granted(user, plan) EXCEPT !.period = n]
        BY <1>t, <3>1, <3>2, <3>6 DEF NoOverspend, TrialBounded
      <3> QED  BY <3>3, <3>4, <3>5, <3>6
    <2>4. CASE ManualPlanRead
      <3>1. user' = user /\ manual'.freeUsed = user.freeUsed
        BY <2>4 DEF ManualPlanRead
      <3> QED  BY <1>t, <3>1 DEF NoOverspend, TrialBounded
    <2> QED  BY <1>6, <2>1, <2>2, <2>3, <2>4 DEF PlanNext
  <1>7. ASSUME NEW target \in Plans, NEW byAdmin \in BOOLEAN,
               ManualPlanWrite(target, byAdmin)
        PROVE  NoOverspend' /\ TrialBounded'
    <2> DEFINE freeUsed == IF manual.plan = "free"
                           THEN Least(FreeTotal, manual.used) ELSE manual.freeUsed
               written == [user EXCEPT !.freeUsed = freeUsed, !.used = manual.used]
    <2>1. freeUsed \in Nat /\ manual.used \in Nat /\ freeUsed =< FreeTotal
      BY <1>t, <1>u DEF PlanRead, Least, TrialBounded
    <2>2. written \in UserRow /\ written.freeUsed =< FreeTotal
      <3> HIDE DEF freeUsed
      <3> QED  BY <1>u, <2>1 DEF UserRow
    <2>3. manual'.freeUsed =< FreeTotal
      BY <1>7 DEF ManualPlanWrite, NoManual
    <2>4. \/ user' = user \/ user' = RestoreFree(written)
          \/ user' = Granted(written, target)
      BY <1>7 DEF ManualPlanWrite
    <2> HIDE DEF written
    <2> QED  BY <1>r, <1>t, <2>2, <2>3, <2>4 DEF NoOverspend, TrialBounded
  <1>8. CASE UNCHANGED vars
    BY <1>1, <1>8 DEF vars
  <1>9. \/ LedgerNext \/ CallerNext \/ PlanNext \/ UNCHANGED vars
        \/ \E target \in Plans, byAdmin \in BOOLEAN :
                    ManualPlanWrite(target, byAdmin)
    BY DEF Next, Plans
  <1> QED  BY <1>2, <1>5, <1>6, <1>7, <1>8, <1>9

(* No interleaving of reservations, starts, refunds and changes of plan    *)
(* overspends the period: startProviderStep's capacity check suffices.     *)
THEOREM QuotaHolds == Spec => []NoOverspend
PROOF
  <1>1. QuotaInv => NoOverspend
    BY DEF QuotaInv
  <1> QED  BY <1>1, QuotaInit, QuotaStep, PTL DEF Spec

-----------------------------------------------------------------------------
(***************************************************************************)
(* The settlement.  What a reservation settled is the sum over its steps,  *)
(* because a step that is not started or completed carries no settlement:  *)
(* a re-claim and a release have nothing to lose.                          *)
(***************************************************************************)
OnlyPaidSettled ==
  \A k \in Ops \X StageKeys : step[k].status \notin Paid => step[k].settled = 0

SettlementInv == FenceInv /\ SettlementMatchesSteps /\ OnlyPaidSettled

(* The settlement invariant holds of an empty ledger. *)
LEMMA SettlementInit == Init => SettlementInv
PROOF
  BY FenceInit
  DEF Init, SettlementInv, SettlementMatchesSteps, OnlyPaidSettled, StepSettled,
      NoStep, NoReservation, StageKeys

(* A step row that settles n in place of what it settled changes the sum   *)
(* of its reservation by the difference, and no other sum.                 *)
LEMMA StepSettledAfter ==
  ASSUME TypeOK, NEW k \in Ops \X StageKeys, NEW n \in Nat,
         step'[k].settled = n,
         \A q \in Ops \X StageKeys : q # k => step'[q].settled = step[q].settled
  PROVE  /\ StepSettled(k[1])' = StepSettled(k[1]) - step[k].settled + n
         /\ \A o \in Ops : o # k[1] => StepSettled(o)' = StepSettled(o)
         /\ step[k].settled =< StepSettled(k[1])
PROOF
  <1>1. \A q \in Ops \X StageKeys : step[q].settled \in Nat
    BY DEF TypeOK, StepRow
  <1>2. ASSUME NEW o \in Ops, o # k[1] PROVE StepSettled(o)' = StepSettled(o)
    <2>1. \A s \in StageKeys : step'[<<o, s>>].settled = step[<<o, s>>].settled
      BY <1>2
    <2> QED  BY <2>1 DEF StepSettled, StageKeys
  <1> DEFINE o == k[1]
             a == <<o, "realtime:1">>
             b == <<o, "realtime:2">>
             c == <<o, "asr">>
             d == <<o, "summary">>
  <1>3. /\ a \in Ops \X StageKeys /\ b \in Ops \X StageKeys
        /\ c \in Ops \X StageKeys /\ d \in Ops \X StageKeys
        /\ a # b /\ a # c /\ a # d /\ b # c /\ b # d /\ c # d
        /\ k \in {a, b, c, d}
    BY DEF StageKeys
  <1>4. /\ StepSettled(o) = step[a].settled + step[b].settled
                              + step[c].settled + step[d].settled
        /\ StepSettled(o)' = step'[a].settled + step'[b].settled
                               + step'[c].settled + step'[d].settled
    BY DEF StepSettled
  <1>5. /\ StepSettled(o)' = StepSettled(o) - step[k].settled + n
        /\ step[k].settled =< StepSettled(o)
    <2> HIDE DEF a, b, c, d, o
    <2>1. CASE k = a
      BY <1>1, <1>3, <1>4, <2>1
    <2>2. CASE k = b
      BY <1>1, <1>3, <1>4, <2>2
    <2>3. CASE k = c
      BY <1>1, <1>3, <1>4, <2>3
    <2>4. CASE k = d
      BY <1>1, <1>3, <1>4, <2>4
    <2> QED  BY <1>3, <2>1, <2>2, <2>3, <2>4
  <1> QED  BY <1>2, <1>5

(* Every transaction moves a settlement and its step together.             *)
LEMMA SettlementStep == SettlementInv /\ [Next]_vars => SettlementInv'
PROOF
  <1> SUFFICES ASSUME SettlementInv, [Next]_vars
               PROVE  SettlementMatchesSteps' /\ OnlyPaidSettled'
    BY FenceStep DEF SettlementInv
  <1> USE LedgerAssumption DEF LedgerAssumption
  <1>t. TypeOK /\ CallsHaveSteps /\ SettlementMatchesSteps /\ OnlyPaidSettled
    BY DEF SettlementInv, FenceInv
  <1>n. /\ \A o \in Ops : /\ res[o] \in ReservationRow /\ res[o].settled \in Nat
                          /\ res[o].reserved \in Nat
        /\ \A k \in Ops \X StageKeys : step[k] \in StepRow /\ step[k].settled \in Nat
    BY <1>t DEF TypeOK, ReservationRow, StepRow
  <1>1. ASSUME UNCHANGED step,
               \A o \in Ops : /\ res'[o].settled = res[o].settled
                              /\ res'[o].reserved \in Nat
                              /\ res'[o].reserved >= res[o].reserved
        PROVE  SettlementMatchesSteps' /\ OnlyPaidSettled'
    BY <1>1, <1>n, <1>t
    DEF SettlementMatchesSteps, OnlyPaidSettled, StepSettled
  <1>2. ASSUME UNCHANGED <<step, res>>
        PROVE  SettlementMatchesSteps' /\ OnlyPaidSettled'
    BY <1>1, <1>2, <1>n
  <1>3. ASSUME UNCHANGED res,
               \A k \in Ops \X StageKeys :
                 /\ step'[k].settled = step[k].settled
                 /\ step[k].status \in Paid => step'[k].status \in Paid
        PROVE  SettlementMatchesSteps' /\ OnlyPaidSettled'
    <2>1. \A o \in Ops : StepSettled(o)' = StepSettled(o)
      BY <1>3 DEF StepSettled, StageKeys
    <2> QED  BY <1>3, <1>t, <2>1 DEF SettlementMatchesSteps, OnlyPaidSettled
  <1>s. ASSUME NEW k \in Ops \X StageKeys, NEW st \in Statuses,
               step' = [step EXCEPT ![k].status = st]
        PROVE  /\ step'[k].settled = step[k].settled /\ step'[k].status = st
               /\ \A q \in Ops \X StageKeys : q # k => step'[q] = step[q]
    <2>1. [step[k] EXCEPT !.status = st].settled = step[k].settled
          /\ [step[k] EXCEPT !.status = st].status = st
      BY <1>n DEF StepRow
    <2> QED  BY <1>s, <1>t, <2>1 DEF TypeOK
  <1>4. ASSUME NEW o \in Ops, ReserveRealtime(o) \/ ReserveFinalization(o)
        PROVE  SettlementMatchesSteps' /\ OnlyPaidSettled'
    <2>1. PICK minutes \in Nat, seq \in Nat : ReserveUpTo(o, minutes, seq)
      BY <1>4, <1>n DEF ReserveRealtime, ReserveFinalization, MaxChunks, TypeOK,
                        ReservationRow
    <2> DEFINE target == Greatest(res[o].reserved, minutes)
    <2>2. target \in Nat /\ target >= res[o].reserved
      BY <1>n DEF Greatest
    <2>3. res' = [res EXCEPT ![o] = [res[o] EXCEPT !.status = "reserved",
                    !.reserved = target, !.live = TRUE, !.seq = seq]]
      BY <1>t, <2>1 DEF ReserveUpTo, TypeOK
    <2>4. \A n : LET r == [res[o] EXCEPT !.status = "reserved", !.reserved = n,
                                         !.live = TRUE, !.seq = seq]
                 IN  r.settled = res[o].settled /\ r.reserved = n
      BY <1>n DEF ReservationRow
    <2>5. res'[o].settled = res[o].settled /\ res'[o].reserved = target
          /\ \A p \in Ops : p # o => res'[p] = res[p]
      BY <1>t, <2>3, <2>4 DEF TypeOK
    <2>6. UNCHANGED step
      BY <1>4 DEF ReserveRealtime, ReserveFinalization
    <2> HIDE DEF target
    <2> QED  BY <1>1, <1>n, <2>2, <2>5, <2>6
  <1>5. ASSUME NEW o \in Ops, ReservationExpires(o) \/ RecordFinalizeUsage(o)
        PROVE  SettlementMatchesSteps' /\ OnlyPaidSettled'
    <2>1. \A p \in Ops : /\ res'[p].settled = res[p].settled
                         /\ res'[p].reserved = res[p].reserved
      <3>1. \A v : /\ [res[o] EXCEPT !.live = v].settled = res[o].settled
                   /\ [res[o] EXCEPT !.live = v].reserved = res[o].reserved
                   /\ [res[o] EXCEPT !.status = v].settled = res[o].settled
                   /\ [res[o] EXCEPT !.status = v].reserved = res[o].reserved
        BY <1>n DEF ReservationRow
      <3>2. \E v : \/ res' = [res EXCEPT ![o] = [res[o] EXCEPT !.live = v]]
                   \/ res' = [res EXCEPT ![o] = [res[o] EXCEPT !.status = v]]
        BY <1>5 DEF ReservationExpires, RecordFinalizeUsage
      <3>3. PICK v : \/ res' = [res EXCEPT ![o] = [res[o] EXCEPT !.live = v]]
                     \/ res' = [res EXCEPT ![o] = [res[o] EXCEPT !.status = v]]
        BY <3>2
      <3>4. \/ res'[o] = [res[o] EXCEPT !.live = v]
            \/ res'[o] = [res[o] EXCEPT !.status = v]
        BY <1>t, <3>3 DEF TypeOK
      <3>5. \A p \in Ops : p # o => res'[p] = res[p]
        BY <1>t, <3>3 DEF TypeOK
      <3>6. /\ res'[o].settled = res[o].settled
            /\ res'[o].reserved = res[o].reserved
        BY <3>1, <3>4
      <3> QED  BY <3>5, <3>6
    <2>2. UNCHANGED step
      BY <1>5 DEF ReservationExpires, RecordFinalizeUsage
    <2> QED  BY <1>1, <1>n, <2>1, <2>2
  <1>6. ASSUME NEW o \in Ops, ReleaseReservation(o)
        PROVE  SettlementMatchesSteps' /\ OnlyPaidSettled'
    <2>1. \A k \in Ops \X StageKeys :
            /\ step'[k].settled = step[k].settled
            /\ step[k].status \in Paid => step'[k].status \in Paid
      <3> SUFFICES ASSUME NEW k \in Ops \X StageKeys
                   PROVE  /\ step'[k].settled = step[k].settled
                          /\ step[k].status \in Paid => step'[k].status \in Paid
        OBVIOUS
      <3>1. [step[k] EXCEPT !.status = "released"].settled = step[k].settled
        BY <1>n DEF StepRow
      <3> QED  BY <1>6, <3>1 DEF ReleaseReservation, Paid
    <2>2. \A p \in Ops : /\ res'[p].settled = res[p].settled
                         /\ res'[p].reserved = res[p].reserved
      <3>1. /\ [res[o] EXCEPT !.live = FALSE].settled = res[o].settled
            /\ [res[o] EXCEPT !.live = FALSE].reserved = res[o].reserved
        BY <1>n DEF ReservationRow
      <3>2. res' = [res EXCEPT ![o] = [res[o] EXCEPT !.live = FALSE]]
        BY <1>6 DEF ReleaseReservation
      <3> QED  BY <1>t, <3>1, <3>2 DEF TypeOK
    <2>3. \A p \in Ops : StepSettled(p)' = StepSettled(p)
      BY <2>1 DEF StepSettled, StageKeys
    <2> QED  BY <1>t, <2>1, <2>2, <2>3 DEF SettlementMatchesSteps, OnlyPaidSettled
  <1>7. ASSUME NEW o \in Ops, NEW s \in StageKeys, NEW c \in Callers,
               ClaimStep(c, o, s)
        PROVE  SettlementMatchesSteps' /\ OnlyPaidSettled'
    <2> DEFINE k == <<o, s>>
    <2>1. step[k].status \notin Paid /\ UNCHANGED res
      BY <1>7 DEF ClaimStep, Claimable, Paid
    <2>2. [NoStep EXCEPT !.status = "claimed", !.token = c, !.lease = TRUE].settled = 0
      BY DEF NoStep
    <2>3. step'[k].settled = 0 /\ step[k].settled = 0
          /\ \A q \in Ops \X StageKeys : q # k => step'[q] = step[q]
      BY <1>7, <1>t, <2>1, <2>2 DEF ClaimStep, TypeOK, OnlyPaidSettled
    <2>4. \A q \in Ops \X StageKeys :
            /\ step'[q].settled = step[q].settled
            /\ step[q].status \in Paid => step'[q].status \in Paid
      BY <2>1, <2>3
    <2> QED  BY <1>3, <2>1, <2>4
  <1>8. ASSUME NEW o \in Ops, NEW s \in StageKeys,
               StepLeaseExpires(o, s) \/ ReconcileStep(o, s)
        PROVE  SettlementMatchesSteps' /\ OnlyPaidSettled'
    <2> DEFINE k == <<o, s>>
    <2>1. UNCHANGED res
      BY <1>8 DEF StepLeaseExpires, ReconcileStep
    <2>2. CASE StepLeaseExpires(o, s)
      <3>1. [step[k] EXCEPT !.lease = FALSE].settled = step[k].settled
            /\ [step[k] EXCEPT !.lease = FALSE].status = step[k].status
        BY <1>n DEF StepRow
      <3>2. step' = [step EXCEPT ![k] = [step[k] EXCEPT !.lease = FALSE]]
        BY <2>2 DEF StepLeaseExpires
      <3>3. \A q \in Ops \X StageKeys : /\ step'[q].settled = step[q].settled
                                        /\ step'[q].status = step[q].status
        BY <1>t, <3>1, <3>2 DEF TypeOK
      <3> QED  BY <1>3, <2>1, <3>3
    <2>3. CASE ReconcileStep(o, s)
      <3>1. step' = [step EXCEPT ![k].status = "completed"]
        BY <2>3 DEF ReconcileStep
      <3>2. step'[k].settled = step[k].settled /\ step'[k].status = "completed"
            /\ \A q \in Ops \X StageKeys : q # k => step'[q] = step[q]
        BY <1>s, <3>1 DEF Statuses
      <3> QED  BY <1>3, <2>1, <3>2 DEF Paid
    <2> QED  BY <1>8, <2>2, <2>3
  <1>9. ASSUME NEW source, NEW ops \in SUBSET Ops, Archive(source, ops)
        PROVE  SettlementMatchesSteps' /\ OnlyPaidSettled'
    <2>1. \A k \in Ops \X StageKeys :
            step'[k] = IF k[1] \in ops THEN NoStep ELSE step[k]
      BY <1>9 DEF Archive
    <2>2. \A o \in Ops : res'[o] = IF o \in ops THEN NoReservation ELSE res[o]
      BY <1>9 DEF Archive
    <2>3. ASSUME NEW o \in Ops
          PROVE  StepSettled(o)' = IF o \in ops THEN 0 ELSE StepSettled(o)
      <3>1. \A s \in StageKeys :
              step'[<<o, s>>] = IF o \in ops THEN NoStep ELSE step[<<o, s>>]
        BY <2>1
      <3> QED  BY <3>1 DEF StepSettled, StageKeys, NoStep
    <2> QED
      BY <1>t, <2>1, <2>2, <2>3
      DEF SettlementMatchesSteps, OnlyPaidSettled, NoStep, NoReservation
  <1>10. CASE LedgerNext
    <2>1. CASE \E m \in Meetings : PurgeMeetingLedger(m)
      <3>1. PICK m \in Meetings : Archive(m, {o \in Ops : MeetingOf[o] = m})
        BY <2>1 DEF PurgeMeetingLedger
      <3> QED  BY <1>9, <3>1
    <2>2. CASE ArchiveDeletedAccount
      BY <1>9, <2>2 DEF ArchiveDeletedAccount
    <2>3. CASE DeleteAccount /\ Archive(Account, Ops)
      BY <1>9, <2>3
    <2>4. CASE DeleteAccount /\ ~Archive(Account, Ops)
      <3>1. /\ UNCHANGED res
            /\ \A k \in Ops \X StageKeys :
                 step'[k] = IF step[k].status = "claimed"
                            THEN [step[k] EXCEPT !.status = "released"]
                            ELSE step[k]
        BY <2>4 DEF DeleteAccount
      <3>2. \A k \in Ops \X StageKeys :
              [step[k] EXCEPT !.status = "released"].settled = step[k].settled
        BY <1>n DEF StepRow
      <3>3. \A k \in Ops \X StageKeys :
              /\ step'[k].settled = step[k].settled
              /\ step[k].status \in Paid => step'[k].status \in Paid
        BY <3>1, <3>2 DEF Paid
      <3> QED  BY <1>3, <3>1, <3>3
    <2> QED
      BY <1>4, <1>5, <1>6, <1>7, <1>8, <1>10, <2>1, <2>2, <2>3, <2>4 DEF LedgerNext
  <1>11. ASSUME NEW c \in Callers, StartStep(c)
         PROVE  SettlementMatchesSteps' /\ OnlyPaidSettled'
    <2>1. PICK o \in Ops, k \in Ops \X StageKeys :
            o = call[c].op /\ k = <<call[c].op, call[c].stage>> /\ k[1] = o
      BY <1>11, <1>t DEF StartStep, CallsHaveSteps
    <2> DEFINE delta == UnsettledDelta(o)
    <2>2. step[k].status = "claimed" /\ step[k].settled = 0
      BY <1>11, <1>t, <2>1
      DEF StartStep, CanStart, HoldsClaim, OnlyPaidSettled, Paid
    <2>3. res[o].settled =< res[o].reserved
      BY <1>t, <2>1 DEF SettlementMatchesSteps
    <2>4. delta \in Nat /\ res[o].settled + delta = res[o].reserved
      BY <1>n, <2>1, <2>3 DEF UnsettledDelta, Monus
    <2>5. res'[o].settled = res[o].reserved /\ res'[o].reserved = res[o].reserved
          /\ \A p \in Ops : p # o => res'[p] = res[p]
      <3>1. \A n : /\ [res[o] EXCEPT !.settled = n].settled = n
                   /\ [res[o] EXCEPT !.settled = n].reserved = res[o].reserved
        BY <1>n, <2>1 DEF ReservationRow
      <3>2. res' = [res EXCEPT ![o] =
                      [res[o] EXCEPT !.settled = res[o].settled + delta]]
        BY <1>11, <2>1 DEF StartStep
      <3> HIDE DEF delta
      <3> QED  BY <1>t, <2>1, <2>4, <3>1, <3>2 DEF TypeOK
    <2>6. /\ step'[k].settled = delta /\ step'[k].status = "started"
          /\ \A q \in Ops \X StageKeys : q # k => step'[q] = step[q]
      <3>1. \A a, b, p : LET r == [step[k] EXCEPT !.status = "started",
                                     !.settled = a, !.free = b, !.period = p]
                         IN  r.settled = a /\ r.status = "started"
        BY <1>n, <2>1 DEF StepRow
      <3>2. PICK b, p :
              step' = [step EXCEPT ![k].status = "started", ![k].settled = delta,
                                   ![k].free = b, ![k].period = p]
        BY <1>11, <2>1 DEF StartStep
      <3> HIDE DEF delta
      <3>3. [step EXCEPT ![k].status = "started", ![k].settled = delta,
                         ![k].free = b, ![k].period = p]
              = [step EXCEPT ![k] = [step[k] EXCEPT !.status = "started",
                                       !.settled = delta, !.free = b, !.period = p]]
        BY <1>t, <2>1 DEF TypeOK
      <3> QED  BY <1>t, <2>1, <3>1, <3>2, <3>3 DEF TypeOK
    <2>7. /\ StepSettled(o)' = StepSettled(o) - step[k].settled + delta
          /\ \A p \in Ops : p # o => StepSettled(p)' = StepSettled(p)
      BY <1>t, <2>1, <2>4, <2>6, StepSettledAfter
    <2>8. StepSettled(o) = res[o].settled
      BY <1>t, <2>1 DEF SettlementMatchesSteps
    <2>9. SettlementMatchesSteps'
      <3> SUFFICES ASSUME NEW p \in Ops
                   PROVE  /\ res'[p].settled = StepSettled(p)'
                          /\ res'[p].settled =< res'[p].reserved
        BY DEF SettlementMatchesSteps
      <3> HIDE DEF delta
      <3>1. CASE p = o
        BY <1>n, <2>1, <2>2, <2>4, <2>5, <2>7, <2>8, <3>1
      <3>2. CASE p # o
        BY <1>t, <2>5, <2>7, <3>2 DEF SettlementMatchesSteps
      <3> QED  BY <3>1, <3>2
    <2>10. OnlyPaidSettled'
      BY <1>t, <2>6 DEF OnlyPaidSettled, Paid
    <2> QED  BY <2>9, <2>10
  <1>12. ASSUME NEW c \in Callers, RejectStep(c)
         PROVE  SettlementMatchesSteps' /\ OnlyPaidSettled'
    <2>1. PICK o \in Ops, k \in Ops \X StageKeys :
            o = call[c].op /\ k = <<call[c].op, call[c].stage>> /\ k[1] = o
      BY <1>12, <1>t DEF RejectStep, CallsHaveSteps
    <2> DEFINE back == step[k].settled
    <2>2. res[o].settled = StepSettled(o) /\ res[o].settled =< res[o].reserved
      BY <1>t, <2>1 DEF SettlementMatchesSteps
    <2>3. CASE step' = step /\ res' = res
      BY <1>2, <2>3
    <2>4. CASE step' = [step EXCEPT ![k] = Rejected(k)]
      <3>1. /\ step'[k].settled = 0 /\ step'[k].status = "released"
            /\ \A q \in Ops \X StageKeys : q # k => step'[q] = step[q]
        <4>1. Rejected(k).settled = 0 /\ Rejected(k).status = "released"
          BY <1>n, <2>1 DEF StepRow, Rejected
        <4> QED  BY <1>t, <2>1, <2>4, <4>1 DEF TypeOK
      <3>2. /\ StepSettled(o)' = StepSettled(o) - back + 0
            /\ \A p \in Ops : p # o => StepSettled(p)' = StepSettled(p)
            /\ back =< StepSettled(o)
        BY <1>t, <2>1, <3>1, StepSettledAfter
      <3>3. /\ res'[o].settled = res[o].settled - back
            /\ res'[o].reserved = res[o].reserved
            /\ \A p \in Ops : p # o => res'[p] = res[p]
        <4>1. \A n : /\ [res[o] EXCEPT !.settled = n].settled = n
                     /\ [res[o] EXCEPT !.settled = n].reserved = res[o].reserved
          BY <1>n, <2>1 DEF ReservationRow
        <4>2. \/ back = 0 /\ res' = res
              \/ res' = [res EXCEPT ![o] =
                           [res[o] EXCEPT !.settled = Monus(res[o].settled, back)]]
          <5>1. \/ step[k].status \notin Paid /\ res' = res
                \/ step' = step /\ res' = res
                \/ res' = [res EXCEPT ![o] =
                             [res[o] EXCEPT !.settled = Monus(res[o].settled, back)]]
            BY <1>12, <2>1 DEF RejectStep, Paid
          <5>2. step' = step => step[k].status = "released"
            BY <3>1
          <5>3. step[k].status \notin Paid => back = 0
            BY <1>t, <2>1 DEF OnlyPaidSettled
          <5> QED  BY <5>1, <5>2, <5>3 DEF Paid
        <4>3. Monus(res[o].settled, back) = res[o].settled - back
          BY <1>n, <2>1, <2>2, <3>2 DEF Monus
        <4>4. CASE back = 0 /\ res' = res
          BY <1>n, <2>1, <4>4
        <4>5. CASE res' = [res EXCEPT ![o] =
                             [res[o] EXCEPT !.settled = Monus(res[o].settled, back)]]
          <5> HIDE DEF back
          <5> QED  BY <1>t, <2>1, <4>1, <4>3, <4>5 DEF TypeOK
        <4> QED  BY <4>2, <4>4, <4>5
      <3>4. SettlementMatchesSteps'
        <4> SUFFICES ASSUME NEW p \in Ops
                     PROVE  /\ res'[p].settled = StepSettled(p)'
                            /\ res'[p].settled =< res'[p].reserved
          BY DEF SettlementMatchesSteps
        <4> HIDE DEF back
        <4>1. CASE p = o
          <5>1. back \in Nat
            BY <1>n, <2>1 DEF back
          <5> QED  BY <1>n, <2>1, <2>2, <3>2, <3>3, <4>1, <5>1
        <4>2. CASE p # o
          BY <1>t, <3>2, <3>3, <4>2 DEF SettlementMatchesSteps
        <4> QED  BY <4>1, <4>2
      <3>5. OnlyPaidSettled'
        BY <1>t, <3>1 DEF OnlyPaidSettled, Paid
      <3> QED  BY <3>4, <3>5
    <2> QED  BY <1>12, <2>1, <2>3, <2>4 DEF RejectStep
  <1>13. ASSUME NEW c \in Callers, ReleaseStep(c) \/ CompleteStep(c)
         PROVE  SettlementMatchesSteps' /\ OnlyPaidSettled'
    <2> DEFINE k == <<call[c].op, call[c].stage>>
    <2>1. k \in Ops \X StageKeys /\ UNCHANGED res
      BY <1>13, <1>t DEF ReleaseStep, CompleteStep, CallsHaveSteps
    <2>2. \/ step' = step
          \/ \E st \in Statuses : /\ step' = [step EXCEPT ![k].status = st]
                                  /\ step[k].status \notin Paid \/ st \in Paid
      BY <1>13 DEF ReleaseStep, CompleteStep, Statuses, Paid
    <2>3. CASE step' = step
      BY <1>2, <2>1, <2>3
    <2>4. CASE \E st \in Statuses : /\ step' = [step EXCEPT ![k].status = st]
                                    /\ step[k].status \notin Paid \/ st \in Paid
      <3>1. PICK st \in Statuses : /\ step' = [step EXCEPT ![k].status = st]
                                   /\ step[k].status \notin Paid \/ st \in Paid
        BY <2>4
      <3> HIDE DEF k
      <3>2. step'[k].settled = step[k].settled /\ step'[k].status = st
            /\ \A q \in Ops \X StageKeys : q # k => step'[q] = step[q]
        BY <1>s, <2>1, <3>1
      <3> QED  BY <1>3, <2>1, <3>1, <3>2
    <2> QED  BY <2>2, <2>3, <2>4
  <1>14. CASE CallerNext
    <2>1. CASE \E c \in Callers : StartStep(c) \/ RejectStep(c) \/ ReleaseStep(c)
                                  \/ CompleteStep(c)
      BY <1>11, <1>12, <1>13, <2>1
    <2>2. CASE ~\E c \in Callers : StartStep(c) \/ RejectStep(c) \/ ReleaseStep(c)
                                   \/ CompleteStep(c)
      <3>1. UNCHANGED <<step, res>>
        BY <1>14, <2>2
        DEF CallerNext, StartRefused, ProviderReturns, ProviderRejects, SaveOutput,
            CallerLost, ledgerVars
      <3> QED  BY <1>2, <3>1
    <2> QED  BY <2>1, <2>2
  <1>15. CASE PlanNext \/ UNCHANGED vars
              \/ \E target \in Plans, byAdmin \in BOOLEAN :
                    ManualPlanWrite(target, byAdmin)
    <2>1. UNCHANGED <<step, res>>
      BY <1>15
      DEF PlanNext, ApplePurchase, RevokeGrant, GrantExpires, RefreshEntitlements,
          ManualPlanRead, ManualPlanWrite, vars, ledgerVars
    <2> QED  BY <1>2, <2>1
  <1> QED  BY <1>10, <1>14, <1>15 DEF Next, Plans

(* Reservations and provider steps agree on what was settled: a start, a   *)
(* refund, a re-claim after a release and an archive keep them in step.    *)
THEOREM SettlementHolds == Spec => []SettlementMatchesSteps
PROOF
  <1>1. SettlementInv => SettlementMatchesSteps
    BY DEF SettlementInv
  <1> QED  BY <1>1, SettlementInit, SettlementStep, PTL DEF Spec

-----------------------------------------------------------------------------
(***************************************************************************)
(* Sums over the step rows.  A sum is the number of cells of a chart with  *)
(* one column per row, which is how the model counts settled minutes.      *)
(***************************************************************************)
Rows == Ops \X StageKeys
Most == FreeTotal + PaidTotal
Cells(f) == {cell \in Rows \X (1..Most) : cell[2] =< f[cell[1]]}
Minutes(f) == Cardinality(Cells(f))

(* The chart is finite: operations, stages and minutes are. *)
LEMMA ChartIsFinite ==
  /\ Most \in Nat
  /\ IsFiniteSet(Rows \X (1..Most))
  /\ \A f : IsFiniteSet(Cells(f)) /\ Minutes(f) \in Nat
PROOF
  <1>1. IsFiniteSet(StageKeys)
    <2>1. IsFiniteSet({"realtime:1"} \cup {"realtime:2"})
      BY FS_Singleton, FS_AddElement
    <2>2. IsFiniteSet(({"realtime:1"} \cup {"realtime:2"}) \cup {"asr"})
      BY <2>1, FS_AddElement
    <2>3. IsFiniteSet((({"realtime:1"} \cup {"realtime:2"}) \cup {"asr"})
                        \cup {"summary"})
      BY <2>2, FS_AddElement
    <2>4. StageKeys = (({"realtime:1"} \cup {"realtime:2"}) \cup {"asr"})
                        \cup {"summary"}
      BY DEF StageKeys
    <2> QED  BY <2>3, <2>4
  <1>2. Most \in Nat
    BY LedgerAssumption DEF LedgerAssumption, Most
  <1>3. IsFiniteSet(1..Most)
    BY <1>2, FS_Interval
  <1>4. IsFiniteSet(Rows)
    BY <1>1, LedgerAssumption, FS_Product DEF Rows, LedgerAssumption
  <1>5. IsFiniteSet(Rows \X (1..Most))
    BY <1>3, <1>4, FS_Product
  <1>6. \A f : Cells(f) \in SUBSET (Rows \X (1..Most))
    BY DEF Cells
  <1>7. ASSUME NEW f PROVE IsFiniteSet(Cells(f)) /\ Minutes(f) \in Nat
    BY <1>5, <1>6, FS_Subset, FS_CardinalityType DEF Minutes
  <1> QED  BY <1>2, <1>5, <1>7

(* A sum splits when every row counts on one side only. *)
LEMMA MinutesSplit ==
  ASSUME NEW f \in [Rows -> Nat], NEW g \in [Rows -> Nat], NEW h \in [Rows -> Nat],
         \A k \in Rows : \/ f[k] = g[k] /\ h[k] = 0
                         \/ f[k] = h[k] /\ g[k] = 0
  PROVE  Minutes(f) = Minutes(g) + Minutes(h)
PROOF
  <1>1. Cells(f) = Cells(g) \cup Cells(h)
    BY ChartIsFinite DEF Cells
  <1>2. Cells(g) \cap Cells(h) = {}
    BY ChartIsFinite DEF Cells
  <1>3. /\ IsFiniteSet(Cells(g)) /\ IsFiniteSet(Cells(h))
        /\ Minutes(g) \in Nat /\ Minutes(h) \in Nat
    BY ChartIsFinite
  <1>4. Cardinality(Cells(f)) = Cardinality(Cells(g)) + Cardinality(Cells(h))
                                  - Cardinality(Cells(g) \cap Cells(h))
    BY <1>1, <1>3, FS_Union
  <1>5. Cardinality(Cells(g) \cap Cells(h)) = 0
    BY <1>2, FS_EmptySet
  <1> HIDE DEF Cells
  <1> QED  BY <1>3, <1>4, <1>5 DEF Minutes

(* A sum of one row. *)
LEMMA MinutesOfOne ==
  ASSUME NEW f \in [Rows -> Nat], NEW k \in Rows, f[k] =< Most,
         \A q \in Rows : q # k => f[q] = 0
  PROVE  Minutes(f) = f[k]
PROOF
  <1> DEFINE n == f[k]
             I == 1..n
             b == [m \in I |-> <<k, m>>]
  <1>1. n \in Nat /\ n =< Most /\ Most \in Nat
    BY ChartIsFinite
  <1>2. IsFiniteSet(I) /\ Cardinality(I) = n
    <2>1. n \in Int /\ 1 \in Int
      BY <1>1
    <2>2. /\ IsFiniteSet(1..n)
          /\ Cardinality(1..n) = IF 1 > n THEN 0 ELSE n - 1 + 1
      <3> HIDE DEF n
      <3> QED  BY <2>1, FS_Interval
    <2> HIDE DEF n
    <2> QED  BY <1>1, <2>2
  <1>3. Cells(f) = {<<k, m>> : m \in I}
    <2>1. ASSUME NEW cell \in Cells(f) PROVE cell \in {<<k, m>> : m \in I}
      <3>1. cell[1] \in Rows /\ cell[2] \in 1..Most /\ cell = <<cell[1], cell[2]>>
            /\ cell[2] =< f[cell[1]]
        BY DEF Cells
      <3>2. cell[1] = k
        BY <1>1, <3>1
      <3> QED  BY <1>1, <3>1, <3>2
    <2>2. ASSUME NEW m \in I PROVE <<k, m>> \in Cells(f)
      BY <1>1 DEF Cells
    <2> QED  BY <2>1, <2>2
  <1>4. b \in Bijection(I, Cells(f))
    <2>1. b \in [I -> Cells(f)]
      BY <1>3
    <2>2. \A t \in Cells(f) : \E m \in I : b[m] = t
      BY <1>3
    <2>3. \A m, p \in I : b[m] = b[p] => m = p
      OBVIOUS
    <2> HIDE DEF b, I
    <2> QED  BY <2>1, <2>2, <2>3 DEF Bijection, Injection, Surjection, IsInjective
  <1>5. ExistsBijection(I, Cells(f))
    BY <1>4 DEF ExistsBijection
  <1> QED  BY <1>2, <1>5, FS_Bijection DEF Minutes

(* A row that counts less in each place counts less in sum. *)
LEMMA MinutesMonotone ==
  ASSUME NEW f \in [Rows -> Nat], NEW g \in [Rows -> Nat],
         \A k \in Rows : f[k] =< g[k]
  PROVE  Minutes(f) =< Minutes(g)
PROOF
  <1>1. Cells(f) \in SUBSET Cells(g)
    BY ChartIsFinite DEF Cells
  <1> QED  BY <1>1, ChartIsFinite, FS_Subset DEF Minutes

(* A change of one row changes the sum by the difference. *)
LEMMA MinutesAfter ==
  ASSUME NEW f \in [Rows -> Nat], NEW g \in [Rows -> Nat], NEW k \in Rows,
         f[k] =< Most, g[k] =< Most,
         \A q \in Rows : q # k => g[q] = f[q]
  PROVE  /\ Minutes(g) = Minutes(f) - f[k] + g[k]
         /\ f[k] =< Minutes(f)
PROOF
  <1> DEFINE Rest == [q \in Rows |-> IF q = k THEN 0 ELSE f[q]]
             Was  == [q \in Rows |-> IF q = k THEN f[k] ELSE 0]
             Is   == [q \in Rows |-> IF q = k THEN g[k] ELSE 0]
  <1>1. Rest \in [Rows -> Nat] /\ Was \in [Rows -> Nat] /\ Is \in [Rows -> Nat]
    OBVIOUS
  <1>2. Minutes(Was) = f[k] /\ Minutes(Is) = g[k]
    <2>1. Was[k] = f[k] /\ \A q \in Rows : q # k => Was[q] = 0
      OBVIOUS
    <2>2. Is[k] = g[k] /\ \A q \in Rows : q # k => Is[q] = 0
      OBVIOUS
    <2> HIDE DEF Was, Is
    <2> QED  BY <1>1, <2>1, <2>2, MinutesOfOne
  <1>3. Minutes(f) = Minutes(Rest) + Minutes(Was)
    <2>1. \A q \in Rows : \/ f[q] = Rest[q] /\ Was[q] = 0
                          \/ f[q] = Was[q] /\ Rest[q] = 0
      OBVIOUS
    <2> HIDE DEF Rest, Was
    <2> QED  BY <1>1, <2>1, MinutesSplit
  <1>4. Minutes(g) = Minutes(Rest) + Minutes(Is)
    <2>1. \A q \in Rows : \/ g[q] = Rest[q] /\ Is[q] = 0
                          \/ g[q] = Is[q] /\ Rest[q] = 0
      OBVIOUS
    <2> HIDE DEF Rest, Is
    <2> QED  BY <1>1, <2>1, MinutesSplit
  <1>5. Minutes(Rest) \in Nat /\ f[k] \in Nat /\ g[k] \in Nat
    BY ChartIsFinite
  <1> HIDE DEF Rest, Was, Is
  <1> QED  BY <1>2, <1>3, <1>4, <1>5

(* Rows that count nothing sum to nothing. *)
LEMMA MinutesOfNone ==
  ASSUME NEW f \in [Rows -> Nat], \A k \in Rows : f[k] = 0
  PROVE  Minutes(f) = 0
PROOF
  <1>1. Cells(f) = {}
    BY ChartIsFinite DEF Cells
  <1> QED  BY <1>1, FS_EmptySet DEF Minutes

-----------------------------------------------------------------------------
(***************************************************************************)
(* What a step may do to the settled minutes: a start settles them in one  *)
(* row, a refund takes them back from one, an archive removes rows, and no *)
(* other step touches them.                                                *)
(***************************************************************************)
SameRow(k) ==
  /\ step'[k].settled = step[k].settled
  /\ step'[k].status \in Paid <=> step[k].status \in Paid
  /\ step[k].status \in Paid => /\ step'[k].free = step[k].free
                                /\ step'[k].period = step[k].period

RowsStay == /\ \A k \in Rows : SameRow(k)
            /\ UNCHANGED <<charged, archiveVars>>

SettlesRow(k, n) ==
  /\ Fenced(k[1])
  /\ step[k].status \notin Paid /\ step[k].settled = 0
  /\ step'[k].settled = n /\ step'[k].status = "started"
  /\ step'[k].free = user'.freeUsed - user.freeUsed
  /\ step'[k].period = user.period
  /\ \A q \in Rows : q # k => step'[q] = step[q]
  /\ user.used + n =< user.total
  /\ user' = [user EXCEPT !.used = user.used + n, !.freeUsed =
                IF user.plan = "free" THEN Least(FreeTotal, user.freeUsed + n)
                ELSE user.freeUsed]
  /\ charged' = charged + n
  /\ UNCHANGED <<grants, orders, manual, archiveVars>>

TakesBack(k) ==
  /\ step[k].status = "started"
  /\ user.deleted \/ ~RefundConflict(k)
  /\ step'[k].settled = 0 /\ step'[k].status = "released"
  /\ \A q \in Rows : q # k => step'[q] = step[q]
  /\ user' = Refunded(k)
  /\ charged' = Monus(charged, step[k].settled)
  /\ UNCHANGED <<grants, orders, manual, archiveVars>>

PlanStep ==
  PlanNext \/ \E target \in Plans, byAdmin \in BOOLEAN : ManualPlanWrite(target, byAdmin)

(* A start settles what its reservation holds in a row that held nothing.  *)
LEMMA StartSettles ==
  ASSUME SettlementInv, QuotaInv, NEW c \in Callers, StartStep(c)
  PROVE  \E k \in Rows, n \in Nat : SettlesRow(k, n)
PROOF
  <1>t. /\ TypeOK /\ CallsHaveSteps /\ OnlyPaidSettled /\ TrialBounded /\ NoOverspend
        /\ user \in UserRow
    BY DEF SettlementInv, QuotaInv, FenceInv, TypeOK
  <1>1. PICK o \in Ops, k \in Rows :
          o = call[c].op /\ k = <<call[c].op, call[c].stage>> /\ k[1] = o
    BY <1>t DEF StartStep, CallsHaveSteps, Rows
  <1>2. step[k] \in StepRow /\ k \in Ops \X StageKeys
    BY <1>t, <1>1 DEF TypeOK, Rows
  <1>3. PICK delta \in Nat : delta = UnsettledDelta(o)
    BY <1>t, <1>1 DEF UnsettledDelta, Monus, TypeOK, ReservationRow
  <1> DEFINE freed == IF user.plan = "free"
                      THEN Least(FreeTotal, user.freeUsed + delta) ELSE user.freeUsed
             inTrial == IF delta = 0 THEN 0
                        ELSE Least(delta, Monus(freed, user.freeUsed))
  <1>4. /\ Fenced(o) /\ CanStart(c)
        /\ user' = [user EXCEPT !.used = user.used + delta, !.freeUsed =
                      IF delta = 0 THEN user.freeUsed ELSE freed]
        /\ step' = [step EXCEPT ![k].status = "started", ![k].settled = delta,
                      ![k].free = inTrial, ![k].period = user.period]
        /\ charged' = charged + delta
        /\ UNCHANGED <<grants, orders, manual, archiveVars>>
    BY <1>1, <1>3 DEF StartStep
  <1>5. freed \in Nat /\ freed >= user.freeUsed /\ (delta = 0 => freed = user.freeUsed)
        /\ inTrial = freed - user.freeUsed
    BY <1>t, LedgerAssumption DEF LedgerAssumption, TrialBounded, Least, Monus, UserRow
  <1>6. step[k].status \notin Paid /\ step[k].settled = 0
    BY <1>t, <1>1, <1>2, <1>4 DEF CanStart, HoldsClaim, OnlyPaidSettled, Paid
  <1>7. user.used + delta =< user.total
    <2>1. delta =< Available(o) /\ Cardinality(HeldByOthers(o)) \in Nat
      BY <1>t, <1>1, <1>3, <1>4, PendingIsNat DEF CanStart
    <2>2. user.used \in Nat /\ user.total \in Nat /\ user.used =< user.total
      BY <1>t DEF NoOverspend, UserRow
    <2> QED  BY <2>1, <2>2 DEF Available, Monus
  <1>8. user' = [user EXCEPT !.used = user.used + delta, !.freeUsed = freed]
    BY <1>4, <1>5
  <1>9. user'.freeUsed = freed
    <2> HIDE DEF freed
    <2> QED  BY <1>t, <1>8 DEF UserRow
  <1>10. /\ step'[k].settled = delta /\ step'[k].status = "started"
         /\ step'[k].free = inTrial /\ step'[k].period = user.period
         /\ \A q \in Rows : q # k => step'[q] = step[q]
    <2> HIDE DEF inTrial
    <2>1. LET r == [step[k] EXCEPT !.status = "started", !.settled = delta,
                      !.free = inTrial, !.period = user.period]
          IN  /\ r.settled = delta /\ r.status = "started"
              /\ r.free = inTrial /\ r.period = user.period
              /\ step' = [step EXCEPT ![k] = r]
      BY <1>2, <1>4, <1>t DEF StepRow, TypeOK
    <2> QED  BY <1>t, <1>2, <2>1 DEF TypeOK, Rows
  <1>11. SettlesRow(k, delta)
    <2> HIDE DEF inTrial
    <2> QED
      BY <1>1, <1>4, <1>5, <1>6, <1>7, <1>8, <1>9, <1>10 DEF SettlesRow
  <1> QED  BY <1>1, <1>11

(* A refusal takes a row's settlement back, or leaves every settlement.    *)
LEMMA RejectTakesBack ==
  ASSUME SettlementInv, NEW c \in Callers, RejectStep(c)
  PROVE  (\E k \in Rows : TakesBack(k)) \/ (RowsStay /\ UNCHANGED planVars)
PROOF
  <1>t. TypeOK /\ CallsHaveSteps /\ OnlyPaidSettled
    BY DEF SettlementInv, FenceInv
  <1>1. PICK o \in Ops, k \in Rows :
          o = call[c].op /\ k = <<call[c].op, call[c].stage>> /\ k[1] = o
    BY <1>t DEF RejectStep, CallsHaveSteps, Rows
  <1>2. step[k] \in StepRow /\ k \in Ops \X StageKeys
    BY <1>t, <1>1 DEF TypeOK, Rows
  <1>3. ASSUME step' = [step EXCEPT ![k] = Rejected(k)]
        PROVE  /\ step'[k].settled = 0 /\ step'[k].status = "released"
               /\ \A q \in Rows : q # k => step'[q] = step[q]
    <2>1. Rejected(k).settled = 0 /\ Rejected(k).status = "released"
      BY <1>2 DEF StepRow, Rejected
    <2> QED  BY <1>t, <1>2, <1>3, <2>1 DEF TypeOK, Rows
  <1> DEFINE mine == step[k].token = c
             refund == /\ mine /\ step[k].status = "started"
                       /\ user.deleted \/ ~RefundConflict(k)
  <1>4. UNCHANGED <<grants, orders, manual, archiveVars>>
    BY DEF RejectStep
  <1>5. CASE refund
    <2>1. /\ step' = [step EXCEPT ![k] = Rejected(k)]
          /\ user' = Refunded(k)
          /\ charged' = Monus(charged, step[k].settled)
      BY <1>1, <1>5 DEF RejectStep
    <2>2. TakesBack(k)
      BY <1>3, <1>4, <1>5, <2>1 DEF TakesBack
    <2> QED  BY <1>1, <2>2
  <1>6. CASE ~refund
    <2>1. /\ user' = user /\ charged' = charged
          /\ step' = IF mine /\ step[k].status = "claimed"
                     THEN [step EXCEPT ![k] = Rejected(k)] ELSE step
      BY <1>1, <1>6 DEF RejectStep
    <2>2. CASE step' = step
      BY <1>4, <2>1, <2>2 DEF RowsStay, SameRow, planVars
    <2>3. CASE step[k].status = "claimed" /\ step' = [step EXCEPT ![k] = Rejected(k)]
      <3>1. step[k].settled = 0
        BY <1>t, <1>2, <2>3 DEF OnlyPaidSettled, Paid
      <3>2. \A q \in Rows : SameRow(q)
        BY <1>3, <2>3, <3>1 DEF SameRow, Paid
      <3> QED  BY <1>4, <2>1, <3>2 DEF RowsStay, planVars
    <2> QED  BY <2>1, <2>2, <2>3
  <1> QED  BY <1>5, <1>6

(* Every step is of one of these kinds. *)
LEMMA StepKinds ==
  ASSUME SettlementInv, QuotaInv, [Next]_vars
  PROVE  \/ \E k \in Rows, n \in Nat : SettlesRow(k, n)
         \/ \E k \in Rows : TakesBack(k)
         \/ \E m \in Meetings : PurgeMeetingLedger(m)
         \/ ArchiveDeletedAccount
         \/ DeleteAccount
         \/ RowsStay /\ UNCHANGED planVars
         \/ RowsStay /\ PlanStep
PROOF
  <1>t. /\ TypeOK /\ CallsHaveSteps /\ OnlyPaidSettled
        /\ \A k \in Rows : step[k] \in StepRow
    BY DEF SettlementInv, FenceInv, TypeOK, Rows
  <1>s. ASSUME NEW k \in Rows, NEW st \in Statuses,
               step' = [step EXCEPT ![k].status = st],
               st \in Paid <=> step[k].status \in Paid
        PROVE  \A q \in Rows : SameRow(q)
    <2> DEFINE r == [step[k] EXCEPT !.status = st]
    <2>1. r.settled = step[k].settled /\ r.status = st /\ r.free = step[k].free
          /\ r.period = step[k].period
      BY <1>t DEF StepRow
    <2>2. step' = [step EXCEPT ![k] = r]
      BY <1>s
    <2> HIDE DEF r
    <2>3. step'[k] = r /\ \A q \in Rows : q # k => step'[q] = step[q]
      BY <1>t, <2>2 DEF TypeOK, Rows
    <2> QED  BY <1>s, <2>1, <2>3 DEF SameRow
  <1>r. UNCHANGED step => \A q \in Rows : SameRow(q)
    BY DEF SameRow
  <1>l. ASSUME NEW f \in [Rows -> BOOLEAN],
               \A k \in Rows : /\ f[k] => step[k].status = "claimed"
                               /\ step'[k] = IF f[k] THEN [step[k] EXCEPT !.status = "released"]
                                                     ELSE step[k]
        PROVE  \A q \in Rows : SameRow(q)
    <2>1. \A k \in Rows : LET r == [step[k] EXCEPT !.status = "released"]
                          IN  r.settled = step[k].settled /\ r.status = "released"
      BY <1>t DEF StepRow
    <2> QED  BY <1>l, <2>1 DEF SameRow, Paid
  <1>1. CASE LedgerNext
    <2>1. ASSUME NEW o \in Ops,
                 \/ ReserveRealtime(o) \/ ReserveFinalization(o)
                 \/ ReservationExpires(o) \/ RecordFinalizeUsage(o)
          PROVE  RowsStay /\ UNCHANGED planVars
      <3>1. UNCHANGED <<step, charged, archiveVars, planVars>>
        BY <2>1 DEF ReserveRealtime, ReserveFinalization, ReservationExpires,
                    RecordFinalizeUsage
      <3> QED  BY <1>r, <3>1 DEF RowsStay
    <2>2. ASSUME NEW o \in Ops, ReleaseReservation(o)
          PROVE  RowsStay /\ UNCHANGED planVars
      <3> DEFINE f == [k \in Rows |-> k \in StepsOf(o) /\ step[k].status = "claimed"]
      <3>1. \A k \in Rows : step'[k] = IF f[k] THEN [step[k] EXCEPT !.status = "released"]
                                       ELSE step[k]
        BY <2>2 DEF ReleaseReservation, Rows
      <3>2. f \in [Rows -> BOOLEAN] /\ \A k \in Rows : f[k] => step[k].status = "claimed"
        OBVIOUS
      <3> HIDE DEF f
      <3>3. \A q \in Rows : SameRow(q)
        BY <1>l, <3>1, <3>2
      <3> QED  BY <2>2, <3>3 DEF RowsStay, ReleaseReservation
    <2>3. ASSUME NEW o \in Ops, NEW s \in StageKeys, NEW c \in Callers, ClaimStep(c, o, s)
          PROVE  RowsStay /\ UNCHANGED planVars
      <3> DEFINE k == <<o, s>>
                 r == [NoStep EXCEPT !.status = "claimed", !.token = c, !.lease = TRUE]
      <3>1. k \in Rows /\ step[k].status \notin Paid /\ step[k].settled = 0
        BY <1>t, <2>3 DEF ClaimStep, Claimable, Paid, OnlyPaidSettled, Rows
      <3>2. r.settled = 0 /\ r.status = "claimed"
        BY DEF NoStep
      <3>3. step' = [step EXCEPT ![k] = r]
        BY <2>3 DEF ClaimStep
      <3> HIDE DEF k, r
      <3>4. step'[k] = r /\ \A q \in Rows : q # k => step'[q] = step[q]
        BY <1>t, <3>1, <3>3 DEF TypeOK, Rows
      <3>5. \A q \in Rows : SameRow(q)
        BY <3>1, <3>2, <3>4 DEF SameRow, Paid
      <3> QED  BY <2>3, <3>5 DEF RowsStay, ClaimStep
    <2>4. ASSUME NEW o \in Ops, NEW s \in StageKeys, StepLeaseExpires(o, s)
          PROVE  RowsStay /\ UNCHANGED planVars
      <3> DEFINE k == <<o, s>>
                 r == [step[k] EXCEPT !.lease = FALSE]
      <3>1. k \in Rows
        BY DEF Rows
      <3>2. r.settled = step[k].settled /\ r.status = step[k].status
            /\ r.free = step[k].free /\ r.period = step[k].period
        BY <1>t, <3>1 DEF StepRow
      <3>3. step' = [step EXCEPT ![k] = r]
        BY <2>4 DEF StepLeaseExpires
      <3> HIDE DEF k, r
      <3>4. step'[k] = r /\ \A q \in Rows : q # k => step'[q] = step[q]
        BY <1>t, <3>1, <3>3 DEF TypeOK, Rows
      <3>5. \A q \in Rows : SameRow(q)
        BY <3>2, <3>4 DEF SameRow
      <3> QED  BY <2>4, <3>5 DEF RowsStay, StepLeaseExpires
    <2>5. ASSUME NEW o \in Ops, NEW s \in StageKeys, ReconcileStep(o, s)
          PROVE  RowsStay /\ UNCHANGED planVars
      <3>1. \A q \in Rows : SameRow(q)
        BY <1>s, <2>5 DEF ReconcileStep, Rows, Paid, Statuses
      <3> QED  BY <2>5, <3>1 DEF RowsStay, ReconcileStep
    <2> QED  BY <1>1, <2>1, <2>2, <2>3, <2>4, <2>5 DEF LedgerNext
  <1>2. ASSUME NEW c \in Callers, ReleaseStep(c)
        PROVE  RowsStay /\ UNCHANGED planVars
    <2> DEFINE k == <<call[c].op, call[c].stage>>
    <2>1. k \in Rows
      BY <1>2, <1>t DEF ReleaseStep, CallsHaveSteps, Rows
    <2>2. \/ step' = step
          \/ step[k].status = "claimed" /\ step' = [step EXCEPT ![k].status = "released"]
      BY <1>2 DEF ReleaseStep
    <2> HIDE DEF k
    <2>3. \A q \in Rows : SameRow(q)
      BY <1>r, <1>s, <2>1, <2>2 DEF Paid, Statuses
    <2> QED  BY <1>2, <2>3 DEF RowsStay, ReleaseStep
  <1>3. ASSUME NEW c \in Callers, CompleteStep(c)
        PROVE  RowsStay /\ UNCHANGED planVars
    <2> DEFINE k == <<call[c].op, call[c].stage>>
    <2>1. k \in Rows
      BY <1>3, <1>t DEF CompleteStep, CallsHaveSteps, Rows
    <2>2. \/ step' = step
          \/ step[k].status = "started" /\ step' = [step EXCEPT ![k].status = "completed"]
      BY <1>3 DEF CompleteStep
    <2> HIDE DEF k
    <2>3. \A q \in Rows : SameRow(q)
      BY <1>r, <1>s, <2>1, <2>2 DEF Paid, Statuses
    <2> QED  BY <1>3, <2>3 DEF RowsStay, CompleteStep
  <1>4. ASSUME NEW c \in Callers,
               \/ StartRefused(c) \/ ProviderReturns(c) \/ ProviderRejects(c)
               \/ SaveOutput(c) \/ CallerLost(c)
        PROVE  RowsStay /\ UNCHANGED planVars
    <2>1. UNCHANGED <<step, charged, archiveVars, planVars>>
      BY <1>4 DEF StartRefused, ProviderReturns, ProviderRejects, SaveOutput, CallerLost,
                  ledgerVars
    <2> QED  BY <1>r, <2>1 DEF RowsStay
  <1>5. CASE CallerNext
    BY <1>2, <1>3, <1>4, <1>5, StartSettles, RejectTakesBack DEF CallerNext
  <1>6. CASE PlanStep
    <2>1. UNCHANGED ledgerVars
      BY <1>6
      DEF PlanStep, PlanNext, ApplePurchase, RevokeGrant, GrantExpires,
          RefreshEntitlements, ManualPlanRead, ManualPlanWrite
    <2> QED  BY <1>6, <1>r, <2>1 DEF RowsStay, ledgerVars
  <1>7. CASE UNCHANGED vars
    BY <1>7, <1>r DEF vars, RowsStay, planVars, archiveVars
  <1> QED  BY <1>1, <1>5, <1>6, <1>7 DEF Next, PlanStep, Plans

-----------------------------------------------------------------------------
(***************************************************************************)
(* Settled cost is counted once.  The archive copies what the rows of a    *)
(* deleted meeting or account settled; a source that has its aggregate has *)
(* nothing left that a second archive could count.                         *)
(***************************************************************************)
SettledOf(ops) == [k \in Rows |-> IF k[1] \in ops THEN step[k].settled ELSE 0]

TotalIsPlans == user.total \in {0, FreeTotal, PaidTotal}

RowsFit == \A k \in Rows : step[k].settled =< Most

ArchivedIsGone ==
  /\ sources \cap Meetings \subseteq purged
  /\ \A k \in Rows : MeetingOf[k[1]] \in purged => step[k].settled = 0
  /\ Account \in sources => user.deleted /\ \A k \in Rows : step[k].settled = 0

CostInv == /\ SettlementInv /\ QuotaInv
           /\ TotalIsPlans /\ RowsFit /\ ArchivedIsGone /\ CostCountedOnce

(* The model's count of settled minutes is a sum over the rows. *)
LEMMA SettledIsSum ==
  TypeOK => \A ops \in SUBSET Ops :
              /\ SettledOf(ops) \in [Rows -> Nat]
              /\ SettledBy(ops) = Minutes(SettledOf(ops))
PROOF
  <1> SUFFICES ASSUME TypeOK, NEW ops \in SUBSET Ops
               PROVE  /\ SettledOf(ops) \in [Rows -> Nat]
                      /\ SettledBy(ops) = Minutes(SettledOf(ops))
    OBVIOUS
  <1>1. \A k \in Rows : step[k].settled \in Nat
    BY DEF TypeOK, StepRow, Rows
  <1>2. SettledOf(ops) \in [Rows -> Nat]
    BY <1>1 DEF SettledOf
  <1> DEFINE Counted == {minute \in (ops \X StageKeys) \X (1..Most) :
                           minute[2] =< step[minute[1]].settled}
  <1>3. Counted = Cells(SettledOf(ops))
    <2>1. ASSUME NEW k \in Rows, NEW n \in 1..Most
          PROVE  <<k, n>> \in Counted <=> <<k, n>> \in Cells(SettledOf(ops))
      <3>1. n \in Nat /\ n > 0 /\ k = <<k[1], k[2]>> /\ k[2] \in StageKeys
        BY ChartIsFinite DEF Rows
      <3>2. k \in ops \X StageKeys <=> k[1] \in ops
        BY <3>1
      <3>3. <<k, n>> \in Counted <=> k[1] \in ops /\ n =< step[k].settled
        BY <3>2
      <3>4. <<k, n>> \in Cells(SettledOf(ops)) <=> n =< SettledOf(ops)[k]
        BY DEF Cells
      <3>5. SettledOf(ops)[k] = IF k[1] \in ops THEN step[k].settled ELSE 0
        BY DEF SettledOf
      <3> QED  BY <3>1, <3>3, <3>4, <3>5
    <2>2. Counted \in SUBSET (Rows \X (1..Most))
      BY DEF Rows
    <2>3. Cells(SettledOf(ops)) \in SUBSET (Rows \X (1..Most))
      BY DEF Cells
    <2> HIDE DEF Counted
    <2>4. \A t \in Rows \X (1..Most) : t \in Counted <=> t \in Cells(SettledOf(ops))
      BY <2>1
    <2> QED  BY <2>2, <2>3, <2>4
  <1>4. SettledBy(ops) = Cardinality(Counted)
    BY DEF SettledBy, Most
  <1> QED  BY <1>2, <1>3, <1>4 DEF Minutes

LEMMA SettledIsSumAfter ==
  (TypeOK => \A ops \in SUBSET Ops :
               /\ SettledOf(ops) \in [Rows -> Nat]
               /\ SettledBy(ops) = Minutes(SettledOf(ops)))'
PROOF
  BY SettledIsSum, PTL

(* At the start nothing is settled, charged or archived. *)
LEMMA CostInit == Init => CostInv
PROOF
  <1> SUFFICES ASSUME Init PROVE CostInv
    OBVIOUS
  <1>1. SettlementInv /\ QuotaInv /\ TypeOK
    BY SettlementInit, QuotaInit DEF SettlementInv, FenceInv
  <1>2. \A k \in Rows : step[k].settled = 0
    BY DEF Init, NoStep, Rows
  <1>3. SettledBy(Ops) = 0
    <2>1. \A k \in Rows : SettledOf(Ops)[k] = 0
      BY <1>2 DEF SettledOf
    <2> QED  BY <1>1, <2>1, SettledIsSum, MinutesOfNone
  <1>4. charged = 0 /\ archived = 0 /\ sources = {} /\ user.total = FreeTotal
    BY DEF Init
  <1>5. TotalIsPlans /\ RowsFit /\ ArchivedIsGone /\ CostCountedOnce
    BY <1>2, <1>3, <1>4, ChartIsFinite
    DEF TotalIsPlans, RowsFit, ArchivedIsGone, CostCountedOnce
  <1> QED  BY <1>1, <1>5 DEF CostInv

(* A plan change leaves the total of a plan, and deletes nobody.           *)
LEMMA PlanStepTotals ==
  ASSUME TypeOK, PlanStep
  PROVE  /\ user'.deleted = user.deleted
         /\ user'.total \in {user.total, FreeTotal, PaidTotal}
PROOF
  <1>t. user \in UserRow
    BY DEF TypeOK
  <1>0. \A u \in UserRow : RestoreFree(u).deleted = u.deleted /\ RestoreFree(u).total = FreeTotal
    BY DEF RestoreFree, UserRow
  <1>1. \A u \in UserRow, plan \in Plans, n \in Nat :
          /\ Granted(u, plan).deleted = u.deleted
          /\ Granted(u, plan).total \in {FreeTotal, PaidTotal}
          /\ [Granted(u, plan) EXCEPT !.period = n].deleted = u.deleted
          /\ [Granted(u, plan) EXCEPT !.period = n].total \in {FreeTotal, PaidTotal}
    BY DEF Granted, PlanMinutes, UserRow
  <1>2. CASE RefreshEntitlements \/ \E g \in grants : RevokeGrant(g) \/ GrantExpires(g)
    <2>1. \/ user' = user \/ user' = RestoreFree(user)
          \/ \E plan \in Plans : user' = Granted(user, plan)
          \/ \E plan \in Plans, n \in Nat :
               user' = [Granted(user, plan) EXCEPT !.period = n]
      BY <1>2, PlanSteps
    <2>2. ASSUME NEW plan \in Plans, NEW n \in Nat,
                 user' = [Granted(user, plan) EXCEPT !.period = n]
          PROVE  /\ user'.deleted = user.deleted
                 /\ user'.total \in {FreeTotal, PaidTotal}
      BY <1>t, <1>1, <2>2
    <2>3. ASSUME NEW plan \in Plans, user' = Granted(user, plan)
          PROVE  /\ user'.deleted = user.deleted
                 /\ user'.total \in {FreeTotal, PaidTotal}
      BY <1>t, <1>1, <2>3
    <2>4. user' = RestoreFree(user) => /\ user'.deleted = user.deleted
                                      /\ user'.total = FreeTotal
      BY <1>t, <1>0
    <2> QED  BY <2>1, <2>2, <2>3, <2>4
  <1>3. CASE ApplePurchase
    BY <1>t, <1>3 DEF ApplePurchase, UserRow
  <1>4. CASE ManualPlanRead
    BY <1>4 DEF ManualPlanRead
  <1>5. ASSUME NEW target \in Plans, NEW byAdmin \in BOOLEAN,
               ManualPlanWrite(target, byAdmin)
        PROVE  /\ user'.deleted = user.deleted
               /\ user'.total \in {user.total, FreeTotal, PaidTotal}
    <2> DEFINE freeUsed == IF manual.plan = "free"
                           THEN Least(FreeTotal, manual.used) ELSE manual.freeUsed
               written == [user EXCEPT !.freeUsed = freeUsed, !.used = manual.used]
    <2>1. freeUsed \in Nat /\ manual.used \in Nat
      BY LedgerAssumption DEF LedgerAssumption, TypeOK, PlanRead, Least
    <2>2. written \in UserRow /\ written.deleted = user.deleted
      <3> HIDE DEF freeUsed
      <3> QED  BY <1>t, <2>1 DEF UserRow
    <2>3. \/ user' = user \/ user' = RestoreFree(written) \/ user' = Granted(written, target)
      BY <1>5 DEF ManualPlanWrite
    <2> HIDE DEF written
    <2> QED  BY <1>0, <1>1, <2>2, <2>3
  <1> QED  BY <1>2, <1>3, <1>4, <1>5 DEF PlanStep, PlanNext

(* The rows and the archive after the ledger of some operations went.      *)
LEMMA ArchiveCounts ==
  ASSUME CostInv, TypeOK', NEW source \in Meetings \cup {Account},
         NEW ops \in SUBSET Ops, Archive(source, ops), charged' = charged,
         source \in sources => \A k \in Rows : k[1] \in ops => step[k].settled = 0
  PROVE  /\ CostCountedOnce' /\ RowsFit'
         /\ \A k \in Rows : step'[k].settled = IF k[1] \in ops THEN 0 ELSE step[k].settled
         /\ sources' \subseteq sources \cup {source}
PROOF
  <1>t. TypeOK /\ OnlyPaidSettled /\ RowsFit /\ CostCountedOnce
    BY DEF CostInv, SettlementInv, FenceInv
  <1> DEFINE Kept == SettledOf(Ops \ ops)
             Gone == SettledOf(ops)
  <1>1. \A k \in Rows : step'[k].settled = IF k[1] \in ops THEN 0 ELSE step[k].settled
    BY DEF Archive, NoStep, Rows
  <1>2. SettledBy(Ops)' = Minutes(Kept)
    <2>1. SettledBy(Ops)' = Minutes(SettledOf(Ops)')
      BY SettledIsSumAfter
    <2>2. SettledOf(Ops)' = Kept
      BY <1>1 DEF SettledOf, Rows
    <2> QED  BY <2>1, <2>2
  <1>3. SettledBy(Ops) = Minutes(Kept) + Minutes(Gone)
    <2>1. /\ SettledOf(Ops) \in [Rows -> Nat]
          /\ Kept \in [Rows -> Nat] /\ Gone \in [Rows -> Nat]
          /\ SettledBy(Ops) = Minutes(SettledOf(Ops))
      BY <1>t, SettledIsSum
    <2>2. \A k \in Rows : \/ SettledOf(Ops)[k] = Kept[k] /\ Gone[k] = 0
                          \/ SettledOf(Ops)[k] = Gone[k] /\ Kept[k] = 0
      BY DEF SettledOf, Rows
    <2> HIDE DEF Kept, Gone
    <2> QED  BY <2>1, <2>2, MinutesSplit
  <1>4. SettledBy(ops) = Minutes(Gone) /\ Gone \in [Rows -> Nat]
    BY <1>t, SettledIsSum
  <1>5. Minutes(Kept) \in Nat /\ Minutes(Gone) \in Nat /\ archived \in Nat
    BY <1>t, ChartIsFinite DEF TypeOK
  <1>6. archived' = archived + Minutes(Gone)
    <2> DEFINE used == \E k \in ops \X StageKeys : step[k].status # "none"
    <2>1. CASE used /\ source \notin sources
      BY <2>1, <1>4 DEF Archive
    <2>2. CASE ~(used /\ source \notin sources)
      <3>1. archived' = archived
        BY <2>2 DEF Archive
      <3>2. \A k \in Rows : Gone[k] = 0
        <4>1. ASSUME NEW k \in Rows, k[1] \in ops PROVE step[k].settled = 0
          <5>1. CASE source \in sources
            BY <4>1, <5>1
          <5>2. CASE ~used
            <6>1. k \in ops \X StageKeys /\ k \in Ops \X StageKeys
              BY <4>1 DEF Rows
            <6> QED  BY <1>t, <5>2, <6>1 DEF OnlyPaidSettled, Paid
          <5> QED  BY <2>2, <5>1, <5>2
        <4> QED  BY <4>1 DEF SettledOf
      <3>3. Minutes(Gone) = 0
        <4> HIDE DEF Gone
        <4> QED  BY <1>4, <3>2, MinutesOfNone
      <3> QED  BY <1>5, <3>1, <3>3
    <2> QED  BY <2>1, <2>2
  <1>7. CostCountedOnce'
    <2> HIDE DEF Kept, Gone
    <2>1. charged' = archived + (Minutes(Kept) + Minutes(Gone))
      BY <1>t, <1>3 DEF CostCountedOnce
    <2>2. charged' = archived' + SettledBy(Ops)'
      BY <1>2, <1>5, <1>6, <2>1
    <2> QED  BY <2>2 DEF CostCountedOnce
  <1>8. RowsFit'
    BY <1>1, <1>t, ChartIsFinite DEF RowsFit
  <1>9. sources' \subseteq sources \cup {source}
    BY DEF Archive
  <1> QED  BY <1>1, <1>7, <1>8, <1>9

LEMMA CostStep == CostInv /\ [Next]_vars => CostInv'
PROOF
  <1> SUFFICES ASSUME CostInv, [Next]_vars PROVE CostInv'
    OBVIOUS
  <1>t. /\ TypeOK /\ OnlyPaidSettled /\ TotalIsPlans /\ RowsFit /\ ArchivedIsGone
        /\ CostCountedOnce /\ SettlementInv /\ QuotaInv /\ FenceInv
        /\ user \in UserRow
    BY DEF CostInv, SettlementInv, FenceInv, TypeOK
  <1>i. SettlementInv' /\ QuotaInv' /\ TypeOK'
    BY <1>t, SettlementStep, QuotaStep, TypeStep
  <1>u. /\ SettledOf(Ops) \in [Rows -> Nat] /\ SettledBy(Ops) = Minutes(SettledOf(Ops))
        /\ SettledOf(Ops)' \in [Rows -> Nat]
        /\ SettledBy(Ops)' = Minutes(SettledOf(Ops)')
    BY <1>t, <1>i, SettledIsSum, SettledIsSumAfter
  <1>v. /\ \A k \in Rows : SettledOf(Ops)[k] = step[k].settled
        /\ \A k \in Rows : SettledOf(Ops)'[k] = step'[k].settled
        /\ \A k \in Rows : k[1] \in Ops /\ MeetingOf[k[1]] \in Meetings
    BY LedgerAssumption DEF SettledOf, Rows, LedgerAssumption
  <1>w. /\ charged \in Nat /\ archived \in Nat
        /\ \A k \in Rows : step[k].settled \in Nat /\ step'[k].settled \in Nat
    BY <1>t, <1>i DEF TypeOK, StepRow, Rows
  <1> SUFFICES TotalIsPlans' /\ RowsFit' /\ ArchivedIsGone' /\ CostCountedOnce'
    BY <1>i DEF CostInv
  <1>1. ASSUME NEW k \in Rows, NEW n \in Nat, SettlesRow(k, n)
        PROVE  TotalIsPlans' /\ RowsFit' /\ ArchivedIsGone' /\ CostCountedOnce'
    <2>1. user'.total = user.total /\ user'.deleted = user.deleted
      BY <1>t, <1>1 DEF SettlesRow, UserRow
    <2>2. n =< Most
      BY <1>t, <1>1, LedgerAssumption
      DEF SettlesRow, UserRow, TotalIsPlans, LedgerAssumption, Most
    <2>3. TotalIsPlans' /\ RowsFit'
      BY <1>t, <1>1, <2>1, <2>2 DEF SettlesRow, TotalIsPlans, RowsFit
    <2>4. ArchivedIsGone'
      BY <1>t, <1>1, <2>1 DEF SettlesRow, ArchivedIsGone, Fenced, archiveVars
    <2>5. Minutes(SettledOf(Ops)') = Minutes(SettledOf(Ops)) + n
      <3>1. /\ SettledOf(Ops)[k] = 0 /\ SettledOf(Ops)'[k] = n
            /\ \A q \in Rows : q # k => SettledOf(Ops)'[q] = SettledOf(Ops)[q]
        BY <1>v, <1>1 DEF SettlesRow
      <3>2. Minutes(SettledOf(Ops)') = Minutes(SettledOf(Ops)) - 0 + n
        BY <1>u, <2>2, <3>1, ChartIsFinite, MinutesAfter
      <3> QED  BY <3>2, ChartIsFinite
    <2>6. CostCountedOnce'
      BY <1>t, <1>u, <1>w, <1>1, <2>5, ChartIsFinite
      DEF SettlesRow, CostCountedOnce, archiveVars
    <2> QED  BY <2>3, <2>4, <2>6
  <1>2. ASSUME NEW k \in Rows, TakesBack(k)
        PROVE  TotalIsPlans' /\ RowsFit' /\ ArchivedIsGone' /\ CostCountedOnce'
    <2>1. user'.total = user.total /\ user'.deleted = user.deleted
      BY <1>t, <1>2 DEF TakesBack, Refunded, UserRow
    <2>3. TotalIsPlans' /\ RowsFit'
      BY <1>t, <1>2, <2>1, ChartIsFinite DEF TakesBack, TotalIsPlans, RowsFit
    <2>4. ArchivedIsGone'
      BY <1>t, <1>2, <2>1 DEF TakesBack, ArchivedIsGone, archiveVars
    <2>5. /\ Minutes(SettledOf(Ops)') = Minutes(SettledOf(Ops)) - step[k].settled
          /\ step[k].settled =< Minutes(SettledOf(Ops))
      <3>1. /\ SettledOf(Ops)[k] = step[k].settled /\ SettledOf(Ops)'[k] = 0
            /\ \A q \in Rows : q # k => SettledOf(Ops)'[q] = SettledOf(Ops)[q]
        BY <1>v, <1>2 DEF TakesBack
      <3>2. SettledOf(Ops)[k] =< Most /\ SettledOf(Ops)'[k] =< Most
        BY <1>t, <3>1, ChartIsFinite DEF RowsFit
      <3>3. /\ Minutes(SettledOf(Ops)') = Minutes(SettledOf(Ops)) - SettledOf(Ops)[k] + 0
            /\ SettledOf(Ops)[k] =< Minutes(SettledOf(Ops))
        BY <1>u, <3>1, <3>2, MinutesAfter
      <3> QED  BY <1>w, <3>1, <3>3, ChartIsFinite
    <2>6. CostCountedOnce'
      <3>1. charged = archived + Minutes(SettledOf(Ops))
        BY <1>t, <1>u DEF CostCountedOnce
      <3>2. charged' = charged - step[k].settled
        BY <1>2, <1>w, <2>5, <3>1, ChartIsFinite DEF TakesBack, Monus
      <3>3. charged' = archived + Minutes(SettledOf(Ops)')
        BY <1>w, <2>5, <3>1, <3>2, ChartIsFinite
      <3> QED  BY <1>2, <1>u, <3>3 DEF TakesBack, CostCountedOnce, archiveVars
    <2> QED  BY <2>3, <2>4, <2>6
  <1>3. ASSUME NEW m \in Meetings, PurgeMeetingLedger(m)
        PROVE  TotalIsPlans' /\ RowsFit' /\ ArchivedIsGone' /\ CostCountedOnce'
    <2> DEFINE ops == {o \in Ops : MeetingOf[o] = m}
    <2>1. /\ Archive(m, ops) /\ purged' = purged \cup {m}
          /\ user' = user /\ charged' = charged
      BY <1>3 DEF PurgeMeetingLedger, planVars
    <2>2. m \in sources => \A k \in Rows : k[1] \in ops => step[k].settled = 0
      BY <1>t DEF ArchivedIsGone
    <2>3. /\ CostCountedOnce' /\ RowsFit'
          /\ \A k \in Rows : step'[k].settled = IF k[1] \in ops THEN 0 ELSE step[k].settled
          /\ sources' \subseteq sources \cup {m}
      <3> HIDE DEF ops
      <3>1. ops \in SUBSET Ops
        BY DEF ops
      <3> QED  BY <1>i, <2>1, <2>2, <3>1, ArchiveCounts
    <2>4. ArchivedIsGone'
      <3>1. sources' \cap Meetings \subseteq purged'
        BY <1>t, <2>1, <2>3 DEF ArchivedIsGone
      <3>2. \A k \in Rows : MeetingOf[k[1]] \in purged' => step'[k].settled = 0
        BY <1>t, <1>v, <2>1, <2>3 DEF ArchivedIsGone
      <3>3. Account \in sources' => user'.deleted /\ \A k \in Rows : step'[k].settled = 0
        BY <1>t, <2>1, <2>3, LedgerAssumption DEF ArchivedIsGone, LedgerAssumption
      <3> QED  BY <3>1, <3>2, <3>3 DEF ArchivedIsGone
    <2>5. TotalIsPlans'
      BY <1>t, <2>1 DEF TotalIsPlans
    <2> QED  BY <2>3, <2>4, <2>5
  <1>4. ASSUME Archive(Account, Ops), user'.deleted, charged' = charged,
               purged' = purged, user'.total \in {user.total, 0}
        PROVE  TotalIsPlans' /\ RowsFit' /\ ArchivedIsGone' /\ CostCountedOnce'
    <2>1. Account \in sources => \A k \in Rows : k[1] \in Ops => step[k].settled = 0
      BY <1>t DEF ArchivedIsGone
    <2>2. /\ CostCountedOnce' /\ RowsFit'
          /\ \A k \in Rows : step'[k].settled = IF k[1] \in Ops THEN 0 ELSE step[k].settled
          /\ sources' \subseteq sources \cup {Account}
      BY <1>i, <1>4, <2>1, ArchiveCounts
    <2>3. ArchivedIsGone'
      BY <1>t, <1>v, <1>4, <2>2, LedgerAssumption DEF ArchivedIsGone, LedgerAssumption
    <2>4. TotalIsPlans'
      BY <1>t, <1>4 DEF TotalIsPlans
    <2> QED  BY <2>2, <2>3, <2>4
  <1>5. CASE ArchiveDeletedAccount
    BY <1>4, <1>5 DEF ArchiveDeletedAccount, planVars
  <1>6. CASE RowsStay /\ user'.total \in {user.total, FreeTotal, PaidTotal, 0}
          /\ (user.deleted => user'.deleted)
    <2>1. /\ \A k \in Rows : step'[k].settled = step[k].settled
          /\ UNCHANGED <<charged, archived, sources, purged>>
      BY <1>6 DEF RowsStay, SameRow, archiveVars
    <2>2. SettledOf(Ops)' = SettledOf(Ops)
      BY <2>1 DEF SettledOf
    <2>3. CostCountedOnce'
      BY <1>t, <1>u, <2>1, <2>2 DEF CostCountedOnce
    <2>4. TotalIsPlans' /\ RowsFit' /\ ArchivedIsGone'
      BY <1>t, <1>6, <2>1 DEF TotalIsPlans, RowsFit, ArchivedIsGone
    <2> QED  BY <2>3, <2>4
  <1>7. CASE DeleteAccount
    <2>1. user'.deleted /\ user'.total = 0 /\ charged' = charged /\ purged' = purged
      BY <1>t, <1>7 DEF DeleteAccount, UserRow
    <2>2. CASE Archive(Account, Ops)
      BY <1>4, <2>1, <2>2
    <2>3. CASE ~Archive(Account, Ops)
      <3>1. /\ UNCHANGED <<archived, sources>>
            /\ \A k \in Rows : step'[k] = IF step[k].status = "claimed"
                                          THEN [step[k] EXCEPT !.status = "released"]
                                          ELSE step[k]
        BY <1>7, <2>3 DEF DeleteAccount, Rows
      <3>2. \A k \in Rows : LET r == [step[k] EXCEPT !.status = "released"]
                            IN  r.settled = step[k].settled /\ r.status = "released"
        BY <1>t DEF TypeOK, StepRow, Rows
      <3>3. \A k \in Rows : SameRow(k)
        BY <3>1, <3>2 DEF SameRow, Paid
      <3>4. RowsStay
        BY <2>1, <3>1, <3>3 DEF RowsStay, archiveVars
      <3> QED  BY <1>6, <2>1, <3>4
    <2> QED  BY <2>2, <2>3
  <1>8. CASE RowsStay /\ UNCHANGED planVars
    BY <1>6, <1>8 DEF planVars
  <1>9. CASE RowsStay /\ PlanStep
    <2>1. user'.deleted = user.deleted /\ user'.total \in {user.total, FreeTotal, PaidTotal}
      BY <1>t, <1>9, PlanStepTotals
    <2> QED  BY <1>6, <1>9, <2>1
  <1> QED  BY <1>t, <1>1, <1>2, <1>3, <1>5, <1>7, <1>8, <1>9, StepKinds

(* Settled cost is counted exactly once: what starts settled and refusals  *)
(* did not take back is in the archive or in the rows, never in both and   *)
(* never in neither, whichever deletion workers archive in which order     *)
(* (archiveAndDeletePostgresMeetingProcessingLedger).                      *)
THEOREM CostHolds == Spec => []CostCountedOnce
PROOF
  <1>1. CostInv => CostCountedOnce
    BY DEF CostInv
  <1> QED  BY <1>1, CostInit, CostStep, PTL DEF Spec

-----------------------------------------------------------------------------
(***************************************************************************)
(* Recorded usage is frozen.  A finalized reservation admits no start, no  *)
(* refund and no new target; only an archive removes it.                   *)
(***************************************************************************)
FrozenInv == FenceInv /\ FinalizedIsFrozen

(* The reservation of o was not finalized before or is not afterwards, or  *)
(* it and its usage event stay as they were.                               *)
StaysFrozen(o) ==
  \/ res'[o].status # "finalized"
  \/ /\ res[o].status = "finalized"
     /\ res'[o].settled = res[o].settled /\ event'[o] = event[o]

LEMMA FrozenKept ==
  ASSUME FinalizedIsFrozen, user'.deleted = user.deleted,
         \A o \in Ops : StaysFrozen(o)
  PROVE  FinalizedIsFrozen'
PROOF
  BY DEF FinalizedIsFrozen, StaysFrozen

LEMMA FrozenStep == FrozenInv /\ [Next]_vars => FrozenInv'
PROOF
  <1> SUFFICES ASSUME FrozenInv, [Next]_vars PROVE FinalizedIsFrozen'
    BY FenceStep DEF FrozenInv
  <1>t. /\ TypeOK /\ CallsHaveSteps /\ FinalizedIsFrozen
        /\ user \in UserRow /\ \A o \in Ops : res[o] \in ReservationRow
        /\ res \in [Ops -> ReservationRow] /\ event \in [Ops -> EventRow]
    BY DEF FrozenInv, FenceInv, TypeOK
  <1>k. UNCHANGED <<res, event>> /\ user'.deleted = user.deleted => FinalizedIsFrozen'
    BY <1>t DEF FinalizedIsFrozen
  <1>m. ASSUME NEW o \in Ops, NEW r, res' = [res EXCEPT ![o] = r],
               event' = event, user'.deleted = user.deleted,
               \/ r.status # "finalized"
               \/ r.status = res[o].status /\ r.settled = res[o].settled
        PROVE  FinalizedIsFrozen'
    <2>1. \A p \in Ops : StaysFrozen(p)
      BY <1>t, <1>m DEF StaysFrozen
    <2> QED  BY <1>t, <1>m, <2>1, FrozenKept
  <1>r. ASSUME NEW o \in Ops, NEW minutes, NEW seq, ReserveUpTo(o, minutes, seq),
               event' = event, user' = user
        PROVE  FinalizedIsFrozen'
    <2> DEFINE target == Greatest(res[o].reserved, minutes)
               r == [res[o] EXCEPT !.status = "reserved", !.reserved = target,
                                   !.live = TRUE, !.seq = seq]
    <2>1. res' = [res EXCEPT ![o] = r]
      BY <1>r DEF ReserveUpTo
    <2>2. r.status = "reserved"
      <3> HIDE DEF target
      <3> QED  BY <1>t DEF ReservationRow
    <2> HIDE DEF r
    <2> QED  BY <1>r, <1>m, <2>1, <2>2
  <1>l. ASSUME NEW o \in Ops, res' = [res EXCEPT ![o].live = FALSE],
               event' = event, user' = user
        PROVE  FinalizedIsFrozen'
    <2> DEFINE r == [res[o] EXCEPT !.live = FALSE]
    <2>1. res' = [res EXCEPT ![o] = r] /\ r.status = res[o].status
          /\ r.settled = res[o].settled
      BY <1>t, <1>l DEF ReservationRow
    <2> HIDE DEF r
    <2> QED  BY <1>l, <1>m, <2>1
  <1>1. CASE LedgerNext
    <2>1. ASSUME NEW o \in Ops, ReserveRealtime(o) PROVE FinalizedIsFrozen'
      BY <1>r, <2>1 DEF ReserveRealtime, planVars
    <2>2. ASSUME NEW o \in Ops, ReserveFinalization(o) PROVE FinalizedIsFrozen'
      BY <1>r, <2>2 DEF ReserveFinalization, planVars
    <2>3. ASSUME NEW o \in Ops, ReleaseReservation(o) \/ ReservationExpires(o)
          PROVE  FinalizedIsFrozen'
      BY <1>l, <2>3 DEF ReleaseReservation, ReservationExpires, planVars
    <2>4. ASSUME NEW o \in Ops, RecordFinalizeUsage(o) PROVE FinalizedIsFrozen'
      <3> DEFINE r == [res[o] EXCEPT !.status = "finalized"]
                 e == [recorded |-> TRUE, minutes |-> res[o].settled]
      <3>1. /\ res' = [res EXCEPT ![o] = r] /\ event' = [event EXCEPT ![o] = e]
            /\ user' = user
        BY <2>4 DEF RecordFinalizeUsage, planVars
      <3>2. r.settled = res[o].settled /\ e.recorded /\ e.minutes = res[o].settled
        BY <1>t DEF ReservationRow
      <3> HIDE DEF r, e
      <3> QED  BY <1>t, <3>1, <3>2 DEF FinalizedIsFrozen
    <2>5. ASSUME NEW o \in Ops, NEW s \in StageKeys,
                 \/ \E c \in Callers : ClaimStep(c, o, s)
                 \/ StepLeaseExpires(o, s) \/ ReconcileStep(o, s)
          PROVE  FinalizedIsFrozen'
      BY <1>k, <2>5 DEF ClaimStep, StepLeaseExpires, ReconcileStep, planVars
    <2>6. ASSUME NEW m \in Meetings, PurgeMeetingLedger(m) PROVE FinalizedIsFrozen'
      <3>1. \A o \in Ops : res'[o] = NoReservation \/ res'[o] = res[o]
        BY <2>6 DEF PurgeMeetingLedger, Archive
      <3>2. event' = event /\ user' = user
        BY <2>6 DEF PurgeMeetingLedger, planVars
      <3>3. \A o \in Ops : StaysFrozen(o)
        BY <3>1, <3>2 DEF StaysFrozen, NoReservation
      <3> QED  BY <1>t, <3>2, <3>3, FrozenKept
    <2>7. CASE DeleteAccount
      BY <1>t, <2>7 DEF DeleteAccount, FinalizedIsFrozen, UserRow
    <2>8. CASE ArchiveDeletedAccount
      BY <1>t, <2>8 DEF ArchiveDeletedAccount, FinalizedIsFrozen, planVars
    <2> QED
      BY <1>1, <2>1, <2>2, <2>3, <2>4, <2>5, <2>6, <2>7, <2>8 DEF LedgerNext
  <1>2. CASE CallerNext
    <2>1. ASSUME NEW c \in Callers, StartStep(c) PROVE FinalizedIsFrozen'
      <3> DEFINE o == call[c].op
                 r == [res[o] EXCEPT !.settled = @ + UnsettledDelta(o)]
      <3>1. o \in Ops /\ res[o].status = "reserved"
        BY <1>t, <2>1 DEF StartStep, CallsHaveSteps, CanStart, ReservationActive
      <3>2. res' = [res EXCEPT ![o] = r] /\ event' = event
        BY <2>1 DEF StartStep
      <3>3. user'.deleted = user.deleted
        BY <1>t, <2>1 DEF StartStep, UserRow
      <3>4. r.status = "reserved"
        <4>1. \A n : [res[o] EXCEPT !.settled = n].status = "reserved"
          BY <1>t, <3>1 DEF ReservationRow
        <4> QED  BY <4>1
      <3> HIDE DEF r, o
      <3> QED  BY <1>m, <3>1, <3>2, <3>3, <3>4
    <2>2. ASSUME NEW c \in Callers, RejectStep(c) PROVE FinalizedIsFrozen'
      <3> DEFINE o == call[c].op
                 k == <<o, call[c].stage>>
                 r == [res[o] EXCEPT !.settled = Monus(@, step[k].settled)]
      <3>1. o \in Ops /\ k[1] = o
        BY <1>t, <2>2 DEF RejectStep, CallsHaveSteps
      <3>2. event' = event /\ user'.deleted = user.deleted
        BY <1>t, <2>2 DEF RejectStep, Refunded, UserRow
      <3>3. CASE res' = res
        BY <1>k, <3>2, <3>3
      <3>4. CASE res' = [res EXCEPT ![o] = r] /\ ~user.deleted /\ ~RefundConflict(k)
        <4>1. res[o].status # "finalized"
          BY <3>1, <3>4 DEF RefundConflict
        <4>2. r.status = res[o].status
          <5>1. \A n : [res[o] EXCEPT !.settled = n].status = res[o].status
            BY <1>t, <3>1 DEF ReservationRow
          <5> QED  BY <5>1
        <4> HIDE DEF r, o, k
        <4> QED  BY <1>m, <3>1, <3>2, <3>4, <4>1, <4>2
      <3>5. CASE user.deleted
        BY <3>2, <3>5 DEF FinalizedIsFrozen
      <3> QED  BY <2>2, <3>3, <3>4, <3>5 DEF RejectStep
    <2>3. ASSUME NEW c \in Callers,
                 \/ StartRefused(c) \/ ReleaseStep(c) \/ ProviderReturns(c)
                 \/ ProviderRejects(c) \/ SaveOutput(c) \/ CompleteStep(c) \/ CallerLost(c)
          PROVE  FinalizedIsFrozen'
      BY <1>k, <2>3 DEF StartRefused, ReleaseStep, ProviderReturns, ProviderRejects,
                        SaveOutput, CompleteStep, CallerLost, planVars, ledgerVars
    <2> QED  BY <1>2, <2>1, <2>2, <2>3 DEF CallerNext
  <1>3. CASE PlanStep
    <2>1. UNCHANGED <<res, event>>
      BY <1>3
      DEF PlanStep, PlanNext, ApplePurchase, RevokeGrant, GrantExpires,
          RefreshEntitlements, ManualPlanRead, ManualPlanWrite, ledgerVars
    <2>2. user'.deleted = user.deleted
      BY <1>t, <1>3, PlanStepTotals
    <2> QED  BY <1>k, <2>1, <2>2
  <1>4. CASE UNCHANGED vars
    BY <1>k, <1>4 DEF vars
  <1> QED  BY <1>1, <1>2, <1>3, <1>4 DEF Next, PlanStep, Plans

(* Once usage is recorded, the billed minutes and the settlement stay what *)
(* they were: postgresRecordMeetingFinalizeUsage freezes the reservation,  *)
(* and neither a late start nor a late refund touches it.                  *)
THEOREM FrozenHolds == Spec => []FinalizedIsFrozen
PROOF
  <1>1. Init => FrozenInv
    BY FenceInit DEF FrozenInv, Init, FinalizedIsFrozen, NoReservation
  <1>2. FrozenInv => FinalizedIsFrozen
    BY DEF FrozenInv
  <1> QED  BY <1>1, <1>2, FrozenStep, PTL DEF Spec

-----------------------------------------------------------------------------
(***************************************************************************)
(* What holds when every change of plan comes from a subscription: the     *)
(* period's counter covers what its own steps settled, and the trial's     *)
(* counter what the trial paid for.  A manual change writes counters it    *)
(* read earlier, and breaks both.                                          *)
(***************************************************************************)
PeriodRows ==
  [k \in Rows |-> IF step[k].status \in Paid /\ step[k].period = user.period
                  THEN step[k].settled ELSE 0]

TrialRows == [k \in Rows |-> IF step[k].status \in Paid THEN step[k].free ELSE 0]

(* The users row shows the one grant there is, or the trial. *)
UserOnPlan ==
  /\ user.period =< orders
  /\ user.plan = "free" => /\ user.total = FreeTotal
                           /\ user.used = user.freeUsed
                           /\ user.period = FreePeriod
                           /\ grants = {}
  /\ user.plan = "paid" => /\ user.period # FreePeriod
                           /\ \A g \in grants : /\ grants = {g}
                                                /\ g.source = "apple"
                                                /\ g.plan = "paid"
                                                /\ user.period = g.order

(* A settled step was paid by the trial or by a period, never by both. *)
RowsOnPlan ==
  \A k \in Rows : step[k].status \in Paid =>
    /\ step[k].period =< orders
    /\ step[k].free = IF step[k].period = FreePeriod THEN step[k].settled ELSE 0

PeriodCovered == Minutes(PeriodRows) =< user.used
TrialCovered == Minutes(TrialRows) =< user.freeUsed

Covered == UserOnPlan /\ RowsOnPlan /\ PeriodCovered /\ TrialCovered

PlanInv == CostInv /\ ~manual.busy /\ (~user.deleted => Covered)

(* The two charts are charts of the rows. *)
LEMMA ChartsFit ==
  TypeOK => /\ PeriodRows \in [Rows -> Nat]
            /\ TrialRows \in [Rows -> Nat]
PROOF
  <1> SUFFICES ASSUME TypeOK
               PROVE  PeriodRows \in [Rows -> Nat] /\ TrialRows \in [Rows -> Nat]
    OBVIOUS
  <1>1. \A k \in Rows : step[k].settled \in Nat /\ step[k].free \in Nat
    BY DEF TypeOK, StepRow, Rows
  <1> QED  BY <1>1 DEF PeriodRows, TrialRows

LEMMA ChartsFitAfter ==
  (TypeOK => PeriodRows \in [Rows -> Nat] /\ TrialRows \in [Rows -> Nat])'
PROOF
  BY ChartsFit, PTL

(* The account starts on the trial, with nothing used. *)
LEMMA PlanInit == Init => PlanInv
PROOF
  <1> SUFFICES ASSUME Init PROVE PlanInv
    OBVIOUS
  <1>1. CostInv /\ TypeOK
    BY CostInit DEF CostInv, SettlementInv, FenceInv
  <1>2. /\ user.plan = "free" /\ user.total = FreeTotal /\ user.used = 0
        /\ user.freeUsed = 0 /\ user.period = 0 /\ grants = {} /\ orders = 0
        /\ ~manual.busy
    BY DEF Init, NoManual, FreePeriod
  <1>3. \A k \in Rows : step[k].status \notin Paid
    BY DEF Init, NoStep, Rows, Paid
  <1>4. Minutes(PeriodRows) = 0 /\ Minutes(TrialRows) = 0
    <2>1. \A k \in Rows : PeriodRows[k] = 0 /\ TrialRows[k] = 0
      BY <1>3 DEF PeriodRows, TrialRows
    <2> QED  BY <1>1, <2>1, ChartsFit, MinutesOfNone
  <1> QED
    BY <1>1, <1>2, <1>3, <1>4
    DEF PlanInv, Covered, UserOnPlan, RowsOnPlan, PeriodCovered, TrialCovered, FreePeriod

(* A start counts its minutes in the open period, and in the trial when    *)
(* the trial pays.                                                         *)
LEMMA StartCovered ==
  ASSUME PlanInv, TypeOK', RowsFit', NEW k \in Rows, NEW n \in Nat, SettlesRow(k, n)
  PROVE  Covered'
PROOF
  <1>t. /\ TypeOK /\ RowsFit /\ TrialBounded /\ ~user.deleted /\ Covered
        /\ user \in UserRow /\ \A q \in Rows : step[q] \in StepRow
    BY DEF PlanInv, CostInv, SettlementInv, QuotaInv, FenceInv, TypeOK, SettlesRow, Fenced,
           Rows
  <1> DEFINE freed == IF user.plan = "free" THEN Least(FreeTotal, user.freeUsed + n)
                      ELSE user.freeUsed
  <1>1. freed = IF user.plan = "free" THEN user.freeUsed + n ELSE user.freeUsed
    BY <1>t, LedgerAssumption
    DEF SettlesRow, Covered, UserOnPlan, LedgerAssumption, Least, UserRow
  <1>2. /\ user' = [user EXCEPT !.used = user.used + n, !.freeUsed = freed]
        /\ UNCHANGED <<grants, orders, manual>>
        /\ step[k].status \notin Paid /\ step'[k].settled = n /\ step'[k].status = "started"
        /\ step'[k].free = user'.freeUsed - user.freeUsed /\ step'[k].period = user.period
        /\ \A q \in Rows : q # k => step'[q] = step[q]
    BY DEF SettlesRow
  <1> HIDE DEF freed
  <1>3. /\ user'.used = user.used + n /\ user'.freeUsed = freed
        /\ user'.plan = user.plan /\ user'.total = user.total /\ user'.period = user.period
    BY <1>t, <1>2 DEF UserRow
  <1>4. step'[k].free = IF user.plan = "free" THEN n ELSE 0
    BY <1>t, <1>1, <1>2, <1>3 DEF UserRow
  <1>5. UserOnPlan'
    BY <1>t, <1>1, <1>2, <1>3 DEF Covered, UserOnPlan
  <1>6. user.plan = "free" <=> user.period = FreePeriod
    BY <1>t DEF Covered, UserOnPlan, UserRow
  <1>7. RowsOnPlan'
    BY <1>t, <1>2, <1>4, <1>6 DEF Covered, RowsOnPlan, UserOnPlan, Paid
  <1>8. /\ PeriodRows \in [Rows -> Nat] /\ PeriodRows' \in [Rows -> Nat]
        /\ TrialRows \in [Rows -> Nat] /\ TrialRows' \in [Rows -> Nat]
    BY <1>t, ChartsFit, ChartsFitAfter
  <1>9. n =< Most /\ Most \in Nat
    BY <1>2, ChartIsFinite DEF RowsFit
  <1>10. PeriodCovered'
    <2>1. /\ PeriodRows[k] = 0 /\ PeriodRows'[k] = n
          /\ \A q \in Rows : q # k => PeriodRows'[q] = PeriodRows[q]
      BY <1>2, <1>3 DEF PeriodRows, Paid
    <2>2. Minutes(PeriodRows') = Minutes(PeriodRows) - PeriodRows[k] + PeriodRows'[k]
      BY <1>8, <1>9, <2>1, MinutesAfter
    <2>3. Minutes(PeriodRows)' = Minutes(PeriodRows')
      BY DEF Minutes, Cells, Rows
    <2> QED
      BY <1>t, <1>3, <2>1, <2>2, <2>3, ChartIsFinite DEF Covered, PeriodCovered, UserRow
  <1>11. TrialCovered'
    <2> DEFINE m == IF user.plan = "free" THEN n ELSE 0
    <2>0. m \in Nat /\ m =< Most /\ freed = user.freeUsed + m
      BY <1>t, <1>1, <1>9 DEF UserRow
    <2>1. /\ TrialRows[k] = 0 /\ TrialRows'[k] = m
          /\ \A q \in Rows : q # k => TrialRows'[q] = TrialRows[q]
      BY <1>2, <1>4 DEF TrialRows, Paid
    <2> HIDE DEF m
    <2>2. Minutes(TrialRows') = Minutes(TrialRows) - TrialRows[k] + TrialRows'[k]
      BY <1>8, <1>9, <2>0, <2>1, MinutesAfter
    <2> QED
      BY <1>t, <1>3, <2>0, <2>1, <2>2, ChartIsFinite DEF Covered, TrialCovered, UserRow
  <1> QED  BY <1>5, <1>7, <1>10, <1>11 DEF Covered

(* A refund gives back to the trial what the trial paid for, and to the    *)
(* open period what it settled.                                            *)
LEMMA RefundCovered ==
  ASSUME PlanInv, TypeOK', NEW k \in Rows, TakesBack(k), ~user.deleted
  PROVE  Covered'
PROOF
  <1>t. /\ TypeOK /\ RowsFit /\ Covered /\ user \in UserRow
        /\ \A q \in Rows : step[q] \in StepRow
    BY DEF PlanInv, CostInv, SettlementInv, FenceInv, TypeOK, Rows
  <1> DEFINE n == step[k].settled
             f == step[k].free
  <1>1. /\ user' = Refunded(k) /\ ~RefundConflict(k)
        /\ UNCHANGED <<grants, orders, manual>>
        /\ step[k].status = "started" /\ step'[k].settled = 0
        /\ step'[k].status = "released"
        /\ \A q \in Rows : q # k => step'[q] = step[q]
    BY DEF TakesBack
  <1>2. n \in Nat /\ f \in Nat /\ n =< Most /\ Most \in Nat
        /\ f = IF step[k].period = FreePeriod THEN n ELSE 0
    BY <1>t, <1>1, ChartIsFinite DEF StepRow, RowsFit, Covered, RowsOnPlan, Paid
  <1>3. /\ PeriodRows \in [Rows -> Nat] /\ PeriodRows' \in [Rows -> Nat]
        /\ TrialRows \in [Rows -> Nat] /\ TrialRows' \in [Rows -> Nat]
    BY <1>t, ChartsFit, ChartsFitAfter
  <1> DEFINE p == IF step[k].period = user.period THEN n ELSE 0
  <1>4. /\ TrialRows[k] = f /\ TrialRows'[k] = 0
        /\ \A q \in Rows : q # k => TrialRows'[q] = TrialRows[q]
    BY <1>1 DEF TrialRows, Paid
  <1>5. f =< Most /\ p \in Nat /\ p =< Most
    BY <1>2
  <1>6. Minutes(TrialRows') = Minutes(TrialRows) - f /\ f =< Minutes(TrialRows)
        /\ Minutes(TrialRows) \in Nat
    <2> HIDE DEF f, n
    <2>1. /\ Minutes(TrialRows') = Minutes(TrialRows) - TrialRows[k] + TrialRows'[k]
          /\ TrialRows[k] =< Minutes(TrialRows)
      BY <1>2, <1>3, <1>4, <1>5, MinutesAfter
    <2> QED  BY <1>2, <1>4, <2>1, ChartIsFinite
  <1>7. /\ user'.used = user.used - p /\ p =< user.used
        /\ user'.freeUsed = user.freeUsed - f
        /\ user'.plan = user.plan /\ user'.total = user.total /\ user'.period = user.period
    <2>1. f =< user.freeUsed
      BY <1>t, <1>2, <1>6 DEF Covered, TrialCovered, UserRow
    <2>2. p =< user.used
      BY <1>t, <1>1, <1>2 DEF RefundConflict, PeriodMatches, UserRow
    <2>3. user' = [user EXCEPT !.used = user.used - p, !.freeUsed = user.freeUsed - f]
      <3>1. Monus(user.freeUsed, f) = user.freeUsed - f
        BY <2>1 DEF Monus
      <3>2. (IF step[k].period = user.period THEN user.used - n ELSE user.used)
              = user.used - p
        BY <1>t, <1>2 DEF UserRow
      <3>3. Refunded(k) = [user EXCEPT !.used = IF step[k].period = user.period
                                                THEN user.used - n ELSE user.used,
                                       !.freeUsed = Monus(user.freeUsed, f)]
        BY DEF Refunded, PeriodMatches
      <3> HIDE DEF n, f, p
      <3> QED  BY <1>1, <3>1, <3>2, <3>3
    <2> HIDE DEF p, f
    <2> QED  BY <1>t, <2>1, <2>2, <2>3 DEF UserRow
  <1>8. /\ PeriodRows[k] = p /\ PeriodRows'[k] = 0
        /\ \A q \in Rows : q # k => PeriodRows'[q] = PeriodRows[q]
    BY <1>1, <1>7 DEF PeriodRows, Paid
  <1>9. Minutes(PeriodRows') = Minutes(PeriodRows) - p /\ Minutes(PeriodRows) \in Nat
    <2> HIDE DEF p
    <2>1. Minutes(PeriodRows') = Minutes(PeriodRows) - PeriodRows[k] + PeriodRows'[k]
      BY <1>2, <1>3, <1>5, <1>8, MinutesAfter
    <2> QED  BY <1>5, <1>8, <2>1, ChartIsFinite
  <1>10. user.plan = "free" => p = f
    BY <1>t, <1>2 DEF Covered, UserOnPlan, RowsOnPlan
  <1> HIDE DEF p, f, n
  <1>11. UserOnPlan'
    BY <1>t, <1>1, <1>7, <1>10 DEF Covered, UserOnPlan
  <1>12. RowsOnPlan'
    BY <1>t, <1>1 DEF Covered, RowsOnPlan, Paid
  <1>13. PeriodCovered' /\ TrialCovered'
    BY <1>t, <1>2, <1>5, <1>6, <1>7, <1>9 DEF Covered, PeriodCovered, TrialCovered, UserRow
  <1> QED  BY <1>11, <1>12, <1>13 DEF Covered

(* A purchase opens a period no step belongs to; the end of a subscription *)
(* returns to the trial and to what the trial has counted.                 *)
LEMMA PlanCovered ==
  ASSUME PlanInv, TypeOK', RowsStay, PlanStep, "manual" \notin PlanChanges, ~user.deleted
  PROVE  Covered' /\ ~manual'.busy
PROOF
  <1>t. /\ TypeOK /\ ~manual.busy /\ TrialBounded /\ Covered /\ user \in UserRow
        /\ user'.deleted = user.deleted
        /\ user.plan \in {"free", "paid"}
        /\ orders \in Nat
    BY PlanStepTotals DEF PlanInv, CostInv, SettlementInv, QuotaInv, FenceInv, TypeOK, UserRow
  <1>c. /\ PeriodRows \in [Rows -> Nat] /\ PeriodRows' \in [Rows -> Nat]
        /\ TrialRows \in [Rows -> Nat] /\ TrialRows' \in [Rows -> Nat]
        /\ TrialRows' = TrialRows
    <2>1. TrialRows' = TrialRows
      BY DEF RowsStay, SameRow, TrialRows
    <2> QED  BY <1>t, <2>1, ChartsFit, ChartsFitAfter
  <1>r. orders' >= orders /\ orders' \in Nat => RowsOnPlan'
    <2> SUFFICES ASSUME orders' >= orders, orders' \in Nat, NEW k \in Rows,
                        step'[k].status \in Paid
                 PROVE  /\ step'[k].period =< orders'
                        /\ step'[k].free = IF step'[k].period = FreePeriod
                                           THEN step'[k].settled ELSE 0
      BY DEF RowsOnPlan
    <2>1. /\ step[k].status \in Paid /\ step'[k].period = step[k].period
          /\ step'[k].free = step[k].free /\ step'[k].settled = step[k].settled
          /\ step[k].period \in Nat
      BY <1>t DEF RowsStay, SameRow, TypeOK, StepRow, Rows
    <2> QED  BY <1>t, <2>1 DEF Covered, RowsOnPlan
  <1>p. user'.period = user.period => PeriodRows' = PeriodRows
    BY DEF RowsStay, SameRow, PeriodRows
  <1>f. ASSUME user' = RestoreFree(user), grants' = {}, orders' = orders
        PROVE  Covered'
    <2>1. /\ user'.plan = "free" /\ user'.total = FreeTotal
          /\ user'.used = user.freeUsed /\ user'.freeUsed = user.freeUsed
          /\ user'.period = FreePeriod
      BY <1>t, <1>f DEF RestoreFree, UserRow
    <2>2. UserOnPlan'
      BY <1>t, <1>f, <2>1 DEF UserOnPlan, FreePeriod
    <2>3. RowsOnPlan'
      BY <1>t, <1>r, <1>f
    <2>4. TrialCovered'
      BY <1>t, <1>c, <2>1 DEF Covered, TrialCovered, Minutes, Cells, Rows
    <2>5. PeriodCovered'
      <3>1. \A k \in Rows : PeriodRows'[k] =< TrialRows'[k]
        BY <1>c, <2>1, <2>3 DEF PeriodRows, TrialRows, RowsOnPlan
      <3>2. Minutes(PeriodRows') =< Minutes(TrialRows')
        BY <1>c, <3>1, MinutesMonotone
      <3> QED
        BY <2>1, <2>4, <3>2, <1>t, ChartIsFinite
        DEF PeriodCovered, TrialCovered, UserRow
    <2> QED  BY <2>2, <2>3, <2>4, <2>5 DEF Covered
  <1>s. ASSUME user' = user, orders' = orders, grants' \in SUBSET grants
        PROVE  Covered'
    <2>1. UserOnPlan'
      BY <1>t, <1>s DEF Covered, UserOnPlan
    <2>2. PeriodCovered' /\ TrialCovered'
      BY <1>t, <1>s, <1>c, <1>p DEF Covered, PeriodCovered, TrialCovered
    <2>3. RowsOnPlan'
      BY <1>t, <1>s, <1>r
    <2> QED  BY <2>1, <2>2, <2>3 DEF Covered
  <1>1. CASE ApplePurchase
    <2> DEFINE g == [order |-> orders + 1, source |-> "apple",
                     plan |-> "paid", prev |-> user.plan]
    <2>1. /\ orders' = orders + 1 /\ manual' = manual
          /\ grants' = {h \in grants : h.source # "apple"} \cup {g}
          /\ user' = [user EXCEPT !.plan = "paid", !.total = PaidTotal, !.used = 0,
                        !.period = orders + 1,
                        !.freeUsed = IF user.plan = "free"
                                     THEN Least(FreeTotal, user.used) ELSE user.freeUsed]
      BY <1>1 DEF ApplePurchase
    <2>2. (IF user.plan = "free" THEN Least(FreeTotal, user.used) ELSE user.freeUsed)
            = user.freeUsed
      BY <1>t, LedgerAssumption
      DEF Covered, UserOnPlan, TrialBounded, Least, UserRow, LedgerAssumption
    <2>3. /\ user'.plan = "paid" /\ user'.used = 0 /\ user'.period = orders + 1
          /\ user'.freeUsed = user.freeUsed
      BY <1>t, <2>1, <2>2 DEF UserRow
    <2>4. {h \in grants : h.source # "apple"} = {}
      BY <1>t DEF Covered, UserOnPlan
    <2>5. g.source = "apple" /\ g.plan = "paid" /\ g.order = orders + 1
      OBVIOUS
    <2> HIDE DEF g
    <2>6. UserOnPlan'
      BY <1>t, <2>1, <2>3, <2>4, <2>5 DEF UserOnPlan, FreePeriod
    <2>7. RowsOnPlan'
      BY <1>t, <1>r, <2>1
    <2>8. TrialCovered'
      BY <1>t, <1>c, <2>3 DEF Covered, TrialCovered
    <2>9. PeriodCovered'
      <3>1. \A k \in Rows : step'[k].status \in Paid => step'[k].period # orders + 1
        BY <1>t DEF RowsStay, SameRow, Covered, RowsOnPlan, TypeOK, StepRow, Rows
      <3>2. \A k \in Rows : PeriodRows'[k] = 0
        BY <2>3, <3>1 DEF PeriodRows
      <3>3. Minutes(PeriodRows') = 0
        BY <1>c, <3>2, MinutesOfNone
      <3> QED  BY <2>3, <3>3 DEF PeriodCovered
    <2> QED  BY <1>t, <2>1, <2>6, <2>7, <2>8, <2>9 DEF Covered
  <1>2. ASSUME NEW g \in grants, RevokeGrant(g) PROVE Covered' /\ ~manual'.busy
    <2>1. user.plan = "paid" /\ grants = {g} /\ g.source = "apple"
      BY <1>t DEF Covered, UserOnPlan
    <2>2. ActivePlans(grants \ {g}) = {"free"} /\ grants \ {g} = {}
      BY <2>1 DEF ActivePlans
    <2>3. user' = RestoreFree(user) /\ grants' = {} /\ orders' = orders /\ manual' = manual
      BY <1>2, <2>1, <2>2 DEF RevokeGrant
    <2> QED  BY <1>t, <1>f, <2>3
  <1>3. ASSUME NEW g \in grants, GrantExpires(g) PROVE Covered' /\ ~manual'.busy
    BY <1>t, <1>s, <1>3 DEF GrantExpires
  <1>4. CASE RefreshEntitlements
    <2>1. /\ UNCHANGED <<grants, orders, manual>>
      BY <1>4 DEF RefreshEntitlements
    <2>2. CASE grants = {} /\ user' = RestoreFree(user)
      BY <1>t, <1>f, <2>1, <2>2
    <2>3. ASSUME NEW g \in Newest(grants),
                 user' = IF user.plan # g.plan \/ user.period # g.order
                         THEN [Granted(user, g.plan) EXCEPT !.period = g.order]
                         ELSE user
          PROVE  Covered' /\ ~manual'.busy
      <3>1. g \in grants
        BY DEF Newest
      <3>2. user.plan = "paid" /\ g.plan = "paid" /\ user.period = g.order
        BY <1>t, <3>1 DEF Covered, UserOnPlan
      <3> QED  BY <1>t, <1>s, <2>1, <2>3, <3>2
    <2> QED  BY <1>4, <2>2, <2>3 DEF RefreshEntitlements
  <1>5. ~ManualPlanRead
    BY DEF ManualPlanRead
  <1>6. \A target \in Plans, byAdmin \in BOOLEAN : ~ManualPlanWrite(target, byAdmin)
    BY <1>t DEF ManualPlanWrite
  <1> QED  BY <1>1, <1>2, <1>3, <1>4, <1>5, <1>6 DEF PlanStep, PlanNext

LEMMA PlanInvStep ==
  ASSUME "manual" \notin PlanChanges
  PROVE  PlanInv /\ [Next]_vars => PlanInv'
PROOF
  <1> SUFFICES ASSUME PlanInv, [Next]_vars PROVE PlanInv'
    OBVIOUS
  <1>t. /\ TypeOK /\ ~manual.busy /\ CostInv /\ SettlementInv /\ QuotaInv
        /\ user \in UserRow /\ (~user.deleted => Covered)
    BY DEF PlanInv, CostInv, SettlementInv, FenceInv, TypeOK
  <1>i. CostInv' /\ TypeOK' /\ RowsFit'
    BY <1>t, CostStep DEF CostInv, SettlementInv, FenceInv
  <1> SUFFICES ~manual'.busy /\ (~user'.deleted => Covered')
    BY <1>i DEF PlanInv
  <1>1. ASSUME NEW k \in Rows, NEW n \in Nat, SettlesRow(k, n)
        PROVE  ~manual'.busy /\ (~user'.deleted => Covered')
    <2>1. manual' = manual
      BY <1>1 DEF SettlesRow
    <2> QED  BY <1>t, <1>i, <1>1, <2>1, StartCovered
  <1>2. ASSUME NEW k \in Rows, TakesBack(k)
        PROVE  ~manual'.busy /\ (~user'.deleted => Covered')
    <2>1. manual' = manual /\ user'.deleted = user.deleted
      BY <1>t, <1>2 DEF TakesBack, Refunded, UserRow
    <2> QED  BY <1>i, <1>t, <1>2, <2>1, RefundCovered
  <1>3. ASSUME UNCHANGED planVars,
               \A k \in Rows : SameRow(k) \/ step'[k] = NoStep
        PROVE  ~manual'.busy /\ (~user'.deleted => Covered')
    <2>1. user' = user /\ grants' = grants /\ orders' = orders /\ manual' = manual
      BY <1>3 DEF planVars
    <2> SUFFICES ASSUME ~user.deleted PROVE Covered'
      BY <1>t, <2>1
    <2>2. Covered
      BY <1>t
    <2>3. UserOnPlan'
      BY <2>1, <2>2 DEF Covered, UserOnPlan
    <2>4. \A k \in Rows : step'[k] = NoStep => step'[k].status \notin Paid
      BY DEF NoStep, Paid
    <2>5. RowsOnPlan'
      BY <1>3, <2>1, <2>2, <2>4 DEF Covered, RowsOnPlan, SameRow
    <2>6. /\ PeriodRows \in [Rows -> Nat] /\ PeriodRows' \in [Rows -> Nat]
          /\ TrialRows \in [Rows -> Nat] /\ TrialRows' \in [Rows -> Nat]
      BY <1>t, <1>i, ChartsFit, ChartsFitAfter
    <2>7. \A k \in Rows : PeriodRows'[k] =< PeriodRows[k] /\ TrialRows'[k] =< TrialRows[k]
      <3> SUFFICES ASSUME NEW k \in Rows
                   PROVE  PeriodRows'[k] =< PeriodRows[k] /\ TrialRows'[k] =< TrialRows[k]
        OBVIOUS
      <3>1. CASE SameRow(k)
        <4>1. PeriodRows'[k] = PeriodRows[k] /\ TrialRows'[k] = TrialRows[k]
          BY <2>1, <3>1 DEF SameRow, PeriodRows, TrialRows
        <4> QED  BY <2>6, <4>1
      <3>2. CASE step'[k] = NoStep
        <4>1. PeriodRows'[k] = 0 /\ TrialRows'[k] = 0
          BY <2>4, <3>2 DEF PeriodRows, TrialRows
        <4>2. PeriodRows[k] \in Nat /\ TrialRows[k] \in Nat
          BY <2>6
        <4> QED  BY <4>1, <4>2
      <3> QED  BY <1>3, <3>1, <3>2
    <2>8. /\ Minutes(PeriodRows') =< Minutes(PeriodRows)
          /\ Minutes(TrialRows') =< Minutes(TrialRows)
      BY <2>6, <2>7, MinutesMonotone
    <2>9. PeriodCovered' /\ TrialCovered'
      BY <1>t, <2>1, <2>2, <2>8, ChartIsFinite
      DEF Covered, PeriodCovered, TrialCovered, UserRow
    <2> QED  BY <2>3, <2>5, <2>9 DEF Covered
  <1>4. ASSUME NEW m \in Meetings, PurgeMeetingLedger(m)
        PROVE  ~manual'.busy /\ (~user'.deleted => Covered')
    <2>1. \A k \in Rows : step'[k] = NoStep \/ step'[k] = step[k]
      BY <1>4 DEF PurgeMeetingLedger, Archive, Rows
    <2>2. \A k \in Rows : SameRow(k) \/ step'[k] = NoStep
      BY <2>1 DEF SameRow
    <2> QED  BY <1>3, <1>4, <2>2 DEF PurgeMeetingLedger
  <1>5. CASE ArchiveDeletedAccount
    BY <1>t, <1>5 DEF ArchiveDeletedAccount, planVars
  <1>6. CASE DeleteAccount
    BY <1>t, <1>6 DEF DeleteAccount, UserRow
  <1>7. CASE RowsStay /\ UNCHANGED planVars
    BY <1>3, <1>7 DEF RowsStay
  <1>8. CASE RowsStay /\ PlanStep
    <2>1. user'.deleted = user.deleted
      BY <1>t, <1>8, PlanStepTotals
    <2>2. CASE ~user.deleted
      BY <1>i, <1>8, <2>2, PlanCovered
    <2>3. CASE user.deleted
      <3>1. ~ManualPlanRead /\ \A target \in Plans, byAdmin \in BOOLEAN :
                                 ~ManualPlanWrite(target, byAdmin)
        BY <1>t DEF ManualPlanRead, ManualPlanWrite
      <3>2. manual' = manual
        BY <1>8, <3>1
        DEF PlanStep, PlanNext, ApplePurchase, RevokeGrant, GrantExpires, RefreshEntitlements
      <3> QED  BY <1>t, <2>1, <2>3, <3>2
    <2> QED  BY <2>2, <2>3
  <1> QED  BY <1>t, <1>1, <1>2, <1>4, <1>5, <1>6, <1>7, <1>8, StepKinds

(* With every change of plan coming from a subscription, a refusal's       *)
(* refund is never blocked: its reservation still holds what the step      *)
(* settled, and the open period's counter covers what its steps settled    *)
(* (provider_step_refund_conflict).                                        *)
THEOREM RefundsAlwaysFit ==
  ASSUME "manual" \notin PlanChanges
  PROVE  Spec => []RefundsFit
PROOF
  <1>1. PlanInv => RefundsFit
    <2> SUFFICES ASSUME PlanInv, ~user.deleted, NEW k \in Rows,
                        step[k].status = "started", res[k[1]].status # "finalized"
                 PROVE  ~RefundConflict(k)
      BY DEF RefundsFit, Rows
    <2>1. /\ TypeOK /\ SettlementMatchesSteps /\ PeriodCovered /\ RowsFit
          /\ user \in UserRow /\ \A q \in Rows : step[q] \in StepRow
      BY DEF PlanInv, Covered, CostInv, SettlementInv, FenceInv, TypeOK, Rows
    <2>2. step[k].settled =< res[k[1]].settled
      <3>1. /\ k[1] \in Ops /\ k = <<k[1], k[2]>>
            /\ k[2] \in {"realtime:1", "realtime:2", "asr", "summary"}
        BY DEF Rows, StageKeys
      <3>2. \A s \in StageKeys : step[<<k[1], s>>].settled \in Nat
        BY <2>1, <3>1 DEF StepRow, Rows
      <3>3. step[k].settled =< StepSettled(k[1])
        BY <3>1, <3>2 DEF StepSettled, StageKeys
      <3> QED  BY <2>1, <3>1, <3>3 DEF SettlementMatchesSteps
    <2>3. PeriodMatches(k) => step[k].settled =< user.used
      <3> SUFFICES ASSUME PeriodMatches(k) PROVE step[k].settled =< user.used
        OBVIOUS
      <3>1. PeriodRows[k] = step[k].settled /\ PeriodRows \in [Rows -> Nat]
            /\ step[k].settled =< Most
        BY <2>1, ChartsFit DEF PeriodRows, Paid, PeriodMatches, RowsFit
      <3>2. PeriodRows[k] =< Minutes(PeriodRows)
        BY <3>1, MinutesAfter
      <3> QED  BY <2>1, <3>1, <3>2, ChartIsFinite DEF PeriodCovered, UserRow, StepRow
    <2>4. res[k[1]].settled \in Nat /\ step[k].settled \in Nat /\ user.used \in Nat
      BY <2>1 DEF TypeOK, ReservationRow, StepRow, UserRow, Rows
    <2> QED  BY <2>2, <2>3, <2>4 DEF RefundConflict
  <1> QED  BY <1>1, PlanInit, PlanInvStep, PTL DEF Spec

(* With every change of plan coming from a subscription, minutes settled   *)
(* against the free trial stay counted in it while their step stands:      *)
(* purchases, renewals and ends of subscriptions start no second trial.    *)
THEOREM TrialStaysCovered ==
  ASSUME "manual" \notin PlanChanges
  PROVE  Spec => []FreeTrialCovered
PROOF
  <1>1. PlanInv => FreeTrialCovered
    <2> SUFFICES ASSUME PlanInv, ~user.deleted PROVE FreeTrialCovered
      BY DEF FreeTrialCovered
    <2>1. TypeOK /\ TrialCovered /\ user \in UserRow
      BY DEF PlanInv, Covered, CostInv, SettlementInv, FenceInv, TypeOK
    <2> DEFINE Held == {minute \in (Ops \X StageKeys) \X (1..FreeTotal) :
                          /\ step[minute[1]].status \in {"started", "completed"}
                          /\ minute[2] =< step[minute[1]].free}
    <2>2. Held \in SUBSET Cells(TrialRows)
      <3>1. \A n \in 1..FreeTotal : n \in 1..Most
        BY LedgerAssumption DEF LedgerAssumption, Most
      <3> QED  BY <3>1 DEF Cells, TrialRows, Rows, Paid
    <2>3. Cardinality(Held) =< Minutes(TrialRows) /\ Cardinality(Held) \in Nat
      <3> HIDE DEF Held
      <3> QED  BY <2>2, ChartIsFinite, FS_Subset, FS_CardinalityType DEF Minutes
    <2> HIDE DEF Held
    <2>4. Cardinality(Held) =< user.freeUsed
      BY <2>1, <2>3, ChartIsFinite DEF TrialCovered, UserRow
    <2> QED  BY <2>4 DEF FreeTrialCovered, Held
  <1> QED  BY <1>1, PlanInit, PlanInvStep, PTL DEF Spec

=============================================================================
