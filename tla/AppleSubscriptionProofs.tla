---------------------- MODULE AppleSubscriptionProofs ----------------------
(***************************************************************************)
(* Theorems about the Apple subscription of one account, for any number of *)
(* transactions, notifications, repetitions and ticks.                     *)
(***************************************************************************)
EXTENDS AppleSubscription, FiniteSetTheorems, TLAPS

---------------------------------------------------------------------------
(* Facts about the operators. *)

(* A non-empty finite set has an element of which a number is largest: the *)
(* sets of the elements above each have a minimal one.                     *)
LEMMA LargestExists ==
  ASSUME NEW S, IsFiniteSet(S), S # {}, NEW m \in [S -> Nat]
  PROVE  \E p \in S : \A q \in S : m[q] =< m[p]
PROOF
  <1> DEFINE Above(p) == {q \in S : m[p] < m[q]}
             T == {Above(p) : p \in S}
  <1>1. T \subseteq FiniteSubsetsOf(S) /\ T # {}
    <2>1. \A p \in S : Above(p) \in SUBSET S
      OBVIOUS
    <2>2. T \subseteq SUBSET S /\ T # {}
      <3> HIDE DEF Above
      <3> QED  BY <2>1
    <2> HIDE DEF T
    <2> QED  BY <2>2, FS_FiniteSubsetsOfFinite
  <1>2. PICK x \in T : \A y \in T : ~(<<y, x>> \in StrictSubsetOrdering(S))
    <2> HIDE DEF T
    <2> QED  BY <1>1, FS_StrictSubsetOrderingWellFounded, WFMin
  <1>3. PICK p \in S : x = Above(p)
    BY <1>2
  <1>4. ASSUME NEW q \in S, m[p] < m[q] PROVE FALSE
    <2>1. Above(q) \in T
      OBVIOUS
    <2>2. q \in Above(p) /\ q \notin Above(q)
      BY <1>4
    <2>3. Above(q) \subseteq Above(p)
      BY <1>4
    <2>4. Above(p) \subseteq S /\ Above(q) \subseteq S
      OBVIOUS
    <2> HIDE DEF Above, T
    <2>5. <<Above(q), x>> \in StrictSubsetOrdering(S)
      BY <1>3, <2>2, <2>3, <2>4 DEF StrictSubsetOrdering
    <2> QED  BY <1>2, <2>1, <2>5
  <1> QED  BY <1>4

---------------------------------------------------------------------------
(* The invariant. *)

PeriodRow == [start : Dates, end : Dates, state : {"none", "paid", "refunded"}]
PhaseRow == [at : {"new", "active", "grace", "retry", "ended"}, grace : Dates]
NoticeRow == [kind : Kinds, tx : Periods, end : Dates, grace : Dates,
              status : {"owed", "received", "processed"}, read : 0..MaxPeriods]
FetchRow == [tx : 0..MaxPeriods, end : Dates, signed : Nat]
UserRow == [deleted : BOOLEAN, plan : {"free", "apple", "other"},
            order : 0..MaxPeriods]
OrderRow == [status : {"none", "paid", "refunded"}, end : Dates, signed : Nat,
             made : 0..MaxPeriods]
GrantStates == {"none", "active", "revoked", "lapsed", "refunded"}
SubStates == {"none", "active", "grace", "billing_retry", "expired", "revoked"}
SubRow == [current : 0..MaxPeriods, expires : Dates, grace : Dates, signed : Nat,
           status : SubStates]

(* Apple never charges or extends far beyond the clock. *)
AppleFits ==
  /\ clock \in 0..MaxClock
  /\ period \in [Periods -> PeriodRow]
  /\ phase \in PhaseRow
  /\ \A p \in Periods : /\ period[p].start =< MaxClock + 2
                        /\ period[p].end =< period[p].start + 2

(* Notifications and answers are about periods. *)
MailFits ==
  /\ notice \in Seq(NoticeRow)
  /\ asked \in 0..MaxInputs
  /\ fetched \in FetchRow
  /\ fetched = NoFetch \/ fetched.tx \in Periods

(* The rows of the account, with the plan that its grants give. *)
DbTyped ==
  /\ user \in UserRow
  /\ orders \in [Periods -> OrderRow]
  /\ grants \in [Periods -> GrantStates]
  /\ sub \in SubRow
  /\ other \in BOOLEAN /\ inOrder \in BOOLEAN

DbFits == DbTyped /\ PlanFollowsGrants

IInv == AppleFits /\ MailFits /\ DbFits

LEMMA InvariantIsTyped == IInv => TypeOK
PROOF
  <1> SUFFICES ASSUME IInv PROVE TypeOK
    OBVIOUS
  <1>1. \A k \in Notices : notice[k] \in NoticeRow
    BY DEF IInv, MailFits, Notices
  <1> QED  BY <1>1 DEF IInv, AppleFits, MailFits, DbFits, DbTyped, TypeOK, PeriodRow,
              PhaseRow, NoticeRow, FetchRow, UserRow, OrderRow, GrantStates, SubRow,
              SubStates

LEMMA PeriodsAreFinite ==
  MaxPeriods \in Nat /\ IsFiniteSet(Periods) /\ Cardinality(Periods) = MaxPeriods
PROOF
  <1>1. MaxPeriods \in Nat
    BY AppleAssumption DEF AppleAssumption
  <1> QED  BY <1>1, FS_Interval DEF Periods

(* The transactions charged and the orders made are at most MaxPeriods. *)
LEMMA LastFits ==
  ASSUME AppleFits
  PROVE  MaxPeriods \in Nat /\ Last \in 0..MaxPeriods
PROOF
  <1> DEFINE S == {p \in Periods : period[p].state # "none"}
  <1>1. MaxPeriods \in Nat /\ IsFiniteSet(Periods)
        /\ Cardinality(Periods) = MaxPeriods
    BY PeriodsAreFinite
  <1>3. S \in SUBSET Periods
    OBVIOUS
  <1> HIDE DEF S
  <1>4. Cardinality(S) \in Nat /\ Cardinality(S) =< MaxPeriods
    BY <1>1, <1>3, FS_Subset, FS_CardinalityType
  <1> QED  BY <1>1, <1>4 DEF Last, S

LEMMA MadeFits ==
  ASSUME DbTyped
  PROVE  /\ Made \in 0..MaxPeriods
         /\ \A p \in Periods : ~Recorded(p) => Made + 1 \in 0..MaxPeriods
PROOF
  <1> DEFINE S == {p \in Periods : Recorded(p)}
  <1>1. MaxPeriods \in Nat /\ IsFiniteSet(Periods)
        /\ Cardinality(Periods) = MaxPeriods
    BY PeriodsAreFinite
  <1>3. S \in SUBSET Periods /\ \A p \in Periods : ~Recorded(p) => p \notin S
    OBVIOUS
  <1>5. Made = Cardinality(S)
    BY DEF Made
  <1> HIDE DEF S
  <1>4. Cardinality(S) \in Nat /\ Cardinality(S) =< MaxPeriods
        /\ (Cardinality(S) = MaxPeriods => S = Periods)
    BY <1>1, <1>3, FS_Subset, FS_CardinalityType
  <1> QED  BY <1>1, <1>3, <1>4, <1>5

(* The newest order of a set of periods is one of them. *)
LEMMA NewestIsOne ==
  ASSUME DbTyped, NEW S \in SUBSET Periods, S # {}
  PROVE  Newest(S) \in S /\ \A q \in S : orders[q].made =< orders[Newest(S)].made
PROOF
  <1> DEFINE m == [p \in S |-> orders[p].made]
  <1>1. IsFiniteSet(S)
    BY PeriodsAreFinite, FS_Subset
  <1>2. m \in [S -> Nat]
    BY DEF DbTyped, OrderRow
  <1>3. \A p \in S : m[p] = orders[p].made
    OBVIOUS
  <1> HIDE DEF m
  <1>4. \E p \in S : \A q \in S : m[q] =< m[p]
    BY <1>1, <1>2, LargestExists
  <1>5. \E p \in S : \A q \in S : orders[q].made =< orders[p].made
    BY <1>3, <1>4
  <1>6. Newest(S) = CHOOSE p \in S : \A q \in S : orders[q].made =< orders[p].made
    BY DEF Newest
  <1> QED  BY <1>5, <1>6

---------------------------------------------------------------------------
(* The steps of Apple and of the mail. *)

LEMMA InitFits == Init => IInv
PROOF
  <1> SUFFICES ASSUME Init PROVE IInv
    OBVIOUS
  <1>1. MaxPeriods \in Nat /\ MaxInputs \in Nat /\ MaxClock \in Nat
    BY AppleAssumption DEF AppleAssumption
  <1>2. AppleFits
    BY <1>1 DEF Init, AppleFits, NoPeriod, PeriodRow, PhaseRow, Dates
  <1>3. MailFits
    BY <1>1 DEF Init, MailFits, NoFetch, FetchRow, Dates
  <1>4. user \in UserRow /\ user.plan = IF other THEN "other" ELSE "free"
    BY <1>1 DEF Init, UserRow
  <1>5. DbTyped
    BY <1>1, <1>4 DEF Init, DbTyped, NoOrder, OrderRow, NoSub, SubRow, SubStates,
       GrantStates, Dates
  <1>6. Active = {}
    BY DEF Init, Active
  <1>7. PlanFollowsGrants
    BY <1>4, <1>6 DEF PlanFollowsGrants
  <1> QED  BY <1>2, <1>3, <1>5, <1>7 DEF IInv, DbFits

(* What a transaction leaves alone. *)
LEMMA AppleStays ==
  ASSUME AppleFits, UNCHANGED apple
  PROVE  AppleFits'
PROOF
  BY DEF AppleFits, apple

LEMMA DbStays ==
  ASSUME DbFits, UNCHANGED <<db, other>>, inOrder' \in BOOLEAN
  PROVE  DbFits'
PROOF
  <1>1. UNCHANGED <<user, orders, grants, sub, other>>
    BY DEF db
  <1>2. DbTyped'
    BY <1>1 DEF DbFits, DbTyped
  <1>3. Active' = Active
    BY <1>1 DEF Active
  <1> QED  BY <1>1, <1>2, <1>3 DEF DbFits, PlanFollowsGrants

LEMMA OvertakesIsBoolean ==
  ASSUME NEW S, Overtakes(S)
  PROVE  inOrder' \in BOOLEAN
PROOF
  BY DEF Overtakes

(* A notification of a period and of its end is well typed. *)
LEMMA NotifyFits ==
  ASSUME MailFits, NEW kind \in Kinds, NEW p \in Periods, Notify(kind, p),
         period' \in [Periods -> PeriodRow], phase' \in PhaseRow,
         UNCHANGED <<asked, fetched>>
  PROVE  MailFits'
PROOF
  <1> DEFINE n == [kind |-> kind, tx |-> p, end |-> period'[p].end,
                   grace |-> phase'.grace, status |-> "owed", read |-> 0]
  <1>1. period'[p].end \in Dates /\ phase'.grace \in Dates
    BY DEF PeriodRow, PhaseRow
  <1>2. n \in NoticeRow
    BY <1>1, PeriodsAreFinite DEF NoticeRow
  <1>3. notice' = Append(notice, n)
    BY DEF Notify
  <1> HIDE DEF n
  <1>4. notice' \in Seq(NoticeRow)
    BY <1>2, <1>3 DEF MailFits
  <1> QED  BY <1>4 DEF MailFits

LEMMA PeriodMoves ==
  ASSUME AppleFits, NEW p \in Periods, NEW r \in PeriodRow,
         r.start =< MaxClock + 2, r.end =< r.start + 2,
         period' = [period EXCEPT ![p] = r]
  PROVE  /\ period' \in [Periods -> PeriodRow]
         /\ \A q \in Periods : /\ period'[q].start =< MaxClock + 2
                               /\ period'[q].end =< period'[q].start + 2
PROOF
  <1>1. \A q \in Periods : period'[q] = IF q = p THEN r ELSE period[q]
    BY DEF AppleFits
  <1> QED  BY <1>1 DEF AppleFits

(* No start of a next period is more than two ticks ahead. *)
LEMMA NextStartFits ==
  ASSUME AppleFits, Last > 0 => period[Last].start =< clock
  PROVE  StartOfNext \in Nat /\ StartOfNext =< MaxClock + 2
PROOF
  <1>1. clock \in Nat /\ clock =< MaxClock /\ MaxClock \in Nat
    BY AppleAssumption DEF AppleAssumption, AppleFits
  <1>2. CASE Last = 0 \/ ~Running \/ period[Last].end < clock
    BY <1>1, <1>2 DEF StartOfNext
  <1>3. CASE ~(Last = 0 \/ ~Running \/ period[Last].end < clock)
    <2>1. Last > 0 /\ Last \in Periods
      BY <1>3, LastFits DEF Periods
    <2>2. period[Last] \in PeriodRow /\ period[Last].end =< period[Last].start + 2
      BY <2>1 DEF AppleFits
    <2>3. period[Last].start \in Nat /\ period[Last].end \in Nat
      BY <2>2 DEF PeriodRow, Dates
    <2>4. StartOfNext = period[Last].end
      BY <1>3 DEF StartOfNext
    <2> QED  BY <1>1, <2>1, <2>2, <2>3, <2>4
  <1> QED  BY <1>2, <1>3

(* Apple's steps keep its dates close to the clock. *)
LEMMA AppleStep ==
  ASSUME IInv, AppleNext
  PROVE  IInv'
PROOF
  <1>1. UNCHANGED <<fetched, asked, other, db, inOrder>>
    BY DEF AppleNext
  <1>2. AppleFits /\ MailFits /\ DbFits
    BY DEF IInv
  <1>3. DbFits'
    <2>1. inOrder' \in BOOLEAN
      BY <1>1, <1>2 DEF DbFits, DbTyped
    <2> QED  BY <1>1, <1>2, <2>1, DbStays
  <1>4. clock \in Nat /\ clock =< MaxClock /\ MaxClock \in Nat /\ period \in [Periods -> PeriodRow]
        /\ phase \in PhaseRow /\ MaxPeriods \in Nat /\ Last \in 0..MaxPeriods
    BY <1>2, LastFits, AppleAssumption DEF AppleAssumption, AppleFits
  <1>5. [at |-> "active", grace |-> 0] \in PhaseRow /\ [at |-> "ended", grace |-> 0] \in PhaseRow
        /\ [at |-> "retry", grace |-> 0] \in PhaseRow
        /\ [at |-> "grace", grace |-> clock + 1] \in PhaseRow
    BY <1>4 DEF PhaseRow, Dates
  <1>6. ASSUME Last > 0 PROVE Last \in Periods
    BY <1>4, <1>6 DEF Periods
  <1>7. Kinds = {"charge", "grace", "billing_retry", "extended", "renewal_status",
                 "refunded", "restored", "expired"}
    BY DEF Kinds, LifecycleKinds, StatusKinds
  <1>8. CASE Charges
    <2> DEFINE p == Last + 1
               s == StartOfNext
               r == [start |-> s, end |-> s + 1, state |-> "paid"]
    <2>1. p \in Periods
      BY <1>4, <1>8 DEF Charges, Periods
    <2>2. s \in Nat /\ s =< MaxClock + 2
      BY <1>2, <1>8, NextStartFits DEF Charges
    <2>3. r \in PeriodRow /\ r.start =< MaxClock + 2 /\ r.end =< r.start + 2
      BY <1>4, <2>2 DEF PeriodRow, Dates
    <2>4. period' = [period EXCEPT ![p] = r] /\ Notify("charge", p)
          /\ phase' = [at |-> "active", grace |-> 0] /\ clock' = clock
      BY <1>8 DEF Charges
    <2> HIDE DEF p, s, r
    <2>5. /\ period' \in [Periods -> PeriodRow]
          /\ \A q \in Periods : /\ period'[q].start =< MaxClock + 2
                                /\ period'[q].end =< period'[q].start + 2
      BY <1>2, <2>1, <2>3, <2>4, PeriodMoves
    <2>6. AppleFits'
      BY <1>2, <1>5, <2>4, <2>5 DEF AppleFits
    <2>7. MailFits'
      BY <1>1, <1>2, <1>5, <1>7, <2>1, <2>4, <2>5, NotifyFits
    <2> QED  BY <1>3, <2>6, <2>7 DEF IInv
  <1>9. CASE FailsToCharge
    <2>1. /\ UNCHANGED <<clock, period>> /\ phase' \in PhaseRow /\ Last \in Periods
          /\ \E kind \in Kinds : Notify(kind, Last)
      BY <1>5, <1>6, <1>7, <1>9 DEF FailsToCharge, Running
    <2>2. AppleFits'
      BY <1>2, <2>1 DEF AppleFits
    <2>3. MailFits'
      BY <1>1, <1>2, <1>4, <2>1, NotifyFits
    <2> QED  BY <1>3, <2>2, <2>3 DEF IInv
  <1>10. CASE Expires
    <2>1. /\ UNCHANGED <<clock, period>> /\ phase' \in PhaseRow /\ Last \in Periods
          /\ \E kind \in Kinds : Notify(kind, Last)
      BY <1>5, <1>6, <1>7, <1>10 DEF Expires, Running
    <2>2. AppleFits'
      BY <1>2, <2>1 DEF AppleFits
    <2>3. MailFits'
      BY <1>1, <1>2, <1>4, <2>1, NotifyFits
    <2> QED  BY <1>3, <2>2, <2>3 DEF IInv
  <1>11. CASE Extends
    <2> DEFINE r == [period[Last] EXCEPT !.end = @ + 1]
    <2>1. Last \in Periods /\ UNCHANGED <<clock, phase>> /\ Notify("extended", Last)
          /\ period[Last].end = period[Last].start + 1
          /\ period' = [period EXCEPT ![Last].end = @ + 1]
      BY <1>6, <1>11 DEF Extends, Running
    <2>2. period[Last] \in PeriodRow /\ period[Last].start =< MaxClock + 2
      BY <1>2, <2>1 DEF AppleFits
    <2>3. period[Last].start \in Nat
      BY <2>2 DEF PeriodRow, Dates
    <2>4. r.start = period[Last].start /\ r.end = period[Last].start + 2
      BY <2>1, <2>2, <2>3 DEF PeriodRow
    <2>5. r \in PeriodRow
      BY <1>4, <2>1, <2>2, <2>3 DEF PeriodRow, Dates
    <2>6. period' = [period EXCEPT ![Last] = r]
      BY <2>1
    <2> HIDE DEF r
    <2>7. r.start =< MaxClock + 2 /\ r.end =< r.start + 2
      BY <2>2, <2>3, <2>4
    <2>8. /\ period' \in [Periods -> PeriodRow]
          /\ \A q \in Periods : /\ period'[q].start =< MaxClock + 2
                                /\ period'[q].end =< period'[q].start + 2
      BY <1>2, <2>1, <2>5, <2>6, <2>7, PeriodMoves
    <2>9. AppleFits'
      BY <1>2, <2>1, <2>8 DEF AppleFits
    <2>10. MailFits'
      BY <1>1, <1>2, <1>4, <1>7, <2>1, <2>8, NotifyFits
    <2> QED  BY <1>3, <2>9, <2>10 DEF IInv
  <1>12. CASE ChangesRenewal
    <2>1. UNCHANGED apple /\ UNCHANGED <<clock, period, phase>> /\ Last \in Periods
          /\ Notify("renewal_status", Last)
      BY <1>6, <1>12 DEF ChangesRenewal, apple
    <2>2. AppleFits'
      BY <1>2, <2>1, AppleStays
    <2>3. MailFits'
      BY <1>1, <1>2, <1>4, <1>7, <2>1, NotifyFits
    <2> QED  BY <1>3, <2>2, <2>3 DEF IInv
  <1>13. CASE Tick
    <2>1. UNCHANGED <<period, phase, notice>> /\ clock' \in 0..MaxClock
      BY <1>4, <1>13 DEF Tick
    <2>2. AppleFits'
      BY <1>2, <2>1 DEF AppleFits
    <2>3. MailFits'
      BY <1>1, <1>2, <2>1 DEF MailFits
    <2> QED  BY <1>3, <2>2, <2>3 DEF IInv
  <1>14. ASSUME NEW p \in Periods, Refunds(p) \/ ReversesRefund(p) PROVE IInv'
    <2>1. PICK state \in {"paid", "refunded"} :
            period' = [period EXCEPT ![p].state = state]
      BY <1>14 DEF Refunds, ReversesRefund
    <2> DEFINE r == [period[p] EXCEPT !.state = state]
    <2>2. /\ clock' = clock /\ phase' \in PhaseRow
          /\ \E kind \in Kinds : Notify(kind, p)
      BY <1>4, <1>5, <1>7, <1>14 DEF Refunds, ReversesRefund
    <2>3. /\ period[p] \in PeriodRow /\ period[p].start =< MaxClock + 2
          /\ period[p].end =< period[p].start + 2
      BY <1>2 DEF AppleFits
    <2>4. r \in PeriodRow /\ r.start = period[p].start /\ r.end = period[p].end
      BY <2>3 DEF PeriodRow
    <2>5. period' = [period EXCEPT ![p] = r]
      BY <2>1
    <2> HIDE DEF r
    <2>6. /\ period' \in [Periods -> PeriodRow]
          /\ \A q \in Periods : /\ period'[q].start =< MaxClock + 2
                                /\ period'[q].end =< period'[q].start + 2
      BY <1>2, <2>3, <2>4, <2>5, PeriodMoves
    <2>7. AppleFits'
      BY <1>2, <2>2, <2>6 DEF AppleFits
    <2>8. MailFits'
      BY <1>1, <1>2, <2>2, <2>6, NotifyFits
    <2> QED  BY <1>3, <2>7, <2>8 DEF IInv
  <1> QED  BY <1>8, <1>9, <1>10, <1>11, <1>12, <1>13, <1>14 DEF AppleNext

---------------------------------------------------------------------------
(* The transactions that charges cause. *)

LEMMA OrderFits ==
  ASSUME DbTyped, NEW p \in Periods, ~Recorded(p), NEW end \in Dates, NEW signed \in Nat
  PROVE  /\ Order(end, signed) \in OrderRow
         /\ Current(p, end, signed) \in SubRow
PROOF
  <1>1. Made + 1 \in 0..MaxPeriods
    BY MadeFits
  <1>2. p \in 0..MaxPeriods /\ 0 \in Dates
    BY PeriodsAreFinite, AppleAssumption DEF AppleAssumption, Periods, Dates
  <1> QED  BY <1>1, <1>2 DEF Order, Current, OrderRow, SubRow, SubStates

(* The plan named by a user, and the order it names. *)
LEMMA UserMoves ==
  ASSUME user \in UserRow, NEW plan \in {"free", "apple", "other"},
         NEW o \in 0..MaxPeriods
  PROVE  LET u == [user EXCEPT !.plan = plan, !.order = o]
         IN  /\ u \in UserRow /\ u.plan = plan /\ u.order = o
             /\ u.deleted = user.deleted
PROOF
  BY DEF UserRow

LEMMA SupersedingFits ==
  ASSUME DbTyped, NEW p \in Periods, grants' = Superseding(p)
  PROVE  grants' \in [Periods -> GrantStates] /\ Active' = {p}
PROOF
  <1>1. \A q \in Periods : grants'[q] = IF q = p THEN "active"
                             ELSE IF grants[q] = "active" THEN "revoked" ELSE grants[q]
    BY DEF Superseding
  <1>2. \A q \in Periods : grants'[q] \in GrantStates
    BY <1>1 DEF DbTyped, GrantStates
  <1>3. grants' \in [Periods -> GrantStates]
    <2>1. grants' = [q \in Periods |-> grants'[q]]
      BY DEF Superseding
    <2> QED  BY <1>2, <2>1
  <1>4. \A q \in Periods : grants'[q] = "active" <=> q = p
    BY <1>1
  <1> QED  BY <1>3, <1>4 DEF Active

LEMMA GrantsPeriodFits ==
  ASSUME DbFits, NEW p \in Periods, ~Recorded(p), NEW end \in Dates, NEW signed \in Nat,
         GrantsPeriod(p, end, signed), other' = other, inOrder' \in BOOLEAN
  PROVE  DbFits'
PROOF
  <1>1. DbTyped /\ user \in UserRow /\ orders \in [Periods -> OrderRow] /\ sub \in SubRow
        /\ p \in 0..MaxPeriods /\ other' \in BOOLEAN
    BY PeriodsAreFinite DEF DbFits, DbTyped, Periods
  <1>2. Order(end, signed) \in OrderRow /\ Current(p, end, signed) \in SubRow
    BY <1>1, OrderFits
  <1>3. user' \in UserRow /\ user'.plan = "apple" /\ user'.order = p
    BY <1>1, UserMoves DEF GrantsPeriod
  <1>4. orders' \in [Periods -> OrderRow]
    BY <1>1, <1>2 DEF GrantsPeriod
  <1>5. grants' \in [Periods -> GrantStates] /\ Active' = {p}
    BY <1>1, SupersedingFits DEF GrantsPeriod
  <1>6. sub' \in SubRow
    BY <1>1, <1>2 DEF GrantsPeriod
  <1>7. DbTyped'
    BY <1>1, <1>3, <1>4, <1>5, <1>6 DEF DbTyped
  <1> QED  BY <1>3, <1>5, <1>7 DEF DbFits, PlanFollowsGrants

(* Rows that say nothing of the plan may change. *)
LEMMA RowsMove ==
  ASSUME DbFits, UNCHANGED <<user, grants, other>>, inOrder' \in BOOLEAN,
         orders' \in [Periods -> OrderRow], sub' \in SubRow
  PROVE  DbFits'
PROOF
  <1>1. DbTyped'
    BY DEF DbFits, DbTyped
  <1>2. Active' = Active
    BY DEF Active
  <1> QED  BY <1>1, <1>2 DEF DbFits, PlanFollowsGrants

LEMMA AppliesChargeFits ==
  ASSUME DbFits, NEW n \in NoticeRow, NEW signed \in Nat, AppliesCharge(n, signed),
         other' = other, inOrder' \in BOOLEAN
  PROVE  DbFits'
PROOF
  <1>1. n.tx \in Periods /\ n.end \in Dates
    BY DEF NoticeRow
  <1>2. DbTyped /\ orders \in [Periods -> OrderRow] /\ sub \in SubRow
    BY DEF DbFits, DbTyped
  <1>3. CASE Recorded(n.tx)
    <2>1. ConfirmsCharge(n, signed)
      BY <1>3 DEF AppliesCharge
    <2>2. sub' \in SubRow
      BY <1>1, <1>2, <2>1 DEF ConfirmsCharge, SubRow, SubStates
    <2>3. UNCHANGED <<user, orders, grants>>
      BY <2>1 DEF ConfirmsCharge
    <2> QED  BY <1>2, <2>2, <2>3, RowsMove
  <1>4. CASE ~Recorded(n.tx) /\ StaleCharge(n.tx, signed)
    <2>1. UNCHANGED db
      BY <1>4 DEF AppliesCharge
    <2> QED  BY <2>1, DbStays
  <1>5. CASE ~Recorded(n.tx) /\ ~StaleCharge(n.tx, signed) /\ user.deleted
    <2>1. KeepsLedger(n, signed)
      BY <1>5 DEF AppliesCharge
    <2>2. Order(n.end, signed) \in OrderRow /\ Current(n.tx, n.end, signed) \in SubRow
      BY <1>1, <1>2, <1>5, OrderFits
    <2>3. orders' \in [Periods -> OrderRow] /\ sub' \in SubRow /\ UNCHANGED <<user, grants>>
      BY <1>2, <2>1, <2>2 DEF KeepsLedger
    <2> QED  BY <2>3, RowsMove
  <1>6. CASE ~Recorded(n.tx) /\ ~StaleCharge(n.tx, signed) /\ ~user.deleted
    <2>1. GrantsPeriod(n.tx, n.end, signed)
      BY <1>6 DEF AppliesCharge
    <2> QED  BY <1>1, <1>6, <2>1, GrantsPeriodFits
  <1> QED  BY <1>3, <1>4, <1>5, <1>6

---------------------------------------------------------------------------
(* The transactions of the other notifications. *)

LEMMA FamilyOrderFits ==
  ASSUME DbTyped
  PROVE  FamilyOrder \in 0..MaxPeriods
PROOF
  <1> DEFINE S == {p \in Periods : Recorded(p)}
  <1>1. MaxPeriods \in Nat /\ Made = Cardinality(S) /\ sub.current \in 0..MaxPeriods
    BY PeriodsAreFinite DEF Made, DbTyped, SubRow
  <1>2. CASE \E p \in Periods : Recorded(p) /\ p = sub.current
    BY <1>1, <1>2 DEF FamilyOrder
  <1>3. CASE ~(\E p \in Periods : Recorded(p) /\ p = sub.current) /\ Made > 0
    <2>1. S # {}
      <3> HIDE DEF S
      <3> QED  BY <1>1, <1>3, FS_EmptySet
    <2>2. Newest(S) \in Periods
      BY <2>1, NewestIsOne
    <2>3. FamilyOrder = Newest(S)
      BY <1>3 DEF FamilyOrder
    <2> QED  BY <1>1, <2>2, <2>3 DEF Periods
  <1>4. CASE ~(\E p \in Periods : Recorded(p) /\ p = sub.current) /\ ~(Made > 0)
    BY <1>1, <1>4 DEF FamilyOrder
  <1> QED  BY <1>2, <1>3, <1>4

(* A grant that a lifecycle notification brings back makes the user's plan *)
(* Apple's; without one what is active stays.                              *)
LEMMA AppliesLifecycleFits ==
  ASSUME DbFits, NEW n \in NoticeRow, NEW signed \in Nat, NEW f \in Periods,
         AppliesLifecycle(n, signed, f), other' = other, inOrder' \in BOOLEAN
  PROVE  DbFits'
PROOF
  <1>1. /\ user \in UserRow /\ orders \in [Periods -> OrderRow] /\ sub \in SubRow
        /\ grants \in [Periods -> GrantStates] /\ n.end \in Dates /\ n.grace \in Dates
        /\ f \in 0..MaxPeriods /\ 0 \in Dates
    BY PeriodsAreFinite, AppleAssumption
       DEF AppleAssumption, DbFits, DbTyped, NoticeRow, Periods, Dates
  <1>2. CASE sub.signed > signed
    BY <1>2, DbStays DEF AppliesLifecycle
  <1>3. CASE ~(sub.signed > signed)
    <2>1. sub' \in SubRow
      BY <1>1, <1>3 DEF AppliesLifecycle, SubRow, SubStates
    <2>2. orders' \in [Periods -> OrderRow]
      BY <1>1, <1>3 DEF AppliesLifecycle, OrderRow
    <2>3. GrantSeen(n, f) \in GrantStates
      BY <1>1 DEF GrantSeen, GrantStates
    <2> DEFINE g == IF Recovers(n, f) THEN "active" ELSE GrantSeen(n, f)
    <2>4. g \in GrantStates
      BY <2>3 DEF GrantStates
    <2>5. grants' = [grants EXCEPT ![f] = g]
      BY <1>3 DEF AppliesLifecycle
    <2>6. grants' \in [Periods -> GrantStates]
          /\ \A q \in Periods : grants'[q] = IF q = f THEN g ELSE grants[q]
      <3> HIDE DEF g
      <3> QED  BY <1>1, <2>4, <2>5
    <2>7. CASE Recovers(n, f)
      <3>1. user' \in UserRow /\ user'.plan = "apple" /\ user'.order = f
        <4>1. user' = [user EXCEPT !.plan = "apple", !.order = f]
          BY <1>3, <2>7 DEF AppliesLifecycle
        <4> QED  BY <1>1, <4>1, UserMoves
      <3>2. f \in Active'
        BY <2>6, <2>7 DEF Active
      <3>3. DbTyped'
        BY <2>1, <2>2, <2>6, <3>1 DEF DbFits, DbTyped
      <3> QED  BY <3>1, <3>2, <3>3 DEF DbFits, PlanFollowsGrants
    <2>8. CASE ~Recovers(n, f)
      <3>1. user' = user
        BY <1>3, <2>8 DEF AppliesLifecycle
      <3>2. g = "active" <=> grants[f] = "active"
        BY <2>8 DEF GrantSeen
      <3>3. Active' = Active
        <4> HIDE DEF g
        <4> QED  BY <2>6, <3>2 DEF Active
      <3>4. DbTyped'
        BY <2>1, <2>2, <2>6, <3>1 DEF DbFits, DbTyped
      <3> QED  BY <3>1, <3>3, <3>4 DEF DbFits, PlanFollowsGrants
    <2> QED  BY <2>7, <2>8
  <1> QED  BY <1>2, <1>3

LEMMA FallsBackFits ==
  ASSUME DbTyped
  PROVE  /\ FallsBack \in UserRow
         /\ FallsBack.plan = IF other THEN "other" ELSE "free"
         /\ FallsBack.deleted = user.deleted
PROOF
  <1>1. user \in UserRow /\ FallbackPlan(other) \in {"free", "apple", "other"}
        /\ user.order \in 0..MaxPeriods /\ 0 \in 0..MaxPeriods
    BY PeriodsAreFinite DEF FallbackPlan, DbTyped, UserRow
  <1> DEFINE plan == FallbackPlan(other)
             o == IF plan = "free" THEN 0 ELSE user.order
  <1>2. o \in 0..MaxPeriods /\ FallsBack = [user EXCEPT !.plan = plan, !.order = o]
    BY <1>1 DEF FallsBack
  <1>3. plan \in {"free", "apple", "other"} /\ plan = IF other THEN "other" ELSE "free"
    BY DEF FallbackPlan
  <1> HIDE DEF o, plan
  <1>4. /\ FallsBack \in UserRow /\ FallsBack.plan = plan
        /\ FallsBack.deleted = user.deleted
    BY <1>1, <1>2, <1>3 DEF UserRow
  <1> QED  BY <1>3, <1>4

LEMMA SeenBySubFits ==
  ASSUME DbTyped, NEW n, NEW signed \in Nat
  PROVE  SeenBySub(n, signed) \in SubRow
PROOF
  BY DEF SeenBySub, DbTyped, SubRow

(* A change of status keeps the rows well typed. *)
LEMMA SubStatusFits ==
  ASSUME NEW r \in SubRow, NEW kind, NEW signed \in Nat
  PROVE  /\ [r EXCEPT !.status = SubStatus(kind)] \in SubRow
         /\ [r EXCEPT !.status = SubStatus(kind), !.signed = signed] \in SubRow
         /\ [r EXCEPT !.status = "active"] \in SubRow
PROOF
  BY DEF SubStatus, SubRow, SubStates

(* A deleted account's grant is ended and its user is left alone. *)
LEMMA RecordsForDeletedFits ==
  ASSUME DbFits, NEW n \in NoticeRow, NEW signed \in Nat, user.deleted,
         RecordsForDeleted(n, signed), orders' \in [Periods -> OrderRow],
         other' = other, inOrder' \in BOOLEAN
  PROVE  DbFits'
PROOF
  <1>1. user' = user /\ user \in UserRow /\ sub \in SubRow
        /\ grants \in [Periods -> GrantStates]
    BY DEF DbFits, DbTyped, RecordsForDeleted
  <1>2. sub' \in SubRow
    BY <1>1, SubStatusFits DEF RecordsForDeleted
  <1>3. grants' \in [Periods -> GrantStates]
    <2>1. GrantStatus(n.kind) \in GrantStates
      BY DEF GrantStatus, GrantStates
    <2> QED  BY <1>1, <2>1 DEF RecordsForDeleted
  <1>4. DbTyped'
    BY <1>1, <1>2, <1>3 DEF DbFits, DbTyped
  <1> QED  BY <1>1, <1>4 DEF DbFits, PlanFollowsGrants

(* The reversal of a refund brings a period back alone, or not at all. *)
LEMMA RestoresFits ==
  ASSUME DbFits, NEW n \in NoticeRow, NEW signed \in Nat, Restores(n, signed),
         orders' \in [Periods -> OrderRow], other' = other, inOrder' \in BOOLEAN
  PROVE  DbFits'
PROOF
  <1> DEFINE alreadyPaid == grants[n.tx] = "active" /\ orders[n.tx].status = "paid"
             replaced == Active \ {n.tx} # {}
             p == n.tx
  <1>1. user \in UserRow /\ grants \in [Periods -> GrantStates] /\ DbTyped
        /\ p \in Periods /\ p \in 0..MaxPeriods
    BY PeriodsAreFinite DEF DbFits, DbTyped, NoticeRow, Periods
  <1>2. sub' \in SubRow
    BY <1>1, SeenBySubFits, SubStatusFits DEF Restores
  <1>3. /\ grants' = IF alreadyPaid THEN grants
                     ELSE IF replaced
                     THEN [grants EXCEPT ![p] = IF @ = "active" THEN @ ELSE "revoked"]
                     ELSE Superseding(p)
        /\ user' = IF alreadyPaid \/ replaced THEN user
                   ELSE [user EXCEPT !.plan = "apple", !.order = p]
    BY DEF Restores
  <1> HIDE DEF alreadyPaid, replaced, p
  <1>4. CASE alreadyPaid \/ replaced
    <2>1. grants' \in [Periods -> GrantStates]
          /\ \A q \in Periods : grants'[q] = "active" <=> grants[q] = "active"
      BY <1>1, <1>3, <1>4 DEF GrantStates
    <2>2. Active' = Active
      BY <2>1 DEF Active
    <2>3. user' = user
      BY <1>3, <1>4
    <2>4. DbTyped'
      BY <1>1, <1>2, <2>1, <2>3 DEF DbTyped
    <2> QED  BY <2>2, <2>3, <2>4 DEF DbFits, PlanFollowsGrants
  <1>5. CASE ~(alreadyPaid \/ replaced)
    <2>1. grants' \in [Periods -> GrantStates] /\ Active' = {p}
      BY <1>1, <1>3, <1>5, SupersedingFits
    <2>2. user' \in UserRow /\ user'.plan = "apple" /\ user'.order = p
      BY <1>1, <1>3, <1>5, UserMoves
    <2>3. DbTyped'
      BY <1>1, <1>2, <2>1, <2>2 DEF DbTyped
    <2> QED  BY <2>1, <2>2, <2>3 DEF DbFits, PlanFollowsGrants
  <1> QED  BY <1>4, <1>5

(* A refund or an expiry of a period in force leaves no grant active, and  *)
(* the user the plan that is left.                                         *)
LEMMA EndsFits ==
  ASSUME DbFits, NEW n \in NoticeRow, NEW signed \in Nat, Ends(n, signed),
         orders' \in [Periods -> OrderRow], other' = other, inOrder' \in BOOLEAN
  PROVE  DbFits'
PROOF
  <1>1. user \in UserRow /\ grants \in [Periods -> GrantStates] /\ DbTyped /\ sub \in SubRow
        /\ n.tx \in Periods
    BY DEF DbFits, DbTyped, NoticeRow
  <1>2. SeenBySub(n, signed) \in SubRow
    BY <1>1, SeenBySubFits
  <1>3. CASE grants[n.tx] # "active"
    <2>1. UNCHANGED <<user, grants>> /\ sub' \in SubRow
      BY <1>2, <1>3 DEF Ends
    <2> QED  BY <2>1, RowsMove
  <1>4. CASE grants[n.tx] = "active"
    <2>1. sub' \in SubRow
      <3> DEFINE s == SeenBySub(n, signed)
      <3>1. sub' = IF sub.current = n.tx
                   THEN [s EXCEPT !.status = SubStatus(n.kind)] ELSE sub
        BY <1>4 DEF Ends
      <3>2. s \in SubRow
        BY <1>2
      <3> HIDE DEF s
      <3>3. [s EXCEPT !.status = SubStatus(n.kind)] \in SubRow
        BY <3>2, SubStatusFits
      <3> QED  BY <1>1, <3>1, <3>3
    <2>2. /\ user' = FallsBack
          /\ grants' = [q \in Periods |->
                          IF q = n.tx THEN GrantStatus(n.kind)
                          ELSE IF grants[q] = "active" THEN "revoked" ELSE grants[q]]
      BY <1>4 DEF Ends
    <2>3. GrantStatus(n.kind) \in GrantStates \ {"active"}
      BY DEF GrantStatus, GrantStates
    <2>4. grants' \in [Periods -> GrantStates]
          /\ \A q \in Periods : grants'[q] # "active"
      BY <1>1, <2>2, <2>3 DEF GrantStates
    <2>5. Active' = {}
      BY <2>4 DEF Active
    <2>6. /\ user' \in UserRow
          /\ user'.plan = IF other THEN "other" ELSE "free"
      BY <1>1, <2>2, FallsBackFits
    <2>7. DbTyped'
      BY <1>1, <2>1, <2>4, <2>6 DEF DbTyped
    <2> QED  BY <2>5, <2>6, <2>7 DEF DbFits, PlanFollowsGrants
  <1> QED  BY <1>3, <1>4

LEMMA AppliesStatusFits ==
  ASSUME DbFits, NEW n \in NoticeRow, NEW signed \in Nat, AppliesStatus(n, signed),
         other' = other, inOrder' \in BOOLEAN
  PROVE  DbFits'
PROOF
  <1>1. CASE StaleStatus(n, signed)
    BY <1>1, DbStays DEF AppliesStatus
  <1>2. CASE ~StaleStatus(n, signed)
    <2>1. orders \in [Periods -> OrderRow] /\ n.tx \in Periods
      BY DEF DbFits, DbTyped, NoticeRow
    <2>2. OrderStatus(n.kind, orders[n.tx].status) \in {"none", "paid", "refunded"}
      BY <2>1 DEF OrderStatus, OrderRow
    <2>3. orders' = [orders EXCEPT ![n.tx].signed = signed,
                                   ![n.tx].status = OrderStatus(n.kind, @)]
      BY <1>2 DEF AppliesStatus
    <2>4. orders' \in [Periods -> OrderRow]
      BY <2>1, <2>2, <2>3 DEF OrderRow
    <2>5. CASE user.deleted
      BY <1>2, <2>4, <2>5, RecordsForDeletedFits DEF AppliesStatus
    <2>6. CASE ~user.deleted /\ n.kind = "restored"
      BY <1>2, <2>4, <2>6, RestoresFits DEF AppliesStatus
    <2>7. CASE ~user.deleted /\ n.kind # "restored"
      BY <1>2, <2>4, <2>7, EndsFits DEF AppliesStatus
    <2> QED  BY <2>5, <2>6, <2>7
  <1> QED  BY <1>1, <1>2

---------------------------------------------------------------------------
(* The handlers. *)

(* Writing a notification's row keeps the mail well typed. *)
LEMMA RowFits ==
  ASSUME MailFits, NEW k \in Notices, NEW status \in {"owed", "received", "processed"},
         NEW read \in 0..MaxPeriods,
         notice' = [notice EXCEPT ![k].status = status, ![k].read = read],
         UNCHANGED <<asked, fetched>>
  PROVE  MailFits'
PROOF
  <1> DEFINE r == [notice[k] EXCEPT !.status = status, !.read = read]
  <1>1. notice \in Seq(NoticeRow) /\ k \in 1..Len(notice) /\ notice[k] \in NoticeRow
    BY DEF MailFits, Notices
  <1>2. r \in NoticeRow
    BY <1>1 DEF NoticeRow
  <1>3. notice' = [notice EXCEPT ![k] = r]
    BY <1>1
  <1> HIDE DEF r
  <1>4. notice' \in Seq(NoticeRow)
    BY <1>1, <1>2, <1>3
  <1> QED  BY <1>4 DEF MailFits

LEMMA NoticeFits ==
  ASSUME MailFits, NEW k \in Notices
  PROVE  notice[k] \in NoticeRow /\ Signed(k) \in Nat
PROOF
  BY DEF MailFits, Notices, Signed

LEMMA NotificationStep ==
  ASSUME IInv, NEW k \in Notices,
         \/ \E status \in {"processed", "received"} :
              Handles(k, status) \/ HandlesLifecycle(k, status)
         \/ ReadsFamily(k) \/ Fails(k) \/ Dies(k)
  PROVE  IInv'
PROOF
  <1>1. AppleFits /\ MailFits /\ DbFits /\ DbTyped /\ inOrder \in BOOLEAN
    BY DEF IInv, DbFits, DbTyped
  <1>2. notice[k] \in NoticeRow /\ Signed(k) \in Nat /\ 0 \in 0..MaxPeriods
    BY <1>1, NoticeFits, PeriodsAreFinite
  <1>3. ASSUME NEW status \in {"processed", "received"}, Handles(k, status) PROVE IInv'
    <2>1. UNCHANGED <<apple, fetched, asked, other>> /\ Row(k, status)
          /\ Overtakes(1..(k - 1))
          /\ \/ AppliesCharge(notice[k], Signed(k))
             \/ AppliesStatus(notice[k], Signed(k))
      BY <1>3 DEF Handles
    <2>2. AppleFits' /\ inOrder' \in BOOLEAN
      BY <1>1, <2>1, AppleStays, OvertakesIsBoolean
    <2>3. MailFits'
      BY <1>1, <1>2, <2>1, RowFits DEF Row
    <2>4. DbFits'
      BY <1>1, <1>2, <2>1, <2>2, AppliesChargeFits, AppliesStatusFits
    <2> QED  BY <2>2, <2>3, <2>4 DEF IInv
  <1>4. ASSUME NEW status \in {"processed", "received"}, HandlesLifecycle(k, status)
        PROVE IInv'
    <2>1. UNCHANGED <<apple, fetched, asked, other, inOrder>> /\ Row(k, status)
          /\ AppliesLifecycle(notice[k], Signed(k), notice[k].read) /\ notice[k].read # 0
      BY <1>4 DEF HandlesLifecycle
    <2>2. notice[k].read \in Periods
      BY <1>2, <2>1, PeriodsAreFinite DEF NoticeRow, Periods
    <2>3. AppleFits' /\ inOrder' \in BOOLEAN
      BY <1>1, <2>1, AppleStays
    <2>4. MailFits'
      BY <1>1, <1>2, <2>1, RowFits DEF Row
    <2>5. DbFits'
      BY <1>1, <1>2, <2>1, <2>2, <2>3, AppliesLifecycleFits
    <2> QED  BY <2>3, <2>4, <2>5 DEF IInv
  <1>5. CASE ReadsFamily(k)
    <2>1. UNCHANGED <<apple, fetched, asked, other, db>> /\ Overtakes(1..(k - 1))
          /\ notice' = [notice EXCEPT ![k].status = "received", ![k].read = FamilyOrder]
      BY <1>5 DEF ReadsFamily
    <2>2. AppleFits' /\ inOrder' \in BOOLEAN
      BY <1>1, <2>1, AppleStays, OvertakesIsBoolean
    <2>3. MailFits'
      BY <1>1, <2>1, FamilyOrderFits, RowFits
    <2>4. DbFits'
      BY <1>1, <2>1, <2>2, DbStays
    <2> QED  BY <2>2, <2>3, <2>4 DEF IInv
  <1>6. CASE Fails(k) \/ Dies(k)
    <2>1. UNCHANGED <<apple, fetched, asked, other, db, inOrder>>
          /\ \E status \in {"owed", "received"} : Row(k, status)
      BY <1>6 DEF Fails, Dies
    <2>2. AppleFits' /\ inOrder' \in BOOLEAN
      BY <1>1, <2>1, AppleStays
    <2>3. MailFits'
      BY <1>1, <1>2, <2>1, RowFits DEF Row
    <2>4. DbFits'
      BY <1>1, <2>1, <2>2, DbStays
    <2> QED  BY <2>2, <2>3, <2>4 DEF IInv
  <1> QED  BY <1>3, <1>4, <1>5, <1>6

LEMMA ClientAsksStep ==
  ASSUME IInv, NEW p \in Periods, ClientAsks(p)
  PROVE  IInv'
PROOF
  <1>1. AppleFits /\ MailFits /\ DbFits /\ inOrder \in BOOLEAN /\ period[p] \in PeriodRow
    BY DEF IInv, AppleFits, DbFits, DbTyped
  <1>2. /\ UNCHANGED <<apple, notice, other, db, inOrder>> /\ asked' = asked + 1
        /\ Len(notice) + asked < MaxInputs
        /\ fetched' = [tx |-> p, end |-> period[p].end, signed |-> 2 * Len(notice) + 1]
    BY DEF ClientAsks
  <1>3. Len(notice) \in Nat /\ asked \in Nat /\ notice \in Seq(NoticeRow)
    BY <1>1, AppleAssumption DEF MailFits, AppleAssumption
  <1>4. 2 * Len(notice) + 1 \in Nat /\ asked' \in 0..MaxInputs
    BY <1>2, <1>3, AppleAssumption DEF AppleAssumption
  <1>5. fetched' \in FetchRow /\ fetched'.tx \in Periods
    BY <1>1, <1>2, <1>4, PeriodsAreFinite DEF FetchRow, PeriodRow, Periods
  <1>6. MailFits'
    BY <1>2, <1>3, <1>4, <1>5 DEF MailFits
  <1>7. AppleFits' /\ DbFits'
    BY <1>1, <1>2, AppleStays, DbStays
  <1> QED  BY <1>6, <1>7 DEF IInv

LEMMA ClientRecordsStep ==
  ASSUME IInv, ClientRecords
  PROVE  IInv'
PROOF
  <1>1. AppleFits /\ MailFits /\ DbFits /\ inOrder \in BOOLEAN
    BY DEF IInv, DbFits, DbTyped
  <1>2. UNCHANGED <<apple, notice, asked, other>> /\ fetched # NoFetch /\ fetched' = NoFetch
    BY DEF ClientRecords
  <1>3. fetched.tx \in Periods /\ fetched.end \in Dates /\ fetched.signed \in Nat
    BY <1>1, <1>2 DEF MailFits, FetchRow
  <1>4. MailFits'
    <2>1. NoFetch \in FetchRow
      BY PeriodsAreFinite, AppleAssumption DEF AppleAssumption, NoFetch, FetchRow, Dates
    <2> QED  BY <1>1, <1>2, <2>1 DEF MailFits
  <1>5. AppleFits'
    BY <1>1, <1>2, AppleStays
  <1>6. CASE UNCHANGED <<db, inOrder>>
    BY <1>1, <1>2, <1>4, <1>5, <1>6, DbStays DEF IInv
  <1>7. CASE /\ ~Recorded(fetched.tx)
             /\ GrantsPeriod(fetched.tx, fetched.end, fetched.signed)
             /\ \E S : Overtakes(S)
    <2>1. inOrder' \in BOOLEAN
      BY <1>7, OvertakesIsBoolean
    <2>2. DbFits'
      BY <1>1, <1>2, <1>3, <1>7, <2>1, GrantsPeriodFits
    <2> QED  BY <1>4, <1>5, <2>2 DEF IInv
  <1>8. \/ UNCHANGED <<db, inOrder>>
        \/ /\ ~Recorded(fetched.tx)
           /\ GrantsPeriod(fetched.tx, fetched.end, fetched.signed)
           /\ \E S : Overtakes(S)
    BY DEF ClientRecords
  <1> QED  BY <1>6, <1>7, <1>8

(* What a refresh leaves active are grants in force, and the plan follows. *)
LEMMA RefreshesStep ==
  ASSUME IInv, Refreshes
  PROVE  IInv'
PROOF
  <1> DEFINE live == {p \in Active : InForce(p)}
  <1>1. AppleFits /\ MailFits /\ DbFits /\ DbTyped /\ user \in UserRow /\ sub \in SubRow
        /\ grants \in [Periods -> GrantStates]
    BY DEF IInv, DbFits, DbTyped
  <1>2. /\ UNCHANGED <<apple, notice, fetched, asked, other, orders, inOrder>>
        /\ grants' = [p \in Periods |-> IF p \in Active \ live THEN "lapsed" ELSE grants[p]]
        /\ user' = IF live # {}
                   THEN [user EXCEPT !.plan = "apple", !.order = Newest(live)]
                   ELSE [user EXCEPT !.plan = FallbackPlan(other), !.order = 0]
        /\ sub' = sub \/ sub' = [sub EXCEPT !.status = "expired"]
    BY DEF Refreshes
  <1>3. live \subseteq Active /\ live \in SUBSET Periods
        /\ \A p \in Periods : p \in Active <=> grants[p] = "active"
    BY DEF Active
  <1> HIDE DEF live
  <1>4. AppleFits' /\ MailFits'
    BY <1>1, <1>2, AppleStays DEF MailFits
  <1>5. grants' \in [Periods -> GrantStates] /\ Active' = live
    <2>1. \A p \in Periods : grants'[p] = IF p \in Active \ live THEN "lapsed" ELSE grants[p]
      BY <1>2
    <2>2. grants' \in [Periods -> GrantStates]
      BY <1>1, <1>2 DEF GrantStates
    <2>3. \A p \in Periods : grants'[p] = "active" <=> p \in live
      BY <1>3, <2>1
    <2>4. Active' = {p \in Periods : grants'[p] = "active"}
      BY DEF Active
    <2> QED  BY <1>3, <2>2, <2>3, <2>4
  <1>6. sub' \in SubRow
    BY <1>1, <1>2 DEF SubRow, SubStates
  <1>7. CASE live # {}
    <2>1. Newest(live) \in live
      BY <1>1, <1>3, <1>7, NewestIsOne
    <2>2. Newest(live) \in 0..MaxPeriods
      <3> DEFINE o == Newest(live)
      <3>1. o \in Periods
        BY <1>3, <2>1
      <3> HIDE DEF o
      <3>2. o \in 0..MaxPeriods
        BY <3>1, PeriodsAreFinite DEF Periods
      <3> QED  BY <3>2 DEF o
    <2>3. user' \in UserRow /\ user'.plan = "apple" /\ user'.order = Newest(live)
      BY <1>1, <1>2, <1>7, <2>2, UserMoves
    <2>4. DbTyped'
      BY <1>1, <1>2, <1>5, <1>6, <2>3 DEF DbTyped
    <2> QED  BY <1>4, <1>5, <1>7, <2>1, <2>3, <2>4 DEF IInv, DbFits, PlanFollowsGrants
  <1>8. CASE live = {}
    <2>1. user' \in UserRow /\ user'.plan = IF other THEN "other" ELSE "free"
      <3> DEFINE plan == FallbackPlan(other)
      <3>1. user' = [user EXCEPT !.plan = plan, !.order = 0]
        BY <1>2, <1>8
      <3>2. plan \in {"free", "apple", "other"} /\ 0 \in 0..MaxPeriods
        BY PeriodsAreFinite DEF FallbackPlan
      <3>3. plan = IF other THEN "other" ELSE "free"
        BY DEF FallbackPlan
      <3> HIDE DEF plan
      <3>4. user' \in UserRow /\ user'.plan = plan
        BY <1>1, <3>1, <3>2 DEF UserRow
      <3> QED  BY <3>3, <3>4
    <2>2. DbTyped'
      BY <1>1, <1>2, <1>5, <1>6, <2>1 DEF DbTyped
    <2>3. other' = other
      BY <1>2
    <2> QED  BY <1>4, <1>5, <1>8, <2>1, <2>2, <2>3 DEF IInv, DbFits, PlanFollowsGrants
  <1> QED  BY <1>7, <1>8

LEMMA DeletesStep ==
  ASSUME IInv, Deletes
  PROVE  IInv'
PROOF
  <1>1. /\ UNCHANGED <<apple, notice, fetched, other, orders, grants, sub, inOrder>>
        /\ asked' = asked + 1 /\ Len(notice) + asked < MaxInputs
        /\ user' = [deleted |-> TRUE, plan |-> "free", order |-> 0]
    BY DEF Deletes
  <1>2. AppleFits /\ MailFits /\ DbTyped
    BY DEF IInv, DbFits
  <1>3. AppleFits'
    BY <1>1, <1>2, AppleStays
  <1>4. MailFits'
    <2>1. notice \in Seq(NoticeRow) /\ Len(notice) \in Nat /\ asked \in Nat
      BY <1>2, AppleAssumption DEF AppleAssumption, MailFits
    <2>2. asked' \in 0..MaxInputs
      BY <1>1, <2>1, AppleAssumption DEF AppleAssumption
    <2> QED  BY <1>1, <1>2, <2>2 DEF MailFits
  <1>5. user' \in UserRow /\ user'.deleted
    BY <1>1, PeriodsAreFinite DEF UserRow
  <1>6. DbTyped'
    BY <1>1, <1>2, <1>5 DEF DbTyped
  <1> QED  BY <1>3, <1>4, <1>5, <1>6 DEF IInv, DbFits, PlanFollowsGrants

LEMMA StutterStep ==
  ASSUME IInv, UNCHANGED vars
  PROVE  IInv'
PROOF
  <1>1. UNCHANGED <<apple, notice, fetched, asked, db, other, inOrder>>
    BY DEF vars
  <1>2. AppleFits /\ MailFits /\ DbFits /\ inOrder \in BOOLEAN
    BY DEF IInv, DbFits, DbTyped
  <1>3. AppleFits' /\ DbFits'
    BY <1>1, <1>2, AppleStays, DbStays
  <1>4. MailFits'
    BY <1>1, <1>2 DEF MailFits
  <1> QED  BY <1>3, <1>4 DEF IInv

(* The invariant is inductive. *)
THEOREM Inductive == Spec => []IInv
PROOF
  <1>1. Init => IInv
    BY InitFits
  <1>2. IInv /\ [Next]_vars => IInv'
    <2> SUFFICES ASSUME IInv, [Next]_vars PROVE IInv'
      OBVIOUS
    <2>1. CASE Next
      BY <2>1, AppleStep, ClientAsksStep, ClientRecordsStep, NotificationStep,
         RefreshesStep, DeletesStep DEF Next
    <2>2. CASE UNCHANGED vars
      BY <2>2, StutterStep
    <2> QED  BY <2>1, <2>2
  <1> QED  BY <1>1, <1>2, PTL DEF Spec

(* Every transaction keeps the rows well typed, whatever the order in      *)
(* which notifications, answers, refreshes and the deletion are applied.   *)
THEOREM TypeCorrect == Spec => []TypeOK
PROOF
  <1> QED  BY Inductive, InvariantIsTyped, PTL

(* The plan on the users row is the one that the entitlement_grants rows   *)
(* give, however late, early or often notifications are handled            *)
(* (postgresResolveActivePlan and the statements that write users.plan).   *)
THEOREM PlanIsRight == Spec => []PlanFollowsGrants
PROOF
  <1>1. IInv => PlanFollowsGrants
    BY DEF IInv, DbFits
  <1> QED  BY <1>1, Inductive, PTL

---------------------------------------------------------------------------
(* After the account's deletion. *)

(* What leaves the user and the grants alone gives nothing. *)
LEMMA NothingGranted ==
  ASSUME UNCHANGED <<user, grants>>
  PROVE  user' = user /\ Active' \subseteq Active
PROOF
  BY DEF Active

LEMMA DeletedStep ==
  ASSUME IInv, [Next]_vars, user.deleted
  PROVE  user' = user /\ Active' \subseteq Active
PROOF
  <1>1. grants \in [Periods -> GrantStates] /\ MailFits
    BY DEF IInv, DbFits, DbTyped
  <1>2. ASSUME UNCHANGED db PROVE user' = user /\ Active' \subseteq Active
    BY <1>2, NothingGranted DEF db
  <1>3. CASE AppleNext \/ (\E p \in Periods : ClientAsks(p)) \/ ClientRecords
             \/ UNCHANGED vars
    <2>1. UNCHANGED db
      BY <1>3 DEF AppleNext, ClientAsks, ClientRecords, vars
    <2> QED  BY <1>2, <2>1
  <1>4. ASSUME NEW k \in Notices, NEW status \in {"processed", "received"},
               Handles(k, status)
        PROVE  user' = user /\ Active' \subseteq Active
    <2> DEFINE n == notice[k]
    <2>1. n \in NoticeRow /\ n.tx \in Periods
      BY <1>1, NoticeFits DEF NoticeRow
    <2>2. AppliesCharge(n, Signed(k)) \/ AppliesStatus(n, Signed(k))
      BY <1>4 DEF Handles
    <2> HIDE DEF n
    <2>3. CASE AppliesCharge(n, Signed(k))
      <3>1. UNCHANGED db \/ ConfirmsCharge(n, Signed(k)) \/ KeepsLedger(n, Signed(k))
        BY <2>3 DEF AppliesCharge
      <3>2. UNCHANGED <<user, grants>>
        BY <3>1 DEF ConfirmsCharge, KeepsLedger, db
      <3> QED  BY <3>2, NothingGranted
    <2>4. CASE AppliesStatus(n, Signed(k)) /\ StaleStatus(n, Signed(k))
      <3>1. UNCHANGED db
        BY <2>4 DEF AppliesStatus
      <3> QED  BY <1>2, <3>1
    <2>5. CASE AppliesStatus(n, Signed(k)) /\ ~StaleStatus(n, Signed(k))
      <3>1. RecordsForDeleted(n, Signed(k))
        BY <2>5 DEF AppliesStatus
      <3>2. GrantStatus(n.kind) # "active"
        BY DEF GrantStatus
      <3>3. \A q \in Periods : grants'[q] = "active" => grants[q] = "active"
        BY <1>1, <2>1, <3>1, <3>2 DEF RecordsForDeleted
      <3> QED  BY <3>1, <3>3 DEF RecordsForDeleted, Active
    <2> QED  BY <2>2, <2>3, <2>4, <2>5
  <1>5. ASSUME NEW k \in Notices, NEW status \in {"processed", "received"},
               HandlesLifecycle(k, status)
        PROVE  user' = user /\ Active' \subseteq Active
    <2> DEFINE n == notice[k]
               f == n.read
    <2>1. AppliesLifecycle(n, Signed(k), f)
      BY <1>5 DEF HandlesLifecycle
    <2> HIDE DEF n, f
    <2>2. CASE sub.signed > Signed(k)
      BY <1>2, <2>1, <2>2 DEF AppliesLifecycle
    <2>3. CASE ~(sub.signed > Signed(k))
      <3>1. ~Recovers(n, f)
        BY DEF Recovers
      <3>2. user' = user /\ grants' = [grants EXCEPT ![f] = GrantSeen(n, f)]
        BY <2>1, <2>3, <3>1 DEF AppliesLifecycle
      <3>3. \A q \in Periods : grants'[q] = "active" => grants[q] = "active"
        BY <1>1, <3>2 DEF GrantSeen
      <3> QED  BY <3>2, <3>3 DEF Active
    <2> QED  BY <2>2, <2>3
  <1>6. CASE \E k \in Notices : ReadsFamily(k) \/ Fails(k) \/ Dies(k)
    <2>1. UNCHANGED db
      BY <1>6 DEF ReadsFamily, Fails, Dies
    <2> QED  BY <1>2, <2>1
  <1>7. ~Refreshes /\ ~Deletes
    BY DEF Refreshes, Deletes
  <1> QED  BY <1>3, <1>4, <1>5, <1>6, <1>7 DEF Next

(* Renewals, grace periods, extensions and reversed refunds that arrive    *)
(* after the account's deletion give no grant and do not touch the user    *)
(* (the deleted_at tests of the notification transactions).                *)
THEOREM NothingAfterDeletion == Spec => NoGrantAfterDeletion
PROOF
  <1>1. IInv /\ [Next]_vars => [user.deleted => user' = user /\ Active' \subseteq Active]_vars
    BY DeletedStep
  <1> QED  BY <1>1, Inductive, PTL DEF Spec, NoGrantAfterDeletion

---------------------------------------------------------------------------
(* The order of transactions, orders and the current one. *)

Charged(p) == period[p].state # "none"

(* Apple numbers its transactions as their periods start. *)
PeriodsInOrder ==
  /\ \A p \in Periods : Charged(p) <=> p =< Last
  /\ \A p, q \in Periods : p < q /\ Charged(q) => period[p].start < period[q].start

(* Notifications and answers are about transactions that Apple charged. *)
MailIsCharged ==
  /\ \A k \in Notices : Charged(notice[k].tx)
  /\ fetched # NoFetch => Charged(fetched.tx)

(* The order of the current transaction was made after those of the        *)
(* transactions before it: a charge older than the current one is stale.   *)
OrdersInOrder ==
  /\ \A p \in Periods : (Recorded(p) => Charged(p)) /\ orders[p].made =< Made
  /\ sub.current # 0 =>
       /\ Recorded(sub.current)
       /\ \A p \in Periods : p < sub.current
                               => orders[p].made < orders[sub.current].made

OInv == PeriodsInOrder /\ MailIsCharged /\ OrdersInOrder

LEMMA InitInOrder == Init => OInv
PROOF
  <1> SUFFICES ASSUME Init PROVE OInv
    OBVIOUS
  <1>1. ~(\E p \in Periods : Charged(p))
    BY DEF Init, NoPeriod, Charged
  <1>2. Last = 0
    <2>1. {p \in Periods : period[p].state # "none"} = {}
      BY <1>1 DEF Charged
    <2> QED  BY <2>1, FS_EmptySet DEF Last
  <1>3. PeriodsInOrder
    BY <1>1, <1>2 DEF PeriodsInOrder, Periods
  <1>4. MailIsCharged
    BY DEF Init, MailIsCharged, Notices
  <1>5. OrdersInOrder
    <2>1. DbTyped
      BY InitFits DEF IInv, DbFits
    <2>2. Made \in Nat
      BY <2>1, MadeFits
    <2> QED  BY <2>2 DEF Init, OrdersInOrder, Recorded, NoOrder, NoSub
  <1> QED  BY <1>3, <1>4, <1>5 DEF OInv

(* What charges nothing keeps the periods in order. *)
LEMMA PeriodsStay ==
  ASSUME PeriodsInOrder,
         \A p \in Periods : /\ period'[p].start = period[p].start
                            /\ period'[p].state = "none" <=> period[p].state = "none"
  PROVE  PeriodsInOrder' /\ \A p \in Periods : Charged(p)' <=> Charged(p)
PROOF
  <1>1. \A p \in Periods : Charged(p)' <=> Charged(p)
    BY DEF Charged
  <1>2. Last' = Last
    BY DEF Last
  <1> QED  BY <1>1, <1>2 DEF PeriodsInOrder

LEMMA ChargesInOrder ==
  ASSUME IInv, PeriodsInOrder, Charges
  PROVE  /\ PeriodsInOrder' /\ Last' = Last + 1
         /\ \A p \in Periods : Charged(p) \/ p = Last + 1 => Charged(p)'
PROOF
  <1> DEFINE t == Last + 1
             s == StartOfNext
             S == {p \in Periods : Charged(p)}
  <1>1. AppleFits /\ period \in [Periods -> PeriodRow] /\ Last \in 0..MaxPeriods
        /\ MaxPeriods \in Nat
    BY LastFits DEF IInv, AppleFits
  <1>2. Last < MaxPeriods /\ (Last > 0 => period[Last].start =< clock)
        /\ (Last > 0 => period[Last].start < s)
        /\ period' = [period EXCEPT ![t] = [start |-> s, end |-> s + 1, state |-> "paid"]]
    BY DEF Charges
  <1>3. t \in Periods /\ ~Charged(t)
    BY <1>1, <1>2 DEF Periods, PeriodsInOrder
  <1>4. s \in Nat
    BY <1>1, <1>2, NextStartFits
  <1>5. /\ \A p \in Periods : p # t => period'[p] = period[p]
        /\ period'[t].start = s /\ period'[t].state = "paid"
    BY <1>1, <1>2, <1>3
  <1>6. \A p \in Periods : Charged(p)' <=> Charged(p) \/ p = t
    BY <1>5 DEF Charged
  <1>7. Last' = t
    <2>1. IsFiniteSet(S) /\ t \notin S /\ Last = Cardinality(S)
      BY <1>3, PeriodsAreFinite, FS_Subset DEF Last, Charged
    <2>2. {p \in Periods : period'[p].state # "none"} = S \cup {t}
      BY <1>3, <1>6 DEF Charged
    <2>3. Last' = Cardinality(S \cup {t})
      BY <2>2 DEF Last
    <2> HIDE DEF S, t
    <2>4. Last' = Cardinality(S) + 1
      BY <2>1, <2>3, FS_AddElement
    <2> QED  BY <2>1, <2>4 DEF t
  <1>8. \A p \in Periods : Charged(p)' <=> p =< Last'
    <2>1. \A p \in Periods : Charged(p) <=> p =< Last
      BY DEF PeriodsInOrder
    <2> QED  BY <1>1, <1>6, <1>7, <2>1 DEF Periods
  <1>9. ASSUME NEW p \in Periods, NEW q \in Periods, p < q, Charged(q)'
        PROVE  period'[p].start < period'[q].start
    <2>1. \A x, y \in Periods : x < y /\ Charged(y) => period[x].start < period[y].start
      BY DEF PeriodsInOrder
    <2>2. \A x \in Periods : period[x].start \in Nat
      BY <1>1 DEF PeriodRow, Dates
    <2>3. p \in Nat /\ q \in Nat /\ q =< t
      BY <1>1, <1>7, <1>8, <1>9 DEF Periods
    <2> HIDE DEF s
    <2>4. CASE q = t
      <3>1. p =< Last /\ Last > 0 /\ Last \in Periods /\ Charged(Last)
        BY <1>1, <1>9, <2>3, <2>4 DEF PeriodsInOrder, Periods
      <3>2. period[p].start =< period[Last].start
        BY <1>1, <2>1, <2>2, <2>3, <3>1
      <3> QED  BY <1>2, <1>4, <1>5, <1>9, <2>2, <2>3, <2>4, <3>1, <3>2
    <2>5. CASE q # t
      <3>1. Charged(q) /\ p # t
        BY <1>1, <1>6, <1>9, <2>3, <2>5
      <3> QED  BY <1>5, <1>9, <2>1, <2>5, <3>1
    <2> QED  BY <2>4, <2>5
  <1> QED  BY <1>3, <1>6, <1>7, <1>8, <1>9 DEF PeriodsInOrder

LEMMA NotifyInOrder ==
  ASSUME MailFits, MailIsCharged, NEW kind, NEW p \in Periods, Notify(kind, p),
         Charged(p)', \A x \in Periods : Charged(x) => Charged(x)', fetched' = fetched
  PROVE  MailIsCharged'
PROOF
  <1> DEFINE n == [kind |-> kind, tx |-> p, end |-> period'[p].end,
                   grace |-> phase'.grace, status |-> "owed", read |-> 0]
  <1>1. notice' = Append(notice, n) /\ notice \in Seq(NoticeRow)
    BY DEF Notify, MailFits
  <1>2. n.tx = p
    OBVIOUS
  <1> HIDE DEF n
  <1>3. \A k \in Notices' : notice'[k].tx = p \/ (k \in Notices /\ notice'[k] = notice[k])
    BY <1>1, <1>2 DEF Notices
  <1>4. \A k \in Notices : notice[k].tx \in Periods
    <2>1. \A k \in Notices : notice[k] \in NoticeRow
      BY NoticeFits
    <2> QED  BY <2>1 DEF NoticeRow
  <1>5. ASSUME NEW k \in Notices' PROVE period'[notice'[k].tx].state # "none"
    <2>1. CASE notice'[k].tx = p
      BY <2>1 DEF Charged
    <2>2. CASE k \in Notices /\ notice'[k] = notice[k]
      BY <1>4, <2>2 DEF Charged, MailIsCharged
    <2> QED  BY <1>3, <2>1, <2>2
  <1>6. fetched # NoFetch => period'[fetched.tx].state # "none"
    BY DEF MailFits, MailIsCharged, Charged
  <1> QED  BY <1>5, <1>6 DEF MailIsCharged, Charged

(* Apple's steps, the rows of notifications and the refresh leave the      *)
(* orders and the current transaction alone.                               *)
LEMMA OrdersStay ==
  ASSUME DbTyped, OrdersInOrder, sub'.current = sub.current,
         \A p \in Periods : /\ Charged(p) => Charged(p)'
                            /\ orders'[p].made = orders[p].made
                            /\ Recorded(p)' <=> Recorded(p)
  PROVE  OrdersInOrder'
PROOF
  <1>1. Made' = Made
    BY DEF Made
  <1>2. PICK c \in 0..MaxPeriods : c = sub.current /\ sub'.current = c
    BY DEF DbTyped, SubRow
  <1>3. c # 0 => c \in Periods /\ Recorded(c)'
    BY <1>2, PeriodsAreFinite DEF OrdersInOrder, Periods
  <1>4. c # 0 => \A p \in Periods : p < c => orders'[p].made < orders'[c].made
    BY <1>2, <1>3 DEF OrdersInOrder
  <1>5. \A p \in Periods : (Recorded(p)' => Charged(p)') /\ orders'[p].made =< Made'
    BY <1>1 DEF OrdersInOrder
  <1> QED  BY <1>2, <1>3, <1>4, <1>5 DEF OrdersInOrder, Recorded

LEMMA AppleInOrder ==
  ASSUME IInv, OInv, AppleNext
  PROVE  OInv'
PROOF
  <1>1. UNCHANGED <<fetched, asked, other, db, inOrder>> /\ UNCHANGED <<orders, sub>>
    BY DEF AppleNext, db
  <1>2. AppleFits /\ MailFits /\ PeriodsInOrder /\ MailIsCharged /\ OrdersInOrder
    BY DEF IInv, OInv
  <1>3. period \in [Periods -> PeriodRow] /\ Last \in 0..MaxPeriods /\ MaxPeriods \in Nat
    BY <1>2, LastFits DEF AppleFits
  <1>4. ASSUME Last > 0 PROVE Last \in Periods /\ Charged(Last)
    BY <1>2, <1>3, <1>4 DEF Periods, PeriodsInOrder
  <1>5. ASSUME \A p \in Periods : Charged(p) => Charged(p)' PROVE OrdersInOrder'
    <2>1. DbTyped
      BY DEF IInv, DbFits
    <2> QED  BY <1>1, <1>2, <1>5, <2>1, OrdersStay DEF Recorded
  <1>6. ASSUME NEW p \in Periods, Charged(p), \E kind \in Kinds : Notify(kind, p),
               \A q \in Periods : /\ period'[q].start = period[q].start
                                  /\ period'[q].state = "none" <=> period[q].state = "none"
        PROVE  OInv'
    <2>1. PeriodsInOrder' /\ \A q \in Periods : Charged(q)' <=> Charged(q)
      BY <1>2, <1>6, PeriodsStay
    <2>2. MailIsCharged'
      BY <1>1, <1>2, <1>6, <2>1, NotifyInOrder
    <2> QED  BY <1>5, <2>1, <2>2 DEF OInv
  <1>7. CASE Charges
    <2>1. PICK t \in Periods : t = Last + 1 /\ Notify("charge", t)
      BY <1>3, <1>7 DEF Charges, Periods
    <2>2. /\ PeriodsInOrder'
          /\ \A p \in Periods : Charged(p) \/ p = Last + 1 => Charged(p)'
      BY <1>2, <1>7, ChargesInOrder
    <2>3. MailIsCharged'
      BY <1>1, <1>2, <2>1, <2>2, NotifyInOrder
    <2> QED  BY <1>5, <2>2, <2>3 DEF OInv
  <1>8. CASE FailsToCharge \/ Expires \/ ChangesRenewal
    <2>1. /\ Last > 0 /\ UNCHANGED period
          /\ \E kind \in Kinds : Notify(kind, Last)
      BY <1>8 DEF FailsToCharge, Expires, ChangesRenewal, Running, apple, Kinds,
         LifecycleKinds, StatusKinds
    <2> QED  BY <1>3, <1>4, <1>6, <2>1
  <1>9. CASE Extends
    <2>1. /\ Last > 0 /\ \E kind \in Kinds : Notify(kind, Last)
          /\ period' = [period EXCEPT ![Last].end = @ + 1]
      BY <1>9 DEF Extends, Running, Kinds, LifecycleKinds
    <2>2. \A q \in Periods : /\ period'[q].start = period[q].start
                             /\ period'[q].state = "none" <=> period[q].state = "none"
      BY <1>3, <1>4, <2>1 DEF PeriodRow
    <2> QED  BY <1>3, <1>4, <1>6, <2>1, <2>2
  <1>10. CASE Tick
    <2>1. UNCHANGED <<period, notice>>
      BY <1>10 DEF Tick
    <2>2. PeriodsInOrder' /\ \A q \in Periods : Charged(q)' <=> Charged(q)
      BY <1>2, <2>1, PeriodsStay
    <2>3. MailIsCharged'
      BY <1>1, <1>2, <2>1 DEF MailIsCharged, Charged, Notices
    <2> QED  BY <1>5, <2>2, <2>3 DEF OInv
  <1>11. ASSUME NEW p \in Periods, Refunds(p) \/ ReversesRefund(p) PROVE OInv'
    <2>1. PICK state \in {"paid", "refunded"} :
            period' = [period EXCEPT ![p].state = state]
      BY <1>11 DEF Refunds, ReversesRefund
    <2>2. Charged(p) /\ \E kind \in Kinds : Notify(kind, p)
      BY <1>11 DEF Refunds, ReversesRefund, Charged, Kinds, StatusKinds
    <2>3. \A q \in Periods : /\ period'[q].start = period[q].start
                             /\ period'[q].state = "none" <=> period[q].state = "none"
      BY <1>3, <2>1, <2>2 DEF PeriodRow, Charged
    <2> QED  BY <1>6, <2>2, <2>3
  <1> QED  BY <1>7, <1>8, <1>9, <1>10, <1>11 DEF AppleNext

(* A charge that is not stale is not older than the current transaction. *)
LEMMA ChargeIsNewer ==
  ASSUME DbTyped, PeriodsInOrder, OrdersInOrder, AppleFits, NEW p \in Periods, NEW signed,
         ~StaleCharge(p, signed)
  PROVE  ~(p < sub.current)
PROOF
  <1> SUFFICES ASSUME p < sub.current PROVE FALSE
    OBVIOUS
  <1>1. PICK c \in 0..MaxPeriods : c = sub.current
    BY DEF DbTyped, SubRow
  <1>2. c \in Periods /\ c \notin {0, p}
    BY <1>1, PeriodsAreFinite DEF Periods
  <1>3. Charged(c)
    BY <1>1, <1>2 DEF OrdersInOrder
  <1>4. period[p].start < period[c].start
    BY <1>1, <1>2, <1>3 DEF PeriodsInOrder
  <1> QED  BY <1>1, <1>2, <1>4 DEF StaleCharge

LEMMA OrdersGrow ==
  ASSUME IInv, OInv, NEW p \in Periods, NEW end, NEW signed, Charged(p), ~Recorded(p),
         ~StaleCharge(p, signed), orders' = [orders EXCEPT ![p] = Order(end, signed)],
         sub'.current \in {p, sub.current}, UNCHANGED period
  PROVE  OrdersInOrder'
PROOF
  <1> DEFINE S == {x \in Periods : Recorded(x)}
  <1>1. DbTyped /\ AppleFits /\ PeriodsInOrder /\ OrdersInOrder
        /\ orders \in [Periods -> OrderRow] /\ Made \in Nat
    BY MadeFits DEF IInv, DbFits, OInv, DbTyped
  <1>2. \A x \in Periods : x # p => orders'[x] = orders[x]
    BY <1>1
  <1>3. orders'[p].status = "paid" /\ orders'[p].made = Made + 1
    BY <1>1 DEF Order
  <1>4. \A x \in Periods : Recorded(x)' <=> Recorded(x) \/ x = p
    BY <1>2, <1>3 DEF Recorded
  <1>5. Made' = Made + 1
    <2>1. IsFiniteSet(S) /\ p \notin S /\ Made = Cardinality(S)
      BY PeriodsAreFinite, FS_Subset DEF Made
    <2>2. {x \in Periods : Recorded(x)'} = S \cup {p}
      BY <1>4
    <2>3. Made' = Cardinality(S \cup {p})
      BY <2>2 DEF Made
    <2> HIDE DEF S
    <2> QED  BY <2>1, <2>3, FS_AddElement
  <1>6. \A x \in Periods : orders[x].made \in Nat /\ orders[x].made =< Made
    <2>1. \A x \in Periods : orders[x].made \in Nat
      BY <1>1 DEF OrderRow
    <2> QED  BY <1>1, <2>1 DEF OrdersInOrder
  <1>7. ASSUME NEW x \in Periods
        PROVE  (Recorded(x)' => Charged(x)') /\ orders'[x].made =< Made'
    <2>1. CASE x = p
      BY <1>1, <1>3, <1>5, <2>1 DEF Charged
    <2>2. CASE x # p
      <3>1. (Recorded(x)' => Charged(x)) /\ orders'[x].made = orders[x].made
        BY <1>1, <1>2, <1>4, <2>2 DEF OrdersInOrder
      <3> QED  BY <1>1, <1>5, <1>6, <3>1 DEF Charged
    <2> QED  BY <2>1, <2>2
  <1>8. PICK c \in 0..MaxPeriods : c = sub'.current
    BY <1>1, PeriodsAreFinite DEF DbTyped, SubRow, Periods
  <1>9. ASSUME c # 0
        PROVE  /\ c \in Periods /\ Recorded(c)'
               /\ \A x \in Periods : x < c => orders'[x].made < orders'[c].made
    <2>1. c \in Periods
      BY <1>9, PeriodsAreFinite DEF Periods
    <2>2. CASE c = p
      BY <1>1, <1>2, <1>3, <1>4, <1>6, <2>1, <2>2, PeriodsAreFinite DEF Periods
    <2>3. CASE c # p
      <3>1. c = sub.current /\ ~(p < c)
        BY <1>1, <1>8, <2>3, ChargeIsNewer
      <3>2. Recorded(c) /\ \A x \in Periods : x < c => orders[x].made < orders[c].made
        BY <1>1, <1>9, <3>1 DEF OrdersInOrder
      <3> QED  BY <1>2, <1>4, <2>1, <2>3, <3>1, <3>2
    <2> QED  BY <2>2, <2>3
  <1> QED  BY <1>7, <1>8, <1>9 DEF OrdersInOrder, Recorded

(* Writing a notification's row, or a client's answer, does not change     *)
(* what the mail is about.                                                 *)
LEMMA RowInOrder ==
  ASSUME MailFits, MailIsCharged, NEW k \in Notices, NEW status, NEW read,
         notice' = [notice EXCEPT ![k].status = status, ![k].read = read],
         UNCHANGED <<period, fetched>>
  PROVE  MailIsCharged'
PROOF
  <1>1. notice \in Seq(NoticeRow) /\ \A j \in Notices : notice[j] \in NoticeRow
    BY NoticeFits DEF MailFits
  <1>2. Notices' = Notices
    BY <1>1 DEF Notices
  <1>3. \A j \in Notices : notice'[j].tx = notice[j].tx
    BY <1>1 DEF NoticeRow, Notices
  <1> QED  BY <1>2, <1>3 DEF MailIsCharged, Charged

(* A charge makes an order or leaves the orders alone. *)
LEMMA ChargeInOrder ==
  ASSUME IInv, OInv, NEW n \in NoticeRow, NEW signed, Charged(n.tx),
         AppliesCharge(n, signed), UNCHANGED period
  PROVE  OrdersInOrder'
PROOF
  <1> DEFINE p == n.tx
  <1>1. p \in Periods /\ OrdersInOrder /\ sub \in SubRow /\ DbTyped
        /\ \A x \in Periods : Charged(x) => Charged(x)'
    BY DEF NoticeRow, OInv, IInv, DbFits, DbTyped, Charged
  <1>2. CASE Recorded(p) \/ StaleCharge(p, signed)
    <2>1. orders' = orders /\ sub'.current = sub.current
      BY <1>1, <1>2 DEF AppliesCharge, ConfirmsCharge, db, SubRow
    <2> QED  BY <1>1, <2>1, OrdersStay DEF Recorded
  <1>3. CASE ~Recorded(p) /\ ~StaleCharge(p, signed)
    <2>1. orders' = [orders EXCEPT ![p] = Order(n.end, signed)]
      BY <1>3 DEF AppliesCharge, KeepsLedger, GrantsPeriod
    <2>2. sub'.current \in {p, sub.current}
      BY <1>3 DEF AppliesCharge, KeepsLedger, GrantsPeriod, Current
    <2> HIDE DEF p
    <2>3. Charged(p)
      BY DEF p
    <2> QED  BY <1>1, <1>3, <2>1, <2>2, <2>3, OrdersGrow
  <1> QED  BY <1>2, <1>3

(* A status keeps the orders and the current transaction. *)
LEMMA StatusKeeps ==
  ASSUME DbTyped, NEW n \in NoticeRow, NEW signed, Recorded(n.tx), AppliesStatus(n, signed)
  PROVE  /\ sub'.current = sub.current /\ sub'.signed \in {sub.signed, signed}
         /\ \A p \in Periods : orders'[p].made = orders[p].made /\ (Recorded(p)' <=> Recorded(p))
PROOF
  <1>1. n.tx \in Periods /\ sub \in SubRow /\ orders \in [Periods -> OrderRow]
    BY DEF NoticeRow, DbTyped
  <1>2. CASE StaleStatus(n, signed)
    BY <1>2 DEF AppliesStatus, db, Recorded
  <1>3. CASE ~StaleStatus(n, signed)
    <2>1. orders' = [orders EXCEPT ![n.tx].signed = signed,
                                   ![n.tx].status = OrderStatus(n.kind, @)]
      BY <1>3 DEF AppliesStatus
    <2>2. OrderStatus(n.kind, orders[n.tx].status) # "none"
      BY DEF OrderStatus, Recorded
    <2>3. \A p \in Periods : orders'[p].made = orders[p].made /\ (Recorded(p)' <=> Recorded(p))
      BY <1>1, <2>1, <2>2 DEF OrderRow, Recorded
    <2>4. /\ SeenBySub(n, signed).current = sub.current
          /\ SeenBySub(n, signed).signed \in {sub.signed, signed}
      BY <1>1 DEF SeenBySub, SubRow
    <2>5. SeenBySub(n, signed) \in [current : 0..MaxPeriods, expires : Dates, grace : Dates,
                                    signed : {signed} \cup Nat, status : SubStates]
      BY <1>1 DEF SeenBySub, SubRow
    <2>6. sub'.current = sub.current /\ sub'.signed \in {sub.signed, signed}
      <3>1. CASE user.deleted
        BY <1>1, <1>3, <3>1 DEF AppliesStatus, RecordsForDeleted, SubRow
      <3>2. CASE ~user.deleted /\ n.kind = "restored"
        <4>1. \/ sub' = [SeenBySub(n, signed) EXCEPT !.status = "active"]
              \/ sub' = SeenBySub(n, signed)
          BY <1>3, <3>2 DEF AppliesStatus, Restores
        <4> QED  BY <2>4, <2>5, <4>1
      <3>3. CASE ~user.deleted /\ n.kind # "restored"
        <4>1. \/ sub' = [SeenBySub(n, signed) EXCEPT !.status = SubStatus(n.kind)]
              \/ sub' = SeenBySub(n, signed) \/ sub' = sub
          BY <1>3, <3>3 DEF AppliesStatus, Ends
        <4> QED  BY <2>4, <2>5, <4>1
      <3> QED  BY <3>1, <3>2, <3>3
    <2> QED  BY <2>3, <2>6
  <1> QED  BY <1>2, <1>3

LEMMA StatusInOrder ==
  ASSUME IInv, OInv, NEW n \in NoticeRow, NEW signed, Recorded(n.tx),
         AppliesStatus(n, signed), UNCHANGED period
  PROVE  OrdersInOrder'
PROOF
  <1>1. OrdersInOrder /\ DbTyped /\ \A x \in Periods : Charged(x) => Charged(x)'
    BY DEF OInv, IInv, DbFits, Charged
  <1> QED  BY <1>1, StatusKeeps, OrdersStay

(* A lifecycle notification does, too. *)
LEMMA LifecycleKeeps ==
  ASSUME DbTyped, NEW n \in NoticeRow, NEW signed, NEW f \in Periods,
         AppliesLifecycle(n, signed, f)
  PROVE  /\ sub'.current = sub.current /\ sub'.signed \in {sub.signed, signed}
         /\ \A p \in Periods : orders'[p].made = orders[p].made /\ (Recorded(p)' <=> Recorded(p))
PROOF
  <1>1. sub \in SubRow /\ orders \in [Periods -> OrderRow]
    BY DEF DbTyped
  <1>2. CASE sub.signed > signed
    BY <1>2 DEF AppliesLifecycle, db, Recorded
  <1>3. CASE ~(sub.signed > signed)
    <2>1. orders' = orders \/ orders' = [orders EXCEPT ![f].end = n.end]
      BY <1>3 DEF AppliesLifecycle
    <2>2. \A p \in Periods : orders'[p].made = orders[p].made /\ (Recorded(p)' <=> Recorded(p))
      BY <1>1, <2>1 DEF OrderRow, Recorded
    <2>3. sub'.current = sub.current /\ sub'.signed = signed
      BY <1>1, <1>3 DEF AppliesLifecycle, SubRow
    <2> QED  BY <2>2, <2>3
  <1> QED  BY <1>2, <1>3

LEMMA LifecycleInOrder ==
  ASSUME IInv, OInv, NEW n \in NoticeRow, NEW signed, NEW f \in Periods,
         AppliesLifecycle(n, signed, f), UNCHANGED period
  PROVE  OrdersInOrder'
PROOF
  <1>1. OrdersInOrder /\ DbTyped /\ \A x \in Periods : Charged(x) => Charged(x)'
    BY DEF OInv, IInv, DbFits, Charged
  <1> QED  BY <1>1, LifecycleKeeps, OrdersStay

LEMMA StepInOrder ==
  ASSUME IInv, OInv, [Next]_vars
  PROVE  OInv'
PROOF
  <1>1. MailFits /\ PeriodsInOrder /\ MailIsCharged /\ OrdersInOrder /\ DbTyped /\ sub \in SubRow
        /\ \A k \in Notices : notice[k] \in NoticeRow
    BY NoticeFits DEF IInv, OInv, DbFits, DbTyped
  <1>2. ASSUME UNCHANGED apple
        PROVE  PeriodsInOrder' /\ period' = period
               /\ \A p \in Periods : Charged(p) => Charged(p)'
    BY <1>1, <1>2, PeriodsStay DEF apple, Charged
  <1>3. ASSUME UNCHANGED <<apple, orders, sub>> PROVE PeriodsInOrder' /\ OrdersInOrder'
    BY <1>1, <1>2, <1>3, OrdersStay DEF Recorded
  <1>4. ASSUME NEW k \in Notices, NEW status \in {"processed", "received"}, Handles(k, status)
        PROVE  OInv'
    <2>1. UNCHANGED <<apple, fetched>> /\ Row(k, status) /\ Known(notice[k])
          /\ IF notice[k].kind = "charge" THEN AppliesCharge(notice[k], Signed(k))
             ELSE AppliesStatus(notice[k], Signed(k))
          /\ notice[k].kind \notin LifecycleKinds
      BY <1>4 DEF Handles
    <2>2. MailIsCharged'
      BY <1>1, <1>2, <2>1, RowInOrder DEF Row
    <2>3. Charged(notice[k].tx)
      BY <1>1 DEF MailIsCharged
    <2>4. CASE notice[k].kind = "charge"
      BY <1>1, <1>2, <2>1, <2>2, <2>3, <2>4, ChargeInOrder DEF OInv
    <2>5. CASE notice[k].kind # "charge"
      <3>1. Recorded(notice[k].tx)
        <4>1. notice[k].kind \in StatusKinds
          BY <1>1, <2>1, <2>5 DEF NoticeRow, Kinds
        <4> QED  BY <2>1, <2>5, <4>1 DEF Known, StatusKinds, LifecycleKinds
      <3> QED  BY <1>1, <1>2, <2>1, <2>2, <2>5, <3>1, StatusInOrder DEF OInv
    <2> QED  BY <2>4, <2>5
  <1>5. ASSUME NEW k \in Notices, NEW status \in {"processed", "received"},
               HandlesLifecycle(k, status)
        PROVE  OInv'
    <2>1. UNCHANGED <<apple, fetched>> /\ Row(k, status)
          /\ AppliesLifecycle(notice[k], Signed(k), notice[k].read) /\ notice[k].read # 0
      BY <1>5 DEF HandlesLifecycle
    <2>2. notice[k].read \in Periods
      BY <1>1, <2>1, PeriodsAreFinite DEF NoticeRow, Periods
    <2>3. MailIsCharged'
      BY <1>1, <1>2, <2>1, RowInOrder DEF Row
    <2> QED  BY <1>1, <1>2, <2>1, <2>2, <2>3, LifecycleInOrder DEF OInv
  <1>6. CASE \E k \in Notices : ReadsFamily(k) \/ Fails(k) \/ Dies(k)
    <2>1. UNCHANGED <<apple, fetched, orders, sub>>
          /\ \E k \in Notices : \E status, read :
               notice' = [notice EXCEPT ![k].status = status, ![k].read = read]
      BY <1>6 DEF ReadsFamily, Fails, Dies, Row, db
    <2>2. MailIsCharged'
      BY <1>1, <1>2, <2>1, RowInOrder
    <2> QED  BY <1>3, <2>1, <2>2 DEF OInv
  <1>7. ASSUME NEW p \in Periods, ClientAsks(p) PROVE OInv'
    <2>1. UNCHANGED <<apple, notice, orders, sub>> /\ period[p].state = "paid"
          /\ fetched' = [tx |-> p, end |-> period[p].end, signed |-> 2 * Len(notice) + 1]
      BY <1>7 DEF ClientAsks, db
    <2>2. fetched'.tx = p /\ period' = period /\ notice' = notice
      BY <2>1 DEF apple
    <2>3. MailIsCharged'
      BY <1>1, <2>1, <2>2 DEF MailIsCharged, Charged, Notices
    <2> QED  BY <1>3, <2>1, <2>3 DEF OInv
  <1>8. CASE ClientRecords
    <2>1. UNCHANGED <<apple, notice>> /\ fetched # NoFetch /\ fetched' = NoFetch
      BY <1>8 DEF ClientRecords
    <2>2. MailIsCharged' /\ PeriodsInOrder'
      BY <1>1, <1>2, <2>1 DEF MailIsCharged, Charged, Notices
    <2>3. CASE UNCHANGED db
      BY <1>3, <2>1, <2>2, <2>3 DEF OInv, db
    <2>4. CASE ~UNCHANGED db
      <3>1. /\ ~Recorded(fetched.tx) /\ ~StaleCharge(fetched.tx, fetched.signed)
            /\ GrantsPeriod(fetched.tx, fetched.end, fetched.signed)
        BY <1>8, <2>4 DEF ClientRecords
      <3>2. PICK p \in Periods : p = fetched.tx /\ Charged(p)
        BY <1>1, <2>1 DEF MailFits, MailIsCharged
      <3>3. orders' = [orders EXCEPT ![p] = Order(fetched.end, fetched.signed)]
            /\ sub'.current \in {p, sub.current}
        BY <3>1, <3>2 DEF GrantsPeriod, Current
      <3>4. OrdersInOrder'
        BY <1>2, <2>1, <3>1, <3>2, <3>3, OrdersGrow
      <3> QED  BY <2>2, <3>4 DEF OInv
    <2> QED  BY <2>3, <2>4
  <1>9. CASE Refreshes
    <2>1. UNCHANGED <<apple, notice, fetched, orders>>
          /\ (sub' = sub \/ sub' = [sub EXCEPT !.status = "expired"])
      BY <1>9 DEF Refreshes
    <2>2. sub'.current = sub.current
      BY <1>1, <2>1 DEF SubRow
    <2>3. OrdersInOrder' /\ PeriodsInOrder'
      BY <1>1, <1>2, <2>1, <2>2, OrdersStay DEF Recorded
    <2>4. MailIsCharged'
      BY <1>1, <1>2, <2>1 DEF MailIsCharged, Charged, Notices
    <2> QED  BY <2>3, <2>4 DEF OInv
  <1>10. CASE Deletes \/ UNCHANGED vars
    <2>1. UNCHANGED <<apple, notice, fetched, orders, sub>>
      BY <1>10 DEF Deletes, vars, db
    <2>2. MailIsCharged'
      BY <1>1, <1>2, <2>1 DEF MailIsCharged, Charged, Notices
    <2> QED  BY <1>3, <2>1, <2>2 DEF OInv
  <1> QED  BY <1>4, <1>5, <1>6, <1>7, <1>8, <1>9, <1>10, AppleInOrder DEF Next

---------------------------------------------------------------------------
(* No way back to an older period. *)

GoesBack(p, q) ==
  sub.current = q /\ user.order = q /\ user'.order = p /\ p < q

LEMMA NewerStep ==
  ASSUME IInv, OInv, [Next]_vars, NEW p \in Periods, NEW q \in Periods, GoesBack(p, q)
  PROVE  "lapsed" \in {grants[p], grants'[q]} \/ grants[q] # "active"
PROOF
  <1>1. /\ MailFits /\ AppleFits /\ PeriodsInOrder /\ MailIsCharged /\ OrdersInOrder /\ DbTyped
        /\ user \in UserRow /\ grants \in [Periods -> GrantStates] /\ p # q /\ p \in Nat /\ q \in Nat
        /\ \A k \in Notices : notice[k] \in NoticeRow
    BY NoticeFits, PeriodsAreFinite DEF IInv, OInv, DbFits, DbTyped, GoesBack, Periods
  <1>2. user'.order = p /\ user'.order # user.order /\ user' # user /\ p # 0
    BY <1>1, PeriodsAreFinite DEF GoesBack, Periods
  <1>3. ASSUME NEW end, NEW signed, NEW x \in Periods, ~StaleCharge(x, signed),
               GrantsPeriod(x, end, signed)
        PROVE  FALSE
    <2>1. user'.order = x
      BY <1>1, <1>3 DEF GrantsPeriod, UserRow
    <2> QED  BY <1>1, <1>2, <1>3, <2>1, ChargeIsNewer DEF GoesBack
  <1>4. CASE ClientRecords
    <2>1. /\ ~StaleCharge(fetched.tx, fetched.signed) /\ fetched # NoFetch
          /\ GrantsPeriod(fetched.tx, fetched.end, fetched.signed)
      BY <1>2, <1>4 DEF ClientRecords, db
    <2>2. fetched.tx \in Periods
      BY <1>1, <2>1 DEF MailFits
    <2> QED  BY <1>3, <2>1, <2>2
  <1>5. ASSUME NEW k \in Notices, AppliesCharge(notice[k], Signed(k)) PROVE FALSE
    <2>1. notice[k].tx \in Periods
      BY <1>1 DEF NoticeRow
    <2>2. /\ ~StaleCharge(notice[k].tx, Signed(k))
          /\ GrantsPeriod(notice[k].tx, notice[k].end, Signed(k))
      BY <1>2, <1>5 DEF AppliesCharge, ConfirmsCharge, KeepsLedger, db
    <2> QED  BY <1>3, <2>1, <2>2
  <1>6. ASSUME NEW k \in Notices, AppliesStatus(notice[k], Signed(k))
        PROVE  grants[q] # "active"
    <2> DEFINE n == notice[k]
    <2>1. n.tx \in Periods
      BY <1>1 DEF NoticeRow
    <2> HIDE DEF n
    <2>2. Restores(n, Signed(k)) \/ Ends(n, Signed(k))
      BY <1>2, <1>6 DEF AppliesStatus, RecordsForDeleted, db, n
    <2>3. CASE Restores(n, Signed(k))
      <3>1. Active \ {n.tx} = {} /\ user' = [user EXCEPT !.plan = "apple", !.order = n.tx]
        BY <1>2, <2>3 DEF Restores
      <3>2. n.tx = p
        BY <1>1, <1>2, <3>1 DEF UserRow
      <3> QED  BY <1>1, <3>1, <3>2 DEF Active
    <2>4. CASE Ends(n, Signed(k))
      <3>1. user' = FallsBack
        BY <1>2, <2>4 DEF Ends
      <3>2. user'.order \in {0, user.order}
        BY <1>1, <3>1 DEF FallsBack, UserRow
      <3> QED  BY <1>2, <3>2
    <2> QED  BY <2>2, <2>3, <2>4
  <1>7. ASSUME NEW k \in Notices, AppliesLifecycle(notice[k], Signed(k), notice[k].read)
        PROVE  grants[p] = "lapsed"
    <2> DEFINE n == notice[k]
               f == notice[k].read
    <2>1. Recovers(n, f) /\ user' = [user EXCEPT !.plan = "apple", !.order = f]
      BY <1>2, <1>7 DEF AppliesLifecycle, db
    <2>2. f = p
      BY <1>1, <1>2, <2>1 DEF UserRow
    <2> QED  BY <2>1, <2>2 DEF Recovers, GrantSeen
  <1>8. ASSUME Refreshes, grants[q] = "active" PROVE grants'[q] = "lapsed"
    <2> DEFINE live == {x \in Active : InForce(x)}
    <2>1. /\ grants' = [x \in Periods |-> IF x \in Active \ live THEN "lapsed" ELSE grants[x]]
          /\ user' = IF live # {}
                     THEN [user EXCEPT !.plan = "apple", !.order = Newest(live)]
                     ELSE [user EXCEPT !.plan = FallbackPlan(other), !.order = 0]
      BY <1>8 DEF Refreshes
    <2>2. q \in Active /\ live \in SUBSET Periods
      BY <1>8 DEF Active
    <2> HIDE DEF live
    <2>3. CASE q \notin live
      BY <2>1, <2>2, <2>3
    <2>4. CASE q \in live
      <3>1. user' = [user EXCEPT !.plan = "apple", !.order = Newest(live)]
        BY <2>1, <2>4
      <3>2. p = Newest(live)
        BY <1>1, <1>2, <3>1 DEF UserRow
      <3>3. p \in live /\ orders[q].made =< orders[p].made
        BY <1>1, <2>2, <2>4, <3>2, NewestIsOne
      <3>4. orders[p].made < orders[q].made
        BY <1>1 DEF OrdersInOrder, GoesBack
      <3>5. orders[p].made \in Nat /\ orders[q].made \in Nat
        BY <1>1 DEF DbTyped, OrderRow
      <3> QED  BY <3>3, <3>4, <3>5
    <2> QED  BY <2>3, <2>4
  <1>9. user' = user \/ Refreshes \/ Deletes \/ ClientRecords
        \/ \E k \in Notices : \/ AppliesCharge(notice[k], Signed(k))
                               \/ AppliesStatus(notice[k], Signed(k))
                               \/ AppliesLifecycle(notice[k], Signed(k), notice[k].read)
    <2>1. ASSUME NEW k \in Notices, NEW status, Handles(k, status)
          PROVE  AppliesCharge(notice[k], Signed(k)) \/ AppliesStatus(notice[k], Signed(k))
      BY <2>1 DEF Handles
    <2>2. ASSUME NEW k \in Notices, NEW status, HandlesLifecycle(k, status)
          PROVE  AppliesLifecycle(notice[k], Signed(k), notice[k].read)
      BY <2>2 DEF HandlesLifecycle
    <2>3. ASSUME NEW k \in Notices, ReadsFamily(k) \/ Fails(k) \/ Dies(k) PROVE user' = user
      BY <2>3 DEF ReadsFamily, Fails, Dies, db
    <2>4. ASSUME AppleNext \/ (\E x \in Periods : ClientAsks(x)) \/ UNCHANGED vars
          PROVE  user' = user
      BY <2>4 DEF AppleNext, ClientAsks, vars, db
    <2> QED  BY <2>1, <2>2, <2>3, <2>4 DEF Next
  <1>10. ~Deletes
    BY <1>2 DEF Deletes
  <1> QED  BY <1>2, <1>4, <1>5, <1>6, <1>7, <1>8, <1>9, <1>10

(* While the subscription's row and the user are on one period, no older   *)
(* charge, held answer or reversed refund takes the user back, in whatever *)
(* order they are handled (isAppleLifecycleUpdateStale and the ordering of *)
(* postgresResolveActivePlan).                                             *)
THEOREM NoWayBack == Spec => NewerPeriodWins
PROOF
  <1>1. Spec => [](IInv /\ OInv)
    <2>1. IInv /\ OInv /\ [Next]_vars => OInv'
      BY StepInOrder
    <2>2. Init => OInv
      BY InitInOrder
    <2> QED  BY <2>1, <2>2, Inductive, PTL DEF Spec
  <1> DEFINE Wins == \A p, q \in Periods :
                       sub.current = q /\ user.order = q /\ user'.order = p /\ p < q
                         => "lapsed" \in {grants[p], grants'[q]} \/ grants[q] # "active"
  <1>2. IInv /\ OInv /\ [Next]_vars => [Wins]_vars
    BY NewerStep DEF GoesBack
  <1> HIDE DEF Wins
  <1>3. Spec => [][Wins]_vars
    BY <1>1, <1>2, PTL DEF Spec
  <1> QED  BY <1>3 DEF NewerPeriodWins, Wins

---------------------------------------------------------------------------
(* One grant at a time, while notifications are applied in order.          *)

ChargeOf(c, p) == notice[c].kind = "charge" /\ notice[c].tx = p
Processed(k) == notice[k].status = "processed"

(* A charge that is recorded, or stale for good. *)
Done(p) == Recorded(p) \/ p < sub.current

(* Apple tells of a charge before it tells anything else of it, a client's *)
(* answer is signed after that, and only a lifecycle notification whose    *)
(* row says received has read the family's order.                          *)
MailInOrder ==
  /\ \A p \in Periods : Charged(p) => \E c \in Notices : ChargeOf(c, p)
  /\ \A k \in Notices : \E c \in Notices : ChargeOf(c, notice[k].tx) /\ c =< k
  /\ fetched # NoFetch =>
       \E c \in Notices : ChargeOf(c, fetched.tx) /\ Signed(c) < fetched.signed
  /\ \A k \in Notices : notice[k].read # 0 =>
       notice[k].status = "received" /\ notice[k].kind \in LifecycleKinds
  /\ sub.signed =< 2 * Len(notice) + 1 /\ fetched.signed =< 2 * Len(notice) + 1

(* What was applied in order: a charge that is processed, or signed before *)
(* the row, is done with; no order is newer than the current transaction,  *)
(* and what came before its charge about another is processed; so is what  *)
(* came before a notification that has read the family's order, which is   *)
(* that of the current transaction.                                        *)
Came(q) ==
  \E c \in Notices : /\ ChargeOf(c, q)
                     /\ \A j \in Notices : j < c /\ notice[j].tx # q => Processed(j)

AppliedInOrder ==
  /\ \A c \in Notices : /\ notice[c].kind = "charge"
                        /\ Processed(c) \/ Signed(c) < sub.signed
                        => Done(notice[c].tx)
  /\ \A q \in Periods : Recorded(q) => q =< sub.current /\ Came(q)
  /\ \A k \in Notices : notice[k].read # 0 =>
       notice[k].read = sub.current /\ \A j \in Notices : j < k => Processed(j)

(* An account that is not deleted has no grant but the current one. *)
OnlyCurrent ==
  /\ \A p, q \in Active : p = q
  /\ ~user.deleted => Active \subseteq {sub.current}

AInv ==
  /\ MailInOrder
  /\ inOrder => AppliedInOrder
  /\ inOrder /\ ~OldRestored => OnlyCurrent

(* What a step keeps of the notifications. *)
NoticesKept ==
  /\ Notices \subseteq Notices'
  /\ \A k \in Notices : /\ notice'[k].kind = notice[k].kind /\ notice'[k].tx = notice[k].tx
                        /\ Processed(k) => Processed(k)'

LEMMA ChargesKept ==
  ASSUME NoticesKept, NEW c \in Notices, NEW p
  PROVE  ChargeOf(c, p)' <=> ChargeOf(c, p)
PROOF
  BY DEF NoticesKept, ChargeOf

LEMMA NoticesNumbered ==
  ASSUME MailFits
  PROVE  /\ Len(notice) \in Nat
         /\ \A k \in Notices : k \in Nat /\ k =< Len(notice) /\ Signed(k) \in Nat
                               /\ Signed(k) =< 2 * Len(notice)
PROOF
  <1>1. Len(notice) \in Nat
    BY DEF MailFits
  <1> QED  BY <1>1 DEF Notices, Signed

(* A notification is added. *)
LEMMA NoticeAdded ==
  ASSUME MailFits, NEW kind, NEW p, Notify(kind, p)
  PROVE  /\ NoticesKept /\ \A k \in Notices : notice'[k] = notice[k]
         /\ Len(notice') = Len(notice) + 1
         /\ Notices' = Notices \cup {Len(notice')}
         /\ notice'[Len(notice')].kind = kind /\ notice'[Len(notice')].tx = p
         /\ notice'[Len(notice')].read = 0 /\ notice'[Len(notice')].status = "owed"
PROOF
  <1> DEFINE n == [kind |-> kind, tx |-> p, end |-> period'[p].end,
                   grace |-> phase'.grace, status |-> "owed", read |-> 0]
  <1>1. notice' = Append(notice, n) /\ notice \in Seq(NoticeRow) /\ Len(notice) \in Nat
    BY DEF Notify, MailFits
  <1>2. n.kind = kind /\ n.tx = p /\ n.read = 0 /\ n.status = "owed"
    OBVIOUS
  <1> HIDE DEF n
  <1>3. Len(notice') = Len(notice) + 1 /\ notice'[Len(notice')] = n
        /\ \A k \in Notices : notice'[k] = notice[k]
    BY <1>1 DEF Notices
  <1>4. Notices' = Notices \cup {Len(notice')}
    BY <1>1, <1>3 DEF Notices
  <1> QED  BY <1>1, <1>2, <1>3, <1>4 DEF NoticesKept, Processed

LEMMA NotifyTold ==
  ASSUME MailFits, DbTyped, MailInOrder, NEW kind \in Kinds, NEW p \in Periods, Notify(kind, p),
         kind = "charge" \/ Charged(p),
         \A x \in Periods : Charged(x)' => Charged(x) \/ (kind = "charge" /\ x = p),
         UNCHANGED <<fetched, sub>>
  PROVE  MailInOrder'
PROOF
  <1>0. PICK t : t = Len(notice')
    OBVIOUS
  <1>1. /\ NoticesKept /\ t = Len(notice) + 1 /\ Notices' = Notices \cup {t}
        /\ \A k \in Notices : notice'[k] = notice[k]
        /\ notice'[t].kind = kind /\ notice'[t].tx = p /\ notice'[t].read = 0
    BY <1>0, NoticeAdded
  <1>2. Len(notice) \in Nat /\ \A k \in Notices : k \in Nat /\ k =< Len(notice)
    BY NoticesNumbered
  <1>3. \A c \in Notices : \A x : ChargeOf(c, x) => c \in Notices' /\ ChargeOf(c, x)'
    BY <1>1, ChargesKept
  <1>4. t \in Notices' /\ (kind = "charge" => ChargeOf(t, p)')
    BY <1>1 DEF ChargeOf
  <1>5. \A x \in Periods : Charged(x)' => \E c \in Notices' : ChargeOf(c, x)'
    BY <1>3, <1>4 DEF MailInOrder
  <1>6. ASSUME NEW k \in Notices'
        PROVE  \E c \in Notices' : ChargeOf(c, notice[k].tx)' /\ c =< k
    <2>1. CASE k \in Notices
      <3>1. PICK c \in Notices : ChargeOf(c, notice[k].tx) /\ c =< k
        BY <2>1 DEF MailInOrder
      <3>2. ChargeOf(c, notice'[k].tx)
        BY <1>1, <2>1, <3>1
      <3> QED  BY <1>3, <3>1, <3>2
    <2>2. CASE k = t
      <3>1. CASE kind = "charge"
        BY <1>1, <1>2, <1>4, <2>2, <3>1
      <3>2. CASE Charged(p)
        <4>1. PICK c \in Notices : ChargeOf(c, p)
          BY <3>2 DEF MailInOrder
        <4> QED  BY <1>1, <1>2, <1>3, <2>2, <4>1
      <3> QED  BY <3>1, <3>2
    <2> QED  BY <1>1, <2>1, <2>2
  <1>7. fetched' # NoFetch =>
          \E c \in Notices' : ChargeOf(c, fetched.tx)' /\ Signed(c) < fetched'.signed
    <2>1. fetched # NoFetch =>
            \E c \in Notices : ChargeOf(c, fetched.tx) /\ Signed(c) < fetched.signed
      BY DEF MailInOrder
    <2> QED  BY <1>3, <2>1
  <1>8. \A k \in Notices' : notice'[k].read # 0 =>
          notice'[k].status = "received" /\ notice'[k].kind \in LifecycleKinds
    BY <1>1 DEF MailInOrder
  <1>9. sub'.signed =< 2 * t + 1 /\ fetched'.signed =< 2 * t + 1
    <2>1. sub.signed \in Nat /\ fetched.signed \in Nat
      BY DEF DbTyped, SubRow, MailFits, FetchRow
    <2> QED  BY <1>1, <1>2, <2>1 DEF MailInOrder
  <1> QED  BY <1>0, <1>5, <1>6, <1>7, <1>8, <1>9 DEF MailInOrder, Signed

(* A step that adds none. *)
LEMMA MailStays ==
  ASSUME MailFits, MailInOrder, NoticesKept, Notices' = Notices, Len(notice') = Len(notice),
         \A x \in Periods : Charged(x)' => Charged(x),
         fetched' \in {fetched, NoFetch}, sub'.signed =< 2 * Len(notice) + 1,
         \A k \in Notices : notice'[k].read # 0 =>
           notice'[k].status = "received" /\ notice'[k].kind \in LifecycleKinds
  PROVE  MailInOrder'
PROOF
  <1>1. \A c \in Notices : \A x : ChargeOf(c, x) <=> ChargeOf(c, x)'
    BY ChargesKept
  <1>2. \A x \in Periods : Charged(x)' => \E c \in Notices' : ChargeOf(c, x)'
    BY <1>1 DEF MailInOrder
  <1>3. ASSUME NEW k \in Notices'
        PROVE  \E c \in Notices' : ChargeOf(c, notice[k].tx)' /\ c =< k
    <2>1. PICK c \in Notices : ChargeOf(c, notice[k].tx) /\ c =< k
      BY DEF MailInOrder
    <2>2. notice'[k].tx = notice[k].tx
      BY DEF NoticesKept
    <2> QED  BY <1>1, <2>1, <2>2
  <1>4. fetched' # NoFetch =>
          \E c \in Notices' : ChargeOf(c, fetched.tx)' /\ Signed(c) < fetched'.signed
    <2>1. fetched # NoFetch =>
            \E c \in Notices : ChargeOf(c, fetched.tx) /\ Signed(c) < fetched.signed
      BY DEF MailInOrder
    <2>2. fetched' # NoFetch => fetched' = fetched
      OBVIOUS
    <2> QED  BY <1>1, <2>1, <2>2
  <1>5. fetched'.signed =< 2 * Len(notice) + 1
    <2>1. NoFetch.signed = 0 /\ Len(notice) \in Nat
      BY NoticesNumbered DEF NoFetch
    <2> QED  BY <2>1 DEF MailInOrder
  <1> QED  BY <1>2, <1>3, <1>4, <1>5 DEF MailInOrder, Signed

(* A claimed notification keeps its place; a processed one is never        *)
(* claimed again.                                                          *)
LEMMA RowKept ==
  ASSUME MailFits, NEW k \in Notices, Claimable(k), NEW status, NEW read,
         notice' = [notice EXCEPT ![k].status = status, ![k].read = read]
  PROVE  /\ NoticesKept /\ Notices' = Notices /\ Len(notice') = Len(notice)
         /\ \A j \in Notices : j # k => notice'[j] = notice[j]
         /\ notice'[k].status = status /\ notice'[k].read = read
PROOF
  <1>1. notice \in Seq(NoticeRow) /\ \A j \in Notices : notice[j] \in NoticeRow
    BY NoticeFits DEF MailFits
  <1>2. Notices' = Notices /\ Len(notice') = Len(notice)
    BY <1>1 DEF Notices
  <1>3. \A j \in Notices : j # k => notice'[j] = notice[j]
    BY <1>1 DEF Notices
  <1>4. /\ notice'[k].status = status /\ notice'[k].read = read
        /\ notice'[k].kind = notice[k].kind /\ notice'[k].tx = notice[k].tx
    BY <1>1 DEF Notices, NoticeRow
  <1>5. ~Processed(k)
    BY DEF Claimable, Processed
  <1>6. \A j \in Notices : /\ notice'[j].kind = notice[j].kind /\ notice'[j].tx = notice[j].tx
                           /\ Processed(j) => Processed(j)'
    BY <1>3, <1>4, <1>5 DEF Processed
  <1>7. NoticesKept
    BY <1>2, <1>6 DEF NoticesKept
  <1> QED  BY <1>2, <1>3, <1>4, <1>7

LEMMA NoticesStay ==
  ASSUME notice' = notice
  PROVE  NoticesKept /\ Notices' = Notices /\ Len(notice') = Len(notice)
PROOF
  BY DEF NoticesKept, Notices, Processed

(* The row takes the signed date of what is applied, or keeps its own. *)
LEMMA GrantSigns ==
  ASSUME NEW p, NEW end, NEW signed, GrantsPeriod(p, end, signed)
  PROVE  sub'.signed \in {sub.signed, signed}
PROOF
  BY DEF GrantsPeriod, Current

LEMMA ChargeSigns ==
  ASSUME DbTyped, NEW n, NEW signed, AppliesCharge(n, signed)
  PROVE  sub'.signed \in {sub.signed, signed}
PROOF
  <1>1. sub \in SubRow
    BY DEF DbTyped
  <1>2. CASE Recorded(n.tx)
    BY <1>1, <1>2 DEF AppliesCharge, ConfirmsCharge, SubRow
  <1>3. CASE ~Recorded(n.tx)
    BY <1>3, GrantSigns DEF AppliesCharge, KeepsLedger, Current, db
  <1> QED  BY <1>2, <1>3

(* A status has a recorded order. *)
LEMMA StatusIsRecorded ==
  ASSUME MailFits, NEW k \in Notices, Known(notice[k]),
         notice[k].kind \notin LifecycleKinds, notice[k].kind # "charge"
  PROVE  notice[k] \in NoticeRow /\ Recorded(notice[k].tx)
PROOF
  <1>1. notice[k] \in NoticeRow
    BY NoticeFits
  <1>2. notice[k].kind \in StatusKinds
    BY <1>1 DEF NoticeRow, Kinds
  <1> QED  BY <1>1, <1>2 DEF Known, StatusKinds, LifecycleKinds

LEMMA AppleTold ==
  ASSUME IInv, OInv, MailInOrder, AppleNext
  PROVE  MailInOrder'
PROOF
  <1>1. UNCHANGED <<fetched, asked, other, db, inOrder>> /\ UNCHANGED <<fetched, sub>>
        /\ MailFits /\ DbTyped /\ AppleFits /\ PeriodsInOrder
    BY DEF AppleNext, db, IInv, OInv, DbFits
  <1>2. period \in [Periods -> PeriodRow] /\ Last \in 0..MaxPeriods /\ MaxPeriods \in Nat
    BY <1>1, LastFits DEF AppleFits
  <1>3. ASSUME Last > 0 PROVE Last \in Periods /\ Charged(Last)
    BY <1>1, <1>2, <1>3 DEF Periods, PeriodsInOrder
  <1>4. ASSUME NEW p \in Periods, Charged(p), NEW kind \in Kinds, Notify(kind, p),
               \A q \in Periods : period'[q].state # "none" => period[q].state # "none"
        PROVE  MailInOrder'
    <2>1. \A q \in Periods : Charged(q)' => Charged(q)
      BY <1>4 DEF Charged
    <2> QED  BY <1>1, <1>4, <2>1, NotifyTold
  <1>5. CASE Charges
    <2>1. PICK t \in Periods : t = Last + 1 /\ Notify("charge", t)
      BY <1>2, <1>5 DEF Charges, Periods
    <2>2. \A q \in Periods : q # t => period'[q] = period[q]
      BY <1>2, <1>5, <2>1 DEF Charges
    <2>3. \A q \in Periods : Charged(q)' => Charged(q) \/ q = t
      BY <2>2 DEF Charged
    <2>4. "charge" \in Kinds
      BY DEF Kinds
    <2> QED  BY <1>1, <2>1, <2>3, <2>4, NotifyTold
  <1>6. CASE FailsToCharge \/ Expires \/ ChangesRenewal
    <2>1. /\ Last > 0 /\ UNCHANGED period
          /\ \E kind \in Kinds : Notify(kind, Last)
      BY <1>6 DEF FailsToCharge, Expires, ChangesRenewal, Running, apple, Kinds,
         LifecycleKinds, StatusKinds
    <2> QED  BY <1>3, <1>4, <2>1
  <1>7. CASE Extends
    <2>1. /\ Last > 0 /\ \E kind \in Kinds : Notify(kind, Last)
          /\ period' = [period EXCEPT ![Last].end = @ + 1]
      BY <1>7 DEF Extends, Running, Kinds, LifecycleKinds
    <2>2. \A q \in Periods : period'[q].state # "none" => period[q].state # "none"
      BY <1>2, <1>3, <2>1 DEF PeriodRow
    <2> QED  BY <1>3, <1>4, <2>1, <2>2
  <1>8. CASE Tick
    <2>1. UNCHANGED <<period, notice>>
      BY <1>8 DEF Tick
    <2>2. \A q \in Periods : Charged(q)' => Charged(q)
      BY <2>1 DEF Charged
    <2> QED  BY <1>1, <2>1, <2>2, MailStays, NoticesStay DEF MailInOrder
  <1>9. ASSUME NEW p \in Periods, Refunds(p) \/ ReversesRefund(p) PROVE MailInOrder'
    <2>1. PICK state \in {"paid", "refunded"} :
            period' = [period EXCEPT ![p].state = state]
      BY <1>9 DEF Refunds, ReversesRefund
    <2>2. Charged(p) /\ \E kind \in Kinds : Notify(kind, p)
      BY <1>9 DEF Refunds, ReversesRefund, Charged, Kinds, StatusKinds
    <2>3. \A q \in Periods : period'[q].state # "none" => period[q].state # "none"
      BY <1>2, <2>1, <2>2 DEF PeriodRow, Charged
    <2> QED  BY <1>4, <2>2, <2>3
  <1> QED  BY <1>5, <1>6, <1>7, <1>8, <1>9 DEF AppleNext

LEMMA MailStep ==
  ASSUME IInv, OInv, MailInOrder, [Next]_vars
  PROVE  MailInOrder'
PROOF
  <1>1. MailFits /\ DbTyped /\ MailIsCharged /\ Len(notice) \in Nat
        /\ sub.signed =< 2 * Len(notice) + 1
        /\ (\A k \in Notices : k \in Nat /\ Signed(k) \in Nat /\ Signed(k) =< 2 * Len(notice))
        /\ (\A k \in Notices : notice[k] \in NoticeRow)
    BY NoticesNumbered, NoticeFits DEF IInv, DbFits, OInv, MailInOrder
  <1>2. ASSUME UNCHANGED apple PROVE \A x \in Periods : Charged(x)' => Charged(x)
    BY <1>2 DEF apple, Charged
  <1>3. ASSUME UNCHANGED <<apple, fetched>>, NEW k \in Notices, Claimable(k),
               NEW status, NEW read,
               notice' = [notice EXCEPT ![k].status = status, ![k].read = read],
               read # 0 => status = "received" /\ notice[k].kind \in LifecycleKinds,
               sub'.signed \in {sub.signed, Signed(k)}
        PROVE  MailInOrder'
    <2>1. /\ NoticesKept /\ Notices' = Notices /\ Len(notice') = Len(notice)
          /\ \A j \in Notices : j # k => notice'[j] = notice[j]
          /\ notice'[k].status = status /\ notice'[k].read = read
      BY <1>1, <1>3, RowKept
    <2>2. ASSUME NEW j \in Notices, notice'[j].read # 0
          PROVE  notice'[j].status = "received" /\ notice'[j].kind \in LifecycleKinds
      <3>1. notice'[j].kind = notice[j].kind
        BY <2>1 DEF NoticesKept
      <3>2. CASE j = k
        BY <1>3, <2>1, <2>2, <3>1, <3>2
      <3>3. CASE j # k
        <4>1. notice'[j] = notice[j]
          BY <2>1, <3>3
        <4> QED  BY <2>2, <3>1, <4>1 DEF MailInOrder
      <3> QED  BY <3>2, <3>3
    <2>3. sub'.signed =< 2 * Len(notice) + 1
      BY <1>1, <1>3
    <2> QED  BY <1>1, <1>2, <1>3, <2>1, <2>2, <2>3, MailStays
  <1>4. ASSUME NEW k \in Notices, NEW status \in {"processed", "received"}, Handles(k, status)
        PROVE  MailInOrder'
    <2>1. /\ UNCHANGED <<apple, fetched>> /\ Claimable(k) /\ Known(notice[k])
          /\ notice[k].kind \notin LifecycleKinds
          /\ notice' = [notice EXCEPT ![k].status = status, ![k].read = 0]
          /\ IF notice[k].kind = "charge" THEN AppliesCharge(notice[k], Signed(k))
             ELSE AppliesStatus(notice[k], Signed(k))
      BY <1>4 DEF Handles, Row
    <2>2. sub'.signed \in {sub.signed, Signed(k)}
      BY <1>1, <2>1, ChargeSigns, StatusIsRecorded, StatusKeeps
    <2> QED  BY <1>3, <2>1, <2>2
  <1>5. ASSUME NEW k \in Notices, NEW status \in {"processed", "received"},
               HandlesLifecycle(k, status)
        PROVE  MailInOrder'
    <2>1. /\ UNCHANGED <<apple, fetched>> /\ notice[k].read # 0
          /\ notice' = [notice EXCEPT ![k].status = status, ![k].read = 0]
          /\ AppliesLifecycle(notice[k], Signed(k), notice[k].read)
      BY <1>5 DEF HandlesLifecycle, Row
    <2>2. notice[k].read \in Periods
      <3>1. notice[k].read \in 0..MaxPeriods
        BY <1>1 DEF NoticeRow
      <3> QED  BY <2>1, <3>1, PeriodsAreFinite DEF Periods
    <2>4. Claimable(k)
      BY <2>1 DEF MailInOrder, Claimable
    <2>3. sub'.signed \in {sub.signed, Signed(k)}
      BY <1>1, <2>1, <2>2, LifecycleKeeps
    <2> QED  BY <1>3, <2>1, <2>3, <2>4
  <1>6. ASSUME NEW k \in Notices, ReadsFamily(k) \/ Fails(k) \/ Dies(k) PROVE MailInOrder'
    <2>1. UNCHANGED <<apple, fetched, sub>> /\ Claimable(k)
      BY <1>6 DEF ReadsFamily, Fails, Dies, db
    <2>2. PICK status, read :
            /\ notice' = [notice EXCEPT ![k].status = status, ![k].read = read]
            /\ read # 0 => status = "received" /\ notice[k].kind \in LifecycleKinds
      BY <1>6 DEF ReadsFamily, Fails, Dies, Row
    <2> QED  BY <1>3, <2>1, <2>2
  <1>7. ASSUME NEW p \in Periods, ClientAsks(p) PROVE MailInOrder'
    <2>1. /\ UNCHANGED <<apple, notice, sub>> /\ period[p].state = "paid"
          /\ fetched' = [tx |-> p, end |-> period[p].end, signed |-> 2 * Len(notice) + 1]
      BY <1>7 DEF ClientAsks, db
    <2>2. PICK c \in Notices : ChargeOf(c, p)
      BY <2>1 DEF MailInOrder, Charged
    <2>3. Signed(c) < fetched'.signed /\ fetched'.tx = p
          /\ fetched'.signed = 2 * Len(notice) + 1
      BY <1>1, <2>1
    <2>4. \A j \in Notices : notice'[j] = notice[j]
      BY <2>1
    <2>5. \A j \in Notices : \A x : ChargeOf(j, x)' <=> ChargeOf(j, x)
      BY <2>4 DEF ChargeOf
    <2>6. Notices' = Notices /\ Len(notice') = Len(notice)
      BY <2>1 DEF Notices
    <2>7. \A x \in Periods : Charged(x)' => \E j \in Notices' : ChargeOf(j, x)'
      BY <1>2, <2>1, <2>5, <2>6 DEF MailInOrder
    <2>8. \A j \in Notices' : \E i \in Notices' : ChargeOf(i, notice[j].tx)' /\ i =< j
      BY <2>1, <2>5, <2>6 DEF MailInOrder, ChargeOf
    <2>9. \E i \in Notices' : ChargeOf(i, fetched.tx)' /\ Signed(i) < fetched'.signed
      BY <2>2, <2>3, <2>4, <2>6 DEF ChargeOf
    <2>10. \A j \in Notices' : notice'[j].read # 0 =>
             notice'[j].status = "received" /\ notice'[j].kind \in LifecycleKinds
      BY <2>1, <2>4, <2>6 DEF MailInOrder
    <2>11. sub'.signed =< 2 * Len(notice') + 1
      BY <1>1, <2>1, <2>6
    <2>12. fetched'.signed =< 2 * Len(notice') + 1
      BY <1>1, <2>3, <2>6
    <2> QED  BY <2>7, <2>8, <2>9, <2>10, <2>11, <2>12 DEF MailInOrder, Signed
  <1>8. CASE ClientRecords
    <2>1. UNCHANGED <<apple, notice>> /\ fetched' = NoFetch
          /\ (UNCHANGED db \/ GrantsPeriod(fetched.tx, fetched.end, fetched.signed))
      BY <1>8 DEF ClientRecords
    <2>2. sub'.signed \in {sub.signed, fetched.signed}
      BY <2>1, GrantSigns DEF db
    <2>3. sub'.signed =< 2 * Len(notice) + 1
      BY <2>2 DEF MailInOrder
    <2> QED  BY <1>1, <1>2, <2>1, <2>3, MailStays, NoticesStay DEF MailInOrder
  <1>9. CASE Refreshes \/ Deletes \/ UNCHANGED vars
    <2>1. UNCHANGED <<apple, notice, fetched>>
          /\ (sub' = sub \/ sub' = [sub EXCEPT !.status = "expired"])
      BY <1>9 DEF Refreshes, Deletes, vars, db
    <2>2. sub'.signed = sub.signed
      BY <1>1, <2>1 DEF DbTyped, SubRow
    <2> QED  BY <1>1, <1>2, <2>1, <2>2, MailStays, NoticesStay DEF MailInOrder
  <1> QED  BY <1>4, <1>5, <1>6, <1>7, <1>8, <1>9, AppleTold DEF Next

(* A step that makes no order: what it applies comes after what is         *)
(* processed.                                                              *)
LEMMA OrderKept ==
  ASSUME MailFits, DbTyped, AppliedInOrder, NoticesKept,
         \A k \in Notices' : k \in Notices
           \/ /\ notice'[k].read = 0 /\ notice'[k].status = "owed"
              /\ ~(Signed(k) < sub'.signed)
              /\ \A j \in Notices : ~(k < j),
         sub'.current = sub.current, \A p \in Periods : Recorded(p)' <=> Recorded(p),
         \A c \in Notices : notice[c].kind = "charge" /\ Processed(c)'
           => Processed(c) \/ Done(notice[c].tx),
         \A c \in Notices : Signed(c) < sub'.signed => Signed(c) < sub.signed \/ Processed(c),
         \A k \in Notices : notice'[k].read # 0 =>
           \/ notice'[k].read = notice[k].read
           \/ notice'[k].read = sub.current /\ \A j \in Notices : j < k => Processed(j)
  PROVE  AppliedInOrder'
PROOF
  <1>1. \A k \in Notices : notice[k].tx \in Periods
    BY NoticeFits DEF NoticeRow
  <1>2. ASSUME NEW c \in Notices', notice'[c].kind = "charge",
               Processed(c)' \/ Signed(c) < sub'.signed
        PROVE  Recorded(notice[c].tx)' \/ notice'[c].tx < sub'.current
    <2>1. c \in Notices
      BY <1>2 DEF Processed
    <2>2. notice'[c].tx = notice[c].tx /\ notice[c].kind = "charge"
      BY <1>2, <2>1 DEF NoticesKept
    <2>3. Processed(c) \/ Signed(c) < sub.signed \/ Done(notice[c].tx)
      BY <1>2, <2>1, <2>2
    <2>4. Done(notice[c].tx)
      BY <2>1, <2>2, <2>3 DEF AppliedInOrder
    <2>5. Recorded(notice[c].tx) => orders'[notice[c].tx].status # "none"
      BY <1>1, <2>1 DEF Recorded
    <2> QED  BY <2>2, <2>4, <2>5 DEF Done, Recorded
  <1>3. ASSUME NEW q \in Periods, Recorded(q)'
        PROVE  q =< sub'.current
               /\ \E c \in Notices' : /\ ChargeOf(c, q)'
                                      /\ \A j \in Notices' : j < c /\ notice'[j].tx # q
                                                               => Processed(j)'
    <2>1. q =< sub.current /\ Came(q)
      BY <1>3 DEF AppliedInOrder
    <2>2. PICK c \in Notices : /\ ChargeOf(c, q)
                               /\ \A j \in Notices : j < c /\ notice[j].tx # q => Processed(j)
      BY <2>1 DEF Came
    <2>3. c \in Notices' /\ ChargeOf(c, q)'
      BY <2>2, ChargesKept DEF NoticesKept
    <2>4. ASSUME NEW j \in Notices', j < c, notice'[j].tx # q PROVE Processed(j)'
      <3>1. j \in Notices
        BY <2>4
      <3> QED  BY <2>2, <2>4, <3>1 DEF NoticesKept
    <2> QED  BY <2>1, <2>3, <2>4
  <1>4. ASSUME NEW k \in Notices', notice'[k].read # 0
        PROVE  notice'[k].read = sub'.current /\ \A j \in Notices' : j < k => Processed(j)'
    <2>1. k \in Notices
      BY <1>4
    <2>2. notice'[k].read = sub.current /\ \A j \in Notices : j < k => Processed(j)
      BY <1>4, <2>1 DEF AppliedInOrder
    <2>3. \A j \in Notices' : j < k => j \in Notices
      BY <2>1
    <2> QED  BY <2>2, <2>3 DEF NoticesKept
  <1> QED  BY <1>2, <1>3, <1>4 DEF AppliedInOrder, Came, Done, Signed

(* While a charge that is not done with is applied in order, no            *)
(* notification has read the family's order.                               *)
LEMMA NoReader ==
  ASSUME MailFits, MailInOrder, AppliedInOrder, NEW p \in Periods, ~Done(p), NEW signed \in Nat,
         NEW c \in Notices, ChargeOf(c, p), Signed(c) =< signed,
         \A j \in Notices : Signed(j) < signed /\ notice[j].tx # p => Processed(j)
  PROVE  \A k \in Notices : notice[k].read = 0
PROOF
  <1> SUFFICES ASSUME NEW k \in Notices, notice[k].read # 0 PROVE FALSE
    OBVIOUS
  <1>1. notice[k].status = "received" /\ notice[k].kind # "charge"
        /\ \A j \in Notices : j < k => Processed(j)
    BY DEF MailInOrder, AppliedInOrder, LifecycleKinds
  <1>2. \A j \in Notices : j \in Nat /\ Signed(j) = 2 * j
    BY NoticesNumbered DEF Signed
  <1>3. ASSUME NEW d \in Notices, ChargeOf(d, p), d =< k PROVE FALSE
    <2>1. d < k
      BY <1>1, <1>2, <1>3 DEF ChargeOf
    <2> QED  BY <1>1, <1>3, <2>1 DEF AppliedInOrder, ChargeOf
  <1>4. CASE notice[k].tx = p
    BY <1>3, <1>4 DEF MailInOrder
  <1>5. CASE notice[k].tx # p
    <2>1. ~(Signed(k) < signed)
      BY <1>1, <1>5 DEF Processed
    <2>2. c =< k
      BY <1>2, <2>1
    <2> QED  BY <1>3, <2>2
  <1> QED  BY <1>4, <1>5

(* A new order becomes the current one.                                    *)
LEMMA OrderGrown ==
  ASSUME IInv, OInv, MailInOrder, AppliedInOrder, NoticesKept, Notices' = Notices,
         NEW p \in Periods, NEW end, NEW signed \in Nat,
         ~Recorded(p), ~StaleCharge(p, signed),
         orders' = [orders EXCEPT ![p] = Order(end, signed)],
         sub' \in {Current(p, end, signed),
                   IF sub.current = 0 \/ sub.signed =< signed
                   THEN Current(p, end, signed) ELSE sub},
         NEW c \in Notices, ChargeOf(c, p), Signed(c) =< signed,
         \A j \in Notices : Signed(j) < signed /\ notice[j].tx # p => Processed(j),
         \A d \in Notices : notice[d].kind = "charge" /\ Processed(d)'
           => Processed(d) \/ notice[d].tx = p,
         \A k \in Notices : notice'[k].read \in {0, notice[k].read}
  PROVE  AppliedInOrder' /\ sub'.current = p
PROOF
  <1>1. DbTyped /\ MailFits /\ OrdersInOrder /\ PeriodsInOrder /\ AppleFits
        /\ orders \in [Periods -> OrderRow] /\ p \in Nat
        /\ sub.current \in Nat /\ sub.signed \in Nat
        /\ (\A k \in Notices : k \in Nat /\ Signed(k) = 2 * k)
        /\ (\A k \in Notices : notice[k].tx \in Periods /\ notice[k].tx \in Nat)
    <2>1. \A k \in Notices : notice[k].tx \in Periods
      BY NoticeFits DEF IInv, NoticeRow
    <2>2. \A x \in Periods : x \in Nat
      BY PeriodsAreFinite DEF Periods
    <2>3. \A k \in Notices : k \in Nat /\ Signed(k) = 2 * k
      BY NoticesNumbered DEF IInv, Signed
    <2>4. sub.current \in Nat /\ sub.signed \in Nat
      BY PeriodsAreFinite DEF IInv, DbFits, DbTyped, SubRow
    <2> QED  BY <2>1, <2>2, <2>3, <2>4 DEF IInv, DbFits, OInv, DbTyped
  <1>2. sub.current =< p
    BY <1>1, ChargeIsNewer
  <1>3. ~Done(p)
    BY <1>1, <1>2 DEF Done
  <1>4. sub' = Current(p, end, signed)
    <2>1. ~(Signed(c) < sub.signed)
      BY <1>3 DEF AppliedInOrder, ChargeOf
    <2>2. sub.signed =< signed
      BY <1>1, <2>1
    <2> QED  BY <2>2
  <1>5. sub'.current = p /\ sub'.signed = signed
    BY <1>4 DEF Current
  <1>6. \A x \in Periods : Recorded(x)' <=> Recorded(x) \/ x = p
    BY <1>1 DEF Recorded, Order
  <1>7. \A k \in Notices : notice'[k].read = 0
    BY <1>1, <1>3, NoReader
  <1>8. ASSUME NEW d \in Notices, notice[d].kind = "charge", Processed(d)' \/ Signed(d) < signed
        PROVE  Recorded(notice[d].tx)' \/ notice'[d].tx < p
    <2>1. Processed(d) \/ notice[d].tx = p
      BY <1>8
    <2>2. orders'[p].status # "none" /\ notice'[d].tx = notice[d].tx
      BY <1>6 DEF Recorded, NoticesKept
    <2>3. CASE notice[d].tx = p
      BY <2>2, <2>3 DEF Recorded
    <2>4. CASE Processed(d)
      <3>1. Recorded(notice[d].tx) \/ notice[d].tx < sub.current
        BY <1>8, <2>4 DEF AppliedInOrder, Done
      <3>2. Recorded(notice[d].tx) => orders'[notice[d].tx].status # "none"
        BY <1>1, <1>6 DEF Recorded
      <3> QED  BY <1>1, <1>2, <2>2, <3>1, <3>2 DEF Recorded
    <2> QED  BY <2>1, <2>3, <2>4
  <1>9. ASSUME NEW q \in Periods, Recorded(q)' PROVE q =< p /\ Came(q)'
    <2>1. PICK d \in Notices : /\ ChargeOf(d, q)
                               /\ \A j \in Notices : j < d /\ notice[j].tx # q => Processed(j)
      <3>1. CASE Recorded(q)
        BY <3>1 DEF AppliedInOrder, Came
      <3>2. CASE q = p
        <4>1. \A j \in Notices : j < c => Signed(j) < signed
          BY <1>1
        <4> QED  BY <3>2, <4>1
      <3> QED  BY <1>6, <1>9, <3>1, <3>2
    <2>2. ChargeOf(d, q)' /\ \A j \in Notices : j < d /\ notice'[j].tx # q => Processed(j)'
      BY <2>1, ChargesKept DEF NoticesKept
    <2>3. q =< p
      <3>1. Recorded(q) => q =< sub.current
        BY DEF AppliedInOrder
      <3>2. q \in Nat
        BY PeriodsAreFinite DEF Periods
      <3> QED  BY <1>1, <1>2, <1>6, <1>9, <3>1, <3>2
    <2> QED  BY <2>2, <2>3 DEF Came
  <1>10. \A d \in Notices' : /\ notice'[d].kind = "charge"
                             /\ Processed(d)' \/ Signed(d) < sub'.signed
                             => Recorded(notice[d].tx)' \/ notice'[d].tx < sub'.current
    BY <1>5, <1>8 DEF NoticesKept
  <1> QED  BY <1>5, <1>7, <1>9, <1>10 DEF AppliedInOrder, Done, Signed

(* A stale charge is older than the current transaction. *)
LEMMA StaleIsDone ==
  ASSUME DbTyped, PeriodsInOrder, NEW p \in Periods, Charged(p), AppleFits, NEW signed,
         StaleCharge(p, signed)
  PROVE  Done(p)
PROOF
  <1>1. PICK q \in Periods : q = sub.current
    BY PeriodsAreFinite DEF StaleCharge, DbTyped, SubRow, Periods
  <1>2. p \in Nat /\ q \in Nat /\ p # q /\ period[p].start < period[q].start
        /\ period[p].start \in Nat /\ period[q].start \in Nat
    BY <1>1, PeriodsAreFinite DEF StaleCharge, Periods, AppleFits, PeriodRow, Dates
  <1>3. ~(q < p)
    BY <1>2 DEF PeriodsInOrder
  <1> QED  BY <1>1, <1>2, <1>3 DEF Done

LEMMA AppleNotifies ==
  ASSUME AppleNext
  PROVE  notice' = notice \/ \E kind, p : Notify(kind, p)
PROOF
  BY DEF AppleNext, Charges, FailsToCharge, Expires, Extends, ChangesRenewal, Tick, Refunds,
         ReversesRefund

LEMMA OrderStep ==
  ASSUME IInv, OInv, MailInOrder, inOrder => AppliedInOrder, [Next]_vars, inOrder'
  PROVE  inOrder /\ AppliedInOrder'
PROOF
  <1>1. MailFits /\ DbTyped /\ AppleFits /\ PeriodsInOrder /\ MailIsCharged
        /\ Len(notice) \in Nat /\ sub.signed =< 2 * Len(notice) + 1 /\ sub.signed \in Nat
        /\ (\A k \in Notices : k \in Nat /\ k =< Len(notice) /\ Signed(k) = 2 * k)
        /\ (\A k \in Notices : notice[k] \in NoticeRow /\ notice[k].tx \in Periods)
    <2>1. \A k \in Notices : notice[k] \in NoticeRow
      BY NoticeFits DEF IInv
    <2>2. sub.signed \in Nat
      BY DEF IInv, DbFits, DbTyped, SubRow
    <2> QED  BY <2>1, <2>2, NoticesNumbered
             DEF IInv, DbFits, OInv, MailInOrder, NoticeRow, Signed
  <1>2. ASSUME inOrder, UNCHANGED <<orders, sub>>,
               notice' = notice \/ \E kind, p : Notify(kind, p)
        PROVE  AppliedInOrder'
    <2>1. AppliedInOrder /\ \A p \in Periods : Recorded(p)' <=> Recorded(p)
      BY <1>2 DEF Recorded
    <2>2. CASE notice' = notice
      <3>1. NoticesKept /\ Notices' = Notices
        BY <2>2, NoticesStay
      <3>2. \A c \in Notices : Processed(c)' => Processed(c)
        BY <2>2 DEF Processed
      <3> QED  BY <1>1, <1>2, <2>1, <2>2, <3>1, <3>2, OrderKept
    <2>3. CASE \E kind, p : Notify(kind, p)
      <3>1. PICK t : t = Len(notice')
        OBVIOUS
      <3>2. /\ NoticesKept /\ t = Len(notice) + 1 /\ Notices' = Notices \cup {t}
            /\ \A k \in Notices : notice'[k] = notice[k]
            /\ notice'[t].read = 0 /\ notice'[t].status = "owed"
        BY <1>1, <2>3, <3>1, NoticeAdded
      <3>3. \A j \in Notices : ~(t < j)
        BY <1>1, <3>2
      <3>4. ~(Signed(t) < sub'.signed)
        BY <1>1, <1>2, <3>2 DEF Signed
      <3>5. \A c \in Notices : Processed(c)' => Processed(c)
        BY <3>2 DEF Processed
      <3> QED  BY <1>1, <1>2, <2>1, <3>2, <3>3, <3>4, <3>5, OrderKept
    <2> QED  BY <1>2, <2>2, <2>3
  <1>3. ASSUME inOrder, NEW k \in Notices, Claimable(k), NEW status, NEW read,
               notice' = [notice EXCEPT ![k].status = status, ![k].read = read],
               sub'.current = sub.current, sub'.signed \in {sub.signed, Signed(k)},
               \A p \in Periods : Recorded(p)' <=> Recorded(p),
               sub'.signed = sub.signed \/ \A j \in Notices : j < k => Processed(j),
               notice[k].kind = "charge" /\ status = "processed" => Done(notice[k].tx),
               read # 0 => read = sub.current /\ \A j \in Notices : j < k => Processed(j)
        PROVE  AppliedInOrder'
    <2>1. /\ NoticesKept /\ Notices' = Notices
          /\ \A j \in Notices : j # k => notice'[j] = notice[j]
          /\ notice'[k].status = status /\ notice'[k].read = read
      <3>1. /\ MailFits /\ Claimable(k)
            /\ notice' = [notice EXCEPT ![k].status = status, ![k].read = read]
        BY <1>1, <1>3
      <3> QED  BY <3>1, RowKept
    <2>2. \A c \in Notices : notice[c].kind = "charge" /\ Processed(c)'
            => Processed(c) \/ Done(notice[c].tx)
      BY <1>3, <2>1 DEF Processed
    <2>3. \A c \in Notices : Signed(c) < sub'.signed => Signed(c) < sub.signed \/ Processed(c)
      BY <1>1, <1>3
    <2>4. \A j \in Notices : notice'[j].read # 0 =>
            \/ notice'[j].read = notice[j].read
            \/ notice'[j].read = sub.current /\ \A i \in Notices : i < j => Processed(i)
      BY <1>3, <2>1
    <2> QED  BY <1>1, <1>3, <2>1, <2>2, <2>3, <2>4, OrderKept
  <1>4. ASSUME NEW k \in Notices, NEW status \in {"processed", "received"}, Handles(k, status)
        PROVE  inOrder /\ AppliedInOrder'
    <2> DEFINE n == notice[k]
    <2>1. /\ Claimable(k) /\ Known(n) /\ n.kind \notin LifecycleKinds
          /\ notice' = [notice EXCEPT ![k].status = status, ![k].read = 0]
          /\ IF n.kind = "charge" THEN AppliesCharge(n, Signed(k))
             ELSE AppliesStatus(n, Signed(k))
          /\ inOrder /\ (\A j \in 1..(k - 1) : Processed(j)) /\ UNCHANGED apple
      BY <1>4 DEF Handles, Row, Overtakes, Processed
    <2>2. \A j \in Notices : j < k => Processed(j)
      BY <1>1, <2>1 DEF Notices
    <2>3. n \in NoticeRow /\ n.tx \in Periods /\ Charged(n.tx)
      BY <1>1 DEF MailIsCharged
    <2>4. CASE n.kind = "charge" /\ (Recorded(n.tx) \/ StaleCharge(n.tx, Signed(k)))
      <3>1. orders' = orders /\ sub'.current = sub.current
            /\ sub'.signed \in {sub.signed, Signed(k)}
        BY <1>1, <2>1, <2>4, ChargeSigns DEF AppliesCharge, ConfirmsCharge, db, DbTyped, SubRow
      <3>2. \A p \in Periods : Recorded(p)' <=> Recorded(p)
        BY <3>1 DEF Recorded
      <3>3. Done(n.tx)
        BY <1>1, <2>3, <2>4, StaleIsDone DEF Done
      <3> QED  BY <1>3, <2>1, <2>2, <3>1, <3>2, <3>3
    <2>5. CASE n.kind = "charge" /\ ~Recorded(n.tx) /\ ~StaleCharge(n.tx, Signed(k))
      <3>1. /\ orders' = [orders EXCEPT ![n.tx] = Order(n.end, Signed(k))]
            /\ sub' \in {Current(n.tx, n.end, Signed(k)),
                         IF sub.current = 0 \/ sub.signed =< Signed(k)
                         THEN Current(n.tx, n.end, Signed(k)) ELSE sub}
        BY <2>1, <2>5 DEF AppliesCharge, KeepsLedger, GrantsPeriod
      <3>2. /\ NoticesKept /\ Notices' = Notices
            /\ \A j \in Notices : j # k => notice'[j] = notice[j]
            /\ notice'[k].status = status /\ notice'[k].read = 0
        BY <1>1, <2>1, RowKept
      <3>3. \A d \in Notices : Processed(d)' => Processed(d) \/ notice[d].tx = n.tx
        BY <3>2 DEF Processed
      <3>4. \A d \in Notices : notice'[d].read \in {0, notice[d].read}
        BY <3>2
      <3>5. Signed(k) \in Nat /\ ChargeOf(k, n.tx)
        BY <1>1, <2>5 DEF ChargeOf
      <3>6. \A j \in Notices : Signed(j) < Signed(k) /\ notice[j].tx # n.tx => Processed(j)
        BY <1>1, <2>2
      <3>7. Signed(k) =< Signed(k)
        BY <3>5
      <3> QED  BY <2>1, <2>3, <2>5, <3>1, <3>2, <3>3, <3>4, <3>5, <3>6, <3>7, OrderGrown
    <2>6. CASE n.kind # "charge"
      <3>1. Recorded(n.tx) /\ AppliesStatus(n, Signed(k))
        BY <1>1, <2>1, <2>6, StatusIsRecorded
      <3>2. /\ sub'.current = sub.current /\ sub'.signed \in {sub.signed, Signed(k)}
            /\ \A p \in Periods : Recorded(p)' <=> Recorded(p)
        BY <1>1, <2>3, <3>1, StatusKeeps
      <3> QED  BY <1>3, <2>1, <2>2, <2>6, <3>2
    <2> QED  BY <2>4, <2>5, <2>6
  <1>5. ASSUME NEW k \in Notices, NEW status \in {"processed", "received"},
               HandlesLifecycle(k, status)
        PROVE  inOrder /\ AppliedInOrder'
    <2>1. /\ notice[k].read # 0 /\ inOrder
          /\ notice' = [notice EXCEPT ![k].status = status, ![k].read = 0]
          /\ AppliesLifecycle(notice[k], Signed(k), notice[k].read)
      BY <1>5 DEF HandlesLifecycle, Row
    <2>2. notice[k].read \in Periods
      <3>1. notice[k].read \in 0..MaxPeriods
        BY <1>1 DEF NoticeRow
      <3> QED  BY <2>1, <3>1, PeriodsAreFinite DEF Periods
    <2>3. Claimable(k) /\ notice[k].kind # "charge"
      BY <2>1 DEF MailInOrder, Claimable, LifecycleKinds
    <2>4. /\ sub'.current = sub.current /\ sub'.signed \in {sub.signed, Signed(k)}
          /\ \A p \in Periods : Recorded(p)' <=> Recorded(p)
      BY <1>1, <2>1, <2>2, LifecycleKeeps
    <2>5. \A j \in Notices : j < k => Processed(j)
      BY <2>1 DEF AppliedInOrder
    <2> QED  BY <1>3, <2>1, <2>3, <2>4, <2>5
  <1>6. ASSUME NEW k \in Notices, ReadsFamily(k) PROVE inOrder /\ AppliedInOrder'
    <2>1. /\ Claimable(k) /\ FamilyOrder # 0 /\ UNCHANGED <<orders, sub>> /\ inOrder
          /\ notice' = [notice EXCEPT ![k].status = "received", ![k].read = FamilyOrder]
          /\ \A j \in 1..(k - 1) : Processed(j)
      BY <1>6 DEF ReadsFamily, Overtakes, Processed, db
    <2>2. \A j \in Notices : j < k => Processed(j)
      BY <1>1, <2>1 DEF Notices
    <2>3. FamilyOrder = sub.current
      <3>1. PICK p \in Periods : Recorded(p)
        <4>1. Made > 0 \/ \E p \in Periods : Recorded(p)
          BY <2>1 DEF FamilyOrder
        <4>2. CASE Made > 0
          <5>1. {p \in Periods : Recorded(p)} # {}
            <6>1. Cardinality({}) = 0
              BY FS_EmptySet
            <6> QED  BY <4>2, <6>1 DEF Made
          <5> QED  BY <5>1
        <4> QED  BY <4>1, <4>2
      <3>2. p =< sub.current
        BY <2>1, <3>1 DEF AppliedInOrder
      <3>3. sub.current \in Periods
        <4>1. sub.current \in 0..MaxPeriods
          BY <1>1 DEF DbTyped, SubRow
        <4> QED  BY <3>1, <3>2, <4>1, PeriodsAreFinite DEF Periods
      <3>4. Recorded(sub.current)
        <4>1. sub.current # 0
          BY <3>3, PeriodsAreFinite DEF Periods
        <4> QED  BY <4>1 DEF OInv, OrdersInOrder
      <3> QED  BY <3>3, <3>4 DEF FamilyOrder
    <2>4. \A p \in Periods : Recorded(p)' <=> Recorded(p)
      BY <2>1 DEF Recorded
    <2>5. PICK status, read :
            /\ notice' = [notice EXCEPT ![k].status = status, ![k].read = read]
            /\ status = "received" /\ read = sub.current
      BY <2>1, <2>3
    <2>6. inOrder /\ Claimable(k) /\ sub'.current = sub.current /\ sub'.signed = sub.signed
      BY <2>1
    <2>7. read # 0 => read = sub.current /\ \A j \in Notices : j < k => Processed(j)
      BY <2>2, <2>5
    <2>8. notice[k].kind = "charge" /\ status = "processed" => Done(notice[k].tx)
      BY <2>5
    <2>9. AppliedInOrder'
      BY <1>3, <2>4, <2>5, <2>6, <2>7, <2>8
    <2> QED  BY <2>6, <2>9
  <1>7. ASSUME NEW k \in Notices, Fails(k) \/ Dies(k) PROVE inOrder /\ AppliedInOrder'
    <2>1. /\ Claimable(k) /\ UNCHANGED <<orders, sub>> /\ inOrder
          /\ \E status \in {"owed", "received"} :
               notice' = [notice EXCEPT ![k].status = status, ![k].read = 0]
      BY <1>7 DEF Fails, Dies, Row, db
    <2>2. \A p \in Periods : Recorded(p)' <=> Recorded(p)
      BY <2>1 DEF Recorded
    <2> QED  BY <1>3, <2>1, <2>2
  <1>8. CASE ClientRecords /\ ~UNCHANGED <<db, inOrder>>
    <2>1. /\ ~Recorded(fetched.tx) /\ ~StaleCharge(fetched.tx, fetched.signed)
          /\ GrantsPeriod(fetched.tx, fetched.end, fetched.signed)
          /\ fetched # NoFetch /\ notice' = notice /\ inOrder
          /\ \A k \in Notices : Signed(k) < fetched.signed /\ notice[k].tx # fetched.tx
                                  => Processed(k)
      BY <1>8 DEF ClientRecords, Overtakes, Processed
    <2>2. PICK p \in Periods : p = fetched.tx
      BY <1>1, <2>1 DEF MailFits
    <2>3. PICK signed \in Nat : signed = fetched.signed
      BY <1>1 DEF MailFits, FetchRow
    <2>4. PICK c \in Notices : ChargeOf(c, p) /\ Signed(c) < signed
      BY <2>1, <2>2, <2>3 DEF MailInOrder
    <2>5. Signed(c) =< signed
      BY <1>1, <2>4
    <2>6. NoticesKept /\ Notices' = Notices /\ \A d \in Notices : Processed(d)' => Processed(d)
      BY <2>1, NoticesStay DEF Processed
    <2>7. /\ orders' = [orders EXCEPT ![p] = Order(fetched.end, signed)]
          /\ sub' = IF sub.current = 0 \/ sub.signed =< signed
                    THEN Current(p, fetched.end, signed) ELSE sub
      BY <2>1, <2>2, <2>3 DEF GrantsPeriod
    <2>8. \A k \in Notices : notice'[k].read \in {0, notice[k].read}
      BY <2>1
    <2> QED  BY <2>1, <2>2, <2>3, <2>4, <2>5, <2>6, <2>7, <2>8, OrderGrown
  <1>9. CASE Refreshes
    <2>1. /\ UNCHANGED <<notice, orders>> /\ inOrder
          /\ (sub' = sub \/ sub' = [sub EXCEPT !.status = "expired"])
      BY <1>9 DEF Refreshes
    <2>2. sub'.signed = sub.signed /\ sub'.current = sub.current
      BY <1>1, <2>1 DEF DbTyped, SubRow
    <2>3. NoticesKept /\ Notices' = Notices /\ \A c \in Notices : Processed(c)' => Processed(c)
      BY <2>1, NoticesStay DEF Processed
    <2>4. \A p \in Periods : Recorded(p)' <=> Recorded(p)
      BY <2>1 DEF Recorded
    <2> QED  BY <1>1, <2>1, <2>2, <2>3, <2>4, OrderKept
  <1>10. CASE AppleNext \/ (\E p \in Periods : ClientAsks(p)) \/ Deletes \/ UNCHANGED vars
              \/ (ClientRecords /\ UNCHANGED <<db, inOrder>>)
    <2>1. inOrder /\ UNCHANGED <<orders, sub>>
      BY <1>10 DEF AppleNext, ClientAsks, Deletes, vars, db
    <2>2. notice' = notice \/ \E kind, p : Notify(kind, p)
      BY <1>10, AppleNotifies DEF ClientAsks, Deletes, vars, ClientRecords
    <2> QED  BY <1>2, <2>1, <2>2
  <1> QED  BY <1>4, <1>5, <1>6, <1>7, <1>8, <1>9, <1>10 DEF Next

LEMMA StepKeeps ==
  ASSUME IInv, MailInOrder, [Next]_vars
  PROVE  NoticesKept
PROOF
  <1>1. MailFits
    BY DEF IInv
  <1>2. ASSUME NEW k \in Notices, NEW status \in {"processed", "received"},
               Handles(k, status) \/ HandlesLifecycle(k, status)
        PROVE  NoticesKept
    <2>1. Claimable(k) /\ notice' = [notice EXCEPT ![k].status = status, ![k].read = 0]
      BY <1>2 DEF Handles, HandlesLifecycle, Row, MailInOrder, Claimable
    <2> QED  BY <1>1, <2>1, RowKept
  <1>3. ASSUME NEW k \in Notices, ReadsFamily(k) \/ Fails(k) \/ Dies(k) PROVE NoticesKept
    <2>1. Claimable(k) /\ \E status, read :
            notice' = [notice EXCEPT ![k].status = status, ![k].read = read]
      BY <1>3 DEF ReadsFamily, Fails, Dies, Row
    <2> QED  BY <1>1, <2>1, RowKept
  <1>4. CASE AppleNext
    BY <1>1, <1>4, AppleNotifies, NoticeAdded, NoticesStay
  <1>5. CASE (\E p \in Periods : ClientAsks(p)) \/ ClientRecords \/ Refreshes \/ Deletes
             \/ UNCHANGED vars
    <2>1. notice' = notice
      BY <1>5 DEF ClientAsks, ClientRecords, Refreshes, Deletes, vars
    <2> QED  BY <2>1, NoticesStay
  <1> QED  BY <1>2, <1>3, <1>4, <1>5 DEF Next

(* An older period whose refund was reversed stays one. *)
LEMMA OldRestoredStays ==
  ASSUME NoticesKept, OldRestored
  PROVE  OldRestored'
PROOF
  <1>1. PICK j \in Notices, k \in Notices :
          j < k /\ notice[k].kind = "restored" /\ notice[k].tx < notice[j].tx
    BY DEF OldRestored
  <1>2. /\ j \in Notices' /\ k \in Notices'
        /\ notice'[k].kind = "restored" /\ notice'[k].tx < notice'[j].tx
    BY <1>1 DEF NoticesKept
  <1> QED  BY <1>1, <1>2 DEF OldRestored

(* The refund that is reversed in order is of the current transaction.     *)
LEMMA RestoredIsCurrent ==
  ASSUME IInv, OInv, AppliedInOrder, ~OldRestored, NEW k \in Notices, Claimable(k),
         notice[k].kind = "restored", Recorded(notice[k].tx)
  PROVE  notice[k].tx = sub.current
PROOF
  <1> DEFINE p == notice[k].tx
  <1>1. \A j \in Notices : j \in Nat /\ notice[j].tx \in Nat /\ notice[j].tx \in Periods
    <2>1. \A j \in Notices : j \in Nat
      BY NoticesNumbered DEF IInv
    <2>2. \A j \in Notices : notice[j].tx \in Periods
      BY NoticeFits DEF IInv, NoticeRow
    <2> QED  BY <2>1, <2>2, PeriodsAreFinite DEF Periods
  <1>2. p =< sub.current
    BY <1>1 DEF AppliedInOrder
  <1>3. sub.current \in Nat /\ sub.current \in Periods
    <2>1. sub.current \in 0..MaxPeriods
      BY DEF IInv, DbFits, DbTyped, SubRow
    <2> QED  BY <1>1, <1>2, <2>1, PeriodsAreFinite DEF Periods
  <1>4. Recorded(sub.current)
    <2>1. sub.current # 0
      BY <1>3, PeriodsAreFinite DEF Periods
    <2> QED  BY <2>1 DEF OInv, OrdersInOrder
  <1>5. PICK c \in Notices :
          /\ ChargeOf(c, sub.current)
          /\ \A j \in Notices : j < c /\ notice[j].tx # sub.current => Processed(j)
    BY <1>3, <1>4 DEF AppliedInOrder, Came
  <1> SUFFICES ASSUME p < sub.current PROVE FALSE
    BY <1>1, <1>2, <1>3
  <1>6. ~(c < k)
    BY <1>5 DEF OldRestored, ChargeOf
  <1>7. c # k
    BY <1>5 DEF ChargeOf
  <1>8. k < c
    BY <1>1, <1>6, <1>7
  <1>9. Processed(k)
    BY <1>1, <1>3, <1>5, <1>8
  <1> QED  BY <1>9 DEF Processed, Claimable

(* Of an account that is not deleted. *)
LEMMA CurrentStep ==
  ASSUME IInv, OInv, MailInOrder, AppliedInOrder, AppliedInOrder', ~OldRestored,
         ~user.deleted, Active \subseteq {sub.current}, [Next]_vars
  PROVE  Active' \subseteq {sub'.current}
PROOF
  <1>1. DbTyped /\ MailFits /\ PeriodsInOrder /\ OrdersInOrder /\ AppleFits
        /\ grants \in [Periods -> GrantStates] /\ orders \in [Periods -> OrderRow]
        /\ sub \in SubRow
        /\ (\A k \in Notices : notice[k] \in NoticeRow /\ notice[k].tx \in Periods)
    <2>1. \A k \in Notices : notice[k] \in NoticeRow
      BY NoticeFits DEF IInv
    <2> QED  BY <2>1 DEF IInv, OInv, DbFits, DbTyped, NoticeRow
  <1>2. ASSUME sub'.current = sub.current,
               \A p \in Periods : grants'[p] = "active" => grants[p] = "active" \/ p = sub.current
        PROVE  Active' \subseteq {sub'.current}
    BY <1>2 DEF Active
  <1>3. ASSUME UNCHANGED <<grants, sub>> PROVE Active' \subseteq {sub'.current}
    BY <1>2, <1>3
  <1>4. ASSUME NEW p \in Periods, NEW end, NEW signed, ~StaleCharge(p, signed),
               GrantsPeriod(p, end, signed)
        PROVE  Active' \subseteq {sub'.current}
    <2>1. orders' = [orders EXCEPT ![p] = Order(end, signed)]
          /\ grants' = Superseding(p) /\ sub'.current \in {p, sub.current}
      BY <1>4 DEF GrantsPeriod, Current
    <2>2. Recorded(p)'
      BY <1>1, <2>1 DEF Recorded, Order
    <2>3. p =< sub'.current
      BY <2>2 DEF AppliedInOrder
    <2>4. ~(p < sub.current)
      BY <1>1, <1>4, ChargeIsNewer
    <2>5. sub'.current = p
      <3>1. p \in Nat /\ sub.current \in Nat
        BY <1>1, PeriodsAreFinite DEF Periods, SubRow
      <3> QED  BY <2>1, <2>3, <2>4, <3>1
    <2>6. \A q \in Periods : grants'[q] = "active" => q = p
      BY <2>1 DEF Superseding
    <2> QED  BY <2>5, <2>6 DEF Active
  <1>5. ASSUME NEW k \in Notices, NEW status \in {"processed", "received"}, Handles(k, status)
        PROVE  Active' \subseteq {sub'.current}
    <2> DEFINE n == notice[k]
    <2>1. /\ Claimable(k) /\ Known(n) /\ n.kind \notin LifecycleKinds
          /\ IF n.kind = "charge" THEN AppliesCharge(n, Signed(k))
             ELSE AppliesStatus(n, Signed(k))
      BY <1>5 DEF Handles
    <2>2. CASE n.kind = "charge"
      <3>1. CASE ConfirmsCharge(n, Signed(k))
        <4>1. grants' = grants /\ sub'.current = sub.current
          BY <1>1, <3>1 DEF ConfirmsCharge, SubRow
        <4> QED  BY <1>2, <4>1
      <3>2. CASE ~ConfirmsCharge(n, Signed(k))
        <4>1. UNCHANGED db \/ (~StaleCharge(n.tx, Signed(k))
                               /\ GrantsPeriod(n.tx, n.end, Signed(k)))
          BY <2>1, <2>2, <3>2 DEF AppliesCharge
        <4> QED  BY <1>1, <1>3, <1>4, <4>1 DEF db
      <3> QED  BY <3>1, <3>2
    <2>3. CASE n.kind # "charge"
      <3>1. n \in NoticeRow /\ Recorded(n.tx) /\ AppliesStatus(n, Signed(k))
        BY <1>1, <2>1, <2>3, StatusIsRecorded
      <3>2. sub'.current = sub.current
        BY <1>1, <3>1, StatusKeeps
      <3>3. grants' = grants \/ Restores(n, Signed(k)) \/ Ends(n, Signed(k))
        BY <3>1 DEF AppliesStatus, db
      <3>4. Restores(n, Signed(k)) => n.kind = "restored" \/ Ends(n, Signed(k)) \/ grants' = grants
        BY <3>1 DEF AppliesStatus, db
      <3>5. ASSUME n.kind = "restored" PROVE n.tx = sub.current
        BY <2>1, <3>1, <3>5, RestoredIsCurrent
      <3>6. ASSUME NEW p \in Periods, grants'[p] = "active"
            PROVE  grants[p] = "active" \/ p = sub.current
        <4>1. CASE grants' = grants
          BY <3>6, <4>1
        <4>2. CASE Restores(n, Signed(k)) /\ n.kind = "restored"
          <5>1. \/ grants' = grants
                \/ grants' = [grants EXCEPT ![n.tx] = IF @ = "active" THEN @ ELSE "revoked"]
                \/ grants' = Superseding(n.tx)
            BY <4>2 DEF Restores
          <5> QED  BY <1>1, <3>5, <3>6, <4>2, <5>1 DEF Superseding
        <4>3. CASE Ends(n, Signed(k))
          <5>1. \/ grants' = grants
                \/ grants' = [q \in Periods |->
                       IF q = n.tx THEN GrantStatus(n.kind)
                       ELSE IF grants[q] = "active" THEN "revoked" ELSE grants[q]]
            BY <4>3 DEF Ends
          <5> QED  BY <3>6, <5>1 DEF GrantStatus
        <4> QED  BY <3>3, <3>4, <4>1, <4>2, <4>3
      <3> QED  BY <1>2, <3>2, <3>6
    <2> QED  BY <2>2, <2>3
  <1>6. ASSUME NEW k \in Notices, NEW status \in {"processed", "received"},
               HandlesLifecycle(k, status)
        PROVE  Active' \subseteq {sub'.current}
    <2>1. notice[k].read # 0 /\ AppliesLifecycle(notice[k], Signed(k), notice[k].read)
      BY <1>6 DEF HandlesLifecycle
    <2>2. notice[k].read = sub.current
      BY <2>1 DEF AppliedInOrder
    <2>3. notice[k].read \in Periods
      <3>1. notice[k].read \in 0..MaxPeriods
        BY <1>1 DEF NoticeRow
      <3> QED  BY <2>1, <3>1, PeriodsAreFinite DEF Periods
    <2>4. sub'.current = sub.current
      BY <1>1, <2>1, <2>3, LifecycleKeeps
    <2>5. \A p \in Periods : p # notice[k].read => grants'[p] = grants[p]
      BY <1>1, <2>1, <2>3 DEF AppliesLifecycle, db
    <2> QED  BY <1>2, <2>2, <2>4, <2>5
  <1>7. CASE ClientRecords
    <2>1. UNCHANGED db
          \/ /\ fetched # NoFetch /\ ~StaleCharge(fetched.tx, fetched.signed)
             /\ GrantsPeriod(fetched.tx, fetched.end, fetched.signed)
      BY <1>7 DEF ClientRecords
    <2>2. fetched # NoFetch => fetched.tx \in Periods
      BY <1>1 DEF MailFits
    <2> QED  BY <1>3, <1>4, <2>1, <2>2 DEF db
  <1>8. CASE Refreshes
    <2>1. sub'.current = sub.current
      <3>1. sub' = sub \/ sub' = [sub EXCEPT !.status = "expired"]
        BY <1>8 DEF Refreshes
      <3> QED  BY <1>1, <3>1 DEF SubRow
    <2>2. \A p \in Periods : grants'[p] \in {"lapsed", grants[p]}
      BY <1>8 DEF Refreshes
    <2> QED  BY <1>2, <2>1, <2>2
  <1>9. ASSUME NEW k \in Notices, ReadsFamily(k) \/ Fails(k) \/ Dies(k)
        PROVE  Active' \subseteq {sub'.current}
    BY <1>3, <1>9 DEF ReadsFamily, Fails, Dies, db
  <1>10. CASE AppleNext \/ (\E p \in Periods : ClientAsks(p)) \/ Deletes \/ UNCHANGED vars
    BY <1>3, <1>10 DEF AppleNext, ClientAsks, Deletes, vars, db
  <1> QED  BY <1>5, <1>6, <1>7, <1>8, <1>9, <1>10 DEF Next

LEMMA AppliedStep ==
  ASSUME IInv, OInv, AInv, [Next]_vars
  PROVE  AInv'
PROOF
  <1>1. MailInOrder' /\ NoticesKept
    BY MailStep, StepKeeps DEF AInv
  <1>2. ASSUME inOrder' PROVE inOrder /\ AppliedInOrder /\ AppliedInOrder'
    BY <1>2, OrderStep DEF AInv
  <1>3. ASSUME inOrder', ~OldRestored' PROVE OnlyCurrent'
    <2>1. inOrder /\ ~OldRestored /\ OnlyCurrent /\ AppliedInOrder /\ AppliedInOrder'
      BY <1>1, <1>2, <1>3, OldRestoredStays DEF AInv
    <2>2. CASE user.deleted
      <3>1. user' = user /\ Active' \subseteq Active
        BY <2>2, DeletedStep
      <3> QED  BY <2>1, <2>2, <3>1 DEF OnlyCurrent
    <2>3. CASE ~user.deleted
      <3>1. Active' \subseteq {sub'.current}
        BY <2>1, <2>3, CurrentStep DEF OnlyCurrent, AInv
      <3> QED  BY <3>1 DEF OnlyCurrent
    <2> QED  BY <2>2, <2>3
  <1> QED  BY <1>1, <1>2, <1>3 DEF AInv

(* Nothing is told or applied at first.                                    *)
LEMMA InitApplied == Init => AInv
PROOF
  <1> SUFFICES ASSUME Init PROVE MailInOrder /\ AppliedInOrder /\ OnlyCurrent
    BY DEF AInv
  <1>1. Notices = {} /\ Len(notice) = 0 /\ Active = {} /\ fetched = NoFetch
        /\ ~(\E p \in Periods : Charged(p) \/ Recorded(p))
    BY DEF Init, Notices, Active, Charged, NoPeriod, Recorded, NoOrder
  <1>2. sub.signed = 0 /\ fetched.signed = 0
    BY DEF Init, NoSub, NoFetch
  <1> QED  BY <1>1, <1>2 DEF MailInOrder, AppliedInOrder, OnlyCurrent

(* While notifications are applied in order, and no refund is reversed of  *)
(* a period that another has followed, one grant of the family is active   *)
(* at a time (postgresSupersedeAppleSubscriptionFamily, the recovery of a  *)
(* lapsed grant and the reversal of a refund).                             *)
THEOREM OnePeriod == Spec => []OneActivePeriod
PROOF
  <1>1. Init => OInv /\ AInv
    BY InitInOrder, InitApplied
  <1>2. IInv /\ OInv /\ AInv /\ [Next]_vars => OInv' /\ AInv'
    BY StepInOrder, AppliedStep
  <1>3. AInv => OneActivePeriod
    <2> SUFFICES ASSUME AInv, inOrder, ~OldRestored PROVE Cardinality(Active) =< 1
      BY DEF OneActivePeriod
    <2>1. \A p, q \in Active : p = q
      BY DEF AInv, OnlyCurrent
    <2>2. CASE Active = {}
      BY <2>2, FS_EmptySet
    <2>3. CASE Active # {}
      <3>1. PICK p : Active = {p}
        BY <2>1, <2>3
      <3>2. Cardinality({p}) = 1
        BY FS_Singleton
      <3> QED  BY <3>1, <3>2
    <2> QED  BY <2>2, <2>3
  <1> QED  BY <1>1, <1>2, <1>3, Inductive, PTL DEF Spec

---------------------------------------------------------------------------
(* Once everything is handled, the account is entitled as the customer is  *)
(* covered.                                                                *)

(* Notifications of the transaction that Apple charged last.               *)
Of(k) == notice[k].tx = Last
Late == {"grace", "billing_retry", "expired"}
Refunded(k) == Of(k) /\ notice[k].kind = "refunded"
Restored(k) == Of(k) /\ notice[k].kind = "restored"

(* Apple tells of its charges in order, and then only of the last one, but *)
(* for a refund and its reversal.                                          *)
ChargesTold ==
  \A c, k \in Notices : notice[c].kind = "charge" /\ c < k =>
    /\ notice[k].kind = "charge" => notice[c].tx < notice[k].tx
    /\ notice[k].kind \notin {"refunded", "restored"} => notice[c].tx =< notice[k].tx

(* The last refund or reversal that it tells of is how the period is.      *)
RefundsTold ==
  Last > 0 =>
    /\ period[Last].state = "refunded" =>
         \E k \in Notices : Refunded(k) /\ \A j \in Notices : Restored(j) => j < k
    /\ period[Last].state = "paid" =>
         \A k \in Notices : Refunded(k) => \E j \in Notices : k < j /\ Restored(j)

(* The ends that it tells of only move on, to the end of the period.       *)
PeriodsFit ==
  \A p \in Periods : Charged(p) =>
    /\ period[p].start < period[p].end
    /\ ~Extended => period[p].end = period[p].start + 1
    /\ period[p].state = "refunded" => period[p].start =< clock

EndsTold ==
  /\ \A k \in Notices : Of(k) =>
       /\ notice[k].end =< period[Last].end
       /\ ~Extended => notice[k].end = period[Last].end
       /\ notice[k].kind \in Late => period[Last].end =< clock
  /\ \A j, k \in Notices : Of(j) /\ Of(k) /\ j < k => notice[j].end =< notice[k].end

(* Where the renewal of the last transaction is, and what was told of it.  *)
PhaseFits ==
  /\ phase.at = "new" <=> Last = 0
  /\ phase.at # "grace" => phase.grace = 0

PhaseTold ==
  /\ phase.at # "ended" => \A k \in Notices : Of(k) => notice[k].kind \notin StatusKinds
  /\ phase.at = "active" =>
       \A k \in Notices : Of(k) => notice[k].kind \notin Late /\ notice[k].grace = 0
  /\ phase.at = "grace" =>
       /\ \E k \in Notices : Of(k) /\ notice[k].kind = "grace"
       /\ \A k \in Notices : Of(k) =>
            /\ notice[k].kind # "billing_retry"
            /\ notice[k].grace \in {0, phase.grace}

(* A grace period is told of before the end, and is over unless it is the  *)
(* present one or the period was refunded.                                 *)
GraceTold ==
  /\ \A k \in Notices : Of(k) /\ notice[k].kind = "grace" => notice[k].grace # 0
  /\ \A j, k \in Notices : Of(j) /\ Of(k) /\ notice[j].kind = "grace"
                           /\ notice[k].kind \in StatusKinds => j < k
  /\ \A k \in Notices : Of(k) =>
       \/ notice[k].grace =< clock
       \/ phase.at = "grace" /\ notice[k].grace = phase.grace
       \/ \E j \in Notices : Refunded(j)

(* A client's answer fits between the notifications.                       *)
AnswerTold ==
  fetched # NoFetch /\ fetched.tx = Last =>
    /\ fetched.end =< period[Last].end
    /\ ~Extended => fetched.end = period[Last].end
    /\ \A k \in Notices : Of(k) =>
         IF Signed(k) < fetched.signed
         THEN /\ notice[k].kind \notin Late /\ notice[k].end =< fetched.end
              /\ Refunded(k) => \E j \in Notices : /\ k < j /\ Restored(j)
                                                   /\ Signed(j) < fetched.signed
         ELSE fetched.end =< notice[k].end

(* It is signed between two notifications.                                 *)
AnswerFits == fetched = NoFetch \/ \E i \in Nat : fetched.signed = 2 * i + 1

Told ==
  /\ ChargesTold /\ RefundsTold /\ PeriodsFit /\ EndsTold
  /\ PhaseFits /\ PhaseTold /\ GraceTold /\ AnswerTold

(* What the rows of the last transaction keep of it: of a notification     *)
(* signed before its order, which a client's answer made, nothing more     *)
(* comes; any other is newer than the rows.                                *)
Applied(k) == Processed(k) \/ Signed(k) =< orders[Last].signed
RefundStands ==
  \E k \in Notices : /\ Refunded(k) /\ Applied(k)
                     /\ \A j \in Notices : Restored(j) /\ Applied(j) => j < k

DatesKept ==
  /\ orders[Last].end =< period[Last].end /\ sub.expires =< period[Last].end
  /\ ~Extended => orders[Last].end = period[Last].end
  /\ orders[Last].signed =< sub.signed
  /\ \A k \in Notices : Of(k) /\ ~Processed(k) =>
       IF Signed(k) < orders[Last].signed
       THEN notice[k].kind \notin Late /\ notice[k].end =< sub.expires
       ELSE sub.expires =< notice[k].end /\ sub.signed =< Signed(k)

GrantKept ==
  /\ RefundStands => grants[Last] # "active"
  /\ ~Extended /\ ~RefundStands => grants[Last] = "active" \/ orders[Last].end =< clock
  /\ ~Extended /\ (\A k \in Notices : Of(k) => notice[k].kind \notin StatusKinds)
       => grants[Last] \in {"active", "lapsed"}

GraceKept ==
  /\ /\ ~Extended /\ phase.at = "grace" /\ clock < phase.grace
     /\ \E k \in Notices : Of(k) /\ notice[k].kind = "grace" /\ Processed(k)
     => sub.status = "grace" /\ sub.grace = phase.grace /\ grants[Last] = "active"
  /\ sub.status = "grace" /\ clock < sub.grace =>
       \/ phase.at = "grace" /\ phase.grace = sub.grace
       \/ \E k \in Notices : Refunded(k)
  /\ \A k \in Notices : Restored(k) /\ Applied(k) => sub.status # "grace"

Kept == DatesKept /\ GrantKept /\ GraceKept

InPrefix == \A j, k \in Notices : j < k /\ Processed(k) => Processed(j)
Regular == inOrder /\ ~OldRestored /\ ~user.deleted

EInv ==
  /\ Told /\ AnswerFits
  /\ inOrder => InPrefix
  /\ Regular /\ Last > 0 /\ Recorded(Last) => Kept

(* What Apple's step tells, when it is neither a charge nor a tick.        *)
Tells(kind, p) ==
  /\ Notify(kind, p) /\ clock' = clock /\ Charged(p)
  /\ kind \in Kinds \ {"charge"}
  /\ kind \notin {"refunded", "restored"} => p = Last
  /\ kind \in Late => period[Last].end =< clock
  /\ \A q \in Periods :
       /\ period'[q].start = period[q].start
       /\ IF kind = "extended" /\ q = Last
          THEN period[q].end =< period'[q].end /\ phase.at = "active"
          ELSE period'[q].end = period[q].end
       /\ IF q = p /\ kind = "refunded"
          THEN period'[q].state = "refunded" /\ period[q].start =< clock
          ELSE IF q = p /\ kind = "restored"
          THEN period[q].state = "refunded" /\ period'[q].state = "paid"
          ELSE period'[q].state = period[q].state
  /\ \/ phase' = phase /\ kind \notin Late /\ ~(kind = "refunded" /\ p = Last)
     \/ phase.at = "active" /\ kind = "grace" /\ phase'.at = "grace" /\ clock < phase'.grace
     \/ phase.at = "active" /\ kind = "billing_retry" /\ phase'.at = "retry" /\ phase'.grace = 0
     \/ /\ phase'.at = "ended" /\ phase'.grace = 0
        /\ \/ kind = "expired" /\ phase.grace =< clock
           \/ kind = "refunded" /\ p = Last

(* Every step of Apple but a charge and a tick tells one thing.            *)
LEMMA AppleTells ==
  ASSUME IInv, OInv, AppleNext, ~Charges, ~Tick
  PROVE  \E kind, p : p \in Periods /\ Tells(kind, p)
PROOF
  <1>1. AppleFits /\ period \in [Periods -> PeriodRow] /\ phase \in PhaseRow
        /\ Last \in 0..MaxPeriods /\ MaxPeriods \in Nat /\ clock \in Nat
        /\ \A q \in Periods : period[q] \in PeriodRow /\ period[q].end \in Nat
    <2>1. \A q \in Periods : period[q] \in PeriodRow /\ period[q].end \in Nat
      BY DEF IInv, AppleFits, PeriodRow, Dates
    <2> QED  BY <2>1, LastFits, AppleAssumption DEF AppleAssumption, IInv, AppleFits
  <1>2. ASSUME Last > 0 PROVE Last \in Periods /\ Charged(Last)
    BY <1>1, <1>2 DEF Periods, OInv, PeriodsInOrder
  <1>3. "grace" \in Late /\ "billing_retry" \in Late /\ "expired" \in Late
        /\ "extended" \notin Late /\ "renewal_status" \notin Late
        /\ "refunded" \notin Late /\ "restored" \notin Late
    BY DEF Late
  <1>4. Kinds \ {"charge"} = {"grace", "billing_retry", "extended", "renewal_status",
                              "refunded", "restored", "expired"}
    BY DEF Kinds, LifecycleKinds, StatusKinds
  <1>5. CASE FailsToCharge
    <2>1. /\ Last > 0 /\ UNCHANGED <<clock, period>> /\ period[Last].end =< clock
          /\ phase.at = "active"
          /\ \/ Notify("grace", Last) /\ phase' = [at |-> "grace", grace |-> clock + 1]
             \/ Notify("billing_retry", Last) /\ phase' = [at |-> "retry", grace |-> 0]
      BY <1>5 DEF FailsToCharge, Running
    <2>2. CASE Notify("grace", Last) /\ phase' = [at |-> "grace", grace |-> clock + 1]
      <3>1. Tells("grace", Last)
        BY <1>1, <1>2, <1>3, <1>4, <2>1, <2>2 DEF Tells
      <3> QED  BY <1>2, <2>1, <3>1
    <2>3. CASE Notify("billing_retry", Last) /\ phase' = [at |-> "retry", grace |-> 0]
      <3>1. Tells("billing_retry", Last)
        BY <1>1, <1>2, <1>3, <1>4, <2>1, <2>3 DEF Tells
      <3> QED  BY <1>2, <2>1, <3>1
    <2> QED  BY <2>1, <2>2, <2>3
  <1>6. CASE Expires
    <2>1. /\ Last > 0 /\ UNCHANGED <<clock, period>> /\ period[Last].end =< clock
          /\ phase' = [at |-> "ended", grace |-> 0] /\ phase.grace =< clock
          /\ Notify("expired", Last)
      BY <1>6 DEF Expires, Running
    <2>2. Tells("expired", Last)
      BY <1>1, <1>2, <1>3, <1>4, <2>1 DEF Tells
    <2> QED  BY <1>2, <2>1, <2>2
  <1>7. CASE Extends
    <2>1. /\ Last > 0 /\ UNCHANGED <<clock, phase>> /\ phase.at = "active"
          /\ period' = [period EXCEPT ![Last].end = @ + 1]
          /\ Notify("extended", Last)
      BY <1>7 DEF Extends, Running
    <2>2. \A q \in Periods :
            /\ period'[q].start = period[q].start /\ period'[q].state = period[q].state
            /\ period'[q].end = IF q = Last THEN period[q].end + 1 ELSE period[q].end
      BY <1>1, <1>2, <2>1 DEF PeriodRow
    <2>3. \A q \in Periods : period[q].end =< period[q].end + 1
      BY <1>1
    <2>4. Tells("extended", Last)
      BY <1>2, <1>3, <1>4, <2>1, <2>2, <2>3 DEF Tells
    <2> QED  BY <1>2, <2>1, <2>4
  <1>8. CASE ChangesRenewal
    <2>1. Last > 0 /\ UNCHANGED <<clock, period, phase>> /\ Notify("renewal_status", Last)
      BY <1>8 DEF ChangesRenewal, apple
    <2>2. Tells("renewal_status", Last)
      BY <1>1, <1>2, <1>3, <1>4, <2>1 DEF Tells
    <2> QED  BY <1>2, <2>1, <2>2
  <1>9. ASSUME NEW p \in Periods, Refunds(p) PROVE Tells("refunded", p)
    <2>1. /\ period[p].state = "paid" /\ period[p].start =< clock /\ clock' = clock
          /\ period' = [period EXCEPT ![p].state = "refunded"]
          /\ phase' = IF p = Last THEN [at |-> "ended", grace |-> 0] ELSE phase
          /\ Notify("refunded", p)
      BY <1>9 DEF Refunds
    <2>2. \A q \in Periods :
            /\ period'[q].start = period[q].start /\ period'[q].end = period[q].end
            /\ period'[q].state = IF q = p THEN "refunded" ELSE period[q].state
      BY <1>1, <2>1 DEF PeriodRow
    <2> QED  BY <1>3, <1>4, <2>1, <2>2 DEF Tells, Charged
  <1>10. ASSUME NEW p \in Periods, ReversesRefund(p) PROVE Tells("restored", p)
    <2>1. /\ period[p].state = "refunded" /\ UNCHANGED <<clock, phase>>
          /\ period' = [period EXCEPT ![p].state = "paid"]
          /\ Notify("restored", p)
      BY <1>10 DEF ReversesRefund
    <2>2. \A q \in Periods :
            /\ period'[q].start = period[q].start /\ period'[q].end = period[q].end
            /\ period'[q].state = IF q = p THEN "paid" ELSE period[q].state
      BY <1>1, <2>1 DEF PeriodRow
    <2> QED  BY <1>3, <1>4, <2>1, <2>2 DEF Tells, Charged
  <1> QED  BY <1>5, <1>6, <1>7, <1>8, <1>9, <1>10 DEF AppleNext

(* The notification that is sent, after all the others.                    *)
LEMMA NoticeSent ==
  ASSUME MailFits, NEW kind, NEW p, Notify(kind, p), NEW n, n = Len(notice')
  PROVE  /\ NoticesKept /\ n = Len(notice) + 1 /\ Notices' = Notices \cup {n}
         /\ \A k \in Notices : notice'[k] = notice[k] /\ k \in Nat /\ k < n
         /\ n \in Nat /\ n \notin Notices
         /\ notice'[n].kind = kind /\ notice'[n].tx = p
         /\ notice'[n].end = period'[p].end /\ notice'[n].grace = phase'.grace
         /\ notice'[n].status = "owed"
PROOF
  <1>1. /\ NoticesKept /\ \A k \in Notices : notice'[k] = notice[k]
        /\ n = Len(notice) + 1 /\ Notices' = Notices \cup {n}
        /\ notice'[n].kind = kind /\ notice'[n].tx = p /\ notice'[n].status = "owed"
    BY NoticeAdded
  <1>2. Len(notice) \in Nat /\ \A k \in Notices : k \in Nat /\ k =< Len(notice)
    BY NoticesNumbered
  <1>3. notice'[n].end = period'[p].end /\ notice'[n].grace = phase'.grace
    <2> DEFINE r == [kind |-> kind, tx |-> p, end |-> period'[p].end,
                     grace |-> phase'.grace, status |-> "owed", read |-> 0]
    <2>1. notice' = Append(notice, r) /\ notice \in Seq(NoticeRow)
          /\ r.end = period'[p].end /\ r.grace = phase'.grace
      BY DEF Notify, MailFits
    <2> HIDE DEF r
    <2>2. notice'[n] = r
      BY <1>1, <1>2, <2>1
    <2> QED  BY <2>1, <2>2
  <1> QED  BY <1>1, <1>2, <1>3

(* The transaction charged last stays the last.                            *)
LEMMA LastStays ==
  ASSUME \A q \in Periods : Charged(q)' <=> Charged(q)
  PROVE  Last' = Last
PROOF
  <1>1. {q \in Periods : period'[q].state # "none"} = {q \in Periods : period[q].state # "none"}
    BY DEF Charged
  <1> QED  BY <1>1 DEF Last

(* Only a charge changes which transaction is the last.                    *)
LEMMA TellsOfLast ==
  ASSUME NEW kind, NEW p \in Periods, Tells(kind, p)
  PROVE  Last' = Last /\ \A q \in Periods : Charged(q)' <=> Charged(q)
PROOF
  <1>1. \A q \in Periods : Charged(q)' <=> Charged(q)
    BY DEF Tells, Charged
  <1> QED  BY <1>1, LastStays

(* Extended and reversed stay so.                                          *)
LEMMA ExtendedStays ==
  ASSUME NoticesKept, Extended
  PROVE  Extended'
PROOF
  BY DEF NoticesKept, Extended

(* No notification is about a transaction after the last one.              *)
LEMMA MailUpToLast ==
  ASSUME IInv, OInv
  PROVE  /\ Last \in Nat /\ (Last > 0 => Last \in Periods /\ Charged(Last))
         /\ \A k \in Notices : /\ notice[k] \in NoticeRow /\ notice[k].tx \in Periods
                               /\ notice[k].tx \in Nat /\ notice[k].tx =< Last
PROOF
  <1>1. MaxPeriods \in Nat /\ Last \in 0..MaxPeriods
    BY LastFits DEF IInv
  <1>2. \A k \in Notices : notice[k] \in NoticeRow
    BY NoticeFits DEF IInv
  <1>3. Last > 0 => Last \in Periods /\ Charged(Last)
    BY <1>1 DEF Periods, OInv, PeriodsInOrder
  <1>4. \A k \in Notices : notice[k].tx \in Periods /\ Charged(notice[k].tx)
    BY <1>2 DEF NoticeRow, OInv, MailIsCharged
  <1> QED  BY <1>1, <1>2, <1>3, <1>4 DEF OInv, PeriodsInOrder, Periods

(* Each part of what is told, over such a step.                            *)
LEMMA TellsCharges ==
  ASSUME IInv, OInv, ChargesTold, NEW kind, NEW p \in Periods, Notify(kind, p),
         kind = "charge" => \A k \in Notices : notice[k].tx < p,
         kind \notin {"charge", "refunded", "restored"} => p = Last
  PROVE  ChargesTold'
PROOF
  <1>0. PICK n : n = Len(notice')
    OBVIOUS
  <1>1. /\ Notices' = Notices \cup {n}
        /\ \A k \in Notices : notice'[k] = notice[k] /\ k \in Nat /\ k < n
        /\ n \in Nat /\ notice'[n].kind = kind /\ notice'[n].tx = p
    BY <1>0, NoticeSent DEF IInv
  <1>2. \A k \in Notices : notice[k].tx \in Nat /\ notice[k].tx =< Last
    BY MailUpToLast
  <1> SUFFICES ASSUME NEW c \in Notices', NEW k \in Notices', notice'[c].kind = "charge", c < k
               PROVE  /\ notice'[k].kind = "charge" => notice'[c].tx < notice'[k].tx
                      /\ notice'[k].kind \notin {"refunded", "restored"}
                           => notice'[c].tx =< notice'[k].tx
    BY DEF ChargesTold
  <1>3. CASE k \in Notices
    <2>1. c \in Notices
      BY <1>1, <1>3
    <2> QED  BY <1>1, <1>3, <2>1 DEF ChargesTold
  <1>4. CASE k = n
    <2>1. c \in Notices
      BY <1>1, <1>4
    <2>2. p \in Nat
      BY PeriodsAreFinite DEF Periods
    <2> QED  BY <1>1, <1>2, <1>4, <2>1, <2>2
  <1> QED  BY <1>1, <1>3, <1>4

LEMMA TellsRefunds ==
  ASSUME IInv, OInv, RefundsTold, NEW kind, NEW p \in Periods, Tells(kind, p)
  PROVE  RefundsTold'
PROOF
  <1>0. PICK n : n = Len(notice')
    OBVIOUS
  <1>1. /\ Notices' = Notices \cup {n}
        /\ \A k \in Notices : notice'[k] = notice[k] /\ k \in Nat /\ k < n
        /\ n \in Nat /\ notice'[n].kind = kind /\ notice'[n].tx = p
    BY <1>0, NoticeSent DEF IInv, Tells
  <1>2. Last' = Last
    BY TellsOfLast
  <1>3. \A k \in Notices : (Refunded(k)' <=> Refunded(k)) /\ (Restored(k)' <=> Restored(k))
    BY <1>1, <1>2 DEF Refunded, Restored, Of
  <1>4. /\ Refunded(n)' <=> p = Last /\ kind = "refunded"
        /\ Restored(n)' <=> p = Last /\ kind = "restored"
    BY <1>1, <1>2 DEF Refunded, Restored, Of
  <1> SUFFICES ASSUME Last > 0
               PROVE  /\ period'[Last].state = "refunded" =>
                           \E k \in Notices' :
                             Refunded(k)' /\ \A j \in Notices' : Restored(j)' => j < k
                      /\ period'[Last].state = "paid" =>
                           \A k \in Notices' :
                             Refunded(k)' => \E j \in Notices' : k < j /\ Restored(j)'
    BY <1>2 DEF RefundsTold
  <1>5. Last \in Periods
    BY MailUpToLast
  <1>6. CASE p = Last /\ kind = "refunded"
    <2>1. period'[Last].state = "refunded"
      BY <1>5, <1>6 DEF Tells
    <2>2. Refunded(n)' /\ \A j \in Notices' : Restored(j)' => j < n
      BY <1>1, <1>4, <1>6
    <2> QED  BY <1>1, <2>1, <2>2
  <1>7. CASE p = Last /\ kind = "restored"
    <2>1. period'[Last].state = "paid"
      BY <1>5, <1>7 DEF Tells
    <2>2. Restored(n)' /\ \A k \in Notices' : Refunded(k)' => k < n
      BY <1>1, <1>4, <1>7
    <2> QED  BY <1>1, <2>1, <2>2
  <1>8. CASE ~(p = Last /\ kind \in {"refunded", "restored"})
    <2>1. period'[Last].state = period[Last].state
      BY <1>5, <1>8 DEF Tells
    <2>2. /\ \A k \in Notices' : Refunded(k)' <=> k \in Notices /\ Refunded(k)
          /\ \A k \in Notices' : Restored(k)' <=> k \in Notices /\ Restored(k)
      BY <1>1, <1>3, <1>4, <1>8
    <2> QED  BY <1>1, <2>1, <2>2 DEF RefundsTold
  <1> QED  BY <1>6, <1>7, <1>8

LEMMA TellsPeriods ==
  ASSUME IInv, OInv, IInv', PeriodsFit, NEW kind, NEW p \in Periods, Tells(kind, p)
  PROVE  PeriodsFit'
PROOF
  <1>0. PICK n : n = Len(notice')
    OBVIOUS
  <1>1. /\ Notices' = Notices \cup {n} /\ NoticesKept /\ notice'[n].kind = kind
        /\ clock' = clock /\ clock \in Nat
    BY <1>0, NoticeSent, AppleAssumption DEF AppleAssumption, IInv, AppleFits, Tells
  <1>2. \A q \in Periods : /\ Charged(q)' <=> Charged(q)
                           /\ period[q].start \in Nat /\ period[q].end \in Nat
    BY TellsOfLast DEF IInv, AppleFits, PeriodRow, Dates
  <1>3. kind = "extended" => Extended'
    BY <1>1 DEF Extended
  <1> SUFFICES ASSUME NEW q \in Periods, Charged(q)
               PROVE  /\ period'[q].start < period'[q].end
                      /\ ~Extended' => period'[q].end = period'[q].start + 1
                      /\ period'[q].state = "refunded" => period'[q].start =< clock
    BY <1>1, <1>2 DEF PeriodsFit
  <1>4. period'[q].start = period[q].start /\ period[q].start < period[q].end
        /\ \/ period'[q].end = period[q].end
           \/ kind = "extended" /\ period[q].end =< period'[q].end
    BY DEF Tells, PeriodsFit
  <1>5. period'[q].end \in Nat
    BY DEF IInv, AppleFits, PeriodRow, Dates
  <1>6. ~Extended' => ~Extended /\ period'[q].end = period[q].end
    BY <1>1, <1>3, <1>4, ExtendedStays
  <1>7. period'[q].state = "refunded" => period[q].state = "refunded" \/ period[q].start =< clock
    BY DEF Tells
  <1> QED  BY <1>2, <1>4, <1>5, <1>6, <1>7 DEF PeriodsFit

LEMMA TellsEnds ==
  ASSUME IInv, OInv, IInv', PeriodsFit, PhaseTold, EndsTold, NEW kind, NEW p \in Periods,
         Tells(kind, p)
  PROVE  EndsTold'
PROOF
  <1>0. PICK n : n = Len(notice')
    OBVIOUS
  <1>1. /\ Notices' = Notices \cup {n} /\ NoticesKept
        /\ \A k \in Notices : notice'[k] = notice[k] /\ k \in Nat /\ k < n
        /\ n \in Nat /\ notice'[n].kind = kind /\ notice'[n].tx = p
        /\ notice'[n].end = period'[p].end
    BY <1>0, NoticeSent DEF IInv, Tells
  <1>2. Last' = Last /\ clock' = clock /\ (\A k \in Notices : Of(k)' <=> Of(k))
        /\ (Of(n)' <=> p = Last)
    BY <1>1, TellsOfLast DEF Of, Tells
  <1>3. kind = "extended" => Extended'
    BY <1>1 DEF Extended
  <1>4. ~Extended' => ~Extended
    BY <1>1, ExtendedStays
  <1> DEFINE old == period[Last].end
             new == period'[Last].end
  <1>5. ASSUME NEW k \in Notices', Of(k)'
        PROVE  /\ old =< new /\ old \in Nat /\ new \in Nat /\ (~Extended' => new = old)
               /\ (kind = "extended" => phase.at = "active")
               /\ (kind # "extended" => new = old) /\ clock \in Nat
    <2>1. Last \in Periods
      <3>1. CASE k \in Notices
        BY <1>2, <1>5, <3>1, MailUpToLast DEF Of
      <3>2. CASE k = n
        BY <1>2, <1>5, <3>2
      <3> QED  BY <1>1, <3>1, <3>2
    <2>2. old \in Nat /\ new \in Nat /\ clock \in Nat
      BY <2>1, AppleAssumption DEF AppleAssumption, IInv, AppleFits, PeriodRow, Dates
    <2>3. kind = "extended" => p = Last
      BY DEF Tells
    <2>4. new = old \/ (kind = "extended" /\ old =< new /\ phase.at = "active")
      BY <2>1 DEF Tells
    <2>5. kind = "extended" => phase.at = "active"
      BY <2>1 DEF Tells
    <2> QED  BY <1>3, <2>2, <2>4, <2>5
  <1> HIDE DEF old, new
  <1>6. ASSUME NEW k \in Notices', Of(k)'
        PROVE  /\ notice'[k].end =< new
               /\ ~Extended' => notice'[k].end = new
               /\ notice'[k].kind \in Late => new =< clock
    <2>1. CASE k \in Notices
      <3>1. /\ notice[k].end =< old /\ (~Extended => notice[k].end = old)
            /\ notice[k].kind \in Late => old =< clock
        BY <1>2, <1>6, <2>1 DEF EndsTold, old
      <3>2. notice[k].end \in Nat /\ notice'[k] = notice[k]
        BY <1>1, <2>1, MailUpToLast DEF NoticeRow, Dates
      <3>3. notice[k].kind \in Late => phase.at # "active"
        BY <1>2, <1>6, <2>1 DEF PhaseTold
      <3> QED  BY <1>4, <1>5, <1>6, <3>1, <3>2, <3>3
    <2>2. CASE k = n
      <3>1. p = Last /\ notice'[k].end = new
        BY <1>1, <1>2, <1>6, <2>2 DEF new
      <3>2. kind \in Late => old =< clock /\ kind # "extended"
        BY DEF Tells, old, Late
      <3> QED  BY <1>1, <1>5, <1>6, <2>2, <3>1, <3>2
    <2> QED  BY <1>1, <2>1, <2>2
  <1>7. ASSUME NEW j \in Notices', NEW k \in Notices', Of(j)', Of(k)', j < k
        PROVE  notice'[j].end =< notice'[k].end
    <2>1. j \in Notices
      BY <1>1, <1>7
    <2>2. CASE k \in Notices
      BY <1>1, <1>2, <1>7, <2>1, <2>2 DEF EndsTold
    <2>3. CASE k = n
      <3>1. notice'[k].end = new
        BY <1>1, <1>2, <1>7, <2>3 DEF new
      <3> QED  BY <1>6, <1>7, <3>1
    <2> QED  BY <1>1, <2>2, <2>3
  <1> QED  BY <1>2, <1>6, <1>7 DEF EndsTold, new

LEMMA TellsPhase ==
  ASSUME IInv, OInv, PhaseFits, RefundsTold, PhaseTold, NEW kind, NEW p \in Periods,
         Tells(kind, p)
  PROVE  PhaseFits' /\ PhaseTold'
PROOF
  <1>0. PICK n : n = Len(notice')
    OBVIOUS
  <1>1. /\ Notices' = Notices \cup {n}
        /\ \A k \in Notices : notice'[k] = notice[k]
        /\ notice'[n].kind = kind /\ notice'[n].tx = p /\ notice'[n].grace = phase'.grace
    BY <1>0, NoticeSent DEF IInv, Tells
  <1>2. Last' = Last /\ (\A k \in Notices : Of(k)' <=> Of(k)) /\ (Of(n)' <=> p = Last)
    BY <1>1, TellsOfLast DEF Of
  <1>3. Last \in Nat /\ Last > 0 /\ phase.at # "new"
    <2>1. p =< Last /\ p \in Nat /\ p > 0
      BY PeriodsAreFinite DEF Tells, OInv, PeriodsInOrder, Periods
    <2> QED  BY <2>1, MailUpToLast DEF PhaseFits
  <1>4. PhaseFits'
    BY <1>2, <1>3 DEF PhaseFits, Tells
  <1>5. ASSUME phase'.at # "ended", NEW k \in Notices', Of(k)'
        PROVE  notice'[k].kind \notin StatusKinds
    <2>1. phase.at # "ended"
      BY <1>5 DEF Tells
    <2>2. CASE k \in Notices
      BY <1>1, <1>2, <1>5, <2>1, <2>2 DEF PhaseTold
    <2>3. CASE k = n
      <3>1. kind # "expired" /\ kind # "refunded" /\ p = Last
        BY <1>1, <1>2, <1>5, <2>3 DEF Tells, Late
      <3>2. kind = "restored" => period[Last].state = "refunded"
        BY <3>1 DEF Tells
      <3>3. period[Last].state = "refunded"
              => \E j \in Notices : Of(j) /\ notice[j].kind = "refunded"
        BY <1>3 DEF RefundsTold, Refunded
      <3>4. kind # "restored"
        BY <2>1, <3>2, <3>3 DEF PhaseTold, StatusKinds
      <3> QED  BY <1>1, <2>3, <3>1, <3>4 DEF StatusKinds
    <2> QED  BY <1>1, <2>2, <2>3
  <1>6. ASSUME phase'.at = "active", NEW k \in Notices', Of(k)'
        PROVE  notice'[k].kind \notin Late /\ notice'[k].grace = 0
    <2>1. phase' = phase /\ kind \notin Late /\ phase'.grace = 0
      BY <1>6 DEF Tells, PhaseFits
    <2> QED  BY <1>1, <1>2, <1>6, <2>1 DEF PhaseTold
  <1>7. ASSUME phase'.at = "grace"
        PROVE  /\ \E k \in Notices' : Of(k)' /\ notice'[k].kind = "grace"
               /\ \A k \in Notices' : Of(k)' =>
                    /\ notice'[k].kind # "billing_retry"
                    /\ notice'[k].grace \in {0, phase'.grace}
    <2>1. CASE phase' = phase /\ kind \notin Late
      BY <1>1, <1>2, <1>7, <2>1 DEF PhaseTold, Late
    <2>2. CASE phase.at = "active" /\ kind = "grace"
      <3>1. p = Last
        BY <2>2 DEF Tells
      <3>2. \A k \in Notices : Of(k) => notice[k].kind \notin Late /\ notice[k].grace = 0
        BY <2>2 DEF PhaseTold
      <3> QED  BY <1>1, <1>2, <2>2, <3>1, <3>2 DEF Late
    <2> QED  BY <1>7, <2>1, <2>2 DEF Tells
  <1> QED  BY <1>4, <1>5, <1>6, <1>7 DEF PhaseTold

LEMMA TellsGrace ==
  ASSUME IInv, OInv, PhaseFits, PhaseTold, GraceTold, NEW kind, NEW p \in Periods,
         Tells(kind, p)
  PROVE  GraceTold'
PROOF
  <1>0. PICK n : n = Len(notice')
    OBVIOUS
  <1>1. /\ Notices' = Notices \cup {n}
        /\ \A k \in Notices : notice'[k] = notice[k] /\ k \in Nat /\ k < n
        /\ n \in Nat
        /\ notice'[n].kind = kind /\ notice'[n].tx = p /\ notice'[n].grace = phase'.grace
    BY <1>0, NoticeSent DEF IInv, Tells
  <1>2. Last' = Last /\ (\A k \in Notices : Of(k)' <=> Of(k)) /\ (Of(n)' <=> p = Last)
        /\ clock' = clock /\ clock \in Nat /\ phase.grace \in Nat
    BY <1>1, TellsOfLast, AppleAssumption
       DEF AppleAssumption, Of, IInv, AppleFits, PhaseRow, Dates, Tells
  <1>3. kind = "grace" => phase'.at = "grace" /\ clock < phase'.grace /\ phase.at = "active"
    BY DEF Tells, Late
  <1>4. \A k \in Notices' : Of(k)' /\ notice'[k].kind = "grace" => notice'[k].grace # 0
    BY <1>1, <1>2, <1>3 DEF GraceTold
  <1>5. ASSUME NEW j \in Notices', NEW k \in Notices', Of(j)', Of(k)',
               notice'[j].kind = "grace", notice'[k].kind \in StatusKinds
        PROVE  j < k
    <2>1. CASE j \in Notices /\ k \in Notices
      BY <1>1, <1>2, <1>5, <2>1 DEF GraceTold
    <2>2. CASE j \in Notices /\ k = n
      BY <1>1, <2>2
    <2>3. CASE j = n
      <3>1. kind = "grace"
        BY <1>1, <1>5, <2>3
      <3>2. k # n
        BY <1>1, <1>5, <3>1 DEF StatusKinds
      <3>3. k \in Notices /\ Of(k) /\ notice[k].kind \in StatusKinds
        BY <1>1, <1>2, <1>5, <3>2
      <3> QED  BY <1>3, <3>1, <3>3 DEF PhaseTold
    <2> QED  BY <1>1, <2>1, <2>2, <2>3
  <1>6. ASSUME NEW k \in Notices', Of(k)'
        PROVE  \/ notice'[k].grace =< clock
               \/ phase'.at = "grace" /\ notice'[k].grace = phase'.grace
               \/ \E j \in Notices' : Refunded(j)'
    <2>1. CASE k = n
      <3>1. phase'.at # "grace" => phase'.grace = 0
        BY DEF PhaseFits, Tells
      <3> QED  BY <1>1, <1>2, <2>1, <3>1
    <2>2. CASE k \in Notices
      <3>1. \A j \in Notices : Refunded(j) => Refunded(j)'
        BY <1>1, <1>2 DEF Refunded
      <3>2. notice'[k] = notice[k]
        BY <1>1, <2>2
      <3>3. CASE notice[k].grace =< clock \/ \E j \in Notices : Refunded(j)
        BY <1>1, <3>1, <3>2, <3>3
      <3>4. CASE phase.at = "grace" /\ notice[k].grace = phase.grace
        <4>1. CASE phase' = phase
          BY <3>2, <3>4, <4>1
        <4>2. CASE phase.grace =< clock
          BY <3>2, <3>4, <4>2
        <4>3. CASE kind = "refunded" /\ p = Last
          <5>1. Refunded(n)'
            BY <1>1, <1>2, <4>3 DEF Refunded
          <5> QED  BY <1>1, <5>1
        <4> QED  BY <3>4, <4>1, <4>2, <4>3 DEF Tells
      <3> QED  BY <1>2, <1>6, <2>2, <3>3, <3>4 DEF GraceTold
    <2> QED  BY <1>1, <2>1, <2>2
  <1> QED  BY <1>2, <1>4, <1>5, <1>6 DEF GraceTold

LEMMA TellsAnswer ==
  ASSUME IInv, OInv, IInv', MailInOrder, AnswerTold, NEW kind, NEW p \in Periods,
         Tells(kind, p), fetched' = fetched
  PROVE  AnswerTold'
PROOF
  <1>0. PICK n : n = Len(notice')
    OBVIOUS
  <1>1. /\ Notices' = Notices \cup {n} /\ NoticesKept /\ n = Len(notice) + 1 /\ n \in Nat
        /\ \A k \in Notices : notice'[k] = notice[k] /\ k \in Nat /\ k < n
        /\ notice'[n].kind = kind /\ notice'[n].tx = p /\ notice'[n].end = period'[p].end
    BY <1>0, NoticeSent DEF IInv, Tells
  <1>2. Last' = Last /\ (\A k \in Notices : Of(k)' <=> Of(k)) /\ (Of(n)' <=> p = Last)
    BY <1>1, TellsOfLast DEF Of
  <1>3. /\ \A k \in Notices : (Refunded(k)' <=> Refunded(k)) /\ (Restored(k)' <=> Restored(k))
        /\ \A k \in Notices : Signed(k) \in Nat
    BY <1>1, <1>2 DEF Refunded, Restored, Signed
  <1>4. ~Extended' => ~Extended /\ kind # "extended"
    BY <1>1, ExtendedStays DEF Extended
  <1>5. ~(Signed(n) < fetched.signed)
    BY <1>1 DEF MailInOrder, Signed, IInv, MailFits, FetchRow
  <1> SUFFICES ASSUME fetched # NoFetch, fetched.tx = Last
               PROVE  /\ fetched.end =< period'[Last].end
                      /\ ~Extended' => fetched.end = period'[Last].end
                      /\ \A k \in Notices' : Of(k)' =>
                           IF Signed(k) < fetched.signed
                           THEN /\ notice'[k].kind \notin Late /\ notice'[k].end =< fetched.end
                                /\ Refunded(k)' => \E j \in Notices' : /\ k < j /\ Restored(j)'
                                                                       /\ Signed(j) < fetched.signed
                           ELSE fetched.end =< notice'[k].end
    BY <1>2 DEF AnswerTold, Signed
  <1>6. Last \in Periods /\ fetched.end \in Nat
    BY DEF IInv, MailFits, FetchRow, Dates
  <1>7. /\ period[Last].end \in Nat /\ period'[Last].end \in Nat
        /\ period[Last].end =< period'[Last].end
        /\ kind # "extended" => period'[Last].end = period[Last].end
    <2>1. period[Last].end \in Nat /\ period'[Last].end \in Nat
      BY <1>6 DEF IInv, AppleFits, PeriodRow, Dates
    <2>2. \/ period'[Last].end = period[Last].end
          \/ kind = "extended" /\ period[Last].end =< period'[Last].end
      BY <1>6 DEF Tells
    <2> QED  BY <2>1, <2>2
  <1>8. fetched.end =< period[Last].end /\ (~Extended => fetched.end = period[Last].end)
    BY DEF AnswerTold
  <1>9. fetched.end =< period'[Last].end /\ (~Extended' => fetched.end = period'[Last].end)
    BY <1>4, <1>6, <1>7, <1>8
  <1>10. ASSUME NEW k \in Notices', Of(k)'
         PROVE  IF Signed(k) < fetched.signed
                THEN /\ notice'[k].kind \notin Late /\ notice'[k].end =< fetched.end
                     /\ Refunded(k)' => \E j \in Notices' : /\ k < j /\ Restored(j)'
                                                            /\ Signed(j) < fetched.signed
                ELSE fetched.end =< notice'[k].end
    <2>1. CASE k = n
      BY <1>1, <1>2, <1>5, <1>9, <1>10, <2>1
    <2>2. CASE k \in Notices
      <3>1. IF Signed(k) < fetched.signed
            THEN /\ notice[k].kind \notin Late /\ notice[k].end =< fetched.end
                 /\ Refunded(k) => \E j \in Notices : /\ k < j /\ Restored(j)
                                                      /\ Signed(j) < fetched.signed
            ELSE fetched.end =< notice[k].end
        BY <1>2, <1>10, <2>2 DEF AnswerTold
      <3>2. notice'[k] = notice[k] /\ (Refunded(k)' <=> Refunded(k))
        BY <1>1, <1>3, <2>2
      <3>3. \A j \in Notices : Restored(j) => j \in Notices' /\ Restored(j)'
        BY <1>1, <1>3
      <3> QED  BY <3>1, <3>2, <3>3
    <2> QED  BY <1>1, <2>1, <2>2
  <1> QED  BY <1>9, <1>10

(* The same over a charge.                                                 *)
LEMMA ChargeTells ==
  ASSUME IInv, OInv, Told, Charges, fetched' = fetched
  PROVE  Told' /\ Last' = Last + 1
PROOF
  <1>0. PICK n : n = Len(notice')
    OBVIOUS
  <1>1. /\ Last \in Nat
        /\ \A k \in Notices : notice[k].tx \in Nat /\ notice[k].tx =< Last
        /\ period \in [Periods -> PeriodRow] /\ clock \in Nat /\ \A q \in Periods : q \in Nat
    <2>1. clock \in Nat
      BY AppleAssumption DEF AppleAssumption, IInv, AppleFits
    <2> QED  BY <2>1, MailUpToLast, PeriodsAreFinite DEF IInv, AppleFits, Periods
  <1> DEFINE t == Last + 1
             s == StartOfNext
  <1>2. /\ t \in Periods /\ Notify("charge", t) /\ clock' = clock
        /\ period' = [period EXCEPT ![t] = [start |-> s, end |-> s + 1, state |-> "paid"]]
        /\ phase' = [at |-> "active", grace |-> 0]
    <2>1. MaxPeriods \in Nat /\ Last < MaxPeriods
      BY PeriodsAreFinite DEF Charges
    <2> QED  BY <1>1, <2>1 DEF Charges, Periods
  <1>3. /\ \A q \in Periods : q # t => period'[q] = period[q]
        /\ period'[t] = [start |-> s, end |-> s + 1, state |-> "paid"]
        /\ s \in Nat
    <2>1. s \in Nat
      BY NextStartFits DEF IInv, Charges
    <2> QED  BY <1>1, <1>2, <2>1
  <1>4. /\ period'[t].start = s /\ period'[t].end = s + 1 /\ period'[t].state = "paid"
        /\ phase'.at = "active" /\ phase'.grace = 0
    BY <1>2, <1>3
  <1> HIDE DEF s, t
  <1>5. Last' = t
    BY ChargesInOrder DEF OInv, t
  <1>6. /\ Notices' = Notices \cup {n} /\ NoticesKept
        /\ \A k \in Notices : notice'[k] = notice[k] /\ k \in Nat /\ k < n
        /\ n \in Nat /\ notice'[n].kind = "charge" /\ notice'[n].tx = t
        /\ notice'[n].end = period'[t].end /\ notice'[n].grace = phase'.grace
    BY <1>0, <1>2, NoticeSent DEF IInv
  <1>7. \A k \in Notices' : Of(k)' => k = n
    BY <1>1, <1>5, <1>6 DEF Of, t
  <1>8. ChargesTold'
    <2>1. \A k \in Notices : notice[k].tx < t
      BY <1>1 DEF t
    <2> QED  BY <1>2, <2>1, TellsCharges DEF Told
  <1>9. RefundsTold'
    <2>1. \A k \in Notices' : ~Refunded(k)'
      BY <1>6, <1>7 DEF Refunded
    <2> QED  BY <1>4, <1>5, <2>1 DEF RefundsTold
  <1>10. PeriodsFit'
    <2>1. ASSUME NEW q \in Periods, Charged(q)'
          PROVE  /\ period'[q].start < period'[q].end
                 /\ ~Extended' => period'[q].end = period'[q].start + 1
                 /\ period'[q].state = "refunded" => period'[q].start =< clock
      <3>1. CASE q = t
        BY <1>3, <1>4, <3>1
      <3>2. CASE q # t
        <4>1. Charged(q) /\ period'[q] = period[q]
          BY <1>3, <2>1, <3>2 DEF Charged
        <4>2. ~Extended' => ~Extended
          BY <1>6, ExtendedStays
        <4> QED  BY <4>1, <4>2 DEF Told, PeriodsFit
      <3> QED  BY <3>1, <3>2
    <2> QED  BY <1>2, <2>1 DEF PeriodsFit
  <1>11. EndsTold'
    <2>1. period'[t].end \in Nat /\ "charge" \notin Late
      BY <1>3, <1>4 DEF Late
    <2> QED  BY <1>5, <1>6, <1>7, <2>1 DEF EndsTold
  <1>12. PhaseFits' /\ PhaseTold' /\ GraceTold'
    <2>1. "charge" \notin Late /\ "charge" \notin StatusKinds
      BY DEF Late, StatusKinds
    <2>2. t # 0
      BY <1>1 DEF t
    <2> QED  BY <1>1, <1>2, <1>4, <1>5, <1>6, <1>7, <2>1, <2>2
             DEF PhaseFits, PhaseTold, GraceTold
  <1>13. AnswerTold'
    <2>1. fetched # NoFetch => fetched.tx =< Last /\ fetched.tx \in Nat
      BY <1>1 DEF OInv, MailIsCharged, PeriodsInOrder, IInv, MailFits
    <2> QED  BY <1>1, <1>5, <2>1 DEF AnswerTold, t
  <1> QED  BY <1>5, <1>8, <1>9, <1>10, <1>11, <1>12, <1>13 DEF Told, t

(* The notifications as they were sent.                                    *)
NoticesSame ==
  /\ Notices' = Notices
  /\ \A k \in Notices : /\ notice'[k].kind = notice[k].kind /\ notice'[k].tx = notice[k].tx
                        /\ notice'[k].end = notice[k].end /\ notice'[k].grace = notice[k].grace

(* Notifications as they were sent are of the same transactions.           *)
LEMMA SameLast ==
  ASSUME NoticesSame, UNCHANGED period
  PROVE  /\ Last' = Last /\ (Extended' <=> Extended)
         /\ \A k \in Notices : /\ Of(k)' <=> Of(k)
                               /\ Refunded(k)' <=> Refunded(k)
                               /\ Restored(k)' <=> Restored(k)
PROOF
  <1>1. Last' = Last
    BY LastStays DEF Charged
  <1> QED  BY <1>1 DEF NoticesSame, Of, Refunded, Restored, Extended

(* What is told holds on while the clock ticks and notifications are       *)
(* handled.                                                                *)
LEMMA ToldStays ==
  ASSUME IInv, IInv', OInv, Told, NoticesSame, UNCHANGED <<period, phase>>, clock =< clock',
         fetched' \in {fetched, NoFetch}
  PROVE  Told'
PROOF
  <1>1. /\ Last' = Last /\ (Extended' <=> Extended)
        /\ \A k \in Notices : /\ Of(k)' <=> Of(k)
                              /\ Refunded(k)' <=> Refunded(k)
                              /\ Restored(k)' <=> Restored(k)
    BY SameLast
  <1>2. /\ Notices' = Notices
        /\ \A k \in Notices : /\ notice'[k].kind = notice[k].kind /\ notice'[k].tx = notice[k].tx
                              /\ notice'[k].end = notice[k].end
                              /\ notice'[k].grace = notice[k].grace
    BY DEF NoticesSame
  <1>3. clock \in Nat /\ clock' \in Nat
    BY AppleAssumption DEF AppleAssumption, IInv, AppleFits
  <1>4. \A k \in Notices : notice[k].grace \in Nat
    BY MailUpToLast DEF NoticeRow, Dates
  <1>5. \A p \in Periods : (Charged(p)' <=> Charged(p)) /\ period[p].start \in Nat
                           /\ period[p].end \in Nat
    BY DEF Charged, IInv, AppleFits, PeriodRow, Dates
  <1>6. ChargesTold'
    BY <1>2 DEF Told, ChargesTold
  <1>7. RefundsTold'
    BY <1>1, <1>2 DEF Told, RefundsTold
  <1>8. PeriodsFit'
    BY <1>1, <1>3, <1>5 DEF Told, PeriodsFit
  <1>9. EndsTold'
    <2>1. ASSUME NEW k \in Notices, Of(k)
          PROVE  /\ notice[k].end =< period[Last].end
                 /\ ~Extended => notice[k].end = period[Last].end
                 /\ notice[k].kind \in Late => period[Last].end =< clock'
      <3>1. Last \in Periods
        BY <2>1, MailUpToLast DEF Of
      <3> QED  BY <1>3, <1>5, <2>1, <3>1 DEF Told, EndsTold
    <2> QED  BY <1>1, <1>2, <2>1 DEF Told, EndsTold
  <1>10. PhaseFits' /\ PhaseTold'
    BY <1>1, <1>2 DEF Told, PhaseFits, PhaseTold
  <1>11. GraceTold'
    <2>1. \A k \in Notices : notice[k].grace =< clock => notice[k].grace =< clock'
      BY <1>3, <1>4
    <2> QED  BY <1>1, <1>2, <2>1 DEF Told, GraceTold
  <1>12. AnswerTold'
    BY <1>1, <1>2 DEF Told, AnswerTold, Signed
  <1> QED  BY <1>6, <1>7, <1>8, <1>9, <1>10, <1>11, <1>12 DEF Told

(* An answer that a client gets is signed after all that was told.         *)
LEMMA AskTells ==
  ASSUME IInv, OInv, AnswerTold, EndsTold, RefundsTold, NEW p \in Periods, ClientAsks(p)
  PROVE  AnswerTold'
PROOF
  <1>1. /\ UNCHANGED <<period, notice>> /\ period[p].state = "paid" /\ clock < period[p].end
        /\ fetched' = [tx |-> p, end |-> period[p].end, signed |-> 2 * Len(notice) + 1]
    BY DEF ClientAsks, apple
  <1>2. NoticesSame /\ Notices' = Notices
    BY <1>1 DEF NoticesSame, Notices
  <1>3. /\ Last' = Last /\ (Extended' <=> Extended)
        /\ \A k \in Notices : /\ Of(k)' <=> Of(k)
                              /\ Refunded(k)' <=> Refunded(k)
                              /\ Restored(k)' <=> Restored(k)
    BY <1>1, <1>2, SameLast
  <1>4. \A k \in Notices : Signed(k) < fetched'.signed
    BY <1>1, NoticesNumbered DEF IInv
  <1>5. fetched'.tx = p /\ fetched'.end = period[p].end /\ period[p].end \in Nat /\ clock \in Nat
    BY <1>1, AppleAssumption DEF AppleAssumption, IInv, AppleFits, PeriodRow, Dates
  <1> SUFFICES ASSUME p = Last
               PROVE  /\ fetched'.end =< period[Last].end
                      /\ ~Extended => fetched'.end = period[Last].end
                      /\ \A k \in Notices : Of(k) =>
                           /\ notice[k].kind \notin Late /\ notice[k].end =< fetched'.end
                           /\ Refunded(k) => \E j \in Notices : k < j /\ Restored(j)
    BY <1>1, <1>2, <1>3, <1>4, <1>5 DEF AnswerTold, Signed
  <1>6. \A k \in Notices : Of(k) => notice[k].kind \notin Late
    BY <1>1, <1>5 DEF EndsTold
  <1>7. \A k \in Notices : Refunded(k) => \E j \in Notices : k < j /\ Restored(j)
    <2>1. Last > 0
      BY PeriodsAreFinite DEF Periods
    <2> QED  BY <1>1, <2>1 DEF RefundsTold
  <1> QED  BY <1>5, <1>6, <1>7 DEF EndsTold

(* A row of apple_notification_events changes nothing that was sent.       *)
LEMMA RowSame ==
  ASSUME MailFits, NEW k \in Notices, NEW status, NEW read,
         notice' = [notice EXCEPT ![k].status = status, ![k].read = read]
  PROVE  NoticesSame
PROOF
  <1>1. notice \in Seq(NoticeRow) /\ \A j \in Notices : notice[j] \in NoticeRow
    BY NoticeFits DEF MailFits
  <1>2. Notices' = Notices
    BY <1>1 DEF Notices
  <1>3. \A j \in Notices : j # k => notice'[j] = notice[j]
    BY <1>1 DEF Notices
  <1>4. /\ notice'[k].kind = notice[k].kind /\ notice'[k].tx = notice[k].tx
        /\ notice'[k].end = notice[k].end /\ notice'[k].grace = notice[k].grace
    BY <1>1 DEF Notices, NoticeRow
  <1> QED  BY <1>2, <1>3, <1>4 DEF NoticesSame

(* Only Apple's steps tell anything.                                       *)
LEMMA OthersTellNothing ==
  ASSUME IInv, [Next]_vars, ~AppleNext
  PROVE  NoticesSame /\ UNCHANGED <<clock, period, phase>>
PROOF
  <1>1. MailFits
    BY DEF IInv
  <1>2. ASSUME NEW k \in Notices, NEW status \in {"processed", "received"},
               Handles(k, status) \/ HandlesLifecycle(k, status)
        PROVE  NoticesSame /\ UNCHANGED <<clock, period, phase>>
    <2>1. notice' = [notice EXCEPT ![k].status = status, ![k].read = 0]
          /\ UNCHANGED <<clock, period, phase>>
      BY <1>2 DEF Handles, HandlesLifecycle, Row, apple
    <2> QED  BY <1>1, <2>1, RowSame
  <1>3. ASSUME NEW k \in Notices, ReadsFamily(k) \/ Fails(k) \/ Dies(k)
        PROVE  NoticesSame /\ UNCHANGED <<clock, period, phase>>
    <2>1. \E status, read : notice' = [notice EXCEPT ![k].status = status, ![k].read = read]
      BY <1>3 DEF ReadsFamily, Fails, Dies, Row
    <2>2. UNCHANGED <<clock, period, phase>>
      BY <1>3 DEF ReadsFamily, Fails, Dies, apple
    <2> QED  BY <1>1, <2>1, <2>2, RowSame
  <1>4. CASE (\E p \in Periods : ClientAsks(p)) \/ ClientRecords \/ Refreshes \/ Deletes
             \/ UNCHANGED vars
    <2>1. notice' = notice /\ UNCHANGED <<clock, period, phase>>
      BY <1>4 DEF ClientAsks, ClientRecords, Refreshes, Deletes, vars, apple
    <2> QED  BY <2>1 DEF NoticesSame, Notices
  <1> QED  BY <1>2, <1>3, <1>4 DEF Next

(* What Apple tells stays true over every step.                            *)
LEMMA ToldStep ==
  ASSUME IInv, IInv', OInv, MailInOrder, Told, [Next]_vars
  PROVE  Told'
PROOF
  <1>1. clock \in Nat
    BY AppleAssumption DEF AppleAssumption, IInv, AppleFits
  <1>2. CASE AppleNext
    <2>1. UNCHANGED <<fetched, asked, other, db, inOrder>>
      BY <1>2 DEF AppleNext
    <2>2. CASE Charges
      BY <2>1, <2>2, ChargeTells
    <2>3. CASE Tick
      <3>1. UNCHANGED <<period, phase, notice>> /\ clock =< clock'
        BY <1>1, <2>3 DEF Tick
      <3>2. NoticesSame
        BY <3>1 DEF NoticesSame, Notices
      <3> QED  BY <2>1, <3>1, <3>2, ToldStays
    <2>4. CASE ~Charges /\ ~Tick
      <3>1. PICK kind, p : p \in Periods /\ Tells(kind, p)
        BY <1>2, <2>4, AppleTells
      <3>2. ChargesTold'
        BY <3>1, TellsCharges DEF Told, Tells
      <3>3. RefundsTold'
        BY <3>1, TellsRefunds DEF Told
      <3>4. PeriodsFit' /\ EndsTold'
        BY <3>1, TellsPeriods, TellsEnds DEF Told
      <3>5. PhaseFits' /\ PhaseTold'
        BY <3>1, TellsPhase DEF Told
      <3>6. GraceTold'
        BY <3>1, TellsGrace DEF Told
      <3>7. AnswerTold'
        BY <2>1, <3>1, TellsAnswer DEF Told
      <3> QED  BY <3>2, <3>3, <3>4, <3>5, <3>6, <3>7 DEF Told
    <2> QED  BY <2>2, <2>3, <2>4
  <1>3. ASSUME NEW p \in Periods, ClientAsks(p) PROVE Told'
    <2>1. AnswerTold'
      BY <1>3, AskTells DEF Told
    <2>2. UNCHANGED <<clock, period, phase, notice>>
      BY <1>3 DEF ClientAsks, apple
    <2>3. NoticesSame /\ Notices' = Notices
      BY <2>2 DEF NoticesSame, Notices
    <2>4. /\ Last' = Last /\ (Extended' <=> Extended)
          /\ \A k \in Notices : /\ Of(k)' <=> Of(k)
                                /\ Refunded(k)' <=> Refunded(k)
                                /\ Restored(k)' <=> Restored(k)
      BY <2>2, <2>3, SameLast
    <2>5. ChargesTold' /\ RefundsTold' /\ EndsTold' /\ PhaseFits' /\ PhaseTold' /\ GraceTold'
      BY <2>2, <2>3, <2>4
         DEF Told, ChargesTold, RefundsTold, EndsTold, PhaseFits, PhaseTold, GraceTold
    <2>6. PeriodsFit'
      BY <2>2, <2>4 DEF Told, PeriodsFit, Charged
    <2> QED  BY <2>1, <2>5, <2>6 DEF Told
  <1>4. CASE ~AppleNext /\ ~\E p \in Periods : ClientAsks(p)
    <2>1. NoticesSame /\ UNCHANGED <<clock, period, phase>>
      BY <1>4, OthersTellNothing
    <2>2. fetched' \in {fetched, NoFetch}
      BY <1>4 DEF Next, ClientRecords, Handles, HandlesLifecycle, ReadsFamily, Fails, Dies,
         Refreshes, Deletes, vars
    <2>3. clock =< clock'
      BY <1>1, <2>1
    <2> QED  BY <2>1, <2>2, <2>3, ToldStays
  <1> QED  BY <1>2, <1>3, <1>4

(* Notifications that are applied in order are processed in order.         *)
LEMMA PrefixStep ==
  ASSUME IInv, MailInOrder, inOrder => AppliedInOrder, inOrder => InPrefix, [Next]_vars, inOrder'
  PROVE  inOrder /\ InPrefix'
PROOF
  <1>1. MailFits /\ \A k \in Notices : k \in Nat /\ k > 0 /\ k \in 1..Len(notice)
    BY NoticesNumbered DEF IInv, Notices
  <1>2. NoticesKept
    BY StepKeeps
  <1>3. ASSUME inOrder, \A k \in Notices' : Processed(k)' => k \in Notices /\ Processed(k)
        PROVE  InPrefix'
    <2>1. ASSUME NEW j \in Notices', NEW k \in Notices', j < k, Processed(k)'
          PROVE  Processed(j)'
      <3>1. k \in Notices /\ Processed(k) /\ k \in 1..Len(notice)
        BY <1>1, <1>3, <2>1
      <3>2. j \in Notices
        BY <2>1, <3>1 DEF Notices
      <3> QED  BY <1>2, <1>3, <2>1, <3>1, <3>2 DEF InPrefix, NoticesKept
    <2> QED  BY <2>1 DEF InPrefix
  <1>4. ASSUME inOrder, NEW k \in Notices, NEW status, NEW read, Claimable(k),
               notice' = [notice EXCEPT ![k].status = status, ![k].read = read],
               status = "processed" => \A j \in Notices : j < k => Processed(j)
        PROVE  InPrefix'
    <2>1. /\ Notices' = Notices /\ \A j \in Notices : j # k => notice'[j] = notice[j]
          /\ notice'[k].status = status
      BY <1>1, <1>4, RowKept
    <2>2. ASSUME NEW j \in Notices', NEW i \in Notices', j < i, Processed(i)'
          PROVE  Processed(j)'
      <3>1. Processed(i) => Processed(j)
        BY <1>4, <2>1, <2>2 DEF InPrefix
      <3>2. Processed(i) \/ (i = k /\ status = "processed")
        BY <2>1, <2>2 DEF Processed
      <3>3. Processed(j)
        BY <1>4, <2>1, <2>2, <3>1, <3>2
      <3> QED  BY <1>2, <2>1, <2>2, <3>3 DEF NoticesKept
    <2> QED  BY <2>2 DEF InPrefix
  <1>5. ASSUME NEW k \in Notices, NEW status \in {"processed", "received"}, Handles(k, status)
        PROVE  inOrder /\ InPrefix'
    <2>1. /\ Claimable(k) /\ notice' = [notice EXCEPT ![k].status = status, ![k].read = 0]
          /\ inOrder /\ \A j \in 1..(k - 1) : Processed(j)
      BY <1>5 DEF Handles, Row, Overtakes, Processed
    <2>2. \A j \in Notices : j < k => Processed(j)
      BY <1>1, <2>1
    <2> QED  BY <1>4, <2>1, <2>2
  <1>6. ASSUME NEW k \in Notices, NEW status \in {"processed", "received"},
               HandlesLifecycle(k, status)
        PROVE  inOrder /\ InPrefix'
    <2>1. /\ notice' = [notice EXCEPT ![k].status = status, ![k].read = 0]
          /\ inOrder /\ notice[k].read # 0
      BY <1>6 DEF HandlesLifecycle, Row
    <2>2. Claimable(k) /\ \A j \in Notices : j < k => Processed(j)
      BY <2>1 DEF MailInOrder, AppliedInOrder, Claimable
    <2> QED  BY <1>4, <2>1, <2>2
  <1>7. ASSUME NEW k \in Notices, ReadsFamily(k) \/ Fails(k) \/ Dies(k)
        PROVE  inOrder /\ InPrefix'
    <2>1. inOrder /\ Claimable(k) /\ \E status \in {"owed", "received"} : \E read :
            notice' = [notice EXCEPT ![k].status = status, ![k].read = read]
      BY <1>7 DEF ReadsFamily, Fails, Dies, Row, Overtakes
    <2> QED  BY <1>4, <2>1
  <1>8. CASE AppleNext
    <2>1. inOrder
      BY <1>8 DEF AppleNext
    <2>2. CASE notice' = notice
      BY <1>3, <2>1, <2>2 DEF Processed, Notices
    <2>3. CASE \E kind, p : Notify(kind, p)
      <3>1. PICK n : n = Len(notice')
        OBVIOUS
      <3>2. /\ Notices' = Notices \cup {n} /\ \A k \in Notices : notice'[k] = notice[k]
            /\ notice'[n].status = "owed"
        BY <1>1, <2>3, <3>1, NoticeSent
      <3> QED  BY <1>3, <2>1, <3>2 DEF Processed
    <2> QED  BY <1>8, <2>1, <2>2, <2>3, AppleNotifies
  <1>9. CASE (\E p \in Periods : ClientAsks(p)) \/ ClientRecords \/ Refreshes \/ Deletes
             \/ UNCHANGED vars
    <2>1. notice' = notice /\ inOrder
      BY <1>9 DEF ClientAsks, ClientRecords, Refreshes, Deletes, vars, Overtakes
    <2> QED  BY <1>3, <2>1 DEF Processed, Notices
  <1> QED  BY <1>5, <1>6, <1>7, <1>8, <1>9 DEF Next

---------------------------------------------------------------------------
(* What the rows keep while they are left alone.                           *)

(* The rows of the last transaction, for the provers' arithmetic.          *)
LEMMA LastIsTyped ==
  ASSUME IInv, Last \in Periods
  PROVE  /\ orders[Last].signed \in Nat /\ orders[Last].end \in Nat
         /\ sub.signed \in Nat /\ sub.expires \in Nat /\ sub.grace \in Nat
         /\ period[Last].end \in Nat /\ clock \in Nat /\ phase.grace \in Nat
         /\ \A k \in Notices : /\ k \in Nat /\ Signed(k) = 2 * k
                               /\ notice[k].end \in Nat /\ notice[k].grace \in Nat
PROOF
  <1>1. orders[Last] \in OrderRow /\ sub \in SubRow /\ period[Last] \in PeriodRow
        /\ phase \in PhaseRow /\ clock \in Nat
    BY AppleAssumption DEF AppleAssumption, IInv, AppleFits, DbFits, DbTyped
  <1>2. \A k \in Notices : k \in Nat /\ notice[k] \in NoticeRow
    BY NoticesNumbered, NoticeFits DEF IInv
  <1> QED  BY <1>1, <1>2 DEF OrderRow, SubRow, PeriodRow, PhaseRow, NoticeRow, Dates, Signed

(* Notifications that change nothing were signed before the order.         *)
LEMMA KeptStays ==
  ASSUME IInv, Kept, Last \in Periods, NoticesSame, NoticesKept,
         UNCHANGED <<period, phase, sub>>, clock' \in Nat, clock =< clock',
         orders'[Last] = orders[Last], grants'[Last] = grants[Last],
         \A k \in Notices : Of(k) /\ Processed(k)'
           => Processed(k) \/ Signed(k) < orders[Last].signed
  PROVE  Kept'
PROOF
  <1>1. /\ Last' = Last /\ (Extended' <=> Extended)
        /\ \A k \in Notices : /\ Of(k)' <=> Of(k)
                              /\ Refunded(k)' <=> Refunded(k)
                              /\ Restored(k)' <=> Restored(k)
    BY SameLast
  <1>2. /\ Notices' = Notices
        /\ \A k \in Notices : /\ notice'[k].kind = notice[k].kind
                              /\ notice'[k].end = notice[k].end
                              /\ Processed(k) => Processed(k)'
    BY DEF NoticesSame, NoticesKept
  <1>3. /\ orders[Last].signed \in Nat /\ orders[Last].end \in Nat /\ clock \in Nat
        /\ sub.grace \in Nat /\ phase.grace \in Nat
        /\ \A k \in Notices : Signed(k) \in Nat
    BY LastIsTyped
  <1>4. \A k \in Notices : Of(k) => (Applied(k)' <=> Applied(k))
    BY <1>1, <1>2, <1>3 DEF Applied, Signed
  <1>5. RefundStands' <=> RefundStands
    BY <1>1, <1>2, <1>4 DEF RefundStands, Refunded, Restored
  <1>6. DatesKept'
    BY <1>1, <1>2 DEF Kept, DatesKept, Signed
  <1>7. GrantKept'
    <2>1. orders[Last].end =< clock => orders[Last].end =< clock'
      BY <1>3
    <2> QED  BY <1>1, <1>2, <1>5, <2>1 DEF Kept, GrantKept
  <1>8. GraceKept'
    <2>1. \A k \in Notices : Of(k) /\ notice[k].kind = "grace" /\ Processed(k)' => Processed(k)
      BY DEF Kept, DatesKept, Late
    <2>2. /\ clock' < phase.grace => clock < phase.grace
          /\ clock' < sub.grace => clock < sub.grace
      BY <1>3
    <2>3. \A k \in Notices : Restored(k)' /\ Applied(k)' => sub.status # "grace"
      BY <1>1, <1>4 DEF Kept, GraceKept, Restored
    <2> QED  BY <1>1, <1>2, <2>1, <2>2, <2>3 DEF Kept, GraceKept
  <1> QED  BY <1>6, <1>7, <1>8 DEF Kept

(* Apple's steps: what they tell is newer than the rows.                   *)
LEMMA TellsKept ==
  ASSUME IInv, IInv', OInv, MailInOrder, Told, Told', Kept, Last \in Periods,
         NEW kind, NEW p \in Periods, Tells(kind, p), UNCHANGED <<orders, grants, sub>>
  PROVE  Kept'
PROOF
  <1>0. PICK n : n = Len(notice')
    OBVIOUS
  <1>1. /\ Notices' = Notices \cup {n} /\ NoticesKept /\ n = Len(notice) + 1 /\ n \in Nat
        /\ \A k \in Notices : notice'[k] = notice[k] /\ k \in Nat /\ k < n
        /\ notice'[n].kind = kind /\ notice'[n].tx = p /\ notice'[n].end = period'[p].end
        /\ notice'[n].status = "owed"
    BY <1>0, NoticeSent DEF IInv, Tells
  <1>2. /\ Last' = Last /\ clock' = clock /\ (Of(n)' <=> p = Last)
        /\ \A k \in Notices : /\ Of(k)' <=> Of(k)
                              /\ Refunded(k)' <=> Refunded(k)
                              /\ Restored(k)' <=> Restored(k)
                              /\ Processed(k)' <=> Processed(k)
    BY <1>1, TellsOfLast DEF Of, Refunded, Restored, Processed, Tells
  <1>3. /\ orders[Last].signed \in Nat /\ orders[Last].end \in Nat /\ clock \in Nat
        /\ sub.grace \in Nat /\ sub.expires \in Nat /\ sub.signed \in Nat
        /\ phase.grace \in Nat /\ period[Last].end \in Nat
        /\ \A k \in Notices : Signed(k) \in Nat
    BY LastIsTyped
  <1>4. orders[Last].signed =< sub.signed /\ sub.signed =< 2 * Len(notice) + 1
        /\ Len(notice) \in Nat
    BY NoticesNumbered DEF Kept, DatesKept, MailInOrder, IInv
  <1>5. Signed(n) \in Nat /\ sub.signed =< Signed(n) /\ ~(Signed(n) =< orders[Last].signed)
        /\ ~Processed(n)'
    BY <1>1, <1>3, <1>4 DEF Signed, Processed
  <1>6. (\A k \in Notices : Applied(k)' <=> Applied(k)) /\ ~Applied(n)'
    BY <1>2, <1>5 DEF Applied, Signed
  <1>7. RefundStands' <=> RefundStands
    BY <1>1, <1>2, <1>6 DEF RefundStands
  <1>8. ~Extended' => ~Extended /\ kind # "extended"
    BY <1>1, ExtendedStays DEF Extended
  <1>9. /\ period'[Last].end \in Nat /\ period[Last].end =< period'[Last].end
        /\ kind # "extended" => period'[Last].end = period[Last].end
    <2>1. period'[Last].end \in Nat
      BY DEF IInv, AppleFits, PeriodRow, Dates
    <2>2. \/ period'[Last].end = period[Last].end
          \/ kind = "extended" /\ period[Last].end =< period'[Last].end
      BY DEF Tells
    <2> QED  BY <1>3, <2>1, <2>2
  <1>10. DatesKept'
    <2>1. /\ orders[Last].end =< period'[Last].end
          /\ sub.expires =< period'[Last].end
          /\ ~Extended' => orders[Last].end = period'[Last].end
      <3>1. sub.expires =< period[Last].end
        BY DEF Kept, DatesKept
      <3> QED  BY <1>3, <1>8, <1>9, <3>1 DEF Kept, DatesKept
    <2>2. ASSUME NEW k \in Notices', Of(k)', ~Processed(k)'
          PROVE  IF Signed(k) < orders[Last].signed
                 THEN notice'[k].kind \notin Late /\ notice'[k].end =< sub.expires
                 ELSE sub.expires =< notice'[k].end /\ sub.signed =< Signed(k)
      <3>1. CASE k = n
        BY <1>1, <1>2, <1>3, <1>5, <2>1, <2>2, <3>1
      <3>2. CASE k \in Notices
        BY <1>1, <1>2, <2>2, <3>2 DEF Kept, DatesKept
      <3> QED  BY <1>1, <3>1, <3>2
    <2> QED  BY <1>2, <1>4, <2>1, <2>2 DEF DatesKept, Signed
  <1>11. GrantKept'
    BY <1>1, <1>2, <1>7, <1>8 DEF Kept, GrantKept
  <1>12. GraceKept'
    <2>1. ASSUME phase'.at = "grace", NEW k \in Notices', Of(k)', notice'[k].kind = "grace",
                 Processed(k)'
          PROVE  /\ phase' = phase /\ k \in Notices /\ Of(k)
                 /\ notice[k].kind = "grace" /\ Processed(k)
      <3>1. k \in Notices
        BY <1>1, <1>5, <2>1
      <3>2. Of(k) /\ notice[k].kind = "grace" /\ Processed(k)
        BY <1>1, <1>2, <2>1, <3>1
      <3>3. phase.at # "active"
        BY <3>1, <3>2 DEF Told, PhaseTold, Late
      <3> QED  BY <2>1, <3>1, <3>2, <3>3 DEF Tells
    <2>2. ASSUME sub.status = "grace", clock < sub.grace
          PROVE  \/ phase'.at = "grace" /\ phase'.grace = sub.grace
                 \/ \E k \in Notices' : Refunded(k)'
      <3>1. \A k \in Notices : Refunded(k) => k \in Notices' /\ Refunded(k)'
        BY <1>1, <1>2
      <3>2. CASE phase.at = "grace" /\ phase.grace = sub.grace
        <4>1. CASE phase' = phase
          BY <3>2, <4>1
        <4>2. CASE phase.grace =< clock
          BY <1>3, <2>2, <3>2, <4>2
        <4>3. CASE kind = "refunded" /\ p = Last
          BY <1>1, <1>2, <4>3 DEF Refunded
        <4> QED  BY <3>2, <4>1, <4>2, <4>3 DEF Tells
      <3> QED  BY <2>2, <3>1, <3>2 DEF Kept, GraceKept
    <2>3. \A k \in Notices' : Restored(k)' /\ Applied(k)' => sub.status # "grace"
      BY <1>1, <1>2, <1>6 DEF Kept, GraceKept
    <2> QED  BY <1>2, <1>8, <2>1, <2>2, <2>3 DEF Kept, GraceKept
  <1> QED  BY <1>10, <1>11, <1>12 DEF Kept

---------------------------------------------------------------------------
(* A notification of the last transaction that is newer than its rows,     *)
(* handled after all those before it.                                      *)

Fresh(k) ==
  /\ Of(k) /\ orders[Last].signed =< Signed(k)
  /\ \A j \in Notices : Processed(j) <=> j < k

Handled(k) ==
  /\ NoticesSame /\ NoticesKept /\ UNCHANGED <<clock, period, phase>>
  /\ \A j \in Notices : Processed(j)' => Processed(j) \/ j = k

(* What a handler of such a notification leaves as it was.                 *)
LEMMA FreshRows ==
  ASSUME IInv, Last \in Periods, NEW k \in Notices, Fresh(k), Handled(k),
         orders'[Last].signed \in {orders[Last].signed, Signed(k)}
  PROVE  /\ Last' = Last /\ (Extended' <=> Extended) /\ Notices' = Notices
         /\ \A j \in Notices :
              /\ Of(j)' <=> Of(j)
              /\ Refunded(j)' <=> Refunded(j)
              /\ Restored(j)' <=> Restored(j)
              /\ j # k => (Applied(j) <=> j < k) /\ (Applied(j)' <=> j < k)
              /\ ~Processed(j)' => k =< j
              /\ Processed(j)' => j < k \/ j = k
         /\ orders'[Last].signed = Signed(k) => Applied(k)'
PROOF
  <1>1. /\ Last' = Last /\ (Extended' <=> Extended)
        /\ \A j \in Notices : /\ Of(j)' <=> Of(j)
                              /\ Refunded(j)' <=> Refunded(j)
                              /\ Restored(j)' <=> Restored(j)
    BY SameLast DEF Handled
  <1>2. orders[Last].signed \in Nat /\ \A j \in Notices : j \in Nat /\ Signed(j) = 2 * j
    BY LastIsTyped
  <1>3. ASSUME NEW j \in Notices
        PROVE  /\ j < k => Processed(j) /\ Processed(j)'
               /\ Processed(j)' => j < k \/ j = k
               /\ Signed(j) =< Signed(k) <=> j =< k
    BY <1>2 DEF Fresh, Handled, NoticesKept
  <1>4. ASSUME NEW j \in Notices, j # k
        PROVE  (Applied(j) <=> j < k) /\ (Applied(j)' <=> j < k)
    <2>1. /\ Signed(j) =< orders[Last].signed => j < k
          /\ Signed(j) =< orders'[Last].signed => j < k
      BY <1>2, <1>3, <1>4 DEF Fresh
    <2>2. Processed(j) => j < k
      BY DEF Fresh
    <2> QED  BY <1>1, <1>3, <1>4, <2>1, <2>2 DEF Applied, Signed
  <1>5. orders'[Last].signed = Signed(k) => Applied(k)'
    BY <1>1, <1>2 DEF Applied, Signed
  <1>6. \A j \in Notices : ~Processed(j)' => k =< j
    BY <1>2, <1>3
  <1> QED  BY <1>1, <1>3, <1>4, <1>5, <1>6 DEF Handled, NoticesSame

(* The dates that such a handler may write.                                *)
LEMMA FreshDates ==
  ASSUME IInv, Told, Kept, Last \in Periods, NEW k \in Notices, Fresh(k), Handled(k),
         orders'[Last].signed \in {orders[Last].signed, Signed(k)},
         \/ orders'[Last].end = orders[Last].end
         \/ notice[k].kind = "extended" /\ orders'[Last].end = notice[k].end,
         sub'.expires \in {sub.expires, notice[k].end}, sub'.signed = Signed(k)
  PROVE  DatesKept'
PROOF
  <1>1. /\ Last' = Last /\ (Extended' <=> Extended) /\ Notices' = Notices
        /\ \A j \in Notices : (Of(j)' <=> Of(j)) /\ (~Processed(j)' => k =< j)
    BY FreshRows
  <1>2. /\ orders[Last].signed \in Nat /\ orders[Last].end \in Nat /\ sub.expires \in Nat
        /\ period[Last].end \in Nat
        /\ \A j \in Notices : j \in Nat /\ Signed(j) = 2 * j /\ notice[j].end \in Nat
    BY LastIsTyped
  <1>3. /\ notice[k].end =< period[Last].end
        /\ \A j \in Notices : Of(j) /\ k =< j => notice[k].end =< notice[j].end
    BY <1>2 DEF Told, EndsTold, Fresh
  <1>4. ~Processed(k) /\ sub.expires =< notice[k].end
    <2>1. ~Processed(k) /\ Of(k) /\ ~(Signed(k) < orders[Last].signed)
      BY <1>2 DEF Fresh
    <2> QED  BY <2>1 DEF Kept, DatesKept
  <1>5. /\ orders'[Last].end =< period[Last].end /\ sub'.expires =< period[Last].end
        /\ sub'.expires \in Nat /\ sub'.expires =< notice[k].end
        /\ ~Extended => orders'[Last].end = period[Last].end
        /\ orders'[Last].signed =< Signed(k) /\ orders'[Last].signed \in Nat
    BY <1>2, <1>3, <1>4 DEF Kept, DatesKept, Extended, Fresh
  <1>6. ASSUME NEW j \in Notices, Of(j), ~Processed(j)'
        PROVE  ~(Signed(j) < orders'[Last].signed) /\ sub'.expires =< notice[j].end
               /\ Signed(k) =< Signed(j)
    <2>1. k =< j /\ notice[k].end =< notice[j].end
      BY <1>1, <1>3, <1>6
    <2> QED  BY <1>2, <1>5, <1>6, <2>1
  <1> QED  BY <1>1, <1>5, <1>6 DEF DatesKept, Handled, NoticesSame, Signed

(* No other is told before the charge.                                     *)
LEMMA ChargeIsFirst ==
  ASSUME IInv, OInv, MailInOrder, ChargesTold, NEW k \in Notices, notice[k].kind = "charge", Of(k)
  PROVE  \A j \in Notices : j < k => ~Of(j)
PROOF
  <1> SUFFICES ASSUME NEW j \in Notices, j < k, Of(j) PROVE FALSE
    OBVIOUS
  <1>1. PICK c \in Notices : ChargeOf(c, notice[j].tx) /\ c =< j
    BY DEF MailInOrder
  <1>2. c < k
    BY <1>1, LastIsTyped, NoticesNumbered DEF IInv
  <1>3. notice[c].tx < notice[k].tx /\ notice[c].tx = Last /\ notice[k].tx = Last
    BY <1>1, <1>2 DEF ChargesTold, ChargeOf, Of
  <1> QED  BY <1>3, MailUpToLast

(* The charge of an order that a client's answer made.                     *)
LEMMA ConfirmKept ==
  ASSUME IInv, OInv, MailInOrder, Told, Kept, Last \in Periods, NEW k \in Notices, Fresh(k),
         Handled(k), notice[k].kind = "charge", ConfirmsCharge(notice[k], Signed(k))
  PROVE  Kept'
PROOF
  <1>1. sub \in SubRow /\ UNCHANGED <<orders, grants>>
    BY DEF IInv, DbFits, DbTyped, ConfirmsCharge
  <1>2. /\ Last' = Last /\ (Extended' <=> Extended) /\ Notices' = Notices
        /\ \A j \in Notices :
             /\ Of(j)' <=> Of(j)
             /\ Refunded(j)' <=> Refunded(j)
             /\ Restored(j)' <=> Restored(j)
             /\ j # k => (Applied(j) <=> j < k) /\ (Applied(j)' <=> j < k)
             /\ Processed(j)' => j < k \/ j = k
    BY <1>1, FreshRows
  <1>3. ~Stale(notice[k].end, Signed(k))
    <2>1. /\ orders[Last].signed \in Nat /\ Signed(k) \in Nat /\ sub.expires \in Nat
          /\ sub.signed \in Nat /\ notice[k].end \in Nat /\ k \in Nat
      BY LastIsTyped
    <2>2. ~Processed(k) /\ Of(k) /\ ~(Signed(k) < orders[Last].signed)
      BY <2>1 DEF Fresh
    <2>3. sub.expires =< notice[k].end /\ sub.signed =< Signed(k)
      BY <2>2 DEF Kept, DatesKept
    <2> QED  BY <2>1, <2>3 DEF Stale
  <1>4. sub'.status = "active" /\ sub'.expires = notice[k].end /\ sub'.signed = Signed(k)
    BY <1>1, <1>3 DEF ConfirmsCharge, SubRow
  <1>5. DatesKept'
    BY <1>1, <1>4, FreshDates
  <1>6. RefundStands' <=> RefundStands
    <2>1. ~Refunded(k) /\ ~Restored(k)
      BY DEF Refunded, Restored
    <2> QED  BY <1>2, <2>1 DEF RefundStands
  <1>7. GrantKept'
    <2>1. \A j \in Notices : notice'[j].kind = notice[j].kind
      BY DEF Handled, NoticesSame
    <2> QED  BY <1>1, <1>2, <1>6, <2>1 DEF Kept, GrantKept, Handled
  <1>8. GraceKept'
    <2>1. \A j \in Notices : Processed(j)' /\ Of(j) => j = k
      BY <1>2, ChargeIsFirst DEF Told, Fresh
    <2>2. \A j \in Notices : ~(Of(j)' /\ notice'[j].kind = "grace" /\ Processed(j)')
      BY <1>2, <2>1 DEF Handled, NoticesSame
    <2> QED  BY <1>2, <1>4, <2>2 DEF GraceKept
  <1> QED  BY <1>5, <1>7, <1>8 DEF Kept

(* What a status leaves in the rows of the current period.                 *)
LEMMA StatusRows ==
  ASSUME IInv, Last \in Periods, sub.current = Last, ~user.deleted, Active \subseteq {Last},
         NEW n \in NoticeRow, n.tx = Last, NEW signed, AppliesStatus(n, signed),
         ~StaleStatus(n, signed)
  PROVE  /\ orders'[Last].signed = signed /\ orders'[Last].end = orders[Last].end
         /\ sub'.expires = sub.expires /\ sub'.signed = signed /\ sub'.grace = sub.grace
         /\ IF n.kind = "restored"
            THEN grants'[Last] = "active" /\ sub'.status = "active"
            ELSE grants'[Last] # "active" /\ sub'.status \in {sub.status, "expired", "revoked"}
PROOF
  <1>1. orders \in [Periods -> OrderRow] /\ sub \in SubRow /\ grants \in [Periods -> GrantStates]
    BY DEF IInv, DbFits, DbTyped
  <1>2. orders'[Last].signed = signed /\ orders'[Last].end = orders[Last].end
    <2>1. orders' = [orders EXCEPT ![Last].signed = signed,
                                   ![Last].status = OrderStatus(n.kind, @)]
      BY DEF AppliesStatus
    <2> QED  BY <1>1, <2>1 DEF OrderRow
  <1> DEFINE s == SeenBySub(n, signed)
  <1>3. s \in [current : {sub.current}, expires : {sub.expires}, grace : {sub.grace},
               signed : {signed}, status : {sub.status}]
    BY <1>1 DEF SeenBySub, SubRow
  <1>4. CASE n.kind = "restored"
    <2>1. Active \ {n.tx} = {}
      OBVIOUS
    <2>2. /\ sub' = [s EXCEPT !.status = "active"]
          /\ \/ grants' = grants /\ grants[Last] = "active"
             \/ grants' = Superseding(Last)
      BY <1>4, <2>1 DEF AppliesStatus, Restores
    <2> HIDE DEF s
    <2>3. /\ sub'.expires = sub.expires /\ sub'.signed = signed /\ sub'.grace = sub.grace
          /\ sub'.status = "active"
      BY <1>3, <2>2
    <2>4. grants'[Last] = "active"
      BY <2>2 DEF Superseding
    <2> QED  BY <1>2, <1>4, <2>3, <2>4
  <1>5. CASE n.kind # "restored"
    <2>1. \/ sub' = s /\ grants' = grants /\ grants[Last] # "active"
          \/ /\ sub' = [s EXCEPT !.status = SubStatus(n.kind)]
             /\ grants'[Last] = GrantStatus(n.kind)
      BY <1>5 DEF AppliesStatus, Ends
    <2>2. SubStatus(n.kind) \in {"expired", "revoked"} /\ GrantStatus(n.kind) # "active"
      BY <1>5 DEF SubStatus, GrantStatus
    <2> HIDE DEF s
    <2>3. /\ sub'.expires = sub.expires /\ sub'.signed = signed /\ sub'.grace = sub.grace
          /\ sub'.status \in {sub.status, "expired", "revoked"}
      BY <1>3, <2>1, <2>2
    <2> QED  BY <1>2, <1>5, <2>1, <2>2, <2>3
  <1> QED  BY <1>4, <1>5

(* A refund, its reversal or the end, told after the rows.                 *)
LEMMA StatusKept ==
  ASSUME IInv, OInv, Told, Kept, Last \in Periods, sub.current = Last, ~user.deleted,
         Active \subseteq {Last}, NEW k \in Notices, Fresh(k), Handled(k),
         notice[k].kind \in StatusKinds, AppliesStatus(notice[k], Signed(k))
  PROVE  Kept'
PROOF
  <1>1. /\ orders[Last].signed \in Nat /\ orders[Last].end \in Nat /\ clock \in Nat
        /\ k \in Nat /\ Signed(k) \in Nat /\ sub.expires \in Nat
        /\ sub.signed \in Nat /\ notice[k].end \in Nat
        /\ \A j \in Notices : j \in Nat
    BY LastIsTyped
  <1>2. ~StaleStatus(notice[k], Signed(k))
    <2>1. notice[k].tx = Last /\ ~Processed(k) /\ Of(k) /\ ~(Signed(k) < orders[Last].signed)
      BY <1>1 DEF Fresh, Of
    <2>2. sub.expires =< notice[k].end /\ sub.signed =< Signed(k)
      BY <2>1 DEF Kept, DatesKept
    <2> QED  BY <1>1, <2>1, <2>2 DEF StaleStatus, Stale
  <1>3. /\ orders'[Last].signed = Signed(k) /\ orders'[Last].end = orders[Last].end
        /\ sub'.expires = sub.expires /\ sub'.signed = Signed(k) /\ sub'.grace = sub.grace
        /\ IF notice[k].kind = "restored"
           THEN grants'[Last] = "active" /\ sub'.status = "active"
           ELSE grants'[Last] # "active" /\ sub'.status \in {sub.status, "expired", "revoked"}
    <2>1. notice[k] \in NoticeRow /\ notice[k].tx = Last
      BY MailUpToLast DEF Fresh, Of
    <2> QED  BY <1>2, <2>1, StatusRows
  <1>4. /\ Last' = Last /\ (Extended' <=> Extended) /\ Notices' = Notices
        /\ \A j \in Notices :
             /\ Of(j)' <=> Of(j)
             /\ Refunded(j)' <=> Refunded(j)
             /\ Restored(j)' <=> Restored(j)
             /\ j # k => (Applied(j) <=> j < k) /\ (Applied(j)' <=> j < k)
        /\ Applied(k)'
    BY <1>3, FreshRows
  <1>5. /\ UNCHANGED <<clock, period, phase>> /\ Of(k)
        /\ \A j \in Notices : notice'[j].kind = notice[j].kind
    BY DEF Handled, NoticesSame, Fresh
  <1>6. DatesKept'
    BY <1>3, FreshDates
  <1>7. RefundStands' => grants'[Last] # "active"
    <2>1. ASSUME notice[k].kind = "restored" PROVE ~RefundStands'
      <3>1. Restored(k)' /\ \A j \in Notices : Refunded(j)' => j # k
        BY <1>4, <1>5, <2>1 DEF Restored, Refunded
      <3>2. \A j \in Notices : Refunded(j)' /\ Applied(j)' => ~(k < j)
        BY <1>1, <1>4, <3>1
      <3> QED  BY <1>4, <3>1, <3>2 DEF RefundStands
    <2> QED  BY <1>3, <2>1
  <1>8. ~Extended /\ ~RefundStands' => grants'[Last] = "active" \/ orders'[Last].end =< clock
    <2>1. CASE notice[k].kind = "restored"
      BY <1>3, <2>1
    <2>2. CASE notice[k].kind = "refunded"
      <3>1. Refunded(k)' /\ ~Restored(k)'
        BY <1>4, <1>5, <2>2 DEF Restored, Refunded
      <3>2. RefundStands'
        BY <1>4, <3>1 DEF RefundStands
      <3> QED  BY <3>2
    <2>3. CASE notice[k].kind = "expired"
      <3>1. period[Last].end =< clock
        BY <1>5, <2>3 DEF Told, EndsTold, Late
      <3> QED  BY <1>3, <3>1 DEF Kept, DatesKept
    <2> QED  BY <2>1, <2>2, <2>3 DEF StatusKinds
  <1>9. GrantKept'
    BY <1>4, <1>5, <1>7, <1>8 DEF GrantKept
  <1>10. GraceKept'
    <2>1. phase.at # "grace"
      BY <1>5 DEF Told, PhaseTold
    <2>2. sub'.status = "grace" => sub.status = "grace"
      BY <1>3
    <2>3. ASSUME sub'.status = "grace", clock < sub'.grace
          PROVE  \E j \in Notices : Refunded(j)'
      BY <1>3, <1>4, <2>1, <2>2, <2>3 DEF Kept, GraceKept
    <2>4. ASSUME NEW j \in Notices, Restored(j)', Applied(j)' PROVE sub'.status # "grace"
      <3>1. CASE j = k
        BY <1>3, <1>4, <2>4, <3>1 DEF Restored
      <3>2. CASE j # k
        BY <1>4, <2>2, <2>4, <3>2 DEF Kept, GraceKept
      <3> QED  BY <3>1, <3>2
    <2> QED  BY <1>4, <1>5, <2>1, <2>3, <2>4 DEF GraceKept
  <1> QED  BY <1>6, <1>9, <1>10 DEF Kept

(* What a lifecycle notification leaves in the rows of the current period. *)
LEMMA LifecycleRows ==
  ASSUME IInv, Last \in Periods, ~user.deleted, NEW n \in NoticeRow, NEW signed,
         AppliesLifecycle(n, signed, Last), ~(sub.signed > signed)
  PROVE  /\ orders'[Last].signed = orders[Last].signed
         /\ orders'[Last].end = IF n.kind = "extended" THEN n.end ELSE orders[Last].end
         /\ sub'.expires = n.end /\ sub'.signed = signed
         /\ sub'.status = CASE n.kind \in {"grace", "billing_retry"} -> n.kind
                            [] n.kind = "extended" -> "active"
                            [] OTHER -> sub.status
         /\ n.kind # "billing_retry" => sub'.grace = IF n.grace # 0 THEN n.grace ELSE sub.grace
         /\ grants'[Last] = IF Recovers(n, Last) THEN "active" ELSE GrantSeen(n, Last)
PROOF
  <1>1. orders \in [Periods -> OrderRow] /\ sub \in SubRow /\ grants \in [Periods -> GrantStates]
    BY DEF IInv, DbFits, DbTyped
  <1>2. /\ orders' = IF n.kind = "extended" THEN [orders EXCEPT ![Last].end = n.end] ELSE orders
        /\ grants' = [grants EXCEPT ![Last] =
                        IF Recovers(n, Last) THEN "active" ELSE GrantSeen(n, Last)]
    BY DEF AppliesLifecycle
  <1>3. orders'[Last].signed = orders[Last].signed
        /\ orders'[Last].end = IF n.kind = "extended" THEN n.end ELSE orders[Last].end
    BY <1>1, <1>2 DEF OrderRow
  <1>4. grants'[Last] = IF Recovers(n, Last) THEN "active" ELSE GrantSeen(n, Last)
    BY <1>1, <1>2
  <1>5. /\ sub'.expires = n.end /\ sub'.signed = signed
        /\ sub'.status = CASE n.kind \in {"grace", "billing_retry"} -> n.kind
                           [] n.kind = "extended" -> "active"
                           [] OTHER -> sub.status
        /\ n.kind # "billing_retry" => sub'.grace = IF n.grace # 0 THEN n.grace ELSE sub.grace
    <2> DEFINE st == CASE n.kind \in {"grace", "billing_retry"} -> n.kind
                       [] n.kind = "extended" -> "active"
                       [] OTHER -> sub.status
               gr == IF n.kind = "billing_retry" THEN 0
                     ELSE IF n.grace # 0 THEN n.grace ELSE sub.grace
    <2>1. sub' = [sub EXCEPT !.status = st, !.expires = n.end, !.grace = gr, !.signed = signed]
      BY DEF AppliesLifecycle
    <2>2. n.kind # "billing_retry" => gr = IF n.grace # 0 THEN n.grace ELSE sub.grace
      OBVIOUS
    <2> HIDE DEF st, gr
    <2>3. sub'.expires = n.end /\ sub'.signed = signed /\ sub'.status = st /\ sub'.grace = gr
      BY <1>1, <2>1 DEF SubRow
    <2> QED  BY <2>2, <2>3 DEF st
  <1> QED  BY <1>3, <1>4, <1>5

(* A lifecycle notification told after the rows.                           *)
LEMMA LifecycleKept ==
  ASSUME IInv, OInv, Told, Kept, Last \in Periods, ~user.deleted, NEW k \in Notices, Fresh(k),
         Handled(k), notice[k].kind \in LifecycleKinds,
         AppliesLifecycle(notice[k], Signed(k), Last)
  PROVE  Kept'
PROOF
  <1>1. /\ orders[Last].signed \in Nat /\ orders[Last].end \in Nat /\ clock \in Nat
        /\ k \in Nat /\ Signed(k) \in Nat /\ sub.expires \in Nat
        /\ sub.signed \in Nat /\ notice[k].end \in Nat /\ notice[k].grace \in Nat
        /\ \A j \in Notices : j \in Nat
    BY LastIsTyped
  <1>2. ~(sub.signed > Signed(k))
    <2>1. ~Processed(k) /\ Of(k) /\ ~(Signed(k) < orders[Last].signed)
      BY <1>1 DEF Fresh
    <2> QED  BY <1>1, <2>1 DEF Kept, DatesKept
  <1>3. /\ orders'[Last].signed = orders[Last].signed
        /\ orders'[Last].end = IF notice[k].kind = "extended" THEN notice[k].end
                               ELSE orders[Last].end
        /\ sub'.expires = notice[k].end /\ sub'.signed = Signed(k)
        /\ sub'.status = CASE notice[k].kind \in {"grace", "billing_retry"} -> notice[k].kind
                           [] notice[k].kind = "extended" -> "active"
                           [] OTHER -> sub.status
        /\ notice[k].kind # "billing_retry"
             => sub'.grace = IF notice[k].grace # 0 THEN notice[k].grace ELSE sub.grace
        /\ grants'[Last] = IF Recovers(notice[k], Last) THEN "active"
                           ELSE GrantSeen(notice[k], Last)
    BY <1>2, MailUpToLast, LifecycleRows
  <1>4. /\ Last' = Last /\ (Extended' <=> Extended) /\ Notices' = Notices
        /\ \A j \in Notices :
             /\ Of(j)' <=> Of(j)
             /\ Refunded(j)' <=> Refunded(j)
             /\ Restored(j)' <=> Restored(j)
             /\ j # k => (Applied(j) <=> j < k) /\ (Applied(j)' <=> j < k)
             /\ Processed(j)' => j < k \/ j = k
    BY <1>3, FreshRows
  <1>5. /\ UNCHANGED <<clock, period, phase>> /\ Of(k)
        /\ (\A j \in Notices : notice'[j].kind = notice[j].kind)
        /\ ~Refunded(k) /\ ~Restored(k)
    BY DEF Handled, NoticesSame, Fresh, Refunded, Restored, LifecycleKinds
  <1>6. DatesKept'
    BY <1>3, FreshDates
  <1>7. RefundStands' <=> RefundStands
    BY <1>4, <1>5 DEF RefundStands
  <1>8. /\ Recovers(notice[k], Last) => /\ notice[k].kind = "grace"
                                        /\ grants[Last] = "lapsed" /\ clock < notice[k].grace
        /\ grants'[Last] = "active" => grants[Last] = "active" \/ notice[k].kind = "grace"
        /\ ~Extended => grants'[Last] \in {"active", grants[Last]}
        /\ grants[Last] = "active" => grants'[Last] = "active"
    <2>1. ~Extended => notice[k].kind # "extended"
      BY DEF Extended
    <2> QED  BY <1>1, <1>3, <2>1 DEF Recovers, RecoveryUntil, GrantSeen
  <1>9. GrantKept'
    <2>1. RefundStands' => grants'[Last] # "active"
      <3> SUFFICES ASSUME RefundStands, notice[k].kind = "grace" PROVE FALSE
        BY <1>7, <1>8 DEF Kept, GrantKept
      <3>1. PICK i \in Notices : Refunded(i) /\ Applied(i)
        BY DEF RefundStands
      <3>2. i < k
        BY <1>4, <1>5, <3>1
      <3>3. k < i
        BY <1>5, <3>1 DEF Told, GraceTold, Refunded, StatusKinds
      <3> QED  BY <1>1, <3>2, <3>3
    <2>2. ~Extended => orders'[Last].end = orders[Last].end
      BY <1>3 DEF Extended
    <2> QED  BY <1>4, <1>5, <1>7, <1>8, <2>1, <2>2 DEF Kept, GrantKept
  <1>10. GraceKept'
    <2>1. ASSUME ~Extended, phase.at = "grace", clock < phase.grace,
                 NEW j \in Notices, Of(j), notice[j].kind = "grace", Processed(j)'
          PROVE  sub'.status = "grace" /\ sub'.grace = phase.grace /\ grants'[Last] = "active"
      <3>1. /\ notice[k].kind \notin {"billing_retry", "extended"}
            /\ notice[k].grace \in {0, phase.grace}
            /\ \A i \in Notices : Of(i) => notice[i].kind \notin StatusKinds
        BY <1>5, <2>1 DEF Told, PhaseTold, Extended
      <3>2. CASE notice[k].kind = "grace"
        <4>1. notice[k].grace # 0
          BY <1>5, <3>2 DEF Told, GraceTold
        <4>2. sub'.status = "grace" /\ sub'.grace = phase.grace
          BY <1>3, <3>1, <3>2, <4>1
        <4>3. grants[Last] \in {"active", "lapsed"}
          BY <2>1, <3>1 DEF Kept, GrantKept
        <4>4. grants[Last] = "lapsed" => Recovers(notice[k], Last)
          BY <1>1, <2>1, <3>1, <3>2, <4>1 DEF Recovers, GrantSeen, RecoveryUntil
        <4> QED  BY <1>3, <1>8, <4>2, <4>3, <4>4
      <3>3. CASE notice[k].kind # "grace"
        <4>1. Processed(j)
          BY <1>4, <2>1, <3>3 DEF Fresh
        <4>2. sub.status = "grace" /\ sub.grace = phase.grace /\ grants[Last] = "active"
          BY <2>1, <4>1 DEF Kept, GraceKept
        <4>3. sub'.status = "grace" /\ sub'.grace = phase.grace
          BY <1>3, <3>1, <3>3, <4>2
        <4> QED  BY <1>8, <4>2, <4>3
      <3> QED  BY <3>2, <3>3
    <2>2. ASSUME sub'.status = "grace", clock < sub'.grace
          PROVE  \/ phase.at = "grace" /\ phase.grace = sub'.grace
                 \/ \E j \in Notices : Refunded(j)
      <3>1. notice[k].kind \notin {"billing_retry", "extended"}
        BY <1>3, <2>2
      <3>2. CASE notice[k].grace # 0
        <4>1. sub'.grace = notice[k].grace /\ ~(notice[k].grace =< clock)
          BY <1>1, <1>3, <2>2, <3>1, <3>2
        <4> QED  BY <1>5, <4>1 DEF Told, GraceTold
      <3>3. CASE notice[k].grace = 0
        <4>1. notice[k].kind # "grace"
          BY <1>5, <3>3 DEF Told, GraceTold
        <4>2. sub.status = "grace" /\ sub'.grace = sub.grace
          BY <1>3, <2>2, <3>1, <3>3, <4>1
        <4> QED  BY <2>2, <4>2 DEF Kept, GraceKept
      <3> QED  BY <3>2, <3>3
    <2>3. ASSUME NEW j \in Notices, Restored(j), Applied(j)' PROVE sub'.status # "grace"
      <3>1. j < k /\ Applied(j) /\ notice[j].kind = "restored" /\ Of(j)
        BY <1>4, <1>5, <2>3 DEF Restored
      <3>2. sub.status # "grace"
        BY <2>3, <3>1 DEF Kept, GraceKept
      <3>3. notice[k].kind # "grace"
        <4>1. ~(k < j)
          BY <1>1, <3>1
        <4> QED  BY <1>5, <3>1, <4>1 DEF Told, GraceTold, StatusKinds
      <3> QED  BY <1>3, <3>2, <3>3
    <2> QED  BY <1>4, <1>5, <2>1, <2>2, <2>3 DEF GraceKept
  <1> QED  BY <1>6, <1>9, <1>10 DEF Kept

(* The order of the last transaction, with its grant and the row.          *)
LEMMA OrderMade ==
  ASSUME IInv, Last \in Periods, NEW end, NEW signed \in Nat, NoticesSame,
         UNCHANGED <<clock, period, phase>>,
         orders'[Last].end = end, orders'[Last].signed = signed,
         grants'[Last] = "active", sub' = Current(Last, end, signed),
         end =< period[Last].end, ~Extended => end = period[Last].end,
         \A k \in Notices : Of(k) /\ Processed(k)' => notice[k].kind = "charge",
         \A k \in Notices : Of(k) =>
           IF Signed(k) < signed
           THEN notice[k].kind \notin Late /\ notice[k].end =< end
           ELSE end =< notice[k].end,
         \A k \in Notices : Refunded(k) /\ Signed(k) =< signed
           => \E j \in Notices : k < j /\ Restored(j) /\ Signed(j) =< signed
  PROVE  Kept'
PROOF
  <1>1. /\ Last' = Last /\ (Extended' <=> Extended) /\ Notices' = Notices
        /\ \A k \in Notices : /\ Of(k)' <=> Of(k)
                              /\ Refunded(k)' <=> Refunded(k)
                              /\ Restored(k)' <=> Restored(k)
                              /\ notice'[k].kind = notice[k].kind
                              /\ notice'[k].end = notice[k].end
    BY SameLast DEF NoticesSame
  <1>2. \A k \in Notices : k \in Nat /\ Signed(k) \in Nat
    BY NoticesNumbered DEF IInv
  <1>3. sub'.expires = end /\ sub'.signed = signed /\ sub'.status = "active"
    BY DEF Current
  <1>4. DatesKept'
    <2>1. ASSUME NEW k \in Notices, Of(k)
          PROVE  IF Signed(k) < signed THEN notice[k].kind \notin Late /\ notice[k].end =< end
                 ELSE end =< notice[k].end /\ signed =< Signed(k)
      BY <1>2, <2>1
    <2>2. signed =< signed
      OBVIOUS
    <2> QED  BY <1>1, <1>3, <2>1, <2>2 DEF DatesKept, Signed
  <1>5. ~RefundStands'
    <2> SUFFICES ASSUME NEW k \in Notices, Refunded(k), Applied(k)',
                        \A j \in Notices : Restored(j) /\ Applied(j)' => j < k
                 PROVE  FALSE
      BY <1>1 DEF RefundStands
    <2>1. Signed(k) =< signed
      BY <1>1 DEF Applied, Refunded, Signed
    <2>2. PICK j \in Notices : k < j /\ Restored(j) /\ Signed(j) =< signed
      BY <2>1
    <2>3. j < k
      BY <1>1, <2>2 DEF Applied, Signed
    <2> QED  BY <1>2, <2>2, <2>3
  <1>6. GrantKept'
    BY <1>1, <1>5 DEF GrantKept
  <1>7. GraceKept'
    BY <1>1, <1>3 DEF GraceKept
  <1> QED  BY <1>4, <1>6, <1>7 DEF Kept

(* A refresh ends only what is not in force.                               *)
LEMMA RefreshKept ==
  ASSUME IInv, Kept, Last \in Periods, Refreshes
  PROVE  Kept'
PROOF
  <1>1. /\ notice' = notice /\ orders' = orders /\ UNCHANGED <<clock, period, phase>>
        /\ grants'[Last] = IF grants[Last] = "active" /\ ~InForce(Last) THEN "lapsed"
                           ELSE grants[Last]
    BY DEF Refreshes, apple, Active
  <1>2. NoticesSame
    BY <1>1 DEF NoticesSame, Notices
  <1>3. /\ Last' = Last /\ (Extended' <=> Extended) /\ Notices' = Notices
        /\ \A k \in Notices : /\ Of(k)' <=> Of(k)
                              /\ Refunded(k)' <=> Refunded(k)
                              /\ Restored(k)' <=> Restored(k)
                              /\ Processed(k)' <=> Processed(k)
                              /\ notice'[k] = notice[k]
    BY <1>1, <1>2, SameLast DEF Notices, Processed
  <1>4. /\ orders[Last].end \in Nat /\ clock \in Nat /\ sub.grace \in Nat
        /\ phase.grace \in Nat /\ sub \in SubRow
    BY LastIsTyped DEF IInv, DbFits, DbTyped
  <1>5. /\ sub'.expires = sub.expires /\ sub'.signed = sub.signed /\ sub'.grace = sub.grace
        /\ sub'.status \in {sub.status, "expired"}
        /\ sub.grace > clock => sub'.status = sub.status
    <2>1. sub' = IF /\ sub.status \in {"active", "billing_retry", "grace"}
                    /\ (IF sub.grace # 0 THEN sub.grace ELSE sub.expires) =< clock
                 THEN [sub EXCEPT !.status = "expired"] ELSE sub
      BY DEF Refreshes
    <2>2. sub.grace > clock => ~((IF sub.grace # 0 THEN sub.grace ELSE sub.expires) =< clock)
      BY <1>4
    <2> QED  BY <1>4, <2>1, <2>2 DEF SubRow
  <1>6. \A k \in Notices : Applied(k)' <=> Applied(k)
    BY <1>1, <1>3 DEF Applied, Signed
  <1>7. RefundStands' <=> RefundStands
    BY <1>3, <1>6 DEF RefundStands
  <1>8. DatesKept'
    BY <1>1, <1>3, <1>5 DEF Kept, DatesKept, Signed
  <1>9. GrantKept'
    <2>1. grants'[Last] = "lapsed" => grants[Last] = "lapsed" \/ orders[Last].end =< clock
      BY <1>1, <1>4 DEF InForce
    <2>2. grants'[Last] # grants[Last] => grants[Last] = "active" /\ grants'[Last] = "lapsed"
      BY <1>1
    <2> QED  BY <1>1, <1>3, <1>7, <2>1, <2>2 DEF Kept, GrantKept
  <1>10. GraceKept'
    <2>1. sub.status = "grace" /\ clock < sub.grace => InForce(Last)
      BY <1>4 DEF InForce
    <2>2. clock < sub.grace <=> sub.grace > clock
      BY <1>4
    <2>3. ASSUME sub.status = "grace", clock < sub.grace, grants[Last] = "active"
          PROVE  sub'.status = "grace" /\ grants'[Last] = "active"
      BY <1>1, <1>5, <2>1, <2>2, <2>3
    <2>4. sub'.status = "grace" => sub.status = "grace"
      BY <1>5
    <2> QED  BY <1>1, <1>3, <1>5, <1>6, <2>3, <2>4 DEF Kept, GraceKept
  <1> QED  BY <1>8, <1>9, <1>10 DEF Kept

(* A notification signed before the order changes nothing.                 *)
LEMMA BehindStays ==
  ASSUME IInv, Kept, Last \in Periods, Recorded(Last), sub.current = Last, NEW k \in Notices,
         Of(k), ~Processed(k), Signed(k) < orders[Last].signed
  PROVE  /\ AppliesCharge(notice[k], Signed(k)) => UNCHANGED <<orders, grants, sub>>
         /\ AppliesStatus(notice[k], Signed(k)) => UNCHANGED <<orders, grants, sub>>
         /\ AppliesLifecycle(notice[k], Signed(k), Last) => UNCHANGED <<orders, grants, sub>>
PROOF
  <1>1. /\ orders[Last].signed \in Nat /\ Signed(k) \in Nat /\ sub.expires \in Nat
        /\ sub.signed \in Nat /\ notice[k].end \in Nat /\ k \in Nat
    BY LastIsTyped
  <1>2. notice[k].end =< sub.expires /\ Signed(k) < sub.signed
    BY <1>1 DEF Kept, DatesKept
  <1>3. Stale(notice[k].end, Signed(k))
    BY <1>1, <1>2 DEF Stale
  <1>4. StaleStatus(notice[k], Signed(k)) /\ notice[k].tx = Last
    BY DEF StaleStatus, Of
  <1>5. sub.signed > Signed(k)
    BY <1>1, <1>2
  <1> QED  BY <1>3, <1>4, <1>5
           DEF AppliesCharge, ConfirmsCharge, AppliesStatus, AppliesLifecycle, db

---------------------------------------------------------------------------
(* Which transaction is handled.                                           *)

(* The row is of the last transaction once that is recorded.               *)
LEMMA CurrentIsLast ==
  ASSUME IInv, OInv, AppliedInOrder, Last \in Periods, Last =< sub.current
  PROVE  sub.current = Last /\ Recorded(Last)
PROOF
  <1>1. Last \in Nat /\ Last > 0 /\ sub.current \in 0..MaxPeriods /\ MaxPeriods \in Nat
    BY PeriodsAreFinite DEF Periods, IInv, DbFits, DbTyped, SubRow
  <1>2. sub.current # 0 /\ sub.current \in Periods
    BY <1>1 DEF Periods
  <1>3. Recorded(sub.current) /\ sub.current =< Last
    BY <1>2 DEF OInv, OrdersInOrder, PeriodsInOrder
  <1> QED  BY <1>1, <1>3

(* Nothing is processed of a transaction before its order.                 *)
LEMMA NothingProcessed ==
  ASSUME IInv, OInv, MailInOrder, AppliedInOrder, InPrefix, Last \in Periods, ~Recorded(Last)
  PROVE  \A k \in Notices : Of(k) => ~Processed(k)
PROOF
  <1> SUFFICES ASSUME NEW k \in Notices, Of(k), Processed(k) PROVE FALSE
    OBVIOUS
  <1>1. PICK c \in Notices : ChargeOf(c, Last) /\ c =< k
    BY DEF MailInOrder, Of
  <1>2. Processed(c)
    BY <1>1, LastIsTyped DEF InPrefix
  <1>3. Done(Last)
    BY <1>1, <1>2 DEF AppliedInOrder, ChargeOf
  <1>4. Last < sub.current
    BY <1>3 DEF Done
  <1>5. Last =< sub.current
    BY <1>4, PeriodsAreFinite DEF Periods, IInv, DbFits, DbTyped, SubRow
  <1> QED  BY <1>5, CurrentIsLast

(* Once the last transaction has its order, only a refund is to come of    *)
(* another.                                                                *)
LEMMA OthersAreRefunds ==
  ASSUME IInv, OInv, AppliedInOrder, Told, ~OldRestored, Last \in Periods, Recorded(Last),
         NEW k \in Notices, ~Processed(k), ~Of(k)
  PROVE  notice[k].kind = "refunded"
PROOF
  <1>1. PICK c \in Notices :
          /\ ChargeOf(c, Last)
          /\ \A j \in Notices : j < c /\ notice[j].tx # Last => Processed(j)
    BY DEF AppliedInOrder, Came
  <1>2. c \in Nat /\ k \in Nat /\ c # k /\ ~(k < c)
    BY <1>1, LastIsTyped DEF Of, ChargeOf
  <1>3. c < k /\ notice[c].kind = "charge" /\ notice[c].tx = Last
    BY <1>1, <1>2 DEF ChargeOf
  <1>4. notice[k].tx \in Nat /\ notice[k].tx =< Last /\ Last \in Nat /\ notice[k].tx # Last
    BY MailUpToLast DEF Of
  <1>5. notice[k].kind \in {"charge", "refunded", "restored"}
    <2>1. ~(notice[c].tx =< notice[k].tx)
      BY <1>3, <1>4
    <2> QED  BY <1>3, <2>1 DEF Told, ChargesTold
  <1>6. notice[k].kind # "charge"
    <2>1. ~(notice[c].tx < notice[k].tx)
      BY <1>3, <1>4
    <2> QED  BY <1>3, <2>1 DEF Told, ChargesTold
  <1>7. notice[k].kind # "restored"
    <2>1. notice[k].tx < notice[c].tx
      BY <1>3, <1>4
    <2> QED  BY <1>3, <2>1 DEF OldRestored
  <1> QED  BY <1>5, <1>6, <1>7

(* The refund of a transaction that another has followed.                  *)
LEMMA OldRefundStays ==
  ASSUME IInv, Last \in Periods, sub.current = Last, ~user.deleted, Active \subseteq {Last},
         NEW k \in Notices, ~Of(k), notice[k].kind = "refunded",
         AppliesStatus(notice[k], Signed(k))
  PROVE  sub' = sub /\ orders'[Last] = orders[Last] /\ grants'[Last] = grants[Last]
PROOF
  <1>1. notice[k].tx \in Periods /\ notice[k].tx # Last /\ sub.current # notice[k].tx
    BY NoticeFits DEF IInv, Of, NoticeRow
  <1>2. CASE StaleStatus(notice[k], Signed(k))
    BY <1>2 DEF AppliesStatus, db
  <1>3. CASE ~StaleStatus(notice[k], Signed(k))
    <2>1. grants[notice[k].tx] # "active"
      BY <1>1 DEF Active
    <2>2. sub' = sub /\ grants' = grants
      BY <1>1, <1>3, <2>1 DEF AppliesStatus, Ends, SeenBySub
    <2>3. orders' = [orders EXCEPT ![notice[k].tx].signed = Signed(k),
                       ![notice[k].tx].status = OrderStatus(notice[k].kind, @)]
      BY <1>3 DEF AppliesStatus
    <2>4. orders'[Last] = orders[Last]
      BY <1>1, <2>3 DEF IInv, DbFits, DbTyped
    <2> QED  BY <2>2, <2>4
  <1> QED  BY <1>2, <1>3

---------------------------------------------------------------------------
(* The handlers.                                                           *)

(* The notifications that a handler of k finds and leaves.                 *)
LEMMA HandlerRows ==
  ASSUME IInv, InPrefix, NEW k \in Notices, Claimable(k), NEW status,
         notice' = [notice EXCEPT ![k].status = status, ![k].read = 0],
         UNCHANGED apple, \A j \in Notices : j < k => Processed(j)
  PROVE  Handled(k) /\ \A j \in Notices : Processed(j) <=> j < k
PROOF
  <1>1. NoticesSame
    BY RowSame DEF IInv
  <1>2. NoticesKept /\ \A j \in Notices : j # k => notice'[j] = notice[j]
    BY RowKept DEF IInv
  <1>3. ~Processed(k) /\ \A j \in Notices : j \in Nat
    BY NoticesNumbered DEF Claimable, Processed, IInv
  <1>4. \A j \in Notices : Processed(j) => j < k
    BY <1>3 DEF InPrefix
  <1> QED  BY <1>1, <1>2, <1>4 DEF Handled, Processed, apple

(* The order that is made is the row's.                                    *)
LEMMA GrantMakesOrder ==
  ASSUME IInv, OInv, AppliedInOrder, AppliedInOrder', Last \in Periods, ~Recorded(Last),
         NEW p \in Periods, NEW end, NEW signed, GrantsPeriod(p, end, signed),
         Recorded(Last)', Last' = Last
  PROVE  /\ p = Last /\ orders'[Last].end = end /\ orders'[Last].signed = signed
         /\ grants'[Last] = "active" /\ sub' = Current(Last, end, signed)
PROOF
  <1>1. orders' = [orders EXCEPT ![p] = Order(end, signed)] /\ grants' = Superseding(p)
        /\ sub' \in {sub, Current(p, end, signed)}
    BY DEF GrantsPeriod
  <1>2. orders \in [Periods -> OrderRow]
    BY DEF IInv, DbFits, DbTyped
  <1>3. p = Last
    BY <1>1, <1>2 DEF Recorded
  <1>4. orders'[Last].end = end /\ orders'[Last].signed = signed /\ grants'[Last] = "active"
    BY <1>1, <1>2, <1>3 DEF Order, Superseding
  <1>5. sub' # sub
    <2>1. Last =< sub'.current
      BY DEF AppliedInOrder
    <2> QED  BY <2>1, CurrentIsLast
  <1> QED  BY <1>1, <1>3, <1>4, <1>5

(* The charge of the last transaction.                                     *)
LEMMA ChargeKept ==
  ASSUME IInv, OInv, MailInOrder, AppliedInOrder, AppliedInOrder', InPrefix, Told,
         Last \in Periods, ~Recorded(Last), Recorded(Last)', NEW k \in Notices, Handled(k),
         notice[k].kind = "charge", GrantsPeriod(notice[k].tx, notice[k].end, Signed(k))
  PROVE  Kept'
PROOF
  <1>1. Last' = Last
    BY SameLast DEF Handled
  <1>2. notice[k].tx \in Periods
    BY MailUpToLast DEF NoticeRow
  <1>3. /\ Of(k) /\ orders'[Last].end = notice[k].end /\ orders'[Last].signed = Signed(k)
        /\ grants'[Last] = "active" /\ sub' = Current(Last, notice[k].end, Signed(k))
    BY <1>1, <1>2, GrantMakesOrder DEF Of
  <1>4. /\ Signed(k) \in Nat
        /\ \A j \in Notices : j \in Nat /\ Signed(j) = 2 * j /\ notice[j].end \in Nat
    BY LastIsTyped
  <1>5. \A j \in Notices : Of(j) => k =< j
    BY <1>3, <1>4, ChargeIsFirst DEF Told
  <1>6. notice[k].end =< period[Last].end /\ (~Extended => notice[k].end = period[Last].end)
    BY <1>3 DEF Told, EndsTold
  <1>7. \A j \in Notices : Of(j) /\ Processed(j)' => notice[j].kind = "charge"
    <2>1. \A j \in Notices : Of(j) => ~Processed(j)
      BY NothingProcessed
    <2> QED  BY <2>1 DEF Handled
  <1>8. \A j \in Notices : Of(j) => ~(Signed(j) < Signed(k)) /\ notice[k].end =< notice[j].end
    <2>1. \A j \in Notices : Of(j) => j = k \/ notice[k].end =< notice[j].end
      BY <1>3, <1>4, <1>5 DEF Told, EndsTold
    <2> QED  BY <1>4, <1>5, <2>1
  <1>9. \A j \in Notices : Refunded(j) => ~(Signed(j) =< Signed(k))
    <2>1. \A j \in Notices : Refunded(j) => Of(j) /\ j # k
      BY DEF Refunded
    <2> QED  BY <1>4, <1>5, <2>1
  <1> QED  BY <1>3, <1>4, <1>6, <1>7, <1>8, <1>9, OrderMade DEF Handled

(* A charge or a status.                                                   *)
LEMMA HandlesKept ==
  ASSUME IInv, OInv, AInv, EInv, AppliedInOrder', inOrder, inOrder', ~OldRestored,
         ~user.deleted, Last \in Periods, Recorded(Last)', NEW k \in Notices,
         NEW status \in {"processed", "received"}, Handles(k, status)
  PROVE  Kept'
PROOF
  <1>1. /\ Told /\ InPrefix /\ MailInOrder /\ AppliedInOrder /\ Active \subseteq {sub.current}
        /\ Recorded(Last) => Kept
    BY PeriodsAreFinite DEF EInv, AInv, Regular, OnlyCurrent, Periods
  <1>2. /\ Claimable(k) /\ Known(notice[k]) /\ notice[k].kind \notin LifecycleKinds
        /\ notice' = [notice EXCEPT ![k].status = status, ![k].read = 0]
        /\ IF notice[k].kind = "charge" THEN AppliesCharge(notice[k], Signed(k))
           ELSE AppliesStatus(notice[k], Signed(k))
        /\ UNCHANGED apple /\ \A j \in 1..(k - 1) : Processed(j)
    BY DEF Handles, Row, Overtakes, Processed
  <1>3. \A j \in Notices : j < k => Processed(j)
    BY <1>2, NoticesNumbered DEF Notices, IInv
  <1>4. Handled(k) /\ \A j \in Notices : Processed(j) <=> j < k
    BY <1>1, <1>2, <1>3, HandlerRows
  <1>5. ~Processed(k) /\ notice[k] \in NoticeRow /\ notice[k].tx \in Periods
    BY <1>2, MailUpToLast DEF Claimable, Processed, NoticeRow
  <1>6. /\ NoticesSame /\ NoticesKept /\ UNCHANGED <<clock, period, phase>> /\ Last' = Last
        /\ \A j \in Notices : Processed(j)' => Processed(j) \/ j = k
    BY <1>4, SameLast DEF Handled
  <1>7. clock' \in Nat /\ clock =< clock'
    BY <1>6, LastIsTyped
  <1>8. ASSUME Recorded(Last) PROVE Kept'
    <2>1. sub.current = Last /\ Kept /\ Active \subseteq {Last}
      <3>1. Last =< sub.current
        BY <1>1, <1>8 DEF AppliedInOrder
      <3> QED  BY <1>1, <1>8, <3>1, CurrentIsLast
    <2>2. CASE Of(k) /\ Signed(k) < orders[Last].signed
      <3>1. UNCHANGED <<orders, grants, sub>>
        BY <1>2, <1>5, <1>8, <2>1, <2>2, BehindStays
      <3> QED  BY <1>6, <1>7, <2>1, <2>2, <3>1, KeptStays
    <2>3. CASE Of(k) /\ ~(Signed(k) < orders[Last].signed)
      <3>1. Fresh(k)
        <4>1. Signed(k) \in Nat /\ orders[Last].signed \in Nat
          BY LastIsTyped
        <4> QED  BY <1>4, <2>3, <4>1 DEF Fresh
      <3>2. CASE notice[k].kind = "charge"
        <4>1. ConfirmsCharge(notice[k], Signed(k))
          BY <1>2, <1>8, <2>3, <3>2 DEF AppliesCharge, Of
        <4> QED  BY <1>1, <1>4, <2>1, <3>1, <3>2, <4>1, ConfirmKept
      <3>3. CASE notice[k].kind # "charge"
        <4>1. notice[k].kind \in StatusKinds /\ AppliesStatus(notice[k], Signed(k))
          BY <1>2, <1>5, <3>3 DEF NoticeRow, Kinds
        <4> QED  BY <1>1, <1>4, <2>1, <3>1, <4>1, StatusKept
      <3> QED  BY <3>2, <3>3
    <2>4. CASE ~Of(k)
      <3>1. notice[k].kind = "refunded"
        BY <1>1, <1>5, <1>8, <2>4, OthersAreRefunds
      <3>2. sub' = sub /\ orders'[Last] = orders[Last] /\ grants'[Last] = grants[Last]
        BY <1>2, <2>1, <2>4, <3>1, OldRefundStays
      <3> QED  BY <1>6, <1>7, <2>1, <2>4, <3>2, KeptStays
    <2> QED  BY <2>2, <2>3, <2>4
  <1>9. ASSUME ~Recorded(Last) PROVE Kept'
    <2>1. notice[k].kind = "charge"
      <3> SUFFICES ASSUME notice[k].kind # "charge" PROVE FALSE
        OBVIOUS
      <3>1. Recorded(notice[k].tx) /\ AppliesStatus(notice[k], Signed(k))
        BY <1>2, StatusIsRecorded DEF IInv
      <3>2. Recorded(Last)' <=> Recorded(Last)
        <4>1. \A p \in Periods : Recorded(p)' <=> Recorded(p)
          BY <1>5, <3>1, StatusKeeps DEF IInv, DbFits
        <4> QED  BY <1>6, <4>1 DEF Recorded
      <3> QED  BY <1>9, <3>2
    <2>2. GrantsPeriod(notice[k].tx, notice[k].end, Signed(k))
      <3>1. orders' # orders
        BY <1>6, <1>9 DEF Recorded
      <3> QED  BY <1>2, <2>1, <3>1 DEF AppliesCharge, ConfirmsCharge, db
    <2> QED  BY <1>1, <1>4, <1>9, <2>1, <2>2, ChargeKept
  <1> QED  BY <1>8, <1>9

(* A lifecycle notification.                                               *)
LEMMA HandlesLifecycleKept ==
  ASSUME IInv, OInv, AInv, EInv, inOrder, ~OldRestored, ~user.deleted, Last \in Periods,
         Recorded(Last)', NEW k \in Notices, NEW status \in {"processed", "received"},
         HandlesLifecycle(k, status)
  PROVE  Kept'
PROOF
  <1>1. /\ Told /\ InPrefix /\ MailInOrder /\ AppliedInOrder
        /\ Recorded(Last) => Kept
    BY PeriodsAreFinite DEF EInv, AInv, Regular, Periods
  <1>2. /\ notice[k].read # 0 /\ UNCHANGED apple
        /\ AppliesLifecycle(notice[k], Signed(k), notice[k].read)
        /\ notice' = [notice EXCEPT ![k].status = status, ![k].read = 0]
    BY DEF HandlesLifecycle, Row
  <1>3. /\ Claimable(k) /\ ~Processed(k) /\ notice[k].kind \in LifecycleKinds
        /\ notice[k].read = sub.current /\ \A j \in Notices : j < k => Processed(j)
    BY <1>1, <1>2 DEF MailInOrder, AppliedInOrder, Claimable, Processed
  <1>4. Handled(k) /\ \A j \in Notices : Processed(j) <=> j < k
    BY <1>1, <1>2, <1>3, HandlerRows
  <1>5. /\ NoticesSame /\ NoticesKept /\ UNCHANGED <<clock, period, phase>> /\ Last' = Last
        /\ \A j \in Notices : Processed(j)' => Processed(j) \/ j = k
    BY <1>4, SameLast DEF Handled
  <1>6. clock' \in Nat /\ clock =< clock'
    BY <1>5, LastIsTyped
  <1>7. notice[k] \in NoticeRow /\ notice[k].read \in Periods
    <2>1. notice[k] \in NoticeRow
      BY MailUpToLast
    <2>2. notice[k].read \in 0..MaxPeriods /\ notice[k].read # 0
      BY <1>2, <2>1 DEF NoticeRow
    <2> QED  BY <2>1, <2>2, PeriodsAreFinite DEF Periods
  <1>8. Recorded(Last)
    <2>1. \A p \in Periods : Recorded(p)' <=> Recorded(p)
      BY <1>2, <1>7, LifecycleKeeps DEF IInv, DbFits
    <2> QED  BY <1>5, <2>1 DEF Recorded
  <1>9. sub.current = Last /\ Kept /\ AppliesLifecycle(notice[k], Signed(k), Last)
    <2>1. Last =< sub.current
      BY <1>1, <1>8 DEF AppliedInOrder
    <2> QED  BY <1>1, <1>2, <1>3, <1>8, <2>1, CurrentIsLast
  <1>10. Of(k)
    BY <1>1, <1>3, <1>8, OthersAreRefunds DEF LifecycleKinds
  <1>11. CASE Signed(k) < orders[Last].signed
    <2>1. UNCHANGED <<orders, grants, sub>>
      BY <1>3, <1>8, <1>9, <1>10, <1>11, BehindStays
    <2> QED  BY <1>5, <1>6, <1>9, <1>11, <2>1, KeptStays
  <1>12. CASE ~(Signed(k) < orders[Last].signed)
    <2>1. Fresh(k)
      <3>1. Signed(k) \in Nat /\ orders[Last].signed \in Nat
        BY LastIsTyped
      <3> QED  BY <1>4, <1>10, <1>12, <3>1 DEF Fresh
    <2> QED  BY <1>1, <1>3, <1>4, <1>9, <2>1, LifecycleKept
  <1> QED  BY <1>11, <1>12

(* A client's answer.                                                      *)
LEMMA RecordsKept ==
  ASSUME IInv, OInv, AInv, EInv, AppliedInOrder', inOrder, ~OldRestored, ~user.deleted,
         Last \in Periods, Recorded(Last)', ClientRecords
  PROVE  Kept'
PROOF
  <1>1. /\ Told /\ InPrefix /\ MailInOrder /\ AppliedInOrder /\ AnswerFits
        /\ Recorded(Last) => Kept
    BY PeriodsAreFinite DEF EInv, AInv, Regular, Periods
  <1>2. notice' = notice /\ UNCHANGED <<clock, period, phase>> /\ fetched # NoFetch
    BY DEF ClientRecords, apple
  <1>3. NoticesSame /\ NoticesKept /\ \A j \in Notices : Processed(j)' <=> Processed(j)
    BY <1>2, NoticesStay DEF NoticesSame, Notices, Processed
  <1>4. Last' = Last /\ clock' \in Nat /\ clock =< clock'
    BY <1>2, <1>3, SameLast, LastIsTyped
  <1>5. CASE UNCHANGED db
    <2>1. UNCHANGED <<orders, grants, sub>>
      BY <1>5 DEF db
    <2>2. Recorded(Last)
      BY <1>4, <2>1 DEF Recorded
    <2> QED  BY <1>1, <1>2, <1>3, <1>4, <2>1, <2>2, KeptStays
  <1>6. CASE ~UNCHANGED db
    <2>1. /\ ~Recorded(fetched.tx) /\ ~StaleCharge(fetched.tx, fetched.signed)
          /\ GrantsPeriod(fetched.tx, fetched.end, fetched.signed)
      BY <1>6 DEF ClientRecords
    <2>2. fetched.tx \in Periods /\ fetched.tx =< Last /\ fetched.signed \in Nat
          /\ fetched.end \in Nat
      BY <1>2 DEF IInv, MailFits, FetchRow, OInv, MailIsCharged, PeriodsInOrder, Dates
    <2>3. ~Recorded(Last)
      <3> SUFFICES ASSUME Recorded(Last) PROVE FALSE
        OBVIOUS
      <3>1. sub.current = Last
        <4>1. Last =< sub.current
          BY <1>1 DEF AppliedInOrder
        <4> QED  BY <1>1, <4>1, CurrentIsLast
      <3>2. ~(fetched.tx < Last)
        BY <2>1, <2>2, <3>1, ChargeIsNewer DEF IInv, OInv, DbFits
      <3>3. fetched.tx = Last
        BY <2>2, <3>2, PeriodsAreFinite DEF Periods
      <3> QED  BY <2>1, <3>3
    <2>4. /\ fetched.tx = Last /\ orders'[Last].end = fetched.end
          /\ orders'[Last].signed = fetched.signed /\ grants'[Last] = "active"
          /\ sub' = Current(Last, fetched.end, fetched.signed)
      BY <1>1, <1>4, <2>1, <2>2, <2>3, GrantMakesOrder
    <2>5. /\ fetched.end =< period[Last].end
          /\ ~Extended => fetched.end = period[Last].end
          /\ \A k \in Notices : Of(k) =>
               IF Signed(k) < fetched.signed
               THEN /\ notice[k].kind \notin Late /\ notice[k].end =< fetched.end
                    /\ Refunded(k) => \E j \in Notices : /\ k < j /\ Restored(j)
                                                         /\ Signed(j) < fetched.signed
               ELSE fetched.end =< notice[k].end
      BY <1>1, <1>2, <2>4 DEF Told, AnswerTold
    <2>6. \A k \in Notices : Of(k) /\ Processed(k)' => notice[k].kind = "charge"
      BY <1>1, <1>3, <2>3, NothingProcessed
    <2>7. \A k \in Notices : Refunded(k) /\ Signed(k) =< fetched.signed
            => \E j \in Notices : k < j /\ Restored(j) /\ Signed(j) =< fetched.signed
      <3>1. \A k \in Notices : k \in Nat /\ Signed(k) = 2 * k
        BY LastIsTyped
      <3>2. \A k \in Notices : Signed(k) # fetched.signed
        BY <1>1, <1>2, <3>1 DEF AnswerFits
      <3>3. ASSUME NEW k \in Notices, Refunded(k), Signed(k) =< fetched.signed
            PROVE  \E j \in Notices : k < j /\ Restored(j) /\ Signed(j) =< fetched.signed
        <4>1. Signed(k) < fetched.signed /\ Of(k)
          BY <2>2, <3>1, <3>2, <3>3 DEF Refunded
        <4>2. PICK j \in Notices : k < j /\ Restored(j) /\ Signed(j) < fetched.signed
          BY <2>5, <3>3, <4>1
        <4>3. Signed(j) =< fetched.signed
          BY <2>2, <3>1, <4>2
        <4> QED  BY <4>2, <4>3
      <3> QED  BY <3>3
    <2>8. \A k \in Notices : Of(k) =>
            IF Signed(k) < fetched.signed
            THEN notice[k].kind \notin Late /\ notice[k].end =< fetched.end
            ELSE fetched.end =< notice[k].end
      BY <2>5
    <2> QED  BY <1>2, <1>3, <2>2, <2>4, <2>5, <2>6, <2>7, <2>8, OrderMade
  <1> QED  BY <1>5, <1>6

(* Everything else leaves the rows alone.                                  *)
LEMMA RestKept ==
  ASSUME IInv, OInv, MailInOrder, Last \in Periods, Kept, [Next]_vars, ~AppleNext,
         UNCHANGED db, \A k \in Notices : Processed(k)' => Processed(k)
  PROVE  Kept'
PROOF
  <1>1. NoticesSame /\ UNCHANGED <<clock, period, phase>>
    BY OthersTellNothing
  <1>2. NoticesKept
    BY StepKeeps
  <1>3. clock' \in Nat /\ clock =< clock'
    BY <1>1, LastIsTyped
  <1> QED  BY <1>1, <1>2, <1>3, KeptStays DEF db

(* Apple's steps.                                                          *)
LEMMA AppleKept ==
  ASSUME IInv, IInv', OInv, MailInOrder, Told, Told', AppleNext, Last' > 0, Recorded(Last)',
         Last \in Periods /\ Recorded(Last) => Kept
  PROVE  Kept'
PROOF
  <1>1. UNCHANGED <<orders, grants, sub>>
    BY DEF AppleNext, db
  <1>2. ~Charges
    <2> SUFFICES ASSUME Charges PROVE FALSE
      OBVIOUS
    <2>1. Last' = Last + 1 /\ Last \in Nat /\ MaxPeriods \in Nat /\ Last < MaxPeriods
      BY ChargesInOrder, LastFits DEF OInv, IInv, Charges
    <2>2. Last + 1 \in Periods /\ ~(Last + 1 =< Last)
      BY <2>1 DEF Periods
    <2>3. ~Recorded(Last + 1)
      BY <2>2 DEF OInv, OrdersInOrder, PeriodsInOrder
    <2> QED  BY <1>1, <2>1, <2>3 DEF Recorded
  <1>3. ASSUME Last' = Last PROVE Last \in Periods /\ Kept
    <2>1. Last \in Periods
      BY <1>3, MailUpToLast
    <2>2. Recorded(Last)
      BY <1>1, <1>3 DEF Recorded
    <2> QED  BY <2>1, <2>2
  <1>4. CASE Tick
    <2>1. UNCHANGED <<period, phase, notice>> /\ clock' = clock + 1
      BY <1>4 DEF Tick
    <2>2. NoticesSame /\ NoticesKept /\ \A k \in Notices : Processed(k)' => Processed(k)
      BY <2>1, NoticesStay DEF NoticesSame, Notices, Processed
    <2>3. Last' = Last
      BY <2>1, <2>2, SameLast
    <2>4. clock' \in Nat /\ clock =< clock'
      BY <1>3, <2>1, <2>3, LastIsTyped
    <2> QED  BY <1>1, <1>3, <2>1, <2>2, <2>3, <2>4, KeptStays
  <1>5. CASE ~Tick
    <2>1. PICK kind, p : p \in Periods /\ Tells(kind, p)
      BY <1>2, <1>5, AppleTells
    <2>2. Last' = Last
      BY <2>1, TellsOfLast
    <2> QED  BY <1>1, <1>3, <2>1, <2>2, TellsKept
  <1> QED  BY <1>4, <1>5

(* The rows keep the last transaction over every step.                     *)
LEMMA KeptStep ==
  ASSUME IInv, IInv', OInv, AInv, AInv', EInv, Told', [Next]_vars, Regular', Last' > 0,
         Recorded(Last)'
  PROVE  Kept'
PROOF
  <1>1. MailInOrder /\ NoticesKept /\ (inOrder => AppliedInOrder) /\ (inOrder => InPrefix)
    BY StepKeeps DEF AInv, EInv
  <1>2. inOrder /\ ~OldRestored /\ ~user.deleted
    <2>1. inOrder
      BY <1>1, PrefixStep DEF Regular
    <2>2. user.deleted => user' = user
      BY DeletedStep
    <2> QED  BY <1>1, <2>1, <2>2, OldRestoredStays DEF Regular
  <1>3. /\ AppliedInOrder' /\ inOrder' /\ Told
        /\ Last > 0 /\ Recorded(Last) => Kept
    BY <1>2 DEF AInv, EInv, Regular
  <1>4. CASE AppleNext
    <2>1. Last \in Periods => Last > 0
      BY PeriodsAreFinite DEF Periods
    <2> QED  BY <1>1, <1>3, <1>4, <2>1, AppleKept
  <1>5. CASE ~AppleNext
    <2>1. NoticesSame /\ UNCHANGED <<clock, period, phase>>
      BY <1>5, OthersTellNothing
    <2>2. Last' = Last /\ Last > 0
      BY <2>1, SameLast
    <2>3. Last \in Periods
      BY <2>2, MailUpToLast
    <2>4. orders' = orders => Kept
      BY <1>3, <2>2 DEF Recorded
    <2>5. ASSUME NEW k \in Notices, NEW status \in {"processed", "received"},
                 Handles(k, status) \/ HandlesLifecycle(k, status)
          PROVE  Kept'
      BY <1>2, <1>3, <2>3, <2>5, HandlesKept, HandlesLifecycleKept
    <2>6. CASE ClientRecords
      BY <1>2, <1>3, <2>3, <2>6, RecordsKept
    <2>7. CASE Refreshes
      <3>1. orders' = orders
        BY <2>7 DEF Refreshes
      <3> QED  BY <2>3, <2>4, <2>7, <3>1, RefreshKept
    <2>8. ~Deletes
      <3> SUFFICES ASSUME Deletes PROVE FALSE
        OBVIOUS
      <3>1. user'.deleted
        BY DEF Deletes
      <3> QED  BY <3>1 DEF Regular
    <2>9. ASSUME UNCHANGED db, \A k \in Notices : Processed(k)' => Processed(k)
          PROVE  Kept'
      <3>1. Kept
        BY <2>4, <2>9 DEF db
      <3> QED  BY <1>1, <1>5, <2>3, <2>9, <3>1, RestKept
    <2>10. ASSUME NEW k \in Notices, ReadsFamily(k) \/ Fails(k) \/ Dies(k)
           PROVE  Kept'
      <3>1. UNCHANGED db /\ Claimable(k)
        BY <2>10 DEF ReadsFamily, Fails, Dies
      <3>2. PICK status, read :
              /\ status # "processed"
              /\ notice' = [notice EXCEPT ![k].status = status, ![k].read = read]
        BY <2>10 DEF ReadsFamily, Fails, Dies, Row
      <3>3. notice'[k].status = status /\ \A j \in Notices : j # k => notice'[j] = notice[j]
        BY <3>1, <3>2, RowKept DEF IInv
      <3>4. \A j \in Notices : Processed(j)' => Processed(j)
        BY <3>2, <3>3 DEF Processed
      <3> QED  BY <2>9, <3>1, <3>4
    <2>11. CASE (\E p \in Periods : ClientAsks(p)) \/ UNCHANGED vars
      <3>1. UNCHANGED db /\ notice' = notice
        BY <2>11 DEF ClientAsks, vars
      <3> QED  BY <2>9, <3>1 DEF Processed
    <2> QED  BY <1>5, <2>5, <2>6, <2>7, <2>8, <2>10, <2>11 DEF Next
  <1> QED  BY <1>4, <1>5

(* The invariant is inductive,                                             *)
LEMMA EntitledStep ==
  ASSUME IInv, IInv', OInv, AInv, AInv', EInv, [Next]_vars
  PROVE  EInv'
PROOF
  <1>1. Told'
    BY ToldStep DEF AInv, EInv
  <1>2. AnswerFits'
    <2>1. CASE fetched' \in {fetched, NoFetch}
      BY <2>1 DEF EInv, AnswerFits
    <2>2. ASSUME NEW p \in Periods, ClientAsks(p) PROVE AnswerFits'
      <3>1. fetched'.signed = 2 * Len(notice) + 1 /\ Len(notice) \in Nat
        BY <2>2, NoticesNumbered DEF ClientAsks, IInv
      <3> QED  BY <3>1 DEF AnswerFits
    <2>3. fetched' \in {fetched, NoFetch} \/ \E p \in Periods : ClientAsks(p)
      BY DEF Next, AppleNext, ClientRecords, Handles, HandlesLifecycle, ReadsFamily, Fails,
         Dies, Refreshes, Deletes, vars
    <2> QED  BY <2>1, <2>2, <2>3
  <1>3. inOrder' => InPrefix'
    BY PrefixStep DEF AInv, EInv
  <1>4. Regular' /\ Last' > 0 /\ Recorded(Last)' => Kept'
    BY <1>1, KeptStep
  <1> QED  BY <1>1, <1>2, <1>3, <1>4 DEF EInv

(* holds at first                                                          *)
LEMMA InitEntitled ==
  ASSUME Init
  PROVE  EInv
PROOF
  <1>1. IInv /\ OInv
    BY InitFits, InitInOrder
  <1>2. Last = 0
    <2>1. ~\E p \in Periods : Charged(p)
      BY DEF Init, Charged, NoPeriod
    <2> QED  BY <1>1, <2>1, MailUpToLast
  <1>3. Notices = {} /\ fetched = NoFetch /\ phase.at = "new" /\ phase.grace = 0
        /\ \A p \in Periods : ~Charged(p)
    BY DEF Init, Notices, Charged, NoPeriod
  <1>4. Told
    BY <1>2, <1>3 DEF Told, ChargesTold, RefundsTold, PeriodsFit, EndsTold, PhaseFits, PhaseTold,
       GraceTold, AnswerTold
  <1> QED  BY <1>2, <1>3, <1>4 DEF EInv, AnswerFits, InPrefix

(* Once all is handled, the rows are those of the last transaction.        *)
LEMMA RowsOfLast ==
  ASSUME IInv, OInv, AInv, EInv, Settled, inOrder, ~OldRestored, Last > 0
  PROVE  /\ Last \in Periods /\ Charged(Last) /\ Kept /\ Active \subseteq {Last}
         /\ \A k \in Notices : Processed(k) /\ Applied(k)
         /\ RefundStands <=> period[Last].state # "paid"
PROOF
  <1>1. Last \in Periods /\ Charged(Last)
    BY MailUpToLast
  <1>2. \A k \in Notices : Processed(k) /\ Applied(k)
    BY DEF Settled, Processed, Applied
  <1>3. PICK c \in Notices : ChargeOf(c, Last)
    BY <1>1 DEF AInv, MailInOrder
  <1>4. Recorded(Last) \/ Last < sub.current
    BY <1>2, <1>3 DEF AInv, AppliedInOrder, ChargeOf, Done
  <1>5. Last =< sub.current
    BY <1>1, <1>4, PeriodsAreFinite
       DEF AInv, AppliedInOrder, Periods, IInv, DbFits, DbTyped, SubRow
  <1>6. sub.current = Last /\ Recorded(Last)
    BY <1>1, <1>5, CurrentIsLast DEF AInv
  <1>7. Kept /\ Active \subseteq {Last}
    BY <1>6 DEF EInv, Regular, AInv, OnlyCurrent, Settled
  <1>8. RefundStands <=> period[Last].state # "paid"
    <2>1. period[Last].state \in {"paid", "refunded"}
      BY <1>1 DEF Charged, IInv, AppleFits, PeriodRow
    <2>2. CASE period[Last].state = "refunded"
      BY <1>2, <2>2 DEF EInv, Told, RefundsTold, RefundStands
    <2>3. CASE period[Last].state = "paid"
      <3>1. \A k \in Notices : k \in Nat
        BY <1>1, LastIsTyped
      <3>2. \A k \in Notices : Refunded(k) => \E j \in Notices : k < j /\ Restored(j)
        BY <2>3 DEF EInv, Told, RefundsTold
      <3>3. \A j, k \in Notices : k < j => ~(j < k)
        BY <3>1
      <3> QED  BY <1>2, <2>3, <3>2, <3>3 DEF RefundStands
    <2> QED  BY <2>1, <2>2, <2>3
  <1> QED  BY <1>1, <1>2, <1>7, <1>8

(* and gives the property.                                                 *)
LEMMA RowsEntitle ==
  ASSUME IInv, OInv, AInv, EInv
  PROVE  EntitledAsCovered
PROOF
  <1> SUFFICES ASSUME Settled, inOrder, ~OldRestored
               PROVE  /\ (\E p \in Active : InForce(p)) => Covered
                      /\ Covered /\ ~Extended => \E p \in Active : InForce(p)
    BY DEF EntitledAsCovered
  <1>1. Last \in Nat
    BY MailUpToLast
  <1>2. CASE Last = 0
    <2>1. \A p \in Periods : p \in Nat /\ p > 0 /\ ~Charged(p)
      BY <1>2, PeriodsAreFinite DEF Periods, OInv, PeriodsInOrder
    <2>2. ~Covered
      <3>1. phase.at = "new"
        BY <1>2 DEF EInv, Told, PhaseFits
      <3> QED  BY <2>1, <3>1 DEF Covered, Charged
    <2>3. Active = {}
      <3> SUFFICES ASSUME NEW p \in Active PROVE FALSE
        OBVIOUS
      <3>1. p \in Periods /\ p = sub.current
        BY DEF AInv, OnlyCurrent, Settled, Active
      <3>2. Charged(p)
        BY <2>1, <3>1 DEF OInv, OrdersInOrder
      <3> QED  BY <2>1, <3>1, <3>2
    <2> QED  BY <2>2, <2>3
  <1>3. CASE Last > 0
    <2>1. /\ Last \in Periods /\ Charged(Last) /\ Kept /\ Active \subseteq {Last}
          /\ \A k \in Notices : Processed(k) /\ Applied(k)
          /\ RefundStands <=> period[Last].state # "paid"
      BY <1>3, RowsOfLast
    <2>2. /\ orders[Last].end \in Nat /\ sub.grace \in Nat /\ period[Last].end \in Nat
          /\ clock \in Nat /\ phase.grace \in Nat
      BY <2>1, LastIsTyped
    <2>3. ASSUME NEW p \in Active, InForce(p) PROVE Covered
      <3>1. p = Last /\ grants[Last] = "active"
        BY <2>1 DEF Active
      <3>2. period[Last].state = "paid"
        BY <2>1, <3>1 DEF Kept, GrantKept
      <3>3. CASE orders[Last].end > clock
        <4>1. clock < period[Last].end
          BY <2>1, <2>2, <3>3 DEF Kept, DatesKept
        <4> QED  BY <2>1, <3>2, <4>1 DEF Covered
      <3>4. CASE sub.status = "grace" /\ sub.grace > clock
        <4>1. clock < sub.grace
          BY <2>2, <3>4
        <4>2. ~\E k \in Notices : Refunded(k)
          BY <1>3, <2>1, <3>2, <3>4 DEF EInv, Told, RefundsTold, Kept, GraceKept
        <4>3. phase.at = "grace" /\ phase.grace = sub.grace
          BY <2>1, <3>4, <4>1, <4>2 DEF Kept, GraceKept
        <4> QED  BY <4>1, <4>3 DEF Covered
      <3> QED  BY <2>3, <3>1, <3>3, <3>4 DEF InForce
    <2>4. ASSUME ~Extended, period[Last].state = "paid", clock < period[Last].end
          PROVE  \E p \in Active : InForce(p)
      <3>1. orders[Last].end = period[Last].end
        BY <2>1, <2>4 DEF Kept, DatesKept
      <3>2. grants[Last] = "active"
        BY <2>1, <2>2, <2>4, <3>1 DEF Kept, GrantKept
      <3>3. Last \in Active /\ InForce(Last)
        BY <2>1, <2>2, <2>4, <3>1, <3>2 DEF Active, InForce
      <3> QED  BY <3>3
    <2>5. ASSUME ~Extended, Covered PROVE \E p \in Active : InForce(p)
      <3>1. CASE phase.at = "grace" /\ clock < phase.grace
        <4>1. \E k \in Notices : Of(k) /\ notice[k].kind = "grace" /\ Processed(k)
          BY <2>1, <3>1 DEF EInv, Told, PhaseTold
        <4>2. sub.status = "grace" /\ sub.grace = phase.grace /\ grants[Last] = "active"
          BY <2>1, <2>5, <3>1, <4>1 DEF Kept, GraceKept
        <4>3. Last \in Active /\ InForce(Last)
          BY <2>1, <2>2, <3>1, <4>2 DEF Active, InForce
        <4> QED  BY <4>3
      <3>2. ASSUME NEW p \in Periods, period[p].state = "paid", clock < period[p].end
            PROVE  \E q \in Active : InForce(q)
        <4>1. p \in Nat /\ p =< Last
          BY <3>2, PeriodsAreFinite DEF Periods, Charged, OInv, PeriodsInOrder
        <4>2. CASE p = Last
          BY <2>4, <2>5, <3>2, <4>2
        <4>3. CASE p < Last
          <5>1. /\ period[p].start \in Nat /\ period[p].end \in Nat
                /\ period[Last].start \in Nat
            BY <2>1, <3>2 DEF IInv, AppleFits, PeriodRow, Dates
          <5>2. period[p].start < period[Last].start
            BY <2>1, <3>2, <4>3 DEF OInv, PeriodsInOrder
          <5>3. /\ period[p].end = period[p].start + 1
                /\ period[Last].start < period[Last].end
                /\ period[Last].state = "refunded" => period[Last].start =< clock
            BY <2>1, <2>5, <3>2 DEF EInv, Told, PeriodsFit, Charged
          <5>4. period[Last].state # "refunded" /\ clock < period[Last].end
            BY <2>2, <3>2, <5>1, <5>2, <5>3
          <5>5. period[Last].state = "paid"
            BY <2>1, <5>4 DEF Charged, IInv, AppleFits, PeriodRow
          <5> QED  BY <2>4, <2>5, <5>4, <5>5
        <4> QED  BY <1>1, <4>1, <4>2, <4>3
      <3> QED  BY <2>5, <3>1, <3>2 DEF Covered
    <2> QED  BY <2>3, <2>5
  <1> QED  BY <1>1, <1>2, <1>3

(* Once what came in order is handled, the account has an Apple grant in   *)
(* force exactly while Apple's customer is covered (the handlers of        *)
(* charges, refunds and lifecycle notifications, a client's request and    *)
(* the refresh of the entitlements, against Apple's renewals).             *)
THEOREM EntitledHolds == Spec => []EntitledAsCovered
PROOF
  <1>1. Init => OInv /\ AInv /\ EInv
    BY InitInOrder, InitApplied, InitEntitled
  <1>2. IInv /\ IInv' /\ OInv /\ AInv /\ EInv /\ [Next]_vars => OInv' /\ AInv' /\ EInv'
    BY StepInOrder, AppliedStep, EntitledStep
  <1>3. IInv /\ OInv /\ AInv /\ EInv => EntitledAsCovered
    BY RowsEntitle
  <1> QED  BY <1>1, <1>2, <1>3, Inductive, PTL DEF Spec

=============================================================================
