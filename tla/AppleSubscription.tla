------------------------- MODULE AppleSubscription -------------------------
(***************************************************************************)
(* One Apple subscription family of one account: the PostgreSQL handlers   *)
(* of auth-repository.ts that turn client transactions and App Store       *)
(* Server Notifications into orders, grants, the apple_subscriptions row   *)
(* and the user's plan, with Apple as their environment.                   *)
(*                                                                         *)
(* Transactions are numbered by Apple, dates are clock ticks, and the      *)
(* signed date of notification k is 2 * k; an App Store Server API answer  *)
(* is signed between two notifications.  An account may also hold a grant  *)
(* from elsewhere (an administrator, a membership code), older than every  *)
(* Apple grant.  Minutes, products, the owner checks and rows written      *)
(* before apple_subscriptions existed are left out.                        *)
(***************************************************************************)
EXTENDS Integers, Sequences, FiniteSets

CONSTANTS
  MaxPeriods, \* bound: transactions Apple charges
  MaxInputs,  \* bound: notifications, client requests and deletions together
  MaxClock,   \* bound: ticks
  MaxOpen     \* bound: notifications whose row says received at a time

ASSUME AppleAssumption ==
  /\ MaxPeriods \in Nat \ {0} /\ MaxInputs \in Nat
  /\ MaxClock \in Nat /\ MaxOpen \in Nat \ {0}

VARIABLES
  clock,
  period,  \* Apple's transactions
  phase,   \* Apple's renewal state: phase and end of the grace period
  notice,  \* what Apple sent, with its row of apple_notification_events
  fetched, \* the answer a client request holds before it records it
  asked,   \* client requests and deletions so far
  user,    \* plan and official_minutes_billing_order_id
  other,   \* TRUE: a grant from elsewhere is active
  orders,  \* billing_orders of the family
  grants,  \* their entitlement_grants
  sub,     \* the apple_subscriptions row
  inOrder  \* history: nothing was applied before a notification signed
           \* earlier, but for a client's answer about the same transaction

apple == <<clock, period, phase>>
db == <<user, orders, grants, sub>>
vars == <<apple, notice, fetched, asked, other, db, inOrder>>

Periods == 1..MaxPeriods
Notices == 1..Len(notice)
Dates == 0..(MaxClock + 4)
LifecycleKinds == {"grace", "billing_retry", "extended", "renewal_status"}
StatusKinds == {"refunded", "restored", "expired"}
Kinds == {"charge"} \cup LifecycleKinds \cup StatusKinds

NoPeriod == [start |-> 0, end |-> 0, state |-> "none"]
NoOrder == [status |-> "none", end |-> 0, signed |-> 0, made |-> 0]
NoSub == [current |-> 0, status |-> "none", expires |-> 0, grace |-> 0,
          signed |-> 0]
NoFetch == [tx |-> 0, end |-> 0, signed |-> 0]

TypeOK ==
  /\ clock \in 0..MaxClock
  /\ period \in [Periods -> [start : Dates, end : Dates,
                             state : {"none", "paid", "refunded"}]]
  /\ phase \in [at : {"new", "active", "grace", "retry", "ended"}, grace : Dates]
  /\ \A k \in Notices :
       notice[k] \in [kind : Kinds, tx : Periods, end : Dates, grace : Dates,
                      status : {"owed", "received", "processed"},
                      read : 0..MaxPeriods]
  /\ asked \in 0..MaxInputs
  /\ fetched \in [tx : 0..MaxPeriods, end : Dates, signed : Nat]
  /\ user \in [deleted : BOOLEAN, plan : {"free", "apple", "other"},
               order : 0..MaxPeriods]
  /\ orders \in [Periods -> [status : {"none", "paid", "refunded"}, end : Dates,
                             signed : Nat, made : 0..MaxPeriods]]
  /\ grants \in [Periods -> {"none", "active", "revoked", "lapsed", "refunded"}]
  /\ sub \in [current : 0..MaxPeriods, expires : Dates, grace : Dates, signed : Nat,
              status : {"none", "active", "grace", "billing_retry", "expired",
                        "revoked"}]
  /\ other \in BOOLEAN /\ inOrder \in BOOLEAN

Init ==
  /\ clock = 0
  /\ period = [p \in Periods |-> NoPeriod]
  /\ phase = [at |-> "new", grace |-> 0]
  /\ notice = <<>> /\ fetched = NoFetch /\ asked = 0
  /\ other \in BOOLEAN
  /\ user = [deleted |-> FALSE, plan |-> IF other THEN "other" ELSE "free",
             order |-> 0]
  /\ orders = [p \in Periods |-> NoOrder]
  /\ grants = [p \in Periods |-> "none"]
  /\ sub = NoSub /\ inOrder = TRUE

---------------------------------------------------------------------------
(* Apple: it charges, fails to charge, refunds and extends, and sends a    *)
(* notification of each.                                                   *)

Last == Cardinality({p \in Periods : period[p].state # "none"})
Running == Last > 0 /\ period[Last].state = "paid"

Notify(kind, p) ==
  /\ Len(notice) + asked < MaxInputs
  /\ notice' = Append(notice, [kind |-> kind, tx |-> p, end |-> period'[p].end,
                               grace |-> phase'.grace, status |-> "owed", read |-> 0])

StartOfNext ==
  IF Last = 0 \/ ~Running \/ period[Last].end < clock THEN clock ELSE period[Last].end

(* SUBSCRIBED and DID_RENEW: a first charge, a renewal (which may come     *)
(* before the period ends), one that recovers, a resubscription.           *)
Charges ==
  /\ Last < MaxPeriods
  /\ Last > 0 => period[Last].start =< clock /\ period[Last].start < StartOfNext
  /\ period' = [period EXCEPT ![Last + 1] =
                  [start |-> StartOfNext, end |-> StartOfNext + 1, state |-> "paid"]]
  /\ phase' = [at |-> "active", grace |-> 0]
  /\ Notify("charge", Last + 1)
  /\ UNCHANGED clock

(* DID_FAIL_TO_RENEW, with or without a grace period. *)
FailsToCharge ==
  /\ Running /\ phase.at = "active" /\ period[Last].end =< clock
  /\ UNCHANGED <<clock, period>>
  /\ \/ /\ phase' = [at |-> "grace", grace |-> clock + 1] /\ Notify("grace", Last)
     \/ /\ phase' = [at |-> "retry", grace |-> 0] /\ Notify("billing_retry", Last)

(* EXPIRED and GRACE_PERIOD_EXPIRED. *)
Expires ==
  /\ Running /\ phase.at \in {"active", "grace", "retry"}
  /\ period[Last].end =< clock /\ phase.grace =< clock
  /\ phase' = [at |-> "ended", grace |-> 0]
  /\ UNCHANGED <<clock, period>>
  /\ Notify("expired", Last)

(* REFUND and REFUND_REVERSED. *)
Refunds(p) ==
  /\ period[p].state = "paid" /\ period[p].start =< clock
  /\ period' = [period EXCEPT ![p].state = "refunded"]
  /\ phase' = IF p = Last THEN [at |-> "ended", grace |-> 0] ELSE phase
  /\ Notify("refunded", p)
  /\ UNCHANGED clock

ReversesRefund(p) ==
  /\ period[p].state = "refunded"
  /\ period' = [period EXCEPT ![p].state = "paid"]
  /\ UNCHANGED <<clock, phase>>
  /\ Notify("restored", p)

(* RENEWAL_EXTENDED: the period in course ends a tick later. *)
Extends ==
  /\ Running /\ phase.at = "active" /\ clock < period[Last].end
  /\ period[Last].end = period[Last].start + 1
  /\ period' = [period EXCEPT ![Last].end = @ + 1]
  /\ UNCHANGED <<clock, phase>>
  /\ Notify("extended", Last)

(* DID_CHANGE_RENEWAL_STATUS, DID_CHANGE_RENEWAL_PREF, PRICE_INCREASE. *)
ChangesRenewal ==
  /\ Last > 0
  /\ UNCHANGED apple
  /\ Notify("renewal_status", Last)

Tick ==
  /\ clock < MaxClock
  /\ clock' = clock + 1
  /\ UNCHANGED <<period, phase, notice>>

AppleNext ==
  /\ \/ Charges \/ FailsToCharge \/ Expires \/ Extends \/ ChangesRenewal \/ Tick
     \/ \E p \in Periods : Refunds(p) \/ ReversesRefund(p)
  /\ UNCHANGED <<fetched, asked, other, db, inOrder>>

---------------------------------------------------------------------------
(* What the handlers share. *)

Signed(k) == 2 * k
Recorded(p) == orders[p].status # "none"
Granted(p) == grants[p] # "none"
Active == {p \in Periods : grants[p] = "active"}
Made == Cardinality({p \in Periods : Recorded(p)})
Newest(S) == CHOOSE p \in S : \A q \in S : orders[q].made =< orders[p].made
Order(end, signed) ==
  [status |-> "paid", end |-> end, signed |-> signed, made |-> Made + 1]

(* isAppleLifecycleUpdateStale without period starts. *)
Stale(end, signed) ==
  IF end # sub.expires THEN end < sub.expires ELSE signed < sub.signed

(* A plausible error: a charge is compared by its signed date only. *)
StaleBySigned(p, signed) ==
  sub.current \notin {0, p} /\ signed < sub.signed

(* The same with the start of the current order's period, for a charge:    *)
(* the transactions of a family never start together.                      *)
StaleCharge(p, signed) ==
  /\ sub.current \notin {0, p}
  /\ period[p].start < period[sub.current].start

Current(p, end, signed) ==
  [current |-> p, status |-> "active", expires |-> end, grace |-> 0,
   signed |-> signed]

(* A plausible error: the grants of the family's older periods stay. *)
Adding(p) == [grants EXCEPT ![p] = "active"]

(* postgresSupersedeAppleSubscriptionFamily, and the grant of period p.    *)
Superseding(p) ==
  [q \in Periods |-> IF q = p THEN "active"
                     ELSE IF grants[q] = "active" THEN "revoked" ELSE grants[q]]

(* The user, the order, its grant and the guarded upsert, as the client    *)
(* and the notification write them.                                        *)
GrantsPeriod(p, end, signed) ==
  /\ user' = [user EXCEPT !.plan = "apple", !.order = p]
  /\ orders' = [orders EXCEPT ![p] = Order(end, signed)]
  /\ grants' = Superseding(p)
  /\ sub' = IF sub.current = 0 \/ sub.signed =< signed
            THEN Current(p, end, signed) ELSE sub

(* A plausible error: a user whose Apple grant ends falls back to free.    *)
AlwaysFree(held) == "free"

(* postgresResolveActivePlan once no Apple grant is left; the user's       *)
(* billing order is only reset with the free plan.                         *)
FallbackPlan(held) == IF held THEN "other" ELSE "free"

FallsBack == [user EXCEPT !.plan = FallbackPlan(other),
                          !.order = IF FallbackPlan(other) = "free" THEN 0 ELSE @]

(* History: what is applied now was signed after the notifications S. *)
Overtakes(S) == inOrder' = (inOrder /\ \A k \in S : notice[k].status = "processed")

---------------------------------------------------------------------------
(* The client: POST /api/payments/apple/transactions asks Apple, which     *)
(* answers for a transaction neither revoked nor expired, and records the  *)
(* answer some time later.                                                 *)

ClientAsks(p) ==
  /\ fetched = NoFetch /\ Len(notice) + asked < MaxInputs
  /\ asked' = asked + 1
  /\ period[p].state = "paid" /\ clock < period[p].end
  /\ fetched' = [tx |-> p, end |-> period[p].end, signed |-> 2 * Len(notice) + 1]
  /\ UNCHANGED <<apple, notice, other, db, inOrder>>

ClientRecords ==
  /\ fetched # NoFetch
  /\ fetched' = NoFetch
  /\ IF user.deleted \/ Recorded(fetched.tx)
          \/ StaleCharge(fetched.tx, fetched.signed)
     THEN UNCHANGED <<db, inOrder>>
     ELSE /\ GrantsPeriod(fetched.tx, fetched.end, fetched.signed)
          /\ Overtakes({k \in Notices : Signed(k) < fetched.signed
                                         /\ notice[k].tx # fetched.tx})
  /\ UNCHANGED <<apple, notice, asked, other>>

---------------------------------------------------------------------------
(* The notification transactions. *)

(* A notification of a charge whose order exists confirms the row. *)
ConfirmsCharge(n, signed) ==
  /\ sub' = IF Stale(n.end, signed) THEN sub
            ELSE [sub EXCEPT !.status = "active", !.expires = n.end, !.signed = signed]
  /\ UNCHANGED <<user, orders, grants>>

(* A charge of a deleted account: an order without a grant, and the row    *)
(* whatever its signed date.                                               *)
KeepsLedger(n, signed) ==
  /\ orders' = [orders EXCEPT ![n.tx] = Order(n.end, signed)]
  /\ sub' = Current(n.tx, n.end, signed)
  /\ UNCHANGED <<user, grants>>

AppliesCharge(n, signed) ==
  IF Recorded(n.tx) THEN ConfirmsCharge(n, signed)
  ELSE IF StaleCharge(n.tx, signed) THEN UNCHANGED db
  ELSE IF user.deleted THEN KeepsLedger(n, signed)
  ELSE GrantsPeriod(n.tx, n.end, signed)

(* The order that a lifecycle notification is applied to: of the current   *)
(* transaction, or the newest.                                             *)
FamilyOrder ==
  IF \E p \in Periods : Recorded(p) /\ p = sub.current THEN sub.current
  ELSE IF Made > 0 THEN Newest({p \in Periods : Recorded(p)}) ELSE 0

(* An extension writes its own reason on the grant, over the one that the  *)
(* recovery looks for.                                                     *)
GrantSeen(n, f) ==
  IF n.kind = "extended" /\ grants[f] = "lapsed" THEN "revoked" ELSE grants[f]

(* A plausible error: a late grace period does not bring the grant back. *)
ExtensionOnly(n) == IF n.kind = "extended" THEN n.end ELSE 0

RecoveryUntil(n) ==
  CASE n.kind = "grace" -> n.grace
    [] n.kind = "extended" -> n.end
    [] OTHER -> 0

(* A plausible error: the account's deletion is not looked at. *)
RecoversAnyone(n, f) == GrantSeen(n, f) = "lapsed" /\ RecoveryUntil(n) > clock

Recovers(n, f) ==
  ~user.deleted /\ GrantSeen(n, f) = "lapsed" /\ RecoveryUntil(n) > clock

AppliesLifecycle(n, signed, f) ==
  IF sub.signed > signed THEN UNCHANGED db
  ELSE /\ sub' = [sub EXCEPT
            !.status = CASE n.kind \in {"grace", "billing_retry"} -> n.kind
                         [] n.kind = "extended" -> "active"
                         [] OTHER -> @,
            !.expires = n.end,
            !.grace = IF n.kind = "billing_retry" THEN 0
                      ELSE IF n.grace # 0 THEN n.grace ELSE @,
            !.signed = signed]
       /\ orders' = IF n.kind = "extended" THEN [orders EXCEPT ![f].end = n.end]
                    ELSE orders
       /\ grants' = [grants EXCEPT ![f] =
                       IF Recovers(n, f) THEN "active" ELSE GrantSeen(n, f)]
       /\ user' = IF Recovers(n, f) THEN [user EXCEPT !.plan = "apple", !.order = f]
                  ELSE user

OrderStatus(kind, status) ==
  CASE kind = "refunded" -> "refunded"
    [] kind = "restored" -> "paid"
    [] OTHER -> status

(* A plausible error: the order's status is written to the subscription. *)
SubStatusOfOrder(kind) == IF kind = "expired" THEN "expired" ELSE OrderStatus(kind, "active")

SubStatus(kind) ==
  CASE kind = "restored" -> "active"
    [] kind = "expired" -> "expired"
    [] OTHER -> "revoked"

GrantStatus(kind) == IF kind = "refunded" THEN "refunded" ELSE "revoked"

StaleStatus(n, signed) ==
  \/ signed < orders[n.tx].signed
  \/ sub.current = n.tx /\ Stale(n.end, signed)

(* A deleted account keeps its ledger and loses the grant, even when a     *)
(* refund is reversed.                                                     *)
RecordsForDeleted(n, signed) ==
  /\ grants' = IF Granted(n.tx) THEN [grants EXCEPT ![n.tx] = GrantStatus(n.kind)]
               ELSE grants
  /\ sub' = IF Granted(n.tx) /\ sub.current # n.tx /\ sub.signed > signed THEN sub
            ELSE [sub EXCEPT !.status = SubStatus(n.kind), !.signed = signed]
  /\ user' = user

SeenBySub(n, signed) ==
  IF sub.current = n.tx THEN [sub EXCEPT !.signed = signed] ELSE sub

(* REFUND_REVERSED: the period comes back only when no other period of the *)
(* family is in force.                                                     *)
Restores(n, signed) ==
  LET alreadyPaid == grants[n.tx] = "active" /\ orders[n.tx].status = "paid"
      replaced == Active \ {n.tx} # {}
  IN  /\ sub' = IF sub.current = n.tx /\ (alreadyPaid \/ ~replaced)
                THEN [SeenBySub(n, signed) EXCEPT !.status = "active"]
                ELSE SeenBySub(n, signed)
      /\ grants' = IF alreadyPaid THEN grants
                   ELSE IF replaced
                   THEN [grants EXCEPT ![n.tx] = IF @ = "active" THEN @ ELSE "revoked"]
                   ELSE Superseding(n.tx)
      /\ user' = IF alreadyPaid \/ replaced THEN user
                 ELSE [user EXCEPT !.plan = "apple", !.order = n.tx]

(* REFUND and EXPIRED of a period in force end every grant of the family;  *)
(* of one that is not, only its order is told.                             *)
Ends(n, signed) ==
  IF grants[n.tx] # "active"
  THEN sub' = SeenBySub(n, signed) /\ UNCHANGED <<user, grants>>
  ELSE /\ grants' = [q \in Periods |->
                       IF q = n.tx THEN GrantStatus(n.kind)
                       ELSE IF grants[q] = "active" THEN "revoked" ELSE grants[q]]
       /\ sub' = IF sub.current = n.tx
                 THEN [SeenBySub(n, signed) EXCEPT !.status = SubStatus(n.kind)]
                 ELSE sub
       /\ user' = FallsBack

AppliesStatus(n, signed) ==
  IF StaleStatus(n, signed) THEN UNCHANGED db
  ELSE /\ orders' = [orders EXCEPT ![n.tx].signed = signed,
                                   ![n.tx].status = OrderStatus(n.kind, @)]
       /\ IF user.deleted THEN RecordsForDeleted(n, signed)
          ELSE IF n.kind = "restored" THEN Restores(n, signed)
          ELSE Ends(n, signed)

---------------------------------------------------------------------------
(* apple_notification_events: Apple repeats a notification until it is     *)
(* answered, in any order; a handler may die before its transaction or     *)
(* between the transaction and the completed row.  A notification is owed  *)
(* while it has no row or one that says failed.                            *)

Claimable(k) == notice[k].status # "processed"

Open == {k \in Notices : notice[k].status = "received"}
MayOpen(k) == k \in Open \/ Cardinality(Open) < MaxOpen

Row(k, status) ==
  /\ status = "received" => MayOpen(k)
  /\ notice' = [notice EXCEPT ![k].status = status, ![k].read = 0]

Known(n) ==
  CASE n.kind = "charge" -> TRUE
    [] n.kind \in LifecycleKinds -> Made > 0
    [] n.kind \in StatusKinds -> Recorded(n.tx)

(* A charge or a status is one transaction under the family's lock. *)
Handles(k, status) ==
  LET n == notice[k]
  IN  /\ Claimable(k) /\ n.kind \notin LifecycleKinds /\ Known(n)
      /\ IF n.kind = "charge" THEN AppliesCharge(n, Signed(k))
         ELSE AppliesStatus(n, Signed(k))
      /\ Row(k, status) /\ Overtakes(1..(k - 1))
      /\ UNCHANGED <<apple, fetched, asked, other>>

(* A lifecycle notification takes no family lock: it reads the family's    *)
(* order before it locks the user.                                         *)
ReadsFamily(k) ==
  /\ Claimable(k) /\ notice[k].kind \in LifecycleKinds /\ notice[k].read = 0
  /\ FamilyOrder # 0 /\ MayOpen(k)
  /\ notice' = [notice EXCEPT ![k].status = "received", ![k].read = FamilyOrder]
  /\ Overtakes(1..(k - 1))
  /\ UNCHANGED <<apple, fetched, asked, other, db>>

HandlesLifecycle(k, status) ==
  /\ notice[k].read # 0
  /\ AppliesLifecycle(notice[k], Signed(k), notice[k].read)
  /\ Row(k, status)
  /\ UNCHANGED <<apple, fetched, asked, other, inOrder>>

(* No order yet, or a transaction the database aborts (the lifecycle       *)
(* handlers lock the user first, the others the subscription first).       *)
Fails(k) ==
  /\ Claimable(k)
  /\ Row(k, "owed")
  /\ UNCHANGED <<apple, fetched, asked, other, db, inOrder>>

(* The handler dies before its transaction. *)
Dies(k) ==
  /\ Claimable(k)
  /\ Row(k, "received")
  /\ UNCHANGED <<apple, fetched, asked, other, db, inOrder>>

---------------------------------------------------------------------------
(* The account. *)

(* What postgresRefreshUserEntitlements leaves active. *)
InForce(p) ==
  orders[p].end > clock \/ (sub.status = "grace" /\ sub.grace > clock)

Refreshes ==
  LET live == {p \in Active : InForce(p)}
      until == IF sub.grace # 0 THEN sub.grace ELSE sub.expires
  IN  /\ ~user.deleted
      /\ grants' = [p \in Periods |-> IF p \in Active \ live THEN "lapsed" ELSE grants[p]]
      /\ sub' = IF sub.status \in {"active", "billing_retry", "grace"} /\ until =< clock
                THEN [sub EXCEPT !.status = "expired"] ELSE sub
      /\ user' = IF live # {} THEN [user EXCEPT !.plan = "apple", !.order = Newest(live)]
                 ELSE [user EXCEPT !.plan = FallbackPlan(other), !.order = 0]
      /\ UNCHANGED <<apple, notice, fetched, asked, other, orders, inOrder>>

Deletes ==
  /\ ~user.deleted /\ Len(notice) + asked < MaxInputs
  /\ asked' = asked + 1
  /\ user' = [deleted |-> TRUE, plan |-> "free", order |-> 0]
  /\ UNCHANGED <<apple, notice, fetched, other, orders, grants, sub, inOrder>>

---------------------------------------------------------------------------
Next ==
  \/ AppleNext
  \/ \E p \in Periods : ClientAsks(p)
  \/ ClientRecords
  \/ \E k \in Notices :
       \/ \E status \in {"processed", "received"} :
            Handles(k, status) \/ HandlesLifecycle(k, status)
       \/ ReadsFamily(k) \/ Fails(k) \/ Dies(k)
  \/ Refreshes
  \/ Deletes

Spec == Init /\ [][Next]_vars

---------------------------------------------------------------------------
(* The user's plan is the one the grants give, after every transaction, in *)
(* whatever order they ran.                                                *)
PlanFollowsGrants ==
  ~user.deleted =>
    /\ user.plan = IF Active # {} THEN "apple" ELSE IF other THEN "other" ELSE "free"
    /\ Active # {} => user.order \in Active

(* A refund is reversed of a period that another has followed. *)
OldRestored ==
  \E j, k \in Notices :
    j < k /\ notice[k].kind = "restored" /\ notice[k].tx < notice[j].tx

(* One grant of the family is active at a time, while notifications are    *)
(* applied in order.  A late charge under a newer grace period can leave   *)
(* two; so can, even in order, the reversed refund of an older period      *)
(* between the lapse and the grace period of the newer one.                *)
OneActivePeriod == inOrder /\ ~OldRestored => Cardinality(Active) =< 1

(* Nothing that arrives after the deletion gives the account a grant. *)
NoGrantAfterDeletion ==
  [][user.deleted => user' = user /\ Active' \subseteq Active]_vars

(* In any order: while the row names the period the user is on, no older   *)
(* charge, client answer or reversed refund takes the user back; only a    *)
(* late grace period may, which brings a lapsed grant back.                *)
NewerPeriodWins ==
  [][\A p, q \in Periods :
       sub.current = q /\ user.order = q /\ user'.order = p /\ p < q
         => "lapsed" \in {grants[p], grants'[q]} \/ grants[q] # "active"]_vars

Settled ==
  /\ \A k \in Notices : notice[k].status = "processed"
  /\ fetched = NoFetch /\ ~user.deleted

Covered ==
  \/ \E p \in Periods : period[p].state = "paid" /\ clock < period[p].end
  \/ phase.at = "grace" /\ clock < phase.grace

(* Once what came in order is handled, the account has an Apple grant in   *)
(* force exactly while Apple's customer is covered; but an extension that  *)
(* comes after its period was found over is lost, and so is what a second  *)
(* refund of an older, restored period ends with it.                       *)
Extended == \E k \in Notices : notice[k].kind = "extended"
EntitledAsCovered ==
  Settled /\ inOrder /\ ~OldRestored =>
    /\ (\E p \in Active : InForce(p)) => Covered
    /\ Covered /\ ~Extended => \E p \in Active : InForce(p)

=============================================================================
