--------------------------- MODULE ProviderLedger ---------------------------
(***************************************************************************)
(* The official-minutes ledger of one account: quota reservations, the     *)
(* cost fence around paid provider calls, usage events, and the changes of *)
(* plan and billing period that run beside them.                           *)
(*                                                                         *)
(* Every function of auth-repository.ts modelled here is one PostgreSQL    *)
(* transaction that first locks the user's row, so it is one action.  The  *)
(* exception is the manual plan change, which reads the user outside its   *)
(* transaction and is two actions.  Clocks are abstracted: a lease or an   *)
(* expiry is a Boolean that an environment action may turn off.            *)
(***************************************************************************)
EXTENDS Naturals, FiniteSets

CONSTANTS
  Meetings,      \* meeting ids of the account
  Ops,           \* operation keys, one reservation row each
  MeetingOf,     \* [Ops -> Meetings]
  Cost,          \* [Ops -> Nat]: calculateMeetingUsage(...).officialMinutesCharged
  Stages,        \* the provider stages that callers of this instance run
  Callers,       \* request handlers and workers that call a paid provider
  NoCaller,      \* "no claim token"
  FreeTotal,     \* minutes of the free trial
  PaidTotal,     \* minutes of a paid period
  MaxOrders,     \* bound: billing orders created in one behaviour
  PlanChanges,   \* which plan changes occur: a subset of {"apple", "manual"}
  ManualReadsAhead  \* TRUE: other work may run between read and write

(***************************************************************************)
(* meetingProviderStageKey.  Realtime stages are numbered by chunk; the    *)
(* bound is two chunks per operation.                                      *)
(***************************************************************************)
RealtimeKey == <<"realtime:1", "realtime:2">>
StageKeys == {"realtime:1", "realtime:2", "asr", "summary"}
MaxChunks == 2

(* The source_ref of the account itself, beside those of its meetings. *)
Account == "account"

ASSUME LedgerAssumption ==
  /\ IsFiniteSet(Ops)
  /\ Account \notin Meetings  \* providerCostSourceRef hashes the scope in
  /\ MeetingOf \in [Ops -> Meetings]
  /\ Cost \in [Ops -> Nat]
  /\ Stages \subseteq StageKeys
  /\ NoCaller \notin Callers
  /\ FreeTotal \in Nat
  /\ PaidTotal \in Nat
  /\ MaxOrders \in Nat
  /\ PlanChanges \subseteq {"apple", "manual"}
  /\ ManualReadsAhead \in BOOLEAN

VARIABLES
  user,      \* the users row
  grants,    \* the active entitlement grants
  orders,    \* billing orders created so far; also the newest period identity
  manual,    \* a manual plan change between its read and its write
  res,       \* meeting_processing_reservations
  step,      \* meeting_processing_provider_steps
  event,     \* usage_events of type meeting_finalize, by reservation
  archived,  \* account_deletion_provider_cost_aggregates: the minutes in them
  sources,   \* their source_refs: meetings, and the account itself
  purged,    \* meetings whose ledger was archived after deletion
  call,      \* what each caller is doing
  durable,   \* stages whose provider output is saved in a checkpoint
  charged,   \* history: minutes settled by starts, less minutes taken back
  spent      \* history: provider calls made and not definitively rejected

planVars == <<user, grants, orders, manual>>
archiveVars == <<archived, sources, purged>>
ledgerVars == <<res, step, event, archiveVars, charged>>
callerVars == <<call, durable, spent>>
vars == <<user, grants, orders, manual, res, step, event, archived, sources,
          purged, call, durable, charged, spent>>

FreePeriod == 0
NoOp == [op |-> NoCaller, stage |-> NoCaller, phase |-> "idle"]
NoReservation ==
  [status |-> "none", reserved |-> 0, settled |-> 0, live |-> FALSE, seq |-> 0]
NoStep == [status |-> "none", token |-> NoCaller, lease |-> FALSE,
           settled |-> 0, free |-> 0, period |-> FreePeriod]
NoManual == [busy |-> FALSE, plan |-> "free", used |-> 0, freeUsed |-> 0]
NoEvent == [recorded |-> FALSE, minutes |-> 0]

Phases == {"idle", "claimed", "refused", "calling", "returned", "saved",
           "rejected"}

UserRow == [plan : {"free", "paid"}, total : Nat, used : Nat, freeUsed : Nat,
            period : Nat, deleted : BOOLEAN]
GrantRow == [order : Nat, source : {"apple", "manual"}, plan : {"free", "paid"},
             prev : {"free", "paid"}]
PlanRead == [busy : BOOLEAN, plan : {"free", "paid"}, used : Nat, freeUsed : Nat]
ReservationRow == [status : {"none", "reserved", "finalized"}, reserved : Nat,
                   settled : Nat, live : BOOLEAN, seq : Nat]
StepRow == [status : {"none", "claimed", "started", "completed", "released"},
            token : Callers \cup {NoCaller}, lease : BOOLEAN, settled : Nat,
            free : Nat, period : Nat]
EventRow == [recorded : BOOLEAN, minutes : Nat]
CallState == [op : Ops \cup {NoCaller}, stage : StageKeys \cup {NoCaller},
              phase : Phases]

TypeOK ==
  /\ user \in UserRow
  /\ grants \subseteq GrantRow
  /\ orders \in Nat
  /\ manual \in PlanRead
  /\ res \in [Ops -> ReservationRow]
  /\ step \in [Ops \X StageKeys -> StepRow]
  /\ event \in [Ops -> EventRow]
  /\ archived \in Nat
  /\ sources \subseteq Meetings \cup {Account}
  /\ purged \subseteq Meetings
  /\ call \in [Callers -> CallState]
  /\ durable \subseteq Ops \X StageKeys
  /\ charged \in Nat
  /\ spent \in [Ops \X StageKeys -> Nat]

Init ==
  /\ user = [plan |-> "free", total |-> FreeTotal, used |-> 0, freeUsed |-> 0,
             period |-> FreePeriod, deleted |-> FALSE]
  /\ grants = {}
  /\ orders = 0
  /\ manual = NoManual
  /\ res = [o \in Ops |-> NoReservation]
  /\ step = [k \in Ops \X StageKeys |-> NoStep]
  /\ event = [o \in Ops |-> NoEvent]
  /\ archived = 0
  /\ sources = {}
  /\ purged = {}
  /\ call = [c \in Callers |-> NoOp]
  /\ durable = {}
  /\ charged = 0
  /\ spent = [k \in Ops \X StageKeys |-> 0]

-----------------------------------------------------------------------------
(* Arithmetic of the ledger.                                               *)

Monus(a, b) == IF a >= b THEN a - b ELSE 0
Least(a, b) == IF a =< b THEN a ELSE b
Greatest(a, b) == IF a >= b THEN a ELSE b

(***************************************************************************)
(* postgresPendingCapacity: the minutes that live reservations other than  *)
(* o still hold, each minute one element of the set.                       *)
(***************************************************************************)
HeldByOthers(o) ==
  UNION {{<<p, m>> : m \in (res[p].settled + 1)..res[p].reserved} :
           p \in {q \in Ops \ {o} : res[q].status = "reserved" /\ res[q].live}}

(* Mutant: minutes already used do not count against the total. *)
AvailableIgnoringUsed(o) == Monus(user.total, Cardinality(HeldByOthers(o)))

Available(o) ==
  Monus(Monus(user.total, user.used), Cardinality(HeldByOthers(o)))

(* Mutant: every stage settles the whole reservation again. *)
WholeReservation(o) == res[o].reserved

(* settlePostgresReservationCapacity: what starting a step must settle. *)
UnsettledDelta(o) == Monus(res[o].reserved, res[o].settled)

(* assertPostgresReservationActive *)
ReservationActive(o) == res[o].status = "reserved" /\ res[o].live

StepsOf(o) == {<<o, s>> : s \in StageKeys}

(* What a step settled, summed over the stages of the reservation. *)
StepSettled(o) ==
  step[<<o, "realtime:1">>].settled + step[<<o, "realtime:2">>].settled
    + step[<<o, "asr">>].settled + step[<<o, "summary">>].settled

(* Mutant: only the account's deletion closes the fence. *)
AccountOpen(o) == ~user.deleted

(* The meeting's write fence, held by every path that spends or publishes. *)
Fenced(o) == MeetingOf[o] \notin purged /\ ~user.deleted

-----------------------------------------------------------------------------
(* Reservations.                                                           *)

(***************************************************************************)
(* reservePostgresOfficialCapacity and the upsert of both reserve paths:   *)
(* the target never shrinks and only the unsettled part must still fit.    *)
(***************************************************************************)
ReserveUpTo(o, minutes, seq) ==
  LET target == Greatest(res[o].reserved, minutes)
  IN  /\ Monus(target, res[o].settled) =< Available(o)
      /\ res' = [res EXCEPT ![o].status = "reserved", ![o].reserved = target,
                            ![o].live = TRUE, ![o].seq = seq]

(***************************************************************************)
(* postgresReserveMeetingRealtimeQuota, under the fence: the next chunk,   *)
(* or a duplicate of one already counted, which renews the reservation.    *)
(* A chunk lasts a minute; an operation without official cost is BYOK.     *)
(***************************************************************************)
ReserveRealtime(o) ==
  /\ Fenced(o)
  /\ res[o].status # "finalized"
  /\ \E seq \in {res[o].seq, res[o].seq + 1} \cap 1..MaxChunks :
       ReserveUpTo(o, IF Cost[o] = 0 THEN 0 ELSE seq, seq)
  /\ UNCHANGED <<planVars, step, event, archiveVars, charged, callerVars>>

(***************************************************************************)
(* postgresReserveMeetingFinalizationQuota.  The finalizer calls it        *)
(* outside the write fence, so it may also run for a deleted meeting.      *)
(***************************************************************************)
ReserveFinalization(o) ==
  /\ ~user.deleted
  /\ res[o].status # "finalized"
  /\ ReserveUpTo(o, Cost[o], res[o].seq)
  /\ UNCHANGED <<planVars, step, event, archiveVars, charged, callerVars>>

(***************************************************************************)
(* postgresReleaseMeetingProcessingReservation: any attempt of the         *)
(* operation may call it, whichever attempt holds the claims.              *)
(***************************************************************************)
ReleaseReservation(o) ==
  /\ ~user.deleted
  /\ res[o].status = "reserved"
  /\ \A s \in StageKeys : step[<<o, s>>].status # "started"
  /\ res' = [res EXCEPT ![o].live = FALSE]
  /\ step' = [k \in Ops \X StageKeys |->
                IF k \in StepsOf(o) /\ step[k].status = "claimed"
                THEN [step[k] EXCEPT !.status = "released"]
                ELSE step[k]]
  /\ UNCHANGED <<planVars, event, archiveVars, charged, callerVars>>

(* A claim extends the reservation's expiry, so a live claim outlasts it not. *)
ReservationExpires(o) ==
  /\ res[o].live
  /\ \A s \in StageKeys :
       ~(step[<<o, s>>].status = "claimed" /\ step[<<o, s>>].lease)
  /\ res' = [res EXCEPT ![o].live = FALSE]
  /\ UNCHANGED <<planVars, step, event, archiveVars, charged, callerVars>>

-----------------------------------------------------------------------------
(* The cost fence around one provider call.                                *)

(* Mutant: a started step whose output never came may be tried again. *)
NotCompleted(k) ==
  step[k].status # "completed" /\ ~(step[k].status = "claimed" /\ step[k].lease)

(* Completed, started and freshly claimed steps turn the next caller away. *)
Claimable(k) ==
  /\ step[k].status \notin {"completed", "started"}
  /\ ~(step[k].status = "claimed" /\ step[k].lease)

(* postgresClaimMeetingProviderStep *)
ClaimStep(c, o, s) ==
  LET k == <<o, s>>
  IN  /\ call[c].phase = "idle"
      /\ s \in Stages
      /\ Fenced(o)
      /\ \A n \in 1..MaxChunks : s = RealtimeKey[n] => res[o].seq = n
      /\ Claimable(k)
      /\ ReservationActive(o)
      /\ step' = [step EXCEPT ![k] = [NoStep EXCEPT !.status = "claimed",
                                                   !.token = c,
                                                   !.lease = TRUE]]
      /\ call' = [call EXCEPT ![c] = [op |-> o, stage |-> s,
                                      phase |-> "claimed"]]
      /\ UNCHANGED <<planVars, res, event, archiveVars, charged, durable, spent>>

StepLeaseExpires(o, s) ==
  /\ step[<<o, s>>].status = "claimed"
  /\ step[<<o, s>>].lease
  /\ step' = [step EXCEPT ![<<o, s>>].lease = FALSE]
  /\ UNCHANGED <<planVars, res, event, archiveVars, charged, callerVars>>

(* assertPostgresProviderClaim *)
HoldsClaim(c, k) ==
  step[k].status = "claimed" /\ step[k].token = c /\ step[k].lease

CanStart(c) ==
  LET o == call[c].op
  IN  /\ HoldsClaim(c, <<o, call[c].stage>>)
      /\ ReservationActive(o)
      /\ UnsettledDelta(o) =< Available(o)

(***************************************************************************)
(* postgresStartMeetingProviderStep: settles the reservation and moves the *)
(* step to started in one transaction, immediately before the paid call.   *)
(***************************************************************************)
StartStep(c) ==
  LET o == call[c].op
      k == <<o, call[c].stage>>
      delta == UnsettledDelta(o)
      freeUsed == IF user.plan = "free"
                  THEN Least(FreeTotal, user.freeUsed + delta)
                  ELSE user.freeUsed
  IN  /\ call[c].phase = "claimed"
      /\ Fenced(o)
      /\ CanStart(c)
      /\ user' = [user EXCEPT !.used = @ + delta, !.freeUsed =
                    IF delta = 0 THEN user.freeUsed ELSE freeUsed]
      /\ res' = [res EXCEPT ![o].settled = @ + delta]
      /\ step' = [step EXCEPT ![k].status = "started", ![k].settled = delta,
                    ![k].free = IF delta = 0 THEN 0
                                ELSE Least(delta, Monus(freeUsed, user.freeUsed)),
                    ![k].period = user.period]
      /\ charged' = charged + delta
      /\ spent' = [spent EXCEPT ![k] = @ + 1]
      /\ call' = [call EXCEPT ![c].phase = "calling"]
      /\ UNCHANGED <<grants, orders, manual, event, archiveVars, durable>>

(* The start transaction throws; the caller then gives its claim back. *)
StartRefused(c) ==
  /\ call[c].phase = "claimed"
  /\ user.deleted \/ ~CanStart(c)
  /\ call' = [call EXCEPT ![c].phase = "refused"]
  /\ UNCHANGED <<planVars, ledgerVars, durable, spent>>

(* postgresReleaseMeetingProviderStep, whose errors the callers swallow. *)
ReleaseStep(c) ==
  LET k == <<call[c].op, call[c].stage>>
  IN  /\ call[c].phase = "refused"
      /\ step' = IF /\ ~user.deleted
                    /\ step[k].status = "claimed"
                    /\ step[k].token = c
                 THEN [step EXCEPT ![k].status = "released"] ELSE step
      /\ call' = [call EXCEPT ![c] = NoOp]
      /\ UNCHANGED <<planVars, res, event, archiveVars, charged, durable, spent>>

(* External: the provider answers, or refuses the request definitively. *)
ProviderReturns(c) ==
  /\ call[c].phase = "calling"
  /\ call' = [call EXCEPT ![c].phase = "returned"]
  /\ UNCHANGED <<planVars, ledgerVars, durable, spent>>

ProviderRejects(c) ==
  LET k == <<call[c].op, call[c].stage>>
  IN  /\ call[c].phase = "calling"
      /\ call[c].stage \in {"asr", "summary"}
      /\ call' = [call EXCEPT ![c].phase = "rejected"]
      /\ spent' = [spent EXCEPT ![k] = @ - 1]
      /\ UNCHANGED <<planVars, ledgerVars, durable>>

(* onTranscriptReady / onSummaryReady: the output is saved under the fence. *)
SaveOutput(c) ==
  LET k == <<call[c].op, call[c].stage>>
  IN  /\ call[c].phase = "returned"
      /\ Fenced(call[c].op)
      /\ durable' = durable \cup {k}
      /\ call' = [call EXCEPT ![c].phase = "saved"]
      /\ UNCHANGED <<planVars, ledgerVars, spent>>

(***************************************************************************)
(* postgresCompleteMeetingProviderStep, after the output was saved or,     *)
(* when the meeting was deleted meanwhile, after it was discarded          *)
(* (completeDiscardedAfterMeetingDeletion).                                *)
(***************************************************************************)
CompleteStep(c) ==
  LET k == <<call[c].op, call[c].stage>>
  IN  /\ \/ call[c].phase = "saved"
         \/ call[c].phase = "returned" /\ ~Fenced(call[c].op)
      /\ step' = IF step[k].status = "started" /\ step[k].token = c
                 THEN [step EXCEPT ![k].status = "completed"] ELSE step
      /\ call' = [call EXCEPT ![c] = NoOp]
      /\ UNCHANGED <<planVars, res, event, archiveVars, charged, durable, spent>>

(* postgresReconcileMeetingProviderStep: a retry that finds the checkpoint. *)
ReconcileStep(o, s) ==
  /\ Fenced(o)
  /\ <<o, s>> \in durable
  /\ res[o].status # "none"
  /\ step[<<o, s>>].status = "started"
  /\ step' = [step EXCEPT ![<<o, s>>].status = "completed"]
  /\ UNCHANGED <<planVars, res, event, archiveVars, charged, callerVars>>

(* Mutant: minutes go back to whichever period is open. *)
AnyPeriod(k) == TRUE

PeriodMatches(k) == step[k].period = user.period

(* Mutant: a refusal after the usage was recorded still gives minutes back. *)
LateRefundAllowed(k) ==
  \/ res[k[1]].settled < step[k].settled
  \/ PeriodMatches(k) /\ user.used < step[k].settled

(* provider_step_refund_conflict: the three checks before minutes go back. *)
RefundConflict(k) ==
  \/ res[k[1]].status = "finalized"
  \/ res[k[1]].settled < step[k].settled
  \/ PeriodMatches(k) /\ user.used < step[k].settled

(* Mutant: a deleted account's counters are refunded too. *)
RefundedAlways(k) ==
  [user EXCEPT !.used = IF PeriodMatches(k) THEN @ - step[k].settled ELSE @,
               !.freeUsed = Monus(@, step[k].free)]

(* The user's counters once step k's minutes are taken back. *)
Refunded(k) ==
  IF user.deleted THEN user
  ELSE [user EXCEPT !.used = IF PeriodMatches(k) THEN @ - step[k].settled ELSE @,
                    !.freeUsed = Monus(@, step[k].free)]

(* The step row after the refusal. *)
Rejected(k) == [step[k] EXCEPT !.status = "released", !.settled = 0,
                               !.free = IF user.deleted THEN 0 ELSE @]

(***************************************************************************)
(* postgresRejectMeetingProviderStep: the provider definitively refused,   *)
(* so the step's own settlement is taken back.  A deleted account's step   *)
(* is released without touching the user's counters.                       *)
(***************************************************************************)
RejectStep(c) ==
  LET o == call[c].op
      k == <<o, call[c].stage>>
      back == step[k].settled
      mine == step[k].token = c
      started == step[k].status = "started"
      refund == mine /\ started /\ (user.deleted \/ ~RefundConflict(k))
      release == refund \/ (mine /\ step[k].status = "claimed")
  IN  /\ call[c].phase = "rejected"
      /\ user' = IF refund THEN Refunded(k) ELSE user
      /\ res' = IF refund
                THEN [res EXCEPT ![o].settled = Monus(@, back)] ELSE res
      /\ charged' = IF refund THEN Monus(charged, back) ELSE charged
      /\ step' = IF release
                 THEN [step EXCEPT ![k] = Rejected(k)] ELSE step
      /\ call' = [call EXCEPT ![c] = NoOp]
      /\ UNCHANGED <<grants, orders, manual, event, archiveVars, durable, spent>>

(* The caller's process dies, or its provider call times out undecided. *)
CallerLost(c) ==
  /\ call[c].phase # "idle"
  /\ call' = [call EXCEPT ![c] = NoOp]
  /\ UNCHANGED <<planVars, ledgerVars, durable, spent>>

-----------------------------------------------------------------------------
(* Usage events and deletion.                                              *)

(***************************************************************************)
(* postgresRecordMeetingFinalizeUsage: one event per reservation, and only *)
(* for what was settled before the provider ran.  A step may still be      *)
(* started: an attempt that found a realtime transcript publishes while an *)
(* earlier attempt's transcription call is undecided.                      *)
(***************************************************************************)
RecordFinalizeUsage(o) ==
  /\ Fenced(o)
  /\ res[o].status # "none"
  /\ ~event[o].recorded
  /\ res[o].settled >= Cost[o]
  /\ res' = [res EXCEPT ![o].status = "finalized"]
  /\ event' = [event EXCEPT ![o] = [recorded |-> TRUE,
                                    minutes |-> res[o].settled]]
  /\ UNCHANGED <<planVars, step, archiveVars, charged, callerVars>>

(* The minutes the steps of ops settled, counted one by one. *)
SettledBy(ops) ==
  Cardinality({minute \in (ops \X StageKeys) \X (1..(FreeTotal + PaidTotal)) :
                 minute[2] =< step[minute[1]].settled})

(***************************************************************************)
(* The two archive functions: one aggregate row per source (on conflict    *)
(* do nothing, and only if there are steps); then the ledger rows go,      *)
(* whether or not the insert took effect.                                  *)
(***************************************************************************)
Archive(source, ops) ==
  LET used == \E k \in ops \X StageKeys : step[k].status # "none"
      fresh == used /\ source \notin sources
  IN  /\ archived' = IF fresh THEN archived + SettledBy(ops) ELSE archived
      /\ sources' = IF fresh THEN sources \cup {source} ELSE sources
      /\ res' = [o \in Ops |-> IF o \in ops THEN NoReservation ELSE res[o]]
      /\ step' = [k \in Ops \X StageKeys |->
                    IF k[1] \in ops THEN NoStep ELSE step[k]]

(* postgresPurgeMeetingProcessingLedger, after the tombstone; repeatable. *)
PurgeMeetingLedger(m) ==
  /\ Archive(m, {o \in Ops : MeetingOf[o] = m})
  /\ purged' = purged \cup {m}
  /\ UNCHANGED <<planVars, event, charged, callerVars>>

(* postgresDeleteAccount: puts the archive off while a step is started, and *)
(* deletes the usage events.                                                *)
DeleteAccount ==
  /\ ~user.deleted
  /\ IF \E k \in Ops \X StageKeys : step[k].status = "started"
     THEN /\ step' = [k \in Ops \X StageKeys |->
                        IF step[k].status = "claimed"
                        THEN [step[k] EXCEPT !.status = "released"]
                        ELSE step[k]]
          /\ UNCHANGED <<res, archived, sources>>
     ELSE Archive(Account, Ops)
  /\ user' = [user EXCEPT !.plan = "free", !.total = 0, !.used = 0,
                          !.period = FreePeriod, !.deleted = TRUE]
  /\ event' = [o \in Ops |-> NoEvent]
  /\ UNCHANGED <<grants, orders, manual, purged, charged, callerVars>>

(* reconcilePostgresAccountDeletionProcessing: archives what is left. *)
ArchiveDeletedAccount ==
  /\ user.deleted
  /\ \E o \in Ops : res[o].status # "none"
  /\ Archive(Account, Ops)
  /\ UNCHANGED <<planVars, event, purged, charged, callerVars>>

-----------------------------------------------------------------------------
(* Plans and billing periods.                                              *)

(* Mutant: the trial starts again when a subscription ends. *)
NewTrial(u) == [u EXCEPT !.plan = "free", !.total = FreeTotal, !.used = 0,
                         !.freeUsed = 0, !.period = FreePeriod]

(* Mutant: minutes used in the paid period stay counted in the trial. *)
KeepUsed(u) == [u EXCEPT !.plan = "free", !.total = FreeTotal,
                         !.period = FreePeriod]

RestoreFree(u) == [u EXCEPT !.plan = "free", !.total = FreeTotal,
                            !.used = u.freeUsed, !.period = FreePeriod]

(* getPlanMinutes *)
PlanMinutes(plan) == IF plan = "free" THEN FreeTotal ELSE PaidTotal

(* A plan put on the user's row without opening a period. *)
Granted(u, plan) ==
  [u EXCEPT !.plan = plan, !.total = PlanMinutes(plan),
            !.used = Least(@, PlanMinutes(plan))]

Newest(rows) == {g \in rows : \A h \in rows : g.order >= h.order}

(* postgresResolveActivePlan *)
ActivePlans(rows) == IF rows = {} THEN {"free"} ELSE {g.plan : g \in Newest(rows)}

(***************************************************************************)
(* An Apple purchase or renewal supersedes the subscription family's       *)
(* grants and opens a period with nothing used.                            *)
(***************************************************************************)
ApplePurchase ==
  /\ "apple" \in PlanChanges /\ ~user.deleted
  /\ orders < MaxOrders
  /\ orders' = orders + 1
  /\ grants' = {g \in grants : g.source # "apple"}
                 \cup {[order |-> orders + 1, source |-> "apple",
                        plan |-> "paid", prev |-> user.plan]}
  /\ user' = [user EXCEPT !.plan = "paid", !.total = PaidTotal, !.used = 0,
                !.period = orders + 1,
                !.freeUsed = IF user.plan = "free"
                             THEN Least(FreeTotal, user.used) ELSE @]
  /\ UNCHANGED <<manual, ledgerVars, callerVars>>

(***************************************************************************)
(* An Apple refund or revocation falls back to the remaining grants, an    *)
(* administrator's revocation to the plan the grant replaced.              *)
(***************************************************************************)
RevokeGrant(g) ==
  /\ ~user.deleted
  /\ g.source = "manual" => user.plan = g.plan
  /\ grants' = grants \ {g}
  /\ \E plan \in IF g.source = "manual" THEN {g.prev}
                 ELSE ActivePlans(grants \ {g}) :
       user' = IF plan = "free" THEN RestoreFree(user) ELSE Granted(user, plan)
  /\ UNCHANGED <<orders, manual, ledgerVars, callerVars>>

(* The subscription's end date passes; the row follows at the next refresh. *)
GrantExpires(g) ==
  /\ g.source = "apple"
  /\ grants' = grants \ {g}
  /\ UNCHANGED <<user, orders, manual, ledgerVars, callerVars>>

(* postgresRefreshUserEntitlements *)
RefreshEntitlements ==
  /\ ~user.deleted
  /\ \/ grants = {} /\ user' = RestoreFree(user)
     \/ \E g \in Newest(grants) :
          user' = IF user.plan # g.plan \/ user.period # g.order
                  THEN [Granted(user, g.plan) EXCEPT !.period = g.order]
                  ELSE user
  /\ UNCHANGED <<grants, orders, manual, ledgerVars, callerVars>>

(***************************************************************************)
(* postgresApplyUserPlanChange: reads the user, then writes counters it    *)
(* computed from that read.  An administrator's change also inserts an     *)
(* order and a grant, even for an account deleted meanwhile; a simulated   *)
(* self-service change does not.                                           *)
(***************************************************************************)
ManualPlanRead ==
  /\ "manual" \in PlanChanges /\ ~user.deleted
  /\ ~manual.busy
  /\ orders < MaxOrders
  /\ manual' = [busy |-> TRUE, plan |-> user.plan, used |-> user.used,
                freeUsed |-> user.freeUsed]
  /\ UNCHANGED <<user, grants, orders, ledgerVars, callerVars>>

ManualPlanWrite(target, byAdmin) ==
  LET freeUsed == IF manual.plan = "free"
                  THEN Least(FreeTotal, manual.used) ELSE manual.freeUsed
      written == [user EXCEPT !.freeUsed = freeUsed, !.used = manual.used]
      grant == [order |-> orders + 1, source |-> "manual", plan |-> target,
                prev |-> manual.plan]
  IN  /\ manual.busy
      /\ byAdmin => orders < MaxOrders
      /\ manual' = NoManual
      /\ user' = IF user.deleted THEN user
                 ELSE IF target = "free" THEN RestoreFree(written)
                 ELSE Granted(written, target)
      /\ orders' = IF byAdmin THEN orders + 1 ELSE orders
      /\ grants' = IF byAdmin THEN grants \cup {grant} ELSE grants
      /\ UNCHANGED <<ledgerVars, callerVars>>

-----------------------------------------------------------------------------
LedgerNext ==
  \/ \E o \in Ops : \/ ReserveRealtime(o)
                    \/ ReserveFinalization(o)
                    \/ ReleaseReservation(o)
                    \/ ReservationExpires(o)
                    \/ RecordFinalizeUsage(o)
  \/ \E o \in Ops, s \in StageKeys :
       \/ \E c \in Callers : ClaimStep(c, o, s)
       \/ StepLeaseExpires(o, s)
       \/ ReconcileStep(o, s)
  \/ \E m \in Meetings : PurgeMeetingLedger(m)
  \/ DeleteAccount
  \/ ArchiveDeletedAccount

CallerNext ==
  \E c \in Callers : \/ StartStep(c)
                     \/ StartRefused(c)
                     \/ ReleaseStep(c)
                     \/ ProviderReturns(c)
                     \/ ProviderRejects(c)
                     \/ SaveOutput(c)
                     \/ CompleteStep(c)
                     \/ RejectStep(c)
                     \/ CallerLost(c)

PlanNext ==
  \/ ApplePurchase
  \/ \E g \in grants : RevokeGrant(g) \/ GrantExpires(g)
  \/ RefreshEntitlements
  \/ ManualPlanRead

Next ==
  \/ /\ ~manual.busy \/ ManualReadsAhead
     /\ LedgerNext \/ CallerNext \/ PlanNext
  \/ \E target \in {"free", "paid"}, byAdmin \in BOOLEAN :
       ManualPlanWrite(target, byAdmin)

Spec == Init /\ [][Next]_vars

-----------------------------------------------------------------------------
(* Safety.                                                                 *)

(* No interleaving of reservations, starts, refunds and plan changes lets  *)
(* the account use more official minutes than its period grants; every     *)
(* capacity check of auth-repository.ts is there for this.                 *)
NoOverspend == user.used =< user.total

(* A reservation's settled minutes are exactly what its steps settled, and *)
(* never more than it reserved: a start, a refund, a re-claim after a      *)
(* release and an archive keep the two tables in step.                     *)
SettlementMatchesSteps ==
  \A o \in Ops : /\ res[o].settled = StepSettled(o)
                 /\ res[o].settled =< res[o].reserved

(* Once usage is recorded the billed minutes never drift from the          *)
(* settlement: no late start and no late refund touches a finalized        *)
(* reservation as long as the account is there to be billed.               *)
FinalizedIsFrozen ==
  ~user.deleted =>
    \A o \in Ops : res[o].status = "finalized" =>
                     event[o].recorded /\ event[o].minutes = res[o].settled

(* A provider stage is paid for at most once per operation, however many   *)
(* callers retry it after leases expire, crashes, releases or refunds.     *)
PaidAtMostOnce == \A k \in Ops \X StageKeys : spent[k] =< 1

(* The comment of archiveAndDeletePostgresMeetingProcessingLedger: settled *)
(* cost is counted exactly once across concurrent deletion workers.        *)
CostCountedOnce == charged = archived + SettledBy(Ops)

(* A refund the provider's definitive refusal calls for is never blocked   *)
(* by provider_step_refund_conflict, unless usage was recorded already.    *)
RefundsFit ==
  ~user.deleted =>
    \A k \in Ops \X StageKeys :
      step[k].status = "started" /\ res[k[1]].status # "finalized"
        => ~RefundConflict(k)

(* Minutes settled against the free trial stay counted in the trial for as *)
(* long as the step that settled them stands.                              *)
FreeTrialCovered ==
  ~user.deleted =>
    Cardinality({minute \in (Ops \X StageKeys) \X (1..FreeTotal) :
                   /\ step[minute[1]].status \in {"started", "completed"}
                   /\ minute[2] =< step[minute[1]].free}) =< user.freeUsed
=============================================================================
