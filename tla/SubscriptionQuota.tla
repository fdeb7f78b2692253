-------------------------- MODULE SubscriptionQuota --------------------------
(***************************************************************************)
(* The subscriptions of one user (model/subscription.go), all of one plan: *)
(* purchase, holds, settlements and refunds of requests, the periodic      *)
(* reset of the used amount, expiry, cancellation and deletion, with the   *)
(* user's group, which a subscription raises and its end lowers.           *)
(*                                                                         *)
(* A transaction that only writes rows it has locked (lockForUpdate) is    *)
(* one step; one that fails leaves no trace.  Purchase, cancellation,      *)
(* deletion and expiry also read the user's group and the other            *)
(* subscriptions, without a lock, and write the group from what they have  *)
(* read: each reads in one step (Create, AdminInvalidate, AdminDelete,     *)
(* ExpireDue) and commits in another, and other transactions may commit    *)
(* between the two.  The administrative resets and the synchronisation of  *)
(* reset times ask for the lock in a form that the library ignores: they   *)
(* read rows, and save whole rows in a later step (Begin, Commit).         *)
(*                                                                         *)
(* Times are small numbers, 0 is no time.  The reset period is the custom  *)
(* one; daily, weekly and monthly differ only in where the boundaries lie. *)
(***************************************************************************)
EXTENDS Integers, FiniteSets

CONSTANTS
    Subs,            \* subscriptions that may be bought; an order by identifier
    Requests,        \* requests that are charged to a subscription
    Amounts,         \* amounts of a hold
    Deltas,          \* differences of a settlement
    Total,           \* total_amount of the plan, 0 = unlimited
    Period,          \* quota_reset_custom_seconds of the plan, 0 = never
    Duration,        \* custom_seconds of the plan
    DowngradeGroup,  \* downgrade_group of the plan, "none" for the empty one
    MaxPurchase,     \* max_purchase_per_user of the plan, 0 = unlimited
    MaxTime,         \* bound: the clock
    MaxJobs          \* bound: administrative operations and synchronisations

ASSUME SubAssumption ==
    Subs \subseteq Nat /\ IsFiniteSet(Subs) /\ Amounts \subseteq Nat \ {0} /\ Deltas \subseteq Int
ASSUME PlanAssumption ==
    /\ Total \in Nat /\ Period \in Nat /\ Duration \in Nat \ {0}
    /\ MaxPurchase \in Nat /\ MaxTime \in Nat /\ MaxJobs \in Nat

VARIABLES
    now,      \* the database's clock
    sub,      \* rows of user_subscriptions
    group,    \* the user's group
    rec,      \* SubscriptionPreConsumeRecord of each request
    task,     \* position of the maintenance task, the rows it has listed or
              \* marked, and the group it will write
    open,     \* transaction that creates, cancels or deletes each subscription
    job,      \* transaction that reads without a lock
    jobs,     \* administrative operations and synchronisations so far
    heldAt,   \* history: time of the latest hold since the last administrative reset
    wiped,    \* history: "yes" if a periodic reset removed a hold made after its boundary
    crossed,  \* history: "yes" if a job committed for a row that had changed since it was read
    raced     \* history: "yes" if a transaction committed a choice of the group that
              \* it would not have made at that moment

vars == <<now, sub, group, rec, task, open, job, jobs, heldAt, wiped, crossed, raced>>
history == <<heldAt, wiped, crossed, raced>>

UpgradeGroup == "vip"
NoRow == [st |-> "none", used |-> 0, start |-> 0, end |-> 0, last |-> 0, next |-> 0, prev |-> "none"]
NoRec == [st |-> "none", on |-> 0, amount |-> 0]
NoTask == [pc |-> "expire", at |-> 0, due |-> {}, to |-> "none"]
NoTx == [kind |-> "none", at |-> 0, to |-> "none", prev |-> "none"]
NoJob == [kind |-> "none", at |-> 0, rows |-> [s \in Subs |-> NoRow]]

Init ==
    /\ now = 1 /\ sub = [s \in Subs |-> NoRow] /\ group = "default"
    /\ rec = [r \in Requests |-> NoRec]
    /\ task = NoTask /\ open = [s \in Subs |-> NoTx] /\ job = NoJob /\ jobs = 0
    /\ heldAt = [s \in Subs |-> 0] /\ wiped = "no" /\ crossed = "no" /\ raced = "no"

----------------------------------------------------------------------------
(* Reset times.                                                            *)

(* Faulty variant: the end is not looked at *)
CalcNextResetTimeEndless(base, end) ==
    IF Period = 0 THEN 0 ELSE base + Period

(* calcNextResetTime: no reset after the end.                              *)
CalcNextResetTime(base, end) ==
    IF Period = 0 \/ base + Period > end THEN 0 ELSE base + Period

(* The last boundary up to t, by the loop of maybeReset: boundaries are    *)
(* Period apart, counted from base, and none is after the end.             *)
LastBoundary(base, end, t) ==
    base + Period * (((IF t < end THEN t ELSE end) - base) \div Period)

BaseOf(row) == IF row.last > 0 THEN row.last ELSE row.start

(* A boundary after the base has been reached.                             *)
Passed(row, t) ==
    LET next == CalcNextResetTime(BaseOf(row), row.end) IN next > 0 /\ next <= t

(* Faulty variant: the row is saved as active *)
MaybeResetActive(row, t) ==
    IF row.next <= t /\ Passed(row, t)
    THEN LET b == LastBoundary(BaseOf(row), row.end, t)
         IN  [row EXCEPT !.used = 0, !.st = "active", !.last = b,
                         !.next = CalcNextResetTime(b, row.end)]
    ELSE row

(* maybeResetUserSubscriptionWithPlanTx at time t.                         *)
MaybeReset(row, t) ==
    LET base == BaseOf(row)
        next == CalcNextResetTime(base, row.end)
        b == LastBoundary(base, row.end, t)
    IN  IF row.next > t THEN row
        ELSE IF Passed(row, t)
        THEN [row EXCEPT !.used = 0, !.last = b, !.next = CalcNextResetTime(b, row.end)]
        ELSE IF row.next = 0 /\ next > 0
        THEN [row EXCEPT !.next = next, !.last = base]
        ELSE row

(* The reset of a row of s that was read as row removes a hold that was    *)
(* made after the boundary it is for.                                      *)
Wipes(s, row, t) ==
    row.next <= t /\ Passed(row, t) /\ heldAt[s] >= MaybeReset(row, t).last
WipedIf(condition) == wiped' = IF condition THEN "yes" ELSE wiped

CountJob == jobs < MaxJobs /\ jobs' = jobs + 1

Exists(s) == sub[s].st \notin {"none", "deleted"}
Active(s) == sub[s].st = "active"
Valid(s) == Active(s) /\ sub[s].end > now

(* Rows that a transaction under way has locked or updated.               *)
Locked(s) == open[s].kind \in {"cancel", "delete"} \/ (task.pc = "lower" /\ s \in task.due)

----------------------------------------------------------------------------
(* Purchase and end.                                                       *)

(* The group is written unless it is "none"; the history tells whether it  *)
(* is what the transaction would choose now.                               *)
Choose(to, wouldBe) ==
    /\ group' = IF to = "none" THEN group ELSE to
    /\ raced' = IF to # wouldBe THEN "yes" ELSE raced

(* What is written for a group: nothing if it is the user's already.       *)
Unless(g) == IF g = group THEN "none" ELSE g

(* CreateUserSubscriptionFromPlanTx, called when an order is completed, by *)
(* an administrator and by a purchase from the balance (which alone locks  *)
(* the user): the purchases are counted and the group is read...           *)
Create(s) ==
    /\ sub[s].st = "none" /\ open[s].kind = "none"
    /\ \A o \in Subs : o < s => sub[o].st # "none" \/ open[o].kind = "create"
    /\ MaxPurchase > 0 => Cardinality({o \in Subs : Exists(o)}) < MaxPurchase
    /\ open' = [open EXCEPT ![s] = [kind |-> "create", at |-> now, to |-> Unless(UpgradeGroup),
                                    prev |-> IF group # UpgradeGroup THEN group ELSE "none"]]
    /\ UNCHANGED <<now, sub, group, rec, task, job, jobs, history>>

(* ... the group is raised and the row inserted.                           *)
CommitCreate(s) ==
    /\ open[s].kind = "create" /\ open' = [open EXCEPT ![s] = NoTx]
    /\ LET at == open[s].at
           end == at + Duration
           next == CalcNextResetTime(at, end)
       IN  sub' = [sub EXCEPT ![s] =
               [st |-> "active", used |-> 0, start |-> at, end |-> end,
                last |-> IF next > 0 THEN at ELSE 0, next |-> next, prev |-> open[s].prev]]
    /\ Choose(open[s].to, Unless(UpgradeGroup))
    /\ UNCHANGED <<now, rec, task, job, jobs, heldAt, wiped, crossed>>

(* The group that the end of a subscription leads back to.                 *)
Reverted(row) ==
    IF DowngradeGroup # "none" THEN DowngradeGroup
    ELSE IF row.prev # "none" /\ group = UpgradeGroup THEN row.prev
    ELSE group

(* Faulty variant: other subscriptions are not looked at *)
DowngradeAlways(s, t) == Unless(Reverted(sub[s]))

(* downgradeUserGroupForSubscriptionTx at time t.                          *)
Downgraded(s, t) ==
    IF \E o \in Subs \ {s} : Active(o) /\ sub[o].end > t THEN "none" ELSE Unless(Reverted(sub[s]))

(* AdminInvalidateUserSubscription and AdminDeleteUserSubscription lock    *)
(* the row and choose the group...                                         *)
OpenEnd(s, kind) ==
    /\ Exists(s) /\ ~Locked(s) /\ CountJob
    /\ open' = [open EXCEPT ![s] = [kind |-> kind, at |-> now, to |-> Downgraded(s, now),
                                    prev |-> "none"]]
    /\ UNCHANGED <<now, sub, group, rec, task, job, history>>
AdminInvalidate(s) == OpenEnd(s, "cancel")
AdminDelete(s) == OpenEnd(s, "delete")

(* ... and commit.                                                         *)
CommitEnd(s, row) ==
    /\ open' = [open EXCEPT ![s] = NoTx] /\ sub' = [sub EXCEPT ![s] = row]
    /\ Choose(open[s].to, Downgraded(s, open[s].at))
    /\ UNCHANGED <<now, rec, task, job, jobs, heldAt, wiped, crossed>>
CommitInvalidate(s) ==
    open[s].kind = "cancel" /\ CommitEnd(s, [sub[s] EXCEPT !.st = "cancelled", !.end = open[s].at])
CommitDelete(s) ==
    open[s].kind = "delete" /\ CommitEnd(s, [NoRow EXCEPT !.st = "deleted"])

----------------------------------------------------------------------------
(* The maintenance task.                                                   *)

Due(s, t) == Active(s) /\ sub[s].end <= t

(* Faulty variant: the tick ends here if nothing has expired *)
ListEndedReturns ==
    /\ task.pc = "expire"
    /\ task' = IF \E s \in Subs : Due(s, now) THEN [task EXCEPT !.pc = "mark", !.at = now]
               ELSE task
    /\ UNCHANGED <<now, sub, group, rec, open, job, jobs, history>>

(* ExpireDueSubscriptions looks whether a subscription of the user has     *)
(* ended...                                                                *)
ListEnded ==
    /\ task.pc = "expire"
    /\ task' = IF \E s \in Subs : Due(s, now) THEN [task EXCEPT !.pc = "mark", !.at = now]
               ELSE [task EXCEPT !.pc = "list"]
    /\ UNCHANGED <<now, sub, group, rec, open, job, jobs, history>>

(* The row that ended last, of those that are expired.                     *)
EndedAfter(rows, a, b) ==
    rows[a].end > rows[b].end \/ (rows[a].end = rows[b].end /\ a > b)
LastExpired(rows, s) ==
    /\ rows[s].st = "expired"
    /\ \A o \in Subs \ {s} : rows[o].st = "expired" => EndedAfter(rows, s, o)

(* The rows once those in due are marked, and the group then chosen: as    *)
(* long as a subscription is valid it stays.                               *)
Marked(due) == [s \in Subs |-> IF s \in due THEN [sub[s] EXCEPT !.st = "expired"] ELSE sub[s]]
DowngradeAfter(rows, t) ==
    IF \/ \E s \in Subs : rows[s].st = "active" /\ rows[s].end > t
       \/ \A s \in Subs : rows[s].st # "expired"
    THEN "none"
    ELSE Unless(Reverted(rows[CHOOSE s \in Subs : LastExpired(rows, s)]))

(* ... marks those that have ended and chooses the group...                *)
ExpireDue ==
    /\ task.pc = "mark" /\ \A s \in Subs : Due(s, task.at) => ~Locked(s)
    /\ LET due == {s \in Subs : Due(s, task.at)}
       IN  task' = [task EXCEPT !.pc = "lower", !.due = due,
                                !.to = DowngradeAfter(Marked(due), task.at)]
    /\ UNCHANGED <<now, sub, group, rec, open, job, jobs, history>>

(* ... and commits.                                                        *)
CommitExpired ==
    /\ task.pc = "lower" /\ task' = [NoTask EXCEPT !.pc = "list"]
    /\ sub' = Marked(task.due)
    /\ Choose(task.to, DowngradeAfter(Marked(task.due), task.at))
    /\ UNCHANGED <<now, rec, open, job, jobs, heldAt, wiped, crossed>>

ResetIsDue(s, t) == sub[s].next > 0 /\ sub[s].next <= t

(* ResetDueSubscriptions lists the rows...                                 *)
ListDue ==
    /\ task.pc = "list"
    /\ LET due == {s \in Subs : Active(s) /\ ResetIsDue(s, now)}
       IN  task' = IF due = {} THEN NoTask
                   ELSE [NoTask EXCEPT !.pc = "reset", !.at = now, !.due = due]
    /\ UNCHANGED <<now, sub, group, rec, open, job, jobs, history>>

(* ... and resets each that was still due at that time, under its lock.    *)
ResetOne(s) ==
    /\ task.pc = "reset" /\ s \in task.due /\ ~Locked(s)
    /\ task' = IF task.due = {s} THEN NoTask ELSE [task EXCEPT !.due = @ \ {s}]
    /\ LET reset == Exists(s) /\ ResetIsDue(s, task.at)
       IN  /\ sub' = [sub EXCEPT ![s] = IF reset THEN MaybeReset(@, task.at) ELSE @]
           /\ WipedIf(reset /\ Wipes(s, sub[s], task.at))
    /\ UNCHANGED <<now, group, rec, open, job, jobs, heldAt, crossed, raced>>

----------------------------------------------------------------------------
(* Requests.                                                               *)

(* Candidates are tried in the order of their ends.                        *)
Before(a, b) == sub[a].end < sub[b].end \/ (sub[a].end = sub[b].end /\ a < b)
Suffices(row, amount) == Total = 0 \/ Total - row.used >= amount

(* Faulty variant: the hold is made on the row as it was before the reset *)
PreConsumeUnreset(r) ==
    /\ rec[r].st = "none" /\ \A s \in Subs : Valid(s) => ~Locked(s)
    /\ \E amount \in Amounts, s \in Subs :
        /\ Valid(s) /\ Suffices(sub[s], amount)
        /\ sub' = [sub EXCEPT ![s].used = @ + amount]
        /\ rec' = [rec EXCEPT ![r] = [st |-> "consumed", on |-> s, amount |-> amount]]
        /\ heldAt' = [heldAt EXCEPT ![s] = now]
    /\ UNCHANGED <<now, group, task, open, job, jobs, wiped, crossed, raced>>

(* PreConsumeUserSubscription: candidates are reset if they are due, up to *)
(* the first that has enough left; if none has, nothing is changed.        *)
PreConsume(r) ==
    /\ rec[r].st = "none" /\ \A s \in Subs : Valid(s) => ~Locked(s)
    /\ \E amount \in Amounts, s \in Subs :
        /\ Valid(s) /\ Suffices(MaybeReset(sub[s], now), amount)
        /\ \A o \in Subs : Valid(o) /\ Before(o, s) => ~Suffices(MaybeReset(sub[o], now), amount)
        /\ LET tried == {o \in Subs : Valid(o) /\ (o = s \/ Before(o, s))}
               new == [o \in Subs |-> IF o \in tried THEN MaybeReset(sub[o], now) ELSE sub[o]]
           IN  /\ sub' = [new EXCEPT ![s].used = @ + amount]
               /\ WipedIf(\E o \in tried : Wipes(o, sub[o], now))
        /\ rec' = [rec EXCEPT ![r] = [st |-> "consumed", on |-> s, amount |-> amount]]
        /\ heldAt' = [heldAt EXCEPT ![s] = now]
    /\ UNCHANGED <<now, group, task, open, job, jobs, crossed, raced>>

(* Faulty variant: only what was used before is compared with the total *)
PostConsumeLate(s, delta) ==
    /\ Exists(s) /\ ~Locked(s) /\ (Total > 0 => sub[s].used <= Total)
    /\ sub' = [sub EXCEPT ![s].used = IF @ + delta < 0 THEN 0 ELSE @ + delta]

(* PostConsumeUserSubscriptionDelta.                                       *)
PostConsume(s, delta) ==
    /\ Exists(s) /\ ~Locked(s) /\ (Total > 0 => sub[s].used + delta <= Total)
    /\ sub' = [sub EXCEPT ![s].used = IF @ + delta < 0 THEN 0 ELSE @ + delta]

(* The settlement of a request; it may come after a reset or the end.      *)
Settle(r) ==
    /\ rec[r].st = "consumed"
    /\ \E delta \in Deltas : PostConsume(rec[r].on, delta)
    /\ rec' = [rec EXCEPT ![r].st = "settled"]
    /\ UNCHANGED <<now, group, task, open, job, jobs, history>>

(* RefundSubscriptionPreConsume; that it runs in two transactions is       *)
(* BillingSession's subject.                                               *)
Refund(r) ==
    /\ rec[r].st = "consumed"
    /\ PostConsume(rec[r].on, -rec[r].amount)
    /\ rec' = [rec EXCEPT ![r].st = "refunded"]
    /\ UNCHANGED <<now, group, task, open, job, jobs, history>>

----------------------------------------------------------------------------
(* Transactions that read without a lock.                                  *)

(* adminResetUserSubscriptionsByPlanTx, adminResetPlanSubscriptionsTx (the *)
(* kinds "keep" and "advance" of the reset time) and                       *)
(* SyncActiveUserSubscriptionResetTimesForUser, ...ForPlanTx.              *)
Begin(kind) ==
    /\ job.kind = "none" /\ CountJob
    /\ \E s \in Subs : Valid(s)
    /\ job' = [kind |-> kind, at |-> now, rows |-> [s \in Subs |-> IF Valid(s) THEN sub[s] ELSE NoRow]]
    /\ UNCHANGED <<now, sub, group, rec, task, open, history>>

Read(s) == job.rows[s].st = "active"

Unlocked == \A s \in Subs : Read(s) => ~Locked(s)

CrossedIfChanged ==
    crossed' = IF \E s \in Subs : Read(s) /\ sub[s] # job.rows[s] THEN "yes" ELSE crossed

(* resetUserSubscriptionTx.                                                *)
ResetRow(row) ==
    LET next == CalcNextResetTime(job.at, row.end)
    IN  IF job.kind = "keep" THEN [row EXCEPT !.used = 0]
        ELSE [row EXCEPT !.used = 0, !.next = next, !.last = IF next > 0 THEN job.at ELSE 0]

CommitReset ==
    /\ job.kind \in {"keep", "advance"} /\ Unlocked /\ job' = NoJob
    /\ sub' = [s \in Subs |-> IF Read(s) THEN ResetRow(job.rows[s]) ELSE sub[s]]
    /\ CrossedIfChanged
    /\ heldAt' = [s \in Subs |-> IF Read(s) THEN 0 ELSE heldAt[s]]
    /\ UNCHANGED <<now, group, rec, task, open, jobs, wiped, raced>>

(* syncUserSubscriptionResetTimeWithPlanTx: a row that is due is reset and *)
(* saved whole, the reset times of another are updated.                    *)
SyncedRow(s) ==
    LET row == job.rows[s]
        next == CalcNextResetTime(BaseOf(row), row.end)
    IN  IF Period = 0 THEN IF Exists(s) THEN [sub[s] EXCEPT !.next = 0] ELSE sub[s]
        ELSE IF (row.next > 0 /\ row.next <= job.at) \/ (next > 0 /\ next <= job.at)
        THEN IF MaybeReset(row, job.at) = row THEN sub[s] ELSE MaybeReset(row, job.at)
        ELSE IF ~Exists(s) THEN sub[s]
        ELSE [sub[s] EXCEPT !.next = IF row.next # next THEN next ELSE @,
                            !.last = IF row.last = 0 /\ next > 0 THEN row.start ELSE @]

CommitSync ==
    /\ job.kind = "sync" /\ Unlocked /\ job' = NoJob
    /\ sub' = [s \in Subs |-> IF Read(s) THEN SyncedRow(s) ELSE sub[s]]
    /\ WipedIf(\E s \in Subs : Read(s) /\ Wipes(s, job.rows[s], job.at))
    /\ CrossedIfChanged
    /\ UNCHANGED <<now, group, rec, task, open, jobs, heldAt, raced>>

Tick == now < MaxTime /\ now' = now + 1
        /\ UNCHANGED <<sub, group, rec, task, open, job, jobs, history>>

(* A transaction that was opened commits. *)
Close(s) == CommitCreate(s) \/ CommitInvalidate(s) \/ CommitDelete(s)

Next ==
    \/ \E s \in Subs : Create(s) \/ AdminInvalidate(s) \/ AdminDelete(s) \/ Close(s)
    \/ ListEnded \/ ExpireDue \/ CommitExpired \/ ListDue \/ (\E s \in Subs : ResetOne(s))
    \/ \E r \in Requests : PreConsume(r) \/ Settle(r) \/ Refund(r)
    \/ (\E kind \in {"keep", "advance", "sync"} : Begin(kind)) \/ CommitReset \/ CommitSync
    \/ Tick

(* The task's ticker goes on, and a transaction that was opened ends.      *)
Fairness ==
    /\ WF_vars(ListEnded \/ ExpireDue \/ CommitExpired \/ ListDue \/ \E s \in Subs : ResetOne(s))
    /\ \A s \in Subs : WF_vars(Close(s))

Spec == Init /\ [][Next]_vars /\ Fairness

----------------------------------------------------------------------------
(* Properties.                                                             *)

Rows == [st : {"none", "active", "expired", "cancelled", "deleted"}, used : Nat, start : Nat,
         end : Nat, last : Nat, next : Nat, prev : {"none", "default", DowngradeGroup}]

Choices == {"none", "default", UpgradeGroup, DowngradeGroup}

(* Rows, records, the task and the job are well formed.                    *)
TypeOK ==
    /\ now \in Nat /\ sub \in [Subs -> Rows]
    /\ group \in {"default", UpgradeGroup, DowngradeGroup}
    /\ rec \in [Requests -> [st : {"none", "consumed", "settled", "refunded"}, on : Nat, amount : Nat]]
    /\ task \in [pc : {"expire", "mark", "lower", "list", "reset"}, at : Nat, due : SUBSET Subs,
                to : Choices]
    /\ open \in [Subs -> [kind : {"none", "create", "cancel", "delete"}, at : Nat, to : Choices,
                          prev : {"none", "default", DowngradeGroup}]]
    /\ job \in [kind : {"none", "keep", "advance", "sync"}, at : Nat, rows : [Subs -> Rows]]
    /\ jobs \in Nat /\ heldAt \in [Subs -> Nat]
    /\ wiped \in {"yes", "no"} /\ crossed \in {"yes", "no"} /\ raced \in {"yes", "no"}

(* No subscription is used beyond its total, whatever mix of holds,        *)
(* settlements, refunds, resets and stale saves there is.                  *)
UsedWithinTotal == Total > 0 => \A s \in Subs : sub[s].used <= Total

(* A reset time lies one period after the reset it follows and not after   *)
(* the end, as long as no job crossed a change of a row.                   *)
ScheduleIsSound ==
    crossed = "no" => \A s \in Subs : Active(s) /\ sub[s].next > 0 =>
        /\ sub[s].next <= sub[s].end /\ sub[s].last >= sub[s].start
        /\ sub[s].next = sub[s].last + Period /\ sub[s].last <= now

(* No periodic reset removes a hold that was made after the boundary it is *)
(* for, however the task, requests and administrative resets follow each   *)
(* other, as long as no job crossed a change of a row.                     *)
HoldsOutlastResets == crossed = "no" => wiped = "no"

(* The same without the exception: what the row lock that the jobs ask for *)
(* would ensure.                                                           *)
NoHoldWiped == wiped = "no"

(* A subscription that has ended stays ended, as long as no job crossed a  *)
(* change of its row.                                                      *)
EndedStaysEnded ==
    [][\A s \in Subs : sub[s].st \in {"expired", "cancelled", "deleted"} /\ crossed' = "no"
            => sub'[s].st # "active"]_vars

(* The user is in the plan's group while a subscription is valid, and no   *)
(* longer once none is active, in whatever order purchases, cancellations, *)
(* deletions and the expiry pass begin and commit, as long as none of them *)
(* committed a choice of the group that had become wrong since its         *)
(* unlocked reads.                                                         *)
GroupFitsSubscriptions ==
    crossed = "no" /\ raced = "no" =>
        /\ (\E s \in Subs : Valid(s)) => group = UpgradeGroup
        /\ group = UpgradeGroup => \E s \in Subs : Active(s)

(* Maintenance catches up: again and again no reset is due and no          *)
(* subscription is active after its end.                                   *)
MaintenanceCatchesUp ==
    []<>(\A s \in Subs : ~Due(s, now) /\ ~(Active(s) /\ ResetIsDue(s, now)))
=============================================================================
