----------------------------- MODULE TaskBilling -----------------------------
(***************************************************************************)
(* The money of one asynchronous task (video or Suno) after its submission:*)
(* service/task_polling.go, service/task_billing.go, model/task.go, and    *)
(* the two places of relay/ and controller/ that write the task's row.     *)
(*                                                                         *)
(* A submission is settled by its billing session and then stored with the *)
(* quota it cost.  From then on the row is written by poll passes, which   *)
(* sweep timed-out tasks and ask the provider about the others, and by     *)
(* users who fetch a task of a Gemini or Vertex channel.  A pass works on  *)
(* a copy of the row; each statement is one step.  Passes overlap when the *)
(* lease of a poll task is lost (SystemTask): the old pass stops only      *)
(* where it looks at its context.                                          *)
(*                                                                         *)
(* fund and token are what the wallet or subscription and the token have   *)
(* paid for the task, net of refunds.                                      *)
(***************************************************************************)
EXTENDS Integers

CONSTANTS
    Platforms,     \* the platforms of the instance, of {"video", "gemini", "suno"}
    Fundings,      \* what may pay, of {"wallet", "subscription"}
    Passes,        \* poll passes that may overlap
    Users,         \* bound: fetches of the task by its user
    Quotas,        \* quotas a submission may cost
    Actuals,       \* quotas a completed task may cost; 0: no adjustment
    Sweeps,        \* TaskTimeoutMinutes > 0: timed-out tasks are swept
    SettleFails,   \* the settlement of the submission may fail
    MaxBilled,     \* bound: no pass starts after so many refunds and settlements
    MaxMisses,     \* bound: lookups of the task's channel that fail
    MaxFaults,     \* bound: statements that fail
    MaxCrashes     \* bound: passes lost in a crash

ASSUME BoundAssumption ==
    /\ Platforms \subseteq {"video", "gemini", "suno"}
    /\ Fundings \subseteq {"wallet", "subscription"}
    /\ Quotas \subseteq Nat \ {0} /\ Actuals \subseteq Nat
    /\ Sweeps \in BOOLEAN /\ SettleFails \in BOOLEAN
    /\ MaxBilled \in Nat /\ MaxMisses \in Nat /\ MaxFaults \in Nat /\ MaxCrashes \in Nat

VARIABLES
    platform,  \* the platform of the task
    funding,   \* what pays for it
    row,       \* its row: status, progress = 100%, quota
    due,       \* history: the quota of the submission
    settled,   \* history: the settlement of the submission worked
    fund,      \* paid from the wallet or the subscription
    token,     \* paid from the token
    actual,    \* what the completed task costs; 0: no adjustment
    upstream,  \* the state of the task at the provider
    expired,   \* submit_time is older than TaskTimeoutMinutes
    pass,      \* the poll passes: position and copy of the row
    user,      \* the fetches of the task by its user
    billed,    \* history: refunds and settlements that were started
    short,     \* history: the subscription refused, or had less to give back
    misses,    \* lookups of the channel that failed
    faults,    \* statements that failed
    crashes    \* passes lost

vars == <<platform, funding, row, due, actual, settled, fund, token, upstream, expired,
          pass, user, billed, short, misses, faults, crashes>>
money == <<fund, token, actual, billed, short>>
fixed == <<platform, funding, due, settled>>

Terminal == {"SUCCESS", "FAILURE"}
NoRow == [status |-> "none", done |-> FALSE, quota |-> 0]
Idle == [pc |-> "idle", copy |-> NoRow, failed |-> FALSE]

Init ==
    /\ platform \in Platforms /\ funding \in Fundings
    /\ row = NoRow /\ due = 0 /\ actual = 0 /\ fund = 0 /\ token = 0
    /\ settled = FALSE /\ short = FALSE /\ upstream = "progress" /\ expired = FALSE
    /\ pass = [p \in Passes |-> Idle] /\ user = [u \in Users |-> Idle]
    /\ billed = 0 /\ misses = 0 /\ faults = 0 /\ crashes = 0

DbOk == UNCHANGED faults
DbFault == faults < MaxFaults /\ faults' = faults + 1

-----------------------------------------------------------------------------
(* RelayTask after a submission the provider accepted: the session is      *)
(* settled from the held quota to the quota of the submission, which the   *)
(* row records whether or not that worked.  A submission whose Insert      *)
(* fails has no row, and no behaviour here.                                *)
Submit ==
    /\ row.status = "none"
    /\ \E held, quota \in Quotas :
         /\ \/ fund' = quota /\ token' = quota /\ settled' = TRUE
            \/ /\ SettleFails /\ held # quota
               /\ fund' = held /\ token' = held /\ settled' = FALSE
         /\ due' = quota
         /\ row' = [status |-> "progress", done |-> FALSE, quota |-> quota]
    /\ UNCHANGED <<platform, funding, actual, upstream, expired, pass, user, billed, short,
                   misses, faults, crashes>>

(* The provider works on the task and ends it once *)
UpstreamEnds ==
    /\ row.status # "none" /\ upstream = "progress" /\ upstream' \in Terminal
    /\ UNCHANGED <<fixed, money, row, expired, pass, user, misses, faults, crashes>>

TimeoutPasses ==
    /\ row.status # "none" /\ ~expired /\ expired' = TRUE
    /\ UNCHANGED <<fixed, money, row, upstream, pass, user, misses, faults, crashes>>

-----------------------------------------------------------------------------
(* The steps of a poll pass.                                               *)

Unfinished == row.status = "progress" /\ ~row.done
Goto(p, label) == pass' = [pass EXCEPT ![p].pc = label]
End(p) == pass' = [pass EXCEPT ![p] = Idle]
World == <<fixed, upstream, expired, user, crashes>>
Rest == <<World, misses>>

(* sweepTimedOutTasks reads the tasks that are too old *)
SweepRead(p) ==
    /\ Sweeps /\ pass[p].pc = "idle" /\ Unfinished /\ expired /\ billed < MaxBilled
    /\ pass' = [pass EXCEPT ![p].pc = "sweep", ![p].copy = row]
    /\ UNCHANGED <<Rest, money, row, faults>>

(* Faulty variant: the status the row was read with is not compared *)
SwapUnguarded(old, new) == row' = new

(* UpdateWithStatus: the whole row is written if its status is still the   *)
(* one that was read.                                                      *)
Swap(old, new) == row.status = old.status /\ row' = new
Lost(old) == row.status # old.status /\ UNCHANGED row

Ended(copy, status) == [copy EXCEPT !.status = status, !.done = TRUE]

(* Faulty variant: the row is compared with the status the sweep is about   *)
(* to write, so that its statement never changes a row.                    *)
SweepSwapLate(p) ==
    /\ pass[p].pc = "sweep" /\ DbOk /\ End(p)
    /\ UNCHANGED <<Rest, money, row>>

SweepSwap(p) ==
    LET copy == pass[p].copy IN
    /\ pass[p].pc = "sweep"
    /\ \/ DbOk /\ Swap(copy, Ended(copy, "FAILURE")) /\ Goto(p, "refund")
       \/ DbOk /\ Lost(copy) /\ End(p)
       \/ DbFault /\ UNCHANGED row /\ End(p)
    /\ UNCHANGED <<Rest, money>>

(* RunTaskPollingOnce reads the unfinished tasks *)
PollRead(p) ==
    /\ pass[p].pc = "idle" /\ Unfinished /\ billed < MaxBilled
    /\ pass' = [pass EXCEPT ![p].pc = "fetch", ![p].copy = row]
    /\ UNCHANGED <<Rest, money, row, faults>>

(* CacheGetChannel fails: the channel is deleted, or it exists and the     *)
(* statement fails or the map in memory lags behind.  TaskBulkUpdateByID   *)
(* then fails the task, whatever its status, and nothing is refunded.      *)
BulkFail(p) ==
    /\ pass[p].pc = "fetch" /\ End(p)
    /\ misses < MaxMisses /\ misses' = misses + 1
    /\ \/ DbOk /\ row' = Ended(row, "FAILURE")
       \/ DbFault /\ UNCHANGED row
    /\ UNCHANGED <<World, money>>

(* The provider does not answer, or in a way that is not understood or     *)
(* with a 429: nothing changes.                                            *)
FetchFails(p) ==
    /\ pass[p].pc = "fetch" /\ End(p)
    /\ UNCHANGED <<Rest, money, row, faults>>

(* The provider answers.  An answer of a video provider that has no status *)
(* (an error) fails the task, and the progress in the answer, full or not, *)
(* replaces the one that goes with its status.  Suno may give a fail       *)
(* reason for a task that it has not ended.                                *)
Fetch(p) ==
    /\ pass[p].pc = "fetch"
    /\ \E failed, full \in BOOLEAN :
         /\ upstream = "FAILURE" => failed
         /\ failed => full
         /\ platform = "suno" => /\ upstream = "SUCCESS" => ~failed
                                 /\ full = (failed \/ upstream \in Terminal)
         /\ pass' = [pass EXCEPT
                 ![p].pc = IF platform # "suno" THEN "swap"
                           ELSE IF failed THEN "refund" ELSE "save",
                 ![p].failed = failed,
                 ![p].copy = [@ EXCEPT
                     !.status = IF failed /\ platform # "suno" THEN "FAILURE" ELSE upstream,
                     !.done = full]]
    /\ UNCHANGED <<Rest, money, row, faults>>

(* Faulty variant: a task that goes on is saved without comparison *)
UpdateUnguarded(p) ==
    LET copy == pass[p].copy IN
    /\ pass[p].pc = "swap" /\ DbOk
    /\ \/ copy.status = "progress" /\ row' = copy /\ End(p)
       \/ /\ copy.status # "progress" /\ row.status = "progress" /\ row' = copy
          /\ Goto(p, IF copy.status = "SUCCESS" THEN "settle" ELSE "refund")
       \/ copy.status # "progress" /\ row.status # "progress" /\ UNCHANGED row /\ End(p)
    /\ UNCHANGED <<Rest, money>>

(* updateVideoSingleTask writes the answer; the copy was read as           *)
(* "progress", not full.  An answer that changes nothing is not written.   *)
(* The pass whose write ends the task bills it.                            *)
Update(p) ==
    LET copy == pass[p].copy
        old == [copy EXCEPT !.status = "progress"] IN
    /\ pass[p].pc = "swap"
    /\ \/ /\ DbOk /\ Swap(old, copy)
          /\ \/ copy.status = "progress" /\ End(p)
             \/ copy.status = "SUCCESS" /\ Goto(p, "settle")
             \/ copy.status = "FAILURE" /\ Goto(p, "refund")
       \/ DbOk /\ Lost(old) /\ End(p)
       \/ DbOk /\ copy.status = "progress" /\ ~copy.done /\ UNCHANGED row /\ End(p)
       \/ DbFault /\ UNCHANGED row /\ End(p)
    /\ UNCHANGED <<Rest, money>>

(* updateSunoTasks saves its copy without comparing, after the refund; an  *)
(* answer that changes nothing is skipped.                                 *)
Save(p) ==
    /\ pass[p].pc = "save" /\ End(p)
    /\ \/ DbOk /\ row' = pass[p].copy
       \/ DbOk /\ ~pass[p].copy.done /\ UNCHANGED row
       \/ DbFault /\ UNCHANGED row
    /\ UNCHANGED <<Rest, money>>

After(p) == IF platform = "suno" /\ pass[p].failed THEN Goto(p, "save") ELSE End(p)

(* taskAdjustFunding.  PostConsumeUserSubscriptionDelta gives back no more *)
(* than amount_used, which a reset may have cleared; it refuses a charge   *)
(* beyond the total, and everything once the subscription is deleted.      *)
Adjust(delta) ==
    \/ fund' = fund + delta /\ UNCHANGED short
    \/ /\ funding = "subscription" /\ delta < 0 /\ short' = TRUE
       /\ \E less \in (delta + 1)..0 : fund' = fund + less
Refuses == funding = "subscription" /\ short' = TRUE /\ UNCHANGED fund

(* RefundTaskQuota: the funding first; if that fails nothing is refunded *)
Refund(p) ==
    /\ pass[p].pc = "refund"
    /\ billed' = billed + 1
    /\ \/ DbOk /\ Adjust(-pass[p].copy.quota) /\ Goto(p, "refundToken")
       \/ DbOk /\ Refuses /\ After(p)
       \/ DbFault /\ UNCHANGED <<fund, short>> /\ After(p)
    /\ UNCHANGED <<Rest, row, token, actual>>

(* taskAdjustTokenQuota: an error is logged *)
RefundToken(p) ==
    /\ pass[p].pc = "refundToken" /\ After(p)
    /\ \/ DbOk /\ token' = token - pass[p].copy.quota
       \/ DbFault /\ UNCHANGED token
    /\ UNCHANGED <<Rest, row, fund, actual, billed, short>>

(* settleTaskBillingOnComplete, RecalculateTaskQuota: a price per call or  *)
(* an exact estimate leaves the charge as it is.                           *)
Settle(p) ==
    /\ pass[p].pc = "settle" /\ billed' = billed + 1
    /\ actual' \in Actuals
    /\ LET delta == actual' - pass[p].copy.quota IN
       \/ (actual' = 0 \/ delta = 0) /\ DbOk /\ UNCHANGED <<fund, short>> /\ End(p)
       \/ actual' > 0 /\ delta # 0 /\ DbOk /\ Adjust(delta) /\ Goto(p, "settleToken")
       \/ actual' > 0 /\ delta # 0 /\ DbOk /\ Refuses /\ End(p)
       \/ actual' > 0 /\ delta # 0 /\ DbFault /\ UNCHANGED <<fund, short>> /\ End(p)
    /\ UNCHANGED <<Rest, row, token>>

(* Faulty variant: the token pays the whole quota again *)
SettleTokenWhole(p) ==
    /\ pass[p].pc = "settleToken" /\ Goto(p, "quota") /\ DbOk
    /\ token' = token + actual
    /\ UNCHANGED <<Rest, row, fund, actual, billed, short>>

SettleToken(p) ==
    /\ pass[p].pc = "settleToken" /\ Goto(p, "quota")
    /\ \/ DbOk /\ token' = token + actual - pass[p].copy.quota
       \/ DbFault /\ UNCHANGED token
    /\ UNCHANGED <<Rest, row, fund, actual, billed, short>>

(* UpdateQuota writes the one column *)
UpdateQuota(p) ==
    /\ pass[p].pc = "quota" /\ End(p)
    /\ \/ DbOk /\ row' = [row EXCEPT !.quota = actual]
       \/ DbFault /\ UNCHANGED row
    /\ UNCHANGED <<Rest, money>>

Step(p) ==
    \/ SweepRead(p) \/ SweepSwap(p) \/ PollRead(p) \/ BulkFail(p) \/ FetchFails(p)
    \/ Fetch(p) \/ Update(p) \/ Save(p) \/ Refund(p) \/ RefundToken(p)
    \/ Settle(p) \/ SettleToken(p) \/ UpdateQuota(p)

(* The process of a pass crashes: another runner starts anew *)
Crash(p) ==
    /\ pass[p].pc # "idle" /\ crashes < MaxCrashes
    /\ crashes' = crashes + 1 /\ End(p)
    /\ UNCHANGED <<fixed, money, row, upstream, expired, user, misses, faults>>

-----------------------------------------------------------------------------
(* The user fetches the task: tryRealtimeFetch, for Gemini and Vertex      *)
(* only, whatever the status of the row.                                   *)

UserReads(u) ==
    /\ platform = "gemini" /\ row.status # "none" /\ user[u].pc = "idle"
    /\ user' = [user EXCEPT ![u].pc = "write", ![u].copy = row]
    /\ UNCHANGED <<fixed, money, row, upstream, expired, pass, misses, faults, crashes>>

(* The provider's status is written over the one that was read; there is   *)
(* no billing.                                                             *)
UserWrites(u) ==
    LET copy == user[u].copy IN
    /\ user[u].pc = "write" /\ user' = [user EXCEPT ![u] = [Idle EXCEPT !.pc = "told"]]
    /\ Swap(copy, [copy EXCEPT !.status = upstream]) \/ Lost(copy)
    /\ UNCHANGED <<fixed, money, upstream, expired, pass, misses, faults, crashes>>

-----------------------------------------------------------------------------
Next ==
    \/ Submit \/ UpstreamEnds \/ TimeoutPasses
    \/ \E u \in Users : UserReads(u) \/ UserWrites(u)
    \/ \E p \in Passes : Step(p) \/ Crash(p)

(* The poll task is scheduled while a task is unfinished, a pass goes on   *)
(* once started, time passes; each pass sweeps before it polls.            *)
Fairness ==
    /\ WF_vars(TimeoutPasses)
    /\ \A p \in Passes : WF_vars(Step(p)) /\ SF_vars(SweepRead(p))

Spec == Init /\ [][Next]_vars /\ Fairness

-----------------------------------------------------------------------------
(* Properties.                                                             *)

Row == [status : {"none", "progress"} \cup Terminal, done : BOOLEAN,
        quota : Quotas \cup Actuals \cup {0}]
PassState == [pc : {"idle", "sweep", "fetch", "swap", "save", "refund", "refundToken",
                    "settle", "settleToken", "quota"},
              copy : Row, failed : BOOLEAN]

(* Every variable keeps its type. *)
TypeOK ==
    /\ platform \in Platforms /\ funding \in Fundings /\ row \in Row
    /\ due \in Quotas \cup {0} /\ actual \in Actuals \cup {0}
    /\ settled \in BOOLEAN /\ short \in BOOLEAN
    /\ fund \in Int /\ token \in Int /\ billed \in Nat
    /\ upstream \in {"progress"} \cup Terminal /\ expired \in BOOLEAN
    /\ pass \in [Passes -> PassState]
    /\ user \in [Users -> [pc : {"idle", "write", "told"}, copy : Row, failed : BOOLEAN]]
    /\ misses \in 0..MaxMisses /\ faults \in 0..MaxFaults /\ crashes \in 0..MaxCrashes

Billing == {"refund", "refundToken", "settle", "settleToken", "quota"}
Billers == {p \in Passes : pass[p].pc \in Billing}

(* A video task is refunded or settled once, whatever overlapping passes,  *)
(* the sweeper, failing statements, crashes and unguarded bulk updates do: *)
(* only the pass whose UpdateWithStatus ends the task bills it.            *)
VideoBilledOnce ==
    platform = "video" =>
        /\ \A p, q \in Billers : p = q
        /\ billed <= 1
        /\ \A p \in Billers : pass[p].pc \in {"refund", "settle"} => billed = 0

(* When nobody is billing, a failed task has been given back all it cost,  *)
(* and a completed one has paid what it cost, to the wallet and the token  *)
(* alike.                                                                  *)
Paid == IF row.status = "FAILURE" THEN 0 ELSE IF actual > 0 THEN actual ELSE due
PaidWhatIsDue ==
    row.status \in Terminal /\ Billers = {} => fund = Paid /\ token = Paid

(* So it is with a video task whose submission was settled, if its channel *)
(* was always found, the subscription took and gave back what it was asked *)
(* to, no statement failed and no process stopped: overlapping passes, the *)
(* sweeper and providers that answer with errors agree on one bill.        *)
VideoPaysWhatIsDue ==
    /\ platform = "video" /\ settled /\ ~short
    /\ misses = 0 /\ faults = 0 /\ crashes = 0
    => PaidWhatIsDue

(* A video task that has ended stays as it is, whatever fails: no pass     *)
(* with an old copy reopens it or turns its outcome, but one that looks    *)
(* the channel up in vain, whose bulk update turns SUCCESS into FAILURE.   *)
OutcomeIsFinal ==
    [][platform = "video" /\ row.status \in Terminal
         => \/ row'.status = row.status
            \/ row'.status = "FAILURE" /\ misses' > misses]_vars

(* Every video task comes to an end, by the sweeper if it is enabled and   *)
(* need be, although the provider may never answer, statements fail and    *)
(* passes are lost; unless the provider reports the full progress of a     *)
(* task that goes on, a row that neither poll nor sweep selects.           *)
TaskEnds ==
    Sweeps /\ platform = "video" /\ row.status = "progress"
      ~> row.status \in Terminal \/ row.done
=============================================================================
