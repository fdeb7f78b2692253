--------------------------- MODULE BillingSession ---------------------------
(***************************************************************************)
(* The billing of relay requests: service/billing_session.go,              *)
(* funding_source.go, billing.go, PreConsumeTokenQuota and                 *)
(* PostConsumeQuota of quota.go, driven by Relay and RelayTask of          *)
(* controller/relay.go.                                                    *)
(*                                                                         *)
(* Several requests of one user, made with one token, run concurrently.    *)
(* Each holds quota before it is relayed (preConsume), and                 *)
(* afterwards settles the hold against the real consumption or gives it    *)
(* back.  Every call that reads or writes the database is one step, so     *)
(* requests interleave between a check and the write it guards; every such *)
(* call may fail, MaxFaults times in a behaviour.                          *)
(***************************************************************************)
EXTENDS Integers

CONSTANTS
    Requests,            \* the requests that bill concurrently
    Profiles,            \* what a request can look like (see Profile)
    Actuals,             \* the actual consumption a request can end with
    InitWallet,          \* users.quota of the user
    InitToken,           \* tokens.remain_quota of the token
    SubTotal,            \* amount_total of the subscription, 0 = unlimited
    TrustQuota,          \* common.GetTrustQuota()
    AllowWalletOverflow, \* allow_wallet_overflow of the subscription
    Fee,                 \* violation fee, 0 = ViolationDeductionEnabled off
    RetryTimes,          \* common.RetryTimes
    MaxAttempts,         \* maxAttempts of refundWithRetry
    MaxFaults            \* bound: failing database calls per behaviour

Preferences == {"subscription_first", "wallet_first",
                "subscription_only", "wallet_only"}

(* The part of RelayInfo that billing reads.  kind "task" is an            *)
(* asynchronous task (ForcePreConsume); quota is QuotaToPreConsume.        *)
Profile == [kind: {"sync", "task"}, pref: Preferences, playground: BOOLEAN,
            unlimited: BOOLEAN, quota: Nat]

ASSUME ProfilesAssumption == Profiles \subseteq Profile
ASSUME QuotaAssumption ==
    /\ Actuals \subseteq Nat
    /\ InitWallet \in Int /\ InitToken \in Int
    /\ SubTotal \in Nat /\ TrustQuota \in Int /\ Fee \in Nat
    /\ AllowWalletOverflow \in BOOLEAN
ASSUME BoundAssumption ==
    /\ RetryTimes \in Nat /\ MaxFaults \in Nat
    /\ MaxAttempts \in Nat \ {0}

VARIABLES
    wallet,     \* users.quota
    token,      \* tokens.remain_quota
    subUsed,    \* user_subscriptions.amount_used
    subActive,  \* the subscription is active and not past its end time
    record,     \* status of each request's SubscriptionPreConsumeRecord
    prof,       \* the profile of each request
    ctl,        \* control state of each request's handler and its goroutine
    sess,       \* the BillingSession of each request
    paid,       \* history: net quota the session took from each ledger
    lost,       \* history: a charge or refund failed for good, or by half
    faults      \* database calls that failed so far

ledgers == <<wallet, token, subUsed, subActive>>
vars == <<wallet, token, subUsed, subActive, record, prof, ctl, sess, paid,
          lost, faults>>

Ledgers == {"wallet", "subscription", "token"}

FreshSession ==
    [src |-> "none", pre |-> 0, tok |-> 0, consumed |-> 0, trusted |-> FALSE, fundingSettled |-> FALSE, settled |-> FALSE,
     refunded |-> FALSE]

Init ==
    /\ wallet = InitWallet /\ token = InitToken
    /\ subUsed = 0 /\ subActive \in BOOLEAN
    /\ prof \in [Requests -> Profiles]
    /\ record = [r \in Requests |-> "none"]
    /\ ctl = [r \in Requests |->
                [pc |-> "idle", bg |-> "none", code |-> "none", arg |-> 0,
                 tokenSeen |-> 0, attempt |-> 0, tries |-> 0]]
    /\ sess = [r \in Requests |-> FreshSession]
    /\ paid = [r \in Requests |-> [l \in Ledgers |-> 0]]
    /\ lost = [r \in Requests |-> FALSE]
    /\ faults = 0

-----------------------------------------------------------------------------
(* Database calls.                                                         *)

DbOk == UNCHANGED faults

DbFault == faults < MaxFaults /\ faults' = faults + 1

(* DecreaseUserQuota with amount, IncreaseUserQuota with -amount: no floor *)
MoveWallet(r, amount) ==
    /\ wallet' = wallet - amount
    /\ paid' = [paid EXCEPT ![r]["wallet"] = @ + amount]
    /\ UNCHANGED <<token, subUsed, subActive>>

(* DecreaseTokenQuota with amount, IncreaseTokenQuota with -amount *)
MoveToken(r, amount) ==
    /\ token' = token - amount
    /\ paid' = [paid EXCEPT ![r]["token"] = @ + amount]
    /\ UNCHANGED <<wallet, subUsed, subActive>>

Clamp(n) == IF n < 0 THEN 0 ELSE n

(* Faulty variant: the total is compared before the delta is added *)
ExceedsTotalBefore(delta) == SubTotal > 0 /\ subUsed > SubTotal

(* The used amount after PostConsumeUserSubscriptionDelta would exceed the *)
(* total: the call returns an error.                                       *)
ExceedsTotal(delta) == SubTotal > 0 /\ Clamp(subUsed + delta) > SubTotal

(* PostConsumeUserSubscriptionDelta, one transaction on the locked row *)
MoveSub(r, delta) ==
    /\ ~ExceedsTotal(delta)
    /\ subUsed' = Clamp(subUsed + delta)
    /\ paid' = [paid EXCEPT ![r]["subscription"] = @ + delta]
    /\ UNCHANGED <<wallet, token, subActive>>

NothingMoves == UNCHANGED <<ledgers, paid>>

(* FundingSource.PreConsume and FundingSource.Settle(delta) *)
MoveFunding(r, delta) ==
    \/ sess[r].src = "wallet" /\ MoveWallet(r, delta)
    \/ sess[r].src = "subscription" /\ MoveSub(r, delta)

(* The write fails: a database error, or the subscription's total *)
FundingFails(r, delta) ==
    \/ DbFault
    \/ sess[r].src = "subscription" /\ ExceedsTotal(delta) /\ DbOk

Goto(r, label) == ctl' = [ctl EXCEPT ![r].pc = label]

Call(r, label, arg) == ctl' = [ctl EXCEPT ![r].pc = label, ![r].arg = arg]

-----------------------------------------------------------------------------
(* NewBillingSession and preConsume.                                       *)

SubConsume(quota) == IF quota <= 0 THEN 1 ELSE quota

(* The amount preConsume is called with *)
Amount(r) == IF sess[r].src = "subscription" THEN SubConsume(prof[r].quota)
             ELSE prof[r].quota

(* Where the switch on the billing preference starts *)
FirstTry(r) ==
    CASE prof[r].pref = "subscription_only" -> "trySub"
      [] prof[r].pref \in {"wallet_only", "wallet_first"} -> "tryWallet"
      [] OTHER -> "hasSub"

(* The request arrives: token_quota of the context is what authentication  *)
(* read, and stays as it was then.                                         *)
Start(r) ==
    /\ ctl[r].pc = "idle"
    /\ ctl' = [ctl EXCEPT ![r].pc = FirstTry(r), ![r].tokenSeen = token]
    /\ UNCHANGED <<ledgers, record, prof, sess, paid, lost, faults>>

(* PreConsumeBilling returned an error and the session is dropped.  Relay  *)
(* returns; RelayTask may go round its retry loop and call it again.       *)
Reject(r) ==
    /\ sess' = [sess EXCEPT ![r] = FreshSession]
    /\ \/ Goto(r, "rejected")
       \/ /\ prof[r].kind = "task" /\ ctl[r].attempt < RetryTimes
          /\ ctl' = [ctl EXCEPT ![r].pc = FirstTry(r), ![r].attempt = @ + 1]

(* ErrorCodeInsufficientUserQuota: wallet_first falls back to the          *)
(* subscription, subscription_first asks whether the wallet may be used.   *)
Insufficient(r, src) ==
    \/ /\ src = "wallet" /\ prof[r].pref = "wallet_first"
       /\ Goto(r, "trySub") /\ sess' = [sess EXCEPT ![r] = FreshSession]
    \/ /\ src = "subscription" /\ prof[r].pref = "subscription_first"
       /\ Goto(r, "overflow") /\ sess' = [sess EXCEPT ![r] = FreshSession]
    \/ /\ <<src, prof[r].pref>> \notin {<<"wallet", "wallet_first">>,
                            <<"subscription", "subscription_first">>}
       /\ Reject(r)

(* HasActiveUserSubscription *)
HasSub(r) ==
    /\ ctl[r].pc = "hasSub"
    /\ \/ DbFault /\ Reject(r)
       \/ DbOk /\ Goto(r, IF subActive THEN "trySub" ELSE "tryWallet")
               /\ UNCHANGED sess
    /\ NothingMoves /\ UNCHANGED <<record, prof, lost>>

(* UserActiveSubscriptionsAllowWalletOverflow: an active subscription that *)
(* forbids overflow blocks the wallet.                                     *)
Overflow(r) ==
    /\ ctl[r].pc = "overflow"
    /\ \/ DbFault /\ Reject(r)
       \/ DbOk /\ (AllowWalletOverflow \/ ~subActive)
               /\ Goto(r, "tryWallet") /\ UNCHANGED sess
       \/ DbOk /\ ~AllowWalletOverflow /\ subActive /\ Reject(r)
    /\ NothingMoves /\ UNCHANGED <<record, prof, lost>>

(* shouldTrust for the wallet; a subscription is never trusted *)
ShouldTrust(r) ==
    /\ prof[r].kind # "task" /\ TrustQuota > 0
    /\ prof[r].unlimited \/ ctl[r].tokenSeen > TrustQuota
    /\ wallet > TrustQuota

(* tryWallet: the balance check, and preConsume up to its first write. A   *)
(* trusted request, and one that costs nothing, holds nothing.             *)
TryWallet(r) ==
    /\ ctl[r].pc = "tryWallet"
    /\ \/ DbFault /\ Reject(r)
       \/ DbOk /\ (wallet <= 0 \/ wallet < prof[r].quota)
               /\ Insufficient(r, "wallet")
       \/ /\ DbOk /\ wallet > 0 /\ wallet >= prof[r].quota
          /\ sess' = [sess EXCEPT ![r] =
                 [FreshSession EXCEPT !.src = "wallet", !.trusted = ShouldTrust(r)]]
          /\ Goto(r, IF ShouldTrust(r) \/ prof[r].quota = 0
                     THEN "relay" ELSE "tokenRead")
    /\ NothingMoves /\ UNCHANGED <<record, prof, lost>>

(* trySubscription builds the session; preConsume starts with the token *)
TrySub(r) ==
    /\ ctl[r].pc = "trySub"
    /\ sess' = [sess EXCEPT ![r] = [FreshSession EXCEPT !.src = "subscription"]]
    /\ Goto(r, "tokenRead")
    /\ UNCHANGED <<ledgers, record, prof, paid, lost, faults>>

TokenSuffices(r, amount) == prof[r].unlimited \/ token >= amount

(* PreConsumeTokenQuota up to its check *)
TokenRead(r) ==
    /\ ctl[r].pc = "tokenRead"
    /\ \/ /\ prof[r].playground /\ DbOk
          /\ sess' = [sess EXCEPT ![r].tok = Amount(r)] /\ Goto(r, "fund")
       \/ ~prof[r].playground /\ DbFault /\ Reject(r)
       \/ ~prof[r].playground /\ DbOk /\ ~TokenSuffices(r, Amount(r)) /\ Reject(r)
       \/ /\ ~prof[r].playground /\ DbOk /\ TokenSuffices(r, Amount(r))
          /\ Goto(r, "tokenDec") /\ UNCHANGED sess
    /\ NothingMoves /\ UNCHANGED <<record, prof, lost>>

(* DecreaseTokenQuota of PreConsumeTokenQuota *)
TokenDec(r) ==
    /\ ctl[r].pc = "tokenDec"
    /\ \/ DbFault /\ Reject(r) /\ NothingMoves
       \/ /\ DbOk /\ MoveToken(r, Amount(r))
          /\ sess' = [sess EXCEPT ![r].tok = Amount(r)] /\ Goto(r, "fund")
    /\ UNCHANGED <<record, prof, lost>>

(* PreConsumeUserSubscription refuses: no active row, or too little left *)
SubRefuses(amount) ==
    ~subActive \/ (SubTotal > 0 /\ SubTotal - subUsed < amount)

FundingError(r, code) ==
    ctl' = [ctl EXCEPT ![r].pc = "rollback", ![r].code = code]

(* funding.PreConsume, then preConsumedQuota and syncRelayInfo *)
Fund(r) ==
    /\ ctl[r].pc = "fund"
    /\ \/ /\ DbFault /\ NothingMoves
          /\ FundingError(r, "error")
          /\ UNCHANGED <<sess, record>>
       \/ /\ DbOk /\ sess[r].src = "subscription" /\ SubRefuses(Amount(r))
          /\ FundingError(r, "insufficient")
          /\ NothingMoves /\ UNCHANGED <<sess, record>>
       \/ /\ DbOk /\ ~(sess[r].src = "subscription" /\ SubRefuses(Amount(r)))
          /\ MoveFunding(r, Amount(r))
          /\ sess' = [sess EXCEPT ![r].pre = Amount(r), ![r].consumed = Amount(r)]
          /\ record' = IF sess[r].src = "subscription"
                       THEN [record EXCEPT ![r] = "consumed"] ELSE record
          /\ Goto(r, "relay")
    /\ UNCHANGED <<prof, lost>>

(* Faulty variant: the token quota is not returned *)
RollbackForgotten(r) ==
    /\ ctl[r].pc = "rollback"
    /\ \/ ctl[r].code = "insufficient" /\ Insufficient(r, sess[r].src)
       \/ ctl[r].code = "error" /\ Reject(r)
    /\ NothingMoves /\ UNCHANGED <<record, prof, lost, faults>>

(* preConsume failed at the funding source: it returns the token quota *)
Rollback(r) ==
    /\ ctl[r].pc = "rollback"
    /\ \/ /\ sess[r].tok > 0 /\ ~prof[r].playground
          /\ \/ DbOk /\ MoveToken(r, -sess[r].tok) /\ UNCHANGED lost
             \/ DbFault /\ NothingMoves /\ lost' = [lost EXCEPT ![r] = TRUE]
       \/ /\ sess[r].tok = 0 \/ prof[r].playground
          /\ DbOk /\ NothingMoves /\ UNCHANGED lost
    /\ \/ ctl[r].code = "insufficient" /\ Insufficient(r, sess[r].src)
       \/ ctl[r].code = "error" /\ Reject(r)
    /\ UNCHANGED <<record, prof>>

-----------------------------------------------------------------------------
(* The request is relayed.                                                 *)

(* The retry loop: another channel is tried under the same session *)
RelayRetry(r) ==
    /\ ctl[r].pc = "relay" /\ ctl[r].attempt < RetryTimes
    /\ ctl' = [ctl EXCEPT ![r].attempt = @ + 1]
    /\ UNCHANGED <<ledgers, record, prof, sess, paid, lost, faults>>

(* The upstream answered: SettleBilling is called with what it consumed *)
RelaySuccess(r) ==
    /\ ctl[r].pc = "relay"
    /\ \E actual \in Actuals : Call(r, "settle", actual)
    /\ UNCHANGED <<ledgers, record, prof, sess, paid, lost, faults>>

(* The last attempt failed: the deferred function calls Refund, and Relay  *)
(* charges a violation fee when the error says so.                         *)
RelayFail(r) ==
    /\ ctl[r].pc = "relay"
    /\ \E fee \in {0, Fee} :
          /\ prof[r].kind = "task" => fee = 0
          /\ Call(r, "refund", fee)
    /\ UNCHANGED <<ledgers, record, prof, sess, paid, lost, faults>>

(* The relay panics: RelayPanicRecover answers, the deferred function sees *)
(* no error and calls nothing, so neither Settle nor Refund runs.          *)
RelayPanics(r) ==
    /\ ctl[r].pc = "relay"
    /\ Goto(r, "panicked")
    /\ UNCHANGED <<ledgers, record, prof, sess, paid, lost, faults>>

-----------------------------------------------------------------------------
(* Settle.                                                                 *)

(* Faulty variant: the hold is forgotten when the difference is taken *)
SettleDeltaWhole(r) == ctl[r].arg

SettleDelta(r) == ctl[r].arg - sess[r].pre

(* Faulty variant: an exact hold is left open *)
SettleZeroForgotten(r) ==
    /\ ctl[r].pc = "settle"
    /\ \/ /\ SettleDelta(r) = 0 /\ Goto(r, "done") /\ UNCHANGED sess
          /\ DbOk /\ NothingMoves
       \/ /\ SettleDelta(r) # 0
          /\ \/ /\ FundingFails(r, SettleDelta(r)) /\ NothingMoves
                /\ Goto(r, "unsettled") /\ UNCHANGED sess
             \/ /\ DbOk /\ MoveFunding(r, SettleDelta(r))
                /\ sess' = [sess EXCEPT ![r].fundingSettled = TRUE,
                                        ![r].settled = prof[r].playground]
                /\ Goto(r, IF prof[r].playground THEN "done" ELSE "settleToken")
    /\ UNCHANGED <<record, prof, lost>>

(* Settle up to the token: an error of the funding source leaves the       *)
(* session unsettled and its hold in place; the caller only logs it.       *)
Settle(r) ==
    /\ ctl[r].pc = "settle"
    /\ \/ /\ SettleDelta(r) = 0 \/ sess[r].settled
          /\ sess' = [sess EXCEPT ![r].settled = TRUE]
          /\ Goto(r, "done") /\ DbOk /\ NothingMoves
       \/ /\ SettleDelta(r) # 0 /\ ~sess[r].settled /\ ~sess[r].fundingSettled
          /\ \/ /\ FundingFails(r, SettleDelta(r)) /\ NothingMoves
                /\ Goto(r, "unsettled") /\ UNCHANGED sess
             \/ /\ DbOk /\ MoveFunding(r, SettleDelta(r))
                /\ sess' = [sess EXCEPT ![r].fundingSettled = TRUE,
                                        ![r].settled = prof[r].playground]
                /\ Goto(r, IF prof[r].playground THEN "done" ELSE "settleToken")
    /\ UNCHANGED <<record, prof, lost>>

(* The token part: a failure is logged and the session counts as settled *)
SettleToken(r) ==
    /\ ctl[r].pc = "settleToken"
    /\ \/ DbOk /\ MoveToken(r, SettleDelta(r)) /\ UNCHANGED lost
       \/ DbFault /\ NothingMoves /\ lost' = [lost EXCEPT ![r] = TRUE]
    /\ sess' = [sess EXCEPT ![r].settled = TRUE]
    /\ Goto(r, "done")
    /\ UNCHANGED <<record, prof>>

-----------------------------------------------------------------------------
(* Refund and its goroutine, and the violation fee.                        *)

NeedsRefund(r) ==
    /\ ~sess[r].settled /\ ~sess[r].refunded /\ ~sess[r].fundingSettled
    /\ sess[r].tok > 0 \/ (sess[r].src = "subscription" /\ sess[r].consumed > 0)

AfterRefund(r) == IF ctl[r].arg > 0 THEN "fee" ELSE "done"

StartGoroutine(r, label) == ctl' = [ctl EXCEPT ![r].pc = label, ![r].bg = "fund"]

(* Refund marks the session and starts the goroutine *)
Refund(r) ==
    /\ ctl[r].pc = "refund"
    /\ \/ /\ NeedsRefund(r) /\ sess' = [sess EXCEPT ![r].refunded = TRUE]
          /\ StartGoroutine(r, AfterRefund(r))
       \/ ~NeedsRefund(r) /\ UNCHANGED sess /\ Goto(r, AfterRefund(r))
    /\ UNCHANGED <<ledgers, record, prof, paid, lost, faults>>

(* ChargeViolationFeeIfNeeded: PostConsumeQuota on the source of the       *)
(* request.  The fee is not part of what the session holds.                *)
ChargeFee(r) ==
    /\ ctl[r].pc = "fee"
    /\ \/ /\ FundingFails(r, ctl[r].arg) /\ UNCHANGED ledgers /\ Goto(r, "done")
       \/ /\ DbOk /\ sess[r].src = "wallet" /\ wallet' = wallet - ctl[r].arg
          /\ UNCHANGED <<token, subUsed, subActive>>
          /\ Goto(r, IF prof[r].playground THEN "done" ELSE "feeToken")
       \/ /\ DbOk /\ sess[r].src = "subscription" /\ ~ExceedsTotal(ctl[r].arg)
          /\ subUsed' = Clamp(subUsed + ctl[r].arg)
          /\ UNCHANGED <<wallet, token, subActive>>
          /\ Goto(r, IF prof[r].playground THEN "done" ELSE "feeToken")
    /\ UNCHANGED <<record, prof, sess, paid, lost>>

ChargeFeeToken(r) ==
    /\ ctl[r].pc = "feeToken"
    /\ \/ DbFault /\ UNCHANGED token
       \/ DbOk /\ token' = token - ctl[r].arg
    /\ Goto(r, "done")
    /\ UNCHANGED <<wallet, subUsed, subActive, record, prof, sess, paid, lost>>

BgGoto(r, label) == ctl' = [ctl EXCEPT ![r].bg = label]

(* An attempt of refundWithRetry failed *)
RetryRefund(r) ==
    /\ lost' = [lost EXCEPT ![r] =
                  @ \/ ctl[r].bg = "commit" \/ ctl[r].tries + 1 >= MaxAttempts]
    /\ ctl' = [ctl EXCEPT ![r].tries = @ + 1,
                 ![r].bg = IF ctl[r].tries + 1 < MaxAttempts THEN "fund" ELSE "token"]

(* Faulty variant: the wallet is refunded with retries, and an attempt     *)
(* whose answer is lost is made again.                                     *)
RefundWalletRetried(r) ==
    /\ ctl[r].bg = "fund" /\ sess[r].src = "wallet"
    /\ \/ DbOk /\ MoveWallet(r, -sess[r].consumed)
          /\ BgGoto(r, "token") /\ UNCHANGED lost
       \/ DbFault /\ MoveWallet(r, -sess[r].consumed) /\ RetryRefund(r)
    /\ UNCHANGED <<record, prof, sess>>

(* WalletFunding.Refund: one attempt, the write is not idempotent *)
RefundWallet(r) ==
    /\ ctl[r].bg = "fund" /\ sess[r].src = "wallet"
    /\ \/ sess[r].consumed <= 0 /\ DbOk /\ NothingMoves /\ UNCHANGED lost
       \/ /\ sess[r].consumed > 0
          /\ \/ DbOk /\ MoveWallet(r, -sess[r].consumed) /\ UNCHANGED lost
             \/ DbFault /\ NothingMoves /\ lost' = [lost EXCEPT ![r] = TRUE]
    /\ BgGoto(r, "token")
    /\ UNCHANGED <<record, prof, sess>>

(* RefundSubscriptionPreConsume up to PostConsumeUserSubscriptionDelta,    *)
(* which commits in a transaction of its own.                              *)
RefundSub(r) ==
    /\ ctl[r].bg = "fund" /\ sess[r].src = "subscription"
    /\ \/ /\ record[r] = "refunded" /\ DbOk /\ NothingMoves
          /\ BgGoto(r, "token") /\ UNCHANGED lost
       \/ /\ record[r] = "consumed"
          /\ \/ /\ DbOk /\ MoveSub(r, -sess[r].consumed)
                /\ BgGoto(r, "commit") /\ UNCHANGED lost
             \/ FundingFails(r, -sess[r].consumed) /\ NothingMoves /\ RetryRefund(r)
    /\ UNCHANGED <<record, prof, sess>>

(* The outer transaction saves the record's status and commits *)
RefundSubCommit(r) ==
    /\ ctl[r].bg = "commit"
    /\ \/ /\ DbOk /\ record' = [record EXCEPT ![r] = "refunded"]
          /\ BgGoto(r, "token") /\ UNCHANGED lost
       \/ DbFault /\ RetryRefund(r) /\ UNCHANGED record
    /\ UNCHANGED <<ledgers, prof, sess, paid>>

(* Faulty variant: an unlimited token gets nothing back *)
RefundTokenLimited(r) ==
    /\ ctl[r].bg = "token"
    /\ \/ /\ sess[r].tok = 0 \/ prof[r].playground \/ prof[r].unlimited
          /\ DbOk /\ NothingMoves /\ UNCHANGED lost
       \/ /\ sess[r].tok > 0 /\ ~prof[r].playground /\ ~prof[r].unlimited
          /\ \/ DbOk /\ MoveToken(r, -sess[r].tok) /\ UNCHANGED lost
             \/ DbFault /\ NothingMoves /\ lost' = [lost EXCEPT ![r] = TRUE]
    /\ BgGoto(r, "end")
    /\ UNCHANGED <<record, prof, sess>>

RefundToken(r) ==
    /\ ctl[r].bg = "token"
    /\ \/ /\ sess[r].tok = 0 \/ prof[r].playground
          /\ DbOk /\ NothingMoves /\ UNCHANGED lost
       \/ /\ sess[r].tok > 0 /\ ~prof[r].playground
          /\ \/ DbOk /\ MoveToken(r, -sess[r].tok) /\ UNCHANGED lost
             \/ DbFault /\ NothingMoves /\ lost' = [lost EXCEPT ![r] = TRUE]
    /\ BgGoto(r, "end")
    /\ UNCHANGED <<record, prof, sess>>

-----------------------------------------------------------------------------
(* The subscription expires or is cancelled; its row stays.                *)
SubEnds ==
    /\ subActive /\ subActive' = FALSE
    /\ UNCHANGED <<wallet, token, subUsed, record, prof, ctl, sess, paid, lost,
                   faults>>

PreConsume(r) == Start(r) \/ HasSub(r) \/ Overflow(r) \/ TryWallet(r)
                 \/ TrySub(r) \/ TokenRead(r) \/ TokenDec(r) \/ Fund(r)
                 \/ Rollback(r)

Relaying(r) == RelayRetry(r) \/ RelaySuccess(r) \/ RelayFail(r) \/ RelayPanics(r)

Closing(r) == Settle(r) \/ SettleToken(r) \/ Refund(r) \/ ChargeFee(r)
              \/ ChargeFeeToken(r)

Handler(r) == PreConsume(r) \/ Relaying(r) \/ Closing(r)

Goroutine(r) == RefundWallet(r) \/ RefundSub(r) \/ RefundSubCommit(r)
                \/ RefundToken(r)

Finished(r) == /\ ctl[r].pc \in {"rejected", "done", "unsettled", "panicked"}
               /\ ctl[r].bg \in {"none", "end"}

(* Every request is finished: the model stops here *)
AllFinished == (\A r \in Requests : Finished(r)) /\ UNCHANGED vars

Next == (\E r \in Requests : Handler(r) \/ Goroutine(r)) \/ SubEnds \/ AllFinished

Fairness == \A r \in Requests : WF_vars(Handler(r)) /\ WF_vars(Goroutine(r))

Spec == Init /\ [][Next]_vars /\ Fairness

-----------------------------------------------------------------------------
(* Properties.                                                             *)

Labels == {"idle", "hasSub", "overflow", "tryWallet", "trySub", "tokenRead",
           "tokenDec", "fund", "rollback", "rejected", "relay", "panicked",
           "settle", "unsettled", "settleToken", "refund", "fee", "feeToken",
           "done"}

Control == [pc: Labels, bg: {"none", "fund", "commit", "token", "end"},
            code: {"none", "error", "insufficient"}, arg: Nat, tokenSeen: Int,
            attempt: Nat, tries: Nat]

Session == [src: {"none", "wallet", "subscription"}, pre: Nat, tok: Nat,
            consumed: Nat, trusted: BOOLEAN, fundingSettled: BOOLEAN,
            settled: BOOLEAN, refunded: BOOLEAN]

(* Every variable has its type; in particular the fields of a session      *)
(* never become negative.                                                  *)
TypeOK ==
    /\ wallet \in Int /\ token \in Int /\ subUsed \in Nat
    /\ subActive \in BOOLEAN
    /\ record \in [Requests -> {"none", "consumed", "refunded"}]
    /\ prof \in [Requests -> Profiles]
    /\ ctl \in [Requests -> Control]
    /\ sess \in [Requests -> Session]
    /\ paid \in [Requests -> [Ledgers -> Int]]
    /\ lost \in [Requests -> BOOLEAN]
    /\ faults \in Nat

(* The token's share of a charge: a playground request charges no token *)
TokenShare(r, amount) == IF prof[r].playground THEN 0 ELSE amount

(* A settled session took exactly the actual consumption from its funding  *)
(* source and from the token, whatever was held or retried                 *)
(* before, unless one of its writes failed for good (Settle).              *)
SettledChargesActual ==
    \A r \in Requests : sess[r].settled /\ ~lost[r] =>
        /\ paid[r][sess[r].src] = ctl[r].arg
        /\ paid[r]["token"] = TokenShare(r, ctl[r].arg)

(* When the refund goroutine has ended, the session took nothing from any  *)
(* ledger, unless a refund failed for good (Refund).                       *)
RefundedChargesNothing ==
    \A r \in Requests : ctl[r].bg = "end" /\ ~lost[r] =>
        \A l \in Ledgers : paid[r][l] = 0

(* A request that was refused by every source it tried, or that moves on   *)
(* to its second source, has been charged nothing so far: preConsume rolls *)
(* its steps back ("任一步骤失败时原子回滚已完成的步骤").                  *)
RejectedChargesNothing ==
    \A r \in Requests :
        ctl[r].pc \in {"hasSub", "overflow", "tryWallet", "trySub", "rejected"}
        /\ ~lost[r] => \A l \in Ledgers : paid[r][l] = 0

(* However database calls fail, a session never gives a wallet or a token  *)
(* more than it took, and never draws on wallet and subscription at once;  *)
(* a subscription gets back more only after a call of the session failed.  *)
NeverOverRefunded ==
    \A r \in Requests :
        /\ paid[r]["wallet"] >= 0 /\ paid[r]["token"] >= 0
        /\ paid[r]["wallet"] = 0 \/ paid[r]["subscription"] = 0
        /\ lost[r] \/ paid[r]["subscription"] >= 0

(* What a settled request used stays on the subscription: refunding        *)
(* another request's hold takes only that hold back, however often it is   *)
(* tried ("RefundSubscriptionPreConsume is idempotent").                   *)
SettledUsageStays ==
    \A r \in Requests : sess[r].settled /\ sess[r].src = "subscription" =>
        subUsed >= paid[r]["subscription"]

(* Holds, settlements and fees of concurrent requests never                *)
(* take a limited subscription above its total.                            *)
SubWithinTotal == SubTotal > 0 => subUsed <= SubTotal

(* Once a session is settled its charges never change, and no refund       *)
(* starts; once it is refunded it is never settled.                        *)
SettledIsFinal ==
    [][\A r \in Requests :
         /\ sess[r].settled => /\ paid'[r] = paid[r]
                               /\ ~sess'[r].refunded
         /\ sess[r].refunded => ~sess'[r].settled]_vars

(* The hold is settled, its refund has ended, or there was none *)
Resolved(r) ==
    sess[r].settled \/ ctl[r].bg = "end" \/ (sess[r].tok = 0 /\ sess[r].consumed = 0)

(* A request at rest has its hold settled or refunded, with two exceptions *)
(* that leave it to nobody: the relay panicked, or the funding write of    *)
(* Settle failed, which its callers only log.  No request stops elsewhere: *)
(* every step takes it forward, and TLC checks that none is stuck.         *)
HoldsAreResolved ==
    \A r \in Requests :
        Finished(r) => Resolved(r) \/ ctl[r].pc \in {"unsettled", "panicked"}

-----------------------------------------------------------------------------
(* The inductive invariant.  It relates, for one request, the profile f,   *)
(* the control state c, the session s, the amounts d taken so far, whether *)
(* a write was lost l, and the status k of the pre-consume record.         *)

Share(f, amount) == IF f.playground THEN 0 ELSE amount

Taken(s, d) == IF s.src = "wallet" THEN d["wallet"] ELSE d["subscription"]

(* d is n, or at least n once a write was lost *)
Owes(l, d, n) == d >= n /\ (l \/ d = n)

Opening == {"idle", "hasSub", "overflow", "tryWallet", "trySub", "tokenRead",
            "tokenDec", "rejected"}
Holding == {"relay", "settle", "refund", "unsettled", "panicked"}
Closed  == {"fee", "feeToken", "done"}

(* Before the funding source is charged *)
OpeningOk(f, c, s, d, l) ==
    /\ c.pc \in Opening \cup {"fund", "rollback"} =>
         /\ c.bg = "none" /\ s.pre = 0 /\ s.consumed = 0
         /\ ~s.settled /\ ~s.refunded /\ ~s.fundingSettled
         /\ d["wallet"] = 0 /\ d["subscription"] = 0
         /\ Owes(l, d["token"], Share(f, s.tok))
    /\ c.pc \in Opening => s.tok = 0
    /\ c.pc = "tokenDec" => ~f.playground
    /\ c.pc = "fund" =>
         s.tok = IF s.src = "subscription" THEN SubConsume(f.quota) ELSE f.quota
    /\ c.pc \in {"tokenRead", "tokenDec", "fund", "rollback"} =>
         s.src \in {"wallet", "subscription"}

(* What is held matches the session's fields; a wallet's consumed field is *)
(* exact even after a lost write.                                          *)
HoldOk(s, d, l, n) ==
    /\ Owes(l, Taken(s, d), n)
    /\ s.src = "wallet" => s.consumed = d["wallet"]
    /\ s.consumed = s.pre

HoldingOk(f, c, s, d, l) ==
    /\ c.pc \in Holding \cup {"settleToken"} =>
         /\ c.bg = "none" /\ s.tok = s.pre
         /\ s.src \in {"wallet", "subscription"}
         /\ ~s.settled /\ ~s.refunded
         /\ s.fundingSettled <=> c.pc = "settleToken"
         /\ Owes(l, d["token"], Share(f, s.tok))
    /\ c.pc \in Holding => HoldOk(s, d, l, s.pre)
    /\ c.pc = "settleToken" => Owes(l, Taken(s, d), c.arg) /\ ~f.playground

(* After Settle or Refund *)
ClosedOk(f, c, s, d, l) ==
    /\ c.pc \in Closed => s.src \in {"wallet", "subscription"}
    /\ s.settled => /\ c.pc = "done" /\ c.bg = "none" /\ ~s.refunded
                    /\ l \/ Taken(s, d) = c.arg
                    /\ l \/ d["token"] = Share(f, c.arg)
    /\ s.refunded <=> c.bg # "none"
    /\ c.pc \in Closed /\ c.bg = "none" =>
         s.settled \/ (s.tok = 0 /\ s.consumed = 0)
    /\ s.refunded => c.pc \in Closed

(* The refund goroutine *)
GoroutineOk(f, c, s, d, l, k) ==
    /\ c.bg = "fund" => /\ s.src = "wallet" => s.consumed = d["wallet"]
                        /\ s.src = "subscription" =>
                             l \/ d["subscription"] = s.consumed
    /\ c.bg = "commit" => /\ s.src = "subscription"
                          /\ l \/ d["subscription"] = 0
    /\ c.bg \in {"token", "end"} =>
         l \/ (d["wallet"] = 0 /\ d["subscription"] = 0)
    /\ c.bg \in {"fund", "commit", "token"} =>
         Owes(l, d["token"], Share(f, s.tok))
    /\ c.bg = "end" => l \/ d["token"] = 0
    /\ k = "refunded" => c.bg \in {"token", "end"}

RequestOk(f, c, s, d, l, k) ==
    /\ d["wallet"] >= 0 /\ d["token"] >= 0
    /\ l \/ d["subscription"] >= 0
    /\ s.src # "wallet" => d["wallet"] = 0
    /\ s.src # "subscription" => d["subscription"] = 0
    /\ OpeningOk(f, c, s, d, l)
    /\ HoldingOk(f, c, s, d, l)
    /\ ClosedOk(f, c, s, d, l)
    /\ GoroutineOk(f, c, s, d, l, k)

IInv ==
    /\ TypeOK
    /\ SubWithinTotal
    /\ \A r \in Requests :
         RequestOk(prof[r], ctl[r], sess[r], paid[r], lost[r], record[r])

=============================================================================
