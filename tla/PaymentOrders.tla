---------------------------- MODULE PaymentOrders ----------------------------
(***************************************************************************)
(* One order, of a top-up or of a subscription, from its creation to the   *)
(* credit: model/topup.go, CompleteSubscriptionOrder and                   *)
(* ExpireSubscriptionOrder of model/subscription.go, and the webhooks of   *)
(* controller/topup*.go and controller/subscription_payment_*.go.          *)
(*                                                                         *)
(* The payment provider sends an event at least once, and again until it   *)
(* is acknowledged; an administrator may complete a top-up by hand.  Each  *)
(* call is handled by a goroutine of some node.  LockOrder serialises the  *)
(* goroutines of one node; a database transaction, which locks the order's *)
(* row, is one step for all nodes.                                         *)
(***************************************************************************)
EXTENDS Naturals, FiniteSets

CONSTANTS
    Orders,       \* the orders of the instance: provider, kind and type
    Nodes,        \* processes of the gateway
    Home,         \* the node of the orders that only one node handles
    Sticky,       \* providers whose orders only one node handles
    Calls,        \* goroutines that handle a call
    QuotaPerUnit, \* quota of one currency unit
    MaxFaults,    \* bound: database calls that fail
    MaxCrashes    \* bound: crashes of a node

ASSUME OrderAssumption ==
    /\ \A o \in Orders : o.kind \in {"topup", "subscription"} /\ o.type \in {"onetime", "recurring"}
    /\ Home \in Nodes /\ IsFiniteSet(Calls)
    /\ QuotaPerUnit \in Nat \ {0} /\ MaxFaults \in Nat /\ MaxCrashes \in Nat

VARIABLES
    order,    \* provider and kind of the order, and its type at Creem
    status,   \* the status column of its row
    times,    \* how often it was credited
    quota,    \* the quota credited for a top-up of one unit
    remote,   \* the payment at the provider
    sent,     \* events the provider has sent
    acked,    \* events that were acknowledged
    call,     \* the goroutines: position, node, event, lock object
    lock,     \* orderLocks of every node
    faults,   \* database calls that failed
    crashes   \* crashes so far

vars == <<order, status, times, quota, remote, sent, acked, call, lock, faults, crashes>>
row == <<status, times, quota>>

Closed == {"failed", "expired"}
Provider == order.provider
TopUp == order.kind = "topup"
OneTime == order.type = "onetime"
Idle == [pc |-> "idle", node |-> Home, event |-> "none", gen |-> 0]
Unlocked == [refs |-> 0, gen |-> 0, held |-> {}]

Init ==
    /\ order \in Orders
    /\ status = "none" /\ times = 0 /\ quota = 0
    /\ remote = "none" /\ sent = {} /\ acked = {}
    /\ call = [c \in Calls |-> Idle] /\ lock = [n \in Nodes |-> Unlocked]
    /\ faults = 0 /\ crashes = 0

DbOk == UNCHANGED faults
DbFault == faults < MaxFaults /\ faults' = faults + 1

-----------------------------------------------------------------------------
(* The order is requested.  Stripe and the Epay top-up store it when the   *)
(* checkout exists, the others before.                                     *)
Insert(where) ==
    /\ status = "none" /\ status' = "pending" /\ remote' = where
    /\ UNCHANGED <<order, times, quota, sent, acked, call, lock, faults, crashes>>

RequestEpay == Provider = "epay" /\ TopUp /\ Insert("open")
RequestStripePay == Provider = "stripe" /\ Insert("open")
SubscriptionRequestEpay == Provider = "epay" /\ ~TopUp /\ Insert("linking")
RequestCreemPay == Provider = "creem" /\ Insert("linking")
RequestWaffoPay == Provider = "waffo" /\ Insert("linking")
RequestWaffoPancakePay == Provider = "pancake" /\ Insert("linking")

Request ==
    \/ RequestEpay \/ RequestStripePay \/ SubscriptionRequestEpay
    \/ RequestCreemPay \/ RequestWaffoPay \/ RequestWaffoPancakePay

LinkMade ==
    /\ remote = "linking" /\ remote' = "open"
    /\ UNCHANGED <<order, row, sent, acked, call, lock, faults, crashes>>

(* The checkout cannot be made: the order is closed, but not for Creem or  *)
(* when the write fails.  topUp.Update writes the status whatever it has   *)
(* become meanwhile.                                                       *)
LinkFails ==
    /\ remote = "linking" /\ remote' = "gone"
    /\ \/ Provider \in {"waffo", "pancake"} /\ DbOk /\ status' = "failed"
       \/ Provider = "epay" /\ DbOk /\ status' = "expired"
       \/ Provider \in {"waffo", "pancake", "epay"} /\ DbFault /\ UNCHANGED status
       \/ Provider = "creem" /\ DbOk /\ UNCHANGED status
    /\ UNCHANGED <<order, times, quota, sent, acked, call, lock, crashes>>

(* Waffo sends every status of a payment, also while it may still succeed: *)
(* an attempt that failed, or a step on the way.                           *)
RemoteReports ==
    /\ remote = "open" /\ Provider = "waffo" /\ sent' = sent \cup {"failed"}
    /\ UNCHANGED <<order, row, remote, acked, call, lock, faults, crashes>>

(* The provider ends the checkout, once, and sends its event *)
RemoteEnds ==
    /\ remote = "open"
    /\ \/ /\ remote' = "paid"
          /\ sent' = sent \cup {"paid"} \cup IF Provider = "epay" /\ ~TopUp THEN {"return"} ELSE {}
       \/ Provider \in {"stripe", "waffo"} /\ remote' = "failed" /\ sent' = sent \cup {"failed"}
       \/ Provider = "stripe" /\ remote' = "expired" /\ sent' = sent \cup {"expired"}
    /\ UNCHANGED <<order, row, acked, call, lock, faults, crashes>>

-----------------------------------------------------------------------------
(* A goroutine.                                                            *)

Goto(c, label) == call' = [call EXCEPT ![c].pc = label]
Rest == <<order, remote, sent, crashes>>

(* Before LockOrder, Pancake looks the order up; a status of Waffo other   *)
(* than the success is handled without the lock.                           *)
Entry(event) ==
    CASE event = "paid" /\ Provider = "pancake" -> "resolve"
      [] event = "failed" /\ Provider = "waffo" -> "tx"
      [] OTHER -> "lock"

Begin(c, event) ==
    /\ call[c].pc = "idle"
    /\ \E n \in IF Provider \in Sticky THEN {Home} ELSE Nodes :
         call' = [call EXCEPT ![c] = [Idle EXCEPT !.pc = Entry(event), !.node = n,
                                                  !.event = event]]

(* A webhook; the Epay top-up acknowledges before it does anything *)
Receive(c, event) ==
    /\ event \in sent /\ Begin(c, event)
    /\ acked' = IF Provider = "epay" /\ TopUp THEN acked \cup {event} ELSE acked
    /\ UNCHANGED <<Rest, row, lock, faults>>

(* AdminCompleteTopUp, of any order that exists *)
Manual(c) ==
    /\ TopUp /\ status # "none" /\ Begin(c, "manual")
    /\ UNCHANGED <<Rest, row, acked, lock, faults>>

(* Faulty variant: every call counts as an event *)
AckAll(c) == acked' = acked \cup {call[c].event}

(* The provider's call is answered: it need not be sent again *)
Ack(c) == acked' = acked \cup ({call[c].event} \ {"manual", "return"})
NoAck == UNCHANGED acked

(* ResolveWaffoPancakeTradeNo: an order that cannot be read counts as      *)
(* unknown, which is acknowledged.                                         *)
Resolve(c) ==
    /\ call[c].pc = "resolve"
    /\ \/ DbOk /\ NoAck /\ Goto(c, "lock")
       \/ DbFault /\ Ack(c) /\ Goto(c, "idle")
    /\ UNCHANGED <<Rest, row, lock>>

(* LockOrder, under createLock: the mutex of the order is made, under a    *)
(* new identity (modulo 2), or found, and counted.                         *)
LockOrder(c) ==
    LET n == call[c].node
        new == IF lock[n].refs = 0 THEN 1 - lock[n].gen ELSE lock[n].gen IN
    /\ call[c].pc = "lock"
    /\ lock' = [lock EXCEPT ![n].refs = @ + 1, ![n].gen = new]
    /\ call' = [call EXCEPT ![c].pc = "wait", ![c].gen = new]
    /\ UNCHANGED <<Rest, row, acked, faults>>

(* Where a goroutine goes on when it has the mutex: EpayNotify, the Creem  *)
(* top-up and sessionAsyncPaymentFailed read the order first.              *)
Body(event) ==
    IF event = "failed" \/ (event = "paid" /\ TopUp /\ Provider \in {"epay", "creem"})
    THEN "read" ELSE "tx"

(* rcm.mu.Lock() *)
Acquire(c) ==
    LET n == call[c].node IN
    /\ call[c].pc = "wait" /\ call[c].gen \notin lock[n].held
    /\ lock' = [lock EXCEPT ![n].held = @ \cup {call[c].gen}]
    /\ Goto(c, Body(call[c].event))
    /\ UNCHANGED <<Rest, row, acked, faults>>

(* handleCheckoutCompleted answers 200 to a type that it does not handle *)
IgnoreType(c) ==
    /\ call[c].pc = "read" /\ Provider = "creem" /\ ~OneTime
    /\ Ack(c) /\ Goto(c, "unlock")
    /\ UNCHANGED <<Rest, row, lock, faults>>

(* Whether the order has a row among the top-ups: a subscription order     *)
(* gets one when it is completed.                                          *)
HasTopUpRow == TopUp \/ status = "success"

(* Faulty variant: an order that cannot be read is taken for a finished one *)
ReadForgives(c) ==
    /\ call[c].pc = "read" /\ (Provider = "creem" => OneTime)
    /\ \/ /\ DbOk /\ TopUp /\ status = "pending" /\ NoAck
          /\ Goto(c, IF Provider = "creem" THEN "tx" ELSE "save")
       \/ DbOk /\ (TopUp => status # "pending") /\ Ack(c) /\ Goto(c, "unlock")
       \/ DbFault /\ Ack(c) /\ Goto(c, "unlock")
    /\ UNCHANGED <<Rest, row, lock>>

(* GetTopUpByTradeNo, without a lock on the row: an error is an order that *)
(* is not there, which Creem is told.  Only a pending order is worked on.  *)
Read(c) ==
    /\ call[c].pc = "read" /\ (Provider = "creem" => OneTime)
    /\ \/ /\ DbOk /\ TopUp /\ status = "pending" /\ NoAck
          /\ Goto(c, IF Provider = "creem" THEN "tx" ELSE "save")
       \/ /\ DbOk /\ (TopUp => status # "pending") /\ Goto(c, "unlock")
          /\ IF Provider = "creem" /\ ~HasTopUpRow THEN NoAck ELSE Ack(c)
       \/ DbFault /\ Goto(c, "unlock") /\ IF Provider = "creem" THEN NoAck ELSE Ack(c)
    /\ UNCHANGED <<Rest, row, lock>>

(* The row that was read is saved as it is now in the handler: EpayNotify  *)
SaveSuccess(c) ==
    /\ call[c].pc = "save" /\ call[c].event = "paid" /\ NoAck
    /\ \/ DbOk /\ status' = "success" /\ Goto(c, "credit")
       \/ DbFault /\ UNCHANGED status /\ Goto(c, "unlock")
    /\ UNCHANGED <<Rest, times, quota, lock>>

(* sessionAsyncPaymentFailed, answered 200 *)
SaveFailed(c) ==
    /\ call[c].pc = "save" /\ call[c].event = "failed" /\ Ack(c) /\ Goto(c, "unlock")
    /\ \/ DbOk /\ status' = "failed"
       \/ DbFault /\ UNCHANGED status
    /\ UNCHANGED <<Rest, times, quota, lock>>

(* What an order of one unit is worth: the Amount of a Creem order is its  *)
(* quota, that of the others a number of units (Money for Stripe).         *)
Due == IF Provider = "creem" THEN 1 ELSE QuotaPerUnit

(* EpayNotify increases the quota in a statement of its own *)
Credit(c) ==
    /\ call[c].pc = "credit" /\ Goto(c, "unlock")
    /\ \/ DbOk /\ times' = times + 1 /\ quota' = quota + Due
       \/ DbFault /\ UNCHANGED <<times, quota>>
    /\ UNCHANGED <<Rest, status, acked, lock>>

Leave(c) == Goto(c, IF Provider = "waffo" /\ call[c].event = "failed" THEN "idle" ELSE "unlock")

(* The transactions that complete an order, each under the lock of its row.*)
(* Status and credit change together.                                      *)
Fulfil(value) ==
    /\ status = "pending" /\ status' = "success"
    /\ times' = times + 1 /\ quota' = quota + value

(* A transaction that fails, or refuses the order's status *)
Refuse == ((DbOk /\ status # "pending") \/ DbFault) /\ UNCHANGED row

(* One that takes a completed order for its own success *)
Idempotent(c, value) ==
    \/ DbOk /\ Fulfil(value) /\ Ack(c)
    \/ DbOk /\ status # "pending" /\ UNCHANGED row
         /\ IF status = "success" THEN Ack(c) ELSE NoAck
    \/ DbFault /\ UNCHANGED row /\ NoAck

(* Stripe is answered 200 whatever happens *)
Recharge(c) == ((DbOk /\ Fulfil(Due)) \/ Refuse) /\ Ack(c)

RechargeCreem(c) == (DbOk /\ Fulfil(Due) /\ Ack(c)) \/ (Refuse /\ NoAck)

RechargeWaffo(c) == Idempotent(c, Due)

RechargeWaffoPancake(c) == Idempotent(c, Due)

(* The Amount is taken for a number of units, whoever the provider is *)
ManualCompleteTopUp(c) == Idempotent(c, QuotaPerUnit)

CompleteSubscriptionOrder(c) ==
    IF Provider = "stripe"
    THEN ((DbOk /\ Fulfil(0)) \/ Refuse) /\ Ack(c)
    ELSE Idempotent(c, 0)

(* CompleteSubscriptionOrder takes an order that cannot be read for one    *)
(* that is not there: the Creem webhook goes on as for a top-up.           *)
LookupFails(c) ==
    /\ call[c].pc = "tx" /\ call[c].event = "paid" /\ Provider = "creem" /\ ~TopUp
    /\ DbFault /\ NoAck /\ Goto(c, "read")
    /\ UNCHANGED <<Rest, row, lock>>

(* Faulty variant: the quota is not increased *)
CompleteUncredited(c) ==
    /\ call[c].pc = "tx" /\ call[c].event \in {"paid", "return", "manual"}
    /\ \/ DbOk /\ status = "pending" /\ status' = "success"
       \/ DbOk /\ status # "pending" /\ UNCHANGED status
    /\ Ack(c) /\ Leave(c)
    /\ UNCHANGED <<Rest, times, quota, lock>>

(* Faulty variant: every order that is not completed is completed *)
CompleteClosed(c) ==
    /\ call[c].pc = "tx" /\ call[c].event \in {"paid", "return", "manual"} /\ DbOk
    /\ \/ status # "success" /\ status' = "success" /\ times' = times + 1 /\ quota' = quota + Due
       \/ status = "success" /\ UNCHANGED row
    /\ Ack(c) /\ Leave(c)
    /\ UNCHANGED <<Rest, lock>>

(* fulfillOrder and its counterparts: a subscription order or a top-up *)
Complete(c) ==
    LET event == call[c].event IN
    /\ call[c].pc = "tx" /\ event \in {"paid", "return", "manual"}
    /\ \/ ~TopUp /\ CompleteSubscriptionOrder(c)
       \/ event = "manual" /\ ManualCompleteTopUp(c)
       \/ TopUp /\ event = "paid" /\ Provider = "stripe" /\ Recharge(c)
       \/ TopUp /\ event = "paid" /\ Provider = "creem" /\ RechargeCreem(c)
       \/ TopUp /\ event = "paid" /\ Provider = "waffo" /\ RechargeWaffo(c)
       \/ TopUp /\ event = "paid" /\ Provider = "pancake" /\ RechargeWaffoPancake(c)
    /\ Leave(c)
    /\ UNCHANGED <<Rest, lock>>

(* A pending order is closed; the answer is 200 whatever happens *)
CloseWith(target) ==
    \/ DbOk /\ status = "pending" /\ status' = target
    \/ DbOk /\ status # "pending" /\ UNCHANGED status
    \/ DbFault /\ UNCHANGED status

UpdatePendingTopUpStatus(c) == TopUp /\ CloseWith(call[c].event)
ExpireSubscriptionOrder(c) == ~TopUp /\ CloseWith("expired")

CloseOrder(c) ==
    /\ call[c].pc = "tx" /\ call[c].event \in Closed
    /\ UpdatePendingTopUpStatus(c) \/ ExpireSubscriptionOrder(c)
    /\ Ack(c) /\ Leave(c)
    /\ UNCHANGED <<Rest, times, quota, lock>>

(* UnlockOrder: the mutex is released, then uncounted *)
UnlockOrder(c) ==
    LET n == call[c].node IN
    /\ call[c].pc = "unlock" /\ Goto(c, "unref")
    /\ lock' = [lock EXCEPT ![n].held = @ \ {lock[n].gen}]
    /\ UNCHANGED <<Rest, row, acked, faults>>

(* Faulty variant: the mutex is forgotten by the first who releases it *)
UnrefAll(c) ==
    /\ call[c].pc = "unref" /\ call' = [call EXCEPT ![c] = Idle]
    /\ lock' = [lock EXCEPT ![call[c].node].refs = 0]
    /\ UNCHANGED <<Rest, row, acked, faults>>

Unref(c) ==
    LET n == call[c].node IN
    /\ call[c].pc = "unref" /\ call' = [call EXCEPT ![c] = Idle]
    /\ lock' = [lock EXCEPT ![n].refs = @ - 1]
    /\ UNCHANGED <<Rest, row, acked, faults>>

Step(c) ==
    \/ Resolve(c) \/ LockOrder(c) \/ Acquire(c) \/ IgnoreType(c) \/ Read(c) \/ SaveSuccess(c)
    \/ SaveFailed(c) \/ Credit(c) \/ Complete(c) \/ LookupFails(c) \/ CloseOrder(c)
    \/ UnlockOrder(c) \/ Unref(c)

(* A node crashes: its goroutines and its locks are gone *)
Crash(n) ==
    /\ crashes < MaxCrashes /\ crashes' = crashes + 1
    /\ call' = [c \in Calls |-> IF call[c].node = n THEN Idle ELSE call[c]]
    /\ lock' = [lock EXCEPT ![n] = Unlocked]
    /\ UNCHANGED <<order, row, remote, sent, acked, faults>>

-----------------------------------------------------------------------------
Next ==
    \/ Request \/ LinkMade \/ LinkFails \/ RemoteReports \/ RemoteEnds
    \/ \E c \in Calls : Manual(c) \/ Step(c) \/ \E e \in sent : Receive(c, e)
    \/ \E n \in Nodes : Crash(n)

(* A goroutine goes on, a mutex is granted to whoever waits long enough,   *)
(* and the provider sends an event again until it is acknowledged.         *)
Resend == "paid" \notin acked /\ \E c \in Calls : Receive(c, "paid")
Fairness ==
    /\ \A c \in Calls : WF_vars(Step(c)) /\ SF_vars(Acquire(c))
    /\ SF_vars(Resend)

Spec == Init /\ [][Next]_vars /\ Fairness

-----------------------------------------------------------------------------
(* Properties.                                                             *)

Pcs == {"idle", "resolve", "lock", "wait", "read", "save", "credit", "tx", "unlock", "unref"}

(* Every variable keeps its type; no lock is counted down below zero. *)
TypeOK ==
    /\ order \in Orders /\ status \in {"none", "pending", "success"} \cup Closed
    /\ times \in Nat /\ quota \in Nat
    /\ remote \in {"none", "linking", "gone", "open", "paid"} \cup Closed
    /\ sent \subseteq {"paid", "return"} \cup Closed /\ acked \subseteq sent
    /\ call \in [Calls -> [pc : Pcs, node : Nodes, gen : 0..1,
                           event : {"none", "paid", "return", "manual"} \cup Closed]]
    /\ lock \in [Nodes -> [refs : Nat, gen : 0..1, held : SUBSET (0..1)]]
    /\ faults \in 0..MaxFaults /\ crashes \in 0..MaxCrashes

(* The order keeps the promise of OrderLedger: however duplicated events,  *)
(* late failures and manual completions interleave, it is credited at most *)
(* once and never after it was closed.                                     *)
LedgerState == IF times > 0 THEN "credited" ELSE IF status \in Closed THEN "closed" ELSE "open"
Ledger == INSTANCE OrderLedger WITH state <- LedgerState
KeepsLedger == Ledger!Spec

(* The row of a top-up that an administrator completed while its checkout  *)
(* was being made, and failed to be made.                                  *)
Overwritten == remote = "gone" /\ status = "failed" /\ TopUp /\ Provider \in {"waffo", "pancake"}

(* The status tells whether the order was credited.  A completed order has *)
(* been credited: always where one transaction does both, for Epay top-ups *)
(* unless a statement failed or a process stopped.  A credited order is    *)
(* completed, unless RequestWaffoPay wrote over it.                        *)
SuccessIsCredited ==
    /\ status = "success" =>
         \/ times = 1
         \/ Provider = "epay" /\ TopUp
              /\ \/ \E c \in Calls : call[c].pc = "credit"
                 \/ faults > 0 \/ crashes > 0
    /\ times > 0 => status = "success" \/ Overwritten

(* Whoever pays with Creem or Waffo, or a subscription with Epay, is       *)
(* credited in the end although calls fail and nodes crash, because the    *)
(* event is not acknowledged before.  Three kinds of order are lost: a     *)
(* Waffo order that an earlier status closed, a Creem top-up of another    *)
(* type than onetime, and a Creem subscription of another type that could  *)
(* not be read.                                                            *)
Retried == Provider \in {"creem", "waffo"} \/ (Provider = "epay" /\ ~TopUp)
Lost ==
    \/ Provider = "waffo" /\ status = "failed" /\ "failed" \in sent
    \/ Provider = "creem" /\ ~OneTime /\ (TopUp \/ faults > 0)
PaidIsCredited == remote = "paid" /\ Retried ~> times = 1 \/ Lost

(* A goroutine of a node is alone between LockOrder and UnlockOrder: the   *)
(* mutex of an order is not replaced while somebody holds or awaits it.    *)
Inside(c) ==
    \/ call[c].pc \in {"read", "save", "credit", "unlock"}
    \/ call[c].pc = "tx" /\ Entry(call[c].event) # "tx"
OrderLocked ==
    \A c, d \in Calls : c # d /\ Inside(c) /\ Inside(d) => call[c].node # call[d].node

(* The buyer of a top-up gets what was bought, once. *)
CreditIsExact == TopUp => quota \in {0, Due}
=============================================================================
