------------------------- MODULE PaymentOrdersProofs -------------------------
(***************************************************************************)
(* For any number of nodes, goroutines, duplicated events, failing calls   *)
(* and crashes: the mutex of an order excludes the goroutines of a node    *)
(* although the map forgets it in between, and an order keeps the promise  *)
(* of OrderLedger unless it is one of the two that are read and saved      *)
(* without a lock on the row and several nodes handle it.                  *)
(*                                                                         *)
(* The mutex rests on a count: refs is the number of goroutines between    *)
(* LockOrder and the end of UnlockOrder, so that the map forgets an object *)
(* only when nobody holds or awaits it (CountInv).                         *)
(***************************************************************************)
EXTENDS PaymentOrders, FiniteSetTheorems, TLAPS

Events == {"none", "paid", "return", "manual"} \cup Closed
CallState == [pc : Pcs, node : Nodes, gen : 0..1, event : Events]
LockState == [refs : Nat, gen : 0..1, held : SUBSET (0..1)]

-----------------------------------------------------------------------------
(* The inductive invariant.                                                *)

CallsInv == call \in [Calls -> CallState]
LocksInv == lock \in [Nodes -> LockState]
OrderInv ==
    /\ order \in Orders /\ status \in {"none", "pending", "success"} \cup Closed
    /\ times \in Nat /\ quota \in Nat
    /\ remote \in {"none", "linking", "gone", "open", "paid"} \cup Closed
SentInv == sent \subseteq {"paid", "return"} \cup Closed
AckedInv == acked \subseteq sent
BoundInv == faults \in 0..MaxFaults /\ crashes \in 0..MaxCrashes

Types == CallsInv /\ LocksInv /\ OrderInv /\ SentInv /\ AckedInv /\ BoundInv

(* Which events lead to a read of the order.                               *)
Reads(e) == Body(e) = "read" \/ (Provider = "creem" /\ e = "paid")

(* Where a goroutine can be with its event.                                *)
Path(c) ==
    /\ call[c].pc # "idle" => call[c].event \in sent \cup (IF TopUp THEN {"manual"} ELSE {})
    /\ call[c].pc \notin {"idle", "tx"} => Entry(call[c].event) # "tx"
    /\ call[c].pc = "read" => Reads(call[c].event)
    /\ call[c].pc = "save" => TopUp /\ Provider \in {"epay", "stripe"}
    /\ call[c].pc = "save" /\ call[c].event = "paid" => Provider = "epay"
    /\ call[c].pc = "credit" => TopUp /\ Provider = "epay"
PathInv == \A c \in Calls : Path(c)

(* Nobody calls before the order exists, and no event comes before the     *)
(* checkout is made.                                                       *)
WorldInv ==
    /\ status = "none" <=> remote = "none"
    /\ remote = "none" => times = 0 /\ \A c \in Calls : call[c].pc = "idle"
    /\ remote = "linking" => Provider # "stripe" /\ (Provider = "epay" => ~TopUp)
    /\ remote = "linking" /\ ~TopUp => status = "pending" /\ times = 0
    /\ remote \in {"none", "linking", "gone"} => sent = {}
    /\ "failed" \in sent => Provider \in {"stripe", "waffo"}

(* refs counts the goroutines that hold, await or give up the mutex.       *)
Counted(c) == call[c].pc \in {"wait", "unref"} \/ Inside(c)
Holders(n) == {c \in Calls : call[c].node = n /\ Counted(c)}
CountInv == \A n \in Nodes : lock[n].refs = Cardinality(Holders(n))

(* They all know the mutex that is in the map, and it is locked while one  *)
(* of them is inside.                                                      *)
Knows(c) == Counted(c) => call[c].gen = lock[call[c].node].gen
Locks(c) == Inside(c) => call[c].gen \in lock[call[c].node].held
MutexInv == (\A c \in Calls : Knows(c) /\ Locks(c)) /\ OrderLocked

HomeInv == Provider \in Sticky => \A c \in Calls : call[c].node = Home

(* The orders that are read and then saved without a lock on the row are   *)
(* handled by one node.                                                    *)
HandledByOneNode == TopUp /\ Provider \in {"epay", "stripe"} => Provider \in Sticky

Due0(c) ==
    /\ call[c].pc = "save" => status = "pending"
    /\ call[c].pc = "credit" => status = "success" /\ times = 0
Uncredited ==
    /\ Provider = "epay" /\ TopUp
    /\ (\E c \in Calls : call[c].pc = "credit") \/ faults > 0 \/ crashes > 0
LedgerInv ==
    HandledByOneNode =>
        /\ times # 0 => times = 1 /\ (status = "success" \/ Overwritten)
        /\ \A c \in Calls : Due0(c)
        /\ status = "success" /\ times = 0 => Uncredited

Inv == Types /\ PathInv /\ WorldInv /\ CountInv /\ MutexInv /\ HomeInv /\ LedgerInv

-----------------------------------------------------------------------------
(* Operators.                                                              *)

(* Only a failure of Waffo is handled without the mutex.                   *)
LEMMA EntryCases ==
  ASSUME NEW e
  PROVE  /\ Entry(e) \in {"resolve", "tx", "lock"}
         /\ Entry(e) = "tx" <=> e = "failed" /\ Provider = "waffo"
         /\ Entry(e) = "resolve" <=> e = "paid" /\ Provider = "pancake"
  BY DEF Entry

(* Which events are handled by a read and a later save. *)
LEMMA BodyCases ==
  ASSUME NEW e
  PROVE  /\ Body(e) \in {"read", "tx"}
         /\ Body(e) = "read" <=>
              e = "failed" \/ (e = "paid" /\ TopUp /\ Provider \in {"epay", "creem"})
  BY DEF Body

(* A goroutine that is new or goes back to rest is one.                    *)
LEMMA IdleIsCall == Idle \in CallState /\ Unlocked \in LockState
  BY OrderAssumption DEF Idle, Unlocked, CallState, LockState, Pcs, Events

(* What the types say of one goroutine and its node.                       *)
LEMMA CallFacts ==
  ASSUME CallsInv, LocksInv, NEW c \in Calls
  PROVE  /\ call[c] \in CallState /\ call[c].pc \in Pcs /\ call[c].node \in Nodes
         /\ call[c].gen \in 0..1 /\ call[c].event \in Events
         /\ lock[call[c].node] \in LockState
  BY DEF CallsInv, LocksInv, CallState

(* A goroutine moves: its position changes and nothing else.               *)
LEMMA Moves ==
  ASSUME CallsInv, NEW c \in Calls, NEW l \in Pcs, Goto(c, l)
  PROVE  /\ CallsInv'
         /\ call'[c].pc = l /\ call'[c].node = call[c].node
         /\ call'[c].gen = call[c].gen /\ call'[c].event = call[c].event
         /\ \A d \in Calls : d # c => call'[d] = call[d]
  <1>1. call[c] \in CallState
    BY DEF CallsInv
  <1>2. [call[c] EXCEPT !.pc = l] \in CallState
    BY <1>1 DEF CallState
  <1>3. call' = [call EXCEPT ![c] = [call[c] EXCEPT !.pc = l]]
    BY DEF Goto
  <1>4. CallsInv'
    BY <1>2, <1>3 DEF CallsInv
  <1>5. call'[c] = [call[c] EXCEPT !.pc = l]
    BY <1>3 DEF CallsInv
  <1>6. \A d \in Calls : d # c => call'[d] = call[d]
    BY <1>3 DEF CallsInv
  <1> QED BY <1>1, <1>4, <1>5, <1>6 DEF CallState

(* A goroutine becomes another one.                                        *)
LEMMA Becomes ==
  ASSUME CallsInv, NEW c \in Calls, NEW r \in CallState, call' = [call EXCEPT ![c] = r]
  PROVE  /\ CallsInv' /\ call'[c] = r
         /\ \A d \in Calls : d # c => call'[d] = call[d]
  BY DEF CallsInv

(* A call to the database works or fails.                                  *)
LEMMA FaultsKept ==
  BoundInv /\ (DbOk \/ DbFault) /\ UNCHANGED crashes => BoundInv' /\ faults' >= faults
  BY OrderAssumption DEF BoundInv, DbOk, DbFault

(* A goroutine that counts is counted.                                     *)
LEMMA CountedOnce ==
  ASSUME CallsInv, LocksInv, CountInv, NEW c \in Calls, Counted(c)
  PROVE  lock[call[c].node].refs > 0
  <1> DEFINE n == call[c].node
  <1>1. n \in Nodes /\ lock[n].refs = Cardinality(Holders(n))
    BY CallFacts DEF CountInv
  <1>2. Holders(n) \in SUBSET Calls /\ c \in Holders(n) /\ IsFiniteSet(Calls)
    BY OrderAssumption DEF Holders
  <1>3. IsFiniteSet(Holders(n)) /\ Cardinality(Holders(n)) \in Nat
    BY <1>2, FS_Subset, FS_CardinalityType
  <1>4. Cardinality(Holders(n)) # 0
    BY <1>2, <1>3, FS_EmptySet
  <1> QED BY <1>1, <1>3, <1>4

-----------------------------------------------------------------------------
(* Types.                                                                  *)

(* A step of a goroutine keeps the types. *)
LEMMA StepTypes ==
  ASSUME Inv, NEW c \in Calls, Step(c)
  PROVE  Types'
  <1> USE DEF Types
  <1>0. Types /\ Path(c) /\ WorldInv /\ CountInv
    BY DEF Inv, PathInv
  <1>1. /\ call[c] \in CallState /\ call[c].node \in Nodes /\ call[c].event \in Events
        /\ call[c].gen \in 0..1 /\ lock[call[c].node] \in LockState
    BY <1>0, CallFacts
  <1>2. ASSUME NEW l \in Pcs, Goto(c, l) PROVE CallsInv'
    BY <1>0, <1>2, Moves
  <1>3. SentInv' /\ order' = order /\ remote' = remote /\ crashes' = crashes
    BY <1>0 DEF SentInv, Step, Resolve, LockOrder, Acquire, IgnoreType,
       LookupFails, Read, SaveSuccess, SaveFailed, Credit,
                Complete, CloseOrder, UnlockOrder, Unref, Rest
  <1>4. ASSUME call[c].pc # "idle", acked' = acked \/ Ack(c) PROVE AckedInv'
    BY <1>0, <1>3, <1>4 DEF AckedInv, Ack, Path, Step, Resolve, LockOrder, Acquire, IgnoreType,
       LookupFails, Read,
       SaveSuccess, SaveFailed, Credit, Complete, CloseOrder, UnlockOrder, Unref, Rest
  <1>5. ASSUME UNCHANGED row PROVE OrderInv'
    BY <1>0, <1>3, <1>5 DEF OrderInv, row
  <1>6. ASSUME DbOk \/ DbFault PROVE BoundInv'
    BY <1>0, <1>3, <1>6, FaultsKept
  <1>7. ASSUME UNCHANGED lock PROVE LocksInv'
    BY <1>0, <1>7 DEF LocksInv
  <1>8. Due \in Nat /\ QuotaPerUnit \in Nat
    BY OrderAssumption DEF Due
  <1>9. ASSUME Leave(c) PROVE CallsInv'
    BY <1>2, <1>9 DEF Leave, Pcs
  <1> USE DEF Pcs
  <1>10. CASE Resolve(c)
    BY <1>2, <1>3, <1>4, <1>5, <1>6, <1>7, <1>10 DEF Resolve, NoAck
  <1>11. CASE LockOrder(c)
    <2> DEFINE n == call[c].node
               new == IF lock[n].refs = 0 THEN 1 - lock[n].gen ELSE lock[n].gen
    <2>1. new \in 0..1 /\ lock[n].refs + 1 \in Nat
      BY <1>1 DEF LockState
    <2>2. [lock[n] EXCEPT !.refs = @ + 1, !.gen = new] \in LockState
      BY <1>1, <2>1 DEF LockState
    <2>3. LocksInv'
      BY <1>0, <1>1, <1>11, <2>2 DEF LockOrder, LocksInv
    <2>4. [call[c] EXCEPT !.pc = "wait", !.gen = new] \in CallState
      BY <1>1, <2>1 DEF CallState
    <2>5. CallsInv'
      BY <1>0, <1>11, <2>4 DEF LockOrder, CallsInv
    <2> QED BY <1>3, <1>4, <1>5, <1>6, <1>11, <2>3, <2>5 DEF LockOrder, DbOk
  <1>12. CASE Acquire(c)
    <2> DEFINE n == call[c].node
    <2>1. [lock[n] EXCEPT !.held = @ \cup {call[c].gen}] \in LockState
      BY <1>1 DEF LockState
    <2>2. LocksInv'
      BY <1>0, <1>1, <1>12, <2>1 DEF Acquire, LocksInv
    <2>3. CallsInv'
      BY <1>2, <1>12, BodyCases DEF Acquire
    <2> QED BY <1>3, <1>4, <1>5, <1>6, <1>12, <2>2, <2>3 DEF Acquire, DbOk
  <1>13. CASE IgnoreType(c) \/ Read(c) \/ LookupFails(c)
    BY <1>2, <1>3, <1>4, <1>5, <1>6, <1>7, <1>13 DEF IgnoreType, Read, LookupFails, NoAck, DbOk
  <1>14. CASE SaveSuccess(c)
    <2>1. OrderInv'
      BY <1>0, <1>3, <1>14 DEF SaveSuccess, OrderInv
    <2> QED BY <1>2, <1>3, <1>4, <1>6, <1>7, <1>14, <2>1 DEF SaveSuccess, NoAck
  <1>15. CASE SaveFailed(c)
    <2>1. OrderInv'
      BY <1>0, <1>3, <1>15 DEF SaveFailed, OrderInv, Closed
    <2> QED BY <1>2, <1>3, <1>4, <1>6, <1>7, <1>15, <2>1 DEF SaveFailed
  <1>16. CASE Credit(c)
    <2>1. OrderInv'
      BY <1>0, <1>3, <1>8, <1>16 DEF Credit, OrderInv
    <2> QED BY <1>2, <1>3, <1>4, <1>6, <1>7, <1>16, <2>1 DEF Credit
  <1>17. CASE Complete(c)
    <2>1. ASSUME NEW v \in Nat, Fulfil(v) \/ UNCHANGED row PROVE OrderInv'
      BY <1>0, <1>3, <2>1 DEF Fulfil, OrderInv, row
    <2>2. ASSUME NEW v \in Nat, Idempotent(c, v)
          PROVE  OrderInv' /\ AckedInv' /\ BoundInv'
      BY <1>4, <1>6, <1>17, <2>1, <2>2 DEF Idempotent, NoAck, Complete
    <2>3. ASSUME NEW v \in Nat, (DbOk /\ Fulfil(v)) \/ Refuse, acked' = acked \/ Ack(c)
          PROVE  OrderInv' /\ AckedInv' /\ BoundInv'
      BY <1>4, <1>6, <1>17, <2>1, <2>3 DEF Refuse, Complete
    <2>4. OrderInv' /\ AckedInv' /\ BoundInv'
      BY <1>8, <1>17, <2>2, <2>3 DEF Complete, CompleteSubscriptionOrder, ManualCompleteTopUp,
         Recharge, RechargeCreem, RechargeWaffo, RechargeWaffoPancake, NoAck
    <2> QED BY <1>3, <1>7, <1>9, <1>17, <2>4 DEF Complete
  <1>18. CASE CloseOrder(c)
    <2>1. OrderInv' /\ BoundInv'
      BY <1>0, <1>3, <1>6, <1>18 DEF CloseOrder, UpdatePendingTopUpStatus, ExpireSubscriptionOrder,
         CloseWith, OrderInv, Closed
    <2> QED BY <1>3, <1>4, <1>7, <1>9, <1>18, <2>1 DEF CloseOrder
  <1>19. CASE UnlockOrder(c)
    <2> DEFINE n == call[c].node
    <2>1. [lock[n] EXCEPT !.held = @ \ {lock[n].gen}] \in LockState
      BY <1>1 DEF LockState
    <2>2. LocksInv'
      BY <1>0, <1>1, <1>19, <2>1 DEF UnlockOrder, LocksInv
    <2> QED BY <1>2, <1>3, <1>4, <1>5, <1>6, <1>19, <2>2 DEF UnlockOrder, DbOk
  <1>20. CASE Unref(c)
    <2> DEFINE n == call[c].node
    <2>1. lock[n].refs > 0
      BY <1>0, <1>20, CountedOnce DEF Unref, Counted
    <2>2. lock[n].refs - 1 \in Nat
      BY <1>1, <2>1 DEF LockState
    <2>3. [lock[n] EXCEPT !.refs = @ - 1] \in LockState
      BY <1>1, <2>2 DEF LockState
    <2>4. LocksInv'
      BY <1>0, <1>1, <1>20, <2>3 DEF Unref, LocksInv
    <2>5. CallsInv'
      BY <1>0, <1>20, IdleIsCall, Becomes DEF Unref
    <2> QED BY <1>3, <1>4, <1>5, <1>6, <1>20, <2>4, <2>5 DEF Unref, DbOk
  <1> QED BY <1>10, <1>11, <1>12, <1>13, <1>14, <1>15, <1>16, <1>17, <1>18, <1>19, <1>20 DEF Step

-----------------------------------------------------------------------------
(* Paths.                                                                  *)

(* What a step of a goroutine leaves alone.                                *)
LEMMA StepFrame ==
  ASSUME CallsInv, NEW c \in Calls, Step(c)
  PROVE  /\ order' = order /\ sent' = sent /\ remote' = remote /\ crashes' = crashes
         /\ \A d \in Calls : d # c => call'[d] = call[d]
         /\ call[c].pc # "idle"
  <1>1. \A d \in Calls : d # c => call'[d] = call[d]
    BY DEF CallsInv, Step, Resolve, LockOrder, Acquire, IgnoreType,
       LookupFails, Read, SaveSuccess, SaveFailed, Credit,
           Complete, CloseOrder, UnlockOrder, Unref, Goto, Leave
  <1> QED BY <1>1 DEF Step, Resolve, LockOrder, Acquire, IgnoreType,
       LookupFails, Read, SaveSuccess, SaveFailed, Credit,
                Complete, CloseOrder, UnlockOrder, Unref, Rest

(* The path of a goroutine depends on what is not changed by the others.   *)
LEMMA PathFrame ==
  ASSUME NEW d \in Calls, Path(d), order' = order, sent' = sent, call'[d] = call[d]
  PROVE  Path(d)'
  BY DEF Path, Reads, Entry, Body, TopUp, Provider

(* A step of a goroutine stays on the path of its event. *)
LEMMA StepPath ==
  ASSUME Inv, NEW c \in Calls, Step(c)
  PROVE  PathInv'
  <1>0. Types /\ PathInv /\ Path(c) /\ WorldInv
    BY DEF Inv, PathInv
  <1> USE DEF Types
  <1>1. /\ order' = order /\ sent' = sent /\ call[c].pc # "idle"
        /\ \A d \in Calls : d # c => call'[d] = call[d]
    BY <1>0, StepFrame
  <1>2. \A d \in Calls : d # c => Path(d)'
    BY <1>0, <1>1, PathFrame DEF PathInv
  <1> SUFFICES Path(c)'
    BY <1>2 DEF PathInv
  <1>3. /\ Provider' = Provider /\ TopUp' = TopUp
        /\ \A e : Entry(e)' = Entry(e) /\ (Reads(e)' <=> Reads(e))
    BY <1>1 DEF Provider, TopUp, Entry, Body, Reads
  <1> DEFINE e == call[c].event
  <1>4. e \in sent \cup (IF TopUp THEN {"manual"} ELSE {})
    BY <1>0, <1>1 DEF Path
  <1>5. ASSUME NEW l \in Pcs, Goto(c, l),
               l \notin {"idle", "tx"} => Entry(e) # "tx",
               l = "read" => Reads(e),
               l = "save" => TopUp /\ Provider \in {"epay", "stripe"},
               l = "save" /\ e = "paid" => Provider = "epay",
               l = "credit" => TopUp /\ Provider = "epay"
        PROVE  Path(c)'
    <2>1. call'[c].pc = l /\ call'[c].event = e
      BY <1>0, <1>5, Moves
    <2> QED BY <1>1, <1>3, <1>4, <1>5, <2>1 DEF Path
  <1>6. ASSUME call[c].pc \notin {"idle", "tx"} PROVE Entry(e) # "tx"
    BY <1>0, <1>6 DEF Path
  <1> USE DEF Pcs
  <1>7. CASE Resolve(c)
    BY <1>5, <1>6, <1>7 DEF Resolve
  <1>8. CASE LockOrder(c)
    <2>1. call'[c].pc = "wait" /\ call'[c].event = e
      BY <1>0, <1>8 DEF LockOrder, CallsInv, CallState
    <2> QED BY <1>1, <1>3, <1>4, <1>6, <1>8, <2>1 DEF Path, LockOrder
  <1>9. CASE Acquire(c)
    <2>1. Goto(c, Body(e)) /\ Entry(e) # "tx" /\ Body(e) \in {"read", "tx"}
      BY <1>6, <1>9, BodyCases DEF Acquire
    <2> QED BY <1>5, <2>1 DEF Reads
  <1>10. CASE IgnoreType(c) \/ Read(c)
    <2>1. Reads(e) /\ Entry(e) # "tx"
      BY <1>0, <1>6, <1>10 DEF Path, IgnoreType, Read
    <2>2. CASE Goto(c, "unlock")
      BY <1>5, <2>1, <2>2
    <2>3. CASE TopUp /\ Goto(c, IF Provider = "creem" THEN "tx" ELSE "save")
      <3>1. e = "failed" => Provider \in {"stripe", "waffo"}
        BY <1>0, <1>4 DEF WorldInv
      <3>2. Provider # "creem" => Provider \in {"epay", "stripe"} /\ (e = "paid" => Provider = "epay")
        BY <2>1, <3>1, EntryCases, BodyCases DEF Reads
      <3> QED BY <1>5, <2>1, <2>3, <3>2
    <2> QED BY <1>10, <2>2, <2>3 DEF IgnoreType, Read
  <1>17. CASE LookupFails(c)
    <2>1. Reads(e) /\ Entry(e) # "tx"
      BY <1>17, EntryCases DEF LookupFails, Reads
    <2> QED BY <1>5, <1>17, <2>1 DEF LookupFails
  <1>11. CASE SaveSuccess(c)
    <2>1. TopUp /\ Provider = "epay" /\ Entry(e) # "tx"
      BY <1>0, <1>6, <1>11 DEF Path, SaveSuccess
    <2> QED BY <1>5, <1>11, <2>1 DEF SaveSuccess
  <1>12. CASE SaveFailed(c)
    BY <1>5, <1>6, <1>12 DEF SaveFailed
  <1>13. CASE Credit(c)
    BY <1>5, <1>6, <1>13 DEF Credit
  <1>14. CASE Complete(c) \/ CloseOrder(c)
    <2>1. Leave(c)
      BY <1>14 DEF Complete, CloseOrder
    <2>2. CASE Goto(c, "idle")
      BY <1>5, <2>2
    <2>3. CASE Goto(c, "unlock") /\ Entry(e) # "tx"
      BY <1>5, <2>3
    <2> QED BY <2>1, <2>2, <2>3, EntryCases DEF Leave
  <1>15. CASE UnlockOrder(c)
    BY <1>5, <1>6, <1>15 DEF UnlockOrder
  <1>16. CASE Unref(c)
    <2>1. call'[c] = Idle
      BY <1>0, <1>16, IdleIsCall, Becomes DEF Unref
    <2> QED BY <2>1 DEF Path, Idle
  <1> QED BY <1>7, <1>8, <1>9, <1>10, <1>11, <1>12, <1>13, <1>14, <1>15, <1>16, <1>17 DEF Step

-----------------------------------------------------------------------------
(* The mutex of an order.                                                  *)

(* Whether a goroutine is inside, or counts, is for itself to say.         *)
LEMMA InsideFrame ==
  ASSUME NEW d \in Calls, order' = order, call'[d] = call[d]
  PROVE  (Inside(d)' <=> Inside(d)) /\ (Counted(d)' <=> Counted(d))
  BY DEF Inside, Counted, Entry, Provider

(* What decides it, at every position.                                     *)
LEMMA InsideCases ==
  ASSUME NEW d \in Calls, Path(d), call[d].pc \in Pcs
  PROVE  /\ Inside(d) <=> \/ call[d].pc \in {"read", "save", "credit", "unlock"}
                          \/ call[d].pc = "tx" /\ Entry(call[d].event) # "tx"
         /\ Counted(d) <=> /\ call[d].pc \in Pcs \ {"idle", "resolve", "lock"}
                           /\ call[d].pc = "tx" => Entry(call[d].event) # "tx"
  BY DEF Inside, Counted, Pcs

(* The goroutines that count are finitely many.                            *)
LEMMA HoldersFinite ==
  ASSUME NEW n
  PROVE  /\ IsFiniteSet(Holders(n)) /\ Cardinality(Holders(n)) \in Nat
         /\ Cardinality(Holders(n)) = 0 => Holders(n) = {}
  <1>1. Holders(n) \in SUBSET Calls /\ IsFiniteSet(Calls)
    BY OrderAssumption DEF Holders
  <1>2. IsFiniteSet(Holders(n))
    BY <1>1, FS_Subset
  <1> QED BY <1>2, FS_CardinalityType, FS_EmptySet

(* The count is right after a step that neither counts nor uncounts.       *)
LEMMA CountKept ==
  ASSUME CallsInv, CountInv, order' = order, NEW c \in Calls,
         Counted(c)' <=> Counted(c), Counted(c) => call'[c].node = call[c].node,
         \A d \in Calls : d # c => call'[d] = call[d],
         \A n \in Nodes : lock'[n].refs = lock[n].refs
  PROVE  CountInv'
  <1> SUFFICES ASSUME NEW n \in Nodes PROVE lock'[n].refs = Cardinality(Holders(n)')
    BY DEF CountInv
  <1>1. \A d \in Calls : /\ Counted(d)' <=> Counted(d)
                         /\ Counted(d) => call'[d].node = call[d].node
    BY InsideFrame
  <1>2. Holders(n)' = Holders(n)
    BY <1>1 DEF Holders
  <1> QED BY <1>2 DEF CountInv

(* LockOrder counts the goroutine and gives it the mutex in the map. *)
LEMMA LockOrderMutex ==
  ASSUME Inv, NEW c \in Calls, LockOrder(c)
  PROVE  CountInv' /\ MutexInv'
  <1> DEFINE n == call[c].node
             new == IF lock[n].refs = 0 THEN 1 - lock[n].gen ELSE lock[n].gen
  <1>0. Types /\ PathInv /\ Path(c) /\ CountInv /\ MutexInv
    BY DEF Inv, PathInv
  <1> USE DEF Types
  <1>1. /\ call[c] \in CallState /\ call[c].pc = "lock" /\ n \in Nodes
        /\ lock[n] \in LockState /\ order' = order
    BY <1>0, CallFacts DEF LockOrder, Rest
  <1>2. \A d \in Calls : d # c => call'[d] = call[d]
    BY <1>0 DEF LockOrder, CallsInv
  <1>3. call'[c].pc = "wait" /\ call'[c].node = n /\ call'[c].gen = new
    BY <1>0, <1>1 DEF LockOrder, CallsInv, CallState
  <1>4. /\ lock'[n].refs = lock[n].refs + 1 /\ lock'[n].gen = new /\ lock'[n].held = lock[n].held
        /\ \A m \in Nodes : m # n => lock'[m] = lock[m]
    BY <1>0, <1>1 DEF LockOrder, LocksInv, LockState
  <1>5. ~Counted(c) /\ ~Inside(c) /\ Counted(c)' /\ ~Inside(c)'
    BY <1>1, <1>3 DEF Counted, Inside
  <1>6. \A d \in Calls : d # c => (Inside(d)' <=> Inside(d)) /\ (Counted(d)' <=> Counted(d))
    BY <1>1, <1>2, InsideFrame
  <1>7. CountInv'
    <2> SUFFICES ASSUME NEW m \in Nodes PROVE lock'[m].refs = Cardinality(Holders(m)')
      BY DEF CountInv
    <2>1. CASE m = n
      <3>1. Holders(m)' = Holders(m) \cup {c} /\ c \notin Holders(m)
        BY <1>2, <1>3, <1>5, <1>6, <2>1 DEF Holders
      <3> QED BY <1>0, <1>4, <2>1, <3>1, HoldersFinite, FS_AddElement, ZenonT(30) DEF CountInv
    <2>2. CASE m # n
      <3>1. Holders(m)' = Holders(m)
        BY <1>2, <1>3, <1>5, <1>6, <2>2 DEF Holders
      <3> QED BY <1>0, <1>4, <2>2, <3>1 DEF CountInv
    <2> QED BY <2>1, <2>2
  (* The mutex is replaced only when nobody knows it. *)
  <1>8. ASSUME NEW d \in Calls, d # c, Counted(d), call[d].node = n PROVE new = lock[n].gen
    <2>1. d \in Holders(n)
      BY <1>8 DEF Holders
    <2>2. Cardinality(Holders(n)) # 0
      BY <2>1, HoldersFinite
    <2> QED BY <1>0, <1>1, <2>2 DEF CountInv
  <1>9. \A d \in Calls : call[d].node \in Nodes /\ (Inside(d) => Counted(d))
    BY <1>0, CallFacts DEF Counted
  <1>10. ASSUME NEW d \in Calls, d # c PROVE Knows(d)' /\ Locks(d)'
    <2>1. /\ Counted(d) => lock'[call[d].node].gen = lock[call[d].node].gen
          /\ lock'[call[d].node].held = lock[call[d].node].held
      BY <1>4, <1>8, <1>9, <1>10
    <2>2. Knows(d) /\ Locks(d)
      BY <1>0 DEF MutexInv
    <2> QED BY <1>2, <1>6, <1>9, <1>10, <2>1, <2>2 DEF Knows, Locks
  <1>11. Knows(c)' /\ Locks(c)'
    BY <1>3, <1>4, <1>5 DEF Knows, Locks
  <1>12. OrderLocked'
    BY <1>0, <1>2, <1>5, <1>6 DEF OrderLocked, MutexInv
  <1> QED BY <1>7, <1>10, <1>11, <1>12 DEF MutexInv

(* Acquire locks the mutex if it is free. *)
LEMMA AcquireMutex ==
  ASSUME Inv, NEW c \in Calls, Acquire(c)
  PROVE  CountInv' /\ MutexInv'
  <1> DEFINE n == call[c].node
  <1>0. Types /\ PathInv /\ Path(c) /\ CountInv /\ MutexInv
    BY DEF Inv, PathInv
  <1> USE DEF Types
  <1>1. /\ call[c] \in CallState /\ call[c].pc = "wait" /\ n \in Nodes
        /\ lock[n] \in LockState /\ order' = order /\ call[c].gen \notin lock[n].held
    BY <1>0, CallFacts DEF Acquire, Rest
  <1>2. /\ call'[c].pc \in {"read", "tx"} /\ call'[c].node = n
        /\ call'[c].gen = call[c].gen /\ call'[c].event = call[c].event
        /\ \A d \in Calls : d # c => call'[d] = call[d]
    BY <1>0, BodyCases, Moves DEF Acquire, Pcs
  <1>3. /\ lock'[n].refs = lock[n].refs /\ lock'[n].gen = lock[n].gen
        /\ lock'[n].held = lock[n].held \cup {call[c].gen}
        /\ \A m \in Nodes : m # n => lock'[m] = lock[m]
    BY <1>0, <1>1 DEF Acquire, LocksInv, LockState
  <1>4. Entry(call[c].event) # "tx" /\ Entry(call[c].event)' # "tx"
    BY <1>0, <1>1, <1>2 DEF Path, Entry, Provider
  <1>5. Counted(c) /\ ~Inside(c) /\ Counted(c)' /\ Inside(c)'
    BY <1>1, <1>2, <1>4 DEF Counted, Inside
  <1>6. \A d \in Calls : d # c => (Inside(d)' <=> Inside(d)) /\ (Counted(d)' <=> Counted(d))
    BY <1>1, <1>2, InsideFrame
  <1>7. CountInv'
    BY <1>0, <1>1, <1>2, <1>3, <1>5, CountKept
  <1>8. \A d \in Calls : call[d].node \in Nodes /\ Knows(d) /\ Locks(d) /\ (Inside(d) => Counted(d))
    BY <1>0, CallFacts DEF MutexInv, Counted
  <1>9. ASSUME NEW d \in Calls PROVE Knows(d)' /\ Locks(d)'
    BY <1>2, <1>3, <1>5, <1>6, <1>8, <1>9 DEF Knows, Locks
  (* Whoever is inside has locked the mutex that c was waiting for. *)
  <1>10. ASSUME NEW d \in Calls, d # c, Inside(d) PROVE call[d].node # n
    BY <1>1, <1>5, <1>8, <1>10 DEF Knows, Locks
  <1>11. OrderLocked'
    BY <1>0, <1>2, <1>6, <1>10 DEF OrderLocked, MutexInv
  <1> QED BY <1>7, <1>9, <1>11 DEF MutexInv

(* UnlockOrder frees the mutex; the goroutine is still counted. *)
LEMMA UnlockOrderMutex ==
  ASSUME Inv, NEW c \in Calls, UnlockOrder(c)
  PROVE  CountInv' /\ MutexInv'
  <1> DEFINE n == call[c].node
  <1>0. Types /\ PathInv /\ Path(c) /\ CountInv /\ MutexInv
    BY DEF Inv, PathInv
  <1> USE DEF Types
  <1>1. /\ call[c] \in CallState /\ call[c].pc = "unlock" /\ n \in Nodes
        /\ lock[n] \in LockState /\ order' = order
    BY <1>0, CallFacts DEF UnlockOrder, Rest
  <1>2. /\ call'[c].pc = "unref" /\ call'[c].node = n /\ call'[c].gen = call[c].gen
        /\ \A d \in Calls : d # c => call'[d] = call[d]
    BY <1>0, Moves DEF UnlockOrder, Pcs
  <1>3. /\ lock'[n].refs = lock[n].refs /\ lock'[n].gen = lock[n].gen
        /\ \A m \in Nodes : m # n => lock'[m] = lock[m]
    BY <1>0, <1>1 DEF UnlockOrder, LocksInv, LockState
  <1>4. Counted(c) /\ Inside(c) /\ Counted(c)' /\ ~Inside(c)'
    BY <1>1, <1>2 DEF Counted, Inside
  <1>5. \A d \in Calls : d # c => (Inside(d)' <=> Inside(d)) /\ (Counted(d)' <=> Counted(d))
    BY <1>1, <1>2, InsideFrame
  <1>6. CountInv'
    BY <1>0, <1>1, <1>2, <1>3, <1>4, CountKept
  <1>7. \A d \in Calls : call[d].node \in Nodes /\ Knows(d) /\ Locks(d)
    BY <1>0, CallFacts DEF MutexInv
  <1>8. ASSUME NEW d \in Calls, d # c, Inside(d) PROVE call[d].node # n
    BY <1>0, <1>4, <1>8 DEF OrderLocked, MutexInv
  <1>9. ASSUME NEW d \in Calls PROVE Knows(d)' /\ Locks(d)'
    BY <1>2, <1>3, <1>4, <1>5, <1>7, <1>8, <1>9 DEF Knows, Locks
  <1>10. OrderLocked'
    BY <1>0, <1>2, <1>4, <1>5 DEF OrderLocked, MutexInv
  <1> QED BY <1>6, <1>9, <1>10 DEF MutexInv

(* The count reaches 0, and the map forgets the mutex, when nobody knows it. *)
LEMMA UnrefMutex ==
  ASSUME Inv, NEW c \in Calls, Unref(c)
  PROVE  CountInv' /\ MutexInv'
  <1> DEFINE n == call[c].node
  <1>0. Types /\ PathInv /\ Path(c) /\ CountInv /\ MutexInv
    BY DEF Inv, PathInv
  <1> USE DEF Types
  <1>1. /\ call[c] \in CallState /\ call[c].pc = "unref" /\ n \in Nodes
        /\ lock[n] \in LockState /\ order' = order
    BY <1>0, CallFacts DEF Unref, Rest
  <1>2. call'[c] = Idle /\ \A d \in Calls : d # c => call'[d] = call[d]
    BY <1>0, IdleIsCall, Becomes DEF Unref
  <1>3. /\ lock'[n].refs = lock[n].refs - 1 /\ lock'[n].gen = lock[n].gen
        /\ lock'[n].held = lock[n].held
        /\ \A m \in Nodes : m # n => lock'[m] = lock[m]
    BY <1>0, <1>1 DEF Unref, LocksInv, LockState
  <1>4. Counted(c) /\ ~Inside(c) /\ ~Counted(c)' /\ ~Inside(c)'
    BY <1>1, <1>2 DEF Counted, Inside, Idle
  <1>5. \A d \in Calls : d # c => (Inside(d)' <=> Inside(d)) /\ (Counted(d)' <=> Counted(d))
    BY <1>1, <1>2, InsideFrame
  <1>6. CountInv'
    <2> SUFFICES ASSUME NEW m \in Nodes PROVE lock'[m].refs = Cardinality(Holders(m)')
      BY DEF CountInv
    <2>1. CASE m = n
      <3>1. Holders(m)' = Holders(m) \ {c} /\ c \in Holders(m)
        BY <1>2, <1>4, <1>5, <2>1 DEF Holders
      <3> QED BY <1>0, <1>3, <2>1, <3>1, HoldersFinite, FS_RemoveElement DEF CountInv
    <2>2. CASE m # n
      <3>1. Holders(m)' = Holders(m)
        BY <1>2, <1>4, <1>5, <2>2 DEF Holders
      <3> QED BY <1>0, <1>3, <2>2, <3>1 DEF CountInv
    <2> QED BY <2>1, <2>2
  <1>7. \A d \in Calls : call[d].node \in Nodes /\ Knows(d) /\ Locks(d)
    BY <1>0, CallFacts DEF MutexInv
  <1>8. ASSUME NEW d \in Calls PROVE Knows(d)' /\ Locks(d)'
    BY <1>2, <1>3, <1>4, <1>5, <1>7, <1>8 DEF Knows, Locks
  <1>9. OrderLocked'
    BY <1>0, <1>2, <1>4, <1>5 DEF OrderLocked, MutexInv
  <1> QED BY <1>6, <1>8, <1>9 DEF MutexInv

(* The other steps leave the mutex and who is inside alone.                *)
LEMMA QuietMutex ==
  ASSUME Inv, NEW c \in Calls, lock' = lock, order' = order, NEW l \in Pcs, Goto(c, l),
         Counted(c)' <=> Counted(c), Inside(c)' <=> Inside(c)
  PROVE  CountInv' /\ MutexInv'
  <1>0. Types /\ CountInv /\ MutexInv
    BY DEF Inv
  <1> USE DEF Types
  <1>1. /\ call'[c].node = call[c].node /\ call'[c].gen = call[c].gen
        /\ \A d \in Calls : d # c => call'[d] = call[d]
    BY <1>0, Moves
  <1>2. CountInv'
    BY <1>0, <1>1, CountKept
  <1>3. \A d \in Calls : d # c => (Inside(d)' <=> Inside(d)) /\ (Counted(d)' <=> Counted(d))
    BY <1>1, InsideFrame
  <1>4. \A d \in Calls : Knows(d)' /\ Locks(d)'
    BY <1>0, <1>1, <1>3 DEF MutexInv, Knows, Locks
  <1>5. OrderLocked'
    BY <1>0, <1>1, <1>3 DEF OrderLocked, MutexInv
  <1> QED BY <1>2, <1>4, <1>5 DEF MutexInv

(* Every step of a goroutine keeps the count and the mutex. *)
LEMMA StepMutex ==
  ASSUME Inv, NEW c \in Calls, Step(c)
  PROVE  CountInv' /\ MutexInv'
  <1>0. Types /\ PathInv' /\ Path(c) /\ order' = order /\ call[c].pc \in Pcs
    BY StepPath, StepFrame, CallFacts DEF Inv, PathInv, Types
  <1> USE DEF Types
  <1>1. \A e : Entry(e)' = Entry(e)
    BY <1>0 DEF Entry, Provider
  <1>2. ASSUME NEW l \in Pcs, Goto(c, l)
        PROVE  /\ Inside(c)' <=> \/ l \in {"read", "save", "credit", "unlock"}
                                 \/ l = "tx" /\ Entry(call[c].event) # "tx"
               /\ Counted(c)' <=> l \in {"wait", "unref"} \/ Inside(c)'
    <2>1. call'[c].pc = l /\ call'[c].event = call[c].event
      BY <1>0, <1>2, Moves
    <2> QED BY <1>1, <2>1 DEF Inside, Counted
  <1>3. /\ Inside(c) <=> \/ call[c].pc \in {"read", "save", "credit", "unlock"}
                         \/ call[c].pc = "tx" /\ Entry(call[c].event) # "tx"
        /\ Counted(c) <=> call[c].pc \in {"wait", "unref"} \/ Inside(c)
    BY DEF Inside, Counted
  <1>4. CASE LockOrder(c) \/ Acquire(c) \/ UnlockOrder(c) \/ Unref(c)
    BY <1>4, LockOrderMutex, AcquireMutex, UnlockOrderMutex, UnrefMutex
  <1>5. CASE Resolve(c)
    <2>1. lock' = lock /\ call[c].pc = "resolve" /\ (Goto(c, "lock") \/ Goto(c, "idle"))
      BY <1>5 DEF Resolve
    <2> QED BY <1>0, <1>2, <1>3, <2>1, QuietMutex DEF Pcs
  <1>6. CASE IgnoreType(c) \/ Read(c) \/ LookupFails(c)
    <2>1. Entry(call[c].event) # "tx"
      BY <1>0, <1>6, EntryCases DEF Path, IgnoreType, Read, LookupFails
    <2>2. /\ lock' = lock /\ call[c].pc \in {"read", "tx"}
          /\ Goto(c, "tx") \/ Goto(c, "save") \/ Goto(c, "unlock") \/ Goto(c, "read")
      BY <1>6 DEF IgnoreType, Read, LookupFails
    <2> QED BY <1>0, <1>2, <1>3, <2>1, <2>2, QuietMutex DEF Pcs
  <1>7. CASE SaveSuccess(c) \/ SaveFailed(c) \/ Credit(c)
    <2>1. /\ lock' = lock /\ call[c].pc \in {"save", "credit"}
          /\ Goto(c, "credit") \/ Goto(c, "unlock")
      BY <1>7 DEF SaveSuccess, SaveFailed, Credit
    <2> QED BY <1>0, <1>2, <1>3, <2>1, QuietMutex DEF Pcs
  <1>8. CASE Complete(c) \/ CloseOrder(c)
    <2>1. lock' = lock /\ call[c].pc = "tx" /\ Leave(c)
      BY <1>8 DEF Complete, CloseOrder
    <2>2. \/ Entry(call[c].event) = "tx" /\ Goto(c, "idle")
          \/ Entry(call[c].event) # "tx" /\ Goto(c, "unlock")
      BY <2>1, EntryCases DEF Leave
    <2> QED BY <1>0, <1>2, <1>3, <2>1, <2>2, QuietMutex DEF Pcs
  <1> QED BY <1>4, <1>5, <1>6, <1>7, <1>8 DEF Step

(* A goroutine stays on its node. *)
LEMMA StepHome ==
  ASSUME Inv, NEW c \in Calls, Step(c)
  PROVE  HomeInv'
  <1>0. Types /\ HomeInv
    BY DEF Inv
  <1> USE DEF Types
  <1>1. order' = order /\ \A d \in Calls : d # c => call'[d] = call[d]
    BY <1>0, StepFrame
  <1>2. call'[c].node \in {call[c].node, Home}
    BY <1>0 DEF CallsInv, CallState, Step, Resolve, LockOrder, Acquire, IgnoreType,
       LookupFails, Read, SaveSuccess,
       SaveFailed, Credit, Complete, CloseOrder, UnlockOrder, Unref, Goto, Leave, Idle
  <1> QED BY <1>0, <1>1, <1>2 DEF HomeInv, Provider

-----------------------------------------------------------------------------
(* The credit of an order.                                                 *)

(* A goroutine between the read and the save of an order, or between the   *)
(* save and the credit, is the only one inside.                            *)
LEMMA Alone ==
  ASSUME Inv, HandledByOneNode, NEW c \in Calls, NEW d \in Calls, c # d,
         Inside(c), call[d].pc \in {"save", "credit"}
  PROVE  FALSE
  <1>1. TopUp /\ Provider \in {"epay", "stripe"}
    BY DEF Inv, PathInv, Path
  <1>2. call[c].node = Home /\ call[d].node = Home
    BY <1>1 DEF Inv, HomeInv, HandledByOneNode
  <1>3. Inside(d)
    BY DEF Inside
  <1> QED BY <1>2, <1>3 DEF Inv, MutexInv, OrderLocked

(* The ledger is kept while the row is not changed and nobody reaches or   *)
(* leaves the credit.                                                      *)
LEMMA LedgerKept ==
  ASSUME Inv, BoundInv', HandledByOneNode, order' = order, status' = status, times' = times,
         remote' = remote, faults' >= faults, crashes' >= crashes,
         \A d \in Calls : call[d].pc = "credit" => \/ call'[d].pc = "credit"
                                                   \/ faults' > 0 \/ crashes' > 0,
         \A d \in Calls : call'[d].pc = "credit" => call[d].pc = "credit",
         \A d \in Calls : call'[d].pc = "save" => status = "pending"
  PROVE  LedgerInv'
  <1>1. /\ times # 0 => times = 1 /\ (status = "success" \/ Overwritten)
        /\ \A d \in Calls : Due0(d)
        /\ status = "success" /\ times = 0 => Uncredited
    BY DEF Inv, LedgerInv
  <1>2. \A d \in Calls : Due0(d)'
    BY <1>1 DEF Due0
  <1>3. status' = "success" /\ times' = 0 => Uncredited'
    <2> SUFFICES ASSUME Uncredited PROVE Uncredited'
      BY <1>1
    <2>1. faults \in Nat /\ crashes \in Nat /\ (faults > 0 => faults' > 0) /\ (crashes > 0 => crashes' > 0)
      BY OrderAssumption DEF Inv, Types, BoundInv
    <2> QED BY <2>1 DEF Uncredited, Provider, TopUp
  <1>4. Overwritten' <=> Overwritten
    BY DEF Overwritten, Provider, TopUp
  <1> QED BY <1>1, <1>2, <1>3, <1>4 DEF LedgerInv

(* Every step of a goroutine keeps the order credited at most once. *)
LEMMA StepLedger ==
  ASSUME Inv, NEW c \in Calls, Step(c)
  PROVE  LedgerInv'
  <1>0. Types /\ Types' /\ PathInv /\ Path(c) /\ HomeInv /\ LedgerInv
    BY StepTypes DEF Inv, PathInv
  <1>1. /\ order' = order /\ remote' = remote /\ crashes' = crashes
        /\ \A d \in Calls : d # c => call'[d] = call[d]
    BY <1>0, StepFrame DEF Types
  <1> SUFFICES ASSUME HandledByOneNode PROVE LedgerInv'
    BY <1>1 DEF LedgerInv, HandledByOneNode, TopUp, Provider
  <1>2. /\ times # 0 => times = 1 /\ (status = "success" \/ Overwritten)
        /\ \A d \in Calls : Due0(d)
        /\ status = "success" /\ times = 0 => Uncredited
    BY <1>0 DEF LedgerInv
  <1>3. /\ CallsInv /\ BoundInv /\ BoundInv' /\ crashes' >= crashes /\ faults \in Nat /\ faults' \in Nat
        /\ crashes \in Nat
    BY <1>0, <1>1, OrderAssumption DEF Types, BoundInv
  <1>4. ASSUME DbOk \/ DbFault PROVE faults' >= faults
    BY <1>3, <1>4 DEF DbOk, DbFault
  <1>5. Provider' = Provider /\ TopUp' = TopUp
    BY <1>1 DEF Provider, TopUp
  (* A step that does not touch the row. *)
  <1>6. ASSUME DbOk \/ DbFault, status' = status, times' = times, call[c].pc # "credit",
               call'[c].pc # "credit", call'[c].pc = "save" => status = "pending"
        PROVE  LedgerInv'
    <2>1. \A d \in Calls : call'[d].pc = "save" => status = "pending"
      BY <1>1, <1>2, <1>6 DEF Due0
    <2> QED BY <1>1, <1>3, <1>4, <1>6, <2>1, LedgerKept
  (* A step that writes the row from inside. *)
  <1>7. ASSUME Inside(c), call'[c].pc \notin {"save", "credit"}, times' # 0 => times' = 1 /\ status' = "success",
               status' = "success" => times' # 0
        PROVE  LedgerInv'
    <2>1. \A d \in Calls : call'[d].pc \notin {"save", "credit"}
      BY <1>1, <1>7, Alone
    <2> QED BY <1>7, <2>1 DEF LedgerInv, Due0
  <1>8. ASSUME NEW l \in Pcs, Goto(c, l) PROVE call'[c].pc = l
    BY <1>3, <1>8, Moves
  <1> USE DEF Pcs
  <1>9. CASE Resolve(c)
    BY <1>6, <1>8, <1>9 DEF Resolve, row
  <1>10. CASE LockOrder(c)
    <2>1. call'[c].pc = "wait"
      BY <1>3, <1>10 DEF LockOrder, CallsInv, CallState
    <2> QED BY <1>6, <1>10, <2>1 DEF LockOrder, row, DbOk
  <1>11. CASE Acquire(c)
    <2>1. call'[c].pc \in {"read", "tx"}
      BY <1>8, <1>11, BodyCases DEF Acquire
    <2> QED BY <1>6, <1>11, <2>1 DEF Acquire, row, DbOk
  <1>12. CASE IgnoreType(c) \/ Read(c) \/ LookupFails(c)
    BY <1>6, <1>8, <1>12 DEF IgnoreType, Read, LookupFails, row, DbOk
  <1>13. CASE SaveSuccess(c)
    <2>1. Inside(c) /\ status = "pending" /\ times = 0
      BY <1>2, <1>13 DEF SaveSuccess, Due0, Inside, Overwritten
    <2>2. TopUp /\ Provider = "epay"
      BY <1>0, <1>13 DEF SaveSuccess, Path
    <2>3. CASE DbOk /\ status' = "success" /\ Goto(c, "credit")
      <3>1. call'[c].pc = "credit" /\ times' = 0
        BY <1>8, <1>13, <2>1, <2>3 DEF SaveSuccess
      <3>2. \A d \in Calls : d # c => call'[d].pc \notin {"save", "credit"}
        BY <1>1, <2>1, Alone
      <3>3. \A d \in Calls : Due0(d)'
        BY <2>3, <3>1, <3>2 DEF Due0
      <3>4. Uncredited'
        BY <1>5, <2>2, <3>1 DEF Uncredited
      <3> QED BY <3>1, <3>3, <3>4 DEF LedgerInv
    <2>4. CASE DbFault /\ UNCHANGED status /\ Goto(c, "unlock")
      BY <1>6, <1>8, <1>13, <2>4 DEF SaveSuccess
    <2> QED BY <1>13, <2>3, <2>4 DEF SaveSuccess
  <1>14. CASE SaveFailed(c)
    <2>1. Inside(c) /\ status = "pending" /\ times = 0 /\ call'[c].pc = "unlock" /\ times' = 0
      BY <1>2, <1>8, <1>14 DEF SaveFailed, Due0, Inside, Overwritten
    <2> QED BY <1>7, <1>14, <2>1 DEF SaveFailed
  <1>15. CASE Credit(c)
    <2>1. Inside(c) /\ status = "success" /\ times = 0 /\ call'[c].pc = "unlock" /\ status' = status
      BY <1>2, <1>8, <1>15 DEF Credit, Due0, Inside
    <2>2. CASE DbOk /\ times' = times + 1
      BY <1>7, <2>1, <2>2
    <2>3. CASE DbFault /\ times' = times
      <3>1. faults' > 0
        BY <1>3, <2>3 DEF DbFault
      <3>2. \A d \in Calls : d # c => call[d].pc \notin {"save", "credit"}
        BY <2>1, Alone
      <3> QED BY <1>1, <1>3, <1>4, <2>1, <2>3, <3>1, <3>2, LedgerKept
    <2> QED BY <1>15, <2>2, <2>3 DEF Credit
  <1>16. CASE Complete(c) \/ CloseOrder(c)
    <2>1. call[c].pc = "tx" /\ call'[c].pc \in {"idle", "unlock"}
      BY <1>8, <1>16 DEF Complete, CloseOrder, Leave
    <2>2. \/ (DbOk \/ DbFault) /\ status' = status /\ times' = times
          \/ status = "pending" /\ status' = "success" /\ times' = times + 1
          \/ status = "pending" /\ status' \in Closed /\ times' = times
      BY <1>16 DEF Complete, CloseOrder, CompleteSubscriptionOrder, ManualCompleteTopUp, Recharge,
         RechargeCreem, RechargeWaffo, RechargeWaffoPancake, Idempotent, Fulfil, Refuse, row,
         UpdatePendingTopUpStatus, ExpireSubscriptionOrder, CloseWith, Closed
    <2>3. CASE (DbOk \/ DbFault) /\ status' = status /\ times' = times
      BY <1>6, <2>1, <2>3
    <2>4. ASSUME status = "pending",
                 (status' = "success" /\ times' = 1) \/ (status' \in Closed /\ times' = 0)
          PROVE  LedgerInv'
      <3>1. ASSUME NEW d \in Calls PROVE call'[d].pc \notin {"save", "credit"}
        <4> SUFFICES ASSUME d # c, call[d].pc \in {"save", "credit"} PROVE FALSE
          BY <1>1, <2>1
        <4>1. Provider # "waffo"
          BY <1>0 DEF PathInv, Path
        <4>2. Inside(c)
          BY <2>1, <4>1, EntryCases DEF Inside
        <4> QED BY <4>2, Alone
      <3> QED BY <2>4, <3>1 DEF LedgerInv, Due0, Closed
    <2>5. status = "pending" => times = 0
      BY <1>2 DEF Overwritten
    <2> QED BY <2>2, <2>3, <2>4, <2>5
  <1>17. CASE UnlockOrder(c)
    BY <1>6, <1>8, <1>17 DEF UnlockOrder, row, DbOk
  <1>18. CASE Unref(c)
    <2>1. call'[c] = Idle
      BY <1>3, <1>18, IdleIsCall, Becomes DEF Unref
    <2> QED BY <1>6, <1>18, <2>1 DEF Unref, row, DbOk, Idle
  <1> QED BY <1>9, <1>10, <1>11, <1>12, <1>13, <1>14, <1>15, <1>16, <1>17, <1>18 DEF Step

(* A step of a goroutine comes after the checkout. *)
LEMMA StepWorld ==
  ASSUME Inv, NEW c \in Calls, Step(c)
  PROVE  WorldInv'
  <1>0. CallsInv /\ WorldInv /\ Path(c)
    BY DEF Inv, Types, PathInv
  <1>1. /\ order' = order /\ sent' = sent /\ remote' = remote /\ call[c].pc # "idle"
    BY <1>0, StepFrame
  <1>2. remote # "none" /\ status # "none" /\ (remote = "linking" => TopUp)
    BY <1>0, <1>1 DEF WorldInv, Path
  <1>3. status' # "none"
    BY <1>2 DEF Step, Resolve, LockOrder, Acquire, IgnoreType,
       LookupFails, Read, SaveSuccess,
       SaveFailed, Credit, Complete, CloseOrder, UnlockOrder, Unref, row, CompleteSubscriptionOrder,
       ManualCompleteTopUp, Recharge, RechargeCreem, RechargeWaffo, RechargeWaffoPancake, Idempotent,
       Fulfil, Refuse, UpdatePendingTopUpStatus, ExpireSubscriptionOrder, CloseWith, Closed
  <1> QED BY <1>0, <1>1, <1>2, <1>3 DEF WorldInv, Provider, TopUp

(* A step of a goroutine keeps the invariant. *)
LEMMA StepKeeps ==
  ASSUME Inv, NEW c \in Calls, Step(c)
  PROVE  Inv'
  BY StepTypes, StepPath, StepWorld, StepMutex, StepHome, StepLedger DEF Inv

-----------------------------------------------------------------------------
(* The buyer, the provider, the administrator and crashes.                 *)

(* What concerns the goroutines alone.                                     *)
LEMMA CallsFrame ==
  ASSUME Inv, UNCHANGED <<order, call, lock>>
  PROVE  CountInv' /\ MutexInv' /\ HomeInv' /\ CallsInv' /\ LocksInv'
  <1>1. CountInv /\ MutexInv /\ HomeInv /\ CallsInv /\ LocksInv
    BY DEF Inv, Types
  <1>2. \A c \in Calls : (Inside(c)' <=> Inside(c)) /\ (Counted(c)' <=> Counted(c))
    BY InsideFrame
  <1>3. \A n \in Nodes : Holders(n)' = Holders(n)
    BY <1>2 DEF Holders
  <1>4. CountInv'
    BY <1>1, <1>3 DEF CountInv
  <1>5. MutexInv'
    BY <1>1, <1>2 DEF MutexInv, Knows, Locks, OrderLocked
  <1> QED BY <1>1, <1>4, <1>5 DEF HomeInv, CallsInv, LocksInv, Provider

(* A step that changes nothing keeps it. *)
LEMMA StutterKeeps == Inv /\ UNCHANGED vars => Inv'
  <1> SUFFICES ASSUME Inv, UNCHANGED vars PROVE Inv'
    OBVIOUS
  <1>1. /\ UNCHANGED <<order, status, times, quota, remote, sent, acked>>
        /\ UNCHANGED <<call, lock, faults, crashes>>
    BY DEF vars
  <1>2. CountInv' /\ MutexInv' /\ HomeInv' /\ CallsInv' /\ LocksInv'
    BY <1>1, CallsFrame
  <1>3. Types'
    BY <1>1, <1>2 DEF Inv, Types, OrderInv, SentInv, AckedInv, BoundInv
  <1>4. PathInv'
    BY <1>1, PathFrame DEF Inv, PathInv
  <1>5. WorldInv'
    BY <1>1 DEF Inv, WorldInv, Provider, TopUp
  <1>6. LedgerInv'
    BY <1>1 DEF Inv, LedgerInv, HandledByOneNode, Due0, Uncredited, Overwritten, Provider, TopUp
  <1> QED BY <1>2, <1>3, <1>4, <1>5, <1>6 DEF Inv

(* Creating the order and its checkout keeps it. *)
LEMMA RequestKeeps ==
  ASSUME Inv, Request \/ LinkMade \/ LinkFails
  PROVE  Inv'
  <1>0. Types /\ PathInv /\ WorldInv /\ LedgerInv
    BY DEF Inv
  <1>1. /\ UNCHANGED <<order, times, quota, sent, acked, call, lock, crashes>>
        /\ faults' = faults \/ DbFault
        /\ Provider' = Provider /\ (TopUp' <=> TopUp)
    BY DEF Request, RequestEpay, RequestStripePay, SubscriptionRequestEpay, RequestCreemPay,
       RequestWaffoPay, RequestWaffoPancakePay, Insert, LinkMade, LinkFails, row, DbOk, Provider, TopUp
  <1>2. \/ /\ remote = "none" /\ status = "none" /\ status' = "pending"
           /\ \/ remote' = "open"
              \/ remote' = "linking" /\ Provider # "stripe" /\ (Provider = "epay" => ~TopUp)
        \/ remote = "linking" /\ remote' = "open" /\ status' = status
        \/ remote = "linking" /\ remote' = "gone" /\ status' = status
        \/ /\ remote = "linking" /\ remote' = "gone" /\ status' \in Closed
           /\ (status' = "failed" /\ Provider \in {"waffo", "pancake"}) \/ Provider = "epay"
    BY <1>0 DEF WorldInv, Request, RequestEpay, RequestStripePay, SubscriptionRequestEpay,
       RequestCreemPay, RequestWaffoPay, RequestWaffoPancakePay, Insert, LinkMade, LinkFails, row,
       Closed
  <1>3. CountInv' /\ MutexInv' /\ HomeInv' /\ CallsInv' /\ LocksInv'
    BY <1>1, CallsFrame
  <1>4. sent = {} /\ (remote = "none" => times = 0 /\ \A c \in Calls : call[c].pc = "idle")
    BY <1>0, <1>2 DEF WorldInv
  <1>5. Types'
    <2>1. BoundInv'
      BY <1>0, <1>1, FaultsKept DEF Types, DbOk
    <2>2. OrderInv'
      BY <1>0, <1>1, <1>2 DEF Types, OrderInv, Closed
    <2> QED BY <1>0, <1>1, <1>3, <2>1, <2>2 DEF Types, SentInv, AckedInv
  <1>6. PathInv'
    BY <1>0, <1>1, PathFrame DEF PathInv
  <1>7. WorldInv'
    BY <1>0, <1>1, <1>2, <1>4 DEF WorldInv, Closed
  (* Whoever saves or credits an order has a checkout before. *)
  <1>8. \A c \in Calls : call[c].pc \notin {"save", "credit"}
    BY <1>0, <1>2, <1>4 DEF WorldInv, PathInv, Path
  <1>9. LedgerInv'
    <2> SUFFICES ASSUME HandledByOneNode PROVE LedgerInv'
      BY <1>1 DEF LedgerInv, HandledByOneNode
    <2>1. /\ times # 0 => times = 1 /\ (status = "success" \/ Overwritten)
          /\ status = "success" /\ times = 0 => Uncredited
      BY <1>0 DEF LedgerInv
    <2>2. \A c \in Calls : Due0(c)'
      BY <1>1, <1>8 DEF Due0
    <2>3. remote # "gone" /\ ~Overwritten
      BY <1>2 DEF Overwritten
    <2>4. times' # 0 => times' = 1 /\ (status' = "success" \/ Overwritten')
      <3> SUFFICES ASSUME times # 0 PROVE times' = 1 /\ (status' = "success" \/ Overwritten')
        BY <1>1
      <3>1. status = "success" /\ times = 1 /\ remote = "linking"
        BY <1>2, <1>4, <2>1, <2>3
      <3>2. TopUp /\ Provider # "epay"
        BY <1>0, <3>1 DEF WorldInv
      <3> QED BY <1>1, <1>2, <3>1, <3>2 DEF Overwritten
    <2>5. status' = "success" /\ times' = 0 => FALSE
      <3> SUFFICES ASSUME status = "success", times = 0, remote = "linking" PROVE FALSE
        BY <1>1, <1>2 DEF Closed
      <3>1. Provider = "epay" /\ TopUp
        BY <2>1 DEF Uncredited
      <3> QED BY <1>0, <3>1 DEF WorldInv
    <2> QED BY <2>2, <2>4, <2>5 DEF LedgerInv
  <1> QED BY <1>3, <1>5, <1>6, <1>7, <1>9 DEF Inv

(* What the payment does at the provider keeps it. *)
LEMMA RemoteKeeps ==
  ASSUME Inv, RemoteReports \/ RemoteEnds
  PROVE  Inv'
  <1>0. Types /\ PathInv /\ WorldInv /\ LedgerInv
    BY DEF Inv
  <1>1. /\ UNCHANGED <<order, status, times, quota, acked, call, lock, faults, crashes>>
        /\ remote = "open" /\ remote' \in {"open", "paid"} \cup Closed
        /\ sent \subseteq sent' /\ sent' \subseteq sent \cup {"paid", "return"} \cup Closed
        /\ "failed" \in sent' => "failed" \in sent \/ Provider \in {"stripe", "waffo"}
    BY DEF RemoteReports, RemoteEnds, row, Closed
  <1>2. CountInv' /\ MutexInv' /\ HomeInv' /\ CallsInv' /\ LocksInv'
    BY <1>1, CallsFrame
  <1>3. Types'
    BY <1>0, <1>1, <1>2 DEF Types, OrderInv, SentInv, AckedInv, BoundInv
  <1>4. PathInv'
    <2> SUFFICES ASSUME NEW c \in Calls PROVE Path(c)'
      BY DEF PathInv
    <2>1. Path(c)
      BY <1>0 DEF PathInv
    <2> QED BY <1>1, <2>1 DEF Path, Reads, Entry, Body, TopUp, Provider
  <1>5. WorldInv'
    BY <1>0, <1>1 DEF WorldInv, Closed, Provider, TopUp
  <1>6. LedgerInv'
    BY <1>0, <1>1 DEF LedgerInv, HandledByOneNode, Due0, Uncredited, Overwritten, Provider, TopUp
  <1> QED BY <1>2, <1>3, <1>4, <1>5, <1>6 DEF Inv

(* A call begins: a webhook or an administrator.                           *)
LEMMA BeginKeeps ==
  ASSUME Inv, NEW c \in Calls, NEW e \in sent \cup {"manual"}, Begin(c, e),
         remote # "none", e = "manual" => TopUp, acked' \subseteq sent,
         UNCHANGED <<order, status, times, quota, remote, sent, lock, faults, crashes>>
  PROVE  Inv'
  <1>0. /\ CallsInv /\ LocksInv /\ Types /\ PathInv /\ WorldInv /\ CountInv /\ MutexInv
        /\ HomeInv /\ LedgerInv
    BY DEF Inv, Types
  <1>1. PICK n \in IF Provider \in Sticky THEN {Home} ELSE Nodes :
          call' = [call EXCEPT ![c] = [Idle EXCEPT !.pc = Entry(e), !.node = n, !.event = e]]
    BY DEF Begin
  <1> DEFINE new == [Idle EXCEPT !.pc = Entry(e), !.node = n, !.event = e]
  <1>2. call[c].pc = "idle" /\ n \in Nodes /\ (Provider \in Sticky => n = Home)
    BY <1>1, OrderAssumption DEF Begin
  <1>3. new \in CallState /\ new.pc = Entry(e) /\ new.node = n /\ new.event = e
    <2>1. Entry(e) \in Pcs
      BY EntryCases DEF Pcs
    <2>2. e \in Events
      BY <1>0 DEF Types, SentInv, Events
    <2> QED BY <1>2, <2>1, <2>2, IdleIsCall DEF CallState, Idle
  <1>4. /\ CallsInv' /\ call'[c] = new
        /\ \A d \in Calls : d # c => call'[d] = call[d]
    BY <1>0, <1>1, <1>3, Becomes
  <1>5. Provider' = Provider /\ TopUp' = TopUp /\ \A x : Entry(x)' = Entry(x)
    BY DEF Provider, TopUp, Entry
  <1>6. Types'
    BY <1>0, <1>4 DEF Types, LocksInv, OrderInv, SentInv, AckedInv, BoundInv
  <1>7. PathInv'
    <2>1. \A d \in Calls : d # c => Path(d)'
      BY <1>0, <1>4, PathFrame DEF PathInv
    <2>2. Path(c)'
      <3>1. Entry(e) \in {"resolve", "tx", "lock"}
        BY EntryCases
      <3>2. call'[c].pc = Entry(e) /\ call'[c].event = e
        BY <1>3, <1>4
      <3> QED BY <1>5, <3>1, <3>2 DEF Path, Reads
    <2> QED BY <2>1, <2>2 DEF PathInv
  <1>8. WorldInv'
    BY <1>0, <1>5 DEF WorldInv
  <1>9. ~Counted(c) /\ ~Inside(c) /\ ~Counted(c)' /\ ~Inside(c)'
    BY <1>2, <1>3, <1>4, <1>5, EntryCases DEF Counted, Inside
  <1>10. \A d \in Calls : d # c => (Inside(d)' <=> Inside(d)) /\ (Counted(d)' <=> Counted(d))
    BY <1>4, InsideFrame
  <1>11. CountInv'
    BY <1>0, <1>4, <1>9, CountKept
  <1>12. \A d \in Calls : Knows(d)' /\ Locks(d)'
    BY <1>0, <1>4, <1>9, <1>10 DEF MutexInv, Knows, Locks
  <1>13. OrderLocked'
    BY <1>0, <1>4, <1>9, <1>10 DEF MutexInv, OrderLocked
  <1>14. HomeInv'
    BY <1>0, <1>2, <1>3, <1>4, <1>5 DEF HomeInv
  <1>15. LedgerInv'
    <2> SUFFICES ASSUME HandledByOneNode PROVE LedgerInv'
      BY <1>5 DEF LedgerInv, HandledByOneNode
    <2>1. faults \in Nat /\ crashes \in Nat /\ BoundInv'
      BY <1>0, <1>6, OrderAssumption DEF Types, BoundInv
    <2>2. call'[c].pc \notin {"save", "credit"}
      BY <1>3, <1>4, EntryCases
    <2>3. \A d \in Calls : /\ call[d].pc = "credit" <=> call'[d].pc = "credit"
                           /\ call'[d].pc = "save" => status = "pending"
      BY <1>0, <1>2, <1>4, <2>2 DEF LedgerInv, Due0
    <2>4. faults' >= faults /\ crashes' >= crashes
      BY <2>1
    <2> QED BY <2>1, <2>3, <2>4, LedgerKept
  <1> QED BY <1>6, <1>7, <1>8, <1>11, <1>12, <1>13, <1>14, <1>15 DEF Inv, MutexInv

(* The arrival of an event or of an administrator keeps it. *)
LEMMA CallKeeps ==
  ASSUME Inv, NEW c \in Calls, Manual(c) \/ \E e \in sent : Receive(c, e)
  PROVE  Inv'
  <1>0. WorldInv /\ acked \subseteq sent
    BY DEF Inv, Types, AckedInv
  <1>1. CASE Manual(c)
    <2>1. remote # "none"
      BY <1>0, <1>1 DEF WorldInv, Manual
    <2> QED BY <1>0, <1>1, <2>1, BeginKeeps DEF Manual, Rest, row
  <1>2. ASSUME NEW e \in sent, Receive(c, e) PROVE Inv'
    <2>1. remote # "none" /\ e # "manual"
      BY <1>0, <1>2 DEF WorldInv, Inv, Types, SentInv, Closed
    <2> QED BY <1>0, <1>2, <2>1, BeginKeeps DEF Receive, Rest, row
  <1> QED BY <1>1, <1>2

(* A crash ends the goroutines and the mutexes of a node together. *)
LEMMA CrashKeeps ==
  ASSUME Inv, NEW n \in Nodes, Crash(n)
  PROVE  Inv'
  <1>0. /\ CallsInv /\ LocksInv /\ Types /\ PathInv /\ WorldInv /\ CountInv /\ MutexInv
        /\ HomeInv /\ LedgerInv
    BY DEF Inv, Types
  <1>1. /\ UNCHANGED <<order, status, times, quota, remote, sent, acked, faults>>
        /\ crashes < MaxCrashes /\ crashes' = crashes + 1
    BY DEF Crash, row
  <1>2. /\ \A d \in Calls : call[d].node = n => call'[d] = Idle
        /\ \A d \in Calls : call[d].node # n => call'[d] = call[d]
        /\ CallsInv'
    BY <1>0, IdleIsCall DEF Crash, CallsInv
  <1>3. /\ lock'[n] = Unlocked /\ LocksInv'
        /\ \A m \in Nodes : m # n => lock'[m] = lock[m]
    BY <1>0, IdleIsCall DEF Crash, LocksInv
  <1>4. BoundInv' /\ faults \in Nat /\ crashes \in Nat
    BY <1>0, <1>1, OrderAssumption DEF Types, BoundInv
  <1>5. Types'
    BY <1>0, <1>1, <1>2, <1>3, <1>4 DEF Types, OrderInv, SentInv, AckedInv
  <1>6. PathInv'
    <2> SUFFICES ASSUME NEW d \in Calls PROVE Path(d)'
      BY DEF PathInv
    <2>1. CASE call'[d] = call[d]
      BY <1>0, <1>1, <2>1, PathFrame DEF PathInv
    <2>2. CASE call'[d] = Idle
      BY <2>2 DEF Path, Idle
    <2> QED BY <1>2, <2>1, <2>2
  <1>7. WorldInv'
    BY <1>0, <1>1, <1>2 DEF WorldInv, Provider, TopUp, Idle
  <1>8. \A d \in Calls : call[d].node = n => ~Inside(d)' /\ ~Counted(d)' /\ call'[d].node = Home
    BY <1>2 DEF Inside, Counted, Idle
  <1>9. \A d \in Calls : call[d].node # n => (Inside(d)' <=> Inside(d)) /\ (Counted(d)' <=> Counted(d))
    BY <1>1, <1>2, InsideFrame
  <1>10. CountInv'
    <2> SUFFICES ASSUME NEW m \in Nodes PROVE lock'[m].refs = Cardinality(Holders(m)')
      BY DEF CountInv
    <2>1. CASE m = n
      <3>1. Holders(m)' = {}
        BY <1>2, <1>8, <2>1 DEF Holders
      <3> QED BY <1>3, <2>1, <3>1, FS_EmptySet DEF Unlocked
    <2>2. CASE m # n
      <3>1. Holders(m)' = Holders(m)
        BY <1>2, <1>8, <1>9, <2>2 DEF Holders
      <3> QED BY <1>0, <1>3, <2>2, <3>1 DEF CountInv
    <2> QED BY <2>1, <2>2
  <1>11. ASSUME NEW d \in Calls PROVE Knows(d)' /\ Locks(d)'
    <2>1. call[d].node \in Nodes /\ Knows(d) /\ Locks(d)
      BY <1>0, CallFacts DEF MutexInv
    <2> QED BY <1>2, <1>3, <1>8, <1>9, <2>1 DEF Knows, Locks
  <1>12. OrderLocked'
    BY <1>0, <1>2, <1>8, <1>9 DEF MutexInv, OrderLocked
  <1>13. HomeInv'
    BY <1>0, <1>1, <1>2, <1>8 DEF HomeInv, Provider
  <1>14. LedgerInv'
    <2> SUFFICES ASSUME HandledByOneNode PROVE LedgerInv'
      BY <1>1 DEF LedgerInv, HandledByOneNode, Provider, TopUp
    <2>1. crashes' > 0 /\ crashes' >= crashes /\ faults' >= faults
      BY <1>1, <1>4
    <2>2. \A d \in Calls : /\ call'[d].pc = "credit" => call[d].pc = "credit"
                           /\ call'[d].pc = "save" => status = "pending"
      BY <1>0, <1>2 DEF Idle, LedgerInv, Due0
    <2> QED BY <1>1, <1>4, <2>1, <2>2, LedgerKept
  <1> QED BY <1>5, <1>6, <1>7, <1>10, <1>11, <1>12, <1>13, <1>14 DEF Inv, MutexInv

-----------------------------------------------------------------------------
(* The theorems.                                                           *)

(* The invariant holds at the start. *)
LEMMA InitInv == Init => Inv
  <1> SUFFICES ASSUME Init PROVE Inv
    OBVIOUS
  <1>1. \A c \in Calls : call[c] = Idle
    BY DEF Init
  <1>2. Types
    BY IdleIsCall, OrderAssumption DEF Init, Types, CallsInv, LocksInv, OrderInv, SentInv, AckedInv,
       BoundInv
  <1>3. \A c \in Calls : ~Inside(c) /\ ~Counted(c)
    BY <1>1 DEF Inside, Counted, Idle
  <1>4. CountInv
    <2> SUFFICES ASSUME NEW n \in Nodes PROVE lock[n].refs = Cardinality(Holders(n))
      BY DEF CountInv
    <2>1. Holders(n) = {}
      BY <1>3 DEF Holders
    <2> QED BY <2>1, FS_EmptySet DEF Init, Unlocked
  <1>5. PathInv /\ WorldInv /\ HomeInv /\ LedgerInv
    BY <1>1 DEF Init, PathInv, Path, WorldInv, HomeInv, LedgerInv, Due0, Idle
  <1>6. MutexInv
    BY <1>3 DEF MutexInv, Knows, Locks, OrderLocked
  <1> QED BY <1>2, <1>4, <1>5, <1>6 DEF Inv

(* Every step keeps the invariant. *)
LEMMA NextInv == Inv /\ [Next]_vars => Inv'
  BY StepKeeps, StutterKeeps, RequestKeeps, RemoteKeeps, CallKeeps, CrashKeeps DEF Next

(* The inductive invariant: the positions of the goroutines, the counts of *)
(* the locks and the row agree, whatever fails and whoever calls.          *)
THEOREM Inductive == Spec => []Inv
  BY InitInv, NextInv, PTL DEF Spec

(* Every variable keeps its type; in particular UnlockOrder never counts a *)
(* lock below zero and nothing is acknowledged that was not sent.          *)
THEOREM PaymentTypeOK == Spec => []TypeOK
  <1>1. Inv => TypeOK
    BY DEF Inv, Types, TypeOK, CallsInv, LocksInv, OrderInv, SentInv, AckedInv, BoundInv, CallState,
       LockState, Events
  <1> QED BY <1>1, Inductive, PTL

(* LockOrder and UnlockOrder exclude the goroutines of a node, although the *)
(* map forgets the mutex of an order and makes it anew.                    *)
THEOREM OrderIsLocked == Spec => []OrderLocked
  <1>1. Inv => OrderLocked
    BY DEF Inv, MutexInv
  <1> QED BY <1>1, Inductive, PTL

(* The order is never exchanged for another.                               *)
LEMMA OrderFixed == [Next]_vars => order' = order
  BY DEF Next, vars, Request, RequestEpay, RequestStripePay, SubscriptionRequestEpay,
     RequestCreemPay, RequestWaffoPay, RequestWaffoPancakePay, Insert, LinkMade, LinkFails,
     RemoteReports, RemoteEnds, Manual, Receive, Crash, Step, Resolve, LockOrder, Acquire, IgnoreType,
       LookupFails, Read, SaveSuccess,
     SaveFailed, Credit, Complete, CloseOrder, UnlockOrder, Unref, Rest

(* Which nodes handle an order does not change. *)
LEMMA OneNodeStays == HandledByOneNode /\ [Next]_vars => HandledByOneNode'
  BY OrderFixed DEF HandledByOneNode, TopUp, Provider

(* A completed order was credited once: for every order that a transaction *)
(* completes, and for the others where one node handles them, with the one *)
(* exception that EpayNotify makes; and a credited order is completed,     *)
(* unless RequestWaffoPay wrote over a manual completion.                  *)
THEOREM CompletedIsCredited == Spec /\ HandledByOneNode => []SuccessIsCredited
  <1>1. Inv /\ HandledByOneNode => SuccessIsCredited
    <2> SUFFICES ASSUME Inv, HandledByOneNode PROVE SuccessIsCredited
      OBVIOUS
    <2>1. times \in Nat
      BY DEF Inv, Types, OrderInv
    <2> QED BY <2>1 DEF Inv, LedgerInv, SuccessIsCredited, Uncredited
  <1> QED BY <1>1, Inductive, OneNodeStays, PTL DEF Spec

(* What a step may do to the row: nothing that OrderLedger sees, the one   *)
(* credit, or the end without a credit.                                    *)
LEMMA RowSteps ==
  ASSUME Inv, HandledByOneNode, [Next]_vars
  PROVE  \/ times' = times /\ (times # 0 \/ (status' \in Closed <=> status \in Closed))
         \/ times = 0 /\ times' = 1 /\ status \notin Closed
         \/ times = 0 /\ times' = 0 /\ status \notin Closed /\ status' \in Closed
  <1>1. /\ WorldInv /\ (times # 0 => times = 1 /\ (status = "success" \/ Overwritten))
        /\ \A c \in Calls : Due0(c)
    BY DEF Inv, LedgerInv
  <1>2. CASE UNCHANGED vars
    BY <1>2 DEF vars
  <1>3. CASE Request \/ LinkMade \/ LinkFails
    <2>1. times' = times /\ (times # 0 => status # "none")
      BY <1>1, <1>3 DEF Request, RequestEpay, RequestStripePay, SubscriptionRequestEpay,
         RequestCreemPay, RequestWaffoPay, RequestWaffoPancakePay, Insert, LinkMade, LinkFails, row,
         WorldInv
    <2>2. status' = status \/ (status = "none" /\ status' = "pending") \/ status' \in Closed
      BY <1>3 DEF Request, RequestEpay, RequestStripePay, SubscriptionRequestEpay,
         RequestCreemPay, RequestWaffoPay, RequestWaffoPancakePay, Insert, LinkMade, LinkFails, row,
         Closed
    <2> QED BY <2>1, <2>2 DEF Closed
  <1>4. CASE RemoteReports \/ RemoteEnds \/ \E n \in Nodes : Crash(n)
    BY <1>4 DEF RemoteReports, RemoteEnds, Crash, row
  <1>5. ASSUME NEW c \in Calls, Manual(c) \/ \E e \in sent : Receive(c, e)
        PROVE  times' = times /\ status' = status
    BY <1>5 DEF Manual, Receive, row
  <1>6. ASSUME NEW c \in Calls, Step(c)
        PROVE  \/ times' = times /\ (status' \in Closed <=> status \in Closed)
               \/ times = 0 /\ times' = 1 /\ status \notin Closed
               \/ times = 0 /\ times' = 0 /\ status \notin Closed /\ status' \in Closed
    <2>0. status = "pending" => times = 0
      BY <1>1 DEF Overwritten
    <2>1. CASE \/ Resolve(c) \/ LockOrder(c) \/ Acquire(c) \/ IgnoreType(c) \/ Read(c)
               \/ LookupFails(c) \/ UnlockOrder(c) \/ Unref(c)
      BY <2>1 DEF Resolve, LockOrder, Acquire, IgnoreType, LookupFails, Read, UnlockOrder, Unref, row
    <2>2. CASE SaveSuccess(c) \/ SaveFailed(c)
      BY <1>1, <2>0, <2>2 DEF SaveSuccess, SaveFailed, Due0, Closed
    <2>3. CASE Credit(c)
      BY <1>1, <2>3 DEF Credit, Due0, Closed
    <2>4. CASE Complete(c)
      <3>1. \/ status' = status /\ times' = times
            \/ status = "pending" /\ status' = "success" /\ times' = times + 1
        BY <2>4 DEF Complete, CompleteSubscriptionOrder, ManualCompleteTopUp, Recharge,
           RechargeCreem, RechargeWaffo, RechargeWaffoPancake, Idempotent, Fulfil, Refuse, row
      <3> QED BY <2>0, <3>1 DEF Closed
    <2>5. CASE CloseOrder(c)
      BY <2>0, <2>5 DEF CloseOrder, UpdatePendingTopUpStatus, ExpireSubscriptionOrder, CloseWith,
         Closed
    <2> QED BY <1>6, <2>1, <2>2, <2>3, <2>4, <2>5 DEF Step
  <1> QED BY <1>2, <1>3, <1>4, <1>5, <1>6 DEF Next

(* However duplicated, late and contradictory events, manual completions,  *)
(* failing calls and crashes interleave, an order is credited at most once *)
(* and never after it was closed: for every order that is completed in a   *)
(* transaction on any number of nodes, and for Epay's and Stripe's top-ups *)
(* where one node handles them.                                            *)
THEOREM OrderKeepsLedger == Spec /\ HandledByOneNode => KeepsLedger
  <1>1. Init => Ledger!Init
    BY DEF Init, Ledger!Init, LedgerState, Closed
  <1>2. Inv /\ HandledByOneNode /\ [Next]_vars => [Ledger!Next]_<<LedgerState, times>>
    <2> SUFFICES ASSUME Inv, HandledByOneNode, [Next]_vars
                 PROVE  [Ledger!Next]_<<LedgerState, times>>
      OBVIOUS
    <2>0. times \in Nat
      BY DEF Inv, Types, OrderInv
    <2>1. CASE times' = times /\ (times # 0 \/ (status' \in Closed <=> status \in Closed))
      BY <2>0, <2>1 DEF LedgerState
    <2>2. CASE times = 0 /\ times' = 1 /\ status \notin Closed
      BY <2>2 DEF Ledger!Next, Ledger!Credit, LedgerState
    <2>3. CASE times = 0 /\ times' = 0 /\ status \notin Closed /\ status' \in Closed
      BY <2>3 DEF Ledger!Next, Ledger!Close, LedgerState
    <2> QED BY <2>1, <2>2, <2>3, RowSteps
  <1> QED BY <1>1, <1>2, Inductive, OneNodeStays, PTL DEF Spec, KeepsLedger, Ledger!Spec
=============================================================================
