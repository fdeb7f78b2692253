----------------------------- MODULE QuotaLedger -----------------------------
(***************************************************************************)
(* The quota columns of one user and one token in one process: the         *)
(* database, the maps of the batch updater (model/utils.go) and the user's *)
(* hash in Redis (model/user_cache.go, common/redis.go).                   *)
(*                                                                         *)
(* A change of a column is made by a goroutine (Calls), either by an SQL   *)
(* statement that adds to the column or, with BatchUpdateEnabled, by an    *)
(* entry in a map that batchUpdate writes later.  A change of the user's   *)
(* quota is also added to the cached one, by a goroutine of its own that   *)
(* reads the key's TTL and then adds.  Top-ups, redemptions and some other *)
(* writers change the user's quota in a transaction of their own and leave *)
(* the hash alone.  GetUserQuota (Loads) reads the hash, or the database   *)
(* and then writes the hash, again in a goroutine.  The token's hash is    *)
(* changed in the same way and is left out.                                *)
(*                                                                         *)
(* Other processes add to the same columns with statements that commute    *)
(* with these; they are left out.  used stands for used_quota and          *)
(* request_count, which are changed and written together, and token for    *)
(* the counters of tokens and channels.                                    *)
(***************************************************************************)
EXTENDS Integers, FiniteSetsExt

CONSTANTS
    Calls,               \* goroutines that change a column, once each
    Amounts,             \* amounts of a change
    BatchUpdateEnabled,  \* common.BatchUpdateEnabled
    Loads,               \* goroutines that read the user's quota, once each
    MaxFailures          \* bound: calls of the database or Redis that fail, and crashes

ASSUME LedgerAssumption == Amounts \subseteq Int /\ MaxFailures \in Nat
ASSUME CallsAssumption == IsFiniteSet(Calls)
ASSUME SwitchAssumption == BatchUpdateEnabled \in BOOLEAN

Cols == {"quota", "token", "used"}
UserCols == {"quota", "used"}

VARIABLES
    db,       \* the columns
    store,    \* batchUpdateStores
    batch,    \* the maps batchUpdate has taken
    updater,  \* position of batchUpdate, and the maps it has taken
    call,     \* the calls: position, column, amount, goroutine for Redis
    hash,     \* the user's hash: absent, with the quota alone or whole; its quota
    load,     \* the loads: position, quota read
    seen,     \* history: the kinds of hash that were taken for the user
    clean,    \* history: loads that no change of the quota has crossed
    exact,    \* history: "yes" if the hash was loaded cleanly and no call failed since
    missed,   \* history: changes of the quota since then that the hash was not told
    failures  \* failed calls and crashes so far

vars == <<db, store, batch, updater, call, hash, load, seen, clean, exact, missed, failures>>
ledger == <<db, store, batch, updater>>
cache == <<hash, load, seen, clean, exact, missed>>

Zero == [k \in Cols |-> 0]
NoHash == [is |-> "absent", quota |-> 0]
Whole(q) == [is |-> "whole", quota |-> q]
NoCall == [pc |-> "new", col |-> "quota", amount |-> 0, incr |-> "none"]
NoLoad == [pc |-> "new", quota |-> 0]
Asleep == [pc |-> "asleep", taken |-> {}]

Init ==
    /\ db = Zero /\ store = Zero /\ batch = Zero /\ updater = Asleep
    /\ call = [c \in Calls |-> NoCall]
    /\ hash \in {NoHash, Whole(0)}
    /\ load = [l \in Loads |-> NoLoad]
    /\ seen = {} /\ clean = {} /\ exact = "yes" /\ missed = 0
    /\ failures = 0

Fault == failures < MaxFailures /\ failures' = failures + 1
NoFault == UNCHANGED failures

Add(f, k, a) == [f EXCEPT ![k] = @ + a]

----------------------------------------------------------------------------
(* Changes.                                                                *)

(* IncreaseUserQuota, DecreaseUserQuota, IncreaseTokenQuota,               *)
(* DecreaseTokenQuota, UpdateUserUsedQuotaAndRequestCount: a change of the *)
(* user's quota starts the goroutine for Redis first.                      *)
Change(c) ==
    /\ call[c].pc = "new"
    /\ \E k \in Cols, a \in Amounts :
        call' = [call EXCEPT ![c] = [pc |-> "write", col |-> k, amount |-> a,
                                     incr |-> IF k = "quota" THEN "queued" ELSE "none"]]
    /\ clean' = {}
    /\ UNCHANGED <<ledger, hash, load, seen, exact, missed>> /\ NoFault

(* addNewRecord.                                                           *)
AddNewRecord(c) ==
    /\ call[c].pc = "write" /\ BatchUpdateEnabled
    /\ store' = Add(store, call[c].col, call[c].amount)
    /\ call' = [call EXCEPT ![c].pc = "booked"]
    /\ UNCHANGED <<db, batch, updater, cache>> /\ NoFault

(* The statement; with BatchUpdateEnabled only if the caller asks for it   *)
(* (db = true), which callers do for the user's quota.                     *)
UpdateColumn(c) ==
    /\ call[c].pc = "write" /\ (BatchUpdateEnabled => call[c].col = "quota")
    /\ \/ /\ db' = Add(db, call[c].col, call[c].amount)
          /\ call' = [call EXCEPT ![c].pc = "booked"]
          /\ UNCHANGED exact /\ NoFault
       \/ /\ Fault
          /\ call' = [call EXCEPT ![c].pc = "failed"] /\ exact' = "no"
          /\ UNCHANGED db
    /\ UNCHANGED <<store, batch, updater, hash, load, seen, clean, missed>>

(* A transaction that adds to the user's quota: the hash is told after a   *)
(* purchase with the balance and a check-in, and not after a top-up, a     *)
(* redemption or a transfer of the invitation quota.                       *)
Transact(c) ==
    /\ call[c].pc = "new" /\ clean' = {}
    /\ \/ \E a \in Amounts, told \in {"queued", "none"} :
            /\ db' = Add(db, "quota", a)
            /\ call' = [call EXCEPT ![c] = [pc |-> "booked", col |-> "quota", amount |-> a,
                                           incr |-> told]]
            /\ missed' = IF told = "none" THEN missed + a ELSE missed
            /\ NoFault
       \/ Fault /\ call' = [call EXCEPT ![c].pc = "failed"] /\ UNCHANGED <<db, missed>>
    /\ UNCHANGED <<store, batch, updater, hash, load, seen, exact>>

(* An administrator sets the quota; the hash is not told.                  *)
Override(c) ==
    /\ call[c].pc = "new" /\ clean' = {}
    /\ \/ \E a \in Amounts :
            /\ db' = [db EXCEPT !["quota"] = a]
            /\ call' = [call EXCEPT ![c].pc = "booked"]
            /\ missed' = missed + (a - db["quota"])
            /\ NoFault
       \/ Fault /\ call' = [call EXCEPT ![c].pc = "failed"] /\ UNCHANGED <<db, missed>>
    /\ UNCHANGED <<store, batch, updater, hash, load, seen, exact>>

----------------------------------------------------------------------------
(* batchUpdate.                                                            *)

(* Faulty variant: only the first map is looked at *)
WakeForQuota ==
    /\ updater.pc = "asleep" /\ store["quota"] # 0
    /\ updater' = [pc |-> "take", taken |-> {}]
    /\ UNCHANGED <<db, store, batch, call, cache>> /\ NoFault

Wake ==
    /\ updater.pc = "asleep" /\ \E k \in Cols : store[k] # 0
    /\ updater' = [pc |-> "take", taken |-> {}]
    /\ UNCHANGED <<db, store, batch, call, cache>> /\ NoFault

(* The maps are taken in the order of their types.                         *)
TakenBefore == [quota |-> {}, token |-> {"quota"}, used |-> {"quota", "token"}]

(* Faulty variant: the map is emptied after the lock is released, and an   *)
(* entry made meanwhile is lost                                            *)
TakeUnlocked(k) ==
    /\ updater.pc = "take" /\ updater.taken = TakenBefore[k]
    /\ \E seenInStore \in {0, store[k]} : batch' = [batch EXCEPT ![k] = seenInStore]
    /\ store' = [store EXCEPT ![k] = 0]
    /\ updater' = [updater EXCEPT !.taken = @ \cup {k}]
    /\ UNCHANGED <<db, call, cache>> /\ NoFault

(* One map is taken, under its lock.                                       *)
Take(k) ==
    /\ updater.pc = "take" /\ updater.taken = TakenBefore[k]
    /\ batch' = [batch EXCEPT ![k] = store[k]]
    /\ store' = [store EXCEPT ![k] = 0]
    /\ updater' = [updater EXCEPT !.taken = @ \cup {k}]
    /\ UNCHANGED <<db, call, cache>> /\ NoFault

(* A statement for the columns ks; if it fails the amounts are logged and  *)
(* dropped.                                                                *)
Write(ks, next) ==
    /\ \/ /\ db' = [k \in Cols |-> IF k \in ks THEN db[k] + batch[k] ELSE db[k]]
          /\ UNCHANGED exact /\ NoFault
       \/ Fault /\ exact' = "no" /\ UNCHANGED db
    /\ batch' = [k \in Cols |-> IF k \in ks THEN 0 ELSE batch[k]]
    /\ updater' = next
    /\ UNCHANGED <<store, call, hash, load, seen, clean, missed>>

WriteToken ==
    /\ updater.pc = "take" /\ updater.taken = Cols
    /\ Write({"token"}, [updater EXCEPT !.pc = "user"])

(* updateUserQuotaUsedQuotaAndRequestCount: one statement.                 *)
WriteUser ==
    /\ updater.pc = "user"
    /\ Write(UserCols, Asleep)

----------------------------------------------------------------------------
(* The hash in Redis.                                                      *)

(* A call to Redis or to the database that fails is logged; the cached     *)
(* quota is no longer known to be right.                                   *)
Failed == Fault /\ exact' = "no"

(* RedisHIncrBy reads the TTL and adds if it is positive: not if the hash  *)
(* is absent, nor in its last half second, when the TTL is rounded to 0.   *)
ReadTTL(c) ==
    /\ call[c].incr = "queued"
    /\ \/ /\ hash.is # "absent" /\ call' = [call EXCEPT ![c].incr = "add"]
          /\ UNCHANGED <<exact, missed>> /\ NoFault
       \/ /\ call' = [call EXCEPT ![c].incr = "none"] /\ missed' = missed + call[c].amount
          /\ UNCHANGED exact /\ NoFault
       \/ call' = [call EXCEPT ![c].incr = "none"] /\ Failed /\ UNCHANGED missed
    /\ UNCHANGED <<ledger, hash, load, seen, clean>>

(* A write of one field creates the hash if it is absent.                  *)
Revived == IF hash.is = "absent" THEN "part" ELSE hash.is

(* Faulty variant: the field is set to the amount *)
HSetAmount(c) ==
    /\ call[c].incr = "add"
    /\ \/ /\ hash' = [is |-> Revived, quota |-> call[c].amount]
          /\ UNCHANGED exact /\ NoFault
       \/ UNCHANGED hash /\ Failed
    /\ call' = [call EXCEPT ![c].incr = "none"]
    /\ UNCHANGED <<ledger, load, seen, clean, missed>>

(* HINCRBY and EXPIRE in one transaction: a hash that has expired          *)
(* meanwhile comes back with this field alone.                             *)
HIncrBy(c) ==
    /\ call[c].incr = "add"
    /\ \/ /\ hash' = [is |-> Revived, quota |-> hash.quota + call[c].amount]
          /\ UNCHANGED exact /\ NoFault
       \/ UNCHANGED hash /\ Failed
    /\ call' = [call EXCEPT ![c].incr = "none"]
    /\ UNCHANGED <<ledger, load, seen, clean, missed>>

(* The TTL runs out, or invalidateUserCache is called elsewhere.           *)
Expire ==
    /\ hash.is # "absent" /\ hash' = NoHash
    /\ UNCHANGED <<ledger, call, load, seen, clean, exact, missed>> /\ NoFault

LoadGoesTo(l, pc) == load' = [load EXCEPT ![l].pc = pc]

(* Faulty variant: a hash without a role is used *)
ReadAnyHash(l) ==
    /\ load[l].pc = "new"
    /\ \/ /\ hash.is # "absent" /\ seen' = seen \cup {hash.is}
          /\ LoadGoesTo(l, "done")
       \/ hash.is = "absent" /\ LoadGoesTo(l, "user") /\ UNCHANGED seen
    /\ UNCHANGED <<ledger, call, hash, clean, exact, missed>> /\ NoFault

(* GetUserCache reads the hash: a hash without a role is not used.  An     *)
(* error of Redis counts as no hash.                                       *)
ReadHash(l) ==
    /\ load[l].pc = "new"
    /\ \/ /\ hash.is = "whole" /\ LoadGoesTo(l, "done")
          /\ seen' = seen \cup {hash.is} /\ NoFault
       \/ hash.is = "part" /\ LoadGoesTo(l, "partial") /\ UNCHANGED seen /\ NoFault
       \/ hash.is = "absent" /\ LoadGoesTo(l, "user") /\ UNCHANGED seen /\ NoFault
       \/ Fault /\ LoadGoesTo(l, "user") /\ UNCHANGED seen
    /\ UNCHANGED <<ledger, call, hash, clean, exact, missed>>

(* invalidateUserCache, whose error is ignored.                            *)
Invalidate(l) ==
    /\ load[l].pc = "partial" /\ LoadGoesTo(l, "user")
    /\ \/ hash' = NoHash /\ NoFault
       \/ UNCHANGED hash /\ Fault
    /\ UNCHANGED <<ledger, call, seen, clean, exact, missed>>

(* No change of the user's quota is under way.                             *)
Quiet ==
    /\ \A c \in Calls : call[c].incr = "none" /\ (call[c].col = "quota" => call[c].pc # "write")
    /\ store["quota"] = 0 /\ batch["quota"] = 0

Loaded(l, pc) ==
    /\ load' = [load EXCEPT ![l] = [pc |-> pc, quota |-> db["quota"]]]
    /\ clean' = IF Quiet THEN clean \cup {l} ELSE clean

(* GetUserById; if it fails, GetUserQuota tries its own statement.         *)
ReadUser(l) ==
    /\ load[l].pc = "user"
    /\ \/ Loaded(l, "populate") /\ NoFault
       \/ LoadGoesTo(l, "quota") /\ Fault /\ UNCHANGED clean
    /\ UNCHANGED <<ledger, call, hash, seen, exact, missed>>

ReadQuota(l) ==
    /\ load[l].pc = "quota"
    /\ \/ Loaded(l, "ttl") /\ NoFault
       \/ LoadGoesTo(l, "done") /\ Fault /\ UNCHANGED clean
    /\ UNCHANGED <<ledger, call, hash, seen, exact, missed>>

(* populateUserCache, in a goroutine.                                      *)
Populate(l) ==
    /\ load[l].pc = "populate" /\ LoadGoesTo(l, "done")
    /\ \/ /\ hash' = Whole(load[l].quota)
          /\ exact' = (IF l \in clean THEN "yes" ELSE "no") /\ missed' = 0 /\ NoFault
       \/ UNCHANGED <<hash, exact, missed>> /\ Fault
    /\ UNCHANGED <<ledger, call, seen, clean>>

(* updateUserQuotaCache, in a goroutine: the TTL, then HSET.               *)
SetQuotaTTL(l) ==
    /\ load[l].pc = "ttl"
    /\ \/ hash.is # "absent" /\ LoadGoesTo(l, "hset") /\ NoFault
       \/ LoadGoesTo(l, "done") /\ (NoFault \/ Fault)
    /\ UNCHANGED <<ledger, call, hash, seen, clean, exact, missed>>

SetQuota(l) ==
    /\ load[l].pc = "hset" /\ LoadGoesTo(l, "done")
    /\ \/ /\ hash' = [is |-> Revived, quota |-> load[l].quota]
          /\ exact' = (IF l \in clean THEN "yes" ELSE "no") /\ missed' = 0 /\ NoFault
       \/ UNCHANGED <<hash, exact, missed>> /\ Fault
    /\ UNCHANGED <<ledger, call, seen, clean>>

----------------------------------------------------------------------------
(* The process stops and is started again: the maps, the batch and the     *)
(* goroutines are gone.                                                    *)
Crash ==
    /\ Fault
    /\ store' = Zero /\ batch' = Zero /\ updater' = Asleep
    /\ call' = [c \in Calls |-> [call[c] EXCEPT !.pc = IF @ = "write" THEN "failed" ELSE @,
                                                !.incr = "none"]]
    /\ load' = [l \in Loads |-> [load[l] EXCEPT !.pc = IF @ = "new" THEN @ ELSE "done"]]
    /\ exact' = "no"
    /\ UNCHANGED <<db, hash, seen, clean, missed>>

Next ==
    \/ \E c \in Calls :
        \/ Change(c) \/ AddNewRecord(c) \/ UpdateColumn(c) \/ Transact(c) \/ Override(c)
        \/ ReadTTL(c) \/ HIncrBy(c)
    \/ Wake \/ (\E k \in Cols : Take(k)) \/ WriteToken \/ WriteUser
    \/ \E l \in Loads :
        \/ ReadHash(l) \/ Invalidate(l) \/ ReadUser(l) \/ ReadQuota(l)
        \/ Populate(l) \/ SetQuotaTTL(l) \/ SetQuota(l)
    \/ Expire \/ Crash

(* The updater's loop goes on.                                             *)
Fairness == WF_vars(Wake \/ (\E k \in Cols : Take(k)) \/ WriteToken \/ WriteUser)

Spec == Init /\ [][Next]_vars /\ Fairness

----------------------------------------------------------------------------
(* Properties.                                                             *)

(* The columns and maps hold integers, and the updater is where it says.   *)
TypeOK ==
    /\ db \in [Cols -> Int] /\ store \in [Cols -> Int] /\ batch \in [Cols -> Int]
    /\ updater \in [pc : {"asleep", "take", "user"}, taken : SUBSET Cols]
    /\ updater.pc = "user" => updater.taken = Cols
    /\ call \in [Calls -> [pc : {"new", "write", "booked", "failed"}, col : Cols,
                           amount : Amounts \cup {0}, incr : {"none", "queued", "add"}]]
    /\ hash \in [is : {"absent", "part", "whole"}, quota : Int]
    /\ load \in [Loads -> [pc : {"new", "partial", "user", "quota", "populate", "ttl", "hset",
                                 "done"},
                           quota : Int]]
    /\ seen \subseteq {"part", "whole"} /\ clean \subseteq Loads /\ exact \in {"yes", "no"}
    /\ missed \in Int /\ failures \in Nat

(* What batchUpdate has taken is written or dropped before it takes again: *)
(* between two rounds nothing is left in its hands.                        *)
BatchIsHandled ==
    \A k \in Cols : batch[k] # 0 =>
        /\ updater.pc # "asleep" /\ k \in updater.taken
        /\ updater.pc = "user" => k \in UserCols

(* Every change is booked once, and moves from the map into the column     *)
(* without being lost or doubled, however changes, the swap of the maps    *)
(* and the statements interleave; only a failing statement or a crash      *)
(* loses what the map or the batch held.                                   *)
Account == INSTANCE QuotaAccount WITH
    Changes <- Calls,
    durable <- db,
    buffered <- [k \in Cols |-> store[k] + batch[k]],
    booked <- {c \in Calls : call[c].pc = "booked"},
    losses <- failures
KeepsAccount == Account!ASpec

(* A hash that HIncrBy or SetQuota brought back to life with one field,    *)
(* between the TTL that was read and the transaction, is never taken for   *)
(* the user.                                                               *)
PartialHashNotUsed == "part" \notin seen

(* Sums of amounts: what the goroutines for Redis have still to add to the *)
(* hash, and what the calls have still to write to the column or its map.  *)
Total(a, S) == MapThenSumSet(LAMBDA c : a[c], S)
amount == [c \in Calls |-> call[c].amount]
Adding == {c \in Calls : call[c].incr # "none"}
Writing == {c \in Calls : call[c].pc = "write" /\ call[c].col = "quota"}

(* A hash that was loaded while no change was under way drifts by what it  *)
(* was not told and nothing else: what it holds with the additions still   *)
(* to come and the changes since the load that no one adds to it is what   *)
(* the column holds with the changes still to come.  The relay's own       *)
(* charges and refunds are in it once they are made.                       *)
CacheFollowsLedger ==
    hash.is = "whole" /\ exact = "yes" =>
        hash.quota + Total(amount, Adding) + missed
            = db["quota"] + store["quota"] + batch["quota"] + Total(amount, Writing)

(* What is in the maps is flushed.                                         *)
StoreIsFlushed == \A k \in Cols : store[k] # 0 ~> store[k] = 0
=============================================================================
