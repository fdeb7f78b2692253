-------------------------- MODULE QuotaLedgerProofs --------------------------
(***************************************************************************)
(* Proofs about QuotaLedger for any number of calls and loads, any amounts *)
(* and both settings of the batch updater: types, what the updater holds,  *)
(* that a partial hash is not used, that the ledger implements             *)
(* QuotaAccount and that a cleanly loaded hash follows the ledger.         *)
(***************************************************************************)
EXTENDS QuotaLedger, FiniteSetTheorems, TLAPS

(* The records of calls, loads and the hash.                               *)
CallRecords == [pc : {"new", "write", "booked", "failed"}, col : Cols,
                amount : Amounts \cup {0}, incr : {"none", "queued", "add"}]
LoadRecords == [pc : {"new", "partial", "user", "quota", "populate", "ttl", "hset", "done"},
                quota : Int]

(* Adding to a column keeps the columns integers. *)
LEMMA AddType ==
    ASSUME NEW f \in [Cols -> Int], NEW k \in Cols, NEW a \in Int
    PROVE  Add(f, k, a) \in [Cols -> Int]
BY DEF Add

(* The types hold at the start. *)
LEMMA InitType == Init => TypeOK
BY LedgerAssumption DEF Init, TypeOK, Zero, Asleep, NoCall, NoHash, Whole, NoLoad, Cols

(* The actions, grouped by what they change.                               *)
CallStep(c) ==
    \/ Change(c) \/ AddNewRecord(c) \/ UpdateColumn(c) \/ Transact(c) \/ Override(c)
    \/ ReadTTL(c) \/ HIncrBy(c)
UpdaterStep == Wake \/ (\E k \in Cols : Take(k)) \/ WriteToken \/ WriteUser
LoadStep(l) ==
    \/ ReadHash(l) \/ Invalidate(l) \/ ReadUser(l) \/ ReadQuota(l)
    \/ Populate(l) \/ SetQuotaTTL(l) \/ SetQuota(l)

(* The steps by actor. *)
LEMMA NextCases ==
    ASSUME [Next]_vars
    PROVE  \/ \E c \in Calls : CallStep(c)
           \/ UpdaterStep
           \/ \E l \in Loads : LoadStep(l)
           \/ Expire \/ Crash \/ UNCHANGED vars
BY Zenon DEF Next, CallStep, UpdaterStep, LoadStep

(* A step of a change keeps the types. *)
LEMMA CallStepType ==
    ASSUME TypeOK, NEW c \in Calls, CallStep(c)
    PROVE  TypeOK'
<1>0. call[c].amount \in Int /\ call[c].col \in Cols
    <2>1. call \in [Calls -> CallRecords]
        BY DEF TypeOK, CallRecords
    <2>2. call[c].amount \in Amounts \cup {0} /\ call[c].col \in Cols
        BY <2>1 DEF CallRecords
    <2>3. Amounts \subseteq Int
        BY LedgerAssumption
    <2>4. CASE call[c].amount \in Amounts
        BY <2>2, <2>3, <2>4
    <2>5. CASE call[c].amount = 0
        BY <2>2, <2>5
    <2> QED BY <2>2, <2>4, <2>5
<1>1. CASE Change(c)
    BY <1>1, LedgerAssumption
    DEF Change, TypeOK, Cols, ledger, NoFault
<1>2. CASE AddNewRecord(c)
    <2>1. store' \in [Cols -> Int]
        BY <1>0, <1>2, AddType DEF AddNewRecord, TypeOK
    <2> QED BY <1>2, <2>1 DEF AddNewRecord, TypeOK, cache, NoFault
<1>3. CASE UpdateColumn(c)
    <2>1. db' \in [Cols -> Int]
        <3>1. db' = Add(db, call[c].col, call[c].amount) \/ db' = db
            BY <1>3, Zenon DEF UpdateColumn
        <3>2. db \in [Cols -> Int]
            BY DEF TypeOK
        <3> QED BY <1>0, <3>1, <3>2, AddType
    <2>2. failures' \in Nat /\ exact' \in {"yes", "no"}
        BY <1>3 DEF UpdateColumn, TypeOK, Fault, NoFault
    <2>3. call' \in [Calls -> CallRecords]
        <3>1. PICK pc \in {"booked", "failed"} : call' = [call EXCEPT ![c].pc = pc]
            BY <1>3 DEF UpdateColumn
        <3>2. call \in [Calls -> CallRecords]
            BY DEF TypeOK, CallRecords
        <3> QED BY <3>1, <3>2 DEF CallRecords
    <2> QED BY <1>3, <2>1, <2>2, <2>3 DEF UpdateColumn, TypeOK, CallRecords
<1>4. CASE ReadTTL(c)
    <2>1. failures' \in Nat /\ exact' \in {"yes", "no"}
        BY <1>4 DEF ReadTTL, Failed, Fault, NoFault, TypeOK
    <2>2. missed' \in Int
        BY <1>0, <1>4 DEF ReadTTL, TypeOK
    <2>3. call' \in [Calls -> CallRecords]
        BY <1>4 DEF ReadTTL, TypeOK, CallRecords
    <2> QED BY <1>4, <2>1, <2>2, <2>3 DEF ReadTTL, TypeOK, CallRecords, ledger
<1>5. CASE HIncrBy(c)
    <2>1. hash' \in [is : {"absent", "part", "whole"}, quota : Int]
        BY <1>0, <1>5 DEF HIncrBy, Revived, TypeOK
    <2>2. failures' \in Nat /\ exact' \in {"yes", "no"}
        BY <1>5 DEF HIncrBy, Failed, Fault, NoFault, TypeOK
    <2>3. call' \in [Calls -> CallRecords]
        BY <1>5 DEF HIncrBy, TypeOK, CallRecords
    <2> QED BY <1>5, <2>1, <2>2, <2>3 DEF HIncrBy, TypeOK, CallRecords, ledger
<1>6. CASE Transact(c) \/ Override(c)
    <2>0. failures' \in Nat /\ clean' = {} /\ UNCHANGED <<store, batch, updater, hash, load, seen, exact>>
        BY <1>6 DEF Transact, Override, Fault, NoFault, TypeOK
    <2>1. call' \in [Calls -> CallRecords]
        BY <1>6 DEF Transact, Override, TypeOK, CallRecords, Cols
    <2>2. db' \in [Cols -> Int] /\ missed' \in Int
        <3>1. db["quota"] \in Int /\ missed \in Int /\ db \in [Cols -> Int] /\ "quota" \in Cols
            BY DEF TypeOK, Cols
        <3>2. CASE UNCHANGED <<db, missed>>
            BY <3>1, <3>2
        <3>3. ASSUME NEW a \in Amounts, db' = Add(db, "quota", a),
                     missed' = missed + a \/ missed' = missed
              PROVE  db' \in [Cols -> Int] /\ missed' \in Int
            BY <3>1, <3>3, LedgerAssumption, AddType
        <3>4. ASSUME NEW a \in Amounts, db' = [db EXCEPT !["quota"] = a],
                     missed' = missed + (a - db["quota"])
              PROVE  db' \in [Cols -> Int] /\ missed' \in Int
            BY <3>1, <3>4, LedgerAssumption
        <3> QED BY <1>6, <3>2, <3>3, <3>4 DEF Transact, Override
    <2> QED BY <2>0, <2>1, <2>2 DEF TypeOK, CallRecords
<1> QED BY <1>1, <1>2, <1>3, <1>4, <1>5, <1>6 DEF CallStep

(* A write of the updater keeps the types. *)
LEMMA WriteType ==
    ASSUME TypeOK, NEW ks \in SUBSET Cols,
           NEW next \in [pc : {"asleep", "take", "user"}, taken : SUBSET Cols],
           next.pc = "user" => next.taken = Cols,
           Write(ks, next)
    PROVE  TypeOK'
<1>1. db' \in [Cols -> Int] /\ batch' \in [Cols -> Int]
    BY DEF Write, TypeOK
<1>2. failures' \in Nat /\ exact' \in {"yes", "no"}
    BY DEF Write, TypeOK, Fault, NoFault
<1> QED BY <1>1, <1>2 DEF Write, TypeOK

(* A step of the updater keeps the types. *)
LEMMA UpdaterStepType ==
    ASSUME TypeOK, UpdaterStep
    PROVE  TypeOK'
<1>1. CASE Wake
    BY <1>1 DEF Wake, TypeOK, cache, NoFault
<1>2. ASSUME NEW k \in Cols, Take(k) PROVE TypeOK'
    <2>1. store' \in [Cols -> Int] /\ batch' \in [Cols -> Int]
        BY <1>2 DEF Take, TypeOK
    <2> QED BY <1>2, <2>1 DEF Take, TypeOK, cache, NoFault
<1>3. CASE WriteToken
    BY <1>3, WriteType DEF WriteToken, TypeOK, Cols
<1>4. CASE WriteUser
    BY <1>4, WriteType DEF WriteUser, Asleep, UserCols, Cols
<1> QED BY <1>1, <1>2, <1>3, <1>4 DEF UpdaterStep

(* A step of a load keeps the types. *)
LEMMA LoadStepType ==
    ASSUME TypeOK, NEW l \in Loads, LoadStep(l)
    PROVE  TypeOK'
<1>0. db["quota"] \in Int
    BY DEF TypeOK, Cols
<1>1. CASE ReadHash(l)
    BY <1>1 DEF ReadHash, LoadGoesTo, Fault, NoFault, TypeOK, ledger
<1>2. CASE Invalidate(l)
    BY <1>2 DEF Invalidate, LoadGoesTo, NoHash, Fault, NoFault, TypeOK, ledger
<1>3. CASE ReadUser(l)
    <2>1. load' \in [Loads -> LoadRecords] /\ clean' \subseteq Loads
        BY <1>0, <1>3 DEF ReadUser, LoadGoesTo, Loaded, LoadRecords, TypeOK
    <2>2. failures' \in Nat
        BY <1>3 DEF ReadUser, Fault, NoFault, TypeOK
    <2> QED BY <1>3, <2>1, <2>2 DEF ReadUser, LoadRecords, TypeOK, ledger
<1>4. CASE ReadQuota(l)
    <2>1. load' \in [Loads -> LoadRecords] /\ clean' \subseteq Loads
        BY <1>0, <1>4 DEF ReadQuota, LoadGoesTo, Loaded, LoadRecords, TypeOK
    <2>2. failures' \in Nat
        BY <1>4 DEF ReadQuota, Fault, NoFault, TypeOK
    <2> QED BY <1>4, <2>1, <2>2 DEF ReadQuota, LoadRecords, TypeOK, ledger
<1>5. CASE Populate(l)
    BY <1>5 DEF Populate, Whole, LoadGoesTo, Fault, NoFault, TypeOK, ledger
<1>6. CASE SetQuotaTTL(l)
    <2>1. PICK pc \in {"hset", "done"} : load' = [load EXCEPT ![l].pc = pc]
        BY <1>6 DEF SetQuotaTTL, LoadGoesTo
    <2>2. load' \in [Loads -> LoadRecords]
        BY <2>1 DEF LoadRecords, TypeOK
    <2>3. failures' \in Nat
        BY <1>6 DEF SetQuotaTTL, Fault, NoFault, TypeOK
    <2> QED BY <1>6, <2>2, <2>3 DEF SetQuotaTTL, LoadRecords, TypeOK, ledger
<1>7. CASE SetQuota(l)
    BY <1>7 DEF SetQuota, Revived, LoadGoesTo, Fault, NoFault, TypeOK, ledger
<1> QED BY <1>1, <1>2, <1>3, <1>4, <1>5, <1>6, <1>7 DEF LoadStep

(* Every step keeps the types. *)
LEMMA TypeStep ==
    ASSUME TypeOK, [Next]_vars
    PROVE  TypeOK'
<1>1. CASE Expire
    BY <1>1 DEF Expire, NoHash, TypeOK, ledger, NoFault
<1>2. CASE Crash
    <2>a. Fault /\ store' = Zero /\ batch' = Zero
        BY <1>2, Zenon DEF Crash
    <2>b. call' = [c \in Calls |->
            [call[c] EXCEPT !.pc = IF @ = "write" THEN "failed" ELSE @, !.incr = "none"]]
        BY <1>2, Zenon DEF Crash
    <2>1. store' \in [Cols -> Int] /\ batch' \in [Cols -> Int]
        BY <2>a DEF Zero
    <2>2. call' \in [Calls -> CallRecords]
        <3>1. ASSUME NEW c \in Calls
              PROVE  [call[c] EXCEPT !.pc = IF @ = "write" THEN "failed" ELSE @, !.incr = "none"]
                        \in CallRecords
            <4>1. call[c] \in CallRecords
                BY DEF TypeOK, CallRecords
            <4>2. CASE call[c].pc = "write"
                BY <4>1, <4>2 DEF CallRecords
            <4>3. CASE call[c].pc # "write"
                BY <4>1, <4>3 DEF CallRecords
            <4> QED BY <4>2, <4>3
        <3> QED BY <2>b, <3>1
    <2>3. load' \in [Loads -> LoadRecords]
        BY <1>2, ZenonT(30) DEF Crash, TypeOK, LoadRecords
    <2>4. failures' \in Nat
        BY <2>a DEF Fault, TypeOK
    <2> QED BY <1>2, <2>1, <2>2, <2>3, <2>4
        DEF Crash, Asleep, TypeOK, CallRecords, LoadRecords
<1>3. CASE UNCHANGED vars
    BY <1>3 DEF vars, TypeOK
<1> QED BY <1>1, <1>2, <1>3, NextCases, CallStepType, UpdaterStepType, LoadStepType

(* The columns, the maps, the updater, the calls and the loads are always  *)
(* well formed, and the updater writes only once it has taken every map.   *)
THEOREM LedgerTypeOK == Spec => []TypeOK
<1>1. Init => TypeOK
    BY InitType
<1>2. TypeOK /\ [Next]_vars => TypeOK'
    BY TypeStep
<1> QED BY <1>1, <1>2, PTL DEF Spec

-----------------------------------------------------------------------------
(* What the updater holds.                                                 *)

(* No batch is taken at the start. *)
LEMMA BatchInit == Init => BatchIsHandled
BY DEF Init, BatchIsHandled, Zero

(* A step beside the updater keeps its batch handled. *)
LEMMA BatchUntouched ==
    ASSUME BatchIsHandled, UNCHANGED <<batch, updater>>
    PROVE  BatchIsHandled'
BY DEF BatchIsHandled

(* Every step keeps it handled. *)
LEMMA BatchStep ==
    ASSUME TypeOK, BatchIsHandled, [Next]_vars
    PROVE  BatchIsHandled'
<1>1. ASSUME NEW c \in Calls, CallStep(c) PROVE BatchIsHandled'
    BY <1>1, BatchUntouched
    DEF CallStep, Change, AddNewRecord, UpdateColumn, Transact, Override, ReadTTL, HIncrBy, ledger
<1>2. CASE Wake
    BY <1>2 DEF Wake, BatchIsHandled
<1>3. ASSUME NEW k \in Cols, Take(k) PROVE BatchIsHandled'
    BY <1>3 DEF Take, BatchIsHandled, TypeOK
<1>4. CASE WriteToken
    BY <1>4 DEF WriteToken, Write, BatchIsHandled, TypeOK, Cols, UserCols
<1>5. CASE WriteUser
    BY <1>5 DEF WriteUser, Write, BatchIsHandled, TypeOK, Cols, UserCols
<1>6. ASSUME NEW l \in Loads, LoadStep(l) PROVE BatchIsHandled'
    BY <1>6, BatchUntouched
    DEF LoadStep, ReadHash, Invalidate, ReadUser, ReadQuota, Populate, SetQuotaTTL, SetQuota, ledger
<1>7. CASE Expire
    BY <1>7, BatchUntouched DEF Expire, ledger
<1>8. CASE Crash
    BY <1>8 DEF Crash, BatchIsHandled, Zero
<1>9. CASE UNCHANGED vars
    BY <1>9, BatchUntouched DEF vars
<1> QED
    BY <1>1, <1>2, <1>3, <1>4, <1>5, <1>6, <1>7, <1>8, <1>9, NextCases DEF UpdaterStep

(* What batchUpdate has taken out of the maps it writes or drops before it *)
(* sleeps again.                                                           *)
THEOREM LedgerBatchIsHandled == Spec => []BatchIsHandled
<1>1. Init => BatchIsHandled
    BY BatchInit
<1>2. TypeOK /\ BatchIsHandled /\ [Next]_vars => BatchIsHandled'
    BY BatchStep
<1> QED BY <1>1, <1>2, LedgerTypeOK, PTL DEF Spec

-----------------------------------------------------------------------------
(* The hash.                                                               *)

(* No step makes a load use a partial hash. *)
LEMMA SeenStep ==
    ASSUME TypeOK, PartialHashNotUsed, [Next]_vars
    PROVE  PartialHashNotUsed'
<1>1. ASSUME NEW c \in Calls, CallStep(c) PROVE PartialHashNotUsed'
    BY <1>1 DEF PartialHashNotUsed, CallStep, Change, AddNewRecord, UpdateColumn, Transact, Override,
       ReadTTL, HIncrBy, cache
<1>2. CASE UpdaterStep
    BY <1>2 DEF PartialHashNotUsed, UpdaterStep, Wake, Take, WriteToken, WriteUser, Write, cache
<1>3. ASSUME NEW l \in Loads, LoadStep(l) PROVE PartialHashNotUsed'
    BY <1>3 DEF PartialHashNotUsed, LoadStep, ReadHash, Invalidate, ReadUser, ReadQuota, Populate,
       SetQuotaTTL, SetQuota
<1>4. CASE Expire \/ Crash \/ UNCHANGED vars
    BY <1>4 DEF PartialHashNotUsed, Expire, Crash, vars
<1> QED BY <1>1, <1>2, <1>3, <1>4, NextCases

(* GetUserCache never returns a hash that has only the quota.              *)
THEOREM LedgerPartialHashNotUsed == Spec => []PartialHashNotUsed
<1>1. Init => PartialHashNotUsed
    BY DEF Init, PartialHashNotUsed
<1>2. TypeOK /\ PartialHashNotUsed /\ [Next]_vars => PartialHashNotUsed'
    BY SeenStep
<1> QED BY <1>1, <1>2, LedgerTypeOK, PTL DEF Spec

-----------------------------------------------------------------------------
(* The ledger implements QuotaAccount.                                     *)

Held == [k \in Cols |-> store[k] + batch[k]]
Booked == {c \in Calls : call[c].pc = "booked"}
account == <<db, Held, Booked, failures>>

(* A call that is about to write has one of the amounts.                   *)
WritesAmount == \A c \in Calls : call[c].pc = "write" => call[c].amount \in Amounts

(* A call about to write holds one of the amounts. *)
LEMMA AmountStep ==
    ASSUME TypeOK, WritesAmount, [Next]_vars
    PROVE  WritesAmount'
<1>1. ASSUME NEW c \in Calls, CallStep(c) PROVE WritesAmount'
    <2>1. CASE Change(c)
        BY <2>1 DEF Change, WritesAmount, TypeOK
    <2>2. CASE AddNewRecord(c)
        BY <2>2 DEF AddNewRecord, WritesAmount, TypeOK
    <2>3. CASE UpdateColumn(c)
        BY <2>3 DEF UpdateColumn, WritesAmount, TypeOK
    <2>4. CASE ReadTTL(c)
        BY <2>4 DEF ReadTTL, WritesAmount, TypeOK
    <2>5. CASE HIncrBy(c)
        BY <2>5 DEF HIncrBy, WritesAmount, TypeOK
    <2>6. CASE Transact(c)
        BY <2>6 DEF Transact, WritesAmount, TypeOK
    <2>7. CASE Override(c)
        BY <2>7 DEF Override, WritesAmount, TypeOK
    <2> QED BY <1>1, <2>1, <2>2, <2>3, <2>4, <2>5, <2>6, <2>7 DEF CallStep
<1>2. CASE UNCHANGED call
    BY <1>2 DEF WritesAmount
<1>3. UpdaterStep => UNCHANGED call
    BY DEF UpdaterStep, Wake, Take, WriteToken, WriteUser, Write
<1>4. ASSUME NEW l \in Loads, LoadStep(l) PROVE UNCHANGED call
    BY <1>4 DEF LoadStep, ReadHash, Invalidate, ReadUser, ReadQuota, Populate, SetQuotaTTL, SetQuota
<1>5. CASE Crash
    <2>1. call' = [c \in Calls |->
            [call[c] EXCEPT !.pc = IF @ = "write" THEN "failed" ELSE @, !.incr = "none"]]
        BY <1>5, Zenon DEF Crash
    <2>2. ASSUME NEW c \in Calls PROVE call'[c].pc # "write"
        BY <2>1 DEF TypeOK
    <2> QED BY <2>2 DEF WritesAmount
<1>6. Expire \/ UNCHANGED vars => UNCHANGED call
    BY DEF Expire, vars
<1> QED BY <1>1, <1>2, <1>3, <1>4, <1>5, <1>6, NextCases

(* What the maps and the batch hold is an integer per column. *)
LEMMA HeldType ==
    ASSUME TypeOK
    PROVE  Held \in [Cols -> Int]
BY DEF TypeOK, Held

(* A failure that leaves the column alone may lose what was held. *)
LEMMA LoseStep ==
    ASSUME TypeOK', failures' = failures + 1, UNCHANGED <<db, Booked>>
    PROVE  Account!ANext
<1>1. Held' \in [Cols -> Int]
    BY DEF TypeOK, Held
<1> QED BY <1>1 DEF Account!ANext, Account!Lose, Held, Booked

(* A booking of a call is a step of the account. *)
LEMMA BookStep ==
    ASSUME NEW c \in Calls, NEW k \in Cols, NEW a \in Amounts,
           Account!Book(c, k, a) \/ Account!Reset(c, k, a)
    PROVE  Account!ANext
BY Zenon DEF Account!ANext

(* A call that writes was not booked before. *)
LEMMA BookedBy ==
    ASSUME TypeOK, NEW c \in Calls, call[c].pc = "write",
           call' = [call EXCEPT ![c].pc = "booked"]
    PROVE  c \notin Booked /\ Booked' = Booked \cup {c}
BY DEF Booked, TypeOK

(* Other steps of a call book nothing. *)
LEMMA BookedKept ==
    ASSUME TypeOK, NEW c \in Calls, NEW r, call' = [call EXCEPT ![c] = r],
           call[c].pc = "booked" <=> r.pc = "booked"
    PROVE  Booked' = Booked
BY DEF Booked, TypeOK

(* A step of a change is a step of the account, or none. *)
LEMMA CallStepAccount ==
    ASSUME TypeOK, TypeOK', WritesAmount, NEW c \in Calls, CallStep(c)
    PROVE  Account!ANext \/ UNCHANGED account
<1>0. call[c] \in CallRecords
    BY DEF TypeOK, CallRecords
<1>1. CASE Change(c)
    <2>1. PICK k \in Cols, a \in Amounts :
            call' = [call EXCEPT ![c] = [pc |-> "write", col |-> k, amount |-> a,
                                         incr |-> IF k = "quota" THEN "queued" ELSE "none"]]
        BY <1>1 DEF Change
    <2>2. Booked' = Booked
        BY <1>1, <2>1, BookedKept DEF Change
    <2> QED BY <1>1, <2>2 DEF Change, account, Held, ledger, NoFault
<1>2. CASE AddNewRecord(c)
    <2>0. call[c].col \in Cols /\ call[c].amount \in Amounts
        BY <1>0, <1>2 DEF AddNewRecord, WritesAmount, CallRecords
    <2>1. PICK k \in Cols, a \in Amounts : k = call[c].col /\ a = call[c].amount
        BY <2>0
    <2>2. c \notin Booked /\ Booked' = Booked \cup {c}
        BY <1>2, BookedBy DEF AddNewRecord
    <2>3. Held' = [Held EXCEPT ![k] = @ + a]
        BY <1>2, <2>1, LedgerAssumption DEF AddNewRecord, Add, Held, TypeOK
    <2>4. db' = db /\ failures' = failures
        BY <1>2 DEF AddNewRecord, NoFault
    <2>5. Account!Book(c, k, a)
        BY <2>2, <2>3, <2>4 DEF Account!Book, Account!Add, Held, Booked
    <2> QED BY <2>1, <2>5, BookStep, Zenon
<1>3. CASE UpdateColumn(c)
    <2>0. call[c].col \in Cols /\ call[c].amount \in Amounts
        BY <1>0, <1>3 DEF UpdateColumn, WritesAmount, CallRecords
    <2>1. PICK k \in Cols, a \in Amounts : k = call[c].col /\ a = call[c].amount
        BY <2>0
    <2>2. Held' = Held
        BY <1>3 DEF UpdateColumn, Held
    <2>3. CASE db' = Add(db, k, a) /\ call' = [call EXCEPT ![c].pc = "booked"] /\ NoFault
        <3>1. c \notin Booked /\ Booked' = Booked \cup {c}
            BY <1>3, <2>3, BookedBy DEF UpdateColumn
        <3>2. Account!Book(c, k, a)
            BY <2>2, <2>3, <3>1 DEF Account!Book, Account!Add, Add, NoFault, Held, Booked
        <3> QED BY <2>1, <3>2, BookStep, Zenon
    <2>4. CASE Fault /\ call' = [call EXCEPT ![c].pc = "failed"] /\ db' = db
        <3>1. Booked' = Booked
            BY <1>3, <2>4 DEF UpdateColumn, Booked, TypeOK
        <3> QED BY <2>4, <3>1, LoseStep DEF Fault
    <2> QED BY <1>3, <2>1, <2>3, <2>4 DEF UpdateColumn
<1>4. CASE ReadTTL(c) \/ HIncrBy(c)
    <2>1. Booked' = Booked
        <3>1. PICK i : call' = [call EXCEPT ![c].incr = i]
            BY <1>4 DEF ReadTTL, HIncrBy
        <3> QED BY <3>1 DEF Booked, TypeOK
    <2>2. UNCHANGED <<db, Held>>
        BY <1>4 DEF ReadTTL, HIncrBy, ledger, Held
    <2>3. failures' = failures + 1 \/ failures' = failures
        BY <1>4 DEF ReadTTL, HIncrBy, Failed, Fault, NoFault
    <2> QED BY <2>1, <2>2, <2>3, LoseStep DEF account
<1>5. CASE Transact(c) \/ Override(c)
    <2>1. Held' = Held /\ call[c].pc = "new"
        BY <1>5 DEF Transact, Override, Held
    <2>2. CASE Fault /\ call' = [call EXCEPT ![c].pc = "failed"] /\ db' = db
        <3>1. Booked' = Booked
            BY <2>1, <2>2 DEF Booked, TypeOK
        <3> QED BY <2>2, <3>1, LoseStep DEF Fault
    <2>3. ASSUME NEW a \in Amounts, NoFault, call'[c].pc = "booked",
                 \A d \in Calls \ {c} : call'[d] = call[d],
                 db' = Add(db, "quota", a) \/ db' = [db EXCEPT !["quota"] = a]
          PROVE  Account!ANext
        <3>1. c \notin Booked /\ Booked' = Booked \cup {c}
            BY <2>1, <2>3 DEF Booked
        <3>2. Account!Book(c, "quota", a) \/ Account!Reset(c, "quota", a)
            BY <2>1, <2>3, <3>1
            DEF Account!Book, Account!Reset, Account!Add, Add, NoFault, Held, Booked
        <3> QED BY <3>2, BookStep DEF Cols
    <2>4. CASE Transact(c)
        BY <2>2, <2>3, <2>4 DEF Transact, TypeOK
    <2>5. CASE Override(c)
        BY <2>2, <2>3, <2>5 DEF Override, TypeOK
    <2> QED BY <1>5, <2>4, <2>5
<1> QED BY <1>1, <1>2, <1>3, <1>4, <1>5 DEF CallStep

(* A write of the updater moves what was held to the column, or loses it. *)
LEMMA WriteAccount ==
    ASSUME TypeOK, TypeOK', NEW ks \in SUBSET Cols, NEW next, Write(ks, next)
    PROVE  Account!ANext
<1>1. Booked' = Booked
    BY DEF Write, Booked
<1>2. CASE Fault /\ UNCHANGED db
    BY <1>1, <1>2, LoseStep DEF Fault
<1>3. CASE NoFault /\ db' = [k \in Cols |-> IF k \in ks THEN db[k] + batch[k] ELSE db[k]]
    <2>1. ASSUME NEW k \in Cols PROVE db'[k] + Held'[k] = db[k] + Held[k]
        <3>1. batch'[k] = (IF k \in ks THEN 0 ELSE batch[k]) /\ store'[k] = store[k]
            BY DEF Write
        <3>2. db[k] \in Int /\ batch[k] \in Int /\ store[k] \in Int
            BY DEF TypeOK
        <3>3. db'[k] = IF k \in ks THEN db[k] + batch[k] ELSE db[k]
            BY <1>3
        <3>4. Held'[k] = store'[k] + batch'[k] /\ Held[k] = store[k] + batch[k]
            BY DEF Held
        <3> QED BY <3>1, <3>2, <3>3, <3>4
    <2>2. db' \in [Cols -> Int] /\ Held' \in [Cols -> Int]
        BY DEF TypeOK, Held
    <2>3. Account!Save
        BY <1>1, <1>3, <2>1, <2>2 DEF Account!Save, Held, Booked, NoFault
    <2> QED BY <2>3 DEF Account!ANext
<1> QED BY <1>2, <1>3 DEF Write

(* A step of the updater is a step of the account, or none. *)
LEMMA UpdaterStepAccount ==
    ASSUME TypeOK, TypeOK', BatchIsHandled, UpdaterStep
    PROVE  Account!ANext \/ UNCHANGED account
<1>1. CASE Wake
    BY <1>1 DEF Wake, account, Held, Booked, NoFault
<1>2. ASSUME NEW k \in Cols, Take(k) PROVE UNCHANGED account
    <2>1. k \notin updater.taken
        BY <1>2 DEF Take, TakenBefore, Cols
    <2>2. batch[k] = 0
        BY <2>1 DEF BatchIsHandled
    <2>3. Held' = Held
        BY <1>2, <2>2 DEF Take, Held, TypeOK
    <2> QED BY <1>2, <2>3 DEF Take, account, Booked, NoFault
<1>3. CASE WriteToken
    BY <1>3, WriteAccount DEF WriteToken, Cols
<1>4. CASE WriteUser
    BY <1>4, WriteAccount DEF WriteUser, UserCols, Cols
<1> QED BY <1>1, <1>2, <1>3, <1>4 DEF UpdaterStep

(* A load does not touch the account. *)
LEMMA LoadStepAccount ==
    ASSUME TypeOK, TypeOK', NEW l \in Loads, LoadStep(l)
    PROVE  Account!ANext \/ UNCHANGED account
<1>1. UNCHANGED <<ledger, call>>
    BY DEF LoadStep, ReadHash, Invalidate, ReadUser, ReadQuota, Populate, SetQuotaTTL, SetQuota
<1>2. failures' = failures + 1 \/ failures' = failures
    BY DEF LoadStep, ReadHash, Invalidate, ReadUser, ReadQuota, Populate, SetQuotaTTL, SetQuota,
       Fault, NoFault
<1>3. UNCHANGED <<db, Held, Booked>>
    BY <1>1 DEF ledger, Held, Booked
<1> QED BY <1>2, <1>3, LoseStep DEF account

(* Every step is a step of the account, or none. *)
LEMMA NextAccount ==
    ASSUME TypeOK, TypeOK', BatchIsHandled, WritesAmount, [Next]_vars
    PROVE  Account!ANext \/ UNCHANGED account
<1>1. CASE Expire
    BY <1>1 DEF Expire, ledger, account, Held, Booked, NoFault
<1>2. CASE Crash
    <2>1. call' = [c \in Calls |->
            [call[c] EXCEPT !.pc = IF @ = "write" THEN "failed" ELSE @, !.incr = "none"]]
        BY <1>2, Zenon DEF Crash
    <2>2. ASSUME NEW c \in Calls PROVE call'[c].pc = "booked" <=> call[c].pc = "booked"
        <3>1. call[c] \in CallRecords
            BY DEF TypeOK, CallRecords
        <3>2. call'[c].pc = IF call[c].pc = "write" THEN "failed" ELSE call[c].pc
            BY <2>1, <3>1 DEF CallRecords
        <3> QED BY <3>2
    <2>3. Booked' = Booked
        BY <2>2 DEF Booked
    <2>4. Fault /\ db' = db
        BY <1>2, Zenon DEF Crash
    <2> QED BY <2>3, <2>4, LoseStep DEF Fault
<1>3. CASE UNCHANGED vars
    BY <1>3 DEF vars, account, Held, Booked
<1> QED BY <1>1, <1>2, <1>3, NextCases, CallStepAccount, UpdaterStepAccount, LoadStepAccount

(* Every change of a quota column is booked once and moves from the maps   *)
(* of the batch updater into the column without gain or loss; only a       *)
(* failing statement or a crash loses what is in memory, and leaves the    *)
(* columns as they are.                                                    *)
THEOREM LedgerKeepsAccount == Spec => KeepsAccount
<1>1. Init => Account!AInit
    BY DEF Init, Account!AInit, Zero, Cols, NoCall
<1>2. Init => WritesAmount
    BY DEF Init, WritesAmount, NoCall
<1>3. TypeOK /\ WritesAmount /\ [Next]_vars => WritesAmount'
    BY AmountStep
<1>4. TypeOK /\ TypeOK' /\ BatchIsHandled /\ WritesAmount /\ [Next]_vars
        => [Account!ANext]_(Account!avars)
    BY NextAccount DEF account, Held, Booked, Account!avars
<1> QED
    BY <1>1, <1>2, <1>3, <1>4, LedgerTypeOK, LedgerBatchIsHandled, PTL
    DEF Spec, KeepsAccount, Account!ASpec

-----------------------------------------------------------------------------
(* Sums over finite sets.  Total is a fold, which takes the elements of a  *)
(* set one by one; that it does not depend on the order is shown by        *)
(* looking at a smallest set for which it would.                           *)

(* The fold: f gives the sum for every subset of S. *)
First(s) == CHOOSE x \in s : TRUE
Sums(f, a, S) == f = [s \in SUBSET S |-> IF s = {} THEN 0
                                         ELSE a[First(s)] + f[s \ {First(s)}]]

(* A fold that exists is what Total is taken from. *)
LEMMA TotalUnfold ==
    ASSUME NEW a, NEW S, \E f : Sums(f, a, S)
    PROVE  \E f : Sums(f, a, S) /\ Total(a, S) = f[S]
<1> DEFINE g == CHOOSE f : Sums(f, a, S)
<1>1. Sums(g, a, S)
  OBVIOUS
<1>2. Total(a, S) = g[S]
  BY DEF Total, MapThenSumSet, MapThenFoldSet, Sums, First
<1> QED
  BY <1>1, <1>2

(* A family of subsets of a finite set has a smallest member. *)
LEMMA LeastSet ==
    ASSUME NEW S, IsFiniteSet(S), NEW Bad \in SUBSET (SUBSET S), Bad # {}
    PROVE  \E T \in Bad : \A U \in Bad : ~(U \subseteq T /\ U # T)
<1>1. IsWellFoundedOn(StrictSubsetOrdering(S), FiniteSubsetsOf(S))
  BY FS_StrictSubsetOrderingWellFounded
<1>2. Bad \subseteq FiniteSubsetsOf(S)
  BY FS_Subset DEF FiniteSubsetsOf
<1>3. \E T \in Bad : \A U \in Bad : ~(<<U, T>> \in StrictSubsetOrdering(S))
  BY <1>1, <1>2, WFMin
<1>4. \A T, U \in Bad : U \subseteq T /\ U # T => <<U, T>> \in StrictSubsetOrdering(S)
  BY <1>2 DEF StrictSubsetOrdering, FiniteSubsetsOf
<1> QED
  BY <1>3, <1>4

(* Two such functions agree where both are defined. *)
LEMMA SumsAgree ==
    ASSUME NEW S, IsFiniteSet(S), NEW a, NEW T, NEW f, NEW g, NEW s,
           Sums(f, a, S), Sums(g, a, T), s \in SUBSET S, s \in SUBSET T
    PROVE  f[s] = g[s]
<1> DEFINE Bad == {u \in SUBSET s : f[u] # g[u]}
<1> SUFFICES ASSUME Bad # {} PROVE FALSE
  OBVIOUS
<1>1. IsFiniteSet(s)
  BY FS_Subset
<1>0. Bad \in SUBSET (SUBSET s)
  OBVIOUS
<1> HIDE DEF Bad
<1>2. PICK u \in Bad : \A v \in Bad : ~(v \subseteq u /\ v # u)
  BY <1>0, <1>1, LeastSet
<1> USE DEF Bad
<1>3. u \subseteq S /\ u \subseteq T /\ u \subseteq s
  OBVIOUS
<1>4. CASE u = {}
  BY <1>3, <1>4 DEF Sums
<1>5. CASE u # {}
  <2> DEFINE v == u \ {First(u)}
  <2>1. First(u) \in u
    BY <1>5 DEF First
  <2>2. v \in SUBSET s /\ v # u /\ v \subseteq u
    BY <1>3, <2>1
  <2>3. f[v] = g[v]
    BY <1>2, <2>2
  <2>4. f[u] = a[First(u)] + f[v]
    BY <1>3, <1>5 DEF Sums
  <2>5. g[u] = a[First(u)] + g[v]
    BY <1>3, <1>5 DEF Sums
  <2> QED
    BY <2>3, <2>4, <2>5
<1> QED
  BY <1>4, <1>5

(* Every finite set has one. *)
LEMMA SumsExist ==
    ASSUME NEW S, IsFiniteSet(S), NEW a
    PROVE  \E f : Sums(f, a, S)
<1> DEFINE Bad == {T \in SUBSET S : ~\E f : Sums(f, a, T)}
<1> SUFFICES ASSUME Bad # {} PROVE FALSE
  OBVIOUS
<1>0. Bad \in SUBSET (SUBSET S)
  OBVIOUS
<1> HIDE DEF Bad
<1>1. PICK T \in Bad : \A U \in Bad : ~(U \subseteq T /\ U # T)
  BY <1>0, LeastSet
<1> USE DEF Bad
<1> DEFINE h(U) == CHOOSE f : Sums(f, a, U)
<1>2. ASSUME NEW U \in SUBSET T, U # T
      PROVE  Sums(h(U), a, U)
  <2>1. U \in SUBSET S /\ U \notin Bad
    BY <1>1, <1>2
  <2>2. \E f : Sums(f, a, U)
    BY <2>1
  <2> QED
    BY <2>2
<1> HIDE DEF h
<1> DEFINE rest(s) == s \ {First(s)}
           f == [s \in SUBSET T |-> IF s = {} THEN 0 ELSE a[First(s)] + h(rest(s))[rest(s)]]
<1>3. ASSUME NEW u \in SUBSET T, u # T
      PROVE  f[u] = h(u)[u]
  <2>1. Sums(h(u), a, u)
    BY <1>2, <1>3
  <2>2. CASE u = {}
    <3>1. h(u)[u] = 0
      BY <2>1, <2>2 DEF Sums
    <3> QED
      BY <2>2, <3>1
  <2>3. CASE u # {}
    <3>1. First(u) \in u
      BY <2>3 DEF First
    <3>2. rest(u) \in SUBSET u /\ rest(u) \in SUBSET T /\ rest(u) # T
      BY <3>1
    <3>3. Sums(h(rest(u)), a, rest(u))
      BY <1>2, <3>2
    <3>4. IsFiniteSet(u)
      BY FS_Subset
    <3>5. h(u)[rest(u)] = h(rest(u))[rest(u)]
      BY <2>1, <3>2, <3>3, <3>4, SumsAgree
    <3>6. h(u)[u] = a[First(u)] + h(u)[rest(u)]
      BY <2>1, <2>3 DEF Sums
    <3>7. f[u] = a[First(u)] + h(rest(u))[rest(u)]
      BY <2>3
    <3> QED
      BY <3>5, <3>6, <3>7
  <2> QED
    BY <2>2, <2>3
<1>4. ASSUME NEW s \in SUBSET T
      PROVE  f[s] = IF s = {} THEN 0 ELSE a[First(s)] + f[rest(s)]
  <2>1. CASE s = {}
    BY <2>1
  <2>2. CASE s # {}
    <3>1. First(s) \in s
      BY <2>2 DEF First
    <3>2. rest(s) \in SUBSET T /\ rest(s) # T
      BY <3>1
    <3>3. f[rest(s)] = h(rest(s))[rest(s)]
      BY <1>3, <3>2
    <3>4. f[s] = a[First(s)] + h(rest(s))[rest(s)]
      BY <2>2
    <3> QED
      BY <2>2, <3>3, <3>4
  <2> QED
    BY <2>1, <2>2
<1>5. f = [s \in SUBSET T |-> f[s]]
  OBVIOUS
<1> HIDE DEF f
<1>6. f = [s \in SUBSET T |-> IF s = {} THEN 0 ELSE a[First(s)] + f[rest(s)]]
  BY <1>4, <1>5
<1>7. Sums(f, a, T)
  BY <1>6 DEF Sums
<1> QED
  BY <1>7

(* One function gives the totals of all subsets. *)
LEMMA TotalIsSum ==
    ASSUME NEW S, IsFiniteSet(S), NEW a
    PROVE  \E f : Sums(f, a, S) /\ \A s \in SUBSET S : Total(a, s) = f[s]
<1>1. PICK f : Sums(f, a, S)
  BY SumsExist
<1>2. ASSUME NEW s \in SUBSET S
      PROVE  Total(a, s) = f[s]
  <2>1. IsFiniteSet(s)
    BY FS_Subset
  <2>2. PICK g : Sums(g, a, s) /\ Total(a, s) = g[s]
    BY <2>1, SumsExist, TotalUnfold
  <2>3. f[s] = g[s]
    BY <1>1, <2>2, SumsAgree
  <2> QED
    BY <2>2, <2>3
<1> QED
  BY <1>1, <1>2

(* Nothing adds up to nothing. *)
LEMMA TotalEmpty == ASSUME NEW a PROVE Total(a, {}) = 0
<1>1. IsFiniteSet({})
  BY FS_EmptySet
<1>2. PICK f : Sums(f, a, {}) /\ \A s \in SUBSET {} : Total(a, s) = f[s]
  BY <1>1, TotalIsSum
<1>3. f[{}] = 0
  BY <1>2 DEF Sums
<1> QED
  BY <1>2, <1>3

(* The total of a set is that of the rest and its first element. *)
LEMMA TotalStep ==
    ASSUME NEW S, IsFiniteSet(S), NEW a, S # {}
    PROVE  First(S) \in S /\ Total(a, S) = a[First(S)] + Total(a, S \ {First(S)})
<1>1. PICK f : Sums(f, a, S) /\ \A s \in SUBSET S : Total(a, s) = f[s]
  BY TotalIsSum
<1>2. f[S] = a[First(S)] + f[S \ {First(S)}]
  BY <1>1 DEF Sums
<1>3. First(S) \in S
  BY DEF First
<1> QED
  BY <1>1, <1>2, <1>3

(* The total of integers is an integer. *)
LEMMA TotalType ==
    ASSUME NEW S, IsFiniteSet(S), NEW a, \A x \in S : a[x] \in Int
    PROVE  Total(a, S) \in Int
<1> DEFINE Bad == {s \in SUBSET S : Total(a, s) \notin Int}
<1> SUFFICES ASSUME Bad # {} PROVE FALSE
  OBVIOUS
<1>1. Bad \in SUBSET (SUBSET S)
  OBVIOUS
<1> HIDE DEF Bad
<1>2. PICK u \in Bad : \A v \in Bad : ~(v \subseteq u /\ v # u)
  BY <1>1, LeastSet
<1> USE DEF Bad
<1>3. CASE u = {}
  BY <1>2, <1>3, TotalEmpty
<1>4. CASE u # {}
  <2> DEFINE v == u \ {First(u)}
  <2>1. IsFiniteSet(u)
    BY <1>2, FS_Subset
  <2>2. First(u) \in u /\ Total(a, u) = a[First(u)] + Total(a, v)
    BY <1>4, <2>1, TotalStep
  <2>3. Total(a, v) \in Int
    BY <1>2, <2>2
  <2>4. a[First(u)] \in Int
    BY <2>2
  <2> QED
    BY <2>2, <2>3, <2>4
<1> QED
  BY <1>3, <1>4

(* It does not matter in which order the elements are taken. *)
LEMMA TotalAdd ==
    ASSUME NEW S, IsFiniteSet(S), NEW a, \A x \in S : a[x] \in Int,
           NEW y \in S
    PROVE  Total(a, S) = a[y] + Total(a, S \ {y})
<1> DEFINE Bad == {s \in SUBSET S : \E x \in s : Total(a, s) # a[x] + Total(a, s \ {x})}
<1> SUFFICES ASSUME Bad # {} PROVE FALSE
  OBVIOUS
<1>1. Bad \in SUBSET (SUBSET S)
  OBVIOUS
<1> HIDE DEF Bad
<1>2. PICK u \in Bad : \A v \in Bad : ~(v \subseteq u /\ v # u)
  BY <1>1, LeastSet
<1> USE DEF Bad
<1>3. PICK x \in u : Total(a, u) # a[x] + Total(a, u \ {x})
  BY <1>2
<1> DEFINE p == First(u)
<1>4. u \subseteq S /\ \A s \in SUBSET u : IsFiniteSet(s)
  BY FS_Subset
<1>5. p \in u /\ Total(a, u) = a[p] + Total(a, u \ {p})
  BY <1>4, TotalStep
<1> HIDE DEF p
<1>6. p # x
  BY <1>3, <1>5
<1> DEFINE w == (u \ {p}) \ {x}
<1>7. w = (u \ {x}) \ {p}
  OBVIOUS
<1>8. ASSUME NEW v \in SUBSET u, v # u, NEW z \in v
      PROVE  Total(a, v) = a[z] + Total(a, v \ {z})
  <2>1. v \in SUBSET S /\ v \notin Bad
    BY <1>2, <1>4, <1>8
  <2> QED
    BY <2>1
<1>9. Total(a, u \ {p}) = a[x] + Total(a, w)
  <2>1. u \ {p} \in SUBSET u /\ u \ {p} # u /\ x \in u \ {p}
    BY <1>5, <1>6
  <2> QED
    BY <1>8, <2>1
<1>10. Total(a, u \ {x}) = a[p] + Total(a, w)
  <2>1. u \ {x} \in SUBSET u /\ u \ {x} # u /\ p \in u \ {x}
    BY <1>5, <1>6
  <2> QED
    BY <1>7, <1>8, <2>1
<1>11. a[p] \in Int /\ a[x] \in Int
  BY <1>4, <1>5
<1>12. Total(a, w) \in Int
  <2>1. w \in SUBSET u
    OBVIOUS
  <2> QED
    BY <1>4, <2>1, TotalType
<1> HIDE DEF w, Bad
<1>13. a[p] + (a[x] + Total(a, w)) = a[x] + (a[p] + Total(a, w))
  BY <1>11, <1>12
<1> QED
  BY <1>3, <1>5, <1>9, <1>10, <1>13

(* Only the amounts of its elements count. *)
LEMMA TotalSame ==
    ASSUME NEW S, IsFiniteSet(S), NEW a, NEW b, \A x \in S : a[x] = b[x]
    PROVE  Total(a, S) = Total(b, S)
<1> DEFINE Bad == {s \in SUBSET S : Total(a, s) # Total(b, s)}
<1> SUFFICES ASSUME Bad # {} PROVE FALSE
  OBVIOUS
<1>1. Bad \in SUBSET (SUBSET S)
  OBVIOUS
<1> HIDE DEF Bad
<1>2. PICK u \in Bad : \A v \in Bad : ~(v \subseteq u /\ v # u)
  BY <1>1, LeastSet
<1> USE DEF Bad
<1>3. CASE u = {}
  BY <1>2, <1>3, TotalEmpty
<1>4. CASE u # {}
  <2> DEFINE v == u \ {First(u)}
  <2>1. IsFiniteSet(u)
    BY <1>2, FS_Subset
  <2>2. First(u) \in u /\ Total(a, u) = a[First(u)] + Total(a, v)
        /\ Total(b, u) = b[First(u)] + Total(b, v)
    BY <1>4, <2>1, TotalStep
  <2>3. Total(a, v) = Total(b, v)
    BY <1>2, <2>2
  <2>4. a[First(u)] = b[First(u)]
    BY <2>2
  <2> QED
    BY <1>2, <2>2, <2>3, <2>4
<1> QED
  BY <1>3, <1>4

-----------------------------------------------------------------------------
(* The cached quota follows the ledger.                                    *)

Balance == db["quota"] + store["quota"] + batch["quota"]
ToAdd == Total(amount, Adding)
ToWrite == Total(amount, Writing)

(* While a load is clean nothing is under way, and it has read the column. *)
NewInv == \A c \in Calls : call[c].pc = "new" => call[c].incr = "none"
Fresh(l) == load[l].pc \in {"populate", "ttl", "hset"} => load[l].quota = db["quota"]
CleanInv == clean # {} => Quiet /\ \A l \in clean : Fresh(l)
CacheInv == NewInv /\ CleanInv /\ CacheFollowsLedger

(* The totals of calls are integers. *)
LEMMA CallTotal ==
    ASSUME NEW a, \A c \in Calls : a[c] \in Int, NEW S \in SUBSET Calls
    PROVE  IsFiniteSet(S) /\ Total(a, S) \in Int
<1>1. IsFiniteSet(S)
    BY CallsAssumption, FS_Subset
<1> QED BY <1>1, TotalType

(* One call more, one call less, the same calls. *)
LEMMA TotalGains ==
    ASSUME NEW a, NEW b, NEW S \in SUBSET Calls, NEW T, NEW c \in Calls,
           \A d \in Calls : b[d] \in Int, c \notin S, T = S \cup {c},
           \A d \in S : a[d] = b[d]
    PROVE  Total(b, T) = b[c] + Total(a, S)
<1>1. T \in SUBSET Calls /\ T \ {c} = S /\ c \in T
    OBVIOUS
<1>2. IsFiniteSet(S) /\ IsFiniteSet(T)
    BY <1>1, CallTotal
<1>3. Total(b, T) = b[c] + Total(b, T \ {c})
    BY <1>1, <1>2, TotalAdd
<1>4. Total(a, S) = Total(b, S)
    BY <1>2, TotalSame
<1> QED BY <1>1, <1>3, <1>4

(* The total without one call. *)
LEMMA TotalLoses ==
    ASSUME NEW a, NEW b, NEW S \in SUBSET Calls, NEW T, NEW c \in S,
           \A d \in Calls : a[d] \in Int, T = S \ {c}, \A d \in T : a[d] = b[d]
    PROVE  Total(a, S) = a[c] + Total(b, T)
<1>1. T \in SUBSET Calls
    OBVIOUS
<1>2. IsFiniteSet(S) /\ IsFiniteSet(T)
    BY <1>1, CallTotal
<1>3. Total(a, S) = a[c] + Total(a, T)
    BY <1>2, TotalAdd
<1>4. Total(a, T) = Total(b, T)
    BY <1>2, TotalSame
<1> QED BY <1>3, <1>4

(* The total of calls whose amounts stay. *)
LEMMA TotalStays ==
    ASSUME NEW a, NEW b, NEW S \in SUBSET Calls, NEW T, T = S, \A d \in S : a[d] = b[d]
    PROVE  Total(a, S) = Total(b, T)
<1>1. IsFiniteSet(S)
    BY CallsAssumption, FS_Subset
<1> QED BY <1>1, TotalSame

(* The balance and the totals are integers. *)
LEMMA SumTypes ==
    ASSUME TypeOK
    PROVE  /\ \A c \in Calls : amount[c] \in Int /\ amount[c] = call[c].amount
           /\ Balance \in Int /\ ToAdd \in Int /\ ToWrite \in Int /\ hash.quota \in Int
           /\ missed \in Int /\ Adding \in SUBSET Calls /\ Writing \in SUBSET Calls
<1>1. ASSUME NEW c \in Calls PROVE amount[c] \in Int /\ amount[c] = call[c].amount
    <2>1. call[c].amount \in Amounts \cup {0}
        BY DEF TypeOK
    <2>2. CASE call[c].amount \in Amounts
        BY <2>2, LedgerAssumption DEF amount
    <2>3. CASE call[c].amount = 0
        BY <2>3 DEF amount
    <2> QED BY <2>1, <2>2, <2>3
<1>2. Adding \in SUBSET Calls /\ Writing \in SUBSET Calls
    BY DEF Adding, Writing
<1>3. ToAdd \in Int /\ ToWrite \in Int
    BY <1>1, <1>2, CallTotal DEF ToAdd, ToWrite
<1>4. Balance \in Int /\ hash.quota \in Int /\ missed \in Int
    BY DEF TypeOK, Balance, Cols
<1> QED BY <1>1, <1>2, <1>3, <1>4

(* The same, after a step *)
LEMMA SumTypesAfter ==
    ASSUME TypeOK'
    PROVE  /\ \A c \in Calls : amount'[c] \in Int /\ amount'[c] = call'[c].amount
           /\ Balance' \in Int /\ ToAdd' \in Int /\ ToWrite' \in Int /\ hash'.quota \in Int
           /\ missed' \in Int /\ Adding' \in SUBSET Calls /\ Writing' \in SUBSET Calls
<1>1. ASSUME NEW c \in Calls PROVE amount'[c] \in Int /\ amount'[c] = call'[c].amount
    <2>1. call'[c].amount \in Amounts \cup {0}
        BY DEF TypeOK
    <2>2. CASE call'[c].amount \in Amounts
        BY <2>2, LedgerAssumption DEF amount
    <2>3. CASE call'[c].amount = 0
        BY <2>3 DEF amount
    <2> QED BY <2>1, <2>2, <2>3
<1>2. Adding' \in SUBSET Calls /\ Writing' \in SUBSET Calls
    BY DEF Adding, Writing
<1>3. ToAdd' \in Int /\ ToWrite' \in Int
    BY <1>1, <1>2, CallTotal DEF ToAdd, ToWrite
<1>4. Balance' \in Int /\ hash'.quota \in Int /\ missed' \in Int
    BY DEF TypeOK, Balance, Cols
<1> QED BY <1>1, <1>2, <1>3, <1>4

(* CacheFollowsLedger in terms of the totals. *)
LEMMA FollowsDef ==
    CacheFollowsLedger <=>
        (hash.is = "whole" /\ exact = "yes" => hash.quota + ToAdd + missed = Balance + ToWrite)
BY DEF CacheFollowsLedger, ToAdd, ToWrite, Balance

(* The same after a step. *)
LEMMA FollowsAfter ==
    ASSUME hash'.is = "whole" /\ exact' = "yes" => hash'.quota + ToAdd' + missed' = Balance' + ToWrite'
    PROVE  CacheFollowsLedger'
BY DEF CacheFollowsLedger, ToAdd, ToWrite, Balance

(* Sums of integers, regrouped. *)
LEMMA Regroup ==
    ASSUME NEW h \in Int, NEW x \in Int, NEW m \in Int, NEW y \in Int, NEW n \in Int,
           NEW g \in Int, y + n = x + m + g
    PROVE  h + y + n = h + x + m + g
OBVIOUS

(* A change is still to be added to the hash and to be written. *)
LEMMA ChangeCache ==
    ASSUME TypeOK, TypeOK', CacheInv, NEW c \in Calls, Change(c)
    PROVE  CacheInv'
<1>1. PICK k \in Cols, a \in Amounts :
        call' = [call EXCEPT ![c] = [pc |-> "write", col |-> k, amount |-> a,
                                     incr |-> IF k = "quota" THEN "queued" ELSE "none"]]
    BY DEF Change
<1>2. /\ clean' = {} /\ hash' = hash /\ exact' = exact /\ Balance' = Balance
      /\ missed' = missed /\ call[c].pc = "new"
    BY DEF Change, ledger, Balance
<1>3. /\ call'[c].pc = "write" /\ call'[c].col = k /\ call'[c].amount = a
      /\ call'[c].incr = (IF k = "quota" THEN "queued" ELSE "none")
      /\ \A d \in Calls \ {c} : call'[d] = call[d]
    BY <1>1 DEF TypeOK
<1>4. c \notin Adding /\ c \notin Writing
    BY <1>2 DEF CacheInv, NewInv, Adding, Writing
<1>5. NewInv'
    BY <1>3 DEF CacheInv, NewInv
<1>6. CleanInv'
    BY <1>2 DEF CleanInv
<1>7. \A d \in Calls \ {c} : amount'[d] = amount[d]
    BY <1>3 DEF amount
<1>8. CASE k = "quota"
    <2>1. Adding' = Adding \cup {c} /\ Writing' = Writing \cup {c}
        BY <1>3, <1>8 DEF Adding, Writing
    <2>2. ToAdd' = amount'[c] + ToAdd
        BY <1>4, <1>7, <2>1, SumTypes, SumTypesAfter, TotalGains DEF ToAdd
    <2>3. ToWrite' = amount'[c] + ToWrite
        BY <1>4, <1>7, <2>1, SumTypes, SumTypesAfter, TotalGains DEF ToWrite
    <2>4. amount'[c] \in Int /\ ToAdd \in Int /\ ToWrite \in Int /\ Balance \in Int
          /\ hash.quota \in Int /\ missed \in Int
        BY SumTypes, SumTypesAfter
    <2>5. hash.quota + ToAdd + missed = Balance + ToWrite
            => hash.quota + (amount'[c] + ToAdd) + missed = Balance + (amount'[c] + ToWrite)
        BY <2>4
    <2> QED BY <1>2, <1>5, <1>6, <2>2, <2>3, <2>5, FollowsDef, FollowsAfter DEF CacheInv
<1>9. CASE k # "quota"
    <2>1. Adding' = Adding /\ Writing' = Writing
        BY <1>3, <1>4, <1>9 DEF Adding, Writing
    <2>2. ToAdd' = ToAdd /\ ToWrite' = ToWrite
        BY <1>4, <1>7, <2>1, SumTypes, TotalStays DEF ToAdd, ToWrite
    <2> QED BY <1>2, <1>5, <1>6, <2>2, FollowsDef, FollowsAfter DEF CacheInv
<1> QED BY <1>8, <1>9

(* A step of a call changes no amount.  If nothing was under way, nothing  *)
(* is afterwards.                                                          *)
LEMMA CallMoves ==
    ASSUME TypeOK, CacheInv, NEW c \in Calls,
           \A d \in Calls \ {c} : call'[d] = call[d],
           call'[c].amount = call[c].amount, call'[c].col = call[c].col,
           call'[c].pc # "write" \/ call'[c].pc = call[c].pc,
           call'[c].incr = "none" \/ call[c].incr # "none",
           call'[c].pc # "new" \/ call'[c].pc = call[c].pc
    PROVE  /\ amount' = amount /\ NewInv'
           /\ Quiet /\ store'["quota"] = 0 /\ batch'["quota"] = 0 => Quiet'
<1>1. amount' = amount
    BY DEF amount
<1>2. NewInv'
    BY DEF CacheInv, NewInv
<1>3. Quiet /\ store'["quota"] = 0 /\ batch'["quota"] = 0 => Quiet'
    BY DEF Quiet
<1> QED BY <1>1, <1>2, <1>3

(* The goroutine writes the column or its map: the amount moves from what  *)
(* is still to be written into the balance.                                *)
LEMMA WritesCache ==
    ASSUME TypeOK, TypeOK', CacheInv, NEW c \in Calls, call[c].pc = "write",
           call' = [call EXCEPT ![c].pc = "booked"],
           UNCHANGED <<batch, hash, load, clean, exact, missed>>,
           \/ store' = Add(store, call[c].col, call[c].amount) /\ db' = db
           \/ db' = Add(db, call[c].col, call[c].amount) /\ store' = store
    PROVE  CacheInv'
<1>1. /\ call'[c].pc = "booked" /\ call'[c].amount = call[c].amount
      /\ call'[c].col = call[c].col /\ call'[c].incr = call[c].incr
      /\ \A d \in Calls \ {c} : call'[d] = call[d]
    BY DEF TypeOK
<1>2. amount' = amount /\ NewInv'
    BY <1>1, CallMoves
<1>3. Adding' = Adding /\ Writing' = Writing \ {c}
    BY <1>1 DEF Adding, Writing
<1>4. ToAdd' = ToAdd
    BY <1>2, <1>3 DEF ToAdd
<1>5. call[c].col \in Cols
    BY DEF TypeOK
<1>6. CASE call[c].col = "quota"
    <2>1. c \in Writing
        BY <1>6 DEF Writing
    <2>2. ToWrite = amount[c] + ToWrite'
        BY <1>2, <1>3, <2>1, SumTypes, TotalLoses DEF ToWrite
    <2>3. Balance' = Balance + amount[c]
        <3>1. amount[c] \in Int /\ amount[c] = call[c].amount
            BY SumTypes
        <3>2. db["quota"] \in Int /\ store["quota"] \in Int /\ batch["quota"] \in Int
            BY DEF TypeOK, Cols
        <3>3. CASE store' = Add(store, call[c].col, call[c].amount) /\ db' = db
            <4>1. store'["quota"] = store["quota"] + amount[c]
                BY <1>5, <1>6, <3>1, <3>3 DEF Add, TypeOK
            <4> QED BY <3>1, <3>2, <3>3, <4>1 DEF Balance
        <3>4. CASE db' = Add(db, call[c].col, call[c].amount) /\ store' = store
            <4>1. db'["quota"] = db["quota"] + amount[c]
                BY <1>5, <1>6, <3>1, <3>4 DEF Add, TypeOK
            <4> QED BY <3>1, <3>2, <3>4, <4>1 DEF Balance
        <3> QED BY <3>3, <3>4
    <2>4. amount[c] \in Int /\ ToWrite' \in Int /\ Balance \in Int
        BY SumTypes, SumTypesAfter
    <2>5. Balance + ToWrite = Balance' + ToWrite'
        BY <2>2, <2>3, <2>4
    <2>6. ~Quiet
        BY <1>6 DEF Quiet
    <2>7. CleanInv'
        BY <2>6 DEF CacheInv, CleanInv
    <2> QED BY <1>2, <1>4, <2>5, <2>7, FollowsDef, FollowsAfter DEF CacheInv
<1>7. CASE call[c].col # "quota"
    <2>1. store'["quota"] = store["quota"] /\ db'["quota"] = db["quota"]
        BY <1>5, <1>7 DEF Add, TypeOK, Cols
    <2>2. Writing' = Writing
        BY <1>3, <1>7 DEF Writing
    <2>3. ToWrite' = ToWrite /\ Balance' = Balance
        BY <1>2, <2>1, <2>2 DEF ToWrite, Balance
    <2>4. Quiet => Quiet'
        BY <1>1, <2>1 DEF Quiet
    <2>5. CleanInv'
        BY <2>1, <2>4 DEF CacheInv, CleanInv, Fresh
    <2> QED BY <1>2, <1>4, <2>3, <2>5, FollowsDef, FollowsAfter DEF CacheInv
<1> QED BY <1>6, <1>7

(* Once a call has failed, or the hash is not whole, nothing is claimed of *)
(* the hash; the calls that are left stay quiet if they were.              *)
LEMMA NoClaim ==
    ASSUME NewInv', Quiet => Quiet', clean' = clean, load' = load,
           db'["quota"] = db["quota"], CacheInv, exact' = "no" \/ hash'.is # "whole"
    PROVE  CacheInv'
<1>1. CleanInv'
    BY DEF CacheInv, CleanInv, Fresh
<1>2. CacheFollowsLedger'
    BY FollowsAfter
<1> QED BY <1>1, <1>2 DEF CacheInv

(* The statement fails, or the goroutine for Redis reads the TTL. *)
LEMMA WriteFailsCache ==
    ASSUME TypeOK, CacheInv, NEW c \in Calls, call' = [call EXCEPT ![c].pc = "failed"],
           exact' = "no", UNCHANGED <<db, store, batch, hash, load, clean>>
    PROVE  CacheInv'
<1>1. /\ call'[c].pc = "failed" /\ call'[c].amount = call[c].amount
      /\ call'[c].col = call[c].col /\ call'[c].incr = call[c].incr
      /\ \A d \in Calls \ {c} : call'[d] = call[d]
    BY DEF TypeOK
<1>2. NewInv' /\ (Quiet => Quiet')
    <2>1. Quiet => store["quota"] = 0 /\ batch["quota"] = 0
        BY DEF Quiet
    <2> QED BY <1>1, <2>1, CallMoves
<1> QED BY <1>2, NoClaim

(* Reading the TTL: the amount is still to be added, or the hash misses it. *)
LEMMA ReadTTLCache ==
    ASSUME TypeOK, TypeOK', CacheInv, NEW c \in Calls, ReadTTL(c)
    PROVE  CacheInv'
<1>1. UNCHANGED <<db, store, batch, hash, load, clean>> /\ call[c].incr = "queued"
    BY DEF ReadTTL, ledger
<1>2. PICK i \in {"add", "none"} : call' = [call EXCEPT ![c].incr = i]
    BY DEF ReadTTL
<1>3. /\ call'[c].pc = call[c].pc /\ call'[c].amount = call[c].amount
      /\ call'[c].col = call[c].col /\ call'[c].incr = i
      /\ \A d \in Calls \ {c} : call'[d] = call[d]
    BY <1>2 DEF TypeOK
<1>4. amount' = amount /\ NewInv' /\ (Quiet => Quiet')
    <2>1. Quiet => store["quota"] = 0 /\ batch["quota"] = 0
        BY DEF Quiet
    <2> QED BY <1>1, <1>3, <2>1, CallMoves
<1>5. CASE exact' = "no"
    BY <1>1, <1>4, <1>5, NoClaim
<1>6. CASE exact' # "no"
    <2>1. /\ exact' = exact
          /\ \/ call' = [call EXCEPT ![c].incr = "add"] /\ missed' = missed
             \/ call' = [call EXCEPT ![c].incr = "none"] /\ missed' = missed + call[c].amount
        BY <1>6 DEF ReadTTL, Failed
    <2>2. Writing' = Writing /\ ToWrite' = ToWrite /\ Balance' = Balance
        BY <1>1, <1>3, <1>4 DEF Writing, ToWrite, Balance
    <2>3. CleanInv'
        BY <1>1, <1>4 DEF CacheInv, CleanInv, Fresh
    <2>4. ToAdd' + missed' = ToAdd + missed + 0
        <3>0. ToAdd \in Int /\ missed \in Int
            BY SumTypes
        <3>1. CASE call' = [call EXCEPT ![c].incr = "add"] /\ missed' = missed
            <4>1. call'[c].incr = "add"
                BY <3>1 DEF TypeOK
            <4>2. Adding' = Adding
                BY <1>1, <1>3, <4>1 DEF Adding
            <4> QED BY <1>4, <3>0, <3>1, <4>2 DEF ToAdd
        <3>2. CASE call' = [call EXCEPT ![c].incr = "none"] /\ missed' = missed + call[c].amount
            <4>1. call'[c].incr = "none"
                BY <3>2 DEF TypeOK
            <4>2. Adding' = Adding \ {c} /\ c \in Adding
                BY <1>1, <1>3, <4>1 DEF Adding
            <4>3. ToAdd = amount[c] + ToAdd'
                BY <1>4, <4>2, SumTypes, TotalLoses DEF ToAdd
            <4>4. amount[c] = call[c].amount /\ amount[c] \in Int /\ ToAdd' \in Int /\ missed \in Int
                BY SumTypes, SumTypesAfter
            <4> QED BY <3>2, <4>3, <4>4
        <3> QED BY <2>1, <3>1, <3>2
    <2>5. hash.quota + ToAdd' + missed' = hash.quota + ToAdd + missed
        <3>1. /\ hash.quota \in Int /\ ToAdd \in Int /\ missed \in Int
              /\ ToAdd' \in Int /\ missed' \in Int /\ 0 \in Int
            BY SumTypes, SumTypesAfter
        <3>2. hash.quota + ToAdd' + missed' = hash.quota + ToAdd + missed + 0
            <4>1. PICK h \in Int, x \in Int, m \in Int, y \in Int, n \in Int :
                    h = hash.quota /\ x = ToAdd /\ m = missed /\ y = ToAdd' /\ n = missed'
                BY <3>1, Zenon
            <4>2. y + n = x + m + 0
                BY <2>4, <4>1, Zenon
            <4>3. h + y + n = h + x + m + 0
                BY <4>2, Regroup
            <4> QED BY <4>1, <4>3, Zenon
        <3>3. hash.quota + ToAdd + missed \in Int
            BY <3>1
        <3> QED BY <3>2, <3>3
    <2> QED BY <1>1, <1>4, <2>1, <2>2, <2>3, <2>5, FollowsDef, FollowsAfter DEF CacheInv
<1> QED BY <1>5, <1>6

(* A transaction and an administrator's change: what the column gains the  *)
(* hash is still told, or misses.                                          *)
LEMMA DirectCache ==
    ASSUME TypeOK, TypeOK', CacheInv, NEW c \in Calls, Transact(c) \/ Override(c)
    PROVE  CacheInv'
<1>1. /\ clean' = {} /\ hash' = hash /\ exact' = exact /\ call[c].pc = "new"
      /\ UNCHANGED <<store, batch>>
    BY DEF Transact, Override
<1>2. c \notin Adding /\ c \notin Writing
    BY <1>1 DEF CacheInv, NewInv, Adding, Writing
<1>3. CleanInv'
    BY <1>1 DEF CleanInv
<1>4. /\ \A d \in Calls \ {c} : call'[d] = call[d]
      /\ call'[c].pc \in {"booked", "failed"}
    <2>1. CASE Transact(c)
        BY <2>1 DEF Transact, TypeOK
    <2>2. CASE Override(c)
        BY <2>2 DEF Override, TypeOK
    <2> QED BY <2>1, <2>2
<1>5. NewInv'
    BY <1>4 DEF CacheInv, NewInv
<1>6. \A d \in Calls \ {c} : amount'[d] = amount[d]
    BY <1>4 DEF amount
<1>7. Writing' = Writing
    BY <1>2, <1>4 DEF Writing
<1>8. ToWrite' = ToWrite
    BY <1>2, <1>6, <1>7, SumTypes, TotalStays DEF ToWrite
<1>9. /\ hash.quota \in Int /\ ToAdd \in Int /\ missed \in Int /\ Balance \in Int
      /\ ToWrite \in Int /\ db["quota"] \in Int /\ store["quota"] \in Int
      /\ batch["quota"] \in Int /\ ToAdd' \in Int /\ missed' \in Int /\ Balance' \in Int
    BY SumTypes, SumTypesAfter DEF TypeOK, Cols
<1>10. ASSUME call'[c].incr = "none" PROVE ToAdd' = ToAdd
    <2>1. Adding' = Adding
        BY <1>2, <1>4, <1>10 DEF Adding
    <2> QED BY <1>2, <1>6, <2>1, SumTypes, TotalStays DEF ToAdd
<1>11. \E g \in Int : Balance' = Balance + g /\ ToAdd' + missed' = ToAdd + missed + g
    <2>1. CASE db' = db /\ missed' = missed /\ call' = [call EXCEPT ![c].pc = "failed"]
        <3>1. call'[c].incr = "none"
            BY <1>1, <2>1 DEF TypeOK, CacheInv, NewInv
        <3>2. Balance' = Balance + 0 /\ ToAdd' + missed' = ToAdd + missed + 0
            BY <1>1, <1>9, <1>10, <2>1, <3>1 DEF Balance
        <3> QED BY <3>2
    <2>2. ASSUME NEW a \in Amounts, NEW told \in {"queued", "none"}, db' = Add(db, "quota", a),
                 call' = [call EXCEPT ![c] = [pc |-> "booked", col |-> "quota", amount |-> a,
                                             incr |-> told]],
                 missed' = IF told = "none" THEN missed + a ELSE missed
          PROVE  Balance' = Balance + a /\ ToAdd' + missed' = ToAdd + missed + a
        <3>1. a \in Int
            BY LedgerAssumption
        <3>2. db'["quota"] = db["quota"] + a
            BY <2>2 DEF Add, TypeOK, Cols
        <3>3. Balance' = Balance + a
            BY <1>1, <1>9, <3>1, <3>2 DEF Balance
        <3>4. call'[c].incr = told /\ call'[c].amount = a
            BY <2>2 DEF TypeOK
        <3>5. CASE told = "none"
            <4>1. ToAdd' = ToAdd /\ missed' = missed + a
                BY <1>10, <2>2, <3>4, <3>5
            <4>2. ToAdd + (missed + a) = ToAdd + missed + a
                BY <1>9, <3>1
            <4> QED BY <3>3, <4>1, <4>2
        <3>6. CASE told = "queued"
            <4>1. Adding' = Adding \cup {c}
                BY <1>4, <3>4, <3>6 DEF Adding
            <4>2. ToAdd' = amount'[c] + ToAdd /\ amount'[c] = a
                BY <1>2, <1>6, <3>4, <4>1, SumTypes, SumTypesAfter, TotalGains DEF ToAdd
            <4> QED BY <1>9, <2>2, <3>1, <3>3, <3>6, <4>2
        <3> QED BY <3>5, <3>6
    <2>3. ASSUME NEW a \in Amounts, db' = [db EXCEPT !["quota"] = a],
                 call' = [call EXCEPT ![c].pc = "booked"],
                 missed' = missed + (a - db["quota"])
          PROVE  /\ Balance' = Balance + (a - db["quota"])
                 /\ ToAdd' + missed' = ToAdd + missed + (a - db["quota"])
        <3>1. a \in Int
            BY LedgerAssumption
        <3>2. db'["quota"] = a
            BY <2>3 DEF TypeOK, Cols
        <3>3. call'[c].incr = "none"
            BY <1>1, <2>3 DEF TypeOK, CacheInv, NewInv
        <3>4. Balance' = Balance + (a - db["quota"])
            BY <1>1, <1>9, <3>1, <3>2 DEF Balance
        <3> QED BY <1>9, <1>10, <2>3, <3>1, <3>3, <3>4
    <2>4. CASE Transact(c)
        <3>1. CASE db' = db
            BY <2>1, <2>2, <2>4, LedgerAssumption DEF Transact
        <3>2. CASE db' # db
            BY <2>2, <2>4, <3>2, LedgerAssumption DEF Transact
        <3> QED BY <3>1, <3>2
    <2>5. CASE Override(c)
        <3>1. \A a \in Amounts : a - db["quota"] \in Int
            BY <1>9, LedgerAssumption
        <3> QED BY <2>1, <2>3, <2>5, <3>1 DEF Override
    <2> QED BY <2>4, <2>5
<1>12. PICK g \in Int : Balance' = Balance + g /\ ToAdd' + missed' = ToAdd + missed + g
    BY <1>11
<1>13. hash.quota + ToAdd + missed = Balance + ToWrite
        => hash.quota + ToAdd' + missed' = Balance' + ToWrite
    <2>1. hash.quota + ToAdd' + missed' = hash.quota + ToAdd + missed + g
        <3>1. PICK h \in Int, x \in Int, m \in Int, y \in Int, n \in Int :
                h = hash.quota /\ x = ToAdd /\ m = missed /\ y = ToAdd' /\ n = missed'
            BY <1>9, Zenon
        <3>2. y + n = x + m + g
            BY <1>12, <3>1, Zenon
        <3>3. h + y + n = h + x + m + g
            BY <3>2, Regroup
        <3> QED BY <3>1, <3>3, Zenon
    <2>2. Balance + ToWrite + g = (Balance + g) + ToWrite
        BY <1>9
    <2> QED BY <1>12, <2>1, <2>2
<1> QED BY <1>1, <1>3, <1>5, <1>8, <1>13, FollowsDef, FollowsAfter DEF CacheInv

(* HINCRBY: the amount moves from what is still to be added into the hash. *)
LEMMA HIncrByCache ==
    ASSUME TypeOK, TypeOK', CacheInv, NEW c \in Calls, HIncrBy(c)
    PROVE  CacheInv'
<1>1. /\ UNCHANGED <<db, store, batch, load, clean, missed>> /\ call[c].incr = "add"
      /\ call' = [call EXCEPT ![c].incr = "none"]
    BY DEF HIncrBy, ledger
<1>2. /\ call'[c].pc = call[c].pc /\ call'[c].amount = call[c].amount
      /\ call'[c].col = call[c].col /\ call'[c].incr = "none"
      /\ \A d \in Calls \ {c} : call'[d] = call[d]
    BY <1>1 DEF TypeOK
<1>3. amount' = amount /\ NewInv' /\ (Quiet => Quiet')
    <2>1. Quiet => store["quota"] = 0 /\ batch["quota"] = 0
        BY DEF Quiet
    <2> QED BY <1>1, <1>2, <2>1, CallMoves
<1>4. CASE exact' = "no" \/ hash'.is # "whole"
    BY <1>1, <1>3, <1>4, NoClaim
<1>5. CASE exact' # "no" /\ hash'.is = "whole"
    <2>1. hash' = [is |-> Revived, quota |-> hash.quota + call[c].amount] /\ exact' = exact
        BY <1>5 DEF HIncrBy, Failed
    <2>2. hash.is = "whole" /\ hash'.quota = hash.quota + call[c].amount
        BY <1>5, <2>1 DEF Revived
    <2>3. Adding' = Adding \ {c} /\ Writing' = Writing /\ c \in Adding
        BY <1>1, <1>2 DEF Adding, Writing
    <2>4. ToWrite' = ToWrite /\ Balance' = Balance
        BY <1>1, <1>3, <2>3 DEF ToWrite, Balance
    <2>5. ToAdd = amount[c] + ToAdd'
        BY <1>3, <2>3, SumTypes, TotalLoses DEF ToAdd
    <2>6. amount[c] = call[c].amount /\ amount[c] \in Int /\ ToAdd' \in Int /\ hash.quota \in Int
        BY SumTypes, SumTypesAfter
    <2>7. hash'.quota + ToAdd' + missed' = hash.quota + ToAdd + missed
        BY <1>1, <2>2, <2>5, <2>6
    <2>8. CleanInv'
        BY <1>1, <1>3 DEF CacheInv, CleanInv, Fresh
    <2> QED BY <1>3, <2>1, <2>2, <2>4, <2>7, <2>8, FollowsDef, FollowsAfter DEF CacheInv
<1> QED BY <1>4, <1>5

(* A step that leaves the calls alone and keeps the balance, the column    *)
(* of a quiet ledger, the hash and the loads.                              *)
LEMMA CallsStay ==
    ASSUME CacheInv, call' = call, Balance' = Balance, UNCHANGED <<hash, load, clean, exact, missed>>,
           Quiet => /\ store'["quota"] = 0 /\ batch'["quota"] = 0 /\ db'["quota"] = db["quota"]
    PROVE  CacheInv'
<1>1. NewInv' /\ ToAdd' = ToAdd /\ ToWrite' = ToWrite
    BY DEF CacheInv, NewInv, ToAdd, ToWrite, amount, Adding, Writing
<1>2. Quiet => Quiet'
    BY DEF Quiet
<1>3. CleanInv'
    BY <1>2 DEF CacheInv, CleanInv, Fresh
<1> QED BY <1>1, <1>3, FollowsDef, FollowsAfter DEF CacheInv

(* batchUpdate moves amounts between the map, its hands and the column; a  *)
(* map is taken with empty hands.                                          *)
LEMMA TakeCache ==
    ASSUME TypeOK, BatchIsHandled, CacheInv, NEW k \in Cols, Take(k)
    PROVE  CacheInv'
<1>1. UNCHANGED <<call, hash, load, clean, exact, missed, db>>
    BY DEF Take, cache
<1>2. batch[k] = 0
    BY DEF Take, TypeOK, BatchIsHandled, Cols, TakenBefore
<1>3. /\ batch'["quota"] = IF k = "quota" THEN store["quota"] ELSE batch["quota"]
      /\ store'["quota"] = IF k = "quota" THEN 0 ELSE store["quota"]
    BY DEF Take, TypeOK, Cols
<1>4. db["quota"] \in Int /\ store["quota"] \in Int /\ batch["quota"] \in Int
    BY DEF TypeOK, Cols
<1>5. Balance' = Balance
    BY <1>1, <1>2, <1>3, <1>4 DEF Balance
<1>6. Quiet => store'["quota"] = 0 /\ batch'["quota"] = 0
    BY <1>3 DEF Quiet
<1> QED BY <1>1, <1>5, <1>6, CallsStay

(* A write of the updater moves a held amount to the column. *)
LEMMA WriteCache ==
    ASSUME TypeOK, CacheInv, NEW ks \in SUBSET Cols, NEW next, Write(ks, next)
    PROVE  CacheInv'
<1>1. UNCHANGED <<call, store, hash, load, clean, missed>>
    BY DEF Write
<1>2. batch'["quota"] = IF "quota" \in ks THEN 0 ELSE batch["quota"]
    BY DEF Write, Cols
<1>3. db["quota"] \in Int /\ store["quota"] \in Int /\ batch["quota"] \in Int
    BY DEF TypeOK, Cols
<1>4. CASE exact' = exact /\ db' = [k \in Cols |-> IF k \in ks THEN db[k] + batch[k] ELSE db[k]]
    <2>1. db'["quota"] = IF "quota" \in ks THEN db["quota"] + batch["quota"] ELSE db["quota"]
        BY <1>4 DEF Cols
    <2>2. Balance' = Balance
        BY <1>1, <1>2, <1>3, <2>1 DEF Balance
    <2>3. Quiet => /\ store'["quota"] = 0 /\ batch'["quota"] = 0 /\ db'["quota"] = db["quota"]
        BY <1>1, <1>2, <1>3, <2>1 DEF Quiet
    <2> QED BY <1>1, <1>4, <2>2, <2>3, CallsStay
<1>5. CASE exact' = "no" /\ db' = db
    <2>1. NewInv' /\ (Quiet => Quiet')
        BY <1>1, <1>2 DEF CacheInv, NewInv, Quiet
    <2> QED BY <1>1, <1>5, <2>1, NoClaim
<1> QED BY <1>4, <1>5 DEF Write

(* A quiet ledger has nothing to add and nothing to write. *)
LEMMA QuietTotals ==
    ASSUME TypeOK, Quiet
    PROVE  ToAdd = 0 /\ ToWrite = 0 /\ Balance = db["quota"]
<1>1. Adding = {} /\ Writing = {}
    BY DEF Quiet, Adding, Writing
<1>2. ToAdd = 0 /\ ToWrite = 0
    BY <1>1, TotalEmpty DEF ToAdd, ToWrite
<1>3. db["quota"] \in Int /\ store["quota"] = 0 /\ batch["quota"] = 0
    BY DEF TypeOK, Cols, Quiet
<1> QED BY <1>2, <1>3 DEF Balance

(* What does not change when a load moves. *)
Elsewhere == UNCHANGED <<db, store, batch, call>>

(* A step beside the calls and the columns changes no total. *)
LEMMA ElsewhereKept ==
    ASSUME CacheInv, Elsewhere
    PROVE  /\ NewInv' /\ ToAdd' = ToAdd /\ ToWrite' = ToWrite /\ Balance' = Balance
           /\ Quiet' <=> Quiet
BY DEF CacheInv, NewInv, ToAdd, ToWrite, amount, Adding, Writing, Quiet, Balance, Elsewhere

(* A load that goes on keeps what it has read. *)
LEMMA LoadMoves ==
    ASSUME TypeOK, CacheInv, Elsewhere, clean' = clean, NEW l \in Loads, NEW pc,
           LoadGoesTo(l, pc),
           pc \in {"populate", "ttl", "hset"} => load[l].pc \in {"populate", "ttl", "hset"}
    PROVE  CleanInv'
<1>1. /\ load'[l].pc = pc /\ load'[l].quota = load[l].quota
      /\ \A m \in Loads \ {l} : load'[m] = load[m]
    BY DEF LoadGoesTo, TypeOK
<1>2. clean \subseteq Loads
    BY DEF TypeOK
<1>3. ASSUME NEW m \in clean, Fresh(m) PROVE Fresh(m)'
    BY <1>1, <1>2, <1>3 DEF Fresh, Elsewhere
<1> QED BY <1>3, ElsewhereKept DEF CacheInv, CleanInv

(* The hash stays as it is, or is gone. *)
LEMMA HashStays ==
    ASSUME CacheInv, Elsewhere, CleanInv',
           UNCHANGED <<hash, exact, missed>> \/ hash'.is # "whole"
    PROVE  CacheInv'
BY ElsewhereKept, FollowsDef, FollowsAfter DEF CacheInv

(* GetUserById and the statement of GetUserQuota: what is read while the   *)
(* ledger is quiet is the balance.                                         *)
LEMMA LoadedCache ==
    ASSUME TypeOK, CacheInv, Elsewhere, NEW l \in Loads, NEW pc, Loaded(l, pc),
           UNCHANGED <<hash, exact, missed>>
    PROVE  CacheInv'
<1>1. /\ load'[l].quota = db["quota"] /\ \A m \in Loads \ {l} : load'[m] = load[m]
    BY DEF Loaded, TypeOK
<1>2. clean \subseteq Loads
    BY DEF TypeOK
<1>3. CASE Quiet
    <2>1. clean' = clean \cup {l}
        BY <1>3 DEF Loaded
    <2>2. \A m \in clean : Fresh(m)
        BY DEF CacheInv, CleanInv
    <2>3. ASSUME NEW m \in clean' PROVE Fresh(m)'
        <3>1. CASE m = l
            BY <1>1, <3>1 DEF Fresh, Elsewhere
        <3>2. CASE m # l
            BY <1>1, <1>2, <2>1, <2>2, <3>2 DEF Fresh, Elsewhere
        <3> QED BY <3>1, <3>2
    <2>4. CleanInv'
        BY <1>3, <2>3, ElsewhereKept DEF CleanInv
    <2> QED BY <2>4, HashStays
<1>4. CASE ~Quiet
    <2>1. clean' = clean
        BY <1>4 DEF Loaded
    <2>2. CleanInv'
        BY <1>4, <2>1 DEF CacheInv, CleanInv
    <2> QED BY <2>2, HashStays
<1> QED BY <1>3, <1>4

(* populateUserCache and updateUserQuotaCache: a clean load is written as  *)
(* it was read, while the ledger is still quiet.                           *)
LEMMA StoresCache ==
    ASSUME TypeOK, TypeOK', CacheInv, Elsewhere, NEW l \in Loads, CleanInv',
           load[l].pc \in {"populate", "ttl", "hset"}, hash'.quota = load[l].quota,
           exact' = (IF l \in clean THEN "yes" ELSE "no"), missed' = 0
    PROVE  CacheInv'
<1>1. CASE l \notin clean
    <2>1. exact' = "no"
        BY <1>1
    <2> QED BY <2>1, ElsewhereKept, FollowsAfter DEF CacheInv
<1>2. CASE l \in clean
    <2>1. Quiet /\ Fresh(l)
        BY <1>2 DEF CacheInv, CleanInv
    <2>2. load[l].quota = db["quota"]
        BY <2>1 DEF Fresh
    <2>3. ToAdd' = 0 /\ ToWrite' = 0 /\ Balance' = db["quota"]
        BY <2>1, ElsewhereKept, QuietTotals
    <2>4. hash'.quota + ToAdd' + missed' = Balance' + ToWrite'
        BY <2>2, <2>3 DEF TypeOK, Cols
    <2> QED BY <2>4, ElsewhereKept, FollowsAfter DEF CacheInv
<1> QED BY <1>1, <1>2

(* A load that is clean fills the hash with the column; any other does not count. *)
LEMMA LoadStepCache ==
    ASSUME TypeOK, TypeOK', CacheInv, NEW l \in Loads, LoadStep(l)
    PROVE  CacheInv'
<1>1. Elsewhere
    BY DEF Elsewhere, LoadStep, ReadHash, Invalidate, ReadUser, ReadQuota, Populate, SetQuotaTTL,
       SetQuota, ledger
<1>2. CASE ReadHash(l)
    <2>1. /\ UNCHANGED <<hash, clean, exact, missed>>
          /\ \E pc \in {"done", "partial", "user"} : LoadGoesTo(l, pc)
        BY <1>2 DEF ReadHash
    <2> QED BY <1>1, <2>1, LoadMoves, HashStays
<1>3. CASE Invalidate(l)
    <2>1. LoadGoesTo(l, "user") /\ clean' = clean
        BY <1>3 DEF Invalidate
    <2>2. UNCHANGED <<hash, exact, missed>> \/ hash'.is # "whole"
        BY <1>3 DEF Invalidate, NoHash
    <2> QED BY <1>1, <2>1, <2>2, LoadMoves, HashStays
<1>4. CASE ReadUser(l)
    <2>1. CASE Loaded(l, "populate")
        BY <1>1, <1>4, <2>1, LoadedCache DEF ReadUser
    <2>2. CASE LoadGoesTo(l, "quota") /\ clean' = clean
        BY <1>1, <1>4, <2>2, LoadMoves, HashStays DEF ReadUser
    <2> QED BY <1>4, <2>1, <2>2 DEF ReadUser
<1>5. CASE ReadQuota(l)
    <2>1. CASE Loaded(l, "ttl")
        BY <1>1, <1>5, <2>1, LoadedCache DEF ReadQuota
    <2>2. CASE LoadGoesTo(l, "done") /\ clean' = clean
        BY <1>1, <1>5, <2>2, LoadMoves, HashStays DEF ReadQuota
    <2> QED BY <1>5, <2>1, <2>2 DEF ReadQuota
<1>6. CASE Populate(l)
    <2>1. LoadGoesTo(l, "done") /\ clean' = clean /\ load[l].pc = "populate"
        BY <1>6 DEF Populate
    <2>2. CleanInv'
        BY <1>1, <2>1, LoadMoves
    <2>3. CASE UNCHANGED <<hash, exact, missed>>
        BY <1>1, <2>2, <2>3, HashStays
    <2>4. CASE /\ hash' = Whole(load[l].quota) /\ missed' = 0
               /\ exact' = (IF l \in clean THEN "yes" ELSE "no")
        <3>1. hash'.quota = load[l].quota
            BY <2>4 DEF Whole
        <3> QED BY <1>1, <2>1, <2>2, <2>4, <3>1, StoresCache
    <2> QED BY <1>6, <2>3, <2>4 DEF Populate
<1>7. CASE SetQuotaTTL(l)
    <2>1. /\ load[l].pc = "ttl" /\ UNCHANGED <<hash, clean, exact, missed>>
          /\ \E pc \in {"hset", "done"} : LoadGoesTo(l, pc)
        BY <1>7 DEF SetQuotaTTL
    <2> QED BY <1>1, <2>1, LoadMoves, HashStays
<1>8. CASE SetQuota(l)
    <2>1. LoadGoesTo(l, "done") /\ clean' = clean /\ load[l].pc = "hset"
        BY <1>8 DEF SetQuota
    <2>2. CleanInv'
        BY <1>1, <2>1, LoadMoves
    <2>3. CASE UNCHANGED <<hash, exact, missed>>
        BY <1>1, <2>2, <2>3, HashStays
    <2>4. CASE /\ hash' = [is |-> Revived, quota |-> load[l].quota] /\ missed' = 0
               /\ exact' = (IF l \in clean THEN "yes" ELSE "no")
        <3>1. hash'.quota = load[l].quota
            BY <2>4
        <3> QED BY <1>1, <2>1, <2>2, <2>4, <3>1, StoresCache
    <2> QED BY <1>8, <2>3, <2>4 DEF SetQuota
<1> QED BY <1>2, <1>3, <1>4, <1>5, <1>6, <1>7, <1>8 DEF LoadStep

(* After a crash the hash does not count. *)
LEMMA CrashCache ==
    ASSUME TypeOK, CacheInv, Crash
    PROVE  CacheInv'
<1>1. /\ store' = Zero /\ batch' = Zero /\ exact' = "no" /\ UNCHANGED <<db, clean>>
      /\ call' = [c \in Calls |->
            [call[c] EXCEPT !.pc = IF @ = "write" THEN "failed" ELSE @, !.incr = "none"]]
      /\ load' = [l \in Loads |-> [load[l] EXCEPT !.pc = IF @ = "new" THEN @ ELSE "done"]]
    BY Zenon DEF Crash
<1>2. ASSUME NEW c \in Calls
      PROVE  call'[c].incr = "none" /\ call'[c].pc # "write"
    <2>1. call[c] \in CallRecords
        BY DEF TypeOK, CallRecords
    <2>2. /\ call'[c].pc = IF call[c].pc = "write" THEN "failed" ELSE call[c].pc
          /\ call'[c].incr = "none"
        BY <1>1, <2>1 DEF CallRecords
    <2> QED BY <2>2
<1>3. NewInv' /\ Quiet'
    BY <1>1, <1>2 DEF NewInv, Quiet, Zero, Cols
<1>4. ASSUME NEW l \in Loads PROVE load'[l].pc \in {"new", "done"}
    <2>1. load[l] \in LoadRecords
        BY DEF TypeOK, LoadRecords
    <2>2. load'[l].pc = IF load[l].pc = "new" THEN "new" ELSE "done"
        BY <1>1, <2>1 DEF LoadRecords
    <2> QED BY <2>2
<1>5. CleanInv'
    <2>1. clean' \subseteq Loads
        BY <1>1 DEF TypeOK
    <2>2. \A l \in clean' : load'[l].pc \notin {"populate", "ttl", "hset"}
        BY <1>4, <2>1
    <2> QED BY <1>3, <2>2 DEF CleanInv, Fresh
<1> QED BY <1>1, <1>3, <1>5, FollowsAfter DEF CacheInv

(* A hash that was loaded while no change was under way drifts by what it  *)
(* was not told alone: with what RedisHIncrBy has still to add and what    *)
(* transactions, administrators and expiring TTLs kept from it, it equals  *)
(* the column with what is in the maps, in the hands of batchUpdate and    *)
(* still to be written, until a call fails, for any number of calls and    *)
(* loads and any amounts.                                                  *)
THEOREM LedgerCacheFollows == Spec => []CacheFollowsLedger
<1>1. ASSUME Init PROVE CacheInv
    <2>1. NewInv /\ CleanInv
        BY <1>1 DEF Init, NewInv, CleanInv, NoCall
    <2>2. Quiet
        BY <1>1 DEF Init, Quiet, NoCall, Zero, Cols
    <2>3. ToAdd = 0 /\ ToWrite = 0 /\ Balance = db["quota"]
        BY <1>1, <2>2, InitType, QuietTotals
    <2>4. hash.quota = 0 /\ db["quota"] = 0 /\ missed = 0
        BY <1>1 DEF Init, NoHash, Whole, Zero, Cols
    <2> QED BY <2>1, <2>3, <2>4, FollowsDef DEF CacheInv
<1>2. ASSUME TypeOK, TypeOK', BatchIsHandled, CacheInv, [Next]_vars
      PROVE  CacheInv'
    <2>1. ASSUME NEW c \in Calls, CallStep(c) PROVE CacheInv'
        <3>1. CASE AddNewRecord(c)
            BY <1>2, <3>1, WritesCache DEF AddNewRecord, cache
        <3>2. CASE UpdateColumn(c)
            BY <1>2, <3>2, WritesCache, WriteFailsCache DEF UpdateColumn
        <3> QED BY <1>2, <2>1, <3>1, <3>2, ChangeCache, DirectCache, ReadTTLCache,
               HIncrByCache DEF CallStep
    <2>2. CASE Wake
        <3>1. UNCHANGED <<db, store, batch, call, hash, load, clean, exact, missed>>
            BY <2>2 DEF Wake, cache
        <3> QED BY <1>2, <3>1, CallsStay DEF Balance, Quiet
    <2>3. CASE WriteToken \/ WriteUser
        BY <1>2, <2>3, WriteCache DEF WriteToken, WriteUser, Cols, UserCols
    <2>4. CASE Expire
        <3>1. Elsewhere /\ UNCHANGED <<load, clean>> /\ hash'.is # "whole"
            BY <2>4 DEF Expire, Elsewhere, ledger, NoHash
        <3>2. CleanInv'
            BY <1>2, <3>1, ElsewhereKept DEF CacheInv, CleanInv, Fresh, Elsewhere
        <3> QED BY <1>2, <3>1, <3>2, HashStays
    <2>5. CASE UNCHANGED vars
        <3>1. UNCHANGED <<db, store, batch, call, hash, load, clean, exact, missed>>
            BY <2>5 DEF vars
        <3> QED BY <1>2, <3>1, CallsStay DEF Balance, Quiet
    <2> QED BY <1>2, <2>1, <2>2, <2>3, <2>4, <2>5, NextCases, TakeCache, LoadStepCache, CrashCache
        DEF UpdaterStep
<1>3. CacheInv => CacheFollowsLedger
    BY DEF CacheInv
<1> QED BY <1>1, <1>2, <1>3, LedgerTypeOK, LedgerBatchIsHandled, PTL DEF Spec
=============================================================================
