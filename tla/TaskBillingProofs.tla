-------------------------- MODULE TaskBillingProofs --------------------------
(***************************************************************************)
(* For any number of overlapping poll passes, failing statements, crashes  *)
(* and bulk updates, a video task is billed at most once and its outcome   *)
(* is final but for bulk updates; and it has paid what is due, when        *)
(* nothing failed.  What makes it so is that only the pass whose guarded write takes the row from      *)
(* "progress" bills it, and that no write of a video task leads back:      *)
(* BilledInv relates the row's status to who is billing, PaysInv the money *)
(* to how far the bill has come.                                           *)
(***************************************************************************)
EXTENDS TaskBilling, TLAPS

Statuses == {"none", "progress"} \cup Terminal
Labels == {"idle", "sweep", "fetch", "swap", "save", "refund", "refundToken", "settle",
           "settleToken", "quota"}

(* Rows and copies of rows stay rows.                                      *)
LEMMA RowKept ==
  ASSUME NEW c \in Row, NEW s \in Statuses, NEW d \in BOOLEAN, NEW q \in Quotas \cup Actuals \cup {0}
  PROVE  /\ [c EXCEPT !.status = s] \in Row
         /\ [c EXCEPT !.status = s, !.done = d] \in Row
         /\ [c EXCEPT !.quota = q] \in Row
         /\ [status |-> s, done |-> d, quota |-> q] \in Row
  <1>1. [c EXCEPT !.status = s] \in Row
    BY DEF Row, Statuses
  <1>2. [c EXCEPT !.status = s, !.done = d] \in Row
    BY DEF Row, Statuses
  <1>3. [c EXCEPT !.quota = q] \in Row
    BY DEF Row
  <1>4. [status |-> s, done |-> d, quota |-> q] \in Row
    BY DEF Row, Statuses
  <1> QED BY <1>1, <1>2, <1>3, <1>4

(* A pass that moves, ends or reads a row stays a pass.                    *)
LEMMA PassKept ==
  ASSUME pass \in [Passes -> PassState], NEW p \in Passes, NEW l \in Labels, NEW c \in Row, NEW f \in BOOLEAN
  PROVE  /\ [pass EXCEPT ![p].pc = l] \in [Passes -> PassState]
         /\ [pass EXCEPT ![p] = Idle] \in [Passes -> PassState]
         /\ [pass EXCEPT ![p].pc = l, ![p].copy = c] \in [Passes -> PassState]
         /\ [pass EXCEPT ![p].pc = l, ![p].failed = f, ![p].copy = c] \in [Passes -> PassState]
  <1>0. pass[p] \in PassState
    OBVIOUS
  <1>1. [pass[p] EXCEPT !.pc = l] \in PassState
    BY <1>0 DEF PassState, Labels
  <1>2. Idle \in PassState
    BY DEF Idle, NoRow, PassState, Row
  <1>3. [pass[p] EXCEPT !.pc = l, !.copy = c] \in PassState
    BY <1>0 DEF PassState, Labels
  <1>4. [pass[p] EXCEPT !.pc = l, !.failed = f, !.copy = c] \in PassState
    BY <1>0 DEF PassState, Labels
  <1>5. [pass EXCEPT ![p].pc = l] \in [Passes -> PassState]
    BY <1>1
  <1>6. [pass EXCEPT ![p] = Idle] \in [Passes -> PassState]
    BY <1>2
  <1>7. [pass EXCEPT ![p].pc = l, ![p].copy = c] \in [Passes -> PassState]
    BY <1>3
  <1>8. [pass EXCEPT ![p].pc = l, ![p].failed = f, ![p].copy = c] \in [Passes -> PassState]
    BY <1>4
  <1> QED BY <1>5, <1>6, <1>7, <1>8

(* The parts of TypeOK.                                                    *)
RowInv == row \in Row
PassInv == pass \in [Passes -> PassState]
UserState == [pc : {"idle", "write", "told"}, copy : Row, failed : BOOLEAN]
UserInv == user \in [Users -> UserState]
MoneyInv ==
    /\ fund \in Int /\ token \in Int /\ actual \in Actuals \cup {0}
    /\ billed \in Nat /\ short \in BOOLEAN
WorldInv ==
    /\ platform \in Platforms /\ funding \in Fundings /\ due \in Quotas \cup {0}
    /\ settled \in BOOLEAN /\ expired \in BOOLEAN /\ upstream \in {"progress"} \cup Terminal
BoundInv == misses \in 0..MaxMisses /\ faults \in 0..MaxFaults /\ crashes \in 0..MaxCrashes

Types == RowInv /\ PassInv /\ UserInv /\ MoneyInv /\ WorldInv /\ BoundInv

(* They are TypeOK.                                                        *)
LEMMA TypeParts == Types => TypeOK
  BY DEF Types, TypeOK, RowInv, PassInv, UserInv, UserState, MoneyInv, WorldInv, BoundInv

(* Quotas are numbers.                                                     *)
LEMMA QuotaIsInt == \A q \in Quotas \cup Actuals \cup {0} : q \in Int
  <1>1. Quotas \subseteq Nat /\ Actuals \subseteq Nat
    BY BoundAssumption
  <1> QED BY <1>1

(* A statement that works or fails keeps the count of failures in bounds.  *)
LEMMA FaultsKept == BoundInv /\ (DbOk \/ DbFault) /\ UNCHANGED <<misses, crashes>> => BoundInv'
  BY BoundAssumption DEF BoundInv, DbOk, DbFault

(* Funding that is adjusted, or refuses, stays a number.                   *)
LEMMA AdjustKept ==
  ASSUME fund \in Int, short \in BOOLEAN, NEW delta \in Int, Adjust(delta) \/ Refuses
  PROVE  fund' \in Int /\ short' \in BOOLEAN
  <1>1. CASE fund' = fund + delta /\ short' = short
    BY <1>1
  <1>3. CASE short' = TRUE /\ \E less \in (delta + 1)..0 : fund' = fund + less
    <2>1. PICK less \in (delta + 1)..0 : fund' = fund + less
      BY <1>3
    <2>2. fund' \in Int
      BY <2>1
    <2> QED BY <1>3, <2>2
  <1>2. CASE Refuses
    BY <1>2 DEF Refuses
  <1> QED BY <1>1, <1>2, <1>3 DEF Adjust

(* What the parts say of a pass.                                           *)
LEMMA PassFacts ==
  ASSUME Types, NEW p \in Passes
  PROVE  /\ pass[p] \in PassState /\ pass[p].copy \in Row /\ pass[p].copy.quota \in Int
         /\ pass[p].copy.status \in Statuses /\ row \in Row /\ row.status \in Statuses
  <1>1. pass[p] \in PassState /\ row \in Row
    BY DEF Types, PassInv, RowInv
  <1>2. pass[p].copy \in Row
    BY <1>1 DEF PassState
  <1>3. pass[p].copy.quota \in Int
    <2>1. pass[p].copy.quota \in Quotas \cup Actuals \cup {0}
      BY <1>2 DEF Row
    <2> QED BY <2>1, QuotaIsInt
  <1>4. pass[p].copy.status \in Statuses /\ row.status \in Statuses
    BY <1>1, <1>2 DEF Row, Statuses
  <1> QED BY <1>1, <1>2, <1>3, <1>4

(* The steps of a pass keep the types.                                     *)
LEMMA StepTypes ==
  ASSUME Types, NEW p \in Passes, Step(p)
  PROVE  Types'
  <1> USE DEF Types
  <1>1. PassInv /\ pass[p].copy \in Row /\ row \in Row
    BY PassFacts
  <1>2. ASSUME NEW l \in Labels, Goto(p, l) PROVE PassInv'
    BY <1>1, <1>2, PassKept DEF Goto, PassInv
  <1>3. ASSUME End(p) PROVE PassInv'
    BY <1>1, <1>3, PassKept DEF End, PassInv, Labels
  <1>4. ASSUME NEW c \in Row, NEW t \in Terminal PROVE Ended(c, t) \in Row
    BY RowKept DEF Ended, Statuses
  <1>5. ASSUME UNCHANGED Rest PROVE WorldInv' /\ UserInv' /\ UNCHANGED <<misses, crashes>>
    BY <1>5 DEF Rest, World, fixed, WorldInv, UserInv
  <1>6. ASSUME UNCHANGED money PROVE MoneyInv'
    BY <1>6 DEF money, MoneyInv
  <1>7. CASE SweepRead(p) \/ PollRead(p)
    <2>1. PassInv'
      <3>1. "sweep" \in Labels /\ "fetch" \in Labels /\ TRUE \in BOOLEAN
        BY DEF Labels
      <3>2. /\ [pass EXCEPT ![p].pc = "sweep", ![p].copy = row] \in [Passes -> PassState]
            /\ [pass EXCEPT ![p].pc = "fetch", ![p].copy = row] \in [Passes -> PassState]
        BY <1>1, <3>1, PassKept DEF PassInv
      <3> QED BY <1>7, <3>2 DEF SweepRead, PollRead, PassInv
    <2> QED BY <1>5, <1>6, <1>7, <2>1 DEF SweepRead, PollRead, RowInv, BoundInv
  <1>8. CASE SweepSwap(p)
    <2>1. RowInv'
      BY <1>1, <1>4, <1>8 DEF SweepSwap, Swap, Lost, RowInv, Terminal
    <2>2. PassInv'
      BY <1>2, <1>3, <1>8 DEF SweepSwap, Labels
    <2>3. BoundInv'
      BY <1>5, <1>8, FaultsKept DEF SweepSwap
    <2> QED BY <1>5, <1>6, <1>8, <2>1, <2>2, <2>3 DEF SweepSwap
  <1>9. CASE BulkFail(p)
    <2>1. RowInv'
      BY <1>1, <1>4, <1>9 DEF BulkFail, RowInv, Terminal
    <2>2. BoundInv'
      BY <1>9, BoundAssumption DEF BulkFail, World, BoundInv, DbOk, DbFault
    <2>3. WorldInv' /\ UserInv'
      BY <1>9 DEF BulkFail, World, fixed, WorldInv, UserInv
    <2> QED BY <1>3, <1>6, <1>9, <2>1, <2>2, <2>3 DEF BulkFail
  <1>10. CASE FetchFails(p)
    BY <1>3, <1>5, <1>6, <1>10 DEF FetchFails, RowInv, BoundInv
  <1>11. CASE Fetch(p)
    <2>1. PICK failed \in BOOLEAN, full \in BOOLEAN :
            pass' = [pass EXCEPT
                 ![p].pc = IF platform # "suno" THEN "swap"
                           ELSE IF failed THEN "refund" ELSE "save",
                 ![p].failed = failed,
                 ![p].copy = [@ EXCEPT
                     !.status = IF failed /\ platform # "suno" THEN "FAILURE" ELSE upstream,
                     !.done = full]]
      BY <1>11 DEF Fetch
    <2> DEFINE l == IF platform # "suno" THEN "swap" ELSE IF failed THEN "refund" ELSE "save"
    <2> DEFINE s == IF failed /\ platform # "suno" THEN "FAILURE" ELSE upstream
    <2> DEFINE c == [pass[p].copy EXCEPT !.status = s, !.done = full]
    <2>2. s \in Statuses
      BY DEF WorldInv, Statuses, Terminal
    <2>3. l \in Labels
      BY DEF Labels
    <2>4. c \in Row
      <3> HIDE DEF s
      <3> QED BY <1>1, <2>2, RowKept
    <2>5. pass' = [pass EXCEPT ![p].pc = l, ![p].failed = failed, ![p].copy = c]
      BY <2>1, <1>1 DEF PassInv
    <2> HIDE DEF l, s, c
    <2>6. PassInv'
      BY <1>1, <2>3, <2>4, <2>5, PassKept DEF PassInv
    <2> QED BY <1>5, <1>6, <1>11, <2>6 DEF Fetch, RowInv, BoundInv
  <1>12. CASE Update(p)
    <2>1. RowInv'
      BY <1>1, <1>12 DEF Update, Swap, Lost, RowInv
    <2>2. PassInv'
      BY <1>2, <1>3, <1>12 DEF Update, Labels
    <2>3. BoundInv'
      BY <1>5, <1>12, FaultsKept DEF Update
    <2> QED BY <1>5, <1>6, <1>12, <2>1, <2>2, <2>3 DEF Update
  <1>13. CASE Save(p)
    <2>1. RowInv'
      BY <1>1, <1>13 DEF Save, RowInv
    <2>2. BoundInv'
      BY <1>5, <1>13, FaultsKept DEF Save
    <2> QED BY <1>3, <1>5, <1>6, <1>13, <2>1, <2>2 DEF Save
  <1>14. ASSUME After(p) PROVE PassInv'
    BY <1>2, <1>3, <1>14 DEF After, Labels
  <1>15. CASE Refund(p)
    <2>1. MoneyInv'
      <3>1. -pass[p].copy.quota \in Int
        BY PassFacts
      <3>2. fund' \in Int /\ short' \in BOOLEAN
        BY <1>15, <3>1, AdjustKept DEF Refund, MoneyInv
      <3> QED BY <1>15, <3>2 DEF Refund, MoneyInv
    <2>2. PassInv'
      BY <1>2, <1>14, <1>15 DEF Refund, Labels
    <2>3. BoundInv'
      BY <1>5, <1>15, FaultsKept DEF Refund
    <2> QED BY <1>5, <1>15, <2>1, <2>2, <2>3 DEF Refund, RowInv
  <1>16. CASE RefundToken(p)
    <2>1. MoneyInv'
      BY <1>16, PassFacts DEF RefundToken, MoneyInv
    <2>2. BoundInv'
      BY <1>5, <1>16, FaultsKept DEF RefundToken
    <2> QED BY <1>5, <1>14, <1>16, <2>1, <2>2 DEF RefundToken, RowInv
  <1>17. actual \in Int /\ \A a \in Actuals : a \in Int
    BY QuotaIsInt DEF MoneyInv
  <1>18. CASE Settle(p)
    <2>1. MoneyInv'
      <3>1. actual' \in Actuals /\ actual' - pass[p].copy.quota \in Int
        BY <1>17, <1>18, PassFacts DEF Settle
      <3>2. fund' \in Int /\ short' \in BOOLEAN
        BY <1>18, <3>1, AdjustKept DEF Settle, MoneyInv
      <3> QED BY <1>18, <3>1, <3>2 DEF Settle, MoneyInv
    <2>2. PassInv'
      BY <1>2, <1>3, <1>18 DEF Settle, Labels
    <2>3. BoundInv'
      BY <1>5, <1>18, FaultsKept DEF Settle
    <2> QED BY <1>5, <1>18, <2>1, <2>2, <2>3 DEF Settle, RowInv
  <1>19. CASE SettleToken(p)
    <2>1. MoneyInv'
      BY <1>17, <1>19, PassFacts DEF SettleToken, MoneyInv
    <2>2. PassInv'
      BY <1>2, <1>19 DEF SettleToken, Labels
    <2>3. BoundInv'
      BY <1>5, <1>19, FaultsKept DEF SettleToken
    <2> QED BY <1>5, <1>19, <2>1, <2>2, <2>3 DEF SettleToken, RowInv
  <1>20. CASE UpdateQuota(p)
    <2>1. RowInv'
      <3>1. actual \in Quotas \cup Actuals \cup {0} /\ row.status \in Statuses /\ TRUE \in BOOLEAN
        BY PassFacts DEF MoneyInv
      <3>2. [row EXCEPT !.quota = actual] \in Row
        BY <1>1, <3>1, RowKept
      <3> QED BY <1>1, <1>20, <3>2 DEF UpdateQuota, RowInv
    <2>2. BoundInv'
      BY <1>5, <1>20, FaultsKept DEF UpdateQuota
    <2> QED BY <1>3, <1>5, <1>6, <1>20, <2>1, <2>2 DEF UpdateQuota
  <1> QED BY <1>7, <1>8, <1>9, <1>10, <1>11, <1>12, <1>13, <1>15, <1>16, <1>18, <1>19, <1>20 DEF Step

(* The steps of the others: the submission, the provider, time and users.  *)
Others ==
    \/ Submit \/ UpstreamEnds \/ TimeoutPasses
    \/ \E u \in Users : UserReads(u) \/ UserWrites(u)

(* They keep the types.                                                    *)
LEMMA OtherTypes ==
  ASSUME Types, Others
  PROVE  Types'
  <1> USE DEF Types
  <1>1. CASE Submit
    <2>1. PICK held \in Quotas, quota \in Quotas :
            /\ \/ fund' = quota /\ token' = quota /\ settled' = TRUE
               \/ fund' = held /\ token' = held /\ settled' = FALSE
            /\ due' = quota /\ row' = [status |-> "progress", done |-> FALSE, quota |-> quota]
      BY <1>1 DEF Submit
    <2>2. RowInv'
      BY <2>1 DEF RowInv, Row
    <2>3. MoneyInv'
      BY <1>1, <2>1, QuotaIsInt DEF Submit, MoneyInv
    <2>4. WorldInv'
      BY <1>1, <2>1 DEF Submit, WorldInv
    <2> QED BY <1>1, <2>2, <2>3, <2>4 DEF Submit, PassInv, UserInv, BoundInv
  <1>2. CASE UpstreamEnds
    BY <1>2 DEF UpstreamEnds, fixed, money, RowInv, PassInv, UserInv, MoneyInv, WorldInv, BoundInv
  <1>3. CASE TimeoutPasses
    BY <1>3 DEF TimeoutPasses, fixed, money, RowInv, PassInv, UserInv, MoneyInv, WorldInv, BoundInv
  <1>5. ASSUME NEW u \in Users, UserReads(u) PROVE Types'
    <2>1. UserInv'
      <3>1. user[u] \in UserState /\ row \in Row
        BY DEF UserInv, RowInv
      <3>2. [user[u] EXCEPT !.pc = "write", !.copy = row] \in UserState
        BY <3>1 DEF UserState
      <3> QED BY <1>5, <3>2 DEF UserReads, UserInv
    <2> QED BY <1>5, <2>1 DEF UserReads, fixed, money, RowInv, PassInv, MoneyInv, WorldInv, BoundInv
  <1>6. ASSUME NEW u \in Users, UserWrites(u) PROVE Types'
    <2>1. user[u].copy \in Row /\ upstream \in Statuses
      BY DEF UserInv, UserState, WorldInv, Statuses
    <2>2. [user[u].copy EXCEPT !.status = upstream] \in Row
      BY <2>1 DEF Row, Statuses
    <2>3. RowInv'
      BY <1>6, <2>2 DEF UserWrites, Swap, Lost, RowInv
    <2>4. UserInv'
      <3>1. [Idle EXCEPT !.pc = "told"] \in UserState
        BY DEF Idle, NoRow, Row, UserState
      <3> QED BY <1>6, <3>1 DEF UserWrites, UserInv
    <2> QED BY <1>6, <2>3, <2>4 DEF UserWrites, fixed, money, PassInv, MoneyInv, WorldInv, BoundInv
  <1> QED BY <1>1, <1>2, <1>3, <1>5, <1>6 DEF Others

(* A crash keeps the types.                                                *)
LEMMA CrashTypes ==
  ASSUME Types, NEW p \in Passes, Crash(p)
  PROVE  Types'
  <1>1. PassInv'
    <2>1. "idle" \in Labels /\ TRUE \in BOOLEAN /\ row \in Row
      BY DEF Labels, Types, RowInv
    <2>2. [pass EXCEPT ![p] = Idle] \in [Passes -> PassState]
      BY <2>1, PassKept DEF Types, PassInv
    <2> QED BY <2>2 DEF Crash, End, PassInv
  <1>2. BoundInv'
    BY BoundAssumption DEF Crash, Types, BoundInv
  <1> QED BY <1>1, <1>2 DEF Crash, fixed, money, Types, RowInv, UserInv, MoneyInv, WorldInv

(* The types hold at first and are kept.                                   *)
LEMMA TypesHold == Spec => []Types
  <1>1. Init => Types
    <2> SUFFICES ASSUME Init PROVE Types
      OBVIOUS
    <2>1. NoRow \in Row
      BY DEF NoRow, Row
    <2>2. Idle \in PassState
      BY <2>1 DEF Idle, PassState
    <2>3. UserInv
      BY <2>1 DEF Init, UserInv, UserState, Idle
    <2>4. RowInv /\ PassInv
      BY <2>1, <2>2 DEF Init, RowInv, PassInv
    <2>5. MoneyInv
      <3>1. short = FALSE /\ fund = 0 /\ token = 0 /\ actual = 0 /\ billed = 0
        BY Zenon DEF Init
      <3>2. fund \in Int /\ token \in Int /\ billed \in Nat
        BY <3>1, SMT
      <3>3. short \in BOOLEAN /\ actual \in Actuals \cup {0}
        BY <3>1, Zenon
      <3> QED BY <3>2, <3>3, Zenon DEF MoneyInv
    <2>7. BoundInv
      <3>1. MaxMisses \in Nat /\ MaxFaults \in Nat /\ MaxCrashes \in Nat
        BY BoundAssumption
      <3> QED BY <3>1 DEF Init, BoundInv
    <2>6. WorldInv
      BY DEF Init, WorldInv
    <2> QED BY <2>3, <2>4, <2>5, <2>6, <2>7 DEF Types
  <1>2. Types /\ [Next]_vars => Types'
    <2> SUFFICES ASSUME Types, [Next]_vars PROVE Types'
      OBVIOUS
    <2>1. CASE UNCHANGED vars
      BY <2>1 DEF vars, Types, RowInv, PassInv, UserInv, MoneyInv, WorldInv, BoundInv
    <2> QED BY <2>1, StepTypes, OtherTypes, CrashTypes DEF Next, Others
  <1> QED BY <1>1, <1>2, PTL DEF Spec

(* Every variable keeps its type.                                          *)
THEOREM TaskTypeOK == Spec => []TypeOK
  BY TypesHold, TypeParts, PTL

----------------------------------------------------------------------------
(* Video tasks.                                                            *)

(* A video task is not saved unguarded nor written by a user's fetch, and  *)
(* a sweep writes over "progress" only.                                    *)
GuardedInv ==
    /\ \A u \in Users : user[u].pc = "idle"
    /\ \A p \in Passes : pass[p].pc # "save"
    /\ \A p \in Passes : pass[p].pc = "sweep" => pass[p].copy.status = "progress"

(* Nobody bills, and nobody has billed, a task that has not ended.         *)
BilledInv ==
    /\ \A p \in Passes : pass[p].pc \in Billing => row.status \in Terminal
    /\ billed # 0 => row.status \in Terminal

(* One pass bills, once.                                                   *)
OnceInv ==
    /\ \A p, q \in Passes : pass[p].pc \in Billing /\ pass[q].pc \in Billing => p = q
    /\ billed \in {0, 1}
    /\ \A p \in Passes : pass[p].pc \in {"refund", "settle"} => billed = 0

VideoInv == platform = "video" => GuardedInv /\ BilledInv /\ OnceInv

(* What a step of pass p does to the passes: others stay.                  *)
LEMMA GotoPc ==
  ASSUME PassInv, NEW p \in Passes, NEW l, Goto(p, l)
  PROVE  /\ pass'[p].pc = l
         /\ \A q \in Passes : q # p => pass'[q] = pass[q]
  <1>1. pass'[p] = [pass[p] EXCEPT !.pc = l] /\ pass[p] \in PassState
    BY DEF Goto, PassInv
  <1>2. pass'[p].pc = l
    BY <1>1 DEF PassState
  <1> QED BY <1>2 DEF Goto, PassInv

(* The same for a pass that ends.                                          *)
LEMMA EndPc ==
  ASSUME PassInv, NEW p \in Passes, End(p)
  PROVE  /\ pass'[p].pc = "idle"
         /\ \A q \in Passes : q # p => pass'[q] = pass[q]
  BY DEF End, PassInv, Idle

(* The steps of a pass keep the invariant.                                 *)
LEMMA StepVideo ==
  ASSUME Types, VideoInv, NEW p \in Passes, Step(p), platform = "video", platform' = "video"
  PROVE  GuardedInv' /\ BilledInv' /\ OnceInv'
  <1>0. PassInv /\ GuardedInv /\ BilledInv /\ OnceInv
    BY DEF Types, VideoInv
  <1> USE DEF GuardedInv, BilledInv, OnceInv, Billing, Terminal
  (* A pass ends or goes on outside of billing; the row's end stays an end. *)
  <1>1. ASSUME pass'[p].pc \notin Billing \cup {"save", "sweep"},
               \A q \in Passes : q # p => pass'[q] = pass[q],
               user' = user, billed' = billed,
               row.status \in Terminal => row'.status \in Terminal
        PROVE  GuardedInv' /\ BilledInv' /\ OnceInv'
    BY <1>0, <1>1
  <1>2. user' = user
    BY DEF Step, SweepRead, SweepSwap, PollRead, BulkFail, FetchFails, Fetch, Update, Save, Refund,
           RefundToken, Settle, SettleToken, UpdateQuota, Rest, World
  (* The write that ends the task. *)
  <1>3. ASSUME row.status = "progress", row'.status \in Terminal, billed' = billed,
               pass'[p].pc \in {"refund", "settle"},
               \A q \in Passes : q # p => pass'[q] = pass[q]
        PROVE  GuardedInv' /\ BilledInv' /\ OnceInv'
    BY <1>0, <1>2, <1>3
  (* The billing pass goes on. *)
  <1>4. ASSUME pass[p].pc \in {"refund", "settle"}, billed' = billed + 1, row' = row,
               pass'[p].pc \notin {"refund", "settle", "save", "sweep"},
               \A q \in Passes : q # p => pass'[q] = pass[q]
        PROVE  GuardedInv' /\ BilledInv' /\ OnceInv'
    BY <1>0, <1>2, <1>4
  <1>5. ASSUME pass[p].pc \in Billing, billed' = billed, row'.status = row.status,
               pass'[p].pc \notin {"refund", "settle", "save", "sweep"},
               \A q \in Passes : q # p => pass'[q] = pass[q]
        PROVE  GuardedInv' /\ BilledInv' /\ OnceInv'
    BY <1>0, <1>2, <1>5
  <1>6. pass[p] \in PassState /\ pass[p].copy \in Row /\ row \in Row
    BY PassFacts
  <1>7. \A c \in Row : \A t : Ended(c, t).status = t
    BY DEF Ended, Row
  <1>8. After(p) <=> End(p)
    BY DEF After
  <1>9. CASE SweepRead(p) \/ PollRead(p)
    <2>1. row.status = "progress" /\ billed' = billed /\ row' = row
      BY <1>9 DEF SweepRead, PollRead, Unfinished, money
    <2>2. pass'[p].pc \in {"sweep", "fetch"} /\ pass'[p].copy = row
      BY <1>0, <1>6, <1>9 DEF SweepRead, PollRead, PassInv, PassState
    <2>3. \A q \in Passes : q # p => pass'[q] = pass[q]
      BY <1>0, <1>9 DEF SweepRead, PollRead, PassInv
    <2> QED BY <1>0, <1>2, <2>1, <2>2, <2>3
  <1>10. CASE SweepSwap(p)
    <2>1. pass[p].copy.status = "progress" /\ billed' = billed
      BY <1>0, <1>10 DEF SweepSwap, money
    <2>2. CASE End(p) /\ UNCHANGED row
      BY <1>0, <1>1, <1>2, <2>1, <2>2, EndPc
    <2>3. CASE Goto(p, "refund") /\ Swap(pass[p].copy, Ended(pass[p].copy, "FAILURE"))
      <3>1. row.status = "progress" /\ row'.status = "FAILURE"
        BY <1>6, <1>7, <2>1, <2>3 DEF Swap
      <3>2. pass'[p].pc = "refund" /\ \A q \in Passes : q # p => pass'[q] = pass[q]
        BY <1>0, <2>3, GotoPc
      <3> QED BY <1>3, <2>1, <3>1, <3>2
    <2> QED BY <1>10, <2>2, <2>3 DEF SweepSwap, Lost
  <1>11. CASE BulkFail(p)
    <2>1. End(p) /\ billed' = billed
      BY <1>11 DEF BulkFail, money
    <2>2. row.status \in Terminal => row'.status \in Terminal
      BY <1>6, <1>7, <1>11 DEF BulkFail
    <2> QED BY <1>0, <1>1, <1>2, <2>1, <2>2, EndPc
  <1>12. CASE FetchFails(p)
    BY <1>0, <1>1, <1>2, <1>12, EndPc DEF FetchFails, money
  <1>13. CASE Fetch(p)
    <2>1. billed' = billed /\ row' = row
      BY <1>13 DEF Fetch, money
    <2>2. pass'[p].pc = "swap" /\ \A q \in Passes : q # p => pass'[q] = pass[q]
      <3>1. PICK f, full : pass' = [pass EXCEPT ![p].pc = "swap", ![p].failed = f,
                              ![p].copy = [@ EXCEPT
                                  !.status = IF f THEN "FAILURE" ELSE upstream, !.done = full]]
        BY <1>13 DEF Fetch
      <3> DEFINE c == [pass[p].copy EXCEPT !.status = IF f THEN "FAILURE" ELSE upstream, !.done = full]
      <3>2. pass' = [pass EXCEPT ![p].pc = "swap", ![p].failed = f, ![p].copy = c]
        BY <1>0, <3>1 DEF PassInv
      <3> HIDE DEF c
      <3> QED BY <1>0, <1>6, <3>2 DEF PassInv, PassState
    <2> QED BY <1>1, <1>2, <2>1, <2>2
  <1>14. CASE Update(p)
    <2> DEFINE old == [pass[p].copy EXCEPT !.status = "progress"]
    <2>1. old.status = "progress" /\ billed' = billed
      BY <1>6, <1>14 DEF Update, money, Row
    <2>2. CASE End(p) /\ UNCHANGED row
      BY <1>0, <1>1, <1>2, <2>1, <2>2, EndPc
    <2>3. CASE End(p) /\ Swap(old, pass[p].copy)
      BY <1>0, <1>1, <1>2, <2>1, <2>3, EndPc DEF Swap
    <2>4. CASE /\ Swap(old, pass[p].copy) /\ pass[p].copy.status \in Terminal
               /\ Goto(p, "settle") \/ Goto(p, "refund")
      <3>1. row.status = "progress" /\ row'.status \in Terminal
        BY <2>1, <2>4 DEF Swap
      <3>2. pass'[p].pc \in {"refund", "settle"} /\ \A q \in Passes : q # p => pass'[q] = pass[q]
        BY <1>0, <2>4, GotoPc
      <3> QED BY <1>3, <2>1, <3>1, <3>2
    <2> QED BY <1>14, <2>2, <2>3, <2>4 DEF Update, Lost
  <1>15. CASE Save(p)
    BY <1>0, <1>15 DEF Save
  <1>16. CASE Refund(p)
    BY <1>0, <1>4, <1>8, <1>16, EndPc, GotoPc DEF Refund
  <1>17. CASE RefundToken(p)
    BY <1>0, <1>5, <1>8, <1>17, EndPc DEF RefundToken
  <1>18. CASE Settle(p)
    BY <1>0, <1>4, <1>18, EndPc, GotoPc DEF Settle
  <1>19. CASE SettleToken(p)
    BY <1>0, <1>5, <1>19, GotoPc DEF SettleToken
  <1>20. CASE UpdateQuota(p)
    <2>1. row'.status = row.status
      BY <1>6, <1>20 DEF UpdateQuota, Row
    <2> QED BY <1>0, <1>5, <1>20, <2>1, EndPc DEF UpdateQuota, money
  <1> QED BY <1>9, <1>10, <1>11, <1>12, <1>13, <1>14, <1>15, <1>16, <1>17, <1>18, <1>19, <1>20 DEF Step

(* The steps of the others keep it.                                        *)
LEMMA OtherVideo ==
  ASSUME Types, VideoInv, platform = "video", platform' = "video",
         Others
  PROVE  GuardedInv' /\ BilledInv' /\ OnceInv'
  <1>1. GuardedInv /\ BilledInv /\ OnceInv
    BY DEF VideoInv
  <1>2. pass' = pass /\ user' = user /\ billed' = billed
    BY <1>1 DEF Others, Submit, UpstreamEnds, TimeoutPasses, UserReads, UserWrites, money,
                GuardedInv
  <1>3. row' = row \/ row.status = "none"
    BY <1>1 DEF Others, Submit, UpstreamEnds, TimeoutPasses, UserReads, UserWrites, GuardedInv
  <1> QED BY <1>1, <1>2, <1>3 DEF GuardedInv, BilledInv, OnceInv, Terminal

(* A crash keeps it: what the pass was doing is lost.                      *)
LEMMA CrashVideo ==
  ASSUME Types, VideoInv, platform = "video", platform' = "video", NEW p \in Passes, Crash(p)
  PROVE  GuardedInv' /\ BilledInv' /\ OnceInv'
  <1>1. GuardedInv /\ BilledInv /\ OnceInv /\ PassInv
    BY DEF VideoInv, Types
  <1>2. row' = row /\ user' = user /\ billed' = billed /\ End(p)
    BY DEF Crash, money
  <1>3. pass'[p].pc = "idle" /\ \A q \in Passes : q # p => pass'[q] = pass[q]
    BY <1>1, <1>2, EndPc
  <1> QED BY <1>1, <1>2, <1>3 DEF GuardedInv, BilledInv, OnceInv, Billing

(* The platform of a task does not change.                                 *)
LEMMA PlatformKept == [Next]_vars => platform' = platform
  BY DEF Next, Submit, UpstreamEnds, TimeoutPasses, UserReads, UserWrites, Step, Crash,
         SweepRead, SweepSwap, PollRead, BulkFail, FetchFails, Fetch, Update, Save, Refund,
         RefundToken, Settle, SettleToken, UpdateQuota, Rest, World, fixed, vars

(* The invariant holds at every moment.                                    *)
LEMMA VideoInvHolds == Spec => [](Types /\ VideoInv)
  <1>1. Init => VideoInv
    BY DEF Init, VideoInv, GuardedInv, BilledInv, OnceInv, Idle, Billing
  <1>2. Types /\ VideoInv /\ [Next]_vars => VideoInv'
    <2> SUFFICES ASSUME Types, VideoInv, [Next]_vars, platform' = "video"
                 PROVE  GuardedInv' /\ BilledInv' /\ OnceInv'
      BY DEF VideoInv
    <2>1. platform = "video"
      BY PlatformKept
    <2>2. CASE UNCHANGED vars
      BY <2>1, <2>2 DEF vars, VideoInv, GuardedInv, BilledInv, OnceInv
    <2> QED BY <2>1, <2>2, StepVideo, OtherVideo, CrashVideo DEF Next, Others
  <1> QED BY <1>1, <1>2, TypesHold, PTL DEF Spec

(* A video task is refunded or settled at most once, and by one pass:      *)
(* whatever overlapping passes, the sweeper, failing statements, crashes   *)
(* and bulk updates do.                                                    *)
THEOREM VideoIsBilledOnce == Spec => []VideoBilledOnce
  <1>1. VideoInv => VideoBilledOnce
    <2> SUFFICES ASSUME VideoInv, platform = "video" PROVE VideoBilledOnce
      BY DEF VideoBilledOnce
    <2>1. OnceInv
      BY DEF VideoInv
    <2>2. \A p \in Billers : p \in Passes /\ pass[p].pc \in Billing
      BY DEF Billers
    <2>3. billed <= 1
      BY <2>1 DEF OnceInv
    <2> QED BY <2>1, <2>2, <2>3 DEF VideoBilledOnce, OnceInv
  <1> QED BY <1>1, VideoInvHolds, PTL

(* The outcome of a video task is final, but for a bulk update that turns  *)
(* it into a failure after a lookup of the channel in vain.                *)
THEOREM VideoOutcomeIsFinal == Spec => OutcomeIsFinal
  <1> DEFINE Final == platform = "video" /\ row.status \in Terminal
                        => \/ row'.status = row.status
                           \/ row'.status = "FAILURE" /\ misses' > misses
  <1>1. Types /\ VideoInv /\ [Next]_vars => Final
    <2> SUFFICES ASSUME Types, VideoInv, [Next]_vars, platform = "video", row.status \in Terminal
                 PROVE  \/ row'.status = row.status
                        \/ row'.status = "FAILURE" /\ misses' > misses
      OBVIOUS
    <2>1. GuardedInv
      BY DEF VideoInv
    <2>2. ASSUME row' = row PROVE row'.status = row.status
      BY <2>2
    <2>3. ASSUME NEW p \in Passes, SweepSwap(p) PROVE row' = row
      BY <2>1, <2>3 DEF SweepSwap, Swap, Lost, GuardedInv, Terminal
    <2>4. ASSUME NEW p \in Passes, Update(p) PROVE row' = row
      <3>1. [pass[p].copy EXCEPT !.status = "progress"].status = "progress"
        BY PassFacts DEF Row
      <3> QED BY <2>4, <3>1 DEF Update, Swap, Lost, Terminal
    <2>5. ASSUME NEW p \in Passes, UpdateQuota(p) PROVE row'.status = row.status
      BY <2>5, PassFacts DEF UpdateQuota, Row
    <2>6. ASSUME NEW p \in Passes, Save(p) PROVE FALSE
      BY <2>1, <2>6 DEF Save, GuardedInv
    <2>a. ASSUME NEW p \in Passes, BulkFail(p)
          PROVE  row' = row \/ (row'.status = "FAILURE" /\ misses' > misses)
      <3>1. Ended(row, "FAILURE").status = "FAILURE"
        BY PassFacts DEF Ended, Row
      <3>2. misses \in Int
        BY DEF Types, BoundInv
      <3> QED BY <2>a, <3>1, <3>2 DEF BulkFail
    <2>7. ASSUME NEW p \in Passes, Crash(p) \/ (Step(p) /\ ~SweepSwap(p) /\ ~Update(p)
                                               /\ ~UpdateQuota(p) /\ ~Save(p) /\ ~BulkFail(p))
          PROVE  row' = row
      BY <2>7 DEF Crash, Step, SweepRead, PollRead, FetchFails, Fetch, Refund, RefundToken, Settle, SettleToken
    <2>8. ASSUME Others
          PROVE  row' = row
      BY <2>1, <2>8 DEF Others, Submit, UpstreamEnds, TimeoutPasses, UserReads, UserWrites,
                        GuardedInv, Terminal
    <2>9. CASE UNCHANGED vars
      BY <2>9 DEF vars
    <2> QED BY <2>2, <2>3, <2>4, <2>5, <2>6, <2>a, <2>7, <2>8, <2>9 DEF Next, Others
  <1>2. Types /\ VideoInv /\ [Next]_vars => [Final]_vars
    BY <1>1
  <1> QED BY <1>2, VideoInvHolds, PTL DEF Spec, OutcomeIsFinal

----------------------------------------------------------------------------
(* What a video task has paid.                                             *)

(* The submission was settled and nothing failed since. *)
Clean == settled /\ ~short /\ misses = 0 /\ faults = 0 /\ crashes = 0

(* No pass works on a task that is not stored. *)
StoredInv == row.status = "none" => \A p \in Passes : pass[p].pc = "idle"

(* A task that goes on has paid the quota of its submission.  A pass       *)
(* carries that quota in its copy until it has billed, also when the task  *)
(* ends meanwhile.                                                         *)
DueInv ==
    /\ row.status = "progress" => fund = due /\ token = due /\ row.quota = due
    /\ \A p \in Passes :
         pass[p].pc \notin {"idle", "quota"} => pass[p].copy.quota = due

(* How far a pass that bills has come. *)
Funds(status, f, t) == row.status = status /\ fund = f /\ token = t
BillInv ==
    \A p \in Passes :
      /\ pass[p].pc = "refund" => Funds("FAILURE", due, due)
      /\ pass[p].pc = "refundToken" => Funds("FAILURE", 0, due)
      /\ pass[p].pc = "settle" => Funds("SUCCESS", due, due)
      /\ pass[p].pc = "settleToken" => Funds("SUCCESS", actual, due) /\ actual > 0
      /\ pass[p].pc = "quota" => Funds("SUCCESS", actual, actual) /\ actual > 0

PaysInv ==
    platform = "video" => /\ StoredInv
                          /\ Clean => DueInv /\ BillInv /\ PaidWhatIsDue

(* Steps of a pass touch neither the terms of the task nor what is clean,  *)
(* apart from failures: if nothing has failed after the step, nothing had, *)
(* its statement worked, the channel was found and nothing was refused.    *)
LEMMA CleanBefore ==
  ASSUME Types, NEW p \in Passes, Step(p), Clean'
  PROVE  Clean /\ DbOk /\ due' = due /\ ~DbFault /\ ~BulkFail(p) /\ short' = FALSE
  <1>1. faults \in Nat /\ misses \in Nat
    BY BoundAssumption DEF Types, BoundInv
  <1>2. ~DbFault
    BY <1>1 DEF DbFault, Clean
  <1>3. ~BulkFail(p)
    BY <1>1 DEF BulkFail, Clean
  <1>4. UNCHANGED Rest
    BY <1>3 DEF Step, SweepRead, SweepSwap, PollRead, FetchFails, Fetch, Update, Save, Refund,
           RefundToken, Settle, SettleToken, UpdateQuota
  <1>5. DbOk
    BY <1>2, <1>3 DEF Step, SweepRead, SweepSwap, PollRead, FetchFails, Fetch, Update, Save, Refund,
           RefundToken, Settle, SettleToken, UpdateQuota, DbOk
  <1>6. short' = short \/ short' = TRUE
    BY <1>3 DEF Step, SweepRead, SweepSwap, PollRead, FetchFails, Fetch, Update, Save, Refund,
           RefundToken, Settle, SettleToken, UpdateQuota, Adjust, Refuses, money
  <1>7. short' = FALSE /\ short = FALSE
    BY <1>6 DEF Clean, Types, MoneyInv
  <1> QED BY <1>2, <1>3, <1>4, <1>5, <1>7 DEF Rest, World, fixed, Clean, DbOk

(* A pass carries its copy to the place it goes to.                        *)
LEMMA GotoCopy ==
  ASSUME PassInv, NEW p \in Passes, NEW l, Goto(p, l)
  PROVE  pass'[p].copy = pass[p].copy
  <1>1. pass'[p] = [pass[p] EXCEPT !.pc = l] /\ pass[p] \in PassState
    BY DEF Goto, PassInv
  <1> QED BY <1>1 DEF PassState

(* A step of a pass finds a stored task and leaves it stored.              *)
LEMMA StepStored ==
  ASSUME Types, VideoInv, StoredInv, platform = "video", NEW p \in Passes, Step(p)
  PROVE  row.status # "none" /\ row'.status # "none"
  <1>1. GuardedInv /\ pass[p].copy \in Row /\ row \in Row
    BY PassFacts DEF VideoInv
  <1>2. row.status # "none"
    BY DEF Step, SweepRead, SweepSwap, PollRead, BulkFail, FetchFails, Fetch, Update, Save, Refund,
           RefundToken, Settle, SettleToken, UpdateQuota, Unfinished, StoredInv
  <1>3. \A c \in Row : Ended(c, "FAILURE").status = "FAILURE"
    BY DEF Ended, Row
  <1>4. CASE SweepSwap(p) \/ BulkFail(p)
    BY <1>1, <1>2, <1>3, <1>4 DEF SweepSwap, BulkFail, Swap, Lost
  <1>5. CASE Update(p)
    BY <1>2, <1>5 DEF Update, Swap, Lost
  <1>6. CASE Save(p)
    BY <1>1, <1>6 DEF Save, GuardedInv
  <1>7. CASE UpdateQuota(p)
    <2>1. [row EXCEPT !.quota = actual].status = row.status
      BY <1>1 DEF Row
    <2> QED BY <1>2, <1>7, <2>1 DEF UpdateQuota
  <1> QED BY <1>2, <1>4, <1>5, <1>6, <1>7 DEF Step, SweepRead, PollRead, FetchFails, Fetch, Refund,
             RefundToken, Settle, SettleToken

(* What a pass does before it bills keeps what has been paid.              *)
LEMMA PassPays ==
  ASSUME Types, VideoInv, PaysInv, platform = "video", Clean, NEW p \in Passes, DbOk, ~DbFault,
         due' = due,
         \/ SweepRead(p) \/ SweepSwap(p) \/ PollRead(p) \/ FetchFails(p)
         \/ Fetch(p) \/ Update(p) \/ Save(p)
  PROVE  DueInv' /\ BillInv' /\ PaidWhatIsDue'
  <1>0. /\ PassInv /\ GuardedInv /\ BilledInv /\ OnceInv /\ DueInv /\ BillInv /\ PaidWhatIsDue
    BY DEF Types, VideoInv, PaysInv, Clean
  <1>1. fund' = fund /\ token' = token /\ actual' = actual
    BY DEF SweepRead, SweepSwap, PollRead, FetchFails, Fetch, Update, Save, money
  <1>2. pass[p] \in PassState /\ pass[p].copy \in Row /\ row \in Row
    BY PassFacts
  <1>3. pass[p].pc \notin Billing
    BY <1>0 DEF SweepRead, SweepSwap, PollRead, FetchFails, Fetch, Update, Save, Billing
  (* The pass reads, goes on or ends, and the row stays. *)
  <1>4. ASSUME row' = row, \A q \in Passes : q # p => pass'[q] = pass[q],
               pass'[p].pc \in {"idle", "sweep", "fetch", "swap"},
               pass'[p].pc # "idle" => pass'[p].copy.quota = due
        PROVE  DueInv' /\ BillInv' /\ PaidWhatIsDue'
    <2>1. DueInv'
      BY <1>0, <1>1, <1>4 DEF DueInv
    <2>2. BillInv'
      BY <1>0, <1>1, <1>4 DEF BillInv, Funds
    <2>3. Billers' = Billers
      BY <1>3, <1>4 DEF Billers, Billing
    <2>4. PaidWhatIsDue'
      BY <1>0, <1>1, <1>4, <2>3 DEF PaidWhatIsDue, Paid
    <2> QED BY <2>1, <2>2, <2>4
  (* The write that ends the task: the pass that made it bills. *)
  <1>5. ASSUME row.status = "progress", \A q \in Passes : q # p => pass'[q] = pass[q],
               pass[p].pc \in {"sweep", "swap"}, pass'[p].copy = pass[p].copy,
               \/ row'.status = "FAILURE" /\ pass'[p].pc = "refund"
               \/ row'.status = "SUCCESS" /\ pass'[p].pc = "settle"
        PROVE  DueInv' /\ BillInv' /\ PaidWhatIsDue'
    <2>1. fund = due /\ token = due /\ pass[p].copy.quota = due
      BY <1>0, <1>5 DEF DueInv
    <2>2. DueInv'
      BY <1>0, <1>5, <2>1 DEF DueInv
    <2>3. \A q \in Passes : q # p => pass[q].pc \notin Billing
      BY <1>0, <1>5 DEF BilledInv, Terminal
    <2>4. BillInv'
      BY <1>1, <1>5, <2>1, <2>3 DEF BillInv, Funds, Billing
    <2>5. p \in Billers'
      BY <1>5 DEF Billers, Billing
    <2> QED BY <2>2, <2>4, <2>5 DEF PaidWhatIsDue
  <1>6. CASE SweepRead(p) \/ PollRead(p)
    <2>1. row.status = "progress" /\ row' = row
      BY <1>6 DEF SweepRead, PollRead, Unfinished
    <2>2. pass'[p].pc \in {"sweep", "fetch"} /\ pass'[p].copy = row
      BY <1>0, <1>2, <1>6 DEF SweepRead, PollRead, PassInv, PassState
    <2>3. \A q \in Passes : q # p => pass'[q] = pass[q]
      BY <1>0, <1>6 DEF SweepRead, PollRead, PassInv
    <2>4. row.quota = due
      BY <1>0, <2>1 DEF DueInv
    <2> QED BY <1>4, <2>1, <2>2, <2>3, <2>4
  <1>7. CASE SweepSwap(p)
    <2>1. pass[p].pc = "sweep" /\ pass[p].copy.status = "progress"
      BY <1>0, <1>7 DEF SweepSwap, GuardedInv
    <2>2. CASE End(p) /\ UNCHANGED row
      BY <1>0, <1>4, <2>2, EndPc
    <2>3. CASE Goto(p, "refund") /\ Swap(pass[p].copy, Ended(pass[p].copy, "FAILURE"))
      <3>1. row.status = "progress" /\ row'.status = "FAILURE"
        BY <1>2, <2>1, <2>3 DEF Swap, Ended, Row
      <3>2. pass'[p].pc = "refund" /\ \A q \in Passes : q # p => pass'[q] = pass[q]
        BY <1>0, <2>3, GotoPc
      <3>3. pass'[p].copy = pass[p].copy
        BY <1>0, <2>3, GotoCopy
      <3> QED BY <1>5, <2>1, <3>1, <3>2, <3>3
    <2> QED BY <1>7, <2>2, <2>3 DEF SweepSwap, Lost
  <1>8. CASE Save(p)
    BY <1>0, <1>8 DEF Save, GuardedInv
  <1>9. CASE FetchFails(p)
    BY <1>0, <1>4, <1>9, EndPc DEF FetchFails
  <1>10. CASE Fetch(p)
    <2>1. row' = row /\ pass[p].copy.quota = due
      BY <1>0, <1>10 DEF Fetch, DueInv
    <2>2. PICK f, full : pass' = [pass EXCEPT ![p].pc = "swap", ![p].failed = f,
                              ![p].copy = [@ EXCEPT
                                  !.status = IF f THEN "FAILURE" ELSE upstream, !.done = full]]
      BY <1>10 DEF Fetch
    <2> DEFINE c == [pass[p].copy EXCEPT !.status = IF f THEN "FAILURE" ELSE upstream, !.done = full]
    <2>3. pass' = [pass EXCEPT ![p].pc = "swap", ![p].failed = f, ![p].copy = c]
      BY <1>0, <2>2 DEF PassInv
    <2>4. c.quota = due
      BY <1>2, <2>1 DEF Row
    <2> HIDE DEF c
    <2>5. /\ pass'[p].pc = "swap" /\ pass'[p].copy = c
          /\ \A q \in Passes : q # p => pass'[q] = pass[q]
      BY <1>0, <1>2, <2>3 DEF PassInv, PassState
    <2> QED BY <1>4, <2>1, <2>4, <2>5
  <1>11. CASE Update(p)
    <2> DEFINE old == [pass[p].copy EXCEPT !.status = "progress"]
    <2>1. old.status = "progress" /\ pass[p].pc = "swap"
      BY <1>2, <1>11 DEF Update, Row
    <2>2. CASE End(p) /\ UNCHANGED row
      BY <1>0, <1>4, <2>2, EndPc
    <2>3. CASE End(p) /\ Swap(old, pass[p].copy) /\ pass[p].copy.status = "progress"
      <3>1. row.status = "progress" /\ row'.status = "progress" /\ row'.quota = pass[p].copy.quota
        BY <2>1, <2>3 DEF Swap
      <3>2. pass'[p].pc = "idle" /\ \A q \in Passes : q # p => pass'[q] = pass[q]
        BY <1>0, <2>3, EndPc
      <3>3. pass[p].copy.quota = due /\ fund = due /\ token = due
        BY <1>0, <2>1, <3>1 DEF DueInv
      <3>4. DueInv'
        BY <1>0, <1>1, <3>1, <3>2, <3>3 DEF DueInv
      <3>5. \A q \in Passes : pass'[q].pc \notin Billing
        BY <1>0, <3>1, <3>2 DEF BilledInv, Terminal, Billing
      <3>6. BillInv'
        BY <3>5 DEF BillInv, Billing
      <3> QED BY <3>1, <3>4, <3>6 DEF PaidWhatIsDue, Terminal
    <2>4. CASE /\ Swap(old, pass[p].copy)
               /\ \/ pass[p].copy.status = "SUCCESS" /\ Goto(p, "settle")
                  \/ pass[p].copy.status = "FAILURE" /\ Goto(p, "refund")
      <3>1. row.status = "progress" /\ row'.status = pass[p].copy.status
        BY <2>1, <2>4 DEF Swap
      <3>2. /\ \/ row'.status = "SUCCESS" /\ pass'[p].pc = "settle"
               \/ row'.status = "FAILURE" /\ pass'[p].pc = "refund"
            /\ \A q \in Passes : q # p => pass'[q] = pass[q]
        BY <1>0, <2>4, <3>1, GotoPc
      <3>3. pass'[p].copy = pass[p].copy
        BY <1>0, <2>4, GotoCopy
      <3> QED BY <1>5, <2>1, <3>1, <3>2, <3>3
    <2> QED BY <1>11, <2>2, <2>3, <2>4 DEF Update, Lost
  <1> QED BY <1>6, <1>7, <1>8, <1>9, <1>10, <1>11

(* A bill takes the payments from what the submission cost to what is due. *)
LEMMA BillPays ==
  ASSUME Types, VideoInv, PaysInv, platform = "video", Clean, NEW p \in Passes, DbOk, ~DbFault,
         due' = due, short' = FALSE,
         Refund(p) \/ RefundToken(p) \/ Settle(p) \/ SettleToken(p) \/ UpdateQuota(p)
  PROVE  DueInv' /\ BillInv' /\ PaidWhatIsDue'
  <1>0. /\ PassInv /\ BilledInv /\ OnceInv /\ DueInv /\ BillInv /\ PaidWhatIsDue /\ row \in Row
    BY DEF Types, VideoInv, PaysInv, Clean, RowInv
  <1>1. fund \in Int /\ token \in Int /\ due \in Int /\ actual \in Nat
    <2>1. Actuals \subseteq Nat
      BY BoundAssumption
    <2>2. \A a \in Actuals \cup {0} : a \in Nat
      BY <2>1
    <2> QED BY <2>2, QuotaIsInt DEF Types, MoneyInv, WorldInv
  <1>a. ~Refuses /\ \A d : Adjust(d) => fund' = fund + d
    BY DEF Refuses, Adjust
  <1>2. pass[p].pc \in Billing /\ row.status \in Terminal
    BY <1>0 DEF Refund, RefundToken, Settle, SettleToken, UpdateQuota, Billing, BilledInv
  <1>3. \A q \in Passes : q # p => pass[q].pc \notin Billing
    BY <1>0, <1>2 DEF OnceInv
  <1>4. row'.status = row.status
    <2>1. [row EXCEPT !.quota = actual].status = row.status
      BY <1>0 DEF Row
    <2> QED BY <2>1 DEF Refund, RefundToken, Settle, SettleToken, UpdateQuota
  <1>5. After(p) <=> End(p)
    BY DEF After
  (* The bill is paid. *)
  <1>6. ASSUME End(p), fund' = Paid', token' = Paid'
        PROVE  DueInv' /\ BillInv' /\ PaidWhatIsDue'
    <2>1. pass'[p].pc = "idle" /\ \A q \in Passes : q # p => pass'[q] = pass[q]
      BY <1>0, <1>6, EndPc
    <2>2. \A q \in Passes : pass'[q].pc \notin Billing
      BY <1>3, <2>1 DEF Billing
    <2>3. DueInv'
      BY <1>0, <1>2, <1>4, <2>1 DEF DueInv, Terminal
    <2>4. BillInv'
      BY <2>2 DEF BillInv, Billing
    <2> QED BY <1>6, <2>3, <2>4 DEF PaidWhatIsDue
  (* The bill goes on. *)
  <1>7. ASSUME NEW l \in {"refundToken", "settleToken", "quota"}, Goto(p, l),
               pass[p].pc = "quota" => l = "quota",
               l = "refundToken" => row.status = "FAILURE" /\ fund' = 0 /\ token' = due,
               l = "settleToken" => row.status = "SUCCESS" /\ fund' = actual' /\ token' = due /\ actual' > 0,
               l = "quota" => row.status = "SUCCESS" /\ fund' = actual' /\ token' = actual' /\ actual' > 0
        PROVE  DueInv' /\ BillInv' /\ PaidWhatIsDue'
    <2>1. pass'[p].pc = l /\ \A q \in Passes : q # p => pass'[q] = pass[q]
      BY <1>0, <1>7, GotoPc
    <2>2. pass'[p].copy = pass[p].copy
      BY <1>0, <1>7, GotoCopy
    <2>3. DueInv'
      BY <1>0, <1>2, <1>4, <1>7, <2>1, <2>2 DEF DueInv, Terminal, Billing
    <2>4. BillInv'
      BY <1>3, <1>4, <1>7, <2>1 DEF BillInv, Funds, Billing
    <2>5. p \in Billers'
      BY <1>7, <2>1 DEF Billers, Billing
    <2> QED BY <2>3, <2>4, <2>5 DEF PaidWhatIsDue
  <1>8. pass[p].pc # "quota" => pass[p].copy.quota = due
    BY <1>0, <1>2 DEF DueInv, Billing
  <1>9. CASE Refund(p)
    <2>1. Funds("FAILURE", due, due) /\ pass[p].copy.quota = due
      BY <1>0, <1>8, <1>9 DEF Refund, BillInv
    <2>2. Goto(p, "refundToken") /\ fund' = fund + (-pass[p].copy.quota) /\ token' = token
      BY <1>9, <1>a DEF Refund
    <2>3. fund' = 0 /\ token' = due /\ row.status = "FAILURE"
      BY <1>1, <2>1, <2>2 DEF Funds
    <2> QED BY <1>7, <1>9, <2>2, <2>3 DEF Refund
  <1>10. CASE RefundToken(p)
    <2>1. Funds("FAILURE", 0, due) /\ pass[p].copy.quota = due
      BY <1>0, <1>8, <1>10 DEF RefundToken, BillInv
    <2>2. End(p) /\ token' = token - pass[p].copy.quota /\ fund' = fund
      BY <1>5, <1>10 DEF RefundToken
    <2>3. fund' = Paid' /\ token' = Paid'
      BY <1>1, <1>4, <2>1, <2>2 DEF Funds, Paid
    <2> QED BY <1>6, <2>2, <2>3
  <1>11. CASE Settle(p)
    <2>1. Funds("SUCCESS", due, due) /\ pass[p].copy.quota = due /\ token' = token
      BY <1>0, <1>8, <1>11 DEF Settle, BillInv
    <2>a. actual' \in Nat
      <3>1. actual' \in Actuals /\ Actuals \subseteq Nat
        BY <1>11, BoundAssumption DEF Settle
      <3> QED BY <3>1
    <2>2. CASE (actual' = 0 \/ actual' - pass[p].copy.quota = 0) /\ fund' = fund /\ End(p)
      <3>1. fund' = Paid' /\ token' = Paid'
        BY <1>1, <1>4, <2>1, <2>a, <2>2 DEF Funds, Paid
      <3> QED BY <1>6, <2>2, <3>1
    <2>4. CASE /\ actual' > 0 /\ fund' = fund + (actual' - pass[p].copy.quota)
               /\ Goto(p, "settleToken")
      <3>1. row.status = "SUCCESS" /\ fund' = actual' /\ token' = due
        BY <1>1, <2>1, <2>a, <2>4 DEF Funds
      <3> QED BY <1>7, <1>11, <2>4, <3>1 DEF Settle
    <2> QED BY <1>11, <1>a, <2>2, <2>4 DEF Settle
  <1>12. CASE SettleToken(p)
    <2>1. Funds("SUCCESS", actual, due) /\ actual > 0 /\ pass[p].copy.quota = due
      BY <1>0, <1>8, <1>12 DEF SettleToken, BillInv
    <2>2. /\ Goto(p, "quota") /\ token' = token + actual - pass[p].copy.quota /\ fund' = fund
          /\ actual' = actual
      BY <1>12 DEF SettleToken
    <2>3. row.status = "SUCCESS" /\ fund' = actual' /\ token' = actual' /\ actual' > 0
      BY <1>1, <2>1, <2>2 DEF Funds
    <2> QED BY <1>7, <2>2, <2>3
  <1>13. CASE UpdateQuota(p)
    <2>1. Funds("SUCCESS", actual, actual) /\ actual > 0
      BY <1>0, <1>13 DEF UpdateQuota, BillInv
    <2>2. End(p) /\ fund' = fund /\ token' = token /\ actual' = actual
      BY <1>13 DEF UpdateQuota, money
    <2>3. fund' = Paid' /\ token' = Paid'
      BY <1>4, <2>1, <2>2 DEF Funds, Paid
    <2> QED BY <1>6, <2>2, <2>3
  <1> QED BY <1>9, <1>10, <1>11, <1>12, <1>13

(* A submission that was settled has paid its quota when it is stored; the *)
(* provider, time and users move no money.                                 *)
LEMMA OtherPays ==
  ASSUME Types, VideoInv, PaysInv, platform = "video",
         Others
  PROVE  StoredInv' /\ (Clean' => DueInv' /\ BillInv' /\ PaidWhatIsDue')
  <1>0. StoredInv /\ GuardedInv
    BY DEF PaysInv, VideoInv
  <1>1. CASE Submit
    <2>1. PICK held \in Quotas, quota \in Quotas :
            /\ \/ fund' = quota /\ token' = quota /\ settled' = TRUE
               \/ fund' = held /\ token' = held /\ settled' = FALSE
            /\ due' = quota /\ row' = [status |-> "progress", done |-> FALSE, quota |-> quota]
      BY <1>1 DEF Submit
    <2>2. \A p \in Passes : pass'[p].pc = "idle"
      BY <1>0, <1>1 DEF Submit, StoredInv
    <2>3. row'.status = "progress" /\ row'.quota = due'
      BY <2>1
    <2>4. StoredInv' /\ BillInv' /\ PaidWhatIsDue'
      BY <2>2, <2>3 DEF StoredInv, BillInv, PaidWhatIsDue, Terminal
    <2>5. Clean' => DueInv'
      BY <2>1, <2>2, <2>3 DEF Clean, DueInv
    <2> QED BY <2>4, <2>5
  <1>2. CASE UpstreamEnds \/ TimeoutPasses
    <2>1. /\ row' = row /\ pass' = pass /\ fund' = fund /\ token' = token /\ due' = due
          /\ actual' = actual
      BY <1>2 DEF UpstreamEnds, TimeoutPasses, fixed, money
    <2>2. Clean' => Clean
      BY <1>2 DEF UpstreamEnds, TimeoutPasses, fixed, money, Clean
    <2>3. Clean' => DueInv /\ BillInv /\ PaidWhatIsDue
      BY <2>2 DEF PaysInv
    <2> QED BY <1>0, <2>1, <2>3 DEF StoredInv, DueInv, BillInv, Funds, PaidWhatIsDue, Paid, Billers
  <1>3. ASSUME NEW u \in Users, UserReads(u) \/ UserWrites(u) PROVE FALSE
    BY <1>0, <1>3 DEF UserReads, UserWrites, GuardedInv
  <1> QED BY <1>1, <1>2, <1>3 DEF Others

(* The invariant holds at every moment.                                    *)
LEMMA PaysInvHolds == Spec => []PaysInv
  <1>1. Init => PaysInv
    BY DEF Init, PaysInv, StoredInv, Clean, Idle
  <1>2. Types /\ VideoInv /\ PaysInv /\ [Next]_vars => PaysInv'
    <2> SUFFICES ASSUME Types, VideoInv, PaysInv, [Next]_vars, platform' = "video"
                 PROVE  StoredInv' /\ (Clean' => DueInv' /\ BillInv' /\ PaidWhatIsDue')
      BY DEF PaysInv
    <2>1. platform = "video" /\ StoredInv
      BY PlatformKept DEF PaysInv
    <2>2. CASE UNCHANGED vars
      BY <2>1, <2>2 DEF vars, PaysInv, StoredInv, Clean, DueInv, BillInv, Funds, PaidWhatIsDue, Paid, Billers
    <2>3. ASSUME NEW p \in Passes, Step(p)
          PROVE  StoredInv' /\ (Clean' => DueInv' /\ BillInv' /\ PaidWhatIsDue')
      <3>1. StoredInv'
        BY <2>1, <2>3, StepStored DEF StoredInv
      <3>2. ASSUME Clean' PROVE DueInv' /\ BillInv' /\ PaidWhatIsDue'
        <4>1. Clean /\ DbOk /\ due' = due /\ ~DbFault /\ ~BulkFail(p) /\ short' = FALSE
          BY <2>3, <3>2, CleanBefore
        <4> QED BY <2>1, <2>3, <4>1, PassPays, BillPays DEF Step
      <3> QED BY <3>1, <3>2
    <2>4. ASSUME NEW p \in Passes, Crash(p)
          PROVE  StoredInv' /\ (Clean' => DueInv' /\ BillInv' /\ PaidWhatIsDue')
      <3>1. crashes \in Nat /\ crashes' = crashes + 1
        BY <2>4, BoundAssumption DEF Crash, Types, BoundInv
      <3>2. ~Clean'
        BY <3>1 DEF Clean
      <3>3. row' = row /\ End(p) /\ PassInv
        BY <2>4 DEF Crash, Types
      <3>4. StoredInv'
        BY <2>1, <3>3, EndPc DEF StoredInv
      <3> QED BY <3>2, <3>4
    <2> QED BY <2>1, <2>2, <2>3, <2>4, OtherPays DEF Next, Others
  <1> QED BY <1>1, <1>2, VideoInvHolds, PTL DEF Spec

(* A video task whose submission was settled ends up having paid what is   *)
(* due, from the wallet or subscription and from the token: any number of  *)
(* overlapping passes agree on one bill, if the channel is always found,   *)
(* the subscription refuses nothing, no statement fails and no process     *)
(* stops.                                                                  *)
THEOREM VideoPays == Spec => []VideoPaysWhatIsDue
  <1>1. PaysInv => VideoPaysWhatIsDue
    BY DEF PaysInv, VideoPaysWhatIsDue, Clean
  <1> QED BY <1>1, PaysInvHolds, PTL
=============================================================================
