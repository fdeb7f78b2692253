----------------------- MODULE SubscriptionQuotaProofs -----------------------
(***************************************************************************)
(* For any plan, any number of subscriptions and requests: rows stay well  *)
(* formed, no subscription is used beyond its total, and, unless a job     *)
(* crossed a change, one that has ended stays ended, reset times are       *)
(* sound and resets remove no later hold; the user's group fits as long as *)
(* no transaction wrote a choice that had become wrong since its reads.    *)
(* UsedWithinTotal is not inductive: a job saves rows it has read before,  *)
(* so that those have to be within the total too.  Nor are the two on      *)
(* resets: ScheduleInv relates a row's times to its latest hold.  RowInv   *)
(* relates the rows to the transactions under way: what is locked exists   *)
(* and is kept, and a purchase under way has no row.                       *)
(***************************************************************************)
EXTENDS SubscriptionQuota, FiniteSetTheorems, WellFoundedInduction, TLAPS

(* Rows within the total.                                                  *)
Good == {row \in Rows : Total > 0 => row.used <= Total}

Groups == {"default", UpgradeGroup, DowngradeGroup}
Records == [st : {"none", "consumed", "settled", "refunded"}, on : Nat, amount : Nat]

SubInv == sub \in [Subs -> Good]
GroupInv == group \in Groups
RecInv == rec \in [Requests -> Records]
TaskInv ==
    task \in [pc : {"expire", "mark", "lower", "list", "reset"}, at : Nat, due : SUBSET Subs, to : Choices]
OpenInv ==
    open \in [Subs -> [kind : {"none", "create", "cancel", "delete"}, at : Nat, to : Choices,
                       prev : {"none", "default", DowngradeGroup}]]
JobInv == job \in [kind : {"none", "keep", "advance", "sync"}, at : Nat, rows : [Subs -> Good]]
RestInv ==
    /\ now \in Nat /\ jobs \in Nat /\ heldAt \in [Subs -> Nat]
    /\ wiped \in {"yes", "no"} /\ crossed \in {"yes", "no"} /\ raced \in {"yes", "no"}

SafeInv == SubInv /\ GroupInv /\ RecInv /\ TaskInv /\ OpenInv /\ JobInv /\ RestInv

(* calcNextResetTime gives a time.                                         *)
LEMMA CalcNextIsTime == \A base, end \in Nat : CalcNextResetTime(base, end) \in Nat
  BY PlanAssumption DEF CalcNextResetTime

(* So does the loop over the boundaries, when one was passed.              *)
LEMMA BoundaryIsTime ==
  \A base, end, t \in Nat : Period > 0 /\ base <= t /\ base <= end => LastBoundary(base, end, t) \in Nat
  <1> SUFFICES ASSUME NEW base \in Nat, NEW end \in Nat, NEW t \in Nat, Period > 0, base <= t, base <= end
               PROVE  LastBoundary(base, end, t) \in Nat
    OBVIOUS
  <1> DEFINE d == (IF t < end THEN t ELSE end) - base
  <1>1. d \in Nat
    OBVIOUS
  <1> HIDE DEF d
  <1>2. d \div Period \in Nat
    BY <1>1, PlanAssumption
  <1> DEFINE q == d \div Period
  <1> HIDE DEF q
  <1>3. Period * q \in Nat
    BY <1>2, PlanAssumption DEF q
  <1>4. LastBoundary(base, end, t) = base + Period * q
    BY DEF LastBoundary, d, q
  <1> QED BY <1>3, <1>4

(* A periodic reset keeps a row well formed and its status, and does not   *)
(* increase what is used.                                                  *)
LEMMA MaybeResetRow ==
  \A row \in Rows, t \in Nat :
     /\ MaybeReset(row, t) \in Rows
     /\ MaybeReset(row, t).st = row.st
     /\ MaybeReset(row, t).used <= row.used
  <1> SUFFICES ASSUME NEW row \in Rows, NEW t \in Nat
               PROVE  /\ MaybeReset(row, t) \in Rows
                      /\ MaybeReset(row, t).st = row.st
                      /\ MaybeReset(row, t).used <= row.used
    OBVIOUS
  <1> DEFINE base == BaseOf(row)
  <1> DEFINE next == CalcNextResetTime(base, row.end)
  <1> DEFINE b == LastBoundary(base, row.end, t)
  <1>1. base \in Nat /\ row.end \in Nat
    BY DEF Rows, BaseOf
  <1>2. next \in Nat
    BY <1>1, CalcNextIsTime
  <1>3. Passed(row, t) => b \in Nat
    <2> SUFFICES ASSUME Passed(row, t) PROVE b \in Nat
      OBVIOUS
    <2>1. Period > 0 /\ base <= t /\ base <= row.end
      BY <1>1, PlanAssumption DEF Passed, CalcNextResetTime
    <2> QED BY <2>1, <1>1, BoundaryIsTime
  <1>4. Passed(row, t) => CalcNextResetTime(b, row.end) \in Nat
    BY <1>1, <1>3, CalcNextIsTime
  <1>5. CASE row.next > t
    BY <1>5 DEF MaybeReset, Rows
  <1>6. CASE ~(row.next > t) /\ Passed(row, t)
    <2>1. MaybeReset(row, t) = [row EXCEPT !.used = 0, !.last = b, !.next = CalcNextResetTime(b, row.end)]
      BY <1>6 DEF MaybeReset
    <2> HIDE DEF b
    <2> DEFINE n == CalcNextResetTime(b, row.end)
    <2>2. n \in Nat /\ b \in Nat
      BY <1>3, <1>4, <1>6
    <2> HIDE DEF n
    <2> DEFINE new == [row EXCEPT !.used = 0, !.last = b, !.next = n]
    <2>3. new \in Rows
      BY <2>2 DEF Rows
    <2>4. new.st = row.st
      BY DEF Rows
    <2>5. new.used <= row.used
      BY DEF Rows
    <2>6. MaybeReset(row, t) = new
      BY <2>1 DEF n
    <2> HIDE DEF new
    <2> QED BY <2>3, <2>4, <2>5, <2>6
  <1>7. CASE ~(row.next > t) /\ ~Passed(row, t)
    <2>1. MaybeReset(row, t) = [row EXCEPT !.next = next, !.last = base] \/ MaybeReset(row, t) = row
      BY <1>7 DEF MaybeReset
    <2> HIDE DEF base, next
    <2> DEFINE new == [row EXCEPT !.next = next, !.last = base]
    <2>2. new \in Rows
      BY <1>1, <1>2 DEF Rows
    <2>3. new.st = row.st
      BY DEF Rows
    <2>4. new.used <= row.used /\ row.used <= row.used
      BY DEF Rows
    <2>5. MaybeReset(row, t) = new \/ MaybeReset(row, t) = row
      BY <2>1
    <2> HIDE DEF new
    <2> QED BY <2>2, <2>3, <2>4, <2>5
  <1> QED BY <1>5, <1>6, <1>7

(* The rows that the actions write are within the total.                   *)
LEMMA MaybeResetGood == \A row \in Good, t \in Nat : MaybeReset(row, t) \in Good
  <1> SUFFICES ASSUME NEW row \in Good, NEW t \in Nat PROVE MaybeReset(row, t) \in Good
    OBVIOUS
  <1>1. row \in Rows /\ row.used \in Nat /\ (Total > 0 => row.used <= Total)
    BY DEF Good, Rows
  <1>2. MaybeReset(row, t) \in Rows /\ MaybeReset(row, t).used <= row.used
    BY <1>1, MaybeResetRow
  <1>3. MaybeReset(row, t).used \in Nat
    BY <1>2 DEF Rows
  <1> QED BY <1>1, <1>2, <1>3, PlanAssumption DEF Good

(* Another used amount within the total keeps a row within it.             *)
LEMMA UsedGood ==
  \A row \in Good, u \in Nat : (Total > 0 => u <= Total) => [row EXCEPT !.used = u] \in Good
  <1> SUFFICES ASSUME NEW row \in Good, NEW u \in Nat, Total > 0 => u <= Total
               PROVE  [row EXCEPT !.used = u] \in Good
    OBVIOUS
  <1>1. [row EXCEPT !.used = u] \in Rows
    BY DEF Good, Rows
  <1>2. [row EXCEPT !.used = u].used = u
    BY DEF Good, Rows
  <1> QED BY <1>1, <1>2 DEF Good

(* So do other reset times...                                              *)
LEMMA TimesGood ==
  \A row \in Good, l, n \in Nat : [row EXCEPT !.next = n, !.last = l] \in Good
  <1> SUFFICES ASSUME NEW row \in Good, NEW l \in Nat, NEW n \in Nat
               PROVE  [row EXCEPT !.next = n, !.last = l] \in Good
    OBVIOUS
  <1>1. [row EXCEPT !.next = n, !.last = l] \in Rows
    BY DEF Good, Rows
  <1>2. [row EXCEPT !.next = n, !.last = l].used = row.used
    BY DEF Good, Rows
  <1> QED BY <1>1, <1>2 DEF Good

(* ... and another status and end.                                         *)
LEMMA EndedGood ==
  \A row \in Good, t \in Nat :
     /\ [row EXCEPT !.st = "expired"] \in Good
     /\ [row EXCEPT !.st = "cancelled", !.end = t] \in Good
  <1> SUFFICES ASSUME NEW row \in Good, NEW t \in Nat
               PROVE  /\ [row EXCEPT !.st = "expired"] \in Good
                      /\ [row EXCEPT !.st = "cancelled", !.end = t] \in Good
    OBVIOUS
  <1>1. [row EXCEPT !.st = "expired"] \in Rows
    BY DEF Good, Rows
  <1>2. [row EXCEPT !.st = "expired"].used = row.used
    BY DEF Good, Rows
  <1>3. [row EXCEPT !.st = "cancelled", !.end = t] \in Rows
    BY DEF Good, Rows
  <1>4. [row EXCEPT !.st = "cancelled", !.end = t].used = row.used
    BY DEF Good, Rows
  <1> QED BY <1>1, <1>2, <1>3, <1>4 DEF Good

(* A row of a new, an absent or a deleted subscription.                    *)
LEMMA NewGood ==
  /\ NoRow \in Good /\ [NoRow EXCEPT !.st = "deleted"] \in Good
  /\ \A start, end, last, next \in Nat, prev \in {"none", "default", DowngradeGroup} :
        [st |-> "active", used |-> 0, start |-> start, end |-> end, last |-> last, next |-> next,
         prev |-> prev] \in Good
  <1>1. NoRow \in Good
    <2>1. NoRow \in Rows
      BY DEF NoRow, Rows
    <2>2. NoRow.used = 0
      BY DEF NoRow
    <2> QED BY <2>1, <2>2, PlanAssumption DEF Good
  <1>2. [NoRow EXCEPT !.st = "deleted"] \in Good
    <2> DEFINE row == [NoRow EXCEPT !.st = "deleted"]
    <2>1. row \in Rows
      BY DEF NoRow, Rows
    <2>2. row.used = 0
      BY DEF NoRow
    <2> HIDE DEF row
    <2>3. row \in Good
      BY <2>1, <2>2, PlanAssumption DEF Good
    <2> QED BY <2>3 DEF row
  <1>3. ASSUME NEW start \in Nat, NEW end \in Nat, NEW last \in Nat, NEW next \in Nat,
               NEW prev \in {"none", "default", DowngradeGroup}
        PROVE  [st |-> "active", used |-> 0, start |-> start, end |-> end, last |-> last, next |-> next,
                prev |-> prev] \in Good
    <2> DEFINE row == [st |-> "active", used |-> 0, start |-> start, end |-> end, last |-> last,
                       next |-> next, prev |-> prev]
    <2>1. row \in Rows
      BY DEF Rows
    <2>2. row.used = 0
      OBVIOUS
    <2> HIDE DEF row
    <2>3. row \in Good
      BY <2>1, <2>2, PlanAssumption DEF Good
    <2> QED BY <2>3 DEF row
  <1> QED BY <1>1, <1>2, <1>3

(* What is used of a row is a number within the total.                     *)
LEMMA GoodRow ==
  \A row \in Good :
     /\ row.used \in Nat /\ row.start \in Nat /\ row.end \in Nat /\ row.last \in Nat /\ row.next \in Nat
     /\ row.prev \in {"none", "default", DowngradeGroup}
     /\ Total > 0 => row.used <= Total
  BY DEF Good, Rows

----------------------------------------------------------------------------
(* Every action keeps the invariant.                                       *)

(* A step that leaves a row alone or replaces it by a good one.            *)
LEMMA ExceptGood ==
  ASSUME NEW S, NEW f \in [S -> Good], NEW s, NEW row \in Good
  PROVE  [f EXCEPT ![s] = row] \in [S -> Good]
  OBVIOUS

(* The group that an end leads back to is one of the three.                *)
LEMMA RevertedGroup ==
  ASSUME GroupInv, NEW row \in Good
  PROVE  Reverted(row) \in Groups
  BY GoodRow DEF Reverted, GroupInv, Groups

(* What is written for a group, and what a transaction has chosen.         *)
LEMMA ChoiceTypes ==
  ASSUME GroupInv
  PROVE  /\ \A g \in Groups : Unless(g) \in Choices
         /\ Unless(UpgradeGroup) \in Choices
         /\ \A row \in Good : Unless(Reverted(row)) \in Choices
         /\ "none" \in Choices
  <1>1. \A g \in Groups : Unless(g) \in Choices
    BY DEF Unless, Choices, Groups
  <1> QED BY <1>1, RevertedGroup DEF Groups, Choices

(* A choice that is written keeps the group one of the three.              *)
LEMMA ChooseGroup ==
  ASSUME GroupInv, NEW to \in Choices, NEW wouldBe, Choose(to, wouldBe)
  PROVE  GroupInv'
  BY DEF GroupInv, Groups, Choices, Choose

(* A purchase begins.                                                      *)
LEMMA CreateSafe == ASSUME SafeInv, NEW s \in Subs, Create(s) PROVE SafeInv'
  <1> DEFINE prev == IF group # UpgradeGroup THEN group ELSE "none"
  <1>1. prev \in {"none", "default", DowngradeGroup}
    BY DEF SafeInv, GroupInv, Groups
  <1>2. Unless(UpgradeGroup) \in Choices /\ now \in Nat
    BY ChoiceTypes DEF SafeInv, RestInv
  <1>3. open' = [open EXCEPT ![s] = [kind |-> "create", at |-> now, to |-> Unless(UpgradeGroup),
                                     prev |-> prev]]
    BY DEF Create
  <1> HIDE DEF prev
  <1>4. OpenInv'
    BY <1>1, <1>2, <1>3 DEF SafeInv, OpenInv
  <1> QED BY <1>4 DEF Create, SafeInv, SubInv, GroupInv, RecInv, TaskInv, JobInv, RestInv, history

(* An opened transaction is closed.                                        *)
LEMMA ClosedOpen ==
  ASSUME OpenInv, NEW s \in Subs, open' = [open EXCEPT ![s] = NoTx] PROVE OpenInv'
  <1>1. NoTx \in [kind : {"none", "create", "cancel", "delete"}, at : Nat, to : Choices,
                  prev : {"none", "default", DowngradeGroup}]
    BY DEF NoTx, Choices
  <1> QED BY <1>1 DEF OpenInv

(* What a transaction has read and chosen.                                 *)
LEMMA OpenTypes ==
  ASSUME OpenInv, NEW s \in Subs
  PROVE  open[s].at \in Nat /\ open[s].to \in Choices /\ open[s].prev \in {"none", "default", DowngradeGroup}
  BY DEF OpenInv

(* A purchase commits.                                                     *)
LEMMA CommitCreateSafe == ASSUME SafeInv, NEW s \in Subs, CommitCreate(s) PROVE SafeInv'
  <1> DEFINE at == open[s].at
  <1> DEFINE end == at + Duration
  <1> DEFINE next == CalcNextResetTime(at, end)
  <1> DEFINE last == IF next > 0 THEN at ELSE 0
  <1> DEFINE prev == open[s].prev
  <1> DEFINE row == [st |-> "active", used |-> 0, start |-> at, end |-> end, last |-> last,
                     next |-> next, prev |-> prev]
  <1>1. at \in Nat /\ end \in Nat /\ prev \in {"none", "default", DowngradeGroup} /\ open[s].to \in Choices
    BY PlanAssumption, OpenTypes DEF SafeInv
  <1>2. next \in Nat
    BY <1>1, CalcNextIsTime
  <1>3. last \in Nat
    BY <1>1
  <1>5. sub' = [sub EXCEPT ![s] = row]
    BY DEF CommitCreate
  <1> HIDE DEF end, next, last, prev, at
  <1>6. row \in Good
    BY <1>1, <1>2, <1>3, NewGood
  <1> HIDE DEF row
  <1>7. SubInv'
    BY <1>5, <1>6, ExceptGood DEF SafeInv, SubInv
  <1>8. GroupInv'
    BY <1>1, ChooseGroup DEF CommitCreate, SafeInv
  <1>9. OpenInv'
    BY ClosedOpen DEF CommitCreate, SafeInv
  <1>10. RecInv' /\ TaskInv' /\ JobInv' /\ RestInv'
    BY DEF CommitCreate, Choose, SafeInv, RecInv, TaskInv, JobInv, RestInv
  <1> QED BY <1>7, <1>8, <1>9, <1>10 DEF SafeInv

(* A cancellation or a deletion begins.                                    *)
LEMMA OpenEndSafe ==
  ASSUME SafeInv, NEW s \in Subs, NEW kind \in {"cancel", "delete"}, OpenEnd(s, kind) PROVE SafeInv'
  <1>1. Downgraded(s, now) \in Choices
    BY ChoiceTypes DEF Downgraded, SafeInv, SubInv
  <1>2. now \in Nat
    BY DEF SafeInv, RestInv
  <1>3. OpenInv'
    BY <1>1, <1>2 DEF OpenEnd, SafeInv, OpenInv
  <1> QED BY <1>3 DEF OpenEnd, CountJob, SafeInv, SubInv, GroupInv, RecInv, TaskInv, JobInv, RestInv, history

(* One of them commits.                                                    *)
LEMMA CommitEndSafe ==
  ASSUME SafeInv, NEW s \in Subs, NEW row \in Good, CommitEnd(s, row) PROVE SafeInv'
  <1>1. SubInv'
    BY ExceptGood DEF CommitEnd, SafeInv, SubInv
  <1>2. GroupInv'
    BY OpenTypes, ChooseGroup DEF CommitEnd, SafeInv
  <1>3. OpenInv'
    BY ClosedOpen DEF CommitEnd, SafeInv
  <1>4. RecInv' /\ TaskInv' /\ JobInv' /\ RestInv'
    BY DEF CommitEnd, Choose, SafeInv, RecInv, TaskInv, JobInv, RestInv
  <1> QED BY <1>1, <1>2, <1>3, <1>4 DEF SafeInv

(* Any opened transaction commits.                                         *)
LEMMA CloseSafe == ASSUME SafeInv, NEW s \in Subs, Close(s) PROVE SafeInv'
  <1>1. [sub[s] EXCEPT !.st = "cancelled", !.end = open[s].at] \in Good
    BY EndedGood, OpenTypes DEF SafeInv, SubInv
  <1>2. [NoRow EXCEPT !.st = "deleted"] \in Good
    BY NewGood
  <1> QED BY <1>1, <1>2, CommitCreateSafe, CommitEndSafe DEF Close, CommitInvalidate, CommitDelete

(* The expiry pass looks.                                                  *)
LEMMA ListEndedSafe == ASSUME SafeInv, ListEnded PROVE SafeInv'
  <1>1. TaskInv'
    BY DEF ListEnded, SafeInv, TaskInv, RestInv
  <1> QED BY <1>1 DEF ListEnded, SafeInv, SubInv, GroupInv, RecInv, OpenInv, JobInv, RestInv, history

(* Marked rows are well formed.                                            *)
LEMMA MarkedGood == ASSUME SafeInv, NEW due PROVE Marked(due) \in [Subs -> Good]
  <1>1. \A s \in Subs : sub[s] \in Good /\ [sub[s] EXCEPT !.st = "expired"] \in Good
    BY EndedGood DEF SafeInv, SubInv, RestInv
  <1> QED BY <1>1 DEF Marked

(* Of the expired rows one ended last: there are finitely many.            *)
LEMMA LastExists ==
  ASSUME NEW rows \in [Subs -> Good], \E s \in Subs : rows[s].st = "expired"
  PROVE  \E s \in Subs : LastExpired(rows, s)
  <1> DEFINE E == {s \in Subs : rows[s].st = "expired"}
  <1> DEFINE Up(s) == {o \in E : EndedAfter(rows, o, s)}
  <1> DEFINE T == {Up(s) : s \in E}
  <1>1. \A s \in Subs : s \in Nat /\ rows[s].end \in Nat
    BY SubAssumption, GoodRow
  <1>2. /\ \A a, b \in Subs : a # b => EndedAfter(rows, a, b) \/ EndedAfter(rows, b, a)
        /\ \A a \in Subs : ~EndedAfter(rows, a, a)
        /\ \A a, b, c \in Subs : EndedAfter(rows, a, b) /\ EndedAfter(rows, b, c) => EndedAfter(rows, a, c)
    BY <1>1 DEF EndedAfter
  <1>3. FiniteSubsetsOf(Subs) = SUBSET Subs
    BY SubAssumption, FS_FiniteSubsetsOfFinite
  <1>4. IsWellFoundedOn(StrictSubsetOrdering(Subs), SUBSET Subs)
    BY <1>3, FS_StrictSubsetOrderingWellFounded
  <1>5. T \subseteq SUBSET Subs /\ T # {}
    OBVIOUS
  <1>6. PICK A \in T : \A B \in T : ~(<<B, A>> \in StrictSubsetOrdering(Subs))
    <2> HIDE DEF T
    <2> QED BY <1>4, <1>5, WFMin
  <1>7. PICK s \in E : A = Up(s)
    OBVIOUS
  <1>8. ASSUME NEW o \in E, o # s PROVE EndedAfter(rows, s, o)
    <2> SUFFICES ASSUME ~EndedAfter(rows, s, o) PROVE FALSE
      OBVIOUS
    <2>1. EndedAfter(rows, o, s) /\ o \in Subs /\ s \in Subs
      BY <1>2, <1>8
    <2>2. Up(o) \subseteq Up(s)
      BY <1>2, <2>1
    <2>3. o \in Up(s) /\ o \notin Up(o)
      BY <1>2, <2>1
    <2>4. Up(o) \in T /\ Up(o) \in SUBSET Subs /\ Up(s) \in SUBSET Subs
      OBVIOUS
    <2>5. <<Up(o), Up(s)>> \in StrictSubsetOrdering(Subs)
      <3> DEFINE a == Up(o)
      <3> DEFINE b == Up(s)
      <3>1. a \subseteq b /\ a # b /\ a \in SUBSET Subs /\ b \in SUBSET Subs
        BY <2>2, <2>3, <2>4
      <3> HIDE DEF a, b
      <3>2. <<a, b>> \in StrictSubsetOrdering(Subs)
        BY <3>1 DEF StrictSubsetOrdering
      <3> QED BY <3>2 DEF a, b
    <2> QED BY <1>6, <1>7, <2>4, <2>5
  <1> QED BY <1>8 DEF LastExpired

(* So is the group that the pass chooses, and it is one an expired row     *)
(* leads to if no row is valid and one is expired.                         *)
LEMMA DowngradeAfterChoice ==
  ASSUME SafeInv, NEW rows \in [Subs -> Good], NEW t
  PROVE  /\ DowngradeAfter(rows, t) \in Choices
         /\ \/ /\ DowngradeAfter(rows, t) = "none"
               /\ \/ \E s \in Subs : rows[s].st = "active" /\ rows[s].end > t
                  \/ \A s \in Subs : rows[s].st # "expired"
            \/ /\ \E row \in Good : DowngradeAfter(rows, t) = Unless(Reverted(row))
               /\ ~\E s \in Subs : rows[s].st = "active" /\ rows[s].end > t
  <1> DEFINE s0 == CHOOSE s \in Subs : LastExpired(rows, s)
  <1> DEFINE keep == \/ \E s \in Subs : rows[s].st = "active" /\ rows[s].end > t
                     \/ \A s \in Subs : rows[s].st # "expired"
  <1>1. DowngradeAfter(rows, t) = IF keep THEN "none" ELSE Unless(Reverted(rows[s0]))
    BY DEF DowngradeAfter
  <1>2. CASE keep
    BY <1>1, <1>2, ChoiceTypes DEF SafeInv
  <1>3. CASE ~keep
    <2>1. DowngradeAfter(rows, t) = Unless(Reverted(rows[s0]))
      BY <1>1, <1>3
    <2>2. s0 \in Subs
      BY <1>3, LastExists
    <2> HIDE DEF s0
    <2>3. rows[s0] \in Good
      BY <2>2
    <2>4. Unless(Reverted(rows[s0])) \in Choices
      BY <2>3, ChoiceTypes DEF SafeInv
    <2> QED BY <1>3, <2>1, <2>3, <2>4
  <1> QED BY <1>2, <1>3

(* It marks rows and chooses the group...                                  *)
LEMMA ExpireDueSafe == ASSUME SafeInv, ExpireDue PROVE SafeInv'
  <1> DEFINE due == {s \in Subs : Due(s, task.at)}
  <1>1. DowngradeAfter(Marked(due), task.at) \in Choices
    BY MarkedGood, DowngradeAfterChoice
  <1>2. task' = [task EXCEPT !.pc = "lower", !.due = due, !.to = DowngradeAfter(Marked(due), task.at)]
    BY DEF ExpireDue
  <1>3. due \in SUBSET Subs
    OBVIOUS
  <1> HIDE DEF due
  <1>4. TaskInv'
    BY <1>1, <1>2, <1>3 DEF SafeInv, TaskInv
  <1> QED BY <1>4 DEF ExpireDue, SafeInv, SubInv, GroupInv, RecInv, OpenInv, JobInv, RestInv, history

(* ... and commits.                                                        *)
LEMMA CommitExpiredSafe == ASSUME SafeInv, CommitExpired PROVE SafeInv'
  <1>1. SubInv'
    BY MarkedGood DEF CommitExpired, SubInv
  <1>2. GroupInv'
    BY ChooseGroup DEF CommitExpired, SafeInv, TaskInv
  <1>3. TaskInv'
    BY DEF CommitExpired, NoTask, TaskInv, Choices
  <1>4. RecInv' /\ OpenInv' /\ JobInv' /\ RestInv'
    BY DEF CommitExpired, Choose, SafeInv, RecInv, OpenInv, JobInv, RestInv
  <1> QED BY <1>1, <1>2, <1>3, <1>4 DEF SafeInv

(* The task once rows are listed, whichever they are.                      *)
LEMMA ListedTask ==
  ASSUME ListDue PROVE task'.pc \in {"expire", "reset"} /\ task'.at \in {0, now}
  <1> DEFINE due == {s \in Subs : Active(s) /\ ResetIsDue(s, now)}
  <1>1. task' = IF due = {} THEN NoTask ELSE [NoTask EXCEPT !.pc = "reset", !.at = now, !.due = due]
    BY DEF ListDue
  <1> HIDE DEF due
  <1>2. task' = NoTask \/ task' = [pc |-> "reset", at |-> now, due |-> due, to |-> "none"]
    BY <1>1 DEF NoTask
  <1> QED BY <1>2 DEF NoTask

(* The list of due rows.                                                   *)
LEMMA ListDueSafe == ASSUME SafeInv, ListDue PROVE SafeInv'
  <1>1. TaskInv'
    BY DEF ListDue, NoTask, Choices, SafeInv, TaskInv, RestInv
  <1> QED BY <1>1 DEF ListDue, SafeInv, SubInv, GroupInv, RecInv, OpenInv, JobInv, RestInv, history

(* The task's reset of a row.                                              *)
LEMMA ResetOneSafe == ASSUME SafeInv, NEW s \in Subs, ResetOne(s) PROVE SafeInv'
  <1> DEFINE row == IF Exists(s) /\ ResetIsDue(s, task.at) THEN MaybeReset(sub[s], task.at) ELSE sub[s]
  <1>1. sub[s] \in Good /\ task.at \in Nat
    BY DEF SafeInv, SubInv, TaskInv
  <1>2. row \in Good
    BY <1>1, MaybeResetGood
  <1>3. sub' = [sub EXCEPT ![s] = row]
    BY DEF ResetOne, SafeInv, SubInv
  <1> HIDE DEF row
  <1>4. SubInv'
    BY <1>2, <1>3, ExceptGood DEF SafeInv, SubInv
  <1>5. TaskInv'
    BY DEF ResetOne, NoTask, Choices, SafeInv, TaskInv
  <1>6. GroupInv' /\ RecInv' /\ OpenInv' /\ JobInv' /\ RestInv'
    BY DEF ResetOne, WipedIf, SafeInv, GroupInv, RecInv, OpenInv, JobInv, RestInv
  <1> QED BY <1>4, <1>5, <1>6 DEF SafeInv

(* A hold: the rows that are tried are reset, and the first with enough    *)
(* left takes the amount.                                                  *)
LEMMA PreConsumeSafe == ASSUME SafeInv, NEW r \in Requests, PreConsume(r) PROVE SafeInv'
  <1>1. PICK amount \in Amounts, s \in Subs, tried \in SUBSET Subs :
          /\ s \in tried /\ Suffices(MaybeReset(sub[s], now), amount)
          /\ sub' = [[o \in Subs |-> IF o \in tried THEN MaybeReset(sub[o], now) ELSE sub[o]]
                       EXCEPT ![s].used = @ + amount]
          /\ WipedIf(\E o \in tried : Wipes(o, sub[o], now))
          /\ rec' = [rec EXCEPT ![r] = [st |-> "consumed", on |-> s, amount |-> amount]]
          /\ heldAt' = [heldAt EXCEPT ![s] = now]
    BY DEF PreConsume
  <1> DEFINE old == MaybeReset(sub[s], now)
  <1> DEFINE used == old.used + amount
  <1> DEFINE row == [old EXCEPT !.used = used]
  <1>2. \A o \in Subs : sub[o] \in Good /\ MaybeReset(sub[o], now) \in Good
    BY MaybeResetGood DEF SafeInv, SubInv, RestInv
  <1>3. amount \in Nat /\ s \in Nat /\ now \in Nat
    BY SubAssumption DEF SafeInv, RestInv
  <1>4. old \in Good /\ used \in Nat /\ (Total > 0 => used <= Total)
    BY <1>1, <1>2, <1>3, GoodRow, PlanAssumption DEF Suffices
  <1>5. \A o \in Subs : sub'[o] = IF o = s THEN row ELSE IF o \in tried THEN MaybeReset(sub[o], now) ELSE sub[o]
    BY <1>1
  <1>6. sub' = [o \in Subs |-> sub'[o]]
    BY <1>1
  <1> HIDE DEF old, used
  <1>7. row \in Good
    BY <1>4, UsedGood
  <1> HIDE DEF row
  <1>8. SubInv'
    BY <1>2, <1>5, <1>6, <1>7 DEF SubInv
  <1>9. RecInv'
    BY <1>1, <1>3 DEF SafeInv, RecInv, Records
  <1>10. RestInv'
    BY <1>1, <1>3 DEF PreConsume, WipedIf, SafeInv, RestInv
  <1>11. GroupInv' /\ TaskInv' /\ OpenInv' /\ JobInv'
    BY DEF PreConsume, SafeInv, GroupInv, TaskInv, OpenInv, JobInv
  <1> QED BY <1>8, <1>9, <1>10, <1>11 DEF SafeInv

(* A difference is applied to a row within the total.                      *)
LEMMA PostConsumeGood ==
  ASSUME SubInv, NEW s, NEW delta \in Int, PostConsume(s, delta)
  PROVE  SubInv'
  <1> DEFINE used == IF sub[s].used + delta < 0 THEN 0 ELSE sub[s].used + delta
  <1> DEFINE row == [sub[s] EXCEPT !.used = used]
  <1>1. \A x \in Subs : sub'[x] = IF x = s THEN row ELSE sub[x]
    BY DEF PostConsume, SubInv
  <1>2. sub' = [x \in Subs |-> sub'[x]]
    BY DEF PostConsume, SubInv
  <1>3. s \in Subs => row \in Good
    <2> SUFFICES ASSUME s \in Subs PROVE row \in Good
      OBVIOUS
    <2>1. sub[s] \in Good /\ sub[s].used \in Nat
      BY GoodRow DEF SubInv
    <2>2. used \in Nat /\ (Total > 0 => used <= Total)
      BY <2>1, PlanAssumption DEF PostConsume
    <2> HIDE DEF used
    <2> QED BY <2>1, <2>2, UsedGood
  <1> HIDE DEF row
  <1> QED BY <1>1, <1>2, <1>3 DEF SubInv

(* A settlement.                                                           *)
LEMMA SettleSafe == ASSUME SafeInv, NEW r \in Requests, Settle(r) PROVE SafeInv'
  <1>1. SubInv'
    BY PostConsumeGood, SubAssumption DEF Settle, SafeInv
  <1>2. RecInv'
    BY DEF Settle, SafeInv, RecInv, Records
  <1> QED BY <1>1, <1>2 DEF Settle, SafeInv, GroupInv, TaskInv, OpenInv, JobInv, RestInv, history

(* A refund.                                                               *)
LEMMA RefundSafe == ASSUME SafeInv, NEW r \in Requests, Refund(r) PROVE SafeInv'
  <1>1. -rec[r].amount \in Int
    BY DEF SafeInv, RecInv, Records
  <1>2. SubInv'
    BY <1>1, PostConsumeGood DEF Refund, SafeInv
  <1>3. RecInv'
    BY DEF Refund, SafeInv, RecInv, Records
  <1> QED BY <1>2, <1>3 DEF Refund, SafeInv, GroupInv, TaskInv, OpenInv, JobInv, RestInv, history

(* A job reads.                                                            *)
LEMMA BeginSafe ==
  ASSUME SafeInv, NEW kind \in {"keep", "advance", "sync"}, Begin(kind) PROVE SafeInv'
  <1> DEFINE rows == [s \in Subs |-> IF Valid(s) THEN sub[s] ELSE NoRow]
  <1>1. rows \in [Subs -> Good]
    BY NewGood DEF SafeInv, SubInv
  <1>2. job' = [kind |-> kind, at |-> now, rows |-> rows] /\ now \in Nat
    BY DEF Begin, SafeInv, RestInv
  <1> HIDE DEF rows
  <1>3. JobInv'
    BY <1>1, <1>2 DEF JobInv
  <1> QED BY <1>3 DEF Begin, CountJob, SafeInv, SubInv, GroupInv, RecInv, TaskInv, OpenInv, RestInv, history

(* What a job has read, and that it may end.                               *)
LEMMA JobRows ==
  ASSUME JobInv
  PROVE  /\ job.at \in Nat /\ \A s \in Subs : job.rows[s] \in Good
         /\ NoJob \in [kind : {"none", "keep", "advance", "sync"}, at : Nat, rows : [Subs -> Good]]
  BY NewGood DEF JobInv, NoJob

(* An administrative reset commits.                                        *)
LEMMA CommitResetSafe == ASSUME SafeInv, CommitReset PROVE SafeInv'
  <1>1. ASSUME NEW row \in Good PROVE ResetRow(row) \in Good
    <2> DEFINE next == CalcNextResetTime(job.at, row.end)
    <2> DEFINE last == IF next > 0 THEN job.at ELSE 0
    <2> DEFINE base == [row EXCEPT !.used = 0]
    <2>1. next \in Nat /\ last \in Nat
      BY JobRows, CalcNextIsTime, GoodRow DEF SafeInv
    <2>2. base \in Good
      BY UsedGood, PlanAssumption
    <2>3. ResetRow(row) = base \/ ResetRow(row) = [base EXCEPT !.next = next, !.last = last]
      BY DEF ResetRow, Good, Rows
    <2> HIDE DEF base, next, last
    <2> QED BY <2>1, <2>2, <2>3, TimesGood
  <1>2. SubInv'
    BY <1>1, JobRows DEF CommitReset, SafeInv, SubInv
  <1>3. JobInv'
    BY JobRows DEF CommitReset, SafeInv, JobInv
  <1>4. RestInv'
    BY DEF CommitReset, CrossedIfChanged, SafeInv, RestInv
  <1> QED BY <1>2, <1>3, <1>4 DEF CommitReset, SafeInv, GroupInv, RecInv, TaskInv, OpenInv

(* A synchronisation commits.                                              *)
LEMMA CommitSyncSafe == ASSUME SafeInv, CommitSync PROVE SafeInv'
  <1>1. ASSUME NEW s \in Subs PROVE SyncedRow(s) \in Good
    <2> DEFINE row == job.rows[s]
    <2> DEFINE next == CalcNextResetTime(BaseOf(row), row.end)
    <2> DEFINE n == IF row.next # next THEN next ELSE sub[s].next
    <2> DEFINE l == IF row.last = 0 /\ next > 0 THEN row.start ELSE sub[s].last
    <2>1. row \in Good /\ sub[s] \in Good /\ job.at \in Nat
      BY JobRows DEF SafeInv, SubInv
    <2>2. next \in Nat
      BY <2>1, CalcNextIsTime, GoodRow DEF BaseOf
    <2>3. n \in Nat /\ l \in Nat
      BY <2>1, <2>2, GoodRow
    <2>4. MaybeReset(row, job.at) \in Good
      BY <2>1, MaybeResetGood
    <2>5. [sub[s] EXCEPT !.next = n, !.last = l] \in Good
      <3> HIDE DEF n, l
      <3> QED BY <2>1, <2>3, TimesGood
    <2>6. [sub[s] EXCEPT !.next = 0] \in Good
      <3>1. [sub[s] EXCEPT !.next = 0] = [sub[s] EXCEPT !.next = 0, !.last = sub[s].last]
        BY <2>1 DEF Good, Rows
      <3> QED BY <3>1, <2>1, TimesGood, GoodRow
    <2> QED BY <2>1, <2>4, <2>5, <2>6 DEF SyncedRow
  <1>2. SubInv'
    BY <1>1 DEF CommitSync, SafeInv, SubInv
  <1>3. JobInv'
    BY JobRows DEF CommitSync, SafeInv, JobInv
  <1>4. RestInv'
    BY DEF CommitSync, CrossedIfChanged, WipedIf, SafeInv, RestInv
  <1> QED BY <1>2, <1>3, <1>4 DEF CommitSync, SafeInv, GroupInv, RecInv, TaskInv, OpenInv

(* The clock.                                                              *)
LEMMA TickSafe == ASSUME SafeInv, Tick PROVE SafeInv'
  BY DEF Tick, SafeInv, SubInv, GroupInv, RecInv, TaskInv, OpenInv, JobInv, RestInv, history

(* The invariant holds at first...                                         *)
LEMMA SafeInit == Init => SafeInv
  <1> SUFFICES ASSUME Init PROVE SafeInv
    OBVIOUS
  <1>1. SubInv
    BY NewGood DEF Init, SubInv
  <1>2. JobInv
    BY NewGood DEF Init, JobInv, NoJob
  <1>3. GroupInv /\ RecInv /\ TaskInv /\ OpenInv /\ RestInv
    BY DEF Init, GroupInv, Groups, RecInv, Records, NoRec, TaskInv, NoTask, OpenInv, NoTx, Choices, RestInv
  <1> QED BY <1>1, <1>2, <1>3 DEF SafeInv

(* ... and is kept by every step.                                          *)
LEMMA SafeStep == SafeInv /\ [Next]_vars => SafeInv'
  <1> SUFFICES ASSUME SafeInv, [Next]_vars PROVE SafeInv'
    OBVIOUS
  <1>1. CASE \E s \in Subs : Create(s) \/ AdminInvalidate(s) \/ AdminDelete(s) \/ Close(s) \/ ResetOne(s)
    BY <1>1, CreateSafe, OpenEndSafe, CloseSafe, ResetOneSafe DEF AdminInvalidate, AdminDelete
  <1>2. CASE ListEnded \/ ExpireDue \/ CommitExpired \/ ListDue
    BY <1>2, ListEndedSafe, ExpireDueSafe, CommitExpiredSafe, ListDueSafe
  <1>3. CASE \E r \in Requests : PreConsume(r) \/ Settle(r) \/ Refund(r)
    BY <1>3, PreConsumeSafe, SettleSafe, RefundSafe
  <1>4. CASE (\E kind \in {"keep", "advance", "sync"} : Begin(kind)) \/ CommitReset \/ CommitSync
    BY <1>4, BeginSafe, CommitResetSafe, CommitSyncSafe
  <1>5. CASE Tick
    BY <1>5, TickSafe
  <1>6. CASE UNCHANGED vars
    BY <1>6 DEF vars, history, SafeInv, SubInv, GroupInv, RecInv, TaskInv, OpenInv, JobInv, RestInv
  <1> QED BY <1>1, <1>2, <1>3, <1>4, <1>5, <1>6 DEF Next

(* The invariant gives the two that are checked.                           *)
LEMMA SafeImplies == SafeInv => TypeOK /\ UsedWithinTotal
  <1> SUFFICES ASSUME SafeInv PROVE TypeOK /\ UsedWithinTotal
    OBVIOUS
  <1>1. Good \subseteq Rows
    BY DEF Good
  <1>2. sub \in [Subs -> Rows]
    BY <1>1 DEF SafeInv, SubInv
  <1>3. job \in [kind : {"none", "keep", "advance", "sync"}, at : Nat, rows : [Subs -> Rows]]
    BY <1>1 DEF SafeInv, JobInv
  <1>4. TypeOK
    BY <1>2, <1>3 DEF TypeOK, SafeInv, GroupInv, Groups, RecInv, Records, TaskInv, OpenInv, RestInv
  <1>5. UsedWithinTotal
    BY GoodRow DEF UsedWithinTotal, SafeInv, SubInv
  <1> QED BY <1>4, <1>5

----------------------------------------------------------------------------
(* Rows, records, the task and the jobs are well formed at every moment.   *)
THEOREM SubscriptionTypeOK == Spec => []TypeOK
  BY SafeInit, SafeStep, SafeImplies, PTL DEF Spec

(* No subscription is used beyond its total, for any mix of holds,         *)
(* settlements, refunds, resets and saves of rows read before.             *)
THEOREM SubscriptionWithinTotal == Spec => []UsedWithinTotal
  BY SafeInit, SafeStep, SafeImplies, PTL DEF Spec

----------------------------------------------------------------------------
(* Rows and the transactions under way.                                    *)

Ends == {"cancel", "delete"}
Marking(s) == task.pc = "lower" /\ s \in task.due

(* A purchase under way has no row yet; the row of a cancellation or a     *)
(* deletion exists and is not being marked; the rows that are marked are   *)
(* active; a job has read rows that exist; no hold is without a row.       *)
RowOf(s) ==
    /\ open[s].kind = "create" => sub[s].st = "none"
    /\ open[s].kind \in Ends => Exists(s) /\ ~Marking(s)
    /\ Marking(s) => Active(s)
    /\ Read(s) => sub[s].st # "none"
    /\ sub[s].st = "none" => heldAt[s] = 0
RowInv == \A s \in Subs : RowOf(s)

(* A step that opens, closes and marks nothing, and changes the status of  *)
(* a row only by saving it as active after it was read.                    *)
LEMMA RowFrame ==
  ASSUME RowInv, open' = open, \A s \in Subs : Marking(s)' => Marking(s),
         \A s \in Subs : Read(s)' => Read(s) \/ sub[s].st # "none",
         \A s \in Subs : \/ sub'[s].st = sub[s].st
                         \/ sub'[s].st = "active" /\ Read(s) /\ ~Locked(s),
         \A s \in Subs : heldAt'[s] = heldAt[s] \/ heldAt'[s] = 0 \/ sub[s].st # "none"
  PROVE  RowInv'
  <1> SUFFICES ASSUME NEW s \in Subs PROVE RowOf(s)'
    BY DEF RowInv
  <1>1. RowOf(s)
    BY DEF RowInv
  <1>2. CASE sub'[s].st = sub[s].st
    BY <1>1, <1>2 DEF RowOf, Exists, Active, Ends
  <1>3. CASE sub'[s].st = "active" /\ Read(s) /\ ~Locked(s)
    <2>1. sub[s].st # "none" /\ open[s].kind # "create" /\ open[s].kind \notin Ends
      BY <1>1, <1>3 DEF RowOf, Locked, Ends
    <2> QED BY <1>3, <2>1 DEF RowOf, Active, Ends
  <1> QED BY <1>2, <1>3

(* Every step keeps it.                                                    *)
LEMMA RowStep ==
  ASSUME SafeInv, RowInv, [Next]_vars
  PROVE  RowInv'
  <1>1. /\ sub \in [Subs -> Rows] /\ now \in Nat /\ task.at \in Nat /\ job.at \in Nat
        /\ \A s \in Subs : job.rows[s] \in Rows
    BY DEF SafeInv, SubInv, RestInv, TaskInv, JobInv, Good
  <1>2. \A r \in Rows, t \in Nat : MaybeReset(r, t).st = r.st
    BY MaybeResetRow
  <1>3. ASSUME NEW s \in Subs, Create(s) PROVE RowInv'
    <2>1. \A x \in Subs : open'[x] = IF x = s THEN open'[s] ELSE open[x]
      BY <1>3 DEF Create, SafeInv, OpenInv
    <2>2. open'[s].kind = "create" /\ sub[s].st = "none"
      BY <1>3 DEF Create, SafeInv, OpenInv
    <2>3. UNCHANGED <<sub, task, job, heldAt>>
      BY <1>3 DEF Create, history
    <2> QED BY <2>1, <2>2, <2>3 DEF RowInv, RowOf, Exists, Active, Read, Marking, Ends
  <1>4. ASSUME NEW s \in Subs, NEW kind \in {"cancel", "delete"}, OpenEnd(s, kind) PROVE RowInv'
    <2>1. \A x \in Subs : open'[x] = IF x = s THEN open'[s] ELSE open[x]
      BY <1>4 DEF OpenEnd, SafeInv, OpenInv
    <2>2. open'[s].kind = kind /\ Exists(s) /\ ~Marking(s)
      BY <1>4 DEF OpenEnd, SafeInv, OpenInv, Locked, Marking
    <2>3. UNCHANGED <<sub, task, job, heldAt>>
      BY <1>4 DEF OpenEnd, history
    <2> QED BY <2>1, <2>2, <2>3 DEF RowInv, RowOf, Exists, Active, Read, Marking, Ends
  <1>5. ASSUME NEW s \in Subs, Close(s) PROVE RowInv'
    <2>1. /\ open' = [open EXCEPT ![s] = NoTx] /\ UNCHANGED <<task, job, heldAt>>
          /\ open[s].kind # "none"
      BY <1>5 DEF Close, CommitCreate, CommitInvalidate, CommitDelete, CommitEnd
    <2>2. open'[s].kind = "none" /\ \A x \in Subs : x # s => open'[x] = open[x]
      BY <2>1 DEF NoTx, SafeInv, OpenInv
    <2>3. \A x \in Subs : x # s => sub'[x] = sub[x]
      BY <1>1, <1>5 DEF Close, CommitCreate, CommitInvalidate, CommitDelete, CommitEnd
    <2>4. \/ sub'[s].st = "active"
          \/ open[s].kind \in Ends /\ sub'[s].st \in {"cancelled", "deleted"}
      <3>1. CASE CommitCreate(s)
        BY <1>1, <3>1 DEF CommitCreate
      <3>2. CASE CommitInvalidate(s)
        <4>1. sub'[s] = [sub[s] EXCEPT !.st = "cancelled", !.end = open[s].at] /\ sub[s] \in Rows
          BY <1>1, <3>2 DEF CommitInvalidate, CommitEnd
        <4> QED BY <3>2, <4>1 DEF Rows, CommitInvalidate, Ends
      <3>3. CASE CommitDelete(s)
        BY <1>1, <3>3 DEF CommitDelete, CommitEnd, NoRow, Ends
      <3> QED BY <1>5, <3>1, <3>2, <3>3 DEF Close
    <2>5. ASSUME NEW x \in Subs PROVE RowOf(x)'
      <3>1. RowOf(x)
        BY DEF RowInv
      <3>2. CASE x # s
        BY <2>1, <2>2, <2>3, <3>1, <3>2 DEF RowOf, Exists, Active, Read, Marking, Ends
      <3>3. CASE x = s
        BY <2>1, <2>2, <2>4, <3>1, <3>3 DEF RowOf, Active, Read, Marking, Ends
      <3> QED BY <3>2, <3>3
    <2> QED BY <2>5 DEF RowInv
  <1>6. ASSUME ListEnded \/ ListDue PROVE RowInv'
    <2>1. task'.pc # "lower"
      <3>1. CASE ListEnded
        BY <3>1 DEF ListEnded, SafeInv, TaskInv
      <3>2. CASE ListDue
        BY <3>2, ListedTask
      <3> QED BY <1>6, <3>1, <3>2
    <2>2. UNCHANGED <<open, sub, job, heldAt>>
      BY <1>6 DEF ListEnded, ListDue, history
    <2> QED BY <2>1, <2>2, RowFrame DEF Marking, Read
  <1>7. ASSUME ExpireDue PROVE RowInv'
    <2>1. UNCHANGED <<open, sub, job, heldAt>>
      BY <1>7 DEF ExpireDue, history
    <2>2. task'.due = {s \in Subs : Due(s, task.at)}
      BY <1>7 DEF ExpireDue, SafeInv, TaskInv
    <2>3. ASSUME NEW x \in Subs PROVE Marking(x)' => Active(x) /\ ~Locked(x)
      BY <1>7, <2>2 DEF ExpireDue, Marking, Due
    <2> QED BY <2>1, <2>3 DEF RowInv, RowOf, Exists, Active, Read, Ends, Locked
  <1>8. ASSUME CommitExpired PROVE RowInv'
    <2>1. UNCHANGED <<open, job, heldAt>> /\ task'.pc = "list" /\ task.pc = "lower"
      BY <1>8 DEF CommitExpired, NoTask
    <2>2. ASSUME NEW x \in Subs PROVE sub'[x].st = IF Marking(x) THEN "expired" ELSE sub[x].st
      <3>1. sub'[x] = IF x \in task.due THEN [sub[x] EXCEPT !.st = "expired"] ELSE sub[x]
        BY <1>8 DEF CommitExpired, Marked
      <3>2. [sub[x] EXCEPT !.st = "expired"].st = "expired"
        BY <1>1 DEF Rows
      <3> QED BY <2>1, <3>1, <3>2 DEF Marking
    <2>3. ASSUME NEW x \in Subs PROVE RowOf(x)'
      BY <2>1, <2>2 DEF RowInv, RowOf, Exists, Active, Read, Marking, Ends
    <2> QED BY <2>3 DEF RowInv
  <1>9. ASSUME NEW s \in Subs, ResetOne(s) PROVE RowInv'
    <2>1. \A x \in Subs : sub'[x] = sub[x] \/ sub'[x] = MaybeReset(sub[x], task.at)
      BY <1>1, <1>9 DEF ResetOne
    <2>2. \A x \in Subs : sub'[x].st = sub[x].st
      BY <1>1, <1>2, <2>1
    <2>3. task'.pc # "lower" /\ UNCHANGED <<open, job, heldAt>>
      BY <1>9 DEF ResetOne, NoTask, SafeInv, TaskInv
    <2> QED BY <2>2, <2>3, RowFrame DEF Marking, Read
  <1>10. ASSUME NEW r \in Requests, PreConsume(r) PROVE RowInv'
    <2>1. PICK amount \in Amounts, s \in Subs :
            /\ Valid(s) /\ heldAt' = [heldAt EXCEPT ![s] = now]
            /\ LET tried == {o \in Subs : Valid(o) /\ (o = s \/ Before(o, s))}
                   new == [o \in Subs |-> IF o \in tried THEN MaybeReset(sub[o], now) ELSE sub[o]]
               IN  sub' = [new EXCEPT ![s].used = @ + amount]
      BY <1>10 DEF PreConsume
    <2> DEFINE tried == {o \in Subs : Valid(o) /\ (o = s \/ Before(o, s))}
    <2> DEFINE new == [o \in Subs |-> IF o \in tried THEN MaybeReset(sub[o], now) ELSE sub[o]]
    <2>2. ASSUME NEW x \in Subs PROVE sub'[x].st = sub[x].st
      <3>1. sub' = [new EXCEPT ![s].used = @ + amount]
        BY <2>1
      <3>2. new[x] = sub[x] \/ new[x] = MaybeReset(sub[x], now)
        OBVIOUS
      <3>3. new = [o \in Subs |-> new[o]]
        OBVIOUS
      <3> HIDE DEF new
      <3>4. sub'[x] = new[x] \/ sub'[x] = [new[x] EXCEPT !.used = new[x].used + amount]
        BY <3>1, <3>3
      <3>5. sub[x] \in Rows /\ MaybeReset(sub[x], now) \in Rows
        BY <1>1, MaybeResetRow
      <3>6. new[x] \in Rows /\ new[x].st = sub[x].st
        BY <1>1, <1>2, <3>2, <3>5
      <3> QED BY <3>4, <3>6 DEF Rows
    <2>3. \A x \in Subs : heldAt'[x] = heldAt[x] \/ sub[x].st # "none"
      BY <2>1 DEF Valid, Active, SafeInv, RestInv
    <2>4. UNCHANGED <<open, task, job>>
      BY <1>10 DEF PreConsume
    <2> QED BY <2>2, <2>3, <2>4, RowFrame DEF Marking, Read
  <1>11. ASSUME NEW r \in Requests, Settle(r) \/ Refund(r) PROVE RowInv'
    <2>1. PICK s, delta : PostConsume(s, delta)
      BY <1>11 DEF Settle, Refund
    <2>2. \A x \in Subs : sub'[x] = sub[x] \/ \E u : sub'[x] = [sub[x] EXCEPT !.used = u]
      BY <1>1, <2>1 DEF PostConsume
    <2>3. \A x \in Subs : sub'[x].st = sub[x].st
      BY <1>1, <2>2 DEF Rows
    <2>4. UNCHANGED <<open, task, job, heldAt>>
      BY <1>11 DEF Settle, Refund, history
    <2> QED BY <2>3, <2>4, RowFrame DEF Marking, Read
  <1>12. ASSUME NEW kind, Begin(kind) PROVE RowInv'
    <2>1. \A x \in Subs : Read(x)' => sub[x].st # "none"
      BY <1>12 DEF Begin, Read, Valid, Active, NoRow
    <2>2. UNCHANGED <<open, task, sub, heldAt>>
      BY <1>12 DEF Begin, history
    <2> QED BY <2>1, <2>2, RowFrame DEF Marking
  <1>13. ASSUME CommitReset \/ CommitSync PROVE RowInv'
    <2>1. ASSUME NEW x \in Subs
          PROVE  \/ sub'[x].st = sub[x].st
                 \/ sub'[x].st = "active" /\ Read(x) /\ ~Locked(x)
      <3>1. Read(x) => ~Locked(x) /\ job.rows[x].st = "active"
        BY <1>13 DEF CommitReset, CommitSync, Unlocked, Read
      <3>2. sub[x] \in Rows /\ job.rows[x] \in Rows
        BY <1>1
      <3>3. ResetRow(job.rows[x]).st = job.rows[x].st
        BY <3>2 DEF ResetRow, Rows
      <3>4. \A n, l : [sub[x] EXCEPT !.next = n, !.last = l].st = sub[x].st
                      /\ [sub[x] EXCEPT !.next = n].st = sub[x].st
        BY <3>2 DEF Rows
      <3>5. SyncedRow(x).st = sub[x].st \/ SyncedRow(x).st = job.rows[x].st
        BY <1>1, <1>2, <3>2, <3>4 DEF SyncedRow
      <3> QED BY <1>13, <3>1, <3>3, <3>5 DEF CommitReset, CommitSync
    <2>2. \A x \in Subs : ~Read(x)'
      <3>1. job' = NoJob
        BY <1>13 DEF CommitReset, CommitSync
      <3> QED BY <3>1 DEF NoJob, NoRow, Read
    <2>3. UNCHANGED <<open, task>> /\ \A x \in Subs : heldAt'[x] = heldAt[x] \/ heldAt'[x] = 0
      BY <1>13 DEF CommitReset, CommitSync
    <2> QED BY <2>1, <2>2, <2>3, RowFrame DEF Marking
  <1>14. ASSUME Tick \/ UNCHANGED vars PROVE RowInv'
    <2>1. UNCHANGED <<open, task, sub, job, heldAt>>
      BY <1>14 DEF Tick, vars, history
    <2> QED BY <2>1, RowFrame DEF Marking, Read
  <1> QED BY <1>3, <1>4, <1>5, <1>6, <1>7, <1>8, <1>9, <1>10, <1>11, <1>12, <1>13, <1>14
          DEF Next, AdminInvalidate, AdminDelete

(* It holds at every moment.                                               *)
LEMMA RowInvHolds == Spec => []RowInv
  <1>1. Init => RowInv
    BY DEF Init, RowInv, RowOf, Read, Marking, Ends, NoRow, NoTx, NoTask, NoJob
  <1>2. SafeInv /\ RowInv /\ [Next]_vars => RowInv'
    BY RowStep
  <1> QED BY <1>1, <1>2, SafeInit, SafeStep, PTL DEF Spec

----------------------------------------------------------------------------
(* Ended subscriptions.                                                    *)

Ended == {"expired", "cancelled", "deleted"}
StaysEnded == \A s \in Subs : sub[s].st \in Ended /\ crossed' = "no" => sub'[s].st # "active"

(* Every step but a commit keeps the status of an ended row from becoming  *)
(* active: rows are inserted where there is none, and a change of the used *)
(* amount or the times keeps the status.                                   *)
LEMMA StepStaysEnded ==
  ASSUME SafeInv, RowInv, Next, ~CommitReset, ~CommitSync
  PROVE  StaysEnded
  <1> SUFFICES ASSUME NEW x \in Subs, sub[x].st \in Ended PROVE sub'[x].st # "active"
    BY DEF StaysEnded
  <1>1. sub[x] \in Rows /\ sub \in [Subs -> Rows] /\ now \in Nat /\ task.at \in Nat
    BY DEF SafeInv, SubInv, Good, RestInv, TaskInv
  <1>2. \A t \in Nat : MaybeReset(sub[x], t).st = sub[x].st /\ MaybeReset(sub[x], t) \in Rows
    BY <1>1, MaybeResetRow
  <1>3. sub[x].st # "active" /\ sub[x].st # "none"
    BY DEF Ended
  <1>4. ASSUME NEW s \in Subs, CommitCreate(s) PROVE sub'[x] = sub[x]
    BY <1>1, <1>3, <1>4 DEF CommitCreate, RowInv, RowOf
  <1>5. ASSUME NEW s \in Subs, CommitInvalidate(s) PROVE sub'[x].st # "active"
    <2>1. CASE x = s
      <3>1. sub'[x] = [sub[x] EXCEPT !.st = "cancelled", !.end = open[s].at]
        BY <2>1, <1>1, <1>5 DEF CommitInvalidate, CommitEnd
      <3> QED BY <3>1, <1>1 DEF Rows
    <2>2. CASE x # s
      BY <2>2, <1>1, <1>3, <1>5 DEF CommitInvalidate, CommitEnd
    <2> QED BY <2>1, <2>2
  <1>6. ASSUME NEW s \in Subs, CommitDelete(s) PROVE sub'[x].st # "active"
    BY <1>1, <1>3, <1>6 DEF CommitDelete, CommitEnd, NoRow
  <1>7. ASSUME NEW s \in Subs, ResetOne(s) PROVE sub'[x].st # "active"
    <2>1. sub'[x] = sub[x] \/ sub'[x] = MaybeReset(sub[x], task.at)
      BY <1>1, <1>7 DEF ResetOne
    <2> QED BY <2>1, <1>1, <1>2, <1>3
  <1>8. ASSUME CommitExpired PROVE sub'[x] = sub[x]
    <2>1. x \notin task.due
      BY <1>3, <1>8 DEF CommitExpired, RowInv, RowOf, Marking, Active
    <2> QED BY <1>8, <2>1 DEF CommitExpired, Marked
  <1>9. ASSUME NEW r \in Requests, PreConsume(r) PROVE sub'[x] = sub[x]
    <2>1. PICK amount \in Amounts, s \in Subs :
            /\ Valid(s)
            /\ LET tried == {o \in Subs : Valid(o) /\ (o = s \/ Before(o, s))}
                   new == [o \in Subs |-> IF o \in tried THEN MaybeReset(sub[o], now) ELSE sub[o]]
               IN  sub' = [new EXCEPT ![s].used = @ + amount]
      BY <1>9 DEF PreConsume
    <2>2. ~Valid(x)
      BY <1>3 DEF Valid, Active
    <2> QED BY <2>1, <2>2
  <1>10. ASSUME NEW s, NEW delta, PostConsume(s, delta) PROVE sub'[x].st # "active"
    <2>1. sub'[x] = sub[x] \/ \E u : sub'[x] = [sub[x] EXCEPT !.used = u]
      BY <1>1, <1>10 DEF PostConsume
    <2>2. \A u : [sub[x] EXCEPT !.used = u].st = sub[x].st
      BY <1>1 DEF Rows
    <2> QED BY <2>1, <2>2, <1>3
  <1>11. ASSUME NEW r \in Requests, Settle(r) \/ Refund(r) PROVE sub'[x].st # "active"
    BY <1>10, <1>11 DEF Settle, Refund
  <1>12. ASSUME \/ \E s \in Subs : Create(s) \/ AdminInvalidate(s) \/ AdminDelete(s)
                \/ ListEnded \/ ExpireDue \/ ListDue
                \/ (\E kind \in {"keep", "advance", "sync"} : Begin(kind)) \/ Tick
         PROVE  sub' = sub
    BY <1>12 DEF Create, AdminInvalidate, AdminDelete, OpenEnd, ListEnded, ExpireDue, ListDue, Begin, Tick
  <1> QED BY <1>3, <1>4, <1>5, <1>6, <1>7, <1>8, <1>9, <1>11, <1>12 DEF Next, Close

(* A commit writes active rows only where it read them: over an ended row  *)
(* it crosses a change.                                                    *)
LEMMA CommitStaysEnded ==
  ASSUME SafeInv, CommitReset \/ CommitSync
  PROVE  StaysEnded
  <1> SUFFICES ASSUME NEW x \in Subs, sub[x].st \in Ended, crossed' = "no"
               PROVE  sub'[x].st # "active"
    BY DEF StaysEnded
  <1>1. ~Read(x)
    <2>1. Read(x) => sub[x] # job.rows[x]
      BY DEF Read, Ended
    <2> QED BY <2>1 DEF CommitReset, CommitSync, CrossedIfChanged
  <1>2. sub'[x] = sub[x]
    BY <1>1 DEF CommitReset, CommitSync
  <1> QED BY <1>2 DEF Ended

(* A subscription that has ended stays ended, unless a job that saves a    *)
(* row it has read before crossed its end.                                 *)
THEOREM SubscriptionStaysEnded == Spec => EndedStaysEnded
  <1>1. SafeInv /\ RowInv /\ Next => StaysEnded
    BY StepStaysEnded, CommitStaysEnded
  <1>2. SafeInv /\ RowInv /\ [Next]_vars => [StaysEnded]_vars
    BY <1>1
  <1>3. StaysEnded <=> \A s \in Subs : sub[s].st \in {"expired", "cancelled", "deleted"} /\ crossed' = "no"
            => sub'[s].st # "active"
    BY DEF StaysEnded, Ended
  <1> QED BY <1>2, <1>3, RowInvHolds, SafeInit, SafeStep, PTL DEF Spec, EndedStaysEnded

----------------------------------------------------------------------------
(* Reset times and holds.                                                  *)

(* A row at time t whose latest hold was made at time h.  Its reset times  *)
(* are in the past and in order; one that is scheduled follows the last    *)
(* reset by a period and is later than the hold.  While the row is active  *)
(* the schedule ends with it, and no boundary up to the time of the hold   *)
(* is still to be reset.                                                   *)
Sound(row, h, t) ==
    row.st \notin {"none", "deleted"} =>
        /\ 1 <= row.start /\ row.start <= t /\ row.last <= t
        /\ row.last > 0 => row.start <= row.last
        /\ row.next > 0 => /\ Period > 0 /\ row.last > 0
                           /\ row.next = row.last + Period /\ h < row.next
        /\ row.st = "active" => (row.next > 0 => row.next <= row.end) /\ ~Passed(row, h)

(* Nothing that is remembered lies in the future.                          *)
Opened(s) == open[s].at <= now /\ (open[s].kind = "create" => 1 <= open[s].at)
ClockInv ==
    /\ now >= 1 /\ task.at <= now /\ job.at <= now
    /\ \A s \in Subs : heldAt[s] <= now /\ Opened(s)

SoundInv == \A s \in Subs : Sound(sub[s], heldAt[s], now)

(* A job has read rows that had started.                                   *)
ReadInv == \A s \in Subs : Read(s) => job.rows[s].start <= job.at

ScheduleInv == ClockInv /\ (crossed = "no" => wiped = "no" /\ SoundInv /\ ReadInv)

(* The last boundary up to a time, once one was passed: at least a period  *)
(* after the base, and the next one is later.                              *)
LEMMA BoundaryFacts ==
  ASSUME NEW base \in Nat, NEW end \in Nat, NEW t \in Nat, Period > 0,
         base + Period <= t, base + Period <= end
  PROVE  LET b == LastBoundary(base, end, t)
         IN  /\ b \in Nat /\ base + Period <= b /\ b <= t /\ b <= end
             /\ b + Period > t \/ b + Period > end
  <1> DEFINE m == IF t < end THEN t ELSE end
  <1> DEFINE d == m - base
  <1>1. d \in Nat /\ Period \in Nat /\ Period <= d /\ m \in Nat
    BY PlanAssumption
  <1>2. m <= t /\ m <= end /\ (m = t \/ m = end) /\ m = base + d
    OBVIOUS
  <1> DEFINE q == d \div Period
  <1>3. LastBoundary(base, end, t) = base + Period * q
    BY DEF LastBoundary
  <1> HIDE DEF m, d
  <1>4. /\ q \in Nat /\ Period * q \in Nat
        /\ Period * q <= d /\ d < Period * q + Period
    <2>1. q \in Nat
      BY <1>1
    <2>2. d = (Period * q) + (d % Period) /\ (d % Period) \in 0..(Period - 1)
      BY <1>1
    <2> QED BY <1>1, <2>1, <2>2
  <1> HIDE DEF q
  <1>5. q >= 1
    <2>1. q = 0 => Period * q = 0
      BY <1>1
    <2> QED BY <1>1, <1>4, <2>1
  <1>6. Period <= Period * q
    <2>1. PICK k \in Nat : q = k + 1
      BY <1>4, <1>5
    <2>2. Period * q = Period * k + Period /\ Period * k \in Nat
      BY <1>1, <2>1
    <2> QED BY <1>1, <2>2
  <1> QED BY <1>1, <1>2, <1>3, <1>4, <1>6

(* A boundary has been passed.                                             *)
LEMMA PassedFacts ==
  ASSUME NEW row \in Rows, NEW t \in Nat
  PROVE  /\ BaseOf(row) \in Nat /\ row.start \in Nat /\ row.end \in Nat /\ row.last \in Nat
         /\ row.next \in Nat
         /\ Passed(row, t) <=> Period > 0 /\ BaseOf(row) + Period <= row.end /\ BaseOf(row) + Period <= t
  <1>1. BaseOf(row) \in Nat /\ row.start \in Nat /\ row.end \in Nat /\ row.last \in Nat /\ row.next \in Nat
    BY DEF BaseOf, Rows
  <1> QED BY <1>1, PlanAssumption DEF Passed, CalcNextResetTime

(* What maybeReset does to the times of a row: nothing before the next     *)
(* reset, the reset at the last boundary, the first schedule, or nothing.  *)
LEMMA MaybeResetFields ==
  ASSUME NEW row \in Rows, NEW t \in Nat
  PROVE  LET new == MaybeReset(row, t)
             b == LastBoundary(BaseOf(row), row.end, t)
         IN  /\ new \in Rows /\ new.st = row.st /\ new.start = row.start /\ new.end = row.end
             /\ \/ row.next > t /\ new = row
                \/ /\ row.next <= t /\ Passed(row, t)
                   /\ new.last = b /\ new.next = CalcNextResetTime(b, row.end)
                \/ /\ row.next <= t /\ ~Passed(row, t) /\ row.next = 0
                   /\ Period > 0 /\ BaseOf(row) + Period <= row.end
                   /\ new.last = BaseOf(row) /\ new.next = BaseOf(row) + Period
                \/ row.next <= t /\ ~Passed(row, t) /\ new = row
  <1> DEFINE new == MaybeReset(row, t)
  <1> DEFINE b == LastBoundary(BaseOf(row), row.end, t)
  <1>0. new \in Rows /\ new.st = row.st
    BY MaybeResetRow
  <1>1. row.next \in Nat /\ BaseOf(row) \in Nat /\ row.end \in Nat
    BY PassedFacts
  <1>2. CASE row.next > t
    BY <1>0, <1>2 DEF MaybeReset
  <1>3. CASE row.next <= t /\ Passed(row, t)
    <2> DEFINE n == CalcNextResetTime(b, row.end)
    <2>1. new = [row EXCEPT !.used = 0, !.last = b, !.next = n]
      BY <1>1, <1>3 DEF MaybeReset
    <2> HIDE DEF b, n
    <2>2. new.start = row.start /\ new.end = row.end /\ new.last = b /\ new.next = n
      BY <2>1 DEF Rows
    <2> HIDE DEF new
    <2> QED BY <1>0, <1>3, <2>2 DEF b, n, new
  <1>4. CASE row.next <= t /\ ~Passed(row, t)
    <2> DEFINE c == CalcNextResetTime(BaseOf(row), row.end)
    <2>1. CASE row.next = 0 /\ c > 0
      <3>1. new = [row EXCEPT !.next = c, !.last = BaseOf(row)]
        BY <1>1, <1>4, <2>1 DEF MaybeReset
      <3>2. Period > 0 /\ BaseOf(row) + Period <= row.end /\ c = BaseOf(row) + Period
        BY <1>1, <2>1, PlanAssumption DEF CalcNextResetTime
      <3> HIDE DEF c
      <3>3. new.start = row.start /\ new.end = row.end /\ new.last = BaseOf(row) /\ new.next = c
        BY <3>1 DEF Rows
      <3> HIDE DEF new
      <3> QED BY <1>0, <1>4, <2>1, <3>2, <3>3 DEF new
    <2>2. CASE ~(row.next = 0 /\ c > 0)
      <3>1. new = row
        BY <1>1, <1>4, <2>2 DEF MaybeReset
      <3> QED BY <1>0, <1>4, <3>1
    <2> QED BY <2>1, <2>2
  <1> QED BY <1>1, <1>2, <1>3, <1>4

(* Only the times and the status of a row matter.                          *)
LEMMA SoundFields ==
  ASSUME NEW row \in Rows, NEW new \in Rows, NEW h \in Nat, NEW t \in Nat, Sound(row, h, t),
         new.st = row.st, new.start = row.start, new.end = row.end, new.last = row.last,
         new.next = row.next
  PROVE  Sound(new, h, t)
  <1>1. Passed(new, h) <=> Passed(row, h)
    BY DEF Passed, BaseOf
  <1> QED BY <1>1 DEF Sound

(* A periodic reset at time t keeps a row sound and removes no hold; one   *)
(* of an active row at the present time makes it sound for a hold now.     *)
LEMMA MaybeResetSound ==
  ASSUME NEW row \in Rows, NEW h \in Nat, NEW t \in Nat, NEW n \in Nat, t <= n, Sound(row, h, n),
         row.st \notin {"none", "deleted"}, row.st = "active" \/ row.next > 0
  PROVE  /\ Sound(MaybeReset(row, t), h, n)
         /\ row.next <= t /\ Passed(row, t) => h < MaybeReset(row, t).last
         /\ row.st = "active" /\ t = n => Sound(MaybeReset(row, t), n, n)
  <1> DEFINE new == MaybeReset(row, t)
  <1> DEFINE base == BaseOf(row)
  <1> DEFINE b == LastBoundary(base, row.end, t)
  <1>0. \/ row.next > t /\ new = row
        \/ /\ row.next <= t /\ Passed(row, t)
           /\ new.last = b /\ new.next = CalcNextResetTime(b, row.end)
        \/ /\ row.next <= t /\ ~Passed(row, t) /\ row.next = 0
           /\ Period > 0 /\ base + Period <= row.end
           /\ new.last = base /\ new.next = base + Period
        \/ row.next <= t /\ ~Passed(row, t) /\ new = row
    BY MaybeResetFields
  <1>1. /\ base \in Nat /\ row.start \in Nat /\ row.end \in Nat /\ row.last \in Nat /\ row.next \in Nat
        /\ \A u \in Nat : Passed(row, u) <=> Period > 0 /\ base + Period <= row.end /\ base + Period <= u
        /\ Period \in Nat
    BY PassedFacts, PlanAssumption
  <1>2. new \in Rows /\ new.st = row.st /\ new.start = row.start /\ new.end = row.end
    BY MaybeResetFields
  <1>3. /\ BaseOf(new) \in Nat /\ new.last \in Nat /\ new.next \in Nat
        /\ \A u \in Nat : Passed(new, u) <=>
              Period > 0 /\ BaseOf(new) + Period <= row.end /\ BaseOf(new) + Period <= u
    BY <1>2, PassedFacts
  <1>4. base = (IF row.last > 0 THEN row.last ELSE row.start)
        /\ BaseOf(new) = (IF new.last > 0 THEN new.last ELSE row.start)
    BY <1>2 DEF BaseOf
  <1>5. base >= 1 /\ row.start <= base /\ base <= n
    BY <1>1, <1>4 DEF Sound
  <1>6. row.next > 0 => base = row.last /\ row.next = base + Period /\ h < base + Period /\ Period > 0
    BY <1>1, <1>4 DEF Sound
  <1>7. row.st = "active" => (row.next > 0 => row.next <= row.end) /\ ~Passed(row, h)
    BY DEF Sound
  <1>8. CASE row.next <= t /\ Passed(row, t)
    <2>1. new.last = b /\ new.next = CalcNextResetTime(b, row.end)
      <3>1. ~(row.next > t)
        BY <1>1, <1>8
      <3> QED BY <1>8, <1>0, <3>1
    <2>2. Period > 0 /\ base + Period <= row.end /\ base + Period <= t
      BY <1>1, <1>8
    <2>3. /\ b \in Nat /\ base + Period <= b /\ b <= t /\ b <= row.end
          /\ b + Period > t \/ b + Period > row.end
      BY <1>1, <2>2, BoundaryFacts
    <2> HIDE DEF b, base, new
    <2>4. new.next = IF b + Period > row.end THEN 0 ELSE b + Period
      BY <2>1, <2>2 DEF CalcNextResetTime
    <2>5. h < base + Period
      BY <1>1, <1>6, <1>7, <2>2
    <2>6. BaseOf(new) = b /\ new.last > 0 /\ new.last <= n /\ row.start <= new.last
      BY <1>1, <1>4, <1>5, <2>1, <2>2, <2>3
    <2>7. ~Passed(new, h) /\ ~Passed(new, t)
      BY <1>1, <1>3, <2>2, <2>3, <2>5, <2>6
    <2>8. new.next > 0 => new.next = new.last + Period /\ h < new.next /\ t < new.next /\ new.next <= row.end
      BY <1>1, <2>1, <2>2, <2>3, <2>4, <2>5
    <2>9. Sound(new, h, n) /\ h < new.last
      BY <1>1, <1>2, <1>5, <2>1, <2>2, <2>3, <2>5, <2>6, <2>7, <2>8 DEF Sound
    <2>10. t = n => Sound(new, n, n)
      BY <1>2, <1>5, <2>2, <2>6, <2>7, <2>8 DEF Sound
    <2> QED BY <2>9, <2>10 DEF new
  <1>9. CASE /\ row.next <= t /\ ~Passed(row, t) /\ row.next = 0
             /\ Period > 0 /\ base + Period <= row.end
             /\ new.last = base /\ new.next = base + Period
    <2> HIDE DEF base, new, b
    <2>1. BaseOf(new) = base /\ row.st = "active"
      BY <1>1, <1>4, <1>5, <1>9
    <2>2. h < base + Period /\ t < base + Period
      BY <1>1, <1>7, <1>9, <2>1
    <2>3. ~Passed(new, h) /\ ~Passed(new, t)
      BY <1>1, <1>3, <2>1, <2>2
    <2>4. Sound(new, h, n)
      BY <1>1, <1>2, <1>5, <1>9, <2>2, <2>3 DEF Sound
    <2>5. t = n => Sound(new, n, n)
      BY <1>1, <1>2, <1>5, <1>9, <2>2, <2>3 DEF Sound
    <2> QED BY <1>9, <2>4, <2>5 DEF new
  <1>10. CASE new = row /\ (row.next > t \/ ~Passed(row, t))
    <2>1. row.next > t => ~(row.next <= t)
      BY <1>1
    <2>2. ASSUME row.st = "active", t = n PROVE Sound(row, n, n)
      <3>1. row.next > 0 => n < row.next
        BY <1>1, <1>6, <1>7, <1>10, <2>2
      <3>2. ~Passed(row, n)
        BY <1>1, <1>6, <1>7, <1>10, <2>2
      <3> QED BY <3>1, <3>2 DEF Sound
    <2> QED BY <1>10, <2>1, <2>2
  <1> QED BY <1>0, <1>8, <1>9, <1>10

(* A sound row stays sound when time passes, and when it ends.             *)
LEMMA SoundLater ==
  ASSUME NEW row \in Rows, NEW h \in Nat, NEW t \in Nat, NEW u \in Nat, t <= u, Sound(row, h, t)
  PROVE  Sound(row, h, u)
  <1>1. row.start \in Nat /\ row.last \in Nat
    BY DEF Rows
  <1> QED BY <1>1 DEF Sound

(* The same for a row that ends.                                           *)
LEMMA SoundEnded ==
  ASSUME NEW row \in Rows, NEW new \in Rows, NEW h \in Nat, NEW t \in Nat, Sound(row, h, t),
         row.st \notin {"none", "deleted"}, new.st \in {"expired", "cancelled"},
         new.start = row.start, new.last = row.last, new.next = row.next
  PROVE  Sound(new, h, t)
  BY DEF Sound

(* A row that starts, or is reset by an administrator, at time t.          *)
LEMMA SoundStart ==
  ASSUME NEW row \in Rows, NEW h \in Nat, NEW t \in Nat, NEW n \in Nat, h <= t, t <= n,
         1 <= row.start, row.start <= t,
         row.next = CalcNextResetTime(t, row.end), row.last = (IF row.next > 0 THEN t ELSE 0),
         row.next = 0 => h = 0 \/ row.start = t
  PROVE  Sound(row, h, n)
  <1>1. /\ BaseOf(row) \in Nat /\ row.start \in Nat /\ row.end \in Nat /\ row.last \in Nat /\ row.next \in Nat
        /\ Passed(row, h) <=> Period > 0 /\ BaseOf(row) + Period <= row.end /\ BaseOf(row) + Period <= h
        /\ Period \in Nat
    BY PassedFacts, PlanAssumption
  <1>2. CASE row.next > 0
    <2>1. Period > 0 /\ row.next = t + Period /\ t + Period <= row.end
      BY <1>1, <1>2 DEF CalcNextResetTime
    <2>2. BaseOf(row) = t /\ row.last = t
      BY <1>1, <1>2 DEF BaseOf
    <2> QED BY <1>1, <1>2, <2>1, <2>2 DEF Sound
  <1>3. CASE row.next = 0
    <2>1. row.last = 0 /\ BaseOf(row) = row.start
      BY <1>1, <1>3 DEF BaseOf
    <2>2. ~Passed(row, h)
      BY <1>1, <1>3, <2>1
    <2> QED BY <1>1, <1>3, <2>1, <2>2 DEF Sound
  <1> QED BY <1>1, <1>2, <1>3

(* The types that the following steps use.                                 *)
LEMMA ScheduleTypes ==
  ASSUME SafeInv
  PROVE  /\ sub \in [Subs -> Rows] /\ heldAt \in [Subs -> Nat] /\ now \in Nat /\ task.at \in Nat
         /\ job.at \in Nat /\ \A s \in Subs : sub[s] \in Rows /\ heldAt[s] \in Nat /\ job.rows[s] \in Rows
  BY DEF SafeInv, SubInv, RestInv, TaskInv, JobInv, Good

(* Those after a step.                                                     *)
LEMMA ScheduleTypesAfter ==
  ASSUME SafeInv'
  PROVE  /\ sub' \in [Subs -> Rows] /\ heldAt' \in [Subs -> Nat]
         /\ \A s \in Subs : sub'[s] \in Rows
  BY DEF SafeInv, SubInv, RestInv, Good

(* A step that changes neither the history of holds nor the clock keeps    *)
(* the invariant if it keeps the rows sound.                               *)
LEMMA ScheduleFrame ==
  ASSUME ScheduleInv, UNCHANGED <<now, job, heldAt, wiped, crossed>>, task'.at <= now,
         \A s \in Subs : Opened(s)',
         SoundInv => \A s \in Subs : Sound(sub'[s], heldAt[s], now)
  PROVE  ScheduleInv'
  BY DEF ScheduleInv, ClockInv, SoundInv, ReadInv, Read

(* A transaction that closes.                                              *)
LEMMA ClosedOpened ==
  ASSUME SafeInv, ClockInv, NEW s \in Subs, open' = [open EXCEPT ![s] = NoTx], now' = now
  PROVE  \A x \in Subs : Opened(x)'
  <1>1. open'[s] = NoTx /\ \A x \in Subs : x # s => open'[x] = open[x]
    BY DEF SafeInv, OpenInv
  <1>2. now \in Nat
    BY ScheduleTypes
  <1> QED BY <1>1, <1>2 DEF ClockInv, Opened, NoTx

(* A transaction opens.                                                    *)
LEMMA OpenSchedule ==
  ASSUME SafeInv, ScheduleInv, NEW s \in Subs, Create(s) \/ AdminInvalidate(s) \/ AdminDelete(s)
  PROVE  ScheduleInv'
  <1>1. UNCHANGED <<now, sub, task, job, heldAt, wiped, crossed>>
    BY DEF Create, AdminInvalidate, AdminDelete, OpenEnd, history
  <1>2. open'[s].at = now /\ \A x \in Subs : x # s => open'[x] = open[x]
    BY DEF Create, AdminInvalidate, AdminDelete, OpenEnd, SafeInv, OpenInv
  <1>3. now \in Nat /\ ClockInv
    BY ScheduleTypes DEF ScheduleInv
  <1>4. \A x \in Subs : Opened(x)'
    BY <1>1, <1>2, <1>3 DEF ClockInv, Opened
  <1> QED BY <1>1, <1>3, <1>4, ScheduleFrame DEF ClockInv, SoundInv

(* A purchase commits.                                                     *)
LEMMA CreateSchedule ==
  ASSUME SafeInv, SafeInv', RowInv, ScheduleInv, NEW s \in Subs, CommitCreate(s) PROVE ScheduleInv'
  <1> DEFINE at == open[s].at
  <1> DEFINE end == at + Duration
  <1> DEFINE next == CalcNextResetTime(at, end)
  <1> DEFINE row == [st |-> "active", used |-> 0, start |-> at, end |-> end,
                last |-> IF next > 0 THEN at ELSE 0, next |-> next, prev |-> open[s].prev]
  <1>1. /\ sub \in [Subs -> Rows] /\ now \in Nat /\ heldAt[s] \in Nat /\ sub'[s] \in Rows
        /\ at \in Nat
    BY ScheduleTypes, ScheduleTypesAfter, OpenTypes DEF SafeInv
  <1>2. ClockInv /\ 1 <= at /\ at <= now /\ heldAt[s] = 0
    BY DEF ScheduleInv, ClockInv, Opened, CommitCreate, RowInv, RowOf
  <1>3. sub' = [sub EXCEPT ![s] = row]
    BY DEF CommitCreate
  <1>4. sub'[s] = row /\ \A x \in Subs : x # s => sub'[x] = sub[x]
    BY <1>1, <1>3
  <1>5. row.start = at /\ row.end = at + Duration /\ row.next = CalcNextResetTime(at, row.end)
        /\ row.last = (IF row.next > 0 THEN at ELSE 0)
    OBVIOUS
  <1>6. at <= at /\ heldAt[s] <= at
    BY <1>1, <1>2
  <1>7. UNCHANGED <<now, task, job, heldAt, wiped, crossed>> /\ open' = [open EXCEPT ![s] = NoTx]
    BY DEF CommitCreate
  <1> HIDE DEF row, end, next, at
  <1>8. Sound(row, heldAt[s], now)
    BY <1>1, <1>2, <1>4, <1>5, <1>6, SoundStart
  <1>9. SoundInv => \A x \in Subs : Sound(sub'[x], heldAt[x], now)
    BY <1>4, <1>8 DEF SoundInv
  <1>10. \A x \in Subs : Opened(x)'
    BY <1>2, <1>7, ClosedOpened
  <1> QED BY <1>2, <1>7, <1>9, <1>10, ScheduleFrame DEF ClockInv

(* A cancellation or a deletion commits.                                   *)
LEMMA AdminSchedule ==
  ASSUME SafeInv, SafeInv', RowInv, ScheduleInv, NEW s \in Subs, CommitInvalidate(s) \/ CommitDelete(s)
  PROVE  ScheduleInv'
  <1>1. /\ sub \in [Subs -> Rows] /\ now \in Nat /\ heldAt[s] \in Nat /\ sub'[s] \in Rows /\ sub[s] \in Rows
    BY ScheduleTypes, ScheduleTypesAfter
  <1>2. \A x \in Subs : x # s => sub'[x] = sub[x]
    BY <1>1 DEF CommitInvalidate, CommitDelete, CommitEnd
  <1>3. ASSUME SoundInv PROVE Sound(sub'[s], heldAt[s], now)
    <2>1. CASE CommitDelete(s)
      <3>1. sub'[s] = [NoRow EXCEPT !.st = "deleted"]
        BY <1>1, <2>1 DEF CommitDelete, CommitEnd
      <3>2. sub'[s].st = "deleted"
        BY <3>1 DEF NoRow
      <3> QED BY <3>2 DEF Sound
    <2>2. CASE CommitInvalidate(s)
      <3>1. sub'[s] = [sub[s] EXCEPT !.st = "cancelled", !.end = open[s].at]
        BY <1>1, <2>2 DEF CommitInvalidate, CommitEnd
      <3>2. /\ sub'[s].st = "cancelled" /\ sub'[s].start = sub[s].start /\ sub'[s].last = sub[s].last
            /\ sub'[s].next = sub[s].next
        BY <1>1, <3>1 DEF Rows
      <3>3. sub[s].st \notin {"none", "deleted"} /\ Sound(sub[s], heldAt[s], now)
        BY <1>3, <2>2 DEF CommitInvalidate, RowInv, RowOf, Ends, Exists, SoundInv
      <3> QED BY <1>1, <3>2, <3>3, SoundEnded
    <2> QED BY <2>1, <2>2
  <1>4. SoundInv => \A x \in Subs : Sound(sub'[x], heldAt[x], now)
    BY <1>2, <1>3 DEF SoundInv
  <1>5. UNCHANGED <<now, task, job, heldAt, wiped, crossed>> /\ open' = [open EXCEPT ![s] = NoTx]
    BY DEF CommitInvalidate, CommitDelete, CommitEnd
  <1>6. \A x \in Subs : Opened(x)'
    BY <1>5, ClosedOpened DEF ScheduleInv
  <1> QED BY <1>4, <1>5, <1>6, ScheduleFrame DEF ScheduleInv, ClockInv

(* The expiry pass looks and marks...                                      *)
LEMMA ExpireSchedule ==
  ASSUME SafeInv, ScheduleInv, ListEnded \/ ExpireDue PROVE ScheduleInv'
  <1>1. UNCHANGED <<now, sub, open, job, heldAt, wiped, crossed>>
    BY DEF ListEnded, ExpireDue, history
  <1>2. task'.at = now \/ task'.at = task.at
    BY DEF ListEnded, ExpireDue, SafeInv, TaskInv
  <1>3. now \in Nat /\ ClockInv
    BY ScheduleTypes DEF ScheduleInv
  <1>4. task'.at <= now
    BY <1>2, <1>3 DEF ClockInv
  <1> QED BY <1>1, <1>3, <1>4, ScheduleFrame DEF ClockInv, Opened, SoundInv

(* ... and commits.                                                        *)
LEMMA CommitExpiredSchedule ==
  ASSUME SafeInv, SafeInv', RowInv, ScheduleInv, CommitExpired PROVE ScheduleInv'
  <1>1. sub \in [Subs -> Rows] /\ sub' \in [Subs -> Rows] /\ now \in Nat /\ heldAt \in [Subs -> Nat]
    BY ScheduleTypes, ScheduleTypesAfter
  <1>2. ASSUME NEW x \in Subs, SoundInv PROVE Sound(sub'[x], heldAt[x], now)
    <2>1. CASE x \in task.due
      <3>1. sub'[x] = [sub[x] EXCEPT !.st = "expired"]
        BY <1>2, <2>1 DEF CommitExpired, Marked
      <3>2. /\ sub'[x].st = "expired" /\ sub'[x].start = sub[x].start /\ sub'[x].last = sub[x].last
            /\ sub'[x].next = sub[x].next
        BY <1>1, <3>1 DEF Rows
      <3>3. sub[x].st = "active" /\ Sound(sub[x], heldAt[x], now)
        BY <1>2, <2>1 DEF CommitExpired, RowInv, RowOf, Marking, Active, SoundInv
      <3> QED BY <1>1, <3>2, <3>3, SoundEnded
    <2>2. CASE x \notin task.due
      BY <1>2, <2>2 DEF CommitExpired, Marked, SoundInv
    <2> QED BY <2>1, <2>2
  <1>3. UNCHANGED <<now, open, job, heldAt, wiped, crossed>> /\ task'.at = 0
    BY DEF CommitExpired, NoTask
  <1>4. \A x \in Subs : Opened(x)'
    BY <1>3 DEF ScheduleInv, ClockInv, Opened
  <1> QED BY <1>1, <1>2, <1>3, <1>4, ScheduleFrame DEF ScheduleInv, ClockInv

(* The list of due rows and the start of a job take the present time.      *)
LEMMA ReadSchedule ==
  ASSUME SafeInv, ScheduleInv, ListDue \/ \E kind \in {"keep", "advance", "sync"} : Begin(kind)
  PROVE  ScheduleInv'
  <1>1. now \in Nat
    BY ScheduleTypes
  <1>2. sub' = sub /\ now' = now /\ open' = open /\ UNCHANGED history
    BY DEF ListDue, Begin
  <1>3. task'.at <= now /\ job'.at <= now
    <2>1. CASE ListDue
      BY <1>1, <2>1, ListedTask DEF ListDue, ScheduleInv, ClockInv
    <2>2. CASE \E kind \in {"keep", "advance", "sync"} : Begin(kind)
      BY <1>1, <2>2 DEF Begin, ScheduleInv, ClockInv
    <2> QED BY <2>1, <2>2
  <1>4. SoundInv /\ ReadInv => ReadInv'
    <2>1. CASE ListDue
      BY <2>1 DEF ListDue, ReadInv, Read
    <2>2. ASSUME NEW kind, Begin(kind), SoundInv, NEW x \in Subs, Read(x)'
          PROVE  job'.rows[x].start <= job'.at
      <3>1. job'.at = now /\ job'.rows[x] = IF Valid(x) THEN sub[x] ELSE NoRow
        BY <2>2 DEF Begin
      <3>2. Valid(x)
        BY <2>2, <3>1 DEF Read, NoRow
      <3> QED BY <2>2, <3>1, <3>2 DEF Valid, Active, SoundInv, Sound
    <2> QED BY <2>1, <2>2 DEF ReadInv
  <1> QED BY <1>2, <1>3, <1>4 DEF ScheduleInv, ClockInv, Opened, SoundInv, history

(* The task's reset of a row.                                              *)
LEMMA ResetOneSchedule ==
  ASSUME SafeInv, SafeInv', ScheduleInv, NEW s \in Subs, ResetOne(s) PROVE ScheduleInv'
  <1>1. /\ sub \in [Subs -> Rows] /\ now \in Nat /\ heldAt[s] \in Nat /\ sub[s] \in Rows /\ task.at \in Nat
    BY ScheduleTypes
  <1>2. ClockInv /\ task.at <= now
    BY DEF ScheduleInv, ClockInv
  <1> DEFINE reset == Exists(s) /\ ResetIsDue(s, task.at)
  <1>3. /\ \A x \in Subs : x # s => sub'[x] = sub[x]
        /\ sub'[s] = IF reset THEN MaybeReset(sub[s], task.at) ELSE sub[s]
        /\ wiped' = IF reset /\ Wipes(s, sub[s], task.at) THEN "yes" ELSE wiped
    BY <1>1 DEF ResetOne, WipedIf
  <1>4. now' = now /\ open' = open /\ job' = job /\ heldAt' = heldAt /\ crossed' = crossed
    BY DEF ResetOne
  <1>5. ClockInv'
    <2>1. task' = NoTask \/ task'.at = task.at
      BY DEF ResetOne, SafeInv, TaskInv
    <2>2. task'.at <= now
      BY <1>1, <1>2, <2>1 DEF NoTask
    <2> QED BY <1>2, <1>4, <2>2 DEF ClockInv, Opened
  <1>6. ASSUME SoundInv, reset
        PROVE  Sound(MaybeReset(sub[s], task.at), heldAt[s], now) /\ ~Wipes(s, sub[s], task.at)
    <2>1. sub[s].st \notin {"none", "deleted"} /\ sub[s].next > 0 /\ Sound(sub[s], heldAt[s], now)
      BY <1>6 DEF Exists, ResetIsDue, SoundInv
    <2>2. MaybeReset(sub[s], task.at) \in Rows
      BY <1>1, MaybeResetRow
    <2>3. /\ Sound(MaybeReset(sub[s], task.at), heldAt[s], now)
          /\ sub[s].next <= task.at /\ Passed(sub[s], task.at) => heldAt[s] < MaybeReset(sub[s], task.at).last
      BY <1>1, <1>2, <2>1, MaybeResetSound
    <2>4. MaybeReset(sub[s], task.at).last \in Nat
      BY <2>2 DEF Rows
    <2> QED BY <1>1, <2>3, <2>4 DEF Wipes
  <1> HIDE DEF reset
  <1>7. crossed' = "no" => wiped' = "no" /\ SoundInv' /\ ReadInv'
    BY <1>3, <1>4, <1>6 DEF ScheduleInv, SoundInv, ReadInv, Read
  <1> QED BY <1>5, <1>7 DEF ScheduleInv

(* A hold.                                                                 *)
LEMMA PreConsumeSchedule ==
  ASSUME SafeInv, SafeInv', ScheduleInv, NEW r \in Requests, PreConsume(r) PROVE ScheduleInv'
  <1>0. PICK amount \in Amounts, s \in Subs :
          /\ Valid(s)
          /\ LET tried == {o \in Subs : Valid(o) /\ (o = s \/ Before(o, s))}
                 new == [o \in Subs |-> IF o \in tried THEN MaybeReset(sub[o], now) ELSE sub[o]]
             IN  /\ sub' = [new EXCEPT ![s].used = @ + amount]
                 /\ WipedIf(\E o \in tried : Wipes(o, sub[o], now))
          /\ heldAt' = [heldAt EXCEPT ![s] = now]
    BY DEF PreConsume
  <1> DEFINE tried == {o \in Subs : Valid(o) /\ (o = s \/ Before(o, s))}
  <1>1. /\ tried \subseteq Subs /\ s \in tried /\ \A o \in tried : Valid(o)
        /\ sub' = [[o \in Subs |-> IF o \in tried THEN MaybeReset(sub[o], now) ELSE sub[o]]
                     EXCEPT ![s].used = @ + amount]
        /\ WipedIf(\E o \in tried : Wipes(o, sub[o], now))
        /\ heldAt' = [heldAt EXCEPT ![s] = now]
    BY <1>0
  <1> HIDE DEF tried
  <1>2. /\ sub \in [Subs -> Rows] /\ heldAt \in [Subs -> Nat] /\ now \in Nat /\ sub' \in [Subs -> Rows]
    BY ScheduleTypes, ScheduleTypesAfter
  <1>3. now' = now /\ task' = task /\ open' = open /\ job' = job /\ crossed' = crossed
    BY DEF PreConsume
  <1>4. ClockInv'
    BY <1>1, <1>2, <1>3 DEF ScheduleInv, ClockInv, Opened
  <1> SUFFICES ASSUME crossed = "no" PROVE wiped' = "no" /\ SoundInv'
    BY <1>3, <1>4 DEF ScheduleInv, ReadInv, Read
  <1>5. wiped = "no" /\ SoundInv
    BY DEF ScheduleInv
  <1>6. ASSUME NEW o \in tried
        PROVE  /\ MaybeReset(sub[o], now) \in Rows /\ Sound(MaybeReset(sub[o], now), heldAt[o], now)
               /\ Sound(MaybeReset(sub[o], now), now, now)
               /\ ~Wipes(o, sub[o], now)
    <2>1. o \in Subs /\ sub[o] \in Rows /\ heldAt[o] \in Nat /\ sub[o].st = "active"
      BY <1>1, <1>2, <1>6 DEF Valid, Active
    <2>2. Sound(sub[o], heldAt[o], now) /\ MaybeReset(sub[o], now) \in Rows
      BY <1>2, <1>5, <2>1, MaybeResetRow DEF SoundInv
    <2>3. now <= now
      BY <1>2
    <2>4. /\ Sound(MaybeReset(sub[o], now), heldAt[o], now)
          /\ Sound(MaybeReset(sub[o], now), now, now)
          /\ sub[o].next <= now /\ Passed(sub[o], now) => heldAt[o] < MaybeReset(sub[o], now).last
      BY <1>2, <2>1, <2>2, <2>3, MaybeResetSound
    <2>5. MaybeReset(sub[o], now).last \in Nat
      BY <2>2 DEF Rows
    <2> QED BY <2>1, <2>2, <2>4, <2>5 DEF Wipes
  <1>7. wiped' = "no"
    BY <1>1, <1>5, <1>6 DEF WipedIf
  <1>8. ASSUME NEW x \in Subs PROVE Sound(sub'[x], heldAt'[x], now')
    <2>1. CASE x = s
      <3> DEFINE old == MaybeReset(sub[s], now)
      <3>1. sub'[s] = [old EXCEPT !.used = old.used + amount] /\ heldAt'[s] = now
        BY <1>1, <1>2
      <3>2. old \in Rows /\ Sound(old, now, now) /\ sub'[s] \in Rows
        BY <1>1, <1>2, <1>6
      <3> HIDE DEF old
      <3>3. /\ sub'[s].st = old.st /\ sub'[s].start = old.start /\ sub'[s].end = old.end
            /\ sub'[s].last = old.last /\ sub'[s].next = old.next
        BY <3>1, <3>2 DEF Rows
      <3> QED BY <1>2, <1>3, <2>1, <3>1, <3>2, <3>3, SoundFields
    <2>2. CASE x # s /\ x \in tried
      <3>1. sub'[x] = MaybeReset(sub[x], now) /\ heldAt'[x] = heldAt[x]
        BY <1>1, <1>2, <2>2
      <3> QED BY <1>3, <1>6, <2>2, <3>1
    <2>3. CASE x # s /\ x \notin tried
      <3>1. sub'[x] = sub[x] /\ heldAt'[x] = heldAt[x]
        BY <1>1, <1>2, <2>3
      <3> QED BY <1>3, <1>5, <3>1 DEF SoundInv
    <2> QED BY <2>1, <2>2, <2>3
  <1> QED BY <1>7, <1>8 DEF SoundInv

(* A settlement or a refund.                                               *)
LEMMA PostConsumeSchedule ==
  ASSUME SafeInv, SafeInv', ScheduleInv, NEW r \in Requests, Settle(r) \/ Refund(r) PROVE ScheduleInv'
  <1>1. sub \in [Subs -> Rows] /\ sub' \in [Subs -> Rows] /\ now \in Nat /\ heldAt \in [Subs -> Nat]
    BY ScheduleTypes, ScheduleTypesAfter
  <1>2. PICK s, delta : PostConsume(s, delta)
    BY DEF Settle, Refund
  <1>3. ASSUME NEW x \in Subs, SoundInv PROVE Sound(sub'[x], heldAt[x], now)
    <2>1. sub'[x] = sub[x] \/ \E u : sub'[x] = [sub[x] EXCEPT !.used = u]
      BY <1>1, <1>2, <1>3 DEF PostConsume
    <2>2. /\ sub'[x].st = sub[x].st /\ sub'[x].start = sub[x].start /\ sub'[x].end = sub[x].end
          /\ sub'[x].last = sub[x].last /\ sub'[x].next = sub[x].next
      BY <1>1, <1>3, <2>1 DEF Rows
    <2> QED BY <1>1, <1>3, <2>2, SoundFields DEF SoundInv
  <1>4. UNCHANGED <<now, job, heldAt, wiped, crossed>> /\ task' = task /\ open' = open
    BY DEF Settle, Refund, history
  <1> QED BY <1>3, <1>4, ScheduleFrame DEF ScheduleInv, ClockInv, Opened

(* A job that crossed no change writes over the rows that it read.         *)
LEMMA NotCrossed ==
  ASSUME CommitReset \/ CommitSync, crossed' = "no"
  PROVE  crossed = "no" /\ \A s \in Subs : Read(s) => sub[s] = job.rows[s] /\ sub[s].st = "active"
  BY DEF CommitReset, CommitSync, CrossedIfChanged, Read

(* An administrative reset commits.                                        *)
LEMMA CommitResetSchedule ==
  ASSUME SafeInv, SafeInv', ScheduleInv, CommitReset PROVE ScheduleInv'
  <1>1. /\ sub \in [Subs -> Rows] /\ heldAt \in [Subs -> Nat] /\ now \in Nat /\ sub' \in [Subs -> Rows]
        /\ job.at \in Nat /\ heldAt' \in [Subs -> Nat]
    BY ScheduleTypes, ScheduleTypesAfter
  <1>2. ClockInv
    BY DEF ScheduleInv
  <1>3. /\ now' = now /\ task' = task /\ open' = open /\ job'.at = 0 /\ wiped' = wiped
        /\ \A s \in Subs : ~Read(s)'
        /\ \A s \in Subs : heldAt'[s] = IF Read(s) THEN 0 ELSE heldAt[s]
    BY DEF CommitReset, NoJob, NoRow, Read
  <1>4. ClockInv'
    BY <1>1, <1>2, <1>3 DEF ClockInv, Opened
  <1> SUFFICES ASSUME crossed' = "no" PROVE wiped' = "no" /\ SoundInv'
    BY <1>3, <1>4 DEF ScheduleInv, ReadInv
  <1>5. /\ wiped = "no" /\ SoundInv /\ ReadInv
        /\ \A s \in Subs : Read(s) => sub[s] = job.rows[s] /\ sub[s].st = "active"
    BY NotCrossed DEF ScheduleInv
  <1>6. ASSUME NEW x \in Subs, ~Read(x) PROVE Sound(sub'[x], heldAt'[x], now')
    BY <1>3, <1>5, <1>6 DEF CommitReset, SoundInv
  <1>7. ASSUME NEW x \in Subs, Read(x) PROVE Sound(sub'[x], heldAt'[x], now')
    <2>1. /\ sub'[x] = ResetRow(sub[x]) /\ heldAt'[x] = 0 /\ sub[x].st = "active" /\ sub[x] \in Rows
          /\ sub'[x] \in Rows
      BY <1>1, <1>3, <1>5, <1>7 DEF CommitReset
    <2>2. Sound(sub[x], heldAt[x], now)
      BY <1>5 DEF SoundInv
    <2>3. CASE job.kind = "keep"
      <3>1. sub'[x] = [sub[x] EXCEPT !.used = 0]
        BY <2>1, <2>3 DEF ResetRow
      <3>2. /\ sub'[x].st = sub[x].st /\ sub'[x].start = sub[x].start /\ sub'[x].end = sub[x].end
            /\ sub'[x].last = sub[x].last /\ sub'[x].next = sub[x].next
        BY <2>1, <3>1 DEF Rows
      <3>3. Sound(sub[x], 0, now)
        <4>1. ~Passed(sub[x], 0)
          BY <2>1, <2>2, PassedFacts, PlanAssumption DEF Sound, BaseOf
        <4>2. sub[x].next > 0 => 0 < sub[x].next
          BY <2>1 DEF Rows
        <4> QED BY <2>2, <4>1, <4>2 DEF Sound
      <3> QED BY <1>1, <1>3, <2>1, <3>2, <3>3, SoundFields
    <2>4. CASE job.kind # "keep"
      <3> DEFINE next == CalcNextResetTime(job.at, sub[x].end)
      <3>1. sub'[x] = [sub[x] EXCEPT !.used = 0, !.next = next, !.last = IF next > 0 THEN job.at ELSE 0]
        BY <2>1, <2>4 DEF ResetRow
      <3> HIDE DEF next
      <3>2. /\ sub'[x].st = sub[x].st /\ sub'[x].start = sub[x].start /\ sub'[x].end = sub[x].end
            /\ sub'[x].last = (IF next > 0 THEN job.at ELSE 0) /\ sub'[x].next = next
        BY <2>1, <3>1 DEF Rows
      <3>3. 1 <= sub[x].start /\ sub[x].start <= job.at /\ job.at <= now
        BY <1>2, <1>5, <1>7, <2>1, <2>2 DEF Sound, ClockInv, ReadInv
      <3> QED BY <1>1, <1>3, <2>1, <3>2, <3>3, SoundStart DEF next
    <2> QED BY <2>3, <2>4
  <1> QED BY <1>5, <1>3, <1>6, <1>7 DEF SoundInv

(* A synchronisation commits: it resets a row whose boundary was passed    *)
(* when it was read, and schedules the others from the same base.          *)
LEMMA CommitSyncSchedule ==
  ASSUME SafeInv, SafeInv', ScheduleInv, CommitSync PROVE ScheduleInv'
  <1>1. /\ sub \in [Subs -> Rows] /\ heldAt \in [Subs -> Nat] /\ now \in Nat /\ sub' \in [Subs -> Rows]
        /\ job.at \in Nat
    BY ScheduleTypes, ScheduleTypesAfter
  <1>2. ClockInv /\ job.at <= now
    BY DEF ScheduleInv, ClockInv
  <1>3. /\ now' = now /\ task' = task /\ open' = open /\ job'.at = 0 /\ heldAt' = heldAt
        /\ \A s \in Subs : ~Read(s)'
        /\ \A s \in Subs : sub'[s] = IF Read(s) THEN SyncedRow(s) ELSE sub[s]
        /\ WipedIf(\E s \in Subs : Read(s) /\ Wipes(s, job.rows[s], job.at))
    BY DEF CommitSync, NoJob, NoRow, Read
  <1>4. ClockInv'
    BY <1>1, <1>2, <1>3 DEF ClockInv, Opened
  <1> SUFFICES ASSUME crossed' = "no" PROVE wiped' = "no" /\ SoundInv'
    BY <1>3, <1>4 DEF ScheduleInv, ReadInv
  <1>5. /\ wiped = "no" /\ SoundInv
        /\ \A s \in Subs : Read(s) => sub[s] = job.rows[s] /\ sub[s].st = "active"
    BY NotCrossed DEF ScheduleInv
  <1>6. ASSUME NEW x \in Subs, Read(x)
        PROVE  /\ Sound(MaybeReset(sub[x], job.at), heldAt[x], now)
               /\ ~Wipes(x, job.rows[x], job.at)
    <2>1. sub[x] = job.rows[x] /\ sub[x].st = "active" /\ sub[x] \in Rows /\ heldAt[x] \in Nat
      BY <1>1, <1>5, <1>6
    <2>2. Sound(sub[x], heldAt[x], now) /\ MaybeReset(sub[x], job.at) \in Rows
      BY <1>1, <1>5, <2>1, MaybeResetRow DEF SoundInv
    <2>3. /\ Sound(MaybeReset(sub[x], job.at), heldAt[x], now)
          /\ sub[x].next <= job.at /\ Passed(sub[x], job.at) => heldAt[x] < MaybeReset(sub[x], job.at).last
      BY <1>1, <1>2, <2>1, <2>2, MaybeResetSound
    <2>4. MaybeReset(sub[x], job.at).last \in Nat
      BY <2>2 DEF Rows
    <2> QED BY <2>1, <2>3, <2>4 DEF Wipes
  <1>7. wiped' = "no"
    BY <1>3, <1>5, <1>6 DEF WipedIf
  <1>8. ASSUME NEW x \in Subs, ~Read(x) PROVE Sound(sub'[x], heldAt'[x], now')
    BY <1>3, <1>5, <1>8 DEF SoundInv
  <1>9. ASSUME NEW x \in Subs, Read(x) PROVE Sound(sub'[x], heldAt'[x], now')
    <2> DEFINE row == sub[x]
    <2> DEFINE next == CalcNextResetTime(BaseOf(row), row.end)
    <2>1. /\ row = job.rows[x] /\ row.st = "active" /\ row \in Rows /\ heldAt[x] \in Nat
          /\ sub'[x] = SyncedRow(x) /\ sub'[x] \in Rows /\ Exists(x)
      BY <1>1, <1>3, <1>5, <1>9 DEF Exists
    <2>2. Sound(row, heldAt[x], now) /\ now' = now /\ heldAt'[x] = heldAt[x]
      BY <1>3, <1>5 DEF SoundInv
    <2>3. /\ BaseOf(row) \in Nat /\ row.start \in Nat /\ row.end \in Nat /\ row.last \in Nat
          /\ row.next \in Nat /\ Period \in Nat
      BY <1>1, <2>1, PassedFacts, PlanAssumption
    <2>4. CASE Period = 0
      <3>1. sub'[x] = [row EXCEPT !.next = 0]
        BY <2>1, <2>4 DEF SyncedRow
      <3>2. /\ sub'[x].st = row.st /\ sub'[x].start = row.start /\ sub'[x].end = row.end
            /\ sub'[x].last = row.last /\ sub'[x].next = 0
        BY <2>1, <3>1 DEF Rows
      <3>3. ~Passed(sub'[x], heldAt[x])
        BY <2>1, <2>4, PassedFacts
      <3> QED BY <2>2, <3>2, <3>3 DEF Sound
    <2>5. CASE sub'[x] = row \/ sub'[x] = MaybeReset(row, job.at)
      BY <1>6, <1>9, <2>2, <2>5
    <2>6. CASE /\ Period # 0
               /\ sub'[x] = [row EXCEPT !.next = next, !.last = IF row.last = 0 /\ next > 0 THEN row.start ELSE row.last]
      <3> DEFINE last == IF row.last = 0 /\ next > 0 THEN row.start ELSE row.last
      <3>1. next = IF BaseOf(row) + Period > row.end THEN 0 ELSE BaseOf(row) + Period
        BY <2>6 DEF CalcNextResetTime
      <3> HIDE DEF next, last
      <3>2. sub'[x] = [row EXCEPT !.next = next, !.last = last]
        BY <2>6 DEF next, last
      <3>3. /\ sub'[x].st = row.st /\ sub'[x].start = row.start /\ sub'[x].end = row.end
            /\ sub'[x].last = last /\ sub'[x].next = next
        BY <2>1, <3>2 DEF Rows
      <3>4. 1 <= row.start /\ row.start <= now /\ row.last <= now /\ (row.last > 0 => row.start <= row.last)
            /\ ~Passed(row, heldAt[x])
        BY <2>1, <2>2 DEF Sound
      <3>5. /\ BaseOf(row) = (IF row.last > 0 THEN row.last ELSE row.start)
            /\ BaseOf(sub'[x]) = (IF last > 0 THEN last ELSE row.start)
        BY <3>3 DEF BaseOf
      <3>6. last \in Nat /\ last <= now /\ (last > 0 => row.start <= last) /\ BaseOf(sub'[x]) = BaseOf(row)
            /\ (next > 0 => last > 0 /\ last = BaseOf(row))
        BY <2>3, <3>4, <3>5, <1>1 DEF last
      <3>7. Passed(sub'[x], heldAt[x]) <=> Passed(row, heldAt[x])
        BY <2>1, <3>3, <3>6 DEF Passed
      <3>8. next > 0 => Period > 0 /\ next = last + Period /\ next <= row.end
        BY <2>3, <2>6, <3>1, <3>6
      <3>9. next > 0 => heldAt[x] < next
        BY <2>1, <2>3, <3>1, <3>4, <3>8, PassedFacts
      <3> QED BY <2>1, <2>2, <3>3, <3>4, <3>6, <3>7, <3>8, <3>9 DEF Sound
    <2>7. Period # 0 => \/ sub'[x] = row \/ sub'[x] = MaybeReset(row, job.at)
                       \/ sub'[x] = [row EXCEPT !.next = next,
                                         !.last = IF row.last = 0 /\ next > 0 THEN row.start ELSE row.last]
      <3>1. (IF row.next # next THEN next ELSE row.next) = next
        OBVIOUS
      <3> QED BY <2>1, <3>1 DEF SyncedRow
    <2> QED BY <2>4, <2>5, <2>6, <2>7
  <1> QED BY <1>7, <1>8, <1>9 DEF SoundInv

(* The clock.                                                              *)
LEMMA TickSchedule ==
  ASSUME SafeInv, ScheduleInv, Tick PROVE ScheduleInv'
  <1>1. /\ now \in Nat /\ now' = now + 1 /\ task.at \in Nat /\ job.at \in Nat /\ heldAt \in [Subs -> Nat]
        /\ \A s \in Subs : open[s].at \in Nat
    BY ScheduleTypes, OpenTypes DEF Tick, SafeInv
  <1>2. UNCHANGED <<sub, task, open, job, heldAt, wiped, crossed>>
    BY DEF Tick, history
  <1>3. ClockInv'
    BY <1>1, <1>2 DEF ScheduleInv, ClockInv, Opened
  <1>4. SoundInv => SoundInv'
    BY <1>1, <1>2, ScheduleTypes, SoundLater DEF SoundInv
  <1> QED BY <1>2, <1>3, <1>4 DEF ScheduleInv, ReadInv, Read

(* The invariant holds at every moment.                                    *)
LEMMA ScheduleInvHolds == Spec => []ScheduleInv
  <1>1. Init => ScheduleInv
    BY DEF Init, ScheduleInv, ClockInv, Opened, SoundInv, Sound, ReadInv, Read, NoRow, NoTask, NoTx, NoJob
  <1>2. SafeInv /\ SafeInv' /\ RowInv /\ ScheduleInv /\ [Next]_vars => ScheduleInv'
    <2> SUFFICES ASSUME SafeInv, SafeInv', RowInv, ScheduleInv, [Next]_vars PROVE ScheduleInv'
      OBVIOUS
    <2>1. CASE UNCHANGED vars
      BY <2>1 DEF vars, history, ScheduleInv, ClockInv, Opened, SoundInv, ReadInv, Read
    <2> QED BY <2>1, OpenSchedule, CreateSchedule, AdminSchedule, ExpireSchedule, CommitExpiredSchedule,
               ReadSchedule, ResetOneSchedule, PreConsumeSchedule, PostConsumeSchedule,
               CommitResetSchedule, CommitSyncSchedule, TickSchedule DEF Next, Close
  <1> QED BY <1>1, <1>2, RowInvHolds, SafeInit, SafeStep, PTL DEF Spec

(* Every reset time of an active subscription lies one period after the    *)
(* reset it follows and not after the end, for any plan, unless a job      *)
(* crossed a change of a row.                                              *)
THEOREM SubscriptionSchedule == Spec => []ScheduleIsSound
  <1>1. SafeInv /\ ScheduleInv => ScheduleIsSound
    <2> SUFFICES ASSUME SafeInv, ScheduleInv, crossed = "no", NEW s \in Subs, Active(s), sub[s].next > 0
                 PROVE  /\ sub[s].next <= sub[s].end /\ sub[s].last >= sub[s].start
                        /\ sub[s].next = sub[s].last + Period /\ sub[s].last <= now
      BY DEF ScheduleIsSound
    <2>1. Sound(sub[s], heldAt[s], now) /\ sub[s] \in Rows
      BY ScheduleTypes DEF ScheduleInv, SoundInv
    <2> QED BY <2>1 DEF Active, Sound, Rows
  <1> QED BY <1>1, ScheduleInvHolds, SafeInit, SafeStep, PTL DEF Spec

(* No periodic reset removes a hold that was made after the boundary the   *)
(* reset is for, unless a job crossed a change of a row.                   *)
THEOREM SubscriptionHoldsOutlast == Spec => []HoldsOutlastResets
  <1>1. ScheduleInv => HoldsOutlastResets
    BY DEF ScheduleInv, HoldsOutlastResets
  <1> QED BY <1>1, ScheduleInvHolds, PTL

----------------------------------------------------------------------------
(* The user's group.                                                       *)

(* The plan names a group that its end leads to.                           *)
LowersGroup == DowngradeGroup \notin {"none", UpgradeGroup}

InGroup == (\E s \in Subs : Valid(s)) => group = UpgradeGroup
OutOfGroup == LowersGroup /\ group = UpgradeGroup => \E s \in Subs : Active(s)
FitsInv == crossed = "no" /\ raced = "no" => InGroup /\ OutOfGroup

(* A choice that was still right writes the group that was meant.          *)
LEMMA ChoiceWrites ==
  ASSUME NEW to, NEW wouldBe, Choose(to, wouldBe), raced' = "no"
  PROVE  /\ raced = "no" /\ to = wouldBe
         /\ wouldBe = "none" => group' = group
         /\ \A g : g # "none" /\ wouldBe = Unless(g) => group' = g
  BY DEF Choose, Unless

(* A step that keeps the group, the clock and who is active until when.    *)
LEMMA FitsFrame ==
  ASSUME FitsInv, group' = group, now' = now, raced' = raced, crossed' = "no" => crossed = "no",
         crossed' = "no" => \A s \in Subs : sub'[s].st = "active" <=> sub[s].st = "active",
         crossed' = "no" => \A s \in Subs : sub[s].st = "active" => sub'[s].end = sub[s].end
  PROVE  FitsInv'
  BY DEF FitsInv, InGroup, OutOfGroup, Valid, Active, UpgradeGroup, LowersGroup

(* A step that only ends subscriptions, and writes no group if it leaves   *)
(* one that was valid at an earlier time t or ends none, and else the      *)
(* group that an end leads back to.                                        *)
LEMMA EndFits ==
  ASSUME SafeInv, InGroup, OutOfGroup, NEW t \in Nat, t <= now, now' = now, sub' \in [Subs -> Rows],
         \A o \in Subs : sub'[o].st = "active" => sub'[o] = sub[o],
         \/ /\ group' = group
            /\ \/ \E o \in Subs : sub'[o].st = "active" /\ sub'[o].end > t
               \/ \A o \in Subs : sub'[o] = sub[o]
         \/ /\ ~\E o \in Subs : sub'[o].st = "active" /\ sub'[o].end > t
            /\ LowersGroup => group' # UpgradeGroup
  PROVE  InGroup' /\ OutOfGroup'
  <1>1. now \in Nat /\ \A o \in Subs : sub'[o].end \in Nat
    BY ScheduleTypes DEF Rows
  <1>2. \A o \in Subs : Valid(o)' => Valid(o) /\ sub'[o].end > t
    BY <1>1 DEF Valid, Active
  <1>3. CASE /\ group' = group
             /\ \/ \E o \in Subs : sub'[o].st = "active" /\ sub'[o].end > t
                \/ \A o \in Subs : sub'[o] = sub[o]
    <2>1. InGroup'
      BY <1>2, <1>3 DEF InGroup, UpgradeGroup
    <2>2. OutOfGroup'
      BY <1>3 DEF OutOfGroup, Active, UpgradeGroup, LowersGroup
    <2> QED BY <2>1, <2>2
  <1>4. CASE /\ ~\E o \in Subs : sub'[o].st = "active" /\ sub'[o].end > t
             /\ LowersGroup => group' # UpgradeGroup
    <2>1. InGroup'
      BY <1>2, <1>4 DEF InGroup, Valid, Active
    <2>2. OutOfGroup'
      BY <1>4 DEF OutOfGroup, UpgradeGroup, LowersGroup
    <2> QED BY <2>1, <2>2
  <1> QED BY <1>3, <1>4

(* The end of a subscription leads to a group that is written.             *)
LEMMA RevertedWrites ==
  ASSUME NEW to, NEW wouldBe, NEW row, Choose(to, wouldBe), raced' = "no", wouldBe = Unless(Reverted(row))
  PROVE  LowersGroup => group' # UpgradeGroup
  <1>1. LowersGroup => Reverted(row) # "none" /\ Reverted(row) # UpgradeGroup
    BY DEF LowersGroup, Reverted
  <1> QED BY <1>1, ChoiceWrites

(* Every step keeps the invariant.                                         *)
LEMMA FitsStep ==
  ASSUME SafeInv, SafeInv', RowInv, ScheduleInv, FitsInv, [Next]_vars
  PROVE  FitsInv'
  <1>1. /\ sub \in [Subs -> Rows] /\ sub' \in [Subs -> Rows] /\ now \in Nat /\ task.at \in Nat
        /\ job.at \in Nat
    BY ScheduleTypes, ScheduleTypesAfter
  <1>2. \A row \in Rows, t \in Nat : MaybeReset(row, t).st = row.st /\ MaybeReset(row, t).end = row.end
    BY MaybeResetFields
  <1>3. ASSUME NEW s \in Subs, CommitCreate(s) PROVE FitsInv'
    <2> SUFFICES ASSUME raced' = "no" PROVE InGroup' /\ OutOfGroup'
      BY DEF FitsInv
    <2>1. group' = UpgradeGroup /\ sub'[s].st = "active"
      BY <1>1, <1>3, ChoiceWrites DEF CommitCreate, UpgradeGroup
    <2> QED BY <2>1 DEF InGroup, OutOfGroup, UpgradeGroup, Active
  <1>4. ASSUME NEW s \in Subs, CommitInvalidate(s) \/ CommitDelete(s) PROVE FitsInv'
    <2> SUFFICES ASSUME crossed' = "no", raced' = "no" PROVE InGroup' /\ OutOfGroup'
      BY DEF FitsInv
    <2> DEFINE t == open[s].at
    <2>1. sub'[s].st # "active" /\ \A o \in Subs : o # s => sub'[o] = sub[o]
      <3>1. CASE CommitDelete(s)
        BY <1>1, <3>1 DEF CommitDelete, CommitEnd, NoRow
      <3>2. CASE CommitInvalidate(s)
        <4>1. sub'[s] = [sub[s] EXCEPT !.st = "cancelled", !.end = open[s].at] /\ sub[s] \in Rows
          BY <1>1, <3>2 DEF CommitInvalidate, CommitEnd
        <4>2. sub'[s].st = "cancelled"
          BY <4>1 DEF Rows
        <4> QED BY <1>1, <3>2, <4>2 DEF CommitInvalidate, CommitEnd
      <3> QED BY <1>4, <3>1, <3>2
    <2>2. Choose(open[s].to, Downgraded(s, t)) /\ now' = now /\ crossed' = crossed
      BY <1>4 DEF CommitInvalidate, CommitDelete, CommitEnd
    <2>3. InGroup /\ OutOfGroup /\ t \in Nat /\ t <= now
      BY <2>2, ChoiceWrites, OpenTypes DEF FitsInv, SafeInv, ScheduleInv, ClockInv, Opened
    <2>4. CASE \E o \in Subs \ {s} : Active(o) /\ sub[o].end > t
      <3>1. group' = group
        BY <2>2, <2>4, ChoiceWrites DEF Downgraded
      <3>2. \E o \in Subs : sub'[o].st = "active" /\ sub'[o].end > t
        BY <2>1, <2>4 DEF Active
      <3> HIDE DEF t
      <3> QED BY <1>1, <2>1, <2>2, <2>3, <3>1, <3>2, EndFits
    <2>5. CASE ~\E o \in Subs \ {s} : Active(o) /\ sub[o].end > t
      <3>1. Downgraded(s, t) = Unless(Reverted(sub[s]))
        BY <2>5 DEF Downgraded
      <3>2. LowersGroup => group' # UpgradeGroup
        BY <2>2, <3>1, RevertedWrites
      <3>3. ~\E o \in Subs : sub'[o].st = "active" /\ sub'[o].end > t
        BY <2>1, <2>5 DEF Active
      <3> HIDE DEF t
      <3> QED BY <1>1, <2>1, <2>2, <2>3, <3>2, <3>3, EndFits
    <2> QED BY <2>4, <2>5
  <1>5. ASSUME NEW s \in Subs, ResetOne(s) PROVE FitsInv'
    <2>1. \A x \in Subs : sub'[x] = sub[x] \/ sub'[x] = MaybeReset(sub[x], task.at)
      BY <1>1, <1>5 DEF ResetOne
    <2>2. \A x \in Subs : sub'[x].st = sub[x].st /\ sub'[x].end = sub[x].end
      BY <1>1, <1>2, <2>1
    <2> QED BY <1>5, <2>2, FitsFrame DEF ResetOne
  <1>6. ASSUME CommitExpired PROVE FitsInv'
    <2> SUFFICES ASSUME crossed' = "no", raced' = "no" PROVE InGroup' /\ OutOfGroup'
      BY DEF FitsInv
    <2> DEFINE rows == Marked(task.due)
    <2> DEFINE t == task.at
    <2>1. sub' = rows /\ now' = now /\ crossed' = crossed /\ Choose(task.to, DowngradeAfter(rows, t))
      BY <1>6 DEF CommitExpired
    <2>2. InGroup /\ OutOfGroup /\ t \in Nat /\ t <= now
      BY <1>1, <2>1, ChoiceWrites DEF FitsInv, ScheduleInv, ClockInv
    <2>3. rows \in [Subs -> Good]
      BY MarkedGood
    <2>4. \A s \in Subs : rows[s] = IF s \in task.due THEN [sub[s] EXCEPT !.st = "expired"] ELSE sub[s]
      BY DEF Marked
    <2>5. \A s \in Subs : [sub[s] EXCEPT !.st = "expired"].st = "expired"
      BY <1>1 DEF Rows
    <2>6. \A s \in Subs : rows[s].st = "active" \/ rows[s].st # "expired" => rows[s] = sub[s]
      BY <2>4, <2>5
    <2> HIDE DEF rows, t
    <2>7. CASE /\ DowngradeAfter(rows, t) = "none"
               /\ \/ \E s \in Subs : rows[s].st = "active" /\ rows[s].end > t
                  \/ \A s \in Subs : rows[s].st # "expired"
      <3>1. group' = group
        BY <2>1, <2>7, ChoiceWrites
      <3> QED BY <1>1, <2>1, <2>2, <2>6, <2>7, <3>1, EndFits
    <2>8. CASE /\ \E row \in Good : DowngradeAfter(rows, t) = Unless(Reverted(row))
               /\ ~\E s \in Subs : rows[s].st = "active" /\ rows[s].end > t
      <3>1. LowersGroup => group' # UpgradeGroup
        BY <2>1, <2>8, RevertedWrites
      <3> QED BY <1>1, <2>1, <2>2, <2>6, <2>8, <3>1, EndFits
    <2> QED BY <2>3, <2>7, <2>8, DowngradeAfterChoice
  <1>7. ASSUME \/ \E s \in Subs : Create(s) \/ AdminInvalidate(s) \/ AdminDelete(s)
               \/ ListEnded \/ ExpireDue \/ ListDue
               \/ \E kind \in {"keep", "advance", "sync"} : Begin(kind)
        PROVE  FitsInv'
    <2>1. UNCHANGED <<now, sub, group, crossed, raced>>
      BY <1>7 DEF Create, AdminInvalidate, AdminDelete, OpenEnd, ListEnded, ExpireDue, ListDue, Begin, history
    <2> QED BY <2>1, FitsFrame
  <1>8. ASSUME NEW r \in Requests, PreConsume(r) PROVE FitsInv'
    <2>1. PICK amount \in Amounts, s \in Subs :
            LET tried == {o \in Subs : Valid(o) /\ (o = s \/ Before(o, s))}
                new == [o \in Subs |-> IF o \in tried THEN MaybeReset(sub[o], now) ELSE sub[o]]
            IN  sub' = [new EXCEPT ![s].used = @ + amount]
      BY <1>8 DEF PreConsume
    <2> DEFINE tried == {o \in Subs : Valid(o) /\ (o = s \/ Before(o, s))}
    <2> DEFINE new == [o \in Subs |-> IF o \in tried THEN MaybeReset(sub[o], now) ELSE sub[o]]
    <2>2. ASSUME NEW x \in Subs PROVE sub'[x].st = sub[x].st /\ sub'[x].end = sub[x].end
      <3>1. sub' = [new EXCEPT ![s].used = @ + amount]
        BY <2>1
      <3>2. new[x] = sub[x] \/ new[x] = MaybeReset(sub[x], now)
        OBVIOUS
      <3>3. new = [o \in Subs |-> new[o]]
        OBVIOUS
      <3> HIDE DEF new
      <3>4. sub'[x] = new[x] \/ sub'[x] = [new[x] EXCEPT !.used = new[x].used + amount]
        BY <3>1, <3>3
      <3>5. sub[x] \in Rows /\ MaybeReset(sub[x], now) \in Rows
        BY <1>1, MaybeResetRow
      <3>6. new[x] \in Rows /\ new[x].st = sub[x].st /\ new[x].end = sub[x].end
        BY <1>1, <1>2, <3>2, <3>5
      <3> QED BY <3>4, <3>6 DEF Rows
    <2> QED BY <1>8, <2>2, FitsFrame DEF PreConsume
  <1>9. ASSUME NEW r \in Requests, Settle(r) \/ Refund(r) PROVE FitsInv'
    <2>1. PICK s, delta : PostConsume(s, delta)
      BY <1>9 DEF Settle, Refund
    <2>2. \A x \in Subs : sub'[x] = sub[x] \/ \E u : sub'[x] = [sub[x] EXCEPT !.used = u]
      BY <1>1, <2>1 DEF PostConsume
    <2>3. \A x \in Subs : sub'[x].st = sub[x].st /\ sub'[x].end = sub[x].end
      BY <1>1, <2>2 DEF Rows
    <2> QED BY <1>9, <2>3, FitsFrame DEF Settle, Refund, history
  <1>10. ASSUME CommitReset \/ CommitSync PROVE FitsInv'
    <2>1. ASSUME crossed' = "no", NEW x \in Subs PROVE sub'[x].st = sub[x].st /\ sub'[x].end = sub[x].end
      <3>1. Read(x) => job.rows[x] = sub[x]
        BY <1>10, <2>1, NotCrossed
      <3>2. sub[x] \in Rows
        BY <1>1
      <3>3. ResetRow(sub[x]).st = sub[x].st /\ ResetRow(sub[x]).end = sub[x].end
        BY <3>2 DEF ResetRow, Rows
      <3>4. \A n, l : [sub[x] EXCEPT !.next = n, !.last = l].st = sub[x].st
                      /\ [sub[x] EXCEPT !.next = n, !.last = l].end = sub[x].end
                      /\ [sub[x] EXCEPT !.next = n].st = sub[x].st
                      /\ [sub[x] EXCEPT !.next = n].end = sub[x].end
        BY <3>2 DEF Rows
      <3>5. Read(x) => SyncedRow(x).st = sub[x].st /\ SyncedRow(x).end = sub[x].end
        BY <1>1, <1>2, <3>1, <3>2, <3>4 DEF SyncedRow
      <3> QED BY <1>10, <3>1, <3>3, <3>5 DEF CommitReset, CommitSync
    <2>2. crossed' = "no" => crossed = "no"
      BY <1>10, NotCrossed
    <2>3. group' = group /\ now' = now /\ raced' = raced
      BY <1>10 DEF CommitReset, CommitSync
    <2> QED BY <2>1, <2>2, <2>3, FitsFrame
  <1>11. ASSUME Tick PROVE FitsInv'
    <2>1. sub' = sub /\ group' = group /\ crossed' = crossed /\ raced' = raced /\ now' = now + 1
      BY <1>11 DEF Tick, history
    <2>2. \A s \in Subs : Valid(s)' => Valid(s)
      BY <1>1, <2>1 DEF Valid, Active, Rows
    <2> QED BY <2>1, <2>2 DEF FitsInv, InGroup, OutOfGroup, Active, UpgradeGroup, LowersGroup
  <1>12. CASE UNCHANGED vars
    BY <1>12, FitsFrame DEF vars, history
  <1> QED BY <1>3, <1>4, <1>5, <1>6, <1>7, <1>8, <1>9, <1>10, <1>11, <1>12 DEF Next, Close

(* The invariant holds at every moment.                                    *)
LEMMA FitsInvHolds == Spec => []FitsInv
  <1>1. Init => FitsInv
    BY DEF Init, FitsInv, InGroup, OutOfGroup, Valid, Active, NoRow, UpgradeGroup
  <1>2. SafeInv /\ SafeInv' /\ RowInv /\ ScheduleInv /\ FitsInv /\ [Next]_vars => FitsInv'
    BY FitsStep
  <1> QED BY <1>1, <1>2, RowInvHolds, ScheduleInvHolds, SafeInit, SafeStep, PTL DEF Spec

(* While a subscription is valid the user is in the plan's group, for any  *)
(* plan: the ends of others, in whatever order they begin and commit, do   *)
(* not take the group away, unless a transaction committed a choice of the *)
(* group that a commit after its reads had made wrong.                     *)
THEOREM SubscriptionInGroup == Spec => [](crossed = "no" /\ raced = "no" => InGroup)
  <1>1. FitsInv => (crossed = "no" /\ raced = "no" => InGroup)
    BY DEF FitsInv
  <1> QED BY <1>1, FitsInvHolds, PTL

(* For a plan that names a group its end leads to, the user also leaves    *)
(* the plan's group once no subscription is active, under the same         *)
(* condition.                                                              *)
THEOREM SubscriptionGroup == Spec /\ LowersGroup => []GroupFitsSubscriptions
  <1>1. LowersGroup /\ FitsInv => GroupFitsSubscriptions
    BY DEF FitsInv, InGroup, OutOfGroup, GroupFitsSubscriptions
  <1>2. LowersGroup /\ [Next]_vars => LowersGroup'
    BY DEF LowersGroup, UpgradeGroup
  <1> QED BY <1>1, <1>2, FitsInvHolds, PTL DEF Spec
=============================================================================
