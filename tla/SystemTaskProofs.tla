-------------------------- MODULE SystemTaskProofs --------------------------
(***************************************************************************)
(* Proofs about SystemTask for any number of runners, tasks, crashes and   *)
(* failing statements, whether or not processes stall; only LockExcludes   *)
(* asks that they do not.                                                  *)
(***************************************************************************)
EXTENDS SystemTask, FiniteSetTheorems, TLAPS

USE DEF Tasks

Parts == {"idle", "sweep", "schedule", "find"}
Labels == {"idle", "sweep", "sweepMark", "sweepDelete", "schedule", "find", "create",
           "inspect", "takeOver", "mark", "claim", "release", "reload"}

(* Only runner r moves, to a label, and keeps its task *)
Moves(r, label) ==
    /\ run' \in [Runners -> LoopState]
    /\ run'[r].pc = label /\ run'[r].task = run[r].task
    /\ \A q \in Runners \ {r} : run'[q] = run[q]

(* Moving along the loop changes the runner's label and nothing else. *)
LEMMA GotoMoves ==
    ASSUME run \in [Runners -> LoopState], NEW r \in Runners, NEW label \in Labels,
           Goto(r, label)
    PROVE  Moves(r, label)
<1>1. run[r] \in LoopState
  OBVIOUS
<1>2. run' = [run EXCEPT ![r] = [run[r] EXCEPT !.pc = label]]
  BY DEF Goto
<1>3. [run[r] EXCEPT !.pc = label] \in LoopState
  BY <1>1 DEF LoopState, Labels
<1>4. run' \in [Runners -> LoopState]
  BY <1>2, <1>3
<1>5. run'[r].pc = label /\ run'[r].task = run[r].task
  BY <1>1, <1>2 DEF LoopState
<1>6. \A q \in Runners \ {r} : run'[q] = run[q]
  BY <1>2
<1> QED
  BY <1>4, <1>5, <1>6 DEF Moves

(* Entering a part of the pass drops the local variables. *)
LEMMA EnterParts ==
    ASSUME run \in [Runners -> LoopState], NEW r \in Runners, NEW part \in Parts,
           Enter(r, part)
    PROVE  /\ run' \in [Runners -> LoopState]
           /\ run'[r].pc = part
           /\ \A q \in Runners \ {r} : run'[q] = run[q]
<1>1. At(part) \in LoopState /\ At(part).pc = part
  BY BoundAssumption DEF At, LoopState, Parts, Holder
<1>2. run' = [run EXCEPT ![r] = At(part)]
  BY DEF Enter
<1> QED
  BY <1>1, <1>2

(* Every row keeps its locked_by, and whether it has been claimed *)
SameOwners == \A t \in Tasks : /\ task'[t].by = task[t].by
                               /\ Unclaimed(t)' <=> Unclaimed(t)

(* A step that claims no task and starts none keeps the owners of the      *)
(* claims, if runners only reach the claiming labels with a task.          *)
LEMMA OwnersKept ==
    ASSUME IInv, SameOwners, ran' = ran,
           \A q \in Runners : run'[q].pc \in Claiming => run'[q].task \in Tasks,
           \A q \in Runners : run'[q].pc = "reload" =>
                run[q].pc = "reload" /\ run'[q].task = run[q].task
    PROVE  ClaimInv'
<1>1. \A q \in Runners : run'[q].pc = "reload" =>
          (task[run[q].task].by = q /\ ~Unclaimed(run[q].task))'
  <2> SUFFICES ASSUME NEW q \in Runners, run'[q].pc = "reload"
               PROVE  (task[run[q].task].by = q /\ ~Unclaimed(run[q].task))'
    OBVIOUS
  <2>1. run[q].pc = "reload" /\ run'[q].task = run[q].task /\ run[q].task \in Tasks
    BY DEF Claiming
  <2>2. task[run[q].task].by = q /\ ~Unclaimed(run[q].task)
    BY <2>1 DEF IInv, ClaimInv
  <2> QED
    BY <2>1, <2>2 DEF SameOwners, Unclaimed
<1>2. \A t \in Tasks : ran'[t] \subseteq {task'[t].by} /\ (Unclaimed(t)' => ran'[t] = {})
  BY DEF IInv, ClaimInv, SameOwners
<1> QED
  BY <1>1, <1>2 DEF ClaimInv, Claiming

(* Rows that do not change keep their owners, and one of them is active. *)
LEMMA RowsSame ==
    ASSUME IInv, task' = task
    PROVE  SameOwners /\ OneActive' /\ task' \in [Tasks -> TaskRow]
BY DEF IInv, TypeOK, OneActive, Active, SameOwners, Unclaimed

(* A runner that stays where it is keeps the hypotheses of OwnersKept. *)
LEMMA LoopSame ==
    ASSUME IInv, run' = run
    PROVE  /\ \A q \in Runners : run'[q].pc \in Claiming => run'[q].task \in Tasks
           /\ \A q \in Runners : run'[q].pc = "reload" =>
                run[q].pc = "reload" /\ run'[q].task = run[q].task
           /\ run' \in [Runners -> LoopState]
BY DEF IInv, TypeOK, ClaimInv

(* So does one that moves on, short of "reload". *)
LEMMA GotoSame ==
    ASSUME IInv, NEW r \in Runners, NEW label \in Labels \ {"reload"}, Goto(r, label),
           label \in Claiming => run[r].pc \in Claiming
    PROVE  /\ \A q \in Runners : run'[q].pc \in Claiming => run'[q].task \in Tasks
           /\ \A q \in Runners : run'[q].pc = "reload" =>
                run[q].pc = "reload" /\ run'[q].task = run[q].task
           /\ run' \in [Runners -> LoopState]
<1>1. Moves(r, label)
  BY GotoMoves DEF IInv, TypeOK
<1> QED
  BY <1>1 DEF IInv, ClaimInv, Moves

(* So does one that enters a part of its pass. *)
LEMMA EnterSame ==
    ASSUME IInv, NEW r \in Runners, NEW part \in Parts, Enter(r, part)
    PROVE  /\ \A q \in Runners : run'[q].pc \in Claiming => run'[q].task \in Tasks
           /\ \A q \in Runners : run'[q].pc = "reload" =>
                run[q].pc = "reload" /\ run'[q].task = run[q].task
           /\ run' \in [Runners -> LoopState]
<1>1. /\ run' \in [Runners -> LoopState]
      /\ run'[r].pc = part
      /\ \A q \in Runners \ {r} : run'[q] = run[q]
  BY EnterParts DEF IInv, TypeOK
<1> QED
  BY <1>1 DEF IInv, ClaimInv, Claiming, Parts

(* The same, for a step that leaves the rows and the history alone. *)
LEMMA QuietGoto ==
    ASSUME IInv, NEW r \in Runners, NEW label \in Labels \ {"reload"}, Goto(r, label),
           label \in Claiming => run[r].pc \in Claiming, task' = task, ran' = ran
    PROVE  /\ run' \in [Runners -> LoopState] /\ OneActive' /\ ClaimInv'
           /\ task' \in [Tasks -> TaskRow]
BY GotoSame, RowsSame, OwnersKept

(* The same for a runner that enters a part of its pass. *)
LEMMA QuietEnter ==
    ASSUME IInv, NEW r \in Runners, NEW part \in Parts, Enter(r, part),
           task' = task, ran' = ran
    PROVE  /\ run' \in [Runners -> LoopState] /\ OneActive' /\ ClaimInv'
           /\ task' \in [Tasks -> TaskRow]
BY EnterSame, RowsSame, OwnersKept

(* The same for runners that do not move. *)
LEMMA QuietStay ==
    ASSUME IInv, run' = run, task' = task, ran' = ran
    PROVE  /\ run' \in [Runners -> LoopState] /\ OneActive' /\ ClaimInv'
           /\ task' \in [Tasks -> TaskRow]
BY LoopSame, RowsSame, OwnersKept

-----------------------------------------------------------------------------
(* The lock, the fault counter and the handlers keep their types.          *)

(* Writing the lease keeps the lock row well formed. *)
LEMMA LeaseType ==
    ASSUME NEW t \in Tasks, NEW r \in Runners, Lease(t, r)
    PROVE  lock' \in LockRow
<1>1. PICK past \in IF Stalls THEN SUBSET (Runners \ {r}) ELSE {{}} :
        lock' = [held |-> TRUE, task |-> t, by |-> r, live |-> (past = {}), past |-> past]
  BY DEF Lease
<1>2. past \in SUBSET Runners /\ (past = {}) \in BOOLEAN
  OBVIOUS
<1>3. t \in 0..MaxTasks
  BY BoundAssumption
<1> QED
  BY <1>1, <1>2, <1>3 DEF LockRow, Holder

(* A deleted lock is well formed. *)
LEMMA NoLockType == NoLock \in LockRow
BY BoundAssumption DEF NoLock, LockRow, Holder

(* Releasing the lock keeps the lock row well formed. *)
LEMMA ReleaseType ==
    ASSUME IInv, NEW t, NEW r, ReleaseLock(t, r)
    PROVE  lock' \in LockRow
BY NoLockType DEF ReleaseLock, IInv, TypeOK

(* Reading the clock changes the view of the readers only. *)
LEMMA ClockType ==
    ASSUME IInv, NEW r \in Runners, ReadClock(r)
    PROVE  lock' \in LockRow
<1>1. lock \in LockRow /\ lock.past \in SUBSET Runners
  BY DEF IInv, TypeOK, LockRow
<1> DEFINE past == IF lock.held /\ ~lock.live THEN lock.past \cup {r} ELSE lock.past \ {r}
<1>2. past \in SUBSET Runners
  BY <1>1
<1>3. lock' = [lock EXCEPT !.past = past]
  BY DEF ReadClock
<1> HIDE DEF past
<1> QED
  BY <1>1, <1>2, <1>3 DEF LockRow

(* The fault counter stays within its bound. *)
LEMMA FaultType ==
    ASSUME IInv, DbOk \/ DbFault
    PROVE  faults' \in 0..MaxFaults
BY BoundAssumption DEF IInv, TypeOK, DbOk, DbFault

(* A handler moves among its states. *)
LEMMA ExecType ==
    ASSUME IInv, NEW r \in Runners, NEW t \in Tasks, NEW state \in ExecState,
           exec' = [exec EXCEPT ![r][t] = state]
    PROVE  exec' \in [Runners -> [Tasks -> ExecState]]
<1>1. [exec[r] EXCEPT ![t] = state] \in [Tasks -> ExecState]
  BY DEF IInv, TypeOK
<1>2. exec' = [exec EXCEPT ![r] = [exec[r] EXCEPT ![t] = state]]
  OBVIOUS
<1> QED
  BY <1>1, <1>2 DEF IInv, TypeOK

-----------------------------------------------------------------------------
(* The steps that change a row.                                            *)

(* Ending a running task clears its active_key: another one may then be    *)
(* created, and the owner of the row stays.                                *)
LEMMA EndRow ==
    ASSUME IInv, NEW t \in Tasks, task[t].status = "running", NEW status \in Terminal,
           task' = [task EXCEPT ![t].status = status, ![t].active = FALSE]
    PROVE  SameOwners /\ OneActive' /\ task' \in [Tasks -> TaskRow]
<1>1. task \in [Tasks -> TaskRow] /\ task[t] \in TaskRow
  BY DEF IInv, TypeOK
<1> DEFINE row == [task[t] EXCEPT !.status = status, !.active = FALSE]
<1>2. row \in TaskRow /\ row.by = task[t].by /\ row.status = status /\ row.active = FALSE
  BY <1>1 DEF TaskRow
<1>3. task' = [task EXCEPT ![t] = row]
  OBVIOUS
<1> HIDE DEF row
<1>4. task' \in [Tasks -> TaskRow]
  BY <1>1, <1>2, <1>3
<1>5. task'[t] = row /\ \A u \in Tasks \ {t} : task'[u] = task[u]
  BY <1>1, <1>3
<1>6. SameOwners
  BY <1>2, <1>5 DEF SameOwners, Unclaimed, Terminal
<1>7. \A u \in Tasks : Active(u)' => Active(u)
  BY <1>2, <1>5 DEF Active
<1>8. \A u \in Tasks : Active(u)' <=> task'[u].status \in {"pending", "running"}
  BY <1>2, <1>5 DEF Active, IInv, OneActive, Terminal
<1>9. OneActive'
  BY <1>7, <1>8 DEF IInv, OneActive
<1> QED
  BY <1>4, <1>6, <1>9

(* MarkSystemTaskLeaseExpired ends a running task or changes nothing. *)
LEMMA MarkRow ==
    ASSUME IInv, NEW t, MarkLeaseExpired(t)
    PROVE  SameOwners /\ OneActive' /\ task' \in [Tasks -> TaskRow]
<1>1. CASE t \in Tasks /\ task[t].status = "running"
  BY <1>1, EndRow DEF MarkLeaseExpired, Terminal
<1>2. CASE ~(t \in Tasks /\ task[t].status = "running")
  BY <1>2, RowsSame DEF MarkLeaseExpired
<1> QED
  BY <1>1, <1>2

(* A row is created when none is active, unclaimed and never started. *)
LEMMA CreateRow ==
    ASSUME IInv, NEW t \in Tasks, CreateSystemTask(t), ran' = ran,
           \A q \in Runners : run'[q].pc \in Claiming => run'[q].task \in Tasks,
           \A q \in Runners : run'[q].pc = "reload" =>
                run[q].pc = "reload" /\ run'[q].task = run[q].task
    PROVE  ClaimInv' /\ OneActive' /\ task' \in [Tasks -> TaskRow]
<1>1. task \in [Tasks -> TaskRow] /\ task[t].status = "none"
  BY DEF IInv, TypeOK, CreateSystemTask
<1> DEFINE row == [status |-> "pending", active |-> TRUE, by |-> NoRunner]
<1>2. row \in TaskRow /\ row.status = "pending" /\ row.active = TRUE
  BY DEF TaskRow, Holder
<1>3. task' = [task EXCEPT ![t] = row]
  BY DEF CreateSystemTask
<1> HIDE DEF row
<1>4. task' \in [Tasks -> TaskRow]
  BY <1>1, <1>2, <1>3
<1>5. task'[t] = row /\ \A u \in Tasks \ {t} : task'[u] = task[u]
  BY <1>1, <1>3
<1>6. OneActive'
  <2>1. \A u \in Tasks : ~Active(u)
    BY DEF CreateSystemTask
  <2>2. \A u \in Tasks : Active(u)' => u = t
    BY <2>1, <1>5 DEF Active
  <2>3. \A u \in Tasks : Active(u)' <=> task'[u].status \in {"pending", "running"}
    BY <1>2, <1>5 DEF Active, IInv, OneActive
  <2> QED
    BY <2>2, <2>3 DEF OneActive
<1>7. ran[t] = {}
  BY <1>1 DEF IInv, ClaimInv, Unclaimed
<1>8. \A u \in Tasks : ran'[u] \subseteq {task'[u].by} /\ (Unclaimed(u)' => ran'[u] = {})
  BY <1>5, <1>7 DEF IInv, ClaimInv, Unclaimed
<1>9. \A q \in Runners : run'[q].pc = "reload" =>
          (task[run[q].task].by = q /\ ~Unclaimed(run[q].task))'
  <2> SUFFICES ASSUME NEW q \in Runners, run'[q].pc = "reload"
               PROVE  (task[run[q].task].by = q /\ ~Unclaimed(run[q].task))'
    OBVIOUS
  <2>1. run[q].pc = "reload" /\ run'[q].task = run[q].task /\ run[q].task \in Tasks
    BY DEF Claiming
  <2>2. task[run[q].task].by = q /\ ~Unclaimed(run[q].task)
    BY <2>1 DEF IInv, ClaimInv
  <2>3. run[q].task # t
    BY <2>2, <1>1 DEF Unclaimed
  <2> QED
    BY <2>1, <2>2, <2>3, <1>5 DEF Unclaimed
<1> QED
  BY <1>4, <1>6, <1>8, <1>9 DEF ClaimInv, Claiming

(* Claiming a pending row makes the runner its owner: nobody has started   *)
(* the task, and no other runner has claimed it.                           *)
LEMMA ClaimRow ==
    ASSUME IInv, NEW r \in Runners, run[r].pc = "claim", Goto(r, "reload"), ran' = ran,
           task[run[r].task].status = "pending",
           task' = [task EXCEPT ![run[r].task].status = "running", ![run[r].task].by = r]
    PROVE  /\ ClaimInv' /\ OneActive' /\ task' \in [Tasks -> TaskRow]
           /\ run' \in [Runners -> LoopState]
<1> DEFINE t == run[r].task
<1>1. t \in Tasks /\ task \in [Tasks -> TaskRow] /\ task[t] \in TaskRow
  BY DEF IInv, TypeOK, ClaimInv, Claiming
<1> DEFINE row == [task[t] EXCEPT !.status = "running", !.by = r]
<1>2. row \in TaskRow /\ row.by = r /\ row.status = "running" /\ row.active = task[t].active
  BY <1>1 DEF TaskRow, Holder
<1>3. task' = [task EXCEPT ![t] = row]
  OBVIOUS
<1>p. task[t].status = "pending"
  OBVIOUS
<1> HIDE DEF row
<1>4. task' \in [Tasks -> TaskRow]
  BY <1>1, <1>2, <1>3
<1>5. task'[t] = row /\ \A u \in Tasks \ {t} : task'[u] = task[u]
  BY <1>1, <1>3
<1>6. Moves(r, "reload")
  BY GotoMoves DEF IInv, TypeOK, Labels
<1>7. OneActive'
  <2>1. \A u \in Tasks : Active(u)' <=> Active(u)
    BY <1>2, <1>5 DEF Active
  <2>2. \A u \in Tasks : Active(u)' <=> task'[u].status \in {"pending", "running"}
    BY <1>2, <1>5, <1>p, <1>1 DEF Active, IInv, OneActive
  <2> QED
    BY <2>1, <2>2 DEF IInv, OneActive
<1>8. \A u \in Tasks : ran'[u] \subseteq {task'[u].by} /\ (Unclaimed(u)' => ran'[u] = {})
  <2>1. ran[t] = {}
    BY <1>1, <1>p DEF IInv, ClaimInv, Unclaimed
  <2> QED
    BY <2>1, <1>5 DEF IInv, ClaimInv, Unclaimed
<1>9. \A q \in Runners : run'[q].pc = "reload" =>
          (task[run[q].task].by = q /\ ~Unclaimed(run[q].task))'
  <2> SUFFICES ASSUME NEW q \in Runners, run'[q].pc = "reload"
               PROVE  (task[run[q].task].by = q /\ ~Unclaimed(run[q].task))'
    OBVIOUS
  <2>1. CASE q = r
    <3>1. run'[q].task = t
      BY <2>1, <1>6 DEF Moves
    <3> QED
      BY <3>1, <2>1, <1>2, <1>5, <1>1 DEF Unclaimed
  <2>2. CASE q # r
    <3>1. run'[q] = run[q]
      BY <2>2, <1>6 DEF Moves
    <3>2. task[run[q].task].by = q /\ ~Unclaimed(run[q].task) /\ run[q].task \in Tasks
      BY <3>1 DEF IInv, ClaimInv, Claiming
    <3>3. run[q].task # t
      BY <3>2, <1>p DEF Unclaimed
    <3> QED
      BY <3>1, <3>2, <3>3, <1>5 DEF Unclaimed
  <2> QED
    BY <2>1, <2>2
<1>10. \A q \in Runners : run'[q].pc \in Claiming => run'[q].task \in Tasks
  BY <1>6, <1>1 DEF Moves, IInv, ClaimInv
<1> QED
  BY <1>4, <1>6, <1>7, <1>8, <1>9, <1>10 DEF ClaimInv, Claiming, Moves

-----------------------------------------------------------------------------
(* Every action keeps the inductive invariant.                             *)

(* The invariant after a step, from what the step does to each variable *)
Preserved ==
    /\ task' \in [Tasks -> TaskRow] /\ lock' \in LockRow
    /\ run' \in [Runners -> LoopState] /\ exec' \in [Runners -> [Tasks -> ExecState]]
    /\ ran' \in [Tasks -> SUBSET Runners] /\ faults' \in 0..MaxFaults
    /\ OneActive' /\ ClaimInv'

(* The variables a step may leave alone keep their types. *)
LEMMA Unchanged ==
    ASSUME IInv
    PROVE  /\ lock' = lock => lock' \in LockRow
           /\ exec' = exec => exec' \in [Runners -> [Tasks -> ExecState]]
           /\ ran' = ran => ran' \in [Tasks -> SUBSET Runners]
           /\ faults' = faults => faults' \in 0..MaxFaults
BY DEF IInv, TypeOK

(* Starting a pass. *)
LEMMA StartPassKeeps ==
    ASSUME IInv, NEW r \in Runners, NEW part \in Parts \ {"idle"}, StartPass(r, part)
    PROVE  Preserved
<1>1. Enter(r, part) /\ task' = task /\ ran' = ran /\ lock' = lock /\ exec' = exec
      /\ faults' = faults
  BY DEF StartPass
<1> QED
  BY <1>1, QuietEnter, Unchanged DEF Preserved

(* A sweeper that remembers a stale lock is not claiming. *)
LEMMA SweepMoves ==
    ASSUME IInv, NEW r \in Runners, task' = task, ran' = ran,
           run' = [run EXCEPT ![r].pc = "sweepMark", ![r].expired = lock.task,
                              ![r].by = lock.by]
    PROVE  /\ run' \in [Runners -> LoopState] /\ OneActive' /\ ClaimInv'
           /\ task' \in [Tasks -> TaskRow]
<1>1. run \in [Runners -> LoopState] /\ run[r] \in LoopState
      /\ lock.task \in 0..MaxTasks /\ lock.by \in Holder
  BY DEF IInv, TypeOK, LockRow
<1> DEFINE at == [run[r] EXCEPT !.pc = "sweepMark", !.expired = lock.task, !.by = lock.by]
<1>2. at \in LoopState /\ at.pc = "sweepMark"
  BY <1>1 DEF LoopState
<1>3. run' = [run EXCEPT ![r] = at]
  OBVIOUS
<1> HIDE DEF at
<1>4. run' \in [Runners -> LoopState] /\ run'[r] = at
      /\ \A q \in Runners \ {r} : run'[q] = run[q]
  BY <1>1, <1>2, <1>3
<1>5. \A q \in Runners : run'[q].pc \in Claiming => run'[q].task \in Tasks
  BY <1>4, <1>2 DEF IInv, ClaimInv, Claiming
<1>6. \A q \in Runners : run'[q].pc = "reload" =>
          run[q].pc = "reload" /\ run'[q].task = run[q].task
  BY <1>4, <1>2
<1> QED
  BY <1>4, <1>5, <1>6, RowsSame, OwnersKept

(* Reading the stale locks. *)
LEMMA SweepKeeps ==
    ASSUME IInv, NEW r \in Runners, Sweep(r)
    PROVE  Preserved
<1>1. ReadClock(r) /\ task' = task /\ ran' = ran /\ exec' = exec /\ (DbOk \/ DbFault)
  BY DEF Sweep
<1>2. CASE Enter(r, "schedule")
  BY <1>1, <1>2, QuietEnter, ClockType, FaultType, Unchanged DEF Preserved, Parts
<1>3. CASE run' = [run EXCEPT ![r].pc = "sweepMark", ![r].expired = lock.task,
                              ![r].by = lock.by]
  <2>1. /\ run' \in [Runners -> LoopState] /\ OneActive' /\ ClaimInv'
        /\ task' \in [Tasks -> TaskRow]
    BY <1>1, <1>3, SweepMoves
  <2> QED
    BY <2>1, <1>1, ClockType, FaultType, Unchanged DEF Preserved
<1> QED
  BY <1>2, <1>3 DEF Sweep

(* Failing the task of a stale lock. *)
LEMMA SweepMarkKeeps ==
    ASSUME IInv, NEW r \in Runners, SweepMark(r)
    PROVE  Preserved
<1>1. lock' = lock /\ ran' = ran /\ exec' = exec /\ (DbOk \/ DbFault)
  BY DEF SweepMark
<1>2. CASE MarkLeaseExpired(run[r].expired) /\ Goto(r, "sweepDelete")
  <2>1. SameOwners /\ OneActive' /\ task' \in [Tasks -> TaskRow]
    BY <1>2, MarkRow
  <2>2. /\ \A q \in Runners : run'[q].pc \in Claiming => run'[q].task \in Tasks
        /\ \A q \in Runners : run'[q].pc = "reload" =>
                run[q].pc = "reload" /\ run'[q].task = run[q].task
        /\ run' \in [Runners -> LoopState]
    BY <1>2, GotoSame DEF Labels, Claiming
  <2> QED
    BY <1>1, <2>1, <2>2, OwnersKept, FaultType, Unchanged DEF Preserved
<1>3. CASE task' = task /\ Enter(r, "schedule")
  BY <1>1, <1>3, QuietEnter, FaultType, Unchanged DEF Preserved, Parts
<1> QED
  BY <1>2, <1>3 DEF SweepMark

(* Deleting a stale lock. *)
LEMMA SweepDeleteKeeps ==
    ASSUME IInv, NEW r \in Runners, SweepDelete(r)
    PROVE  Preserved
<1>1. Enter(r, "schedule") /\ task' = task /\ ran' = ran /\ exec' = exec
      /\ (DbOk \/ DbFault)
  BY DEF SweepDelete
<1>2. lock' \in LockRow
  BY NoLockType DEF SweepDelete, IInv, TypeOK
<1> QED
  BY <1>1, <1>2, QuietEnter, FaultType, Unchanged DEF Preserved, Parts

(* The scheduler. *)
LEMMA ScheduleKeeps ==
    ASSUME IInv, NEW r \in Runners, Schedule(r)
    PROVE  Preserved
<1>1. Enter(r, "find") /\ lock' = lock /\ ran' = ran /\ exec' = exec /\ faults' = faults
  BY DEF Schedule
<1>2. CASE task' = task
  BY <1>1, <1>2, QuietEnter, Unchanged DEF Preserved, Parts
<1>3. ASSUME NEW t \in Tasks, CreateSystemTask(t)
      PROVE  Preserved
  BY <1>1, <1>3, EnterSame, CreateRow, Unchanged DEF Preserved, Parts
<1> QED
  BY <1>2, <1>3 DEF Schedule

(* An API handler creates a task. *)
LEMMA EnqueueKeeps ==
    ASSUME IInv, Enqueue
    PROVE  Preserved
<1>1. lock' = lock /\ run' = run /\ ran' = ran /\ exec' = exec /\ faults' = faults
  BY DEF Enqueue
<1>2. PICK t \in Tasks : CreateSystemTask(t)
  BY DEF Enqueue
<1> QED
  BY <1>1, <1>2, LoopSame, CreateRow, Unchanged DEF Preserved

(* A claim pass that finds a pending task works on a row that exists. *)
LEMMA FindMoves ==
    ASSUME IInv, NEW r \in Runners, task' = task, ran' = ran, NEW t \in Tasks,
           run[r].pc = "find", run' = [run EXCEPT ![r].pc = "create", ![r].task = t]
    PROVE  /\ run' \in [Runners -> LoopState] /\ OneActive' /\ ClaimInv'
           /\ task' \in [Tasks -> TaskRow]
<1>1. run \in [Runners -> LoopState] /\ run[r] \in LoopState /\ t \in 0..MaxTasks
  BY BoundAssumption DEF IInv, TypeOK
<1> DEFINE at == [run[r] EXCEPT !.pc = "create", !.task = t]
<1>2. at \in LoopState /\ at.pc = "create" /\ at.task = t
  BY <1>1 DEF LoopState
<1>3. run' = [run EXCEPT ![r] = at]
  OBVIOUS
<1> HIDE DEF at
<1>4. run' \in [Runners -> LoopState] /\ run'[r] = at
      /\ \A q \in Runners \ {r} : run'[q] = run[q]
  BY <1>1, <1>2, <1>3
<1>5. \A q \in Runners : run'[q].pc \in Claiming => run'[q].task \in Tasks
  BY <1>4, <1>2 DEF IInv, ClaimInv
<1>6. \A q \in Runners : run'[q].pc = "reload" =>
          run[q].pc = "reload" /\ run'[q].task = run[q].task
  BY <1>4, <1>2
<1> QED
  BY <1>4, <1>5, <1>6, RowsSame, OwnersKept

(* At most one row is pending, so there is an earliest one. *)
LEMMA EarliestExists ==
    ASSUME IInv, Pending # {}
    PROVE  (CHOOSE t \in Pending : \A u \in Pending : t <= u) \in Pending
<1>1. PICK t \in Tasks : t \in Pending /\ t \in Nat
  BY BoundAssumption DEF Pending
<1>2. \A u \in Pending : u = t
  BY <1>1 DEF Pending, IInv, OneActive
<1>3. \A u \in Pending : t <= u
  BY <1>1, <1>2
<1>4. \E v \in Pending : \A u \in Pending : v <= u
  BY <1>1, <1>3
<1> QED
  BY <1>4

(* The claim pass looks for the earliest pending task. *)
LEMMA FindKeeps ==
    ASSUME IInv, NEW r \in Runners, Find(r)
    PROVE  Preserved
<1>1. ReadClock(r) /\ task' = task /\ ran' = ran /\ exec' = exec /\ (DbOk \/ DbFault)
      /\ run[r].pc = "find"
  BY DEF Find
<1>2. CASE Enter(r, "idle")
  BY <1>1, <1>2, QuietEnter, ClockType, FaultType, Unchanged DEF Preserved, Parts
<1> DEFINE earliest == CHOOSE t \in Pending : \A u \in Pending : t <= u
<1>3. CASE Pending # {} /\ run' = [run EXCEPT ![r].pc = "create", ![r].task = earliest]
  <2>1. earliest \in Tasks
    BY <1>3, EarliestExists DEF Pending
  <2> HIDE DEF earliest
  <2>2. /\ run' \in [Runners -> LoopState] /\ OneActive' /\ ClaimInv'
        /\ task' \in [Tasks -> TaskRow]
    BY <1>1, <1>3, <2>1, FindMoves
  <2> QED
    BY <2>2, <1>1, ClockType, FaultType, Unchanged DEF Preserved
<1> QED
  BY <1>2, <1>3 DEF Find

(* Inserting the lock row. *)
LEMMA CreateLockKeeps ==
    ASSUME IInv, NEW r \in Runners, CreateLock(r)
    PROVE  Preserved
<1>1. task' = task /\ ran' = ran /\ exec' = exec /\ (DbOk \/ DbFault)
      /\ run[r].pc \in Claiming
  BY DEF CreateLock, Claiming
<1>2. run[r].task \in Tasks
  BY <1>1 DEF IInv, ClaimInv
<1>3. CASE Lease(run[r].task, r) /\ Goto(r, "claim")
  BY <1>1, <1>2, <1>3, QuietGoto, LeaseType, FaultType, Unchanged DEF Preserved, Labels
<1>4. CASE lock' = lock /\ Goto(r, "inspect")
  BY <1>1, <1>4, QuietGoto, FaultType, Unchanged DEF Preserved, Labels
<1> QED
  BY <1>3, <1>4 DEF CreateLock

(* A runner that remembers the lock it wants to take over keeps its task. *)
LEMMA InspectMoves ==
    ASSUME IInv, NEW r \in Runners, task' = task, ran' = ran, run[r].pc = "inspect",
           run' = [run EXCEPT ![r].pc = "takeOver", ![r].expired = lock.task]
    PROVE  /\ run' \in [Runners -> LoopState] /\ OneActive' /\ ClaimInv'
           /\ task' \in [Tasks -> TaskRow]
<1>1. run \in [Runners -> LoopState] /\ run[r] \in LoopState /\ lock.task \in 0..MaxTasks
      /\ run[r].task \in Tasks
  BY DEF IInv, TypeOK, LockRow, ClaimInv, Claiming
<1> DEFINE at == [run[r] EXCEPT !.pc = "takeOver", !.expired = lock.task]
<1>2. at \in LoopState /\ at.pc = "takeOver" /\ at.task = run[r].task
  BY <1>1 DEF LoopState
<1>3. run' = [run EXCEPT ![r] = at]
  OBVIOUS
<1> HIDE DEF at
<1>4. run' \in [Runners -> LoopState] /\ run'[r] = at
      /\ \A q \in Runners \ {r} : run'[q] = run[q]
  BY <1>1, <1>2, <1>3
<1>5. \A q \in Runners : run'[q].pc \in Claiming => run'[q].task \in Tasks
  BY <1>1, <1>4, <1>2 DEF IInv, ClaimInv
<1>6. \A q \in Runners : run'[q].pc = "reload" =>
          run[q].pc = "reload" /\ run'[q].task = run[q].task
  BY <1>4, <1>2
<1> QED
  BY <1>4, <1>5, <1>6, RowsSame, OwnersKept

(* Inspecting the lock that is in the way. *)
LEMMA InspectLockKeeps ==
    ASSUME IInv, NEW r \in Runners, InspectLock(r)
    PROVE  Preserved
<1>1. task' = task /\ ran' = ran /\ exec' = exec /\ lock' = lock /\ (DbOk \/ DbFault)
      /\ run[r].pc = "inspect"
  BY DEF InspectLock
<1>2. CASE Enter(r, "idle")
  BY <1>1, <1>2, QuietEnter, FaultType, Unchanged DEF Preserved, Parts
<1>3. CASE run' = [run EXCEPT ![r].pc = "takeOver", ![r].expired = lock.task]
  <2>1. /\ run' \in [Runners -> LoopState] /\ OneActive' /\ ClaimInv'
        /\ task' \in [Tasks -> TaskRow]
    BY <1>1, <1>3, InspectMoves
  <2> QED
    BY <2>1, <1>1, FaultType, Unchanged DEF Preserved
<1> QED
  BY <1>2, <1>3 DEF InspectLock

(* Taking over an expired lock. *)
LEMMA TakeOverLockKeeps ==
    ASSUME IInv, NEW r \in Runners, TakeOverLock(r)
    PROVE  Preserved
<1>1. task' = task /\ ran' = ran /\ exec' = exec /\ (DbOk \/ DbFault)
      /\ run[r].pc \in Claiming
  BY DEF TakeOverLock, Claiming
<1>2. run[r].task \in Tasks
  BY <1>1 DEF IInv, ClaimInv
<1>3. CASE lock' = lock /\ Enter(r, "idle")
  BY <1>1, <1>3, QuietEnter, FaultType, Unchanged DEF Preserved, Parts
<1>4. ASSUME NEW label \in {"mark", "claim"}, Lease(run[r].task, r), Goto(r, label)
      PROVE  Preserved
  BY <1>1, <1>2, <1>4, QuietGoto, LeaseType, FaultType, Unchanged DEF Preserved, Labels
<1> QED
  BY <1>3, <1>4 DEF TakeOverLock

(* Failing the task whose lock was taken over. *)
LEMMA MarkTakenOverKeeps ==
    ASSUME IInv, NEW r \in Runners, MarkTakenOver(r)
    PROVE  Preserved
<1>1. lock' = lock /\ ran' = ran /\ exec' = exec /\ (DbOk \/ DbFault)
      /\ run[r].pc \in Claiming
  BY DEF MarkTakenOver, Claiming
<1>2. CASE MarkLeaseExpired(run[r].expired) /\ Goto(r, "claim")
  <2>1. SameOwners /\ OneActive' /\ task' \in [Tasks -> TaskRow]
    BY <1>2, MarkRow
  <2>2. /\ \A q \in Runners : run'[q].pc \in Claiming => run'[q].task \in Tasks
        /\ \A q \in Runners : run'[q].pc = "reload" =>
                run[q].pc = "reload" /\ run'[q].task = run[q].task
        /\ run' \in [Runners -> LoopState]
    BY <1>1, <1>2, GotoSame DEF Labels
  <2> QED
    BY <1>1, <2>1, <2>2, OwnersKept, FaultType, Unchanged DEF Preserved
<1>3. CASE task' = task /\ Goto(r, "release")
  BY <1>1, <1>3, QuietGoto, FaultType, Unchanged DEF Preserved, Labels
<1> QED
  BY <1>2, <1>3 DEF MarkTakenOver

(* Claiming. *)
LEMMA ClaimKeeps ==
    ASSUME IInv, NEW r \in Runners, Claim(r)
    PROVE  Preserved
<1>1. lock' = lock /\ ran' = ran /\ exec' = exec /\ (DbOk \/ DbFault)
      /\ run[r].pc = "claim" /\ run[r].pc \in Claiming
  BY DEF Claim, Claiming
<1>2. CASE /\ task[run[r].task].status = "pending" /\ Goto(r, "reload")
           /\ task' = [task EXCEPT ![run[r].task].status = "running",
                                   ![run[r].task].by = r]
  <2>1. /\ ClaimInv' /\ OneActive' /\ task' \in [Tasks -> TaskRow]
        /\ run' \in [Runners -> LoopState]
    BY <1>1, <1>2, ClaimRow
  <2> QED
    BY <1>1, <2>1, FaultType, Unchanged DEF Preserved
<1>3. CASE task' = task /\ Goto(r, "release")
  BY <1>1, <1>3, QuietGoto, FaultType, Unchanged DEF Preserved, Labels
<1> QED
  BY <1>2, <1>3 DEF Claim

(* Releasing the lock after a claim that failed. *)
LEMMA ReleaseKeeps ==
    ASSUME IInv, NEW r \in Runners, Release(r)
    PROVE  Preserved
<1>1. Enter(r, "idle") /\ task' = task /\ ran' = ran /\ exec' = exec /\ (DbOk \/ DbFault)
  BY DEF Release
<1>2. lock' \in LockRow
  BY ReleaseType, Unchanged DEF Release
<1> QED
  BY <1>1, <1>2, QuietEnter, FaultType, Unchanged DEF Preserved, Parts

(* Starting the handler: the runner is the owner of the row, so it is the  *)
(* only one that ever starts the task.                                     *)
LEMMA DispatchKeeps ==
    ASSUME IInv, NEW r \in Runners, Dispatch(r)
    PROVE  Preserved
<1>1. Enter(r, "idle") /\ task' = task /\ lock' = lock /\ (DbOk \/ DbFault)
      /\ run[r].pc = "reload"
  BY DEF Dispatch
<1>2. CASE exec' = exec /\ ran' = ran
  BY <1>1, <1>2, QuietEnter, FaultType, Unchanged DEF Preserved, Parts
<1>3. CASE /\ exec' = [exec EXCEPT ![r][run[r].task] = "working"]
           /\ ran' = [ran EXCEPT ![run[r].task] = @ \cup {r}]
  <2>1. run[r].task \in Tasks /\ task[run[r].task].by = r /\ ~Unclaimed(run[r].task)
    BY <1>1 DEF IInv, ClaimInv, Claiming
  <2>2. exec' \in [Runners -> [Tasks -> ExecState]]
    BY <1>3, <2>1, ExecType DEF ExecState
  <2>3. ran' \in [Tasks -> SUBSET Runners]
    BY <1>3 DEF IInv, TypeOK
  <2>4. SameOwners /\ OneActive' /\ task' \in [Tasks -> TaskRow]
    BY <1>1, RowsSame
  <2>5. \A t \in Tasks : ran'[t] \subseteq {task'[t].by} /\ (Unclaimed(t)' => ran'[t] = {})
    <3>1. ran \in [Tasks -> SUBSET Runners]
      BY DEF IInv, TypeOK
    <3>2. ran'[run[r].task] = ran[run[r].task] \cup {r}
          /\ \A t \in Tasks \ {run[r].task} : ran'[t] = ran[t]
      BY <1>3, <2>1, <3>1
    <3> QED
      BY <3>2, <2>1, <2>4 DEF IInv, ClaimInv, SameOwners
  <2>6. /\ \A q \in Runners : run'[q].pc \in Claiming => run'[q].task \in Tasks
        /\ \A q \in Runners : run'[q].pc = "reload" =>
                run[q].pc = "reload" /\ run'[q].task = run[q].task
        /\ run' \in [Runners -> LoopState]
    BY <1>1, EnterSame DEF Parts
  <2>7. \A q \in Runners : run'[q].pc = "reload" =>
          (task[run[q].task].by = q /\ ~Unclaimed(run[q].task))'
    BY <2>6, <1>1 DEF IInv, ClaimInv, Unclaimed
  <2>8. ClaimInv'
    BY <2>5, <2>6, <2>7 DEF ClaimInv, Claiming
  <2> QED
    BY <1>1, <2>2, <2>3, <2>4, <2>6, <2>8, FaultType, Unchanged DEF Preserved
<1> QED
  BY <1>2, <1>3 DEF Dispatch

(* The heartbeat. *)
LEMMA HeartbeatKeeps ==
    ASSUME IInv, NEW r \in Runners, NEW t \in Tasks, Heartbeat(r, t)
    PROVE  Preserved
<1>1. run' = run /\ task' = task /\ ran' = ran /\ (DbOk \/ DbFault)
  BY DEF Heartbeat
<1>2. CASE Lease(t, r) /\ exec' = exec
  BY <1>1, <1>2, QuietStay, LeaseType, FaultType, Unchanged DEF Preserved
<1>3. CASE lock' = lock /\ exec' = [exec EXCEPT ![r][t] = "cancelled"]
  <2>1. exec' \in [Runners -> [Tasks -> ExecState]]
    BY <1>3, ExecType DEF ExecState
  <2> QED
    BY <2>1, <1>1, <1>3, QuietStay, FaultType, Unchanged DEF Preserved
<1> QED
  BY <1>2, <1>3 DEF Heartbeat

(* Reporting the outcome of a task. *)
LEMMA FinishKeeps ==
    ASSUME IInv, NEW r \in Runners, NEW t \in Tasks, Finish(r, t)
    PROVE  Preserved
<1>1. run' = run /\ lock' = lock /\ ran' = ran /\ (DbOk \/ DbFault)
  BY DEF Finish
<1>2. exec' \in [Runners -> [Tasks -> ExecState]]
  BY ExecType DEF Finish, ExecState
<1>3. CASE task' = task
  BY <1>1, <1>2, <1>3, QuietStay, FaultType, Unchanged DEF Preserved
<1>4. ASSUME task[t].status = "running", NEW status \in Terminal,
             task' = [task EXCEPT ![t].status = status, ![t].active = FALSE]
      PROVE  Preserved
  <2>1. SameOwners /\ OneActive' /\ task' \in [Tasks -> TaskRow]
    BY <1>4, EndRow
  <2> QED
    BY <1>1, <1>2, <2>1, LoopSame, OwnersKept, FaultType, Unchanged DEF Preserved
<1> QED
  BY <1>3, <1>4 DEF Finish

(* Releasing the lock of a finished task. *)
LEMMA FinishReleaseKeeps ==
    ASSUME IInv, NEW r \in Runners, NEW t \in Tasks, FinishRelease(r, t)
    PROVE  Preserved
<1>1. run' = run /\ task' = task /\ ran' = ran /\ (DbOk \/ DbFault)
  BY DEF FinishRelease
<1>2. exec' \in [Runners -> [Tasks -> ExecState]]
  BY ExecType DEF FinishRelease, ExecState
<1>3. lock' \in LockRow
  BY ReleaseType, Unchanged DEF FinishRelease
<1> QED
  BY <1>1, <1>2, <1>3, QuietStay, FaultType, Unchanged DEF Preserved

(* A handler that ends without an outcome. *)
LEMMA HandlerStopsKeeps ==
    ASSUME IInv, NEW r \in Runners, NEW t \in Tasks, HandlerStops(r, t)
    PROVE  Preserved
<1>1. run' = run /\ task' = task /\ ran' = ran /\ lock' = lock /\ faults' = faults
  BY DEF HandlerStops
<1>2. exec' \in [Runners -> [Tasks -> ExecState]]
  BY ExecType DEF HandlerStops, ExecState
<1> QED
  BY <1>1, <1>2, QuietStay, Unchanged DEF Preserved

(* Time. *)
LEMMA LeaseRunsOutKeeps ==
    ASSUME IInv, LeaseRunsOut
    PROVE  Preserved
<1>1. run' = run /\ task' = task /\ ran' = ran /\ exec' = exec /\ faults' = faults
  BY DEF LeaseRunsOut
<1>2. lock' \in LockRow
  BY DEF LeaseRunsOut, IInv, TypeOK, LockRow
<1> QED
  BY <1>1, <1>2, QuietStay, Unchanged DEF Preserved

(* A crash. *)
LEMMA CrashKeeps ==
    ASSUME IInv, NEW r \in Runners, Crash(r)
    PROVE  Preserved
<1>1. Enter(r, "idle") /\ task' = task /\ ran' = ran /\ lock' = lock /\ faults' = faults
  BY DEF Crash
<1>2. exec' \in [Runners -> [Tasks -> ExecState]]
  <2>1. exec' = [exec EXCEPT ![r] = [t \in Tasks |-> "none"]]
    BY DEF Crash
  <2>2. [t \in Tasks |-> "none"] \in [Tasks -> ExecState]
    BY DEF ExecState
  <2> QED
    BY <2>1, <2>2 DEF IInv, TypeOK
<1> QED
  BY <1>1, <1>2, QuietEnter, Unchanged DEF Preserved, Parts

-----------------------------------------------------------------------------
(* The theorems.                                                           *)

(* The inductive invariant holds initially and is kept by every step: the  *)
(* rows, the locks and the claims of ClaimSystemTask stay consistent for   *)
(* any number of runners.                                                  *)
THEOREM Inductive == Spec => []IInv
<1>1. Init => IInv
  <2> SUFFICES ASSUME Init PROVE IInv
    OBVIOUS
  <2>1. task \in [Tasks -> TaskRow] /\ \A t \in Tasks : /\ task[t].status = "none"
                                                        /\ task[t].active = FALSE
    BY DEF Init, TaskRow, Holder
  <2>2. lock \in LockRow
    BY NoLockType DEF Init
  <2>3. run \in [Runners -> LoopState] /\ \A r \in Runners : run[r].pc = "idle"
    <3>1. At("idle") \in LoopState /\ At("idle").pc = "idle"
      BY BoundAssumption DEF At, LoopState, Holder
    <3> QED
      BY <3>1 DEF Init
  <2>4. exec \in [Runners -> [Tasks -> ExecState]]
    BY DEF Init, ExecState
  <2>5. ran \in [Tasks -> SUBSET Runners] /\ \A t \in Tasks : ran[t] = {}
    BY DEF Init
  <2>6. up \in SUBSET Runners /\ faults \in 0..MaxFaults
    BY BoundAssumption DEF Init
  <2>7. OneActive
    BY <2>1 DEF OneActive, Active
  <2>8. ClaimInv
    BY <2>3, <2>5 DEF ClaimInv, Claiming
  <2> QED
    BY <2>1, <2>2, <2>3, <2>4, <2>5, <2>6, <2>7, <2>8 DEF IInv, TypeOK
<1>2. IInv /\ [Next]_vars => IInv'
  <2> SUFFICES ASSUME IInv, [Next]_vars PROVE IInv'
    OBVIOUS
  <2>1. up' \in SUBSET Runners
    BY DEF IInv, TypeOK, Next, Alive, Enqueue, LeaseRunsOut, Crash, vars
  <2>2. Preserved
    <3>1. CASE UNCHANGED vars
      BY <3>1, QuietStay, Unchanged DEF Preserved, vars
    <3>2. ASSUME NEW r \in Runners, Loop(r)
          PROVE  Preserved
      BY <3>2, StartPassKeeps, SweepKeeps, SweepMarkKeeps, SweepDeleteKeeps,
         ScheduleKeeps, FindKeeps, CreateLockKeeps, InspectLockKeeps, TakeOverLockKeeps,
         MarkTakenOverKeeps, ClaimKeeps, ReleaseKeeps, DispatchKeeps DEF Loop, Parts
    <3>3. ASSUME NEW r \in Runners, NEW t \in Tasks, Heartbeat(r, t) \/ Returns(r, t)
          PROVE  Preserved
      BY <3>3, HeartbeatKeeps, FinishKeeps, FinishReleaseKeeps, HandlerStopsKeeps
         DEF Returns
    <3>4. CASE Enqueue \/ LeaseRunsOut \/ \E r \in Runners : Crash(r)
      BY <3>4, EnqueueKeeps, LeaseRunsOutKeeps, CrashKeeps
    <3> QED
      BY <3>1, <3>2, <3>3, <3>4 DEF Next
  <2> QED
    BY <2>1, <2>2 DEF IInv, TypeOK, Preserved
<1> QED
  BY <1>1, <1>2, PTL DEF Spec

(* The variables keep their types. *)
THEOREM TypeCorrect == Spec => []TypeOK
<1>1. IInv => TypeOK
  BY DEF IInv
<1> QED
  BY <1>1, Inductive, PTL

(* However many runners there are and whatever they suffer, at most one    *)
(* task of the type is unfinished, and it alone holds active_key.          *)
THEOREM ActiveKeyIsUnique == Spec => []OneActive
<1>1. IInv => OneActive
  BY DEF IInv
<1> QED
  BY <1>1, Inductive, PTL

(* No task is started by two runners: the claim of ClaimSystemTask is      *)
(* exclusive even when leases expire under the runners.                    *)
THEOREM ClaimIsExclusive == Spec => []StartedOnce
<1>1. ASSUME IInv PROVE StartedOnce
  <2> SUFFICES ASSUME NEW t \in Tasks PROVE Cardinality(ran[t]) <= 1
    BY DEF StartedOnce
  <2>1. ran[t] \subseteq {task[t].by}
    BY <1>1 DEF IInv, ClaimInv
  <2>2. IsFiniteSet({task[t].by}) /\ Cardinality({task[t].by}) = 1
    BY FS_Singleton
  <2>3. Cardinality(ran[t]) <= Cardinality({task[t].by})
    BY <2>1, <2>2, FS_Subset
  <2> QED
    BY <2>2, <2>3
<1> QED
  BY <1>1, Inductive, PTL

(* The outcome of a task is never overwritten. *)
THEOREM OutcomeIsFinal == Spec => TerminalIsFinal
<1> DEFINE Kept == \A t \in Tasks : task[t].status \in Terminal => task'[t] = task[t]
<1>1. ASSUME IInv, [Next]_vars
      PROVE  Kept
  <2>0. task \in [Tasks -> TaskRow]
    BY <1>1 DEF IInv, TypeOK
  <2>1. CASE task' = task
    BY <2>1
  <2>2. ASSUME NEW t \in Tasks, CreateSystemTask(t)
        PROVE  Kept
    BY <2>0, <2>2 DEF CreateSystemTask, Terminal
  <2>3. ASSUME NEW t, MarkLeaseExpired(t)
        PROVE  Kept
    BY <2>0, <2>3 DEF MarkLeaseExpired, Terminal
  <2>4. ASSUME NEW r \in Runners, Claim(r), task' # task
        PROVE  Kept
    BY <2>0, <2>4 DEF Claim, Terminal
  <2>5. ASSUME NEW r \in Runners, NEW t \in Tasks, Finish(r, t), task' # task
        PROVE  Kept
    BY <2>0, <2>5 DEF Finish, Terminal
  <2>6. ASSUME NEW r \in Runners, Loop(r)
        PROVE  Kept
    BY <2>1, <2>2, <2>3, <2>4, <2>6
       DEF Loop, StartPass, Sweep, SweepMark, SweepDelete, Schedule, Find, CreateLock,
           InspectLock, TakeOverLock, MarkTakenOver, Release, Dispatch, Claim
  <2>7. ASSUME NEW r \in Runners, NEW t \in Tasks, Heartbeat(r, t) \/ Returns(r, t)
        PROVE  Kept
    BY <2>1, <2>5, <2>7 DEF Returns, Heartbeat, FinishRelease, HandlerStops
  <2>8. CASE Enqueue \/ LeaseRunsOut \/ \E r \in Runners : Crash(r)
    BY <2>1, <2>2, <2>8 DEF Enqueue, LeaseRunsOut, Crash
  <2> QED
    BY <1>1, <2>1, <2>6, <2>7, <2>8 DEF Next, vars
<1>2. IInv /\ [Next]_vars => [Kept]_vars
  BY <1>1
<1> QED
  BY <1>2, Inductive, PTL DEF Spec, TerminalIsFinal

-----------------------------------------------------------------------------
(* One handler at a time.                                                  *)

(* The lock is r's for task t, nobody's clock is past it *)
Owns(r, t) == Holds(t, r) /\ lock.live = TRUE /\ lock.past = {}

(* The runner is between taking the lock for t and its handler's return, or *)
(* the cancellation of the handler's context                               *)
Guards(r, t) ==
    \/ run[r].pc \in {"mark", "claim", "reload"} /\ run[r].task = t
    \/ exec[r][t] = "working"

LeaseInv == \A r \in up, t \in Tasks : Guards(r, t) => Owns(r, t)

(* A runner on its way to a claim has not started the task before: its own *)
(* old handler does not release the lock it has just taken.                *)
FreshInv == \A r \in Runners : run[r].pc \in Claiming => r \notin ran[run[r].task]
StartedInv == \A r \in Runners, t \in Tasks : exec[r][t] # "none" => r \in ran[t]

HandlerInv == LeaseInv /\ FreshInv /\ StartedInv

(* Whoever has the lock keeps it, and no runner comes to need it *)
LockKept == \A r \in up, t \in Tasks : Guards(r, t) /\ Owns(r, t) => Owns(r, t)'
NoneComes == up' \subseteq up /\ \A r \in up', t \in Tasks : Guards(r, t)' => Guards(r, t)

(* The lease is kept if the lock stays with whoever has it and nobody new needs it. *)
LEMMA LeaseKept ==
    ASSUME HandlerInv, LockKept, NoneComes
    PROVE  LeaseInv'
<1> SUFFICES ASSUME NEW r \in up', NEW t \in Tasks, Guards(r, t)' PROVE Owns(r, t)'
  BY DEF LeaseInv
<1>1. r \in up /\ Guards(r, t)
  BY DEF NoneComes
<1>2. Owns(r, t)
  BY <1>1 DEF HandlerInv, LeaseInv
<1> QED
  BY <1>1, <1>2 DEF LockKept

(* A lock that does not change, or whose clock another runner reads, is    *)
(* kept by its owner.                                                      *)
LEMMA SameLockKept ==
    ASSUME lock' = lock
    PROVE  LockKept
BY DEF LockKept, Owns, Holds

(* Reading the clock takes no lock. *)
LEMMA ReadClockKept ==
    ASSUME IInv, NEW r \in Runners, ReadClock(r)
    PROVE  LockKept
<1>0. lock \in LockRow
  BY DEF IInv, TypeOK
<1>1. /\ lock'.held = lock.held /\ lock'.task = lock.task /\ lock'.by = lock.by
      /\ lock'.live = lock.live
      /\ lock.live = TRUE => lock'.past = lock.past \ {r}
  BY <1>0 DEF ReadClock, LockRow
<1> QED
  BY <1>1 DEF LockKept, Owns, Holds

(* Without stalls a lease is ahead of every clock. *)
LEMMA LeaseIsOwned ==
    ASSUME ~Stalls, NEW r, NEW t, Lease(t, r)
    PROVE  Owns(r, t)'
<1>1. lock' = [held |-> TRUE, task |-> t, by |-> r, live |-> ({} = {}), past |-> {}]
  BY DEF Lease
<1>2. /\ lock'.held = TRUE /\ lock'.task = t /\ lock'.by = r /\ lock'.past = {}
  BY <1>1
<1>3. lock'.live = TRUE
  BY <1>1
<1> QED
  BY <1>2, <1>3 DEF Owns, Holds

(* A renewal keeps the lock with its owner. *)
LEMMA RenewalKept ==
    ASSUME ~Stalls, NEW r, NEW t, Holds(t, r), Lease(t, r)
    PROVE  LockKept
<1>1. Owns(r, t)'
  BY LeaseIsOwned
<1> QED
  BY <1>1 DEF LockKept, Owns, Holds

(* A release takes the lock only from the runner that gives it up. *)
LEMMA ReleaseKept ==
    ASSUME NEW r, NEW t, ReleaseLock(t, r), ~Guards(r, t)
    PROVE  LockKept
BY DEF ReleaseLock, LockKept, Owns, Holds

(* A step that starts no handler and takes no runner to a new claim. *)
LEMMA FreshKept ==
    ASSUME HandlerInv, ran' = ran,
           \A q \in Runners : run'[q].pc \in Claiming =>
              run[q].pc \in Claiming /\ run'[q].task = run[q].task
    PROVE  FreshInv'
BY DEF HandlerInv, FreshInv

(* A step that starts and ends no handler. *)
LEMMA StartedKept ==
    ASSUME HandlerInv, ran' = ran, exec' = exec
    PROVE  StartedInv'
BY DEF HandlerInv, StartedInv

(* A runner that enters a part of its pass needs no lock. *)
LEMMA EnterNoneComes ==
    ASSUME IInv, NEW r \in Runners, NEW part \in Parts, Enter(r, part),
           exec' = exec, up' = up
    PROVE  /\ NoneComes
           /\ \A q \in Runners : run'[q].pc \in Claiming =>
                 run[q].pc \in Claiming /\ run'[q].task = run[q].task
<1>1. run'[r].pc = part /\ \A q \in Runners \ {r} : run'[q] = run[q]
  BY EnterParts DEF IInv, TypeOK
<1>2. up \subseteq Runners
  BY DEF IInv, TypeOK
<1>3. part \notin Claiming /\ part \notin {"mark", "claim", "reload"}
  BY DEF Parts, Claiming
<1> QED
  BY <1>1, <1>2, <1>3 DEF NoneComes, Guards

(* Neither does one that goes on, unless it goes to where the lock counts. *)
LEMMA GotoNoneComes ==
    ASSUME IInv, NEW r \in Runners, NEW label \in Labels, Goto(r, label),
           exec' = exec, up' = up,
           label \in {"mark", "claim", "reload"} => run[r].pc \in {"mark", "claim", "reload"},
           label \in Claiming => run[r].pc \in Claiming
    PROVE  /\ NoneComes
           /\ \A q \in Runners : run'[q].pc \in Claiming =>
                 run[q].pc \in Claiming /\ run'[q].task = run[q].task
<1>1. Moves(r, label)
  BY GotoMoves DEF IInv, TypeOK
<1>2. up \subseteq Runners
  BY DEF IInv, TypeOK
<1> QED
  BY <1>1, <1>2 DEF NoneComes, Guards, Moves

(* The three parts, for a step of the loop that takes no lock. *)
LEMMA EnterHandler ==
    ASSUME IInv, HandlerInv, NEW r \in Runners, NEW part \in Parts, Enter(r, part),
           exec' = exec, up' = up, ran' = ran, LockKept
    PROVE  HandlerInv'
BY EnterNoneComes, LeaseKept, FreshKept, StartedKept DEF HandlerInv

(* A step within a pass that does not take the runner to a lock. *)
LEMMA GotoHandler ==
    ASSUME IInv, HandlerInv, NEW r \in Runners, NEW label \in Labels, Goto(r, label),
           label \in {"mark", "claim", "reload"} => run[r].pc \in {"mark", "claim", "reload"},
           label \in Claiming => run[r].pc \in Claiming,
           exec' = exec, up' = up, ran' = ran, LockKept
    PROVE  HandlerInv'
BY GotoNoneComes, LeaseKept, FreshKept, StartedKept DEF HandlerInv

(* Nothing but the lock and the rows changes. *)
LEMMA StayHandler ==
    ASSUME HandlerInv, run' = run, exec' = exec, up' = up, ran' = ran, LockKept
    PROVE  HandlerInv'
<1>1. NoneComes
  BY DEF NoneComes, Guards
<1> QED
  BY <1>1, LeaseKept, FreshKept, StartedKept DEF HandlerInv

(* ExpireStaleSystemTaskLocks reads the stale lock, fails its task and     *)
(* deletes it; a lock that is owned is not past for anyone.                *)
LEMMA SweepHandler ==
    ASSUME IInv, HandlerInv, NEW r \in Runners, Sweep(r), up' = up
    PROVE  HandlerInv'
<1>1. LockKept /\ exec' = exec /\ ran' = ran
  BY ReadClockKept DEF Sweep
<1>2. CASE Enter(r, "schedule")
  BY <1>1, <1>2, EnterHandler DEF Parts
<1>3. CASE run' = [run EXCEPT ![r].pc = "sweepMark", ![r].expired = lock.task,
                              ![r].by = lock.by]
  <2>1. run \in [Runners -> LoopState] /\ up \subseteq Runners
    BY DEF IInv, TypeOK
  <2>2. run'[r].pc = "sweepMark" /\ \A q \in Runners \ {r} : run'[q] = run[q]
    BY <1>3, <2>1 DEF LoopState
  <2>3. NoneComes
    BY <1>1, <2>1, <2>2 DEF NoneComes, Guards
  <2>4. \A q \in Runners : run'[q].pc \in Claiming =>
           run[q].pc \in Claiming /\ run'[q].task = run[q].task
    BY <2>2 DEF Claiming
  <2> QED
    BY <1>1, <2>3, <2>4, LeaseKept, FreshKept, StartedKept DEF HandlerInv
<1> QED
  BY <1>2, <1>3 DEF Sweep

(* SweepMark fails the task of a stale lock only. *)
LEMMA SweepMarkHandler ==
    ASSUME IInv, HandlerInv, NEW r \in Runners, SweepMark(r), up' = up
    PROVE  HandlerInv'
<1>1. LockKept /\ exec' = exec /\ ran' = ran
  BY SameLockKept DEF SweepMark
<1>2. CASE Enter(r, "schedule")
  BY <1>1, <1>2, EnterHandler DEF Parts
<1>3. CASE Goto(r, "sweepDelete")
  BY <1>1, <1>3, GotoHandler DEF Labels, Claiming
<1> QED
  BY <1>2, <1>3 DEF SweepMark

(* SweepDelete removes a stale lock only. *)
LEMMA SweepDeleteHandler ==
    ASSUME IInv, HandlerInv, NEW r \in Runners, SweepDelete(r), up' = up
    PROVE  HandlerInv'
<1>1. Enter(r, "schedule") /\ exec' = exec /\ ran' = ran
  BY DEF SweepDelete
<1>2. r \in lock.past \/ lock' = lock
  BY DEF SweepDelete
<1>3. LockKept
  BY <1>2, SameLockKept DEF LockKept, Owns
<1> QED
  BY <1>1, <1>3, EnterHandler DEF Parts

(* The start of a pass and the scheduler leave the lock alone. *)
LEMMA StartPassHandler ==
    ASSUME IInv, HandlerInv, NEW r \in Runners, NEW part \in Parts, StartPass(r, part),
           up' = up
    PROVE  HandlerInv'
BY SameLockKept, EnterHandler DEF StartPass

(* Schedule touches no lock. *)
LEMMA ScheduleHandler ==
    ASSUME IInv, HandlerInv, NEW r \in Runners, Schedule(r), up' = up
    PROVE  HandlerInv'
BY SameLockKept, EnterHandler DEF Schedule, Parts

(* A task found pending has not been started by anyone. *)
LEMMA FindHandler ==
    ASSUME IInv, HandlerInv, NEW r \in Runners, Find(r), up' = up
    PROVE  HandlerInv'
<1>1. LockKept /\ exec' = exec /\ ran' = ran
  BY ReadClockKept DEF Find
<1>2. CASE Enter(r, "idle")
  BY <1>1, <1>2, EnterHandler DEF Parts
<1>3. CASE ~Enter(r, "idle")
  <2> DEFINE found == CHOOSE t \in Pending : \A u \in Pending : t <= u
  <2>1. run \in [Runners -> LoopState] /\ up \subseteq Runners
    BY DEF IInv, TypeOK
  <2>2. run' = [run EXCEPT ![r].pc = "create", ![r].task = found] /\ Pending # {}
    BY <1>3 DEF Find
  <2>3. found \in Pending
    BY <2>2, EarliestExists
  <2> HIDE DEF found
  <2>4. /\ run'[r].pc = "create" /\ run'[r].task = found
        /\ \A q \in Runners \ {r} : run'[q] = run[q]
    BY <2>1, <2>2 DEF LoopState
  <2>5. NoneComes
    BY <1>1, <2>1, <2>4 DEF NoneComes, Guards
  <2>6. found \in Tasks /\ ran[found] = {}
    BY <2>3 DEF IInv, ClaimInv, Pending, Unclaimed
  <2>7. FreshInv'
    BY <1>1, <2>4, <2>6 DEF FreshInv, HandlerInv
  <2> QED
    BY <1>1, <2>5, <2>7, LeaseKept, StartedKept DEF HandlerInv
<1> QED
  BY <1>2, <1>3

(* Where nobody owns the lock, its new owner is alone in needing it. *)
LEMMA TakesLock ==
    ASSUME IInv, HandlerInv, ~Stalls, NEW r \in Runners, NEW label \in {"mark", "claim"},
           Lease(run[r].task, r), Goto(r, label), run[r].pc \in Claiming,
           \A q \in up, t \in Tasks : ~Owns(q, t),
           exec' = exec, up' = up, ran' = ran
    PROVE  HandlerInv'
<1>1. Moves(r, label)
  BY GotoMoves DEF IInv, TypeOK, Labels
<1>2. Owns(r, run[r].task)'
  <2>1. Lease(run'[r].task, r)
    BY <1>1 DEF Moves, Lease
  <2>2. lock' = [held |-> TRUE, task |-> run'[r].task, by |-> r,
                 live |-> ({} = {}), past |-> {}]
    BY <2>1 DEF Lease
  <2>3. lock'.held = TRUE /\ lock'.task = run'[r].task /\ lock'.by = r /\ lock'.past = {}
    BY <2>2
  <2>4. lock'.live = TRUE
    BY <2>2
  <2> QED
    BY <2>3, <2>4 DEF Owns, Holds
<1>3. LeaseInv'
  <2> SUFFICES ASSUME NEW q \in up, NEW t \in Tasks, Guards(q, t)' PROVE Owns(q, t)'
    BY DEF LeaseInv
  <2>1. ~Guards(q, t)
    BY DEF HandlerInv, LeaseInv
  <2>2. q \in Runners
    BY DEF IInv, TypeOK
  <2>3. q = r /\ t = run'[r].task
    BY <1>1, <2>1, <2>2 DEF Guards, Moves
  <2> QED
    BY <1>2, <2>3
<1>4. FreshInv'
  BY <1>1, FreshKept DEF Moves
<1> QED
  BY <1>3, <1>4, StartedKept DEF HandlerInv

(* CreateLock gives a lock that nobody had. *)
LEMMA CreateLockHandler ==
    ASSUME IInv, HandlerInv, ~Stalls, NEW r \in Runners, CreateLock(r), up' = up
    PROVE  HandlerInv'
<1>1. exec' = exec /\ ran' = ran /\ run[r].pc = "create"
  BY DEF CreateLock
<1>2. CASE ~lock.held /\ Lease(run[r].task, r) /\ Goto(r, "claim")
  <2>1. \A q \in up, t \in Tasks : ~Owns(q, t)
    BY <1>2 DEF Owns, Holds
  <2> QED
    BY <1>1, <1>2, <2>1, TakesLock DEF Claiming
<1>3. CASE lock' = lock /\ Goto(r, "inspect")
  BY <1>1, <1>3, SameLockKept, GotoHandler DEF Labels, Claiming
<1> QED
  BY <1>2, <1>3 DEF CreateLock

(* InspectLock only reads. *)
LEMMA InspectLockHandler ==
    ASSUME IInv, HandlerInv, NEW r \in Runners, InspectLock(r), up' = up
    PROVE  HandlerInv'
<1>1. LockKept /\ exec' = exec /\ ran' = ran /\ run[r].pc = "inspect"
  BY SameLockKept DEF InspectLock
<1>2. CASE Enter(r, "idle")
  BY <1>1, <1>2, EnterHandler DEF Parts
<1>3. CASE run' = [run EXCEPT ![r].pc = "takeOver", ![r].expired = lock.task]
  <2>1. run \in [Runners -> LoopState] /\ up \subseteq Runners
    BY DEF IInv, TypeOK
  <2>2. /\ run'[r].pc = "takeOver" /\ run'[r].task = run[r].task
        /\ \A q \in Runners \ {r} : run'[q] = run[q]
    BY <1>3, <2>1 DEF LoopState
  <2>3. NoneComes
    BY <1>1, <2>1, <2>2 DEF NoneComes, Guards
  <2>4. \A q \in Runners : run'[q].pc \in Claiming =>
           run[q].pc \in Claiming /\ run'[q].task = run[q].task
    BY <1>1, <2>2 DEF Claiming
  <2> QED
    BY <1>1, <2>3, <2>4, LeaseKept, FreshKept, StartedKept DEF HandlerInv
<1> QED
  BY <1>2, <1>3 DEF InspectLock

(* A lock that is past for the runner is owned by nobody. *)
LEMMA TakeOverLockHandler ==
    ASSUME IInv, HandlerInv, ~Stalls, NEW r \in Runners, TakeOverLock(r), up' = up
    PROVE  HandlerInv'
<1>1. exec' = exec /\ ran' = ran /\ run[r].pc = "takeOver"
  BY DEF TakeOverLock
<1>2. CASE lock' = lock /\ Enter(r, "idle")
  BY <1>1, <1>2, SameLockKept, EnterHandler DEF Parts
<1>3. CASE /\ r \in lock.past /\ Lease(run[r].task, r)
           /\ Goto(r, "mark") \/ Goto(r, "claim")
  <2>1. \A q \in up, t \in Tasks : ~Owns(q, t)
    BY <1>3 DEF Owns
  <2> QED
    BY <1>1, <1>3, <2>1, TakesLock DEF Claiming
<1> QED
  BY <1>2, <1>3 DEF TakeOverLock

(* MarkTakenOver goes on with the lock that was taken over. *)
LEMMA MarkTakenOverHandler ==
    ASSUME IInv, HandlerInv, NEW r \in Runners, MarkTakenOver(r), up' = up
    PROVE  HandlerInv'
<1>1. LockKept /\ exec' = exec /\ ran' = ran /\ run[r].pc = "mark"
  BY SameLockKept DEF MarkTakenOver
<1>2. Goto(r, "claim") \/ Goto(r, "release")
  BY DEF MarkTakenOver
<1> QED
  BY <1>1, <1>2, GotoHandler DEF Labels, Claiming

(* Claim goes on with the lock of the task it claims. *)
LEMMA ClaimHandler ==
    ASSUME IInv, HandlerInv, NEW r \in Runners, Claim(r), up' = up
    PROVE  HandlerInv'
<1>1. LockKept /\ exec' = exec /\ ran' = ran /\ run[r].pc = "claim"
  BY SameLockKept DEF Claim
<1>2. Goto(r, "reload") \/ Goto(r, "release")
  BY DEF Claim
<1> QED
  BY <1>1, <1>2, GotoHandler DEF Labels, Claiming

(* A runner that gives up a claim has no handler for the task. *)
LEMMA ReleaseHandler ==
    ASSUME IInv, HandlerInv, NEW r \in Runners, Release(r), up' = up
    PROVE  HandlerInv'
<1>1. Enter(r, "idle") /\ exec' = exec /\ ran' = ran /\ run[r].pc = "release"
  BY DEF Release
<1>2. run[r].task \in Tasks /\ r \notin ran[run[r].task]
  BY <1>1 DEF IInv, ClaimInv, HandlerInv, FreshInv, Claiming
<1>3. ~Guards(r, run[r].task)
  BY <1>1, <1>2 DEF Guards, HandlerInv, StartedInv
<1>4. LockKept
  BY <1>3, ReleaseKept, SameLockKept DEF Release
<1> QED
  BY <1>1, <1>4, EnterHandler DEF Parts

(* The handler starts with the lock that its claim was made with. *)
LEMMA DispatchHandler ==
    ASSUME IInv, HandlerInv, NEW r \in Runners, Dispatch(r), up' = up
    PROVE  HandlerInv'
<1>1. Enter(r, "idle") /\ lock' = lock /\ run[r].pc = "reload"
  BY DEF Dispatch
<1>2. LockKept
  BY <1>1, SameLockKept
<1>3. CASE exec' = exec /\ ran' = ran
  BY <1>1, <1>2, <1>3, EnterHandler DEF Parts
<1>4. CASE /\ exec' = [exec EXCEPT ![r][run[r].task] = "working"]
           /\ ran' = [ran EXCEPT ![run[r].task] = @ \cup {r}]
  <2>1. /\ run[r].task \in Tasks /\ up \subseteq Runners
        /\ exec \in [Runners -> [Tasks -> ExecState]] /\ ran \in [Tasks -> SUBSET Runners]
    BY <1>1 DEF IInv, TypeOK, ClaimInv, Claiming
  <2>2. /\ exec'[r][run[r].task] = "working"
        /\ \A q \in Runners, t \in Tasks :
              <<q, t>> # <<r, run[r].task>> => exec'[q][t] = exec[q][t]
    BY <1>4, <2>1
  <2>3. /\ ran'[run[r].task] = ran[run[r].task] \cup {r}
        /\ \A t \in Tasks \ {run[r].task} : ran'[t] = ran[t]
    BY <1>4, <2>1
  <2>4. run'[r].pc = "idle" /\ \A q \in Runners \ {r} : run'[q] = run[q]
    BY <1>1, EnterParts DEF IInv, TypeOK, Parts
  <2>5. Guards(r, run[r].task)
    BY <1>1 DEF Guards
  <2>6. NoneComes
    <3> SUFFICES ASSUME NEW q \in up, NEW t \in Tasks, Guards(q, t)' PROVE Guards(q, t)
      BY DEF NoneComes
    <3>1. CASE q = r /\ t = run[r].task
      BY <2>5, <3>1
    <3>2. CASE ~(q = r /\ t = run[r].task)
      BY <2>1, <2>2, <2>4, <3>2 DEF Guards
    <3> QED
      BY <3>1, <3>2
  <2>7. StartedInv'
    BY <2>1, <2>2, <2>3 DEF HandlerInv, StartedInv
  <2>8. FreshInv'
    <3> SUFFICES ASSUME NEW q \in Runners, run'[q].pc \in Claiming
                 PROVE  q \notin ran'[run'[q].task]
      BY DEF FreshInv
    <3>1. q # r
      BY <2>4 DEF Claiming
    <3>2. run[q].pc \in Claiming /\ run'[q].task = run[q].task
      BY <2>4, <3>1
    <3>3. run[q].task \in Tasks /\ q \notin ran[run[q].task]
      BY <3>2 DEF IInv, ClaimInv, HandlerInv, FreshInv
    <3> QED
      BY <2>3, <3>1, <3>2, <3>3
  <2> QED
    BY <1>2, <2>6, <2>7, <2>8, LeaseKept DEF HandlerInv
<1> QED
  BY <1>3, <1>4 DEF Dispatch

(* A handler that moves on, is cancelled or returns comes to need nothing. *)
LEMMA HandlerMoves ==
    ASSUME IInv, HandlerInv, NEW r \in Runners, NEW t \in Tasks,
           NEW state \in ExecState \ {"working", "none"},
           exec[r][t] # "none", exec' = [exec EXCEPT ![r][t] = state],
           run' = run, ran' = ran, up' = up, LockKept
    PROVE  HandlerInv'
<1>1. exec \in [Runners -> [Tasks -> ExecState]] /\ up \subseteq Runners
  BY DEF IInv, TypeOK
<1>2. /\ exec'[r][t] = state
      /\ \A q \in Runners, u \in Tasks : <<q, u>> # <<r, t>> => exec'[q][u] = exec[q][u]
  BY <1>1
<1>3. NoneComes
  <2> SUFFICES ASSUME NEW q \in up, NEW u \in Tasks, Guards(q, u)' PROVE Guards(q, u)
    BY DEF NoneComes
  <2>1. q \in Runners
    BY <1>1
  <2>2. exec'[q][u] = "working" => exec[q][u] = "working"
    BY <1>2, <2>1
  <2> QED
    BY <2>2 DEF Guards
<1>4. StartedInv'
  BY <1>2 DEF HandlerInv, StartedInv
<1> QED
  BY <1>3, <1>4, LeaseKept, FreshKept DEF HandlerInv

(* A heartbeat renews the lock of its own task. *)
LEMMA HeartbeatHandler ==
    ASSUME IInv, HandlerInv, ~Stalls, NEW r \in Runners, NEW t \in Tasks, Heartbeat(r, t),
           up' = up
    PROVE  HandlerInv'
<1>1. run' = run /\ ran' = ran /\ exec[r][t] # "none"
  BY DEF Heartbeat
<1>2. CASE LeaseValid(t, r) /\ Lease(t, r) /\ exec' = exec
  <2>1. LockKept
    BY <1>2, RenewalKept DEF LeaseValid
  <2> QED
    BY <1>1, <1>2, <2>1, StayHandler
<1>3. CASE lock' = lock /\ exec' = [exec EXCEPT ![r][t] = "cancelled"]
  BY <1>1, <1>3, SameLockKept, HandlerMoves DEF ExecState
<1> QED
  BY <1>2, <1>3 DEF Heartbeat

(* Finish ends the work under the lock. *)
LEMMA FinishHandler ==
    ASSUME IInv, HandlerInv, NEW r \in Runners, NEW t \in Tasks, Finish(r, t), up' = up
    PROVE  HandlerInv'
<1>1. run' = run /\ ran' = ran /\ exec[r][t] # "none" /\ LockKept
  BY SameLockKept DEF Finish
<1>2. CASE exec' = [exec EXCEPT ![r][t] = "finished"]
  BY <1>1, <1>2, HandlerMoves DEF ExecState
<1>3. CASE exec' = [exec EXCEPT ![r][t] = "done"]
  BY <1>1, <1>3, HandlerMoves DEF ExecState
<1> QED
  BY <1>2, <1>3 DEF Finish

(* The lock that FinishSystemTask gives back is not one that its runner    *)
(* has taken for another claim: the runner never claims a task twice.      *)
LEMMA FinishReleaseHandler ==
    ASSUME IInv, HandlerInv, NEW r \in Runners, NEW t \in Tasks, FinishRelease(r, t),
           up' = up
    PROVE  HandlerInv'
<1>1. run' = run /\ ran' = ran /\ exec[r][t] = "finished"
      /\ exec' = [exec EXCEPT ![r][t] = "done"]
  BY DEF FinishRelease
<1>2. r \in ran[t]
  BY <1>1 DEF HandlerInv, StartedInv
<1>3. ~Guards(r, t)
  BY <1>1, <1>2 DEF Guards, HandlerInv, FreshInv, Claiming
<1>4. LockKept
  BY <1>3, ReleaseKept, SameLockKept DEF FinishRelease
<1> QED
  BY <1>1, <1>4, HandlerMoves DEF ExecState

(* A handler that stops needs no lock any more. *)
LEMMA HandlerStopsHandler ==
    ASSUME IInv, HandlerInv, NEW r \in Runners, NEW t \in Tasks, HandlerStops(r, t),
           up' = up
    PROVE  HandlerInv'
BY SameLockKept, HandlerMoves DEF HandlerStops, ExecState

(* Without stalls a lease does not run out under a runner that needs it. *)
LEMMA LeaseRunsOutHandler ==
    ASSUME IInv, HandlerInv, ~Stalls, LeaseRunsOut
    PROVE  HandlerInv'
<1>1. /\ run' = run /\ exec' = exec /\ ran' = ran /\ up' = up /\ ~HolderBusy
  BY DEF LeaseRunsOut
<1>2. \A r \in up, t \in Tasks : ~(Guards(r, t) /\ Owns(r, t))
  BY <1>1 DEF HolderBusy, Guards, Owns, Holds
<1>3. LockKept
  BY <1>2 DEF LockKept
<1> QED
  BY <1>1, <1>3, StayHandler

(* Enqueue adds a task that nobody works on. *)
LEMMA EnqueueHandler ==
    ASSUME IInv, HandlerInv, Enqueue
    PROVE  HandlerInv'
BY SameLockKept, StayHandler DEF Enqueue

(* A crash takes a runner away, its lock stays. *)
LEMMA CrashHandler ==
    ASSUME IInv, HandlerInv, NEW r \in Runners, Crash(r)
    PROVE  HandlerInv'
<1>1. Enter(r, "idle") /\ lock' = lock /\ ran' = ran /\ up' = up \ {r}
      /\ exec' = [exec EXCEPT ![r] = [t \in Tasks |-> "none"]]
  BY DEF Crash
<1>2. exec \in [Runners -> [Tasks -> ExecState]] /\ up \subseteq Runners
  BY DEF IInv, TypeOK
<1>3. /\ \A t \in Tasks : exec'[r][t] = "none"
      /\ \A q \in Runners \ {r} : exec'[q] = exec[q]
  BY <1>1, <1>2
<1>4. run'[r].pc = "idle" /\ \A q \in Runners \ {r} : run'[q] = run[q]
  BY <1>1, EnterParts DEF IInv, TypeOK, Parts
<1>5. NoneComes
  BY <1>1, <1>2, <1>3, <1>4 DEF NoneComes, Guards
<1>6. StartedInv'
  BY <1>1, <1>3 DEF HandlerInv, StartedInv
<1>7. FreshInv'
  BY <1>1, <1>4, FreshKept DEF Claiming
<1> QED
  BY <1>1, <1>5, <1>6, <1>7, SameLockKept, LeaseKept DEF HandlerInv

(* While no process stalls for longer than systemTaskLockTTL, the lock     *)
(* excludes: at most one handler with a valid context runs, whatever       *)
(* runners crash and statements fail, for any number of runners.           *)
THEOREM LockExcludes == ~Stalls => (Spec => []OneHandler)
<1> SUFFICES ASSUME ~Stalls PROVE Spec => []OneHandler
  OBVIOUS
<1>1. Init => HandlerInv
  <2> SUFFICES ASSUME Init PROVE HandlerInv
    OBVIOUS
  <2>1. \A r \in Runners : run[r].pc = "idle"
    BY DEF Init, At
  <2>2. \A r \in Runners, t \in Tasks : exec[r][t] = "none"
    BY DEF Init
  <2>3. up = Runners
    BY DEF Init
  <2> QED
    BY <2>1, <2>2, <2>3 DEF HandlerInv, LeaseInv, Guards, FreshInv, StartedInv, Claiming
<1>2. IInv /\ HandlerInv /\ [Next]_vars => HandlerInv'
  <2> SUFFICES ASSUME IInv, HandlerInv, [Next]_vars PROVE HandlerInv'
    OBVIOUS
  <2>1. CASE UNCHANGED vars
    BY <2>1, SameLockKept, StayHandler DEF vars
  <2>2. ASSUME NEW r \in Runners, Alive(r), Loop(r)
        PROVE  HandlerInv'
    <3>1. up' = up
      BY <2>2 DEF Alive
    <3> QED
      BY <2>2, <3>1, StartPassHandler, SweepHandler, SweepMarkHandler, SweepDeleteHandler,
         ScheduleHandler, FindHandler, CreateLockHandler, InspectLockHandler,
         TakeOverLockHandler, MarkTakenOverHandler, ClaimHandler, ReleaseHandler,
         DispatchHandler DEF Loop, Parts
  <2>3. ASSUME NEW r \in Runners, NEW t \in Tasks, Alive(r),
               Heartbeat(r, t) \/ Returns(r, t)
        PROVE  HandlerInv'
    <3>1. up' = up
      BY <2>3 DEF Alive
    <3> QED
      BY <2>3, <3>1, HeartbeatHandler, FinishHandler, FinishReleaseHandler,
         HandlerStopsHandler DEF Returns
  <2>4. CASE Enqueue \/ LeaseRunsOut \/ \E r \in Runners : Crash(r)
    BY <2>4, EnqueueHandler, LeaseRunsOutHandler, CrashHandler
  <2> QED
    BY <2>1, <2>2, <2>3, <2>4 DEF Next
<1>3. IInv /\ HandlerInv => OneHandler
  BY DEF OneHandler, HandlerInv, LeaseInv, Guards, Owns, Holds
<1> QED
  BY <1>1, <1>2, <1>3, Inductive, PTL DEF Spec
=============================================================================
