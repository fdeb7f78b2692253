----------------------------- MODULE SystemTask -----------------------------
(***************************************************************************)
(* System tasks of one type and the lease that lets one runner at a time   *)
(* execute them: model/system_task.go and service/system_task.go.          *)
(*                                                                         *)
(* Every master node has a runner.  A pass of a runner expires stale       *)
(* leases, schedules a task and tries to claim the earliest pending one;   *)
(* a claimed task runs in a goroutine of its own, beside a heartbeat that  *)
(* renews the lease.  Each database statement is one step.  A runner may   *)
(* crash anywhere; a node that restarts has a new runner id, so it is      *)
(* another runner.  Types do not share rows, so one type is modelled.      *)
(*                                                                         *)
(* Time is abstract.  lock.live says that locked_until is not past.  A     *)
(* statement compares locked_until with a time taken earlier, so           *)
(* lock.past is the set of runners whose clock, when they read it, was     *)
(* already past locked_until of the row as it stands.                      *)
(***************************************************************************)
EXTENDS Naturals, FiniteSets

CONSTANTS
    Runners,     \* runner ids
    NoRunner,    \* the empty locked_by
    MaxTasks,    \* bound: task rows created in a behaviour
    MaxCrashes,  \* bound: runners that crash
    MaxFaults,   \* bound: database statements that fail
    Stalls       \* a process may stall for longer than systemTaskLockTTL

ASSUME BoundAssumption ==
    /\ MaxTasks \in Nat /\ MaxCrashes \in Nat /\ MaxFaults \in Nat
    /\ Stalls \in BOOLEAN /\ NoRunner \notin Runners

Tasks == 1..MaxTasks

VARIABLES
    task,   \* the rows of system_tasks: status, active_key, locked_by
    lock,   \* the row of system_task_locks for this type
    run,    \* the runner's loop: its position and its local variables
    exec,   \* the goroutine that executes a task for a runner
    ran,    \* history: the runners that started to execute each task
    up,     \* the runners that have not crashed
    faults  \* statements that failed so far

vars == <<task, lock, run, exec, ran, up, faults>>

Terminal == {"succeeded", "failed"}

NoLock == [held |-> FALSE, task |-> 0, by |-> NoRunner, live |-> FALSE, past |-> {}]

(* The runner is between two of its parts and holds no local variables *)
At(part) == [pc |-> part, task |-> 0, expired |-> 0, by |-> NoRunner]

Init ==
    /\ task = [t \in Tasks |-> [status |-> "none", active |-> FALSE, by |-> NoRunner]]
    /\ lock = NoLock
    /\ run = [r \in Runners |-> At("idle")]
    /\ exec = [r \in Runners |-> [t \in Tasks |-> "none"]]
    /\ ran = [t \in Tasks |-> {}]
    /\ up = Runners /\ faults = 0

DbOk == UNCHANGED faults
DbFault == faults < MaxFaults /\ faults' = faults + 1

Goto(r, label) == run' = [run EXCEPT ![r].pc = label]
Enter(r, part) == run' = [run EXCEPT ![r] = At(part)]

(* The row is written with locked_until = now + systemTaskLockTTL, where   *)
(* the time was taken before the statement: it is ahead of every clock, or *)
(* after a stall may be behind the clocks the others have read.            *)
Lease(t, r) ==
    \E past \in IF Stalls THEN SUBSET (Runners \ {r}) ELSE {{}} :
        lock' = [held |-> TRUE, task |-> t, by |-> r, live |-> (past = {}), past |-> past]

Holds(t, r) == lock.held /\ lock.task = t /\ lock.by = r

(* ReleaseSystemTaskLock *)
ReleaseLock(t, r) == lock' = IF Holds(t, r) THEN NoLock ELSE lock

(* The runner reads the clock: afterwards it compares with this time *)
ReadClock(r) ==
    lock' = [lock EXCEPT !.past = IF lock.held /\ ~lock.live
                                  THEN @ \cup {r} ELSE @ \ {r}]

-----------------------------------------------------------------------------
(* Creation.  The unique index on active_key admits one active task.       *)

Active(t) == task[t].active

CreateSystemTask(t) ==
    /\ task[t].status = "none" /\ \A u \in 1..(t - 1) : task[u].status # "none"
    /\ \A u \in Tasks : ~Active(u)
    /\ task' = [task EXCEPT ![t] = [status |-> "pending", active |-> TRUE, by |-> NoRunner]]

(* EnqueueSystemTask or StartLogCleanupTask, called by an API handler: an  *)
(* existing active task is returned instead, and nothing changes.          *)
Enqueue ==
    /\ \E t \in Tasks : CreateSystemTask(t)
    /\ UNCHANGED <<lock, run, exec, ran, up, faults>>

-----------------------------------------------------------------------------
(* A pass of the runner: stale leases, scheduler, claim.                   *)

(* runPass.  Stale leases and scheduler are throttled, so a pass may start *)
(* at any of its three parts.                                              *)
StartPass(r, part) ==
    /\ run[r].pc = "idle" /\ Enter(r, part)
    /\ UNCHANGED <<task, lock, exec, ran, faults>>

(* ExpireStaleSystemTaskLocks: the stale locks are read first *)
Sweep(r) ==
    /\ run[r].pc = "sweep"
    /\ ReadClock(r)
    /\ \/ /\ lock.held /\ ~lock.live /\ DbOk
          /\ run' = [run EXCEPT ![r].pc = "sweepMark", ![r].expired = lock.task,
                                ![r].by = lock.by]
       \/ ~(lock.held /\ ~lock.live) /\ DbOk /\ Enter(r, "schedule")
       \/ DbFault /\ Enter(r, "schedule")
    /\ UNCHANGED <<task, exec, ran>>

(* Faulty variant: the status is not compared *)
LeaseExpiredUnguarded(t) ==
    task' = IF t \in Tasks
            THEN [task EXCEPT ![t].status = "failed", ![t].active = FALSE] ELSE task

(* MarkSystemTaskLeaseExpired *)
MarkLeaseExpired(t) ==
    task' = IF t \in Tasks /\ task[t].status = "running"
            THEN [task EXCEPT ![t].status = "failed", ![t].active = FALSE] ELSE task

(* Faulty variant: the stale lock is deleted, its task is not failed *)
SweepMarkForgotten(r) ==
    /\ run[r].pc = "sweepMark" /\ Goto(r, "sweepDelete")
    /\ UNCHANGED <<task, lock, exec, ran, faults>>

SweepMark(r) ==
    /\ run[r].pc = "sweepMark"
    /\ \/ DbOk /\ MarkLeaseExpired(run[r].expired) /\ Goto(r, "sweepDelete")
       \/ DbFault /\ UNCHANGED task /\ Enter(r, "schedule")
    /\ UNCHANGED <<lock, exec, ran>>

(* The lock is deleted only if it is still the row that was read *)
SweepDelete(r) ==
    /\ run[r].pc = "sweepDelete"
    /\ \/ /\ DbOk
          /\ lock' = IF Holds(run[r].expired, run[r].by) /\ r \in lock.past
                     THEN NoLock ELSE lock
       \/ DbFault /\ UNCHANGED lock
    /\ Enter(r, "schedule")
    /\ UNCHANGED <<task, exec, ran>>

(* runSystemTaskScheduler: creates a task when it is due and none is active *)
Schedule(r) ==
    /\ run[r].pc = "schedule" /\ Enter(r, "find")
    /\ (\E t \in Tasks : CreateSystemTask(t)) \/ UNCHANGED task
    /\ UNCHANGED <<lock, exec, ran, faults>>

Pending == {t \in Tasks : task[t].status = "pending"}

(* FindEarliestPendingSystemTasks, and the read that opens ClaimSystemTask *)
Find(r) ==
    /\ run[r].pc = "find" /\ ReadClock(r)
    /\ \/ /\ Pending # {} /\ DbOk
          /\ run' = [run EXCEPT ![r].pc = "create",
               ![r].task = CHOOSE t \in Pending : \A u \in Pending : t <= u]
       \/ Pending = {} /\ DbOk /\ Enter(r, "idle")
       \/ DbFault /\ Enter(r, "idle")
    /\ UNCHANGED <<task, exec, ran>>

(* Faulty variant: a lock that exists is overwritten *)
CreateLockOver(r) ==
    /\ run[r].pc = "create" /\ DbOk /\ Lease(run[r].task, r) /\ Goto(r, "claim")
    /\ UNCHANGED <<task, exec, ran>>

(* acquireSystemTaskLock inserts the row; any error makes it look further *)
CreateLock(r) ==
    /\ run[r].pc = "create"
    /\ \/ ~lock.held /\ DbOk /\ Lease(run[r].task, r) /\ Goto(r, "claim")
       \/ lock.held /\ DbOk /\ UNCHANGED lock /\ Goto(r, "inspect")
       \/ DbFault /\ UNCHANGED lock /\ Goto(r, "inspect")
    /\ UNCHANGED <<task, exec, ran>>

(* The existing lock is read: it has to be past for this runner *)
InspectLock(r) ==
    /\ run[r].pc = "inspect"
    /\ \/ /\ lock.held /\ r \in lock.past /\ DbOk
          /\ run' = [run EXCEPT ![r].pc = "takeOver", ![r].expired = lock.task]
       \/ ~(lock.held /\ r \in lock.past) /\ DbOk /\ Enter(r, "idle")
       \/ DbFault /\ Enter(r, "idle")
    /\ UNCHANGED <<task, lock, exec, ran>>

(* The conditional update of the lock, WHERE locked_until < now *)
TakeOverLock(r) ==
    /\ run[r].pc = "takeOver"
    /\ \/ /\ lock.held /\ r \in lock.past /\ DbOk
          /\ Lease(run[r].task, r)
          /\ Goto(r, IF run[r].expired \notin {0, run[r].task}
                     THEN "mark" ELSE "claim")
       \/ /\ (~(lock.held /\ r \in lock.past) /\ DbOk) \/ DbFault
          /\ UNCHANGED lock /\ Enter(r, "idle")
    /\ UNCHANGED <<task, exec, ran>>

(* The task whose lock was taken over is failed *)
MarkTakenOver(r) ==
    /\ run[r].pc = "mark"
    /\ \/ DbOk /\ MarkLeaseExpired(run[r].expired) /\ Goto(r, "claim")
       \/ DbFault /\ UNCHANGED task /\ Goto(r, "release")
    /\ UNCHANGED <<lock, exec, ran>>

(* Faulty variant: the update admits every active task *)
ClaimActive(r) ==
    /\ run[r].pc = "claim" /\ DbOk
    /\ IF task[run[r].task].status \in {"pending", "running"}
       THEN /\ task' = [task EXCEPT ![run[r].task].status = "running",
                                    ![run[r].task].by = r]
            /\ Goto(r, "reload")
       ELSE UNCHANGED task /\ Goto(r, "release")
    /\ UNCHANGED <<lock, exec, ran>>

(* Faulty variant: the update also asks for locked_by, which is still empty *)
ClaimOwned(r) ==
    /\ run[r].pc = "claim" /\ DbOk
    /\ IF task[run[r].task].status = "pending" /\ task[run[r].task].by = r
       THEN /\ task' = [task EXCEPT ![run[r].task].status = "running"]
            /\ Goto(r, "reload")
       ELSE UNCHANGED task /\ Goto(r, "release")
    /\ UNCHANGED <<lock, exec, ran>>

(* pending becomes running, WHERE status = pending *)
Claim(r) ==
    /\ run[r].pc = "claim"
    /\ \/ /\ task[run[r].task].status = "pending" /\ DbOk
          /\ task' = [task EXCEPT ![run[r].task].status = "running",
                                  ![run[r].task].by = r]
          /\ Goto(r, "reload")
       \/ /\ (task[run[r].task].status # "pending" /\ DbOk) \/ DbFault
          /\ UNCHANGED task /\ Goto(r, "release")
    /\ UNCHANGED <<lock, exec, ran>>

Release(r) ==
    /\ run[r].pc = "release" /\ Enter(r, "idle")
    /\ \/ DbOk /\ ReleaseLock(run[r].task, r)
       \/ DbFault /\ UNCHANGED lock
    /\ UNCHANGED <<task, exec, ran>>

(* The claimed row is read again and the handler is dispatched *)
Dispatch(r) ==
    /\ run[r].pc = "reload" /\ Enter(r, "idle")
    /\ \/ /\ DbOk /\ exec' = [exec EXCEPT ![r][run[r].task] = "working"]
          /\ ran' = [ran EXCEPT ![run[r].task] = @ \cup {r}]
       \/ DbFault /\ UNCHANGED <<exec, ran>>
    /\ UNCHANGED <<task, lock>>

-----------------------------------------------------------------------------
(* The handler and its heartbeat (runWithLeaseHeartbeat).                  *)

(* WHERE locked_until >= now: a stalled process asks with an old time *)
LeaseValid(t, r) == Holds(t, r) /\ (lock.live \/ Stalls)
LeaseInvalid(t, r) == ~Holds(t, r) \/ ~lock.live

(* RenewSystemTaskLock, until the handler returns; an error cancels the    *)
(* handler's context and ends the heartbeat.                               *)
Heartbeat(r, t) ==
    /\ exec[r][t] \in {"working", "finished"}
    /\ \/ DbOk /\ LeaseValid(t, r) /\ Lease(t, r) /\ UNCHANGED exec
       \/ /\ exec[r][t] = "working"
          /\ (DbOk /\ LeaseInvalid(t, r)) \/ DbFault
          /\ UNCHANGED lock /\ exec' = [exec EXCEPT ![r][t] = "cancelled"]
    /\ UNCHANGED <<task, run, ran>>

(* The handler calls FinishSystemTask *)
Finish(r, t) ==
    /\ exec[r][t] \in {"working", "cancelled"}
    /\ \/ /\ DbOk /\ task[t].status = "running" /\ task[t].by = r
          /\ LeaseValid(t, r)
          /\ \E status \in Terminal :
                task' = [task EXCEPT ![t].status = status, ![t].active = FALSE]
          /\ exec' = [exec EXCEPT ![r][t] = "finished"]
       \/ /\ \/ DbFault
             \/ DbOk /\ (task[t].status # "running" \/ task[t].by # r
                         \/ LeaseInvalid(t, r))
          /\ UNCHANGED task /\ exec' = [exec EXCEPT ![r][t] = "done"]
    /\ UNCHANGED <<lock, run, ran>>

(* FinishSystemTask releases the lock *)
FinishRelease(r, t) ==
    /\ exec[r][t] = "finished"
    /\ \/ DbOk /\ ReleaseLock(t, r)
       \/ DbFault /\ UNCHANGED lock
    /\ exec' = [exec EXCEPT ![r][t] = "done"]
    /\ UNCHANGED <<task, run, ran>>

(* The handler panics, or returns because it could not save its state *)
HandlerStops(r, t) ==
    /\ exec[r][t] \in {"working", "cancelled"}
    /\ exec' = [exec EXCEPT ![r][t] = "done"]
    /\ UNCHANGED <<task, lock, run, ran, faults>>

-----------------------------------------------------------------------------
(* The environment.                                                        *)

(* The holder of the lock claims its task or executes it: its heartbeat    *)
(* renews the lease three times per systemTaskLockTTL.                     *)
HolderBusy ==
    /\ lock.by \in up
    /\ \/ run[lock.by].pc \in {"mark", "claim", "release", "reload"}
       \/ exec[lock.by][lock.task] \in {"working", "finished"}

(* Time passes locked_until.  Unless processes stall for longer than the   *)
(* lease, it does not while the holder is busy.                            *)
LeaseRunsOut ==
    /\ lock.held /\ lock.live
    /\ Stalls \/ ~HolderBusy
    /\ lock' = [lock EXCEPT !.live = FALSE]
    /\ UNCHANGED <<task, run, exec, ran, up, faults>>

Crash(r) ==
    /\ r \in up /\ Cardinality(Runners \ up) < MaxCrashes
    /\ up' = up \ {r}
    /\ Enter(r, "idle") /\ exec' = [exec EXCEPT ![r] = [t \in Tasks |-> "none"]]
    /\ UNCHANGED <<task, lock, ran, faults>>

-----------------------------------------------------------------------------
(* One step of the runner's loop.                                          *)
Loop(r) ==
    \/ \E part \in {"sweep", "schedule", "find"} : StartPass(r, part)
    \/ Sweep(r) \/ SweepMark(r) \/ SweepDelete(r)
    \/ Schedule(r) \/ Find(r) \/ CreateLock(r) \/ InspectLock(r)
    \/ TakeOverLock(r) \/ MarkTakenOver(r) \/ Claim(r) \/ Release(r)
    \/ Dispatch(r)

Returns(r, t) == Finish(r, t) \/ FinishRelease(r, t) \/ HandlerStops(r, t)

Alive(r) == r \in up /\ UNCHANGED up

Next ==
    \/ Enqueue \/ LeaseRunsOut
    \/ \E r \in Runners :
          \/ Alive(r) /\ Loop(r)
          \/ Alive(r) /\ \E t \in Tasks : Heartbeat(r, t) \/ Returns(r, t)
          \/ Crash(r)

(* A live runner passes again and again and sweeps in some of the passes   *)
(* (the tickers), a handler returns, and a lease nobody renews runs out.   *)
Fairness ==
    /\ \A r \in Runners :
          /\ WF_vars(Alive(r) /\ Loop(r))
          /\ SF_vars(Alive(r) /\ StartPass(r, "sweep"))
          /\ \A t \in Tasks : WF_vars(Alive(r) /\ Returns(r, t))
    /\ WF_vars(LeaseRunsOut)

Spec == Init /\ [][Next]_vars /\ Fairness

-----------------------------------------------------------------------------
(* Properties.                                                             *)

Holder == Runners \cup {NoRunner}
TaskRow == [status : {"none", "pending", "running"} \cup Terminal,
            active : BOOLEAN, by : Holder]
LockRow == [held : BOOLEAN, task : 0..MaxTasks, by : Holder,
            live : BOOLEAN, past : SUBSET Runners]
LoopState ==
    [pc : {"idle", "sweep", "sweepMark", "sweepDelete", "schedule", "find", "create",
           "inspect", "takeOver", "mark", "claim", "release", "reload"},
     task : 0..MaxTasks, expired : 0..MaxTasks, by : Holder]
ExecState == {"none", "working", "cancelled", "finished", "done"}

(* Every variable keeps its type. *)
TypeOK ==
    /\ task \in [Tasks -> TaskRow] /\ lock \in LockRow
    /\ run \in [Runners -> LoopState] /\ exec \in [Runners -> [Tasks -> ExecState]]
    /\ ran \in [Tasks -> SUBSET Runners]
    /\ up \in SUBSET Runners /\ faults \in 0..MaxFaults

(* No task is started by two runners, however the claims interleave with   *)
(* lost leases, take-overs and crashes: ClaimSystemTask changes a pending  *)
(* row only.                                                               *)
StartedOnce == \A t \in Tasks : Cardinality(ran[t]) <= 1

(* At most one task of the type is pending or running, and it alone holds  *)
(* active_key: creation is blocked exactly while a task is unfinished.     *)
OneActive ==
    /\ \A t, u \in Tasks : Active(t) /\ Active(u) => t = u
    /\ \A t \in Tasks : Active(t) <=> task[t].status \in {"pending", "running"}

(* The inductive invariant.  A runner that has claimed a task is the       *)
(* locked_by of its row, only that runner may have started it, and a row   *)
(* that is not claimed yet has not been started.  The runner's local task  *)
(* names a row from the claim pass on.                                     *)
Claiming == {"create", "inspect", "takeOver", "mark", "claim", "release", "reload"}
Unclaimed(t) == task[t].status \in {"none", "pending"}
ClaimInv ==
    /\ \A r \in Runners : run[r].pc \in Claiming => run[r].task \in Tasks
    /\ \A r \in Runners : run[r].pc = "reload" =>
          task[run[r].task].by = r /\ ~Unclaimed(run[r].task)
    /\ \A t \in Tasks : ran[t] \subseteq {task[t].by}
    /\ \A t \in Tasks : Unclaimed(t) => ran[t] = {}
IInv == TypeOK /\ OneActive /\ ClaimInv

(* While no process stalls for longer than the lease, the lock excludes:   *)
(* two handlers with valid contexts never run at the same time, not even   *)
(* for two tasks of the type.                                              *)
OneHandler ==
    \A r, q \in up, t, u \in Tasks :
        exec[r][t] = "working" /\ exec[q][u] = "working" => r = q /\ t = u

(* A finished task is never changed: neither a sweeper with an old view    *)
(* nor a runner that lost its lease overwrites the outcome.                *)
TerminalIsFinal ==
    [][\A t \in Tasks : task[t].status \in Terminal => task'[t] = task[t]]_vars

(* A running task comes to an end although its runner may crash, panic or  *)
(* fail to save: otherwise its active_key blocks the type for ever.        *)
RunningTaskEnds ==
    \A t \in Tasks : task[t].status = "running" ~> task[t].status \in Terminal

(* A pending task is claimed by some runner.                               *)
PendingTaskClaimed ==
    \A t \in Tasks : task[t].status = "pending" ~> task[t].status # "pending"
=============================================================================
