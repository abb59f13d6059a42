------------------------------- MODULE Tasks -------------------------------
(***************************************************************************)
(* The batch executor of a playbook step: Tasks.Execute with its monitor   *)
(* (internal/tasks/tasks.go, monitor.go) and Task.Execute                  *)
(* (internal/task/task/task.go).                                           *)
(*                                                                         *)
(* One goroutine (mpc) walks through the task list.  For every task it     *)
(* takes a slot of the channel `workers`, adds the progress bar of the     *)
(* task's parent id and spawns a worker goroutine (tpc).  The workers run  *)
(* the steps of their task, record the result in the monitor, advance      *)
(* their bar and give the slot back.  The main goroutine waits for the     *)
(* wait group, completes the main bar and returns the monitor's error.     *)
(*                                                                         *)
(* Abstracted: a task is its index, an error is the index of the task that *)
(* produced it (0 is nil), a bar's results are three counters (the code    *)
(* only ever counts them), names and rendering are left out.               *)
(***************************************************************************)
EXTENDS Integers, FiniteSets

CONSTANTS
  MaxTasks,       \* bound: a batch has 0..MaxTasks tasks
  Ptids,          \* parent task ids (a bar is shared by the tasks of one)
  StepN,          \* StepN[t]: number of steps of task t
  PostN,          \* PostN[t]: number of its post steps
  Concurrencies   \* the values of ExecOptions.Concurrency that are used

ASSUME TasksAssumption ==
  /\ MaxTasks \in Nat
  /\ Concurrencies \subseteq Nat
  /\ IsFiniteSet(Ptids)

ASSUME StepsAssumption ==
  /\ StepN \in [1..MaxTasks -> Nat]
  /\ PostN \in [1..MaxTasks -> Nat]

VARIABLES
  opts,     \* the ExecOptions given to Execute
  n,        \* len(ts.tasks)
  ptid,     \* ptid[t]: parent task id of task t
  mpc,      \* where the goroutine of Execute is
  next,     \* the task its loop is at
  wg,       \* counter of the wait group
  slots,    \* tokens in the channel workers
  nextBar,  \* the id of the next bar of ts.progress
  mainBar,  \* the id of the main bar, or NoBar
  subBar,   \* ts.subBar: parent task id -> bar id, or NoBar
  fill,     \* bar id -> how often it was advanced
  result,   \* monitor.result: bar id -> number of nil, skip and error results
  err,      \* monitor.err
  tpc,      \* where the worker of a task is
  tstep,    \* the step or post step it is at
  tbar,     \* the id of the bar it found, or NoBar
  terr,     \* what Task.Execute returns
  ret       \* what Execute returned, NotReturned before

mainVars == <<opts, n, ptid>>
monitor == <<result, err>>
vars == <<opts, n, ptid, mpc, next, wg, slots, nextBar, mainBar, subBar, fill,
          result, err, tpc, tstep, tbar, terr, ret>>

TaskIds == 1..MaxTasks
NoBar == -1
NotReturned == -1
Nil == 0
BarIds == 0..Cardinality(Ptids)

MainPcs == {"begin", "loop", "slot", "spawn", "wait", "incr", "status",
            "drain", "done"}
TaskPcs == {"none", "connect", "step", "post", "set", "incr",
            "release", "wgdone", "ended"}

(***************************************************************************)
(* Options and counters                                                    *)
(***************************************************************************)

\* initOptions: no concurrency given means ten workers.
Concurrency == IF opts.concurrency = 0 THEN 10 ELSE opts.concurrency

CountPtid(p) == Cardinality({t \in 1..n : ptid[t] = p})

(***************************************************************************)
(* The monitor                                                             *)
(***************************************************************************)

Kinds == {"succ", "skip", "err"}
NoResult == [k \in Kinds |-> 0]

\* monitor.err after an error or nil was recorded.
MonitorErrReset(kind, e) == IF kind = "skip" THEN err ELSE e
MonitorErr(kind, e) == IF kind = "err" THEN e ELSE err

\* monitor.set for a result that Task.Execute returned, and for the status
\* of the main bar: kind tells how monitor.sum counts it.
MonitorSet(bid, kind, e) ==
  /\ result' = [result EXCEPT ![bid][kind] = @ + 1]
  /\ err' = MonitorErr(kind, e)

MonitorGet(bid) ==
  LET r == result[bid]
  IN  IF r["err"] # 0 THEN "ERROR"
      ELSE IF r["skip"] = r["succ"] + r["skip"] + r["err"] THEN "SKIP"
      ELSE "OK"

\* setMainBarStatus: what the results of the sub bars add up to.
SubBarStatuses ==
  {MonitorGet(subBar[p]) : p \in {q \in Ptids : subBar[q] # NoBar}}

MainBarStatus ==
  IF "ERROR" \in SubBarStatuses THEN "err"
  ELSE IF "OK" \in SubBarStatuses THEN "succ"
  ELSE "skip"

(***************************************************************************)
(* The progress container: bar ids are given out from 0 in order, and      *)
(* Wait returns when every bar is full.                                    *)
(***************************************************************************)

barVars == <<nextBar, mainBar, subBar, fill>>

AddMainBar ==
  /\ mainBar' = nextBar
  /\ nextBar' = nextBar + 1
  /\ UNCHANGED <<subBar, fill>>

\* addSubBar: one bar for the tasks of a parent id.
AddSubBar(p) ==
  \/ subBar[p] # NoBar /\ UNCHANGED barVars
  \/ /\ subBar[p] = NoBar
     /\ subBar' = [subBar EXCEPT ![p] = nextBar]
     /\ nextBar' = nextBar + 1
     /\ UNCHANGED <<mainBar, fill>>

IncrBy1(bid) ==
  /\ fill' = [fill EXCEPT ![bid] = @ + 1]
  /\ UNCHANGED <<nextBar, mainBar, subBar>>

ProgressDone ==
  /\ mainBar # NoBar => fill[mainBar] = 1
  /\ \A p \in Ptids : subBar[p] # NoBar => fill[subBar[p]] = CountPtid(p)

(***************************************************************************)
(* The goroutine of Execute                                                *)
(***************************************************************************)

Options == [concurrency : Concurrencies, silentMainBar : BOOLEAN,
            silentSubBar : BOOLEAN]

Init ==
  /\ opts \in Options
  /\ n \in 0..MaxTasks
  /\ ptid \in [1..n -> Ptids]
  /\ mpc = "begin"
  /\ next = 1
  /\ wg = 0
  /\ slots = 0
  /\ nextBar = 0
  /\ mainBar = NoBar
  /\ subBar = [p \in Ptids |-> NoBar]
  /\ fill = [b \in BarIds |-> 0]
  /\ result = [b \in BarIds |-> NoResult]
  /\ err = Nil
  /\ tpc = [t \in TaskIds |-> "none"]
  /\ tstep = [t \in TaskIds |-> 1]
  /\ tbar = [t \in TaskIds |-> NoBar]
  /\ terr = [t \in TaskIds |-> Nil]
  /\ ret = NotReturned

taskVars == <<tpc, tstep, tbar, terr>>

\* An empty batch returns nil at once; otherwise the main bar is added.
Begin ==
  /\ mpc = "begin"
  /\ mpc' = IF n = 0 THEN "done" ELSE "loop"
  /\ ret' = IF n = 0 THEN Nil ELSE NotReturned
  /\ IF n = 0 \/ opts.silentMainBar THEN UNCHANGED barVars ELSE AddMainBar
  /\ UNCHANGED <<mainVars, next, wg, slots, monitor, taskVars>>

\* ts.wg.Add(1)
WgAdd == wg + 1

AddWaiter ==
  /\ mpc = "loop"
  /\ next <= n
  /\ wg' = WgAdd
  /\ mpc' = "slot"
  /\ UNCHANGED <<mainVars, next, slots, barVars, monitor, taskVars, ret>>

\* workers <- struct{}{} blocks while the channel is full.
SlotFreeOffByOne == slots <= Concurrency
SlotFree == slots < Concurrency

AcquireSlot ==
  /\ mpc = "slot"
  /\ SlotFree
  /\ slots' = slots + 1
  /\ mpc' = "spawn"
  /\ UNCHANGED <<mainVars, next, wg, barVars, monitor, taskVars, ret>>

Spawn ==
  /\ mpc = "spawn"
  /\ IF opts.silentSubBar THEN UNCHANGED barVars ELSE AddSubBar(ptid[next])
  /\ tpc' = [tpc EXCEPT ![next] = "connect"]
  /\ next' = next + 1
  /\ mpc' = "loop"
  /\ UNCHANGED <<mainVars, wg, slots, monitor, tstep, tbar, terr, ret>>

\* The loop goes on after a failure: its early break is commented out, for
\* the bars of the tasks that were not run would never fill.
LoopEndsEarly == next > n \/ err # Nil
LoopEnds == next > n

EndLoop ==
  /\ mpc = "loop"
  /\ LoopEnds
  /\ mpc' = "wait"
  /\ UNCHANGED <<mainVars, next, wg, slots, barVars, monitor, taskVars, ret>>

AllDoneOffByOne == wg <= 1
AllDone == wg = 0

WaitGroup ==
  /\ mpc = "wait"
  /\ AllDone
  /\ mpc' = IF mainBar # NoBar THEN "incr" ELSE "drain"
  /\ UNCHANGED <<mainVars, next, wg, slots, barVars, monitor, taskVars, ret>>

IncrMainBar ==
  /\ mpc = "incr"
  /\ IncrBy1(mainBar)
  /\ mpc' = "status"
  /\ UNCHANGED <<mainVars, next, wg, slots, monitor, taskVars, ret>>

SetMainBarStatus ==
  /\ mpc = "status"
  /\ MonitorSet(mainBar, MainBarStatus, err)
  /\ mpc' = "drain"
  /\ UNCHANGED <<mainVars, next, wg, slots, barVars, taskVars, ret>>

ProgressWait ==
  /\ mpc = "drain"
  /\ ProgressDone
  /\ ret' = err
  /\ mpc' = "done"
  /\ UNCHANGED <<mainVars, next, wg, slots, barVars, monitor, taskVars>>

(***************************************************************************)
(* The worker goroutine of task t                                          *)
(***************************************************************************)

Goto(t, from, to) ==
  /\ tpc[t] = from
  /\ tpc' = [tpc EXCEPT ![t] = to]

workerUnchanged == <<mainVars, mpc, next, ret>>

\* The bar of the task's parent id was added before the worker was spawned
\* and is never replaced, so looking it up is part of the next step.
GetSubBar(t) == tbar' = [tbar EXCEPT ![t] = subBar[ptid[t]]]

\* The SSH connection or the context fails: the steps and the post steps are
\* not run.
ConnectFails(t) ==
  /\ Goto(t, "connect", "set")
  /\ GetSubBar(t)
  /\ terr' = [terr EXCEPT ![t] = t]
  /\ UNCHANGED <<workerUnchanged, wg, slots, barVars, monitor, tstep>>

Connect(t) ==
  /\ Goto(t, "connect", "step")
  /\ GetSubBar(t)
  /\ UNCHANGED <<workerUnchanged, wg, slots, barVars, monitor, tstep, terr>>

StepOk(t) ==
  /\ tpc[t] = "step"
  /\ tstep[t] <= StepN[t]
  /\ tstep' = [tstep EXCEPT ![t] = @ + 1]
  /\ UNCHANGED <<workerUnchanged, wg, slots, barVars, monitor, tpc, tbar,
                 terr>>

\* ERR_TASK_DONE and ERR_SKIP_TASK leave the loop and the task returns nil.
StepBreaks(t) ==
  /\ tstep[t] <= StepN[t]
  /\ Goto(t, "step", "post")
  /\ tstep' = [tstep EXCEPT ![t] = 1]
  /\ UNCHANGED <<workerUnchanged, wg, slots, barVars, monitor, tbar, terr>>

StepFails(t) ==
  /\ tstep[t] <= StepN[t]
  /\ Goto(t, "step", "post")
  /\ tstep' = [tstep EXCEPT ![t] = 1]
  /\ terr' = [terr EXCEPT ![t] = t]
  /\ UNCHANGED <<workerUnchanged, wg, slots, barVars, monitor, tbar>>

StepsDone(t) ==
  /\ tstep[t] > StepN[t]
  /\ Goto(t, "step", "post")
  /\ tstep' = [tstep EXCEPT ![t] = 1]
  /\ UNCHANGED <<workerUnchanged, wg, slots, barVars, monitor, tbar, terr>>

PostStepOk(t) ==
  /\ tpc[t] = "post"
  /\ tstep[t] <= PostN[t]
  /\ tstep' = [tstep EXCEPT ![t] = @ + 1]
  /\ UNCHANGED <<workerUnchanged, wg, slots, barVars, monitor, tpc, tbar,
                 terr>>

\* executePost returns after its last step or its first failing one; the
\* error is dropped.
PostDone(t) ==
  /\ Goto(t, "post", "set")
  /\ UNCHANGED <<workerUnchanged, wg, slots, barVars, monitor, tstep, tbar,
                 terr>>

\* The id a result is recorded under: 0 for a worker without a bar, which is
\* the id of the main bar if there is one.
ResultBarShadowed(t) == 0
ResultBar(t) == IF tbar[t] = NoBar THEN 0 ELSE tbar[t]

SetResult(t) ==
  /\ Goto(t, "set", "incr")
  /\ MonitorSet(ResultBar(t), IF terr[t] = Nil THEN "succ" ELSE "err", terr[t])
  /\ UNCHANGED <<workerUnchanged, wg, slots, barVars, tstep, tbar, terr>>

IncrSubBar(t) ==
  /\ Goto(t, "incr", "release")
  /\ IF tbar[t] = NoBar THEN UNCHANGED barVars ELSE IncrBy1(tbar[t])
  /\ UNCHANGED <<workerUnchanged, wg, slots, monitor, tstep, tbar, terr>>

ReleaseSlot(t) ==
  /\ Goto(t, "release", "wgdone")
  /\ slots' = slots - 1
  /\ UNCHANGED <<workerUnchanged, wg, barVars, monitor, tstep, tbar, terr>>

WorkerDone(t) ==
  /\ Goto(t, "wgdone", "ended")
  /\ wg' = wg - 1
  /\ UNCHANGED <<workerUnchanged, slots, barVars, monitor, tstep, tbar, terr>>

MainNext ==
  \/ Begin \/ AddWaiter \/ AcquireSlot \/ Spawn \/ EndLoop
  \/ WaitGroup \/ IncrMainBar \/ SetMainBarStatus \/ ProgressWait

WorkerNext(t) ==
  \/ ConnectFails(t) \/ Connect(t)
  \/ StepOk(t) \/ StepBreaks(t) \/ StepFails(t) \/ StepsDone(t)
  \/ PostStepOk(t) \/ PostDone(t)
  \/ SetResult(t) \/ IncrSubBar(t) \/ ReleaseSlot(t) \/ WorkerDone(t)

\* The caller goes on with the value Execute returned.
Returned == mpc = "done" /\ UNCHANGED vars

Next == MainNext \/ (\E t \in TaskIds : WorkerNext(t)) \/ Returned

Spec == Init /\ [][Next]_vars

\* The Go scheduler runs every goroutine that can go on, and every step of a
\* task returns: remote commands carry a timeout.
FairSpec ==
  /\ Spec
  /\ WF_vars(MainNext)
  /\ \A t \in TaskIds : WF_vars(WorkerNext(t))

(***************************************************************************)
(* Properties                                                              *)
(***************************************************************************)

\* Every variable has its type; in particular neither the wait group nor the
\* channel of worker slots is ever given back more than was taken (a negative
\* wait group panics).
TypeOK ==
  /\ opts \in Options
  /\ n \in 0..MaxTasks
  /\ ptid \in [1..n -> Ptids]
  /\ mpc \in MainPcs
  /\ next \in 1..(n + 1)
  /\ wg \in Nat
  /\ slots \in Nat
  /\ nextBar \in Nat
  /\ mainBar \in Int
  /\ subBar \in [Ptids -> Int]
  /\ fill \in [BarIds -> Nat]
  /\ result \in [BarIds -> [Kinds -> Nat]]
  /\ err \in TaskIds \cup {Nil}
  /\ tpc \in [TaskIds -> TaskPcs]
  /\ tstep \in [TaskIds -> Nat]
  /\ tbar \in [TaskIds -> Int]
  /\ terr \in [TaskIds -> TaskIds \cup {Nil}]
  /\ ret \in TaskIds \cup {Nil, NotReturned}

Unslotted == {"none", "wgdone", "ended"}

\* The workers that run between spawning and the release of their slot.
Working == {t \in TaskIds : tpc[t] \notin Unslotted}

\* Execute never has more tasks in flight than ExecOptions.Concurrency.
ConcurrencyRespected == Cardinality(Working) <= Concurrency

\* Once the wait group let Execute go on, every task of the batch has run to
\* its end, whatever the others returned: nothing of a playbook step is still
\* going on when the next one starts.
NothingLeftBehind ==
  mpc \in {"incr", "status", "drain", "done"} =>
    \A t \in 1..n : tpc[t] = "ended"

\* Execute returns nil exactly when no task of the batch failed, and the error
\* it returns is that of a task that did.
ErrorReported ==
  ret # NotReturned =>
    /\ ret = Nil <=> \A t \in 1..n : terr[t] = Nil
    /\ ret # Nil => terr[ret] = ret

\* What a bar has to say of its tasks.
Verdict(tasks) == IF \E t \in tasks : terr[t] # Nil THEN "ERROR" ELSE "OK"

\* The bars tell the truth, whichever combination of silent bars was asked for:
\* when Execute returns, the main bar says [ERROR] exactly when some task failed,
\* and never [SKIP] for a batch in which a task succeeded; a full sub bar says
\* [ERROR] exactly when a task it counts failed (a result is recorded before the
\* bar is advanced).
BarsTruthful ==
  /\ (mpc = "done" /\ mainBar # NoBar) => MonitorGet(mainBar) = Verdict(1..n)
  /\ \A p \in Ptids :
       (subBar[p] # NoBar /\ fill[subBar[p]] = CountPtid(p)) =>
         MonitorGet(subBar[p]) = Verdict({t \in 1..n : ptid[t] = p})

\* Execute returns: no slot, wait group or progress bar is waited for in vain.
Termination == <>(mpc = "done")

(***************************************************************************)
(* Implementation of Execute                                               *)
(***************************************************************************)

\* A task counts as ended once its result is in the monitor.
StatusOf(t) ==
  IF tpc[t] = "none" THEN "todo"
  ELSE IF tpc[t] \in {"incr", "release", "wgdone", "ended"}
       THEN IF terr[t] = Nil THEN "ok" ELSE "failed"
  ELSE "running"

statusBar == [t \in 1..n |-> StatusOf(t)]
retBar == IF ret = NotReturned THEN "none" ELSE IF ret = Nil THEN "ok" ELSE "error"

Abs == INSTANCE Execute WITH limit <- Concurrency, status <- statusBar,
                             ret <- retBar

\* Tasks.Execute does what its callers rely on.
ImplementsExecute == Abs!Spec

=============================================================================
