---------------------------- MODULE TasksProofs ----------------------------
(***************************************************************************)
(* Proofs about Tasks for every number of tasks, concurrency, step count   *)
(* and assignment of progress bars.                                        *)
(*                                                                         *)
(* The inductive invariant IInv ties the two counters of Execute to the    *)
(* workers: the tokens in `workers` are the workers that did not release   *)
(* theirs yet, the wait group counts the workers that did not end, and the *)
(* main goroutine adds one to each between taking it and spawning.  The    *)
(* loop index separates the tasks that were spawned from the others, and   *)
(* monitor.err is the error of a task whose result was recorded.  BarInv   *)
(* says the same of the bars: a bar is advanced once for each of its tasks, *)
(* after the result of that task was recorded.                             *)
(***************************************************************************)
EXTENDS Tasks, FiniteSetTheorems, TLAPS

Recorded == {"incr", "release", "wgdone", "ended"}
Unwaited == {"none", "ended"}
Waited == {t \in TaskIds : tpc[t] \notin Unwaited}

One(pcs) == IF mpc \in pcs THEN 1 ELSE 0

SlotInv ==
  /\ slots = Cardinality(Working) + One({"spawn"})
  /\ slots <= Concurrency

WgInv == wg = Cardinality(Waited) + One({"slot", "spawn"})

LoopInv ==
  /\ \A t \in TaskIds : tpc[t] = "none" <=> t >= next
  /\ mpc = "begin" => next = 1
  /\ mpc \in {"slot", "spawn"} => next <= n
  /\ mpc \in {"wait", "incr", "status", "drain"} => next = n + 1
  /\ mpc = "done" => (next = n + 1 \/ n = 0)

ErrInv ==
  /\ \A t \in TaskIds : terr[t] \in {Nil, t}
  /\ \A t \in TaskIds : tpc[t] \in {"none", "connect", "step"} => terr[t] = Nil
  /\ err # Nil => terr[err] = err /\ tpc[err] \in Recorded
  /\ err = Nil => \A t \in TaskIds : tpc[t] \in Recorded => terr[t] = Nil

RetInv ==
  /\ ret # NotReturned <=> mpc = "done"
  /\ ret # NotReturned => ret = err

IInv == TypeOK /\ SlotInv /\ WgInv /\ LoopInv /\ ErrInv /\ RetInv /\ NothingLeftBehind

(***************************************************************************)
(* Counting                                                                *)
(***************************************************************************)

\* A set of task ids is finite, and its cardinality is a natural number.
LEMMA TaskSetFinite ==
  ASSUME NEW S \in SUBSET TaskIds
  PROVE  IsFiniteSet(S) /\ Cardinality(S) \in Nat
<1>1. IsFiniteSet(TaskIds)
  BY FS_Interval, TasksAssumption DEF TaskIds
<1>2. IsFiniteSet(S)
  BY <1>1, FS_Subset
<1> QED
  BY <1>2, FS_CardinalityType

\* One task more: the cardinality grows by one.
LEMMA CountAdd ==
  ASSUME NEW S \in SUBSET TaskIds, NEW t \in TaskIds \ S
  PROVE  Cardinality(S \cup {t}) = Cardinality(S) + 1
BY TaskSetFinite, FS_AddElement

\* One task less: the cardinality shrinks by one.
LEMMA CountRemove ==
  ASSUME NEW S \in SUBSET TaskIds, NEW t \in S
  PROVE  Cardinality(S \ {t}) = Cardinality(S) - 1
BY TaskSetFinite, FS_RemoveElement

\* No task at all: the cardinality is zero, and only then.
LEMMA CountZero ==
  ASSUME NEW S \in SUBSET TaskIds
  PROVE  Cardinality(S) = 0 <=> S = {}
BY TaskSetFinite, FS_EmptySet

\* Advancing a bar, and counting a result, keep the types of the counters.
LEMMA IncrType ==
  ASSUME NEW S, NEW f \in [S -> Nat], NEW b
  PROVE  [f EXCEPT ![b] = @ + 1] \in [S -> Nat]
<1>1. CASE b \in S
  BY <1>1
<1>2. CASE b \notin S
  <2>1. [f EXCEPT ![b] = @ + 1] = f
    BY <1>2
  <2> QED
    BY <2>1
<1> QED
  BY <1>1, <1>2

\* Recording a result adds one to one counter of one bar.
LEMMA CountType ==
  ASSUME NEW S, NEW K, NEW r \in [S -> [K -> Nat]], NEW b, NEW k
  PROVE  [r EXCEPT ![b][k] = @ + 1] \in [S -> [K -> Nat]]
<1>1. CASE b \in S
  <2>1. r[b] \in [K -> Nat]
    BY <1>1
  <2>2. [r[b] EXCEPT ![k] = @ + 1] \in [K -> Nat]
    BY <2>1, IncrType
  <2> QED
    BY <1>1, <2>2
<1>2. CASE b \notin S
  <2>1. [r EXCEPT ![b][k] = @ + 1] = r
    BY <1>2
  <2> QED
    BY <2>1
<1> QED
  BY <1>1, <1>2

(***************************************************************************)
(* The initial states                                                      *)
(***************************************************************************)

\* The inductive invariant holds initially: no worker, no slot, an empty wait group.
LEMMA InitIInv == Init => IInv
<1> SUFFICES ASSUME Init PROVE IInv
  OBVIOUS
<1>1. n \in 0..MaxTasks /\ MaxTasks \in Nat
  BY TasksAssumption DEF Init
<1>2. TypeOK
  BY <1>1 DEF Init, TypeOK, Options, MainPcs, TaskPcs, NoResult, NoBar,
     Nil, NotReturned, TaskIds
<1>3. Working = {} /\ Waited = {}
  BY DEF Init, Working, Waited, Unslotted, Unwaited
<1>4. Cardinality(Working) = 0 /\ Cardinality(Waited) = 0
  BY <1>3, FS_EmptySet
<1>5. Concurrency \in Nat
  BY TasksAssumption DEF Concurrency, Init, Options
<1>6. SlotInv /\ WgInv
  BY <1>4, <1>5 DEF SlotInv, WgInv, One, Init
<1>7. LoopInv /\ ErrInv /\ RetInv /\ NothingLeftBehind
  BY <1>1 DEF LoopInv, ErrInv, RetInv, NothingLeftBehind, Init, TaskIds, Recorded,
     Nil, NotReturned
<1> QED
  BY <1>2, <1>6, <1>7 DEF IInv

(***************************************************************************)
(* The goroutine of Execute                                                *)
(***************************************************************************)

\* Its steps other than Spawn leave the workers alone.
LEMMA MainPreservesIInv ==
  ASSUME IInv, MainNext
  PROVE  IInv'
<1> USE TasksAssumption DEF IInv
<1>1. /\ Cardinality(Working) \in Nat /\ Cardinality(Waited) \in Nat
      /\ n \in 0..MaxTasks /\ MaxTasks \in Nat /\ next \in Nat
  BY TaskSetFinite DEF Working, Waited, TypeOK
<1>2. Concurrency \in Nat /\ Concurrency' = Concurrency
  BY DEF Concurrency, MainNext, Begin, AddWaiter, AcquireSlot, Spawn, EndLoop,
     WaitGroup, IncrMainBar, SetMainBarStatus, ProgressWait, mainVars, TypeOK, Options
<1>3. CASE Begin
  <2>1. TypeOK'
    BY <1>1, <1>3 DEF TypeOK, Begin, mainVars, taskVars, barVars, monitor, MainPcs,
       AddMainBar, Nil, NotReturned
  <2>2. Working' = Working /\ Waited' = Waited
    BY <1>3 DEF Begin, taskVars, Working, Waited
  <2>3. SlotInv' /\ WgInv'
    BY <1>1, <1>2, <1>3, <2>2 DEF SlotInv, WgInv, One, Begin
  <2>4. LoopInv' /\ ErrInv' /\ RetInv' /\ NothingLeftBehind'
    BY <1>1, <1>3 DEF LoopInv, ErrInv, RetInv, NothingLeftBehind, Begin, mainVars, taskVars, barVars, monitor,
       Recorded, Nil, NotReturned, TypeOK, TaskIds
  <2> QED
    BY <2>1, <2>3, <2>4
<1>4. CASE AddWaiter
  <2>1. TypeOK'
    BY <1>1, <1>4 DEF TypeOK, AddWaiter, WgAdd, mainVars, taskVars, barVars, monitor, MainPcs
  <2>2. Working' = Working /\ Waited' = Waited
    BY <1>4 DEF AddWaiter, taskVars, Working, Waited
  <2>3. SlotInv' /\ WgInv'
    BY <1>1, <1>2, <1>4, <2>2 DEF SlotInv, WgInv, One, AddWaiter, WgAdd
  <2>4. LoopInv' /\ ErrInv' /\ RetInv' /\ NothingLeftBehind'
    BY <1>1, <1>4 DEF LoopInv, ErrInv, RetInv, NothingLeftBehind, AddWaiter, mainVars, taskVars, barVars, monitor
  <2> QED
    BY <2>1, <2>3, <2>4
<1>5. CASE AcquireSlot
  <2>1. TypeOK'
    BY <1>1, <1>5 DEF TypeOK, AcquireSlot, mainVars, taskVars, barVars, monitor, MainPcs
  <2>2. Working' = Working /\ Waited' = Waited
    BY <1>5 DEF AcquireSlot, taskVars, Working, Waited
  <2>3. SlotInv' /\ WgInv'
    BY <1>1, <1>2, <1>5, <2>2 DEF SlotInv, WgInv, One, AcquireSlot, SlotFree, TypeOK
  <2>4. LoopInv' /\ ErrInv' /\ RetInv' /\ NothingLeftBehind'
    BY <1>1, <1>5 DEF LoopInv, ErrInv, RetInv, NothingLeftBehind, AcquireSlot, mainVars, taskVars, barVars, monitor
  <2> QED
    BY <2>1, <2>3, <2>4
<1>6. CASE Spawn
  <2>1. next \in 1..n /\ next \in TaskIds /\ tpc[next] = "none"
    BY <1>1, <1>6 DEF Spawn, LoopInv, TypeOK, TaskIds
  <2>2. tpc' = [tpc EXCEPT ![next] = "connect"] /\ next' = next + 1
    BY <1>6 DEF Spawn
  <2>3. TypeOK'
    <3>1. nextBar \in Nat /\ subBar \in [Ptids -> Int]
      BY DEF TypeOK
    <3>2. /\ nextBar' \in Nat /\ subBar' \in [Ptids -> Int]
          /\ mainBar' = mainBar /\ fill' = fill
      <4>1. CASE UNCHANGED barVars
        BY <3>1, <4>1 DEF barVars
      <4>2. CASE AddSubBar(ptid[next])
        BY <3>1, <4>1, <4>2 DEF AddSubBar
      <4> QED
        BY <1>6, <4>1, <4>2 DEF Spawn
    <3>3. tpc' \in [TaskIds -> TaskPcs]
      BY <2>1, <2>2 DEF TypeOK, TaskPcs
    <3>4. next' \in 1..(n + 1)
      BY <1>1, <2>1, <2>2
    <3> QED
      BY <1>6, <3>2, <3>3, <3>4 DEF TypeOK, Spawn, mainVars, monitor, MainPcs
  <2>4. /\ Working' = Working \cup {next} /\ next \notin Working
        /\ Waited' = Waited \cup {next} /\ next \notin Waited
    BY <2>1, <2>2 DEF Working, Waited, Unslotted, Unwaited, TypeOK
  <2>5. /\ Cardinality(Working') = Cardinality(Working) + 1
        /\ Cardinality(Waited') = Cardinality(Waited) + 1
    BY <2>1, <2>4, CountAdd DEF Working, Waited
  <2>6. SlotInv' /\ WgInv'
    BY <1>1, <1>2, <1>6, <2>5 DEF SlotInv, WgInv, One, Spawn
  <2>7. LoopInv'
    BY <1>1, <1>6, <2>1, <2>2 DEF LoopInv, TypeOK, TaskIds, Spawn, mainVars
  <2>8. ErrInv' /\ RetInv' /\ NothingLeftBehind'
    BY <1>1, <1>6, <2>1, <2>2 DEF ErrInv, RetInv, NothingLeftBehind, Spawn, mainVars,
       monitor, Recorded, TypeOK
  <2> QED
    BY <2>3, <2>6, <2>7, <2>8
<1>7. CASE EndLoop
  <2>1. TypeOK'
    BY <1>1, <1>7 DEF TypeOK, EndLoop, mainVars, taskVars, barVars, monitor, MainPcs
  <2>2. Working' = Working /\ Waited' = Waited
    BY <1>7 DEF EndLoop, taskVars, Working, Waited
  <2>3. SlotInv' /\ WgInv'
    BY <1>1, <1>2, <1>7, <2>2 DEF SlotInv, WgInv, One, EndLoop
  <2>4. LoopInv' /\ ErrInv' /\ RetInv' /\ NothingLeftBehind'
    BY <1>1, <1>7 DEF LoopInv, ErrInv, RetInv, NothingLeftBehind, EndLoop, LoopEnds,
       mainVars, taskVars, barVars, monitor, TypeOK
  <2> QED
    BY <2>1, <2>3, <2>4
<1>8. CASE WaitGroup
  <2>1. TypeOK'
    BY <1>1, <1>8 DEF TypeOK, WaitGroup, mainVars, taskVars, barVars, monitor, MainPcs
  <2>2. Working' = Working /\ Waited' = Waited
    BY <1>8 DEF WaitGroup, taskVars, Working, Waited
  <2>3. SlotInv' /\ WgInv'
    BY <1>1, <1>2, <1>8, <2>2 DEF SlotInv, WgInv, One, WaitGroup
  <2>4. LoopInv' /\ ErrInv' /\ RetInv'
    BY <1>1, <1>8 DEF LoopInv, ErrInv, RetInv, WaitGroup, mainVars, taskVars, barVars, monitor
  <2>5. Cardinality(Waited) = 0
    BY <1>1, <1>8 DEF WgInv, One, WaitGroup, AllDone
  <2>6. Waited = {}
    BY <2>5, CountZero DEF Waited
  <2>7. \A t \in 1..n : tpc[t] = "ended"
    <3> SUFFICES ASSUME NEW t \in 1..n PROVE tpc[t] = "ended"
      OBVIOUS
    <3>1. t \in TaskIds /\ next = n + 1
      BY <1>1, <1>8 DEF TaskIds, LoopInv, WaitGroup
    <3>2. tpc[t] # "none"
      BY <1>1, <3>1 DEF LoopInv
    <3> QED
      BY <2>6, <3>1, <3>2 DEF Waited, Unwaited
  <2>8. NothingLeftBehind'
    BY <1>8, <2>7 DEF NothingLeftBehind, WaitGroup, mainVars, taskVars, barVars, monitor
  <2> QED
    BY <2>1, <2>3, <2>4, <2>8
<1>9. CASE IncrMainBar
  <2>1. TypeOK'
    BY <1>1, <1>9, IncrType DEF TypeOK, IncrMainBar, IncrBy1, mainVars, taskVars, barVars, monitor, MainPcs
  <2>2. Working' = Working /\ Waited' = Waited
    BY <1>9 DEF IncrMainBar, taskVars, Working, Waited
  <2>3. SlotInv' /\ WgInv'
    BY <1>1, <1>2, <1>9, <2>2 DEF SlotInv, WgInv, One, IncrMainBar
  <2>4. LoopInv' /\ ErrInv' /\ RetInv' /\ NothingLeftBehind'
    BY <1>1, <1>9 DEF LoopInv, ErrInv, RetInv, NothingLeftBehind, IncrMainBar, mainVars, taskVars, barVars, monitor
  <2> QED
    BY <2>1, <2>3, <2>4
<1>10. CASE SetMainBarStatus
  <2>0. err' = err /\ MainBarStatus \in {"succ", "skip", "err"}
    BY <1>10 DEF SetMainBarStatus, MonitorSet, MonitorErr, MainBarStatus
  <2>1. result' \in [BarIds -> [Kinds -> Nat]]
    BY <1>10, CountType DEF SetMainBarStatus, MonitorSet, TypeOK
  <2>2. TypeOK'
    BY <1>1, <1>10, <2>0, <2>1 DEF TypeOK, SetMainBarStatus, mainVars, taskVars, barVars, monitor, MainPcs
  <2>3. Working' = Working /\ Waited' = Waited
    BY <1>10 DEF SetMainBarStatus, taskVars, Working, Waited
  <2>4. SlotInv' /\ WgInv'
    BY <1>1, <1>2, <1>10, <2>3 DEF SlotInv, WgInv, One, SetMainBarStatus
  <2>5. LoopInv' /\ ErrInv' /\ RetInv' /\ NothingLeftBehind'
    BY <1>1, <1>10, <2>0 DEF LoopInv, ErrInv, RetInv, NothingLeftBehind, SetMainBarStatus,
       mainVars, taskVars, barVars, monitor
  <2> QED
    BY <2>2, <2>4, <2>5
<1>11. CASE ProgressWait
  <2>1. TypeOK'
    BY <1>1, <1>11 DEF TypeOK, ProgressWait, mainVars, taskVars, barVars, monitor, MainPcs
  <2>2. Working' = Working /\ Waited' = Waited
    BY <1>11 DEF ProgressWait, taskVars, Working, Waited
  <2>3. SlotInv' /\ WgInv'
    BY <1>1, <1>2, <1>11, <2>2 DEF SlotInv, WgInv, One, ProgressWait
  <2>4. LoopInv' /\ ErrInv' /\ NothingLeftBehind'
    BY <1>1, <1>11 DEF LoopInv, ErrInv, NothingLeftBehind, ProgressWait, mainVars, taskVars, barVars, monitor
  <2>5. RetInv'
    <3>0. err \in TaskIds \cup {Nil}
      BY DEF TypeOK
    <3>1. err # NotReturned
      <4> HIDE DEF IInv
      <4> QED
        BY <3>0 DEF TaskIds, Nil, NotReturned
    <3> QED
      BY <1>11, <3>1 DEF RetInv, ProgressWait, monitor
  <2> QED
    BY <2>1, <2>3, <2>4, <2>5
<1> QED
  BY <1>3, <1>4, <1>5, <1>6, <1>7, <1>8, <1>9, <1>10, <1>11 DEF MainNext

(***************************************************************************)
(* The workers                                                             *)
(***************************************************************************)

\* The steps of Task.Execute: they only move the worker between pcs at which
\* it holds its slot and has no result in the monitor.
InTask == {"connect", "step", "post", "set"}

LocalStep(t) ==
  \/ ConnectFails(t) \/ Connect(t)
  \/ StepOk(t) \/ StepBreaks(t) \/ StepFails(t) \/ StepsDone(t)
  \/ PostStepOk(t) \/ PostDone(t)

\* The steps of a task touch neither slots, nor the wait group, nor the monitor.
LEMMA LocalPreservesIInv ==
  ASSUME IInv, NEW t \in TaskIds, LocalStep(t)
  PROVE  IInv'
<1> USE TasksAssumption DEF IInv
<1>1. /\ UNCHANGED <<opts, n, ptid, mpc, next, ret, wg, slots, nextBar, mainBar,
                      subBar, fill, result, err>>
      /\ tpc[t] \in InTask
      /\ \E p \in InTask : tpc' = [tpc EXCEPT ![t] = p]
  BY DEF LocalStep, ConnectFails, Connect, StepOk, StepBreaks, StepFails, StepsDone,
     PostStepOk, PostDone, Goto, workerUnchanged, mainVars, barVars, monitor, InTask, TypeOK
<1>2. PICK p \in InTask : tpc' = [tpc EXCEPT ![t] = p]
  BY <1>1
<1>3. /\ terr' = terr \/ (terr' = [terr EXCEPT ![t] = t] /\ p \in {"post", "set"})
      /\ p \in {"connect", "step"} => tpc[t] \in {"connect", "step"}
  BY <1>2 DEF LocalStep, ConnectFails, Connect, StepOk, StepBreaks, StepFails, StepsDone,
     PostStepOk, PostDone, Goto, InTask, TypeOK
<1>4. TypeOK'
  <2>1. tpc' \in [TaskIds -> TaskPcs]
    BY <1>2 DEF TypeOK, InTask, TaskPcs
  <2>2. terr' \in [TaskIds -> TaskIds \cup {Nil}]
    BY <1>3 DEF TypeOK
  <2>3. tstep' \in [TaskIds -> Nat]
    <3>1. tstep \in [TaskIds -> Nat]
      BY DEF TypeOK
    <3>2. \/ tstep' = tstep
          \/ tstep' = [tstep EXCEPT ![t] = 1]
          \/ tstep' = [tstep EXCEPT ![t] = @ + 1]
      BY DEF LocalStep, ConnectFails, Connect, StepOk, StepBreaks, StepFails,
         StepsDone, PostStepOk, PostDone
    <3> HIDE DEF IInv
    <3> QED
      BY <3>1, <3>2
  <2>5. tbar' \in [TaskIds -> Int]
    <3>1. CASE ConnectFails(t) \/ Connect(t)
      <4>1. t \in 1..n
        BY <3>1 DEF ConnectFails, Connect, Goto, LoopInv, TypeOK, TaskIds
      <4>2. subBar[ptid[t]] \in Int
        BY <4>1 DEF TypeOK
      <4> QED
        BY <3>1, <4>2 DEF ConnectFails, Connect, GetSubBar, TypeOK
    <3>2. CASE ~(ConnectFails(t) \/ Connect(t))
      BY <3>2 DEF TypeOK, LocalStep, StepOk, StepBreaks, StepFails,
         StepsDone, PostStepOk, PostDone
    <3> QED
      BY <3>1, <3>2
  <2> QED
    BY <1>1, <2>1, <2>2, <2>3, <2>5 DEF TypeOK
<1>5. Working' = Working /\ Waited' = Waited
  BY <1>1, <1>2 DEF Working, Waited, Unslotted, Unwaited, InTask, TypeOK
<1>6. SlotInv' /\ WgInv' /\ RetInv'
  BY <1>1, <1>5 DEF SlotInv, WgInv, RetInv, One, Concurrency
<1>7. LoopInv' /\ NothingLeftBehind'
  BY <1>1, <1>2 DEF LoopInv, NothingLeftBehind, TypeOK, InTask, TaskIds
<1>8. ErrInv'
  BY <1>1, <1>2, <1>3, ZenonT(30) DEF ErrInv, TypeOK, InTask, Recorded
<1> QED
  BY <1>4, <1>6, <1>7, <1>8

\* monitor.set records the error of the task before its worker goes on to end.
LEMMA SetResultPreservesIInv ==
  ASSUME IInv, NEW t \in TaskIds, SetResult(t)
  PROVE  IInv'
<1> USE TasksAssumption DEF IInv
<1>1. /\ UNCHANGED <<opts, n, ptid, mpc, next, ret, wg, slots, nextBar, mainBar,
                      subBar, fill, tstep, tbar, terr>>
      /\ tpc[t] = "set" /\ tpc' = [tpc EXCEPT ![t] = "incr"]
      /\ err' = IF terr[t] = Nil THEN err ELSE terr[t]
  BY DEF SetResult, Goto, MonitorSet, MonitorErr, workerUnchanged, mainVars, barVars
<1>2. result' \in [BarIds -> [Kinds -> Nat]]
  BY CountType DEF SetResult, MonitorSet, TypeOK
<1>3. TypeOK'
  BY <1>1, <1>2 DEF TypeOK, TaskPcs
<1>4. Working' = Working /\ Waited' = Waited
  BY <1>1 DEF Working, Waited, Unslotted, Unwaited, TypeOK
<1>5. mpc # "done" /\ ret = NotReturned
  <2>1. t \in 1..n => mpc \notin {"incr", "status", "drain", "done"}
    BY <1>1 DEF NothingLeftBehind
  <2>2. t \in 1..n
    BY <1>1 DEF LoopInv, TypeOK, TaskIds
  <2> QED
    BY <2>1, <2>2 DEF RetInv
<1>6. SlotInv' /\ WgInv' /\ RetInv'
  BY <1>1, <1>4, <1>5 DEF SlotInv, WgInv, RetInv, One, Concurrency
<1>7. LoopInv' /\ NothingLeftBehind'
  BY <1>1 DEF LoopInv, NothingLeftBehind, TypeOK, TaskIds
<1>8. ErrInv'
  BY <1>1 DEF ErrInv, TypeOK, Recorded, Nil, TaskIds
<1> QED
  BY <1>3, <1>6, <1>7, <1>8

\* Advancing the bar changes only how full it is.
LEMMA IncrSubBarPreservesIInv ==
  ASSUME IInv, NEW t \in TaskIds, IncrSubBar(t)
  PROVE  IInv'
<1> USE TasksAssumption DEF IInv
<1>1. /\ UNCHANGED <<opts, n, ptid, mpc, next, ret, wg, slots, nextBar, mainBar,
                      subBar, result, err, tstep, tbar, terr>>
      /\ tpc[t] = "incr" /\ tpc' = [tpc EXCEPT ![t] = "release"]
  BY DEF IncrSubBar, IncrBy1, Goto, workerUnchanged, mainVars, barVars, monitor
<1>2. fill' \in [BarIds -> Nat]
  <2>1. fill \in [BarIds -> Nat]
    BY DEF TypeOK
  <2>2. fill' = fill \/ fill' = [fill EXCEPT ![tbar[t]] = @ + 1]
    BY DEF IncrSubBar, IncrBy1, barVars
  <2>3. [fill EXCEPT ![tbar[t]] = @ + 1] \in [BarIds -> Nat]
    BY <2>1, IncrType
  <2> QED
    BY <2>1, <2>2, <2>3
<1>3. TypeOK'
  BY <1>1, <1>2 DEF TypeOK, TaskPcs
<1>4. Working' = Working /\ Waited' = Waited
  BY <1>1 DEF Working, Waited, Unslotted, Unwaited, TypeOK
<1>5. SlotInv' /\ WgInv' /\ RetInv'
  BY <1>1, <1>4 DEF SlotInv, WgInv, RetInv, One, Concurrency
<1>6. LoopInv' /\ NothingLeftBehind'
  BY <1>1 DEF LoopInv, NothingLeftBehind, TypeOK, TaskIds
<1>7. ErrInv'
  BY <1>1 DEF ErrInv, TypeOK, Recorded
<1> QED
  BY <1>3, <1>5, <1>6, <1>7

\* A worker that gives its slot back is no longer counted as working.
LEMMA ReleaseSlotPreservesIInv ==
  ASSUME IInv, NEW t \in TaskIds, ReleaseSlot(t)
  PROVE  IInv'
<1> USE TasksAssumption DEF IInv
<1>1. /\ UNCHANGED <<opts, n, ptid, mpc, next, ret, wg, nextBar, mainBar, subBar,
                      fill, result, err, tstep, tbar, terr>>
      /\ tpc[t] = "release" /\ tpc' = [tpc EXCEPT ![t] = "wgdone"]
      /\ slots' = slots - 1
  BY DEF ReleaseSlot, Goto, workerUnchanged, mainVars, barVars, monitor
<1>2. Working' = Working \ {t} /\ t \in Working /\ Waited' = Waited
  BY <1>1 DEF Working, Waited, Unslotted, Unwaited, TypeOK
<1>3. /\ Cardinality(Working') = Cardinality(Working) - 1
      /\ Cardinality(Working') \in Nat /\ Cardinality(Working) \in Nat
  BY <1>2, CountRemove, TaskSetFinite DEF Working
<1>4. Concurrency \in Nat /\ Concurrency' = Concurrency
  BY <1>1 DEF Concurrency, TypeOK, Options
<1>5. SlotInv' /\ WgInv' /\ RetInv'
  BY <1>1, <1>2, <1>3, <1>4 DEF SlotInv, WgInv, RetInv, One
<1>6. slots' \in Nat
  BY <1>3, <1>5 DEF SlotInv, One
<1>7. TypeOK'
  BY <1>1, <1>6 DEF TypeOK, TaskPcs
<1>8. LoopInv' /\ NothingLeftBehind'
  BY <1>1 DEF LoopInv, NothingLeftBehind, TypeOK, TaskIds
<1>9. ErrInv'
  BY <1>1 DEF ErrInv, TypeOK, Recorded
<1> QED
  BY <1>5, <1>7, <1>8, <1>9

\* wg.Done of a worker takes one off the wait group and off those waited for.
LEMMA WorkerDonePreservesIInv ==
  ASSUME IInv, NEW t \in TaskIds, WorkerDone(t)
  PROVE  IInv'
<1> USE TasksAssumption DEF IInv
<1>1. /\ UNCHANGED <<opts, n, ptid, mpc, next, ret, slots, nextBar, mainBar, subBar,
                      fill, result, err, tstep, tbar, terr>>
      /\ tpc[t] = "wgdone" /\ tpc' = [tpc EXCEPT ![t] = "ended"]
      /\ wg' = wg - 1
  BY DEF WorkerDone, Goto, workerUnchanged, mainVars, barVars, monitor
<1>2. Waited' = Waited \ {t} /\ t \in Waited /\ Working' = Working
  BY <1>1 DEF Working, Waited, Unslotted, Unwaited, TypeOK
<1>3. /\ Cardinality(Waited') = Cardinality(Waited) - 1
      /\ Cardinality(Waited') \in Nat /\ Cardinality(Waited) \in Nat
  BY <1>2, CountRemove, TaskSetFinite DEF Waited
<1>4. Concurrency' = Concurrency
  BY <1>1 DEF Concurrency
<1>5. SlotInv' /\ WgInv' /\ RetInv'
  BY <1>1, <1>2, <1>3, <1>4 DEF SlotInv, WgInv, RetInv, One
<1>6. wg' \in Nat
  BY <1>3, <1>5 DEF WgInv, One
<1>7. TypeOK'
  BY <1>1, <1>6 DEF TypeOK, TaskPcs
<1>8. LoopInv' /\ NothingLeftBehind'
  BY <1>1, SMTT(30) DEF LoopInv, NothingLeftBehind, TypeOK, TaskIds
<1>9. ErrInv'
  BY <1>1 DEF ErrInv, TypeOK, Recorded
<1> QED
  BY <1>5, <1>7, <1>8, <1>9

(***************************************************************************)
(* The invariants                                                          *)
(***************************************************************************)

\* Every step of Execute and of its workers keeps the inductive invariant.
LEMMA StepPreservesIInv == IInv /\ [Next]_vars => IInv'
<1> SUFFICES ASSUME IInv, [Next]_vars PROVE IInv'
  OBVIOUS
<1>1. CASE MainNext
  BY <1>1, MainPreservesIInv
<1>2. ASSUME NEW t \in TaskIds, WorkerNext(t) PROVE IInv'
  BY <1>2, LocalPreservesIInv, SetResultPreservesIInv, IncrSubBarPreservesIInv,
     ReleaseSlotPreservesIInv, WorkerDonePreservesIInv DEF WorkerNext, LocalStep
<1>3. CASE UNCHANGED vars
  BY <1>3 DEF vars, IInv, TypeOK, SlotInv, WgInv, LoopInv, ErrInv, RetInv,
     NothingLeftBehind, Working, Waited, One, Concurrency
<1> QED
  BY <1>1, <1>2, <1>3 DEF Next, Returned

\* Every reachable state of Execute satisfies the inductive invariant.
THEOREM TasksInvariant == Spec => []IInv
BY InitIInv, StepPreservesIInv, PTL DEF Spec

\* Execute's variables keep their types: neither the wait group nor the worker
\* channel goes below zero.
THEOREM TypeCorrect == Spec => []TypeOK
BY TasksInvariant, PTL DEF IInv

\* At most ExecOptions.Concurrency tasks are in flight, for every batch.
THEOREM ConcurrencyIsRespected == Spec => []ConcurrencyRespected
<1>1. IInv => ConcurrencyRespected
  <2> SUFFICES ASSUME IInv PROVE ConcurrencyRespected
    OBVIOUS
  <2>1. Cardinality(Working) \in Nat /\ Concurrency \in Nat
    BY TaskSetFinite, TasksAssumption DEF Working, IInv, TypeOK, Concurrency, Options
  <2> QED
    BY <2>1 DEF IInv, SlotInv, One, ConcurrencyRespected
<1> QED
  BY <1>1, TasksInvariant, PTL

\* When the wait group lets Execute go on, every task of the batch has ended.
THEOREM NothingIsLeftBehind == Spec => []NothingLeftBehind
BY TasksInvariant, PTL DEF IInv

\* Execute returns nil exactly when no task failed, and the error of a failed
\* task otherwise.
THEOREM ErrorIsReported == Spec => []ErrorReported
<1>1. IInv => ErrorReported
  <2> SUFFICES ASSUME IInv, ret # NotReturned PROVE
        /\ ret = Nil <=> \A t \in 1..n : terr[t] = Nil
        /\ ret # Nil => terr[ret] = ret
    BY DEF ErrorReported
  <2>1. ret = err /\ mpc = "done"
    BY DEF IInv, RetInv
  <2>2. 1..n \subseteq TaskIds /\ n \in Nat /\ next \in Nat
    BY TasksAssumption DEF IInv, TypeOK, TaskIds
  <2>3. \A t \in 1..n : tpc[t] = "ended"
    BY <2>1 DEF IInv, NothingLeftBehind
  <2>4. err = Nil => \A t \in 1..n : terr[t] = Nil
    BY <2>2, <2>3 DEF IInv, ErrInv, Recorded
  <2>5. err # Nil => terr[err] = err /\ err \in 1..n
    <3> SUFFICES ASSUME err # Nil PROVE terr[err] = err /\ err \in 1..n
      OBVIOUS
    <3>1. err \in TaskIds /\ terr[err] = err /\ tpc[err] # "none"
      BY DEF IInv, TypeOK, ErrInv, Recorded
    <3>2. err < next /\ (next = n + 1 \/ n = 0)
      BY <2>1, <2>2, <3>1 DEF IInv, LoopInv, TaskIds
    <3>3. next \in 1..(n + 1)
      BY DEF IInv, TypeOK
    <3> QED
      BY <2>2, <3>1, <3>2, <3>3 DEF TaskIds
  <2> QED
    BY <2>1, <2>4, <2>5
<1> QED
  BY <1>1, TasksInvariant, PTL

(***************************************************************************)
(* The progress bars                                                       *)
(*                                                                         *)
(* The bar of a parent id counts the tasks of that id whose worker went    *)
(* past it, and its results are those of the tasks that were recorded.     *)
(* Ids are given out in order, so that no two bars share one; only with    *)
(* silent sub bars do the workers record under the id of the main bar.     *)
(***************************************************************************)

Barred == {p \in Ptids : subBar[p] # NoBar}
TasksOf(p) == {t \in 1..n : ptid[t] = p}

\* The workers of T that advanced their bar.
Passed == {"release", "wgdone", "ended"}
Filled(T, at) == {t \in T : at[t] \in Passed}

\* The counters r are those of the tasks T, with their workers where `at` says
\* and their errors e.
Counts(r, T, at, e) ==
  /\ r["err"] = 0 <=> \A t \in T : at[t] \in Recorded => e[t] = Nil
  /\ r["succ"] = 0 <=> \A t \in T : at[t] \in Recorded => e[t] # Nil
  /\ r["skip"] = 0

Tally(b, T) == Counts(result[b], T, tpc, terr)

MainBarInv ==
  /\ mainBar # NoBar <=> (mpc # "begin" /\ n > 0 /\ ~opts.silentMainBar)
  /\ mainBar \in {NoBar, 0}
  /\ nextBar = Cardinality(Barred) + (IF mainBar = NoBar THEN 0 ELSE 1)
  /\ mpc = "begin" => Barred = {}

SubBarInv ==
  /\ \A p \in Barred : subBar[p] \in 0..(nextBar - 1) /\ subBar[p] # mainBar
  /\ \A p, q \in Barred : subBar[p] = subBar[q] => p = q
  /\ opts.silentSubBar => Barred = {}
  /\ ~opts.silentSubBar => \A t \in 1..n : tpc[t] # "none" => ptid[t] \in Barred
  /\ \A p \in Barred : \E t \in 1..n : ptid[t] = p /\ tpc[t] # "none"
  /\ \A t \in 1..n : tpc[t] \notin {"none", "connect"} => tbar[t] = subBar[ptid[t]]

FillInv ==
  /\ \A p \in Barred : fill[subBar[p]] = Cardinality(Filled(TasksOf(p), tpc))
  /\ \A b \in BarIds : b >= nextBar => fill[b] = 0

\* The tasks whose results are recorded under the id of the main bar.
MainTasks == IF opts.silentSubBar THEN 1..n ELSE {}

Closed == {"drain", "done"}

TallyInv ==
  /\ \A p \in Barred : Tally(subBar[p], TasksOf(p))
  /\ (~opts.silentSubBar \/ mpc = "begin") => \A b \in BarIds : b >= nextBar => Tally(b, {})
  /\ (mainBar # NoBar /\ mpc \notin Closed) => Tally(0, MainTasks)
  /\ (mainBar # NoBar /\ mpc \in Closed) => MonitorGet(0) = Verdict(1..n)

BarInv == MainBarInv /\ SubBarInv /\ FillInv /\ TallyInv

\* Before Execute begins there is no bar, and nothing was counted.
LEMMA InitBarInv == Init => BarInv
<1> SUFFICES ASSUME Init PROVE BarInv
  OBVIOUS
<1>1. Barred = {}
  BY DEF Init, Barred
<1>2. Cardinality(Barred) = 0
  BY <1>1, FS_EmptySet
<1>3. MainBarInv
  BY <1>1, <1>2 DEF Init, MainBarInv, NoBar
<1>4. n \in 0..MaxTasks /\ 1..n \subseteq TaskIds
  BY TasksAssumption DEF Init, TaskIds
<1>5. \A t \in 1..n : tpc[t] = "none"
  BY <1>4 DEF Init
<1>6. SubBarInv
  BY <1>1, <1>5 DEF SubBarInv
<1>7. FillInv
  BY <1>1 DEF Init, FillInv
<1>8. \A b \in BarIds : Tally(b, {})
  BY DEF Init, Tally, Counts, NoResult, Kinds
<1>9. TallyInv
  BY <1>1, <1>8 DEF Init, TallyInv, NoBar
<1> QED
  BY <1>3, <1>6, <1>7, <1>9 DEF BarInv

\* As far as a bar can tell, task t did not move.
Unmoved(t) ==
  /\ tpc'[t] = "none" <=> tpc[t] = "none"
  /\ tpc'[t] \in Recorded <=> tpc[t] \in Recorded
  /\ tpc'[t] \in Passed <=> tpc[t] \in Passed
  /\ tpc[t] \in Recorded => terr'[t] = terr[t]
  /\ tpc'[t] \notin {"none", "connect"} => tbar'[t] = subBar[ptid[t]]

\* A step that changes nothing a bar shows keeps the invariant.
LEMMA BarsStay ==
  ASSUME IInv, BarInv,
         UNCHANGED <<opts, n, ptid, nextBar, mainBar, subBar, fill, result>>,
         \A t \in 1..n : Unmoved(t),
         mpc' = "begin" <=> mpc = "begin",
         (mpc' \in Closed /\ mpc \notin Closed) => mainBar = NoBar,
         mpc \in Closed => (mpc' \in Closed /\ \A t \in 1..n : terr'[t] = terr[t])
  PROVE  BarInv'
<1>1. Barred' = Barred /\ MainTasks' = MainTasks /\ \A p : TasksOf(p)' = TasksOf(p)
  BY DEF Barred, MainTasks, TasksOf
<1>2. MainBarInv'
  BY <1>1 DEF BarInv, MainBarInv
<1>3. SubBarInv'
  BY <1>1 DEF BarInv, SubBarInv, Unmoved
<1>4. \A p : Filled(TasksOf(p), tpc)' = Filled(TasksOf(p), tpc)
  BY <1>1 DEF Filled, TasksOf, Unmoved
<1>5. FillInv'
  BY <1>1, <1>4 DEF BarInv, FillInv
<1>6. ASSUME NEW r, NEW T \in SUBSET (1..n)
      PROVE  Counts(r, T, tpc', terr') <=> Counts(r, T, tpc, terr)
  <2>1. \A t \in T : Unmoved(t)
    OBVIOUS
  <2> QED
    BY <2>1 DEF Counts, Unmoved
<1>7. MainTasks \in SUBSET (1..n) /\ {} \in SUBSET (1..n) /\ \A p : TasksOf(p) \in SUBSET (1..n)
  BY DEF MainTasks, TasksOf
<1>8. \A p \in Barred' : Tally(subBar[p], TasksOf(p))'
  BY <1>1, <1>6, <1>7 DEF BarInv, TallyInv, Tally
<1>9. (~opts.silentSubBar' \/ mpc' = "begin") => \A b \in BarIds : b >= nextBar' => Tally(b, {})'
  BY <1>6, <1>7 DEF BarInv, TallyInv, Tally
<1>10. (mainBar' # NoBar /\ mpc' \notin Closed) => Tally(0, MainTasks)'
  BY <1>1, <1>6, <1>7 DEF BarInv, TallyInv, Tally
<1>11. (mainBar' # NoBar /\ mpc' \in Closed) => MonitorGet(0)' = Verdict(1..n)'
  <2> SUFFICES ASSUME mainBar' # NoBar, mpc' \in Closed PROVE MonitorGet(0)' = Verdict(1..n)'
    OBVIOUS
  <2>1. mpc \in Closed /\ MonitorGet(0) = Verdict(1..n)
    BY DEF BarInv, TallyInv
  <2>2. MonitorGet(0)' = MonitorGet(0)
    BY DEF MonitorGet
  <2>3. Verdict(1..n)' = Verdict(1..n)
    BY <2>1 DEF Verdict
  <2> QED
    BY <2>1, <2>2, <2>3
<1>12. TallyInv'
  BY <1>8, <1>9, <1>10, <1>11 DEF TallyInv
<1> QED
  BY <1>2, <1>3, <1>5, <1>12 DEF BarInv

\* Every bar id that was given out, and the next one while a parent id has no bar,
\* is one of BarIds.
LEMMA BarIdsSuffice ==
  ASSUME IInv, BarInv
  PROVE  /\ IsFiniteSet(Barred) /\ Cardinality(Barred) \in Nat /\ Cardinality(Ptids) \in Nat
         /\ \A p \in Barred : subBar[p] \in BarIds
         /\ Barred # Ptids => nextBar \in BarIds
         /\ 0 \in BarIds
<1>1. IsFiniteSet(Ptids) /\ Barred \in SUBSET Ptids
  BY TasksAssumption DEF Barred
<1>2. /\ IsFiniteSet(Barred) /\ Cardinality(Barred) \in Nat /\ Cardinality(Ptids) \in Nat
      /\ Cardinality(Barred) <= Cardinality(Ptids)
      /\ Barred # Ptids => Cardinality(Barred) # Cardinality(Ptids)
  BY <1>1, FS_Subset, FS_CardinalityType
<1>3. nextBar = Cardinality(Barred) + (IF mainBar = NoBar THEN 0 ELSE 1)
  BY DEF BarInv, MainBarInv
<1>4. nextBar \in Nat /\ nextBar <= Cardinality(Ptids) + 1
      /\ (Barred # Ptids => nextBar <= Cardinality(Ptids))
  BY <1>2, <1>3
<1>5. \A p \in Barred : subBar[p] \in BarIds
  BY <1>2, <1>4 DEF BarInv, SubBarInv, BarIds
<1> QED
  BY <1>2, <1>4, <1>5 DEF BarIds

\* The main bar is the first one.
LEMMA BeginBars ==
  ASSUME IInv, BarInv, Begin
  PROVE  BarInv'
<1>1. /\ mpc = "begin" /\ UNCHANGED <<opts, n, ptid, result, err, tpc, tbar, terr>>
      /\ mpc' = IF n = 0 THEN "done" ELSE "loop"
  BY DEF Begin, mainVars, monitor, taskVars
<1>2. n \in Nat /\ 1..n \subseteq TaskIds /\ \A t \in 1..n : tpc[t] = "none"
  <2>1. n \in 0..MaxTasks /\ MaxTasks \in Nat /\ next = 1
    BY <1>1, TasksAssumption DEF IInv, TypeOK, LoopInv
  <2>2. 1..n \subseteq TaskIds /\ n \in Nat /\ \A t \in 1..n : t >= next
    BY <2>1 DEF TaskIds
  <2> QED
    BY <2>2 DEF IInv, LoopInv
<1>3. mainBar = NoBar /\ Barred = {} /\ nextBar = 0
  <2>1. mainBar = NoBar /\ Barred = {}
    BY <1>1 DEF BarInv, MainBarInv
  <2> QED
    BY <2>1, FS_EmptySet DEF BarInv, MainBarInv
<1>4. UNCHANGED <<subBar, fill>> /\ Barred' = Barred
  BY DEF Begin, barVars, AddMainBar, Barred
<1>5. \/ (n = 0 \/ opts.silentMainBar) /\ UNCHANGED <<nextBar, mainBar>>
      \/ ~(n = 0 \/ opts.silentMainBar) /\ mainBar' = 0 /\ nextBar' = 1
  BY <1>3 DEF Begin, barVars, AddMainBar
<1>6. Cardinality(Barred') = 0
  BY <1>3, <1>4, FS_EmptySet
<1>7. MainBarInv'
  BY <1>1, <1>2, <1>3, <1>4, <1>5, <1>6 DEF MainBarInv, NoBar
<1>8. SubBarInv'
  BY <1>1, <1>2, <1>3, <1>4 DEF SubBarInv
<1>9. FillInv'
  <2>1. nextBar' \in Nat /\ \A b \in BarIds : b >= nextBar' => b >= nextBar
    BY <1>3, <1>5 DEF BarIds
  <2> QED
    BY <1>3, <1>4, <2>1 DEF BarInv, FillInv
<1>10. \A b \in BarIds : Tally(b, {}) /\ 0 \in BarIds
  BY <1>1, <1>3, BarIdsSuffice DEF BarInv, TallyInv, BarIds
<1>11. TallyInv'
  <2>1. \A b \in BarIds : Tally(b, {})'
    BY <1>1, <1>10 DEF Tally
  <2>2. Tally(0, MainTasks)'
    <3>1. Counts(result[0], {}, tpc, terr) /\ MainTasks' \subseteq 1..n
      BY <1>1, <1>10, BarIdsSuffice DEF Tally, MainTasks
    <3>2. Counts(result[0], MainTasks', tpc, terr)
      BY <1>2, <3>1 DEF Counts, Recorded
    <3> QED
      BY <1>1, <3>2 DEF Tally
  <2>3. mpc' \in Closed => n = 0
    BY <1>1 DEF Closed
  <2>4. n = 0 => mainBar' = NoBar
    BY <1>3, <1>5
  <2> QED
    BY <1>3, <1>4, <2>1, <2>2, <2>3, <2>4 DEF TallyInv
<1> QED
  BY <1>7, <1>8, <1>9, <1>11 DEF BarInv

\* The steps of Execute that only wait or count.
LEMMA MainQuietBars ==
  ASSUME IInv, BarInv, AddWaiter \/ AcquireSlot \/ EndLoop \/ WaitGroup \/ ProgressWait
  PROVE  BarInv'
<1>1. /\ UNCHANGED <<opts, n, ptid, nextBar, mainBar, subBar, fill, result, tpc, tbar, terr>>
      /\ mpc # "begin" /\ mpc' # "begin"
      /\ (mpc' \in Closed /\ mpc \notin Closed) => mainBar = NoBar
      /\ mpc \in Closed => mpc' \in Closed
  BY DEF AddWaiter, AcquireSlot, EndLoop, WaitGroup, ProgressWait, mainVars, barVars, monitor,
     taskVars, Closed
<1>2. \A t \in 1..n : Unmoved(t)
  BY <1>1 DEF Unmoved, BarInv, SubBarInv
<1> QED
  BY <1>1, <1>2, BarsStay

\* The task that is spawned finds a bar for its parent id, or gets a new one.
LEMMA SpawnBars ==
  ASSUME IInv, BarInv, Spawn
  PROVE  BarInv'
<1>1. /\ mpc = "spawn" /\ mpc' = "loop"
      /\ UNCHANGED <<opts, n, ptid, result, err, tbar, terr, mainBar, fill>>
      /\ tpc' = [tpc EXCEPT ![next] = "connect"]
  BY DEF Spawn, mainVars, monitor, barVars, AddSubBar
<1>2. n \in Nat /\ 1..n \subseteq TaskIds /\ next \in 1..n /\ tpc[next] = "none"
  <2>1. n \in 0..MaxTasks /\ MaxTasks \in Nat /\ next \in 1..(n + 1) /\ next <= n
    BY <1>1, TasksAssumption DEF IInv, TypeOK, LoopInv
  <2>2. 1..n \subseteq TaskIds /\ n \in Nat /\ next \in 1..n /\ next >= next
    BY <2>1 DEF TaskIds
  <2> QED
    BY <2>2 DEF IInv, LoopInv
<1>3. tpc \in [TaskIds -> TaskPcs] /\ ptid[next] \in Ptids /\ subBar \in [Ptids -> Int]
  BY <1>2 DEF IInv, TypeOK
<1>4. \A t \in 1..n : tpc'[t] = IF t = next THEN "connect" ELSE tpc[t]
  BY <1>1, <1>2, <1>3
<1>5. (\A p : TasksOf(p)' = TasksOf(p)) /\ MainTasks' = MainTasks
  BY <1>1 DEF TasksOf, MainTasks
<1>6. \A p : Filled(TasksOf(p), tpc)' = Filled(TasksOf(p), tpc)
  BY <1>2, <1>4, <1>5 DEF Filled, TasksOf, Passed
<1>7. ASSUME NEW r, NEW T \in SUBSET (1..n)
      PROVE  Counts(r, T, tpc', terr') <=> Counts(r, T, tpc, terr)
  <2>1. \A t \in T : tpc'[t] \in Recorded <=> tpc[t] \in Recorded
    BY <1>2, <1>4 DEF Recorded
  <2> QED
    BY <1>1, <2>1 DEF Counts
<1>8. MainTasks \in SUBSET (1..n) /\ {} \in SUBSET (1..n) /\ \A p : TasksOf(p) \in SUBSET (1..n)
  BY DEF MainTasks, TasksOf
<1>9. CASE UNCHANGED <<nextBar, subBar>>
  <2>1. Barred' = Barred
    BY <1>9 DEF Barred
  <2>2. ~opts.silentSubBar => ptid[next] \in Barred
    BY <1>2, <1>3, <1>9 DEF Spawn, AddSubBar, Barred, BarInv, SubBarInv, IInv, TypeOK
  <2>3. MainBarInv'
    BY <1>1, <1>9, <2>1 DEF BarInv, MainBarInv
  <2>4. SubBarInv'
    BY <1>1, <1>2, <1>4, <1>9, <2>1, <2>2 DEF BarInv, SubBarInv
  <2>5. FillInv'
    BY <1>1, <1>6, <1>9, <2>1 DEF BarInv, FillInv
  <2>6. TallyInv'
    BY <1>1, <1>5, <1>7, <1>8, <1>9, <2>1 DEF BarInv, TallyInv, Tally, Closed
  <2> QED
    BY <2>3, <2>4, <2>5, <2>6 DEF BarInv
<1>10. CASE ~UNCHANGED <<nextBar, subBar>>
  <2> DEFINE p == ptid[next]
  <2>1. /\ p \in Ptids /\ subBar[p] = NoBar /\ ~opts.silentSubBar
        /\ subBar' = [subBar EXCEPT ![p] = nextBar] /\ nextBar' = nextBar + 1
    BY <1>3, <1>10 DEF Spawn, AddSubBar, barVars
  <2>2. nextBar \in Nat /\ nextBar # NoBar /\ nextBar \in BarIds
    BY <2>1, BarIdsSuffice DEF Barred, IInv, TypeOK, NoBar
  <2>3. p \notin Barred /\ Barred' = Barred \cup {p} /\ subBar'[p] = nextBar
        /\ \A q \in Barred : subBar'[q] = subBar[q]
    BY <1>3, <2>1, <2>2 DEF Barred
  <2>4. \A t \in TasksOf(p) : tpc[t] = "none"
    BY <2>1, <2>3 DEF TasksOf, BarInv, SubBarInv
  <2> HIDE DEF p
  <2>5. MainBarInv'
    <3>1. Cardinality(Barred') = Cardinality(Barred) + 1 /\ Cardinality(Barred) \in Nat
      BY <2>3, BarIdsSuffice, FS_AddElement
    <3> QED
      BY <1>1, <2>1, <3>1 DEF BarInv, MainBarInv
  <2>6. SubBarInv'
    <3>1. \A q \in Barred : subBar[q] \in 0..(nextBar - 1) /\ subBar[q] # mainBar
      BY DEF BarInv, SubBarInv
    <3>2. mainBar # nextBar
      BY <2>2, BarIdsSuffice DEF BarInv, MainBarInv
    <3>3. \A q \in Barred' : subBar'[q] \in 0..(nextBar' - 1) /\ subBar'[q] # mainBar'
      BY <1>1, <2>1, <2>2, <2>3, <3>1, <3>2
    <3>4. \A q, s \in Barred' : subBar'[q] = subBar'[s] => q = s
      <4>1. \A q \in Barred : subBar[q] # nextBar
        BY <2>2, <3>1
      <4>2. \A q, s \in Barred : subBar[q] = subBar[s] => q = s
        BY DEF BarInv, SubBarInv
      <4> QED
        BY <2>3, <4>1, <4>2
    <3>5. \A t \in 1..n : tpc'[t] # "none" => ptid[t] \in Barred'
      BY <1>4, <2>1, <2>3 DEF BarInv, SubBarInv, p
    <3>6. \A q \in Barred' : \E t \in 1..n : ptid[t] = q /\ tpc'[t] # "none"
      <4>1. \A q \in Barred : \E t \in 1..n : ptid[t] = q /\ tpc'[t] # "none"
        BY <1>4 DEF BarInv, SubBarInv
      <4>2. ptid[next] = p /\ tpc'[next] # "none"
        BY <1>2, <1>4 DEF p
      <4> QED
        BY <1>2, <2>3, <4>1, <4>2
    <3>7. \A t \in 1..n : tpc'[t] \notin {"none", "connect"} => tbar'[t] = subBar'[ptid[t]]
      <4> SUFFICES ASSUME NEW t \in 1..n, tpc'[t] \notin {"none", "connect"}
                   PROVE  tbar'[t] = subBar'[ptid[t]]
        OBVIOUS
      <4>1. tpc[t] \notin {"none", "connect"}
        BY <1>4
      <4>2. tbar[t] = subBar[ptid[t]] /\ ptid[t] \in Barred
        BY <2>1, <4>1 DEF BarInv, SubBarInv
      <4> QED
        BY <1>1, <2>3, <4>2
    <3> QED
      BY <1>1, <2>1, <3>3, <3>4, <3>5, <3>6, <3>7 DEF SubBarInv
  <2>7. FillInv'
    <3>1. Filled(TasksOf(p), tpc) = {}
      BY <2>4 DEF Filled, Passed
    <3>2. fill[nextBar] = 0 /\ Cardinality(Filled(TasksOf(p), tpc)) = 0
      BY <2>2, <3>1, FS_EmptySet DEF BarInv, FillInv
    <3>3. \A q \in Barred' : fill'[subBar'[q]] = Cardinality(Filled(TasksOf(q), tpc)')
      BY <1>1, <1>6, <2>3, <3>2 DEF BarInv, FillInv
    <3>4. \A b \in BarIds : b >= nextBar' => b >= nextBar
      BY <2>1, <2>2 DEF BarIds
    <3> QED
      BY <1>1, <3>3, <3>4 DEF BarInv, FillInv
  <2>8. TallyInv'
    <3>1. Counts(result[nextBar], TasksOf(p), tpc, terr)
      <4>1. Counts(result[nextBar], {}, tpc, terr)
        BY <2>1, <2>2 DEF BarInv, TallyInv, Tally
      <4> QED
        BY <2>4, <4>1 DEF Counts, Recorded
    <3>2. \A q \in Barred' : Tally(subBar[q], TasksOf(q))'
      <4> SUFFICES ASSUME NEW q \in Barred'
                   PROVE  Counts(result'[subBar'[q]], TasksOf(q)', tpc', terr')
        BY DEF Tally
      <4>1. Counts(result[subBar'[q]], TasksOf(q), tpc, terr)
        BY <2>3, <3>1 DEF BarInv, TallyInv, Tally
      <4> QED
        BY <1>1, <1>5, <1>7, <1>8, <4>1
    <3>3. \A b \in BarIds : b >= nextBar' => Tally(b, {})'
      <4> SUFFICES ASSUME NEW b \in BarIds, b >= nextBar'
                   PROVE  Counts(result'[b], {}, tpc', terr')
        BY DEF Tally
      <4>1. b >= nextBar
        BY <2>1, <2>2 DEF BarIds
      <4>2. Counts(result[b], {}, tpc, terr)
        BY <2>1, <4>1 DEF BarInv, TallyInv, Tally
      <4> QED
        BY <1>1, <1>7, <1>8, <4>2
    <3>4. mainBar' # NoBar => Tally(0, MainTasks)'
      <4> SUFFICES ASSUME mainBar # NoBar
                   PROVE  Counts(result'[0], MainTasks', tpc', terr')
        BY <1>1 DEF Tally
      <4>1. Counts(result[0], MainTasks, tpc, terr)
        BY <1>1 DEF BarInv, TallyInv, Tally, Closed
      <4> QED
        BY <1>1, <1>5, <1>7, <1>8, <4>1
    <3> QED
      BY <1>1, <3>2, <3>3, <3>4 DEF TallyInv, Closed
  <2> QED
    BY <2>5, <2>6, <2>7, <2>8 DEF BarInv
<1> QED
  BY <1>9, <1>10

\* A worker that moves is one of the batch, and Execute still waits for it.
LEMMA WorkerOfBatch ==
  ASSUME IInv, NEW t \in TaskIds, tpc[t] \notin {"none", "ended"}
  PROVE  /\ t \in 1..n /\ 1..n \subseteq TaskIds
         /\ mpc \notin {"begin", "incr", "status", "drain", "done"}
<1>1. /\ n \in 0..MaxTasks /\ MaxTasks \in Nat /\ next \in 1..(n + 1)
      /\ t < next
  BY TasksAssumption DEF IInv, TypeOK, LoopInv, TaskIds
<1>2. t \in 1..n /\ 1..n \subseteq TaskIds /\ next # 1
  BY <1>1 DEF TaskIds
<1> QED
  BY <1>2 DEF IInv, NothingLeftBehind, LoopInv

\* The steps of a task, and the end of a worker, leave the bars alone.
LEMMA WorkerQuietBars ==
  ASSUME IInv, BarInv, NEW t \in TaskIds, LocalStep(t) \/ ReleaseSlot(t) \/ WorkerDone(t)
  PROVE  BarInv'
<1>1. /\ UNCHANGED <<opts, n, ptid, nextBar, mainBar, subBar, fill, result, mpc>>
      /\ tpc[t] \notin {"none", "ended"}
  BY DEF LocalStep, ConnectFails, Connect, StepOk, StepBreaks, StepFails, StepsDone, PostStepOk,
     PostDone, ReleaseSlot, WorkerDone, Goto, workerUnchanged, mainVars, barVars, monitor
<1>2. t \in 1..n /\ 1..n \subseteq TaskIds /\ mpc \notin {"begin", "incr", "status", "drain", "done"}
  BY <1>1, WorkerOfBatch
<1>3. /\ tpc \in [TaskIds -> TaskPcs] /\ tbar \in [TaskIds -> Int]
      /\ terr \in [TaskIds -> TaskIds \cup {Nil}]
  BY DEF IInv, TypeOK
<1>4. \A u \in TaskIds : u # t => tpc'[u] = tpc[u] /\ tbar'[u] = tbar[u] /\ terr'[u] = terr[u]
  BY <1>3 DEF LocalStep, ConnectFails, Connect, StepOk, StepBreaks, StepFails, StepsDone,
     PostStepOk, PostDone, ReleaseSlot, WorkerDone, Goto, GetSubBar
<1>5. \A u \in 1..n : u # t => Unmoved(u)
  BY <1>2, <1>4 DEF Unmoved, BarInv, SubBarInv
<1>6. Unmoved(t)
  <2>1. CASE LocalStep(t)
    <3>1. tpc[t] \in {"connect", "step", "post"} /\ tpc'[t] \in {"step", "post", "set"}
      BY <1>3, <2>1 DEF LocalStep, ConnectFails, Connect, StepOk, StepBreaks, StepFails,
         StepsDone, PostStepOk, PostDone, Goto
    <3>2. tbar'[t] = subBar[ptid[t]]
      <4>1. CASE tpc[t] = "connect"
        BY <1>3, <2>1, <4>1 DEF LocalStep, ConnectFails, Connect, StepOk, StepBreaks, StepFails,
           StepsDone, PostStepOk, PostDone, Goto, GetSubBar
      <4>2. CASE tpc[t] # "connect"
        <5>1. tbar' = tbar
          BY <2>1, <4>2 DEF LocalStep, ConnectFails, Connect, StepOk, StepBreaks, StepFails,
             StepsDone, PostStepOk, PostDone, Goto
        <5> QED
          BY <1>2, <3>1, <4>2, <5>1 DEF BarInv, SubBarInv
      <4> QED
        BY <4>1, <4>2
    <3> QED
      BY <3>1, <3>2 DEF Unmoved, Recorded, Passed
  <2>2. CASE ReleaseSlot(t) \/ WorkerDone(t)
    <3>1. /\ tpc[t] \in {"release", "wgdone"} /\ tpc'[t] \in {"wgdone", "ended"}
          /\ tbar' = tbar /\ terr' = terr
      BY <1>3, <2>2 DEF ReleaseSlot, WorkerDone, Goto
    <3> QED
      BY <1>2, <3>1 DEF Unmoved, Recorded, Passed, BarInv, SubBarInv
  <2> QED
    BY <2>1, <2>2
<1>7. \A u \in 1..n : Unmoved(u)
  BY <1>5, <1>6
<1>8. mpc' = mpc /\ mpc \notin Closed
  BY <1>1, <1>2 DEF Closed
<1> QED
  BY <1>1, <1>7, <1>8, BarsStay

\* The counters `new` have one more result than r, nil or an error.
OneMore(r, new, nil) ==
  /\ new["skip"] = r["skip"]
  /\ IF nil THEN new["succ"] # 0 /\ new["err"] = r["err"]
     ELSE new["err"] # 0 /\ new["succ"] = r["succ"]

\* What monitor.sum makes of one more result.
LEMMA OneMoreLemma ==
  ASSUME NEW r \in [Kinds -> Nat], NEW e, NEW k, k = IF e = Nil THEN "succ" ELSE "err",
         NEW new, new = [r EXCEPT ![k] = @ + 1]
  PROVE  OneMore(r, new, e = Nil)
<1>1. r["succ"] \in Nat /\ r["err"] \in Nat
  BY DEF Kinds
<1>2. CASE e = Nil
  BY <1>1, <1>2 DEF Kinds, OneMore
<1>3. CASE e # Nil
  BY <1>1, <1>3 DEF Kinds, OneMore
<1> QED
  BY <1>2, <1>3

\* The worker of t has its result recorded, and no other worker of T.
OneRecorded(T, t, at, bt) ==
  /\ at[t] \notin Recorded /\ bt[t] \in Recorded
  /\ \A u \in T : u # t => (bt[u] \in Recorded <=> at[u] \in Recorded)

\* One more result: the counter it belongs to is no longer zero.
LEMMA CountsAdd ==
  ASSUME NEW r, NEW T, NEW at, NEW e, NEW t \in T, Counts(r, T, at, e),
         NEW bt, OneRecorded(T, t, at, bt), NEW new, OneMore(r, new, e[t] = Nil)
  PROVE  Counts(new, T, bt, e)
<1>1. CASE e[t] = Nil
  <2>1. ~\A u \in T : bt[u] \in Recorded => e[u] # Nil
    BY <1>1 DEF OneRecorded
  <2>2. (\A u \in T : bt[u] \in Recorded => e[u] = Nil) <=> (\A u \in T : at[u] \in Recorded => e[u] = Nil)
    BY <1>1 DEF OneRecorded
  <2> QED
    BY <1>1, <2>1, <2>2 DEF Counts, OneMore
<1>2. CASE e[t] # Nil
  <2>1. ~\A u \in T : bt[u] \in Recorded => e[u] = Nil
    BY <1>2 DEF OneRecorded
  <2>2. (\A u \in T : bt[u] \in Recorded => e[u] # Nil) <=> (\A u \in T : at[u] \in Recorded => e[u] # Nil)
    BY <1>2 DEF OneRecorded
  <2> QED
    BY <1>2, <2>1, <2>2 DEF Counts, OneMore
<1> QED
  BY <1>1, <1>2

\* Tasks that were not recorded leave the counters as they are.
LEMMA CountsKeep ==
  ASSUME NEW r, NEW T, NEW at, NEW e, Counts(r, T, at, e),
         NEW bt, \A u \in T : bt[u] \in Recorded <=> at[u] \in Recorded
  PROVE  Counts(r, T, bt, e)
BY DEF Counts

\* A result is recorded for the bar that counts the task, before the bar advances.
LEMMA SetResultBars ==
  ASSUME IInv, BarInv, NEW t \in TaskIds, SetResult(t)
  PROVE  BarInv'
<1> DEFINE k == IF terr[t] = Nil THEN "succ" ELSE "err"
           b == ResultBar(t)
<1>1. /\ UNCHANGED <<opts, n, ptid, nextBar, mainBar, subBar, fill, mpc, tbar, terr>>
      /\ tpc[t] = "set" /\ tpc' = [tpc EXCEPT ![t] = "incr"]
      /\ result' = [result EXCEPT ![b][k] = @ + 1]
  BY DEF SetResult, MonitorSet, Goto, workerUnchanged, mainVars, barVars
<1>2. t \in 1..n /\ 1..n \subseteq TaskIds /\ mpc \notin {"begin", "incr", "status", "drain", "done"}
  BY <1>1, WorkerOfBatch
<1>3. /\ tpc \in [TaskIds -> TaskPcs] /\ result \in [BarIds -> [Kinds -> Nat]]
      /\ subBar \in [Ptids -> Int] /\ ptid[t] \in Ptids
  BY <1>2 DEF IInv, TypeOK
<1>4. \A u \in 1..n : tpc'[u] = IF u = t THEN "incr" ELSE tpc[u]
  BY <1>1, <1>2, <1>3
<1>5. /\ Barred' = Barred /\ MainTasks' = MainTasks /\ (\A p : TasksOf(p)' = TasksOf(p))
      /\ MainTasks \subseteq 1..n /\ \A p : TasksOf(p) \subseteq 1..n
  BY <1>1 DEF Barred, MainTasks, TasksOf
<1>6. tbar[t] = subBar[ptid[t]]
  BY <1>1, <1>2 DEF BarInv, SubBarInv
<1>7. opts.silentSubBar => b = 0
  <2>1. opts.silentSubBar => subBar[ptid[t]] = NoBar
    BY <1>3 DEF BarInv, SubBarInv, Barred
  <2> QED
    BY <1>6, <2>1 DEF ResultBar
<1>8. ~opts.silentSubBar => ptid[t] \in Barred /\ b = subBar[ptid[t]]
  <2>1. ~opts.silentSubBar => ptid[t] \in Barred
    BY <1>1, <1>2 DEF BarInv, SubBarInv
  <2> QED
    BY <1>6, <2>1 DEF ResultBar, Barred
<1>9. b \in BarIds
  BY <1>7, <1>8, BarIdsSuffice
<1>10. k \in Kinds
  BY DEF Kinds
<1> HIDE DEF k, b
<1>11. /\ result'[b] = [result[b] EXCEPT ![k] = @ + 1] /\ result[b] \in [Kinds -> Nat]
       /\ \A c \in BarIds : c # b => result'[c] = result[c]
  BY <1>1, <1>3, <1>9
<1>12. MainBarInv'
  BY <1>1, <1>5 DEF BarInv, MainBarInv
<1>13. SubBarInv'
  <2>1. \A u \in 1..n : /\ tpc'[u] = "none" <=> tpc[u] = "none"
                        /\ tpc'[u] \in {"none", "connect"} <=> tpc[u] \in {"none", "connect"}
    BY <1>1, <1>4
  <2> QED
    BY <1>1, <1>5, <2>1 DEF BarInv, SubBarInv
<1>14. FillInv'
  <2>1. \A p : Filled(TasksOf(p), tpc)' = Filled(TasksOf(p), tpc)
    BY <1>1, <1>4, <1>5 DEF Filled, Passed
  <2> QED
    BY <1>1, <1>5, <2>1 DEF BarInv, FillInv
<1>15. ASSUME NEW T \in SUBSET (1..n), t \in T, Counts(result[b], T, tpc, terr)
       PROVE  Counts(result'[b], T, tpc', terr')
  <2>1. OneRecorded(T, t, tpc, tpc')
    BY <1>1, <1>2, <1>4 DEF Recorded, OneRecorded
  <2>2. k = IF terr[t] = Nil THEN "succ" ELSE "err"
    BY DEF k
  <2>3. OneMore(result[b], result'[b], terr[t] = Nil)
    BY <1>11, <2>2, OneMoreLemma
  <2>4. Counts(result'[b], T, tpc', terr)
    BY <1>15, <2>1, <2>3, CountsAdd
  <2> QED
    BY <1>1, <2>4
<1>16. ASSUME NEW T \in SUBSET (1..n), t \notin T, NEW c \in BarIds, c # b,
              Counts(result[c], T, tpc, terr)
       PROVE  Counts(result'[c], T, tpc', terr')
  <2>1. \A u \in T : tpc'[u] \in Recorded <=> tpc[u] \in Recorded
    BY <1>4, <1>16
  <2>2. Counts(result[c], T, tpc', terr)
    BY <1>16, <2>1, CountsKeep
  <2> QED
    BY <1>1, <1>11, <1>16, <2>2
<1>17. TallyInv'
  <2>1. \A p \in Barred' : Tally(subBar[p], TasksOf(p))'
    <3> SUFFICES ASSUME NEW p \in Barred
                 PROVE  Counts(result'[subBar[p]], TasksOf(p), tpc', terr')
      BY <1>1, <1>5 DEF Tally
    <3>1. ~opts.silentSubBar /\ subBar[p] \in BarIds
      BY BarIdsSuffice DEF BarInv, SubBarInv
    <3>2. Counts(result[subBar[p]], TasksOf(p), tpc, terr)
      BY DEF BarInv, TallyInv, Tally
    <3>3. CASE p = ptid[t]
      <4>1. subBar[p] = b /\ t \in TasksOf(p)
        BY <1>2, <1>8, <3>1, <3>3 DEF TasksOf
      <4> QED
        BY <1>5, <1>15, <3>2, <4>1
    <3>4. CASE p # ptid[t]
      <4>1. subBar[p] # b /\ t \notin TasksOf(p)
        BY <1>8, <3>1, <3>4 DEF TasksOf, BarInv, SubBarInv
      <4> QED
        BY <1>5, <1>16, <3>1, <3>2, <4>1
    <3> QED
      BY <3>3, <3>4
  <2>2. (~opts.silentSubBar' \/ mpc' = "begin") => \A c \in BarIds : c >= nextBar' => Tally(c, {})'
    <3> SUFFICES ASSUME ~opts.silentSubBar, NEW c \in BarIds, c >= nextBar
                 PROVE  Counts(result'[c], {}, tpc', terr')
      BY <1>1, <1>2 DEF Tally
    <3>1. b \in 0..(nextBar - 1) /\ nextBar \in Nat
      BY <1>8 DEF BarInv, SubBarInv, IInv, TypeOK
    <3>2. c # b
      BY <3>1 DEF BarIds
    <3>3. Counts(result[c], {}, tpc, terr)
      BY DEF BarInv, TallyInv, Tally
    <3> QED
      BY <1>16, <3>2, <3>3
  <2>3. (mainBar' # NoBar /\ mpc' \notin Closed) => Tally(0, MainTasks)'
    <3> SUFFICES ASSUME mainBar # NoBar
                 PROVE  Counts(result'[0], MainTasks, tpc', terr')
      BY <1>1, <1>5 DEF Tally
    <3>1. Counts(result[0], MainTasks, tpc, terr)
      BY <1>2 DEF BarInv, TallyInv, Tally, Closed
    <3>2. CASE opts.silentSubBar
      <4>1. b = 0 /\ t \in MainTasks
        BY <1>2, <1>7, <3>2 DEF MainTasks
      <4> QED
        BY <1>5, <1>15, <3>1, <4>1
    <3>3. CASE ~opts.silentSubBar
      <4>1. b # 0 /\ t \notin MainTasks
        BY <1>8, <3>3 DEF MainTasks, BarInv, SubBarInv, MainBarInv
      <4> QED
        BY <1>5, <1>16, <3>1, <4>1, BarIdsSuffice
    <3> QED
      BY <3>2, <3>3
  <2>4. mpc' \notin Closed
    BY <1>1, <1>2 DEF Closed
  <2> QED
    BY <2>1, <2>2, <2>3, <2>4 DEF TallyInv
<1> QED
  BY <1>12, <1>13, <1>14, <1>17 DEF BarInv

\* A worker advances the bar of its parent id by one, once.
LEMMA IncrSubBars ==
  ASSUME IInv, BarInv, NEW t \in TaskIds, IncrSubBar(t)
  PROVE  BarInv'
<1>1. /\ UNCHANGED <<opts, n, ptid, nextBar, mainBar, subBar, result, mpc, tbar, terr>>
      /\ tpc[t] = "incr" /\ tpc' = [tpc EXCEPT ![t] = "release"]
      /\ fill' = IF tbar[t] = NoBar THEN fill ELSE [fill EXCEPT ![tbar[t]] = @ + 1]
  BY DEF IncrSubBar, IncrBy1, Goto, workerUnchanged, mainVars, barVars, monitor
<1>2. t \in 1..n /\ 1..n \subseteq TaskIds /\ mpc \notin {"begin", "incr", "status", "drain", "done"}
  BY <1>1, WorkerOfBatch
<1>3. /\ tpc \in [TaskIds -> TaskPcs] /\ fill \in [BarIds -> Nat]
      /\ ptid[t] \in Ptids /\ nextBar \in Nat
  BY <1>2 DEF IInv, TypeOK
<1>4. \A u \in 1..n : tpc'[u] = IF u = t THEN "release" ELSE tpc[u]
  BY <1>1, <1>2, <1>3
<1>5. /\ Barred' = Barred /\ MainTasks' = MainTasks /\ (\A p : TasksOf(p)' = TasksOf(p))
      /\ MainTasks \subseteq 1..n /\ \A p : TasksOf(p) \subseteq 1..n
  BY <1>1 DEF Barred, MainTasks, TasksOf
<1>6. tbar[t] = subBar[ptid[t]]
  BY <1>1, <1>2 DEF BarInv, SubBarInv
<1>7. MainBarInv'
  BY <1>1, <1>5 DEF BarInv, MainBarInv
<1>8. SubBarInv'
  <2>1. \A u \in 1..n : /\ tpc'[u] = "none" <=> tpc[u] = "none"
                        /\ tpc'[u] \in {"none", "connect"} <=> tpc[u] \in {"none", "connect"}
    BY <1>1, <1>4
  <2> QED
    BY <1>1, <1>5, <2>1 DEF BarInv, SubBarInv
<1>9. FillInv'
  <2>1. \A p \in Barred' : fill'[subBar'[p]] = Cardinality(Filled(TasksOf(p), tpc)')
    <3> SUFFICES ASSUME NEW p \in Barred
                 PROVE  fill'[subBar[p]] = Cardinality(Filled(TasksOf(p), tpc'))
      BY <1>1, <1>5 DEF Filled
    <3>1. subBar[p] \in BarIds /\ fill[subBar[p]] = Cardinality(Filled(TasksOf(p), tpc))
      BY BarIdsSuffice DEF BarInv, FillInv
    <3>2. CASE p = ptid[t]
      <4>1. tbar[t] = subBar[p] /\ tbar[t] # NoBar
        BY <1>6, <3>2 DEF Barred
      <4>2. fill'[subBar[p]] = fill[subBar[p]] + 1
        BY <1>1, <1>3, <3>1, <4>1
      <4>3. /\ Filled(TasksOf(p), tpc') = Filled(TasksOf(p), tpc) \cup {t}
            /\ t \notin Filled(TasksOf(p), tpc)
            /\ Filled(TasksOf(p), tpc) \in SUBSET TaskIds
        <5>1. t \in TasksOf(p)
          BY <1>2, <3>2 DEF TasksOf
        <5> QED
          BY <1>1, <1>2, <1>4, <1>5, <5>1 DEF Filled, Passed
      <4>4. Cardinality(Filled(TasksOf(p), tpc')) = Cardinality(Filled(TasksOf(p), tpc)) + 1
        BY <4>3, CountAdd
      <4> QED
        BY <3>1, <4>2, <4>4
    <3>3. CASE p # ptid[t]
      <4>1. tbar[t] # subBar[p]
        BY <1>3, <1>6, <3>3 DEF BarInv, SubBarInv, Barred
      <4>2. fill'[subBar[p]] = fill[subBar[p]]
        BY <1>1, <1>3, <3>1, <4>1
      <4>3. Filled(TasksOf(p), tpc') = Filled(TasksOf(p), tpc)
        <5>1. t \notin TasksOf(p)
          BY <3>3 DEF TasksOf
        <5> QED
          BY <1>4, <1>5, <5>1 DEF Filled
      <4> QED
        BY <3>1, <4>2, <4>3
    <3> QED
      BY <3>2, <3>3
  <2>2. \A c \in BarIds : c >= nextBar' => fill'[c] = 0
    <3> SUFFICES ASSUME NEW c \in BarIds, c >= nextBar PROVE fill'[c] = 0
      BY <1>1
    <3>1. fill[c] = 0
      BY DEF BarInv, FillInv
    <3>2. tbar[t] # NoBar => tbar[t] \in 0..(nextBar - 1)
      BY <1>3, <1>6 DEF BarInv, SubBarInv, Barred
    <3>3. tbar[t] # NoBar => tbar[t] # c
      BY <1>3, <3>2 DEF BarIds
    <3> QED
      BY <1>1, <1>3, <3>1, <3>3
  <2> QED
    BY <2>1, <2>2 DEF FillInv
<1>10. ASSUME NEW r, NEW T \in SUBSET (1..n), Counts(r, T, tpc, terr)
       PROVE  Counts(r, T, tpc', terr')
  <2>1. \A u \in T : tpc'[u] \in Recorded <=> tpc[u] \in Recorded
    BY <1>1, <1>4 DEF Recorded
  <2> QED
    BY <1>1, <1>10, <2>1, CountsKeep
<1>11. TallyInv'
  <2>1. \A p \in Barred' : Tally(subBar[p], TasksOf(p))'
    BY <1>1, <1>5, <1>10 DEF BarInv, TallyInv, Tally
  <2>2. ~opts.silentSubBar => \A c \in BarIds : c >= nextBar => Tally(c, {})'
    BY <1>1, <1>10 DEF BarInv, TallyInv, Tally
  <2>3. mainBar # NoBar => Tally(0, MainTasks)'
    BY <1>1, <1>2, <1>5, <1>10 DEF BarInv, TallyInv, Tally, Closed
  <2> QED
    BY <1>1, <1>2, <2>1, <2>2, <2>3 DEF TallyInv, Closed
<1> QED
  BY <1>7, <1>8, <1>9, <1>11 DEF BarInv

\* Completing the main bar leaves the others alone.
LEMMA IncrMainBars ==
  ASSUME IInv, BarInv, IncrMainBar
  PROVE  BarInv'
<1>1. /\ UNCHANGED <<opts, n, ptid, nextBar, mainBar, subBar, result, tpc, tbar, terr>>
      /\ fill' = [fill EXCEPT ![mainBar] = @ + 1] /\ mpc = "incr" /\ mpc' = "status"
  BY DEF IncrMainBar, IncrBy1, mainVars, monitor, taskVars
<1>2. /\ Barred' = Barred /\ MainTasks' = MainTasks /\ \A p : TasksOf(p)' = TasksOf(p)
  BY <1>1 DEF Barred, MainTasks, TasksOf
<1>3. MainBarInv' /\ SubBarInv'
  BY <1>1, <1>2 DEF BarInv, MainBarInv, SubBarInv
<1>4. FillInv'
  <2>1. fill \in [BarIds -> Nat] /\ nextBar \in Nat
    BY DEF IInv, TypeOK
  <2>2. \A c \in BarIds : c # mainBar => fill'[c] = fill[c]
    BY <1>1, <2>1
  <2>3. \A p \in Barred : subBar[p] \in BarIds /\ subBar[p] # mainBar
    BY BarIdsSuffice DEF BarInv, SubBarInv
  <2>4. \A c \in BarIds : c >= nextBar => c # mainBar
    BY <2>1, BarIdsSuffice DEF BarInv, MainBarInv, NoBar, BarIds
  <2>5. \A p \in Barred' : fill'[subBar'[p]] = Cardinality(Filled(TasksOf(p), tpc)')
    BY <1>1, <1>2, <2>2, <2>3 DEF BarInv, FillInv, Filled
  <2>6. \A c \in BarIds : c >= nextBar' => fill'[c] = 0
    BY <1>1, <2>2, <2>4 DEF BarInv, FillInv
  <2> QED
    BY <2>5, <2>6 DEF FillInv
<1>5. TallyInv'
  BY <1>1, <1>2 DEF BarInv, TallyInv, Tally, Closed
<1> QED
  BY <1>3, <1>4, <1>5 DEF BarInv

\* monitor.get of a bar whose tasks were all recorded tells whether one failed.
LEMMA GetIsVerdict ==
  ASSUME NEW b, NEW T, result[b] \in [Kinds -> Nat], T # {}, \A t \in T : tpc[t] \in Recorded,
         Tally(b, T)
  PROVE  MonitorGet(b) = Verdict(T)
<1>1. result[b]["err"] \in Nat /\ result[b]["succ"] \in Nat /\ result[b]["skip"] = 0
  BY DEF Kinds, Tally, Counts
<1>2. result[b]["err"] = 0 <=> \A t \in T : terr[t] = Nil
  BY DEF Tally, Counts
<1>3. (\A t \in T : terr[t] = Nil) => result[b]["succ"] # 0
  BY DEF Tally, Counts
<1> QED
  BY <1>1, <1>2, <1>3 DEF MonitorGet, Verdict

\* The main bar says [ERROR] exactly when a task failed: its own results do if the
\* sub bars are silent, and those of the sub bars do otherwise.
LEMMA StatusBars ==
  ASSUME IInv, BarInv, SetMainBarStatus
  PROVE  BarInv'
<1> DEFINE k == MainBarStatus
<1>1. /\ UNCHANGED <<opts, n, ptid, nextBar, mainBar, subBar, fill, tpc, tbar, terr>>
      /\ result' = [result EXCEPT ![mainBar][k] = @ + 1] /\ mpc = "status" /\ mpc' = "drain"
  BY DEF SetMainBarStatus, MonitorSet, mainVars, barVars, taskVars
<1>2. k \in Kinds
  BY DEF MainBarStatus, Kinds
<1>3. /\ result \in [BarIds -> [Kinds -> Nat]] /\ n \in Nat /\ nextBar \in Nat
      /\ ptid \in [1..n -> Ptids]
  BY TasksAssumption DEF IInv, TypeOK
<1>4. \A t \in 1..n : tpc[t] = "ended"
  BY <1>1 DEF IInv, NothingLeftBehind
<1>5. /\ Barred' = Barred /\ MainTasks' = MainTasks /\ \A p : TasksOf(p)' = TasksOf(p)
  BY <1>1 DEF Barred, MainTasks, TasksOf
<1>6. MainBarInv' /\ SubBarInv' /\ FillInv'
  BY <1>1, <1>5 DEF BarInv, MainBarInv, SubBarInv, FillInv, Filled
<1>7. ASSUME mainBar = NoBar PROVE TallyInv'
  <2>1. mainBar \notin BarIds
    BY <1>7 DEF NoBar, BarIds
  <2>2. result' = result
    BY <1>1, <1>3, <2>1
  <2> QED
    BY <1>1, <1>5, <1>7, <2>2 DEF BarInv, TallyInv, Tally
<1>8. ASSUME mainBar # NoBar PROVE TallyInv'
  <2>1. mainBar = 0 /\ 0 \in BarIds /\ n > 0
    BY <1>8, BarIdsSuffice DEF BarInv, MainBarInv
  <2>2. /\ result'[0] = [result[0] EXCEPT ![k] = @ + 1] /\ result[0] \in [Kinds -> Nat]
        /\ \A c \in BarIds : c # 0 => result'[c] = result[c]
    BY <1>1, <1>3, <2>1
  <2>3. Tally(0, MainTasks)
    BY <1>1, <1>8 DEF BarInv, TallyInv, Closed
  <2>4. ASSUME opts.silentSubBar PROVE MonitorGet(0)' = Verdict(1..n)
    <3>1. k = "skip"
      BY <2>4 DEF BarInv, SubBarInv, Barred, MainBarStatus, SubBarStatuses
    <3>2. Counts(result[0], 1..n, tpc, terr)
      BY <2>3, <2>4 DEF Tally, MainTasks
    <3> HIDE DEF k
    <3>3. /\ result'[0]["skip"] = 1 /\ result'[0]["err"] = result[0]["err"]
          /\ result'[0]["succ"] = result[0]["succ"]
          /\ result[0]["err"] \in Nat /\ result[0]["succ"] \in Nat
      BY <2>2, <3>1, <3>2 DEF Kinds, Counts
    <3>4. result[0]["err"] = 0 <=> \A t \in 1..n : terr[t] = Nil
      BY <1>4, <3>2 DEF Counts, Recorded
    <3>5. (\A t \in 1..n : terr[t] = Nil) => result[0]["succ"] # 0
      <4>1. 1 \in 1..n
        BY <1>3, <2>1
      <4> QED
        BY <1>4, <3>2, <4>1 DEF Counts, Recorded
    <3> QED
      BY <3>3, <3>4, <3>5 DEF MonitorGet, Verdict
  <2>5. ASSUME ~opts.silentSubBar PROVE MonitorGet(0)' = Verdict(1..n)
    <3>1. \A p \in Barred : MonitorGet(subBar[p]) = Verdict(TasksOf(p))
      <4> SUFFICES ASSUME NEW p \in Barred PROVE MonitorGet(subBar[p]) = Verdict(TasksOf(p))
        OBVIOUS
      <4>1. subBar[p] \in BarIds /\ Tally(subBar[p], TasksOf(p))
        BY BarIdsSuffice DEF BarInv, TallyInv
      <4>2. TasksOf(p) # {}
        BY DEF BarInv, SubBarInv, TasksOf
      <4>3. \A t \in TasksOf(p) : tpc[t] \in Recorded
        BY <1>4 DEF TasksOf, Recorded
      <4> QED
        BY <1>3, <4>1, <4>2, <4>3, GetIsVerdict
    <3>2. \A t \in 1..n : ptid[t] \in Barred /\ t \in TasksOf(ptid[t])
      BY <1>4, <2>5 DEF BarInv, SubBarInv, TasksOf
    <3>3. SubBarStatuses = {Verdict(TasksOf(p)) : p \in Barred}
      BY <3>1 DEF SubBarStatuses, Barred
    <3>4. result[0]["err"] = 0 /\ result[0]["succ"] = 0 /\ result[0]["skip"] = 0
      BY <2>3, <2>5 DEF Tally, Counts, MainTasks
    <3>5. CASE \E t \in 1..n : terr[t] # Nil
      <4>1. PICK t \in 1..n : terr[t] # Nil
        BY <3>5
      <4>2. Verdict(TasksOf(ptid[t])) = "ERROR"
        BY <3>2, <4>1 DEF Verdict
      <4>3. k = "err"
        BY <3>2, <3>3, <4>2 DEF MainBarStatus
      <4> HIDE DEF k
      <4>4. result'[0]["err"] = 1
        BY <2>2, <3>4, <4>3 DEF Kinds
      <4> QED
        BY <3>5, <4>4 DEF MonitorGet, Verdict
    <3>6. CASE \A t \in 1..n : terr[t] = Nil
      <4>1. \A p \in Barred : Verdict(TasksOf(p)) = "OK"
        BY <3>6 DEF Verdict, TasksOf
      <4>2. 1 \in 1..n
        BY <1>3, <2>1
      <4>3. "OK" \in SubBarStatuses /\ "ERROR" \notin SubBarStatuses
        BY <3>2, <3>3, <4>1, <4>2
      <4>4. k = "succ"
        BY <4>3 DEF MainBarStatus
      <4> HIDE DEF k
      <4>5. result'[0]["succ"] = 1 /\ result'[0]["err"] = 0 /\ result'[0]["skip"] = 0
        BY <2>2, <3>4, <4>4 DEF Kinds
      <4> QED
        BY <3>6, <4>5 DEF MonitorGet, Verdict
    <3> QED
      BY <3>5, <3>6
  <2>6. Verdict(1..n)' = Verdict(1..n)
    BY <1>1 DEF Verdict
  <2>7. \A p \in Barred' : Tally(subBar[p], TasksOf(p))'
    <3>1. \A p \in Barred : subBar[p] \in BarIds /\ subBar[p] # 0
      BY <2>1, BarIdsSuffice DEF BarInv, SubBarInv
    <3> QED
      BY <1>1, <1>5, <2>2, <3>1 DEF BarInv, TallyInv, Tally
  <2>8. ~opts.silentSubBar => \A c \in BarIds : c >= nextBar => Tally(c, {})'
    <3>1. \A c \in BarIds : c >= nextBar => c # 0
      BY <1>3, <1>8, BarIdsSuffice DEF BarInv, MainBarInv, BarIds
    <3> QED
      BY <1>1, <2>2, <3>1 DEF BarInv, TallyInv, Tally
  <2> QED
    BY <1>1, <2>4, <2>5, <2>6, <2>7, <2>8 DEF TallyInv, Closed
<1> QED
  BY <1>6, <1>7, <1>8 DEF BarInv

\* What the bars show stays in step with the workers.
LEMMA StepPreservesBarInv == IInv /\ BarInv /\ [Next]_vars => BarInv'
<1> SUFFICES ASSUME IInv, BarInv, [Next]_vars PROVE BarInv'
  OBVIOUS
<1>1. CASE MainNext
  BY <1>1, BeginBars, MainQuietBars, SpawnBars, IncrMainBars, StatusBars DEF MainNext
<1>2. ASSUME NEW t \in TaskIds, WorkerNext(t) PROVE BarInv'
  BY <1>2, WorkerQuietBars, SetResultBars, IncrSubBars DEF WorkerNext, LocalStep
<1>3. CASE UNCHANGED vars
  <2>1. /\ UNCHANGED <<opts, n, ptid, nextBar, mainBar, subBar, fill, result, mpc>>
        /\ UNCHANGED <<tpc, tbar, terr>>
    BY <1>3 DEF vars
  <2>2. \A t \in 1..n : Unmoved(t)
    BY <2>1 DEF Unmoved, BarInv, SubBarInv
  <2> QED
    BY <2>1, <2>2, BarsStay
<1> QED
  BY <1>1, <1>2, <1>3 DEF Next, Returned

\* The bars tell the truth, for every batch, every assignment of parent ids and
\* either choice of silent bars: the main bar when Execute returns, a sub bar as
\* soon as it is full.
THEOREM BarsAreTruthful == Spec => []BarsTruthful
<1>1. IInv /\ BarInv => BarsTruthful
  <2> SUFFICES ASSUME IInv, BarInv PROVE BarsTruthful
    OBVIOUS
  <2>1. (mpc = "done" /\ mainBar # NoBar) => MonitorGet(mainBar) = Verdict(1..n)
    BY DEF BarInv, MainBarInv, TallyInv, Closed
  <2>2. ASSUME NEW p \in Ptids, subBar[p] # NoBar, fill[subBar[p]] = CountPtid(p)
        PROVE  MonitorGet(subBar[p]) = Verdict({t \in 1..n : ptid[t] = p})
    <3>1. p \in Barred /\ subBar[p] \in BarIds
      BY <2>2, BarIdsSuffice DEF Barred
    <3>2. Cardinality(Filled(TasksOf(p), tpc)) = Cardinality(TasksOf(p))
      BY <2>2, <3>1 DEF BarInv, FillInv, CountPtid, TasksOf
    <3>3. TasksOf(p) \in SUBSET TaskIds
      BY TasksAssumption DEF TasksOf, IInv, TypeOK, TaskIds
    <3>4. Filled(TasksOf(p), tpc) \in SUBSET TasksOf(p)
      BY DEF Filled
    <3>5. Filled(TasksOf(p), tpc) = TasksOf(p)
      BY <3>2, <3>3, <3>4, TaskSetFinite, FS_Subset
    <3>6. \A t \in TasksOf(p) : tpc[t] \in Recorded
      BY <3>5 DEF Filled, Passed, Recorded
    <3>7. TasksOf(p) # {} /\ Tally(subBar[p], TasksOf(p))
      BY <3>1 DEF BarInv, SubBarInv, TallyInv, TasksOf
    <3>8. result[subBar[p]] \in [Kinds -> Nat]
      BY <3>1 DEF IInv, TypeOK
    <3>9. MonitorGet(subBar[p]) = Verdict(TasksOf(p))
      BY <3>6, <3>7, <3>8, GetIsVerdict
    <3> QED
      BY <3>9 DEF TasksOf
  <2> QED
    BY <2>1, <2>2 DEF BarsTruthful
<1> QED
  BY <1>1, InitBarInv, StepPreservesBarInv, TasksInvariant, PTL DEF Spec

(***************************************************************************)
(* Tasks implements Execute                                                *)
(***************************************************************************)

\* A step that leaves the batch, the loop's result and the recorded results
\* alone is a stuttering step of Execute.
LEMMA Stutters ==
  ASSUME UNCHANGED <<opts, n, ret>>, \A t \in 1..n : StatusOf(t)' = StatusOf(t)
  PROVE  UNCHANGED Abs!vars
<1>1. statusBar' = statusBar /\ retBar' = retBar /\ Concurrency' = Concurrency
  BY DEF statusBar, retBar, Concurrency
<1> QED
  BY <1>1 DEF Abs!vars

\* A step of Execute itself is a step or a stutter of the abstract Execute.
LEMMA MainRefines ==
  ASSUME IInv, IInv', MainNext
  PROVE  [Abs!Next]_(Abs!vars)
<1>0. UNCHANGED <<opts, n>> /\ Concurrency' = Concurrency
  BY DEF MainNext, Begin, AddWaiter, AcquireSlot, Spawn, EndLoop, WaitGroup,
     IncrMainBar, SetMainBarStatus, ProgressWait, mainVars, Concurrency
<1>1. /\ UNCHANGED <<opts, n>> /\ Concurrency' = Concurrency
      /\ n \in Nat /\ 1..n \subseteq TaskIds /\ next \in 1..(n + 1)
  BY <1>0, TasksAssumption DEF IInv, TypeOK, TaskIds
<1>2. CASE Spawn
  <2>1. /\ next \in 1..n /\ tpc[next] = "none" /\ tpc' = [tpc EXCEPT ![next] = "connect"]
        /\ UNCHANGED <<terr, ret>> /\ ret = NotReturned
    BY <1>1, <1>2 DEF IInv, LoopInv, Spawn, RetInv
  <2>2. tpc \in [TaskIds -> TaskPcs]
    BY DEF IInv, TypeOK
  <2>3. statusBar' = [statusBar EXCEPT ![next] = "running"]
    BY <1>1, <2>1, <2>2 DEF statusBar, StatusOf
  <2>4. retBar = "none" /\ retBar' = retBar
    BY <2>1 DEF retBar
  <2>5. statusBar[next] = "todo"
    BY <2>1 DEF statusBar, StatusOf
  <2>6. \A u \in 1..n : u < next => statusBar[u] # "todo"
    BY <1>1 DEF statusBar, StatusOf, IInv, LoopInv
  <2>7. Cardinality(Abs!Running) < Concurrency
    <3>1. Abs!Running \subseteq Working
      BY <1>1 DEF Abs!Running, statusBar, StatusOf, Working, Unslotted
    <3>2. IsFiniteSet(Working) /\ Cardinality(Working) \in Nat
      BY TaskSetFinite DEF Working
    <3>3. Cardinality(Abs!Running) <= Cardinality(Working) /\ Cardinality(Abs!Running) \in Nat
      BY <3>1, <3>2, FS_Subset, FS_CardinalityType
    <3>4. slots = Cardinality(Working) + 1 /\ slots <= Concurrency
      BY <1>2 DEF IInv, SlotInv, One, Spawn
    <3>5. Concurrency \in Nat
      BY TasksAssumption DEF IInv, TypeOK, Concurrency, Options
    <3> QED
      BY <3>2, <3>3, <3>4, <3>5
  <2>8. Abs!Cardinality(Abs!Running) = Cardinality(Abs!Running)
    BY DEF Abs!Cardinality, Cardinality
  <2>9. Abs!StartTask(next)
    BY <1>1, <2>3, <2>4, <2>5, <2>6, <2>7, <2>8 DEF Abs!StartTask
  <2> QED
    BY <2>1, <2>9 DEF Abs!Next
<1>3. CASE ProgressWait \/ (Begin /\ n = 0)
  <2>1. ret = NotReturned /\ ret' # NotReturned /\ UNCHANGED <<tpc, terr>> /\ mpc' = "done"
    BY <1>3 DEF ProgressWait, Begin, taskVars, IInv, RetInv
  <2>2. \A t \in 1..n : tpc[t] = "ended"
    BY <1>1, <2>1 DEF IInv, NothingLeftBehind
  <2>3. ret' = Nil <=> \A t \in 1..n : terr[t] = Nil
    <3>1. CASE ProgressWait
      <4>1. ret' = err /\ mpc = "drain" /\ next = n + 1
        BY <3>1 DEF ProgressWait, IInv, LoopInv
      <4>2. err = Nil => \A t \in 1..n : terr[t] = Nil
        BY <1>1, <2>2 DEF IInv, ErrInv, Recorded
      <4>3. err # Nil => err \in 1..n /\ terr[err] = err
        <5> SUFFICES ASSUME err # Nil PROVE err \in 1..n /\ terr[err] = err
          OBVIOUS
        <5>1. err \in TaskIds /\ terr[err] = err /\ tpc[err] # "none"
          BY DEF IInv, TypeOK, ErrInv, Recorded
        <5>2. err < next
          BY <1>1, <5>1 DEF IInv, LoopInv, TaskIds
        <5> QED
          BY <1>1, <4>1, <5>1, <5>2 DEF TaskIds
      <4> QED
        BY <4>1, <4>2, <4>3
    <3>2. CASE Begin /\ n = 0
      BY <3>2 DEF Begin
    <3> QED
      BY <1>3, <3>1, <3>2
  <2>4. statusBar' = statusBar
    BY <1>1, <2>1 DEF statusBar, StatusOf
  <2>5. \A t \in 1..n : statusBar[t] = IF terr[t] = Nil THEN "ok" ELSE "failed"
    BY <2>2 DEF statusBar, StatusOf
  <2>6. retBar = "none" /\ retBar' = IF ret' = Nil THEN "ok" ELSE "error"
    BY <2>1 DEF retBar
  <2>7. Abs!Return
    BY <1>1, <2>3, <2>4, <2>5, <2>6 DEF Abs!Return, Abs!Ended
  <2> QED
    BY <2>7 DEF Abs!Next
<1>4. CASE ~Spawn /\ ~ProgressWait /\ ~(Begin /\ n = 0)
  <2>1. UNCHANGED <<opts, n, ret, tpc, terr>>
    BY <1>4 DEF MainNext, Begin, AddWaiter, AcquireSlot, EndLoop, WaitGroup, IncrMainBar,
       SetMainBarStatus, mainVars, taskVars, IInv, RetInv
  <2>2. UNCHANGED Abs!vars
    BY <2>1, Stutters DEF StatusOf
  <2> QED
    BY <2>2
<1> QED
  BY <1>2, <1>3, <1>4

\* A step of a worker is a step or a stutter of the abstract Execute.
LEMMA WorkerRefines ==
  ASSUME IInv, NEW t \in TaskIds, WorkerNext(t)
  PROVE  [Abs!Next]_(Abs!vars)
<1>1. UNCHANGED <<opts, n, ret>> /\ tpc \in [TaskIds -> TaskPcs]
  BY DEF WorkerNext, ConnectFails, Connect, StepOk, StepBreaks, StepFails, StepsDone,
     PostStepOk, PostDone, SetResult, IncrSubBar, ReleaseSlot, WorkerDone, workerUnchanged,
     mainVars, IInv, TypeOK
<1>2. 1..n \subseteq TaskIds /\ n \in Nat
  BY TasksAssumption DEF IInv, TypeOK, TaskIds
<1>3. CASE SetResult(t)
  <2>1. /\ tpc[t] = "set" /\ tpc' = [tpc EXCEPT ![t] = "incr"] /\ terr' = terr
    BY <1>3 DEF SetResult, Goto
  <2>2. t \in 1..n
    BY <1>2, <2>1 DEF IInv, LoopInv, TypeOK, TaskIds
  <2>3. statusBar[t] = "running"
    BY <2>1, <2>2 DEF statusBar, StatusOf
  <2>4. statusBar' = [statusBar EXCEPT ![t] = IF terr[t] = Nil THEN "ok" ELSE "failed"]
    BY <1>1, <1>2, <2>1, <2>2 DEF statusBar, StatusOf
  <2>5. retBar' = retBar /\ Concurrency' = Concurrency
    BY <1>1 DEF retBar, Concurrency
  <2>6. Abs!EndTask(t)
    BY <1>1, <2>3, <2>4, <2>5 DEF Abs!EndTask, Abs!Ended
  <2> QED
    BY <2>2, <2>6 DEF Abs!Next
<1>4. CASE LocalStep(t)
  <2>1. PICK p \in InTask : tpc' = [tpc EXCEPT ![t] = p]
    BY <1>1, <1>4 DEF LocalStep, ConnectFails, Connect, StepOk, StepBreaks, StepFails,
       StepsDone, PostStepOk, PostDone, Goto, InTask
  <2>2. tpc[t] \in InTask
    BY <1>4 DEF LocalStep, ConnectFails, Connect, StepOk, StepBreaks, StepFails,
       StepsDone, PostStepOk, PostDone, Goto, InTask
  <2>3. terr' = terr \/ terr' = [terr EXCEPT ![t] = t]
    BY <1>4 DEF LocalStep, ConnectFails, Connect, StepOk, StepBreaks, StepFails,
       StepsDone, PostStepOk, PostDone
  <2>4. \A u \in 1..n : StatusOf(u)' = StatusOf(u)
    BY <1>1, <1>2, <2>1, <2>2, <2>3 DEF StatusOf, InTask, IInv, TypeOK
  <2> QED
    BY <1>1, <2>4, Stutters
<1>5. CASE IncrSubBar(t) \/ ReleaseSlot(t) \/ WorkerDone(t)
  <2>1. /\ tpc[t] \in Recorded /\ terr' = terr
        /\ \E p \in Recorded : tpc' = [tpc EXCEPT ![t] = p]
    BY <1>5 DEF IncrSubBar, ReleaseSlot, WorkerDone, Goto, Recorded
  <2>2. PICK p \in Recorded : tpc' = [tpc EXCEPT ![t] = p]
    BY <2>1
  <2>3. \A u \in 1..n : StatusOf(u)' = StatusOf(u)
    BY <1>1, <1>2, <2>1, <2>2 DEF StatusOf, Recorded
  <2> QED
    BY <1>1, <2>3, Stutters
<1> QED
  BY <1>3, <1>4, <1>5 DEF WorkerNext, LocalStep

\* Tasks.Execute, with its slots, wait group, bars and monitor, implements the
\* specification of Execute that the playbook relies on.
THEOREM TasksImplementExecute == Spec => ImplementsExecute
<1>1. Init => Abs!Init
  <2> SUFFICES ASSUME Init PROVE Abs!Init
    OBVIOUS
  <2>1. n \in Nat /\ 1..n \subseteq TaskIds
    BY TasksAssumption DEF Init, TaskIds
  <2>2. Concurrency \in Nat \ {0}
    <3>1. opts.concurrency \in Nat
      BY TasksAssumption DEF Init, Options
    <3> QED
      BY <3>1 DEF Concurrency
  <2>3. statusBar = [t \in 1..n |-> "todo"] /\ retBar = "none"
    BY <2>1 DEF statusBar, StatusOf, retBar, Init
  <2> QED
    BY <2>1, <2>2, <2>3 DEF Abs!Init
<1>2. IInv /\ IInv' /\ [Next]_vars => [Abs!Next]_(Abs!vars)
  <2> SUFFICES ASSUME IInv, IInv', [Next]_vars PROVE [Abs!Next]_(Abs!vars)
    OBVIOUS
  <2>1. CASE MainNext
    BY <2>1, MainRefines
  <2>2. ASSUME NEW t \in TaskIds, WorkerNext(t) PROVE [Abs!Next]_(Abs!vars)
    BY <2>2, WorkerRefines
  <2>3. CASE UNCHANGED vars
    <3>1. UNCHANGED <<opts, n, ret, tpc, terr>>
      BY <2>3 DEF vars
    <3> QED
      BY <3>1, Stutters DEF StatusOf
  <2> QED
    BY <2>1, <2>2, <2>3 DEF Next, Returned
<1> QED
  BY <1>1, <1>2, TasksInvariant, PTL DEF Spec, ImplementsExecute, Abs!Spec
=============================================================================
