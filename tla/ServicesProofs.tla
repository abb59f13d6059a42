--------------------------- MODULE ServicesProofs ---------------------------
(***************************************************************************)
(* Proofs about Services, for any number of services, container ids,       *)
(* failures and kills: the table names the right containers, data is kept, *)
(* and a command that reports success did what it is for.                  *)
(*                                                                         *)
(* The inductive invariant follows a command through its playbook.         *)
(* PlanInv says where the command is, TaskInv(s) what the task of service  *)
(* s has established at each of its locations, and StepInv(s) what the     *)
(* steps before the current one have left for it: a deploy has a row for   *)
(* every service once CREATE_CONTAINER is over, an upgrade has no row      *)
(* before it and a container of the wanted image after it.  Both are about *)
(* one service, so the task of another one disturbs them only by failing.  *)
(***************************************************************************)
EXTENDS Services, TLAPS

CommandNames == {"deploy", "start", "stop", "restart", "upgrade", "clean", "status"}
Locations == {"none", "done", "pull", "list", "get", "create", "insert", "sync", "start",
              "check", "stop", "restart", "rmfile", "rm", "setdb", "init", "status"}

TypeOK ==
  /\ db \in [Service -> Ids \cup {NoRow, Cleaned}]
  /\ ctr \in [Service -> Ids \cup {NoCtr}]
  /\ state \in [Service -> States]
  /\ image \in [Service -> Nat]
  /\ data \in [Service -> BOOLEAN]
  /\ want \in Nat
  /\ cmd \in CommandNames \cup {"idle"}
  /\ scope \in SUBSET Service
  /\ items \in SUBSET Items
  /\ made \in BOOLEAN
  /\ tpc \in [Service -> Locations]
  /\ cid \in [Service -> Ids \cup {Cleaned}]
  /\ old \in [Service -> Ids \cup {NoRow, Cleaned}]
  /\ new \in [Service -> Ids \cup {NoCtr}]
  /\ failed \in BOOLEAN
  /\ last \in [cmd : CommandNames \cup {"idle"}, ok : BOOLEAN,
               scope : SUBSET Service, items : SUBSET Items]
  /\ shown \in [Service -> States \cup {"Unknown", "Cleaned", "Losed"}]
  /\ faults \in Nat /\ crashes \in Nat

\* What is left of a playbook from its last step, its last two, ... on.
ToStart == <<"START_SERVICE">>
ToSync == <<"SYNC_CONFIG", "START_SERVICE">>
ToCreate == <<"CREATE_CONTAINER", "SYNC_CONFIG", "START_SERVICE">>
ToClean == <<"CLEAN_SERVICE", "CREATE_CONTAINER", "SYNC_CONFIG", "START_SERVICE">>
ToStop == <<"STOP_SERVICE", "CLEAN_SERVICE", "CREATE_CONTAINER", "SYNC_CONFIG", "START_SERVICE">>
OnlyClean == <<"CLEAN_SERVICE">>
StopClean == <<"STOP_SERVICE", "CLEAN_SERVICE">>
OnlyStatus == <<"GET_SERVICE_STATUS">>

Plans(c) ==
  CASE c = "idle" -> {<<>>}
    [] c = "deploy" -> {DeploySteps, ToCreate, ToSync, ToStart}
    [] c = "start" -> {StartSteps}
    [] c = "stop" -> {StopSteps}
    [] c = "restart" -> {RestartSteps}
    [] c = "upgrade" -> {UpgradeSteps, ToStop, ToClean, ToCreate, ToSync, ToStart}
    [] c = "clean" -> {StopClean, OnlyClean}
    [] c = "status" -> {StatusSteps, OnlyStatus}

\* Where a command is: a deploy is for all services, an upgrade removes nothing but
\* containers, nothing is reported while it runs, there are no tasks without it, and
\* listing the services for `status` does not fail.
PlanInv ==
  /\ plan \in Plans(cmd)
  /\ cmd = "deploy" => scope = Service
  /\ cmd = "upgrade" => items = UpgradeItems
  /\ cmd \notin {"idle", "clean", "upgrade"} => items = {}
  /\ cmd # "idle" => last = NoCommand
  /\ cmd = "idle" => ~made
  /\ (made /\ Head(plan) = "INIT_SERVICE_STATUS") => ~failed

\* The locations of the tasks of a step.
Pcs(type) ==
  CASE type = "PULL_IMAGE" -> {"pull"}
    [] type = "CREATE_CONTAINER" -> {"get", "create", "insert"}
    [] type = "SYNC_CONFIG" -> {"list", "sync"}
    [] type = "START_SERVICE" -> {"list", "start", "check"}
    [] type = "RESTART_SERVICE" -> {"list", "restart", "check"}
    [] type = "STOP_SERVICE" -> {"list", "stop"}
    [] type = "CLEAN_SERVICE" -> {"rmfile", "rm", "setdb"}
    [] type = "INIT_SERVICE_STATUS" -> {"init"}
    [] type = "GET_SERVICE_STATUS" -> {"status"}

HasRow(s) == db[s] \in Ids

\* What the task of s did if it ended and no task of the step failed.
Achieved(s, type) ==
  /\ type = "CREATE_CONTAINER" =>
       HasRow(s) /\ (cmd = "upgrade" => db[s] = ctr[s] /\ image[s] = want)
  /\ type = "CLEAN_SERVICE" => ("container" \in items => ~HasRow(s))
  /\ type = "START_SERVICE" => (Found(s) => state[s] = "running")
  /\ type = "STOP_SERVICE" => (Found(s) => state[s] # "running")
  /\ type = "INIT_SERVICE_STATUS" => shown[s] = "Unknown"
  /\ type = "GET_SERVICE_STATUS" => shown[s] = FormatServiceStatus(s)

\* The table and the engine agree about s, and its task knows what it needs.
TaskInv(s) ==
  /\ (HasRow(s) /\ ctr[s] # NoCtr) => db[s] = ctr[s]
  /\ ctr[s] = NoCtr => state[s] = "none"
  /\ ~made => tpc[s] = "none"
  /\ made =>
       /\ tpc[s] \in Pcs(Head(plan)) \cup {"done"}
       /\ s \notin scope => tpc[s] = "done"
       /\ Head(plan) \notin {"CREATE_CONTAINER", "CLEAN_SERVICE"} => cid[s] = GetContainerId(s)
       /\ tpc[s] \in {"create", "insert"} => ~HasRow(s)
       /\ tpc[s] = "insert" => new[s] = ctr[s] /\ ctr[s] # NoCtr /\ image[s] = want
       /\ tpc[s] \in {"sync", "start", "restart", "check", "stop"} => Found(s)
       /\ tpc[s] \in {"rm", "setdb"} => "container" \in items
       /\ (cmd = "upgrade" /\ tpc[s] = "get") => ~HasRow(s)
       /\ tpc[s] = "status" => shown[s] = "Unknown"
       /\ (Head(plan) = "GET_SERVICE_STATUS" /\ tpc[s] = "done" /\ s \in scope) =>
            shown[s] = FormatServiceStatus(s) \/ (shown[s] = "Unknown" /\ failed)
       /\ (tpc[s] = "done" /\ ~failed /\ s \in scope) => Achieved(s, Head(plan))

\* What the steps before the current one left for s.
StepInv(s) ==
  s \in scope =>
    /\ (cmd = "deploy" /\ Head(plan) \in {"SYNC_CONFIG", "START_SERVICE"}) => HasRow(s)
    /\ (cmd = "upgrade" /\ Head(plan) = "CREATE_CONTAINER" /\ ~made) => ~HasRow(s)
    /\ (cmd = "upgrade" /\ Head(plan) \in {"SYNC_CONFIG", "START_SERVICE"}) =>
         HasRow(s) /\ db[s] = ctr[s] /\ image[s] = want
    /\ (cmd = "status" /\ Head(plan) = "GET_SERVICE_STATUS" /\ ~made) => shown[s] = "Unknown"

ServiceInv == \A s \in Service : TaskInv(s) /\ StepInv(s)

IInv == TypeOK /\ PlanInv /\ ServiceInv /\ CommandsTruthful

-----------------------------------------------------------------------------

StepTypes == {"PULL_IMAGE", "CREATE_CONTAINER", "SYNC_CONFIG", "START_SERVICE",
              "RESTART_SERVICE", "STOP_SERVICE", "CLEAN_SERVICE",
              "INIT_SERVICE_STATUS", "GET_SERVICE_STATUS"}

\* A command has a current step, and goes on with the next one of its playbook.
LEMMA PlanLemma ==
  ASSUME NEW c \in CommandNames, NEW p \in Plans(c)
  PROVE  /\ Head(p) \in StepTypes
         /\ Len(p) # 1 => Tail(p) \in Plans(c)
         /\ Len(p) # 1 => Head(Tail(p)) # "INIT_SERVICE_STATUS"
<1>1. CASE c = "deploy"
  <2>1. Plans(c) = {DeploySteps, ToCreate, ToSync, ToStart}
    BY <1>1 DEF Plans
  <2>2. CASE p = DeploySteps
    BY <2>1, <2>2 DEF DeploySteps, ToCreate, StepTypes
  <2>3. CASE p = ToCreate
    BY <2>1, <2>3 DEF ToCreate, ToSync, StepTypes
  <2>4. CASE p = ToSync
    BY <2>1, <2>4 DEF ToStart, ToSync, StepTypes
  <2>5. CASE p = ToStart
    BY <2>1, <2>5 DEF ToStart, StepTypes
  <2>6. QED
    BY <2>1, <2>2, <2>3, <2>4, <2>5
<1>2. CASE c = "upgrade"
  <2>1. Plans(c) = {UpgradeSteps, ToStop, ToClean, ToCreate, ToSync, ToStart}
    BY <1>2 DEF Plans
  <2>2. CASE p = UpgradeSteps
    BY <2>1, <2>2 DEF UpgradeSteps, ToStop, StepTypes
  <2>3. CASE p = ToStop
    BY <2>1, <2>3 DEF ToStop, ToClean, StepTypes
  <2>4. CASE p = ToClean
    BY <2>1, <2>4 DEF ToClean, ToCreate, StepTypes
  <2>5. CASE p = ToCreate
    BY <2>1, <2>5 DEF ToCreate, ToSync, StepTypes
  <2>6. CASE p = ToSync
    BY <2>1, <2>6 DEF ToStart, ToSync, StepTypes
  <2>7. CASE p = ToStart
    BY <2>1, <2>7 DEF ToStart, StepTypes
  <2>8. QED
    BY <2>1, <2>2, <2>3, <2>4, <2>5, <2>6, <2>7
<1>3. CASE c = "clean"
  <2>1. Plans(c) = {StopClean, OnlyClean}
    BY <1>3 DEF Plans
  <2>2. CASE p = StopClean
    BY <2>1, <2>2 DEF StopClean, OnlyClean, StepTypes
  <2>3. CASE p = OnlyClean
    BY <2>1, <2>3 DEF OnlyClean, StepTypes
  <2>4. QED
    BY <2>1, <2>2, <2>3
<1>4. CASE c = "status"
  <2>1. Plans(c) = {StatusSteps, OnlyStatus}
    BY <1>4 DEF Plans
  <2>2. CASE p = StatusSteps
    BY <2>1, <2>2 DEF StatusSteps, OnlyStatus, StepTypes
  <2>3. CASE p = OnlyStatus
    BY <2>1, <2>3 DEF OnlyStatus, StepTypes
  <2>4. QED
    BY <2>1, <2>2, <2>3
<1>5. CASE c = "start"
  BY <1>5 DEF Plans, StartSteps, StepTypes
<1>6. CASE c = "stop"
  BY <1>6 DEF Plans, StopSteps, StepTypes
<1>7. CASE c = "restart"
  BY <1>7 DEF Plans, RestartSteps, StepTypes
<1>8. QED
  BY <1>1, <1>2, <1>3, <1>4, <1>5, <1>6, <1>7 DEF CommandNames

\* Which step follows which, and which is the last one.
LEMMA OrderLemma ==
  ASSUME NEW c \in CommandNames, NEW p \in Plans(c)
  PROVE  /\ c = "deploy" /\ Len(p) = 1 => Head(p) = "START_SERVICE"
         /\ c = "deploy" /\ Len(p) # 1 =>
              /\ Head(Tail(p)) = "SYNC_CONFIG" => Head(p) = "CREATE_CONTAINER"
              /\ Head(Tail(p)) = "START_SERVICE" => Head(p) = "SYNC_CONFIG"
         /\ c = "upgrade" /\ Len(p) = 1 => Head(p) = "START_SERVICE"
         /\ c = "upgrade" /\ Len(p) # 1 =>
              /\ Head(Tail(p)) = "CREATE_CONTAINER" => Head(p) = "CLEAN_SERVICE"
              /\ Head(Tail(p)) = "SYNC_CONFIG" => Head(p) = "CREATE_CONTAINER"
              /\ Head(Tail(p)) = "START_SERVICE" => Head(p) = "SYNC_CONFIG"
         /\ c = "stop" => Head(p) = "STOP_SERVICE" /\ Len(p) = 1
         /\ c = "status" /\ Len(p) = 1 => Head(p) = "GET_SERVICE_STATUS"
         /\ c = "status" /\ Len(p) # 1 => Head(p) = "INIT_SERVICE_STATUS"
         /\ c = "status" => Head(p) \in {"INIT_SERVICE_STATUS", "GET_SERVICE_STATUS"}
<1>1. CASE c = "deploy"
  <2>1. Plans(c) = {DeploySteps, ToCreate, ToSync, ToStart}
    BY <1>1 DEF Plans
  <2>2. CASE p = DeploySteps
    BY <1>1, <2>2 DEF DeploySteps
  <2>3. CASE p = ToCreate
    BY <1>1, <2>3 DEF ToCreate
  <2>4. CASE p = ToSync
    BY <1>1, <2>4 DEF ToSync
  <2>5. CASE p = ToStart
    BY <1>1, <2>5 DEF ToStart
  <2>6. QED
    BY <2>1, <2>2, <2>3, <2>4, <2>5
<1>2. CASE c = "upgrade"
  <2>1. Plans(c) = {UpgradeSteps, ToStop, ToClean, ToCreate, ToSync, ToStart}
    BY <1>2 DEF Plans
  <2>2. CASE p = UpgradeSteps
    BY <1>2, <2>2 DEF UpgradeSteps
  <2>3. CASE p = ToStop
    BY <1>2, <2>3 DEF ToStop
  <2>4. CASE p = ToClean
    BY <1>2, <2>4 DEF ToClean
  <2>5. CASE p = ToCreate
    BY <1>2, <2>5 DEF ToCreate
  <2>6. CASE p = ToSync
    BY <1>2, <2>6 DEF ToSync
  <2>7. CASE p = ToStart
    BY <1>2, <2>7 DEF ToStart
  <2>8. QED
    BY <2>1, <2>2, <2>3, <2>4, <2>5, <2>6, <2>7
<1>3. CASE c = "status"
  BY <1>3 DEF Plans, StatusSteps, OnlyStatus
<1>4. CASE c = "stop"
  BY <1>4 DEF Plans, StopSteps
<1>5. QED
  BY <1>1, <1>2, <1>3, <1>4

\* A location belongs to one kind of step.
LEMMA PcLemma ==
  ASSUME NEW type \in StepTypes, NEW pc \in Pcs(type)
  PROVE  /\ pc \notin {"none", "done"}
         /\ pc = "pull" => type = "PULL_IMAGE"
         /\ pc \in {"get", "create", "insert"} => type = "CREATE_CONTAINER"
         /\ pc \in {"rmfile", "rm", "setdb"} => type = "CLEAN_SERVICE"
         /\ pc = "list" => type \in {"SYNC_CONFIG", "START_SERVICE", "RESTART_SERVICE", "STOP_SERVICE"}
         /\ pc = "sync" => type = "SYNC_CONFIG"
         /\ pc = "start" => type = "START_SERVICE"
         /\ pc = "restart" => type = "RESTART_SERVICE"
         /\ pc = "check" => type \in {"START_SERVICE", "RESTART_SERVICE"}
         /\ pc = "stop" => type = "STOP_SERVICE"
         /\ pc = "init" => type = "INIT_SERVICE_STATUS"
         /\ pc = "status" => type = "GET_SERVICE_STATUS"
  BY DEF StepTypes, Pcs

-----------------------------------------------------------------------------

\* What a step of the task of service t leaves alone.
LEMMA TaskFrame ==
  ASSUME TypeOK, NEW t \in Service, TaskStep(t)
  PROVE  /\ cmd # "idle" /\ made
         /\ UNCHANGED <<want, cmd, plan, scope, items, made, last, cid>>
         /\ failed => failed'
         /\ \A s \in Service \ {t} :
              /\ db'[s] = db[s] /\ ctr'[s] = ctr[s] /\ state'[s] = state[s]
              /\ image'[s] = image[s] /\ tpc'[s] = tpc[s] /\ new'[s] = new[s]
              /\ shown'[s] = shown[s] /\ data'[s] = data[s]
<1> USE DEF TypeOK, tableVars, engineVars, cmdVars, memVars
<1>1. CASE Fails(t) \/ TableFails(t)
  BY <1>1 DEF Fails, TableFails
<1>2. CASE Pull(t) \/ List(t) \/ Get(t) \/ SyncConfig(t)
  BY <1>2 DEF Pull, List, Get, SyncConfig, At, Goto, Advance
<1>3. CASE Create(t)
  BY <1>3 DEF Create, At, Goto, Advance
<1>4. CASE CreateConflict(t) \/ CheckFails(t)
  BY <1>4 DEF CreateConflict, CheckFails, At, Refused
<1>5. CASE InsertService(t)
  BY <1>5 DEF InsertService, Insert, At, Goto, Advance
<1>6. CASE Start(t) \/ Check(t) \/ Stop(t)
  BY <1>6 DEF Start, Check, Stop, At, Goto, Advance
<1>7. CASE RemoveFile(t) \/ RemoveContainer(t) \/ SetCleaned(t)
  BY <1>7 DEF RemoveFile, RemoveContainer, SetCleaned, At, Goto, Advance
<1>8. CASE InitStatus(t) \/ GetStatus(t)
  BY <1>8 DEF InitStatus, GetStatus, At, Advance
<1>9. QED
  BY <1>1, <1>2, <1>3, <1>4, <1>5, <1>6, <1>7, <1>8 DEF TaskStep

\* The task of another service does not disturb what holds of s.
LEMMA OtherTask ==
  ASSUME TypeOK, NEW t \in Service, TaskStep(t), NEW s \in Service \ {t},
         TaskInv(s), StepInv(s)
  PROVE  TaskInv(s)' /\ StepInv(s)'
<1>1. /\ UNCHANGED <<want, cmd, plan, scope, items, made, cid>>
      /\ failed => failed'
      /\ db'[s] = db[s] /\ ctr'[s] = ctr[s] /\ state'[s] = state[s]
      /\ image'[s] = image[s] /\ tpc'[s] = tpc[s] /\ new'[s] = new[s]
      /\ shown'[s] = shown[s]
  BY TaskFrame
<1>2. failed \in BOOLEAN
  BY DEF TypeOK
<1>3. HasRow(s)' = HasRow(s) /\ Found(s)' = Found(s) /\ GetContainerId(s)' = GetContainerId(s)
  BY <1>1 DEF HasRow, Found, GetContainerId
<1>4. FormatServiceStatus(s)' = FormatServiceStatus(s)
  BY <1>1, <1>3 DEF FormatServiceStatus
<1>5. \A type : Achieved(s, type)' <=> Achieved(s, type)
  BY <1>1, <1>3, <1>4 DEF Achieved
<1>6. TaskInv(s)'
  BY <1>1, <1>2, <1>3, <1>4, <1>5 DEF TaskInv
<1>7. StepInv(s)'
  BY <1>1, <1>3 DEF StepInv
<1>8. QED
  BY <1>6, <1>7

\* The types.
LEMMA TaskTypeOK ==
  ASSUME TypeOK, NEW t \in Service, TaskStep(t), PlanInv, TaskInv(t)
  PROVE  TypeOK'
<1> USE ServicesAssumption DEF TypeOK, tableVars, engineVars, cmdVars, memVars, Locations, States
<1>1. CASE Fails(t) \/ TableFails(t)
  <2>1. failed' \in BOOLEAN
    BY <1>1, Zenon DEF Fails, TableFails
  <2>2. tpc' \in [Service -> Locations] /\ faults' \in Nat /\ crashes' \in Nat
    BY <1>1, SMT DEF Fails, TableFails
  <2>3. QED
    BY <1>1, <2>1, <2>2 DEF Fails, TableFails
<1>2. CASE Pull(t) \/ Get(t) \/ SyncConfig(t)
  BY <1>2 DEF Pull, Get, GetService, SyncConfig, At, Goto, Advance
<1>3. CASE List(t)
  <2>1. Head(plan) \in {"SYNC_CONFIG", "START_SERVICE", "RESTART_SERVICE", "STOP_SERVICE"}
    BY <1>3, PlanLemma, PcLemma DEF List, At, PlanInv, TaskInv
  <2>2. AfterList(Head(plan)) \in Locations
    BY <2>1 DEF AfterList
  <2>3. QED
    BY <1>3, <2>2 DEF List, At, Goto, Advance
<1>4. CASE Create(t)
  BY <1>4 DEF Create, At, Goto, Advance
<1>5. CASE CreateConflict(t) \/ CheckFails(t)
  BY <1>5 DEF CreateConflict, CheckFails, At, Refused
<1>6. CASE InsertService(t)
  BY <1>6 DEF InsertService, Insert, At, Goto, Advance, NoRow, NoCtr
<1>7. CASE Start(t) \/ Check(t) \/ Stop(t)
  BY <1>7 DEF Start, Check, Stop, At, Goto, Advance
<1>8. CASE RemoveFile(t) \/ RemoveContainer(t) \/ SetCleaned(t)
  <2>1. CASE RemoveFile(t)
    <3>1. data' \in [Service -> BOOLEAN]
      BY <2>1, Zenon DEF RemoveFile
    <3>2. QED
      BY <2>1, <3>1 DEF RemoveFile, At, Goto, Advance
  <2>2. CASE RemoveContainer(t)
    BY <2>2 DEF RemoveContainer, At, Goto, Advance
  <2>3. CASE SetCleaned(t)
    BY <2>3 DEF SetCleaned, At, Goto, Advance
  <2>4. QED
    BY <1>8, <2>1, <2>2, <2>3
<1>9. CASE InitStatus(t) \/ GetStatus(t)
  BY <1>9 DEF InitStatus, GetStatus, FormatServiceStatus, At, Advance
<1>10. QED
  BY <1>1, <1>2, <1>3, <1>4, <1>5, <1>6, <1>7, <1>8, <1>9 DEF TaskStep

\* Where the command is, and nothing is reported yet.
LEMMA TaskPlanInv ==
  ASSUME TypeOK, PlanInv, NEW t \in Service, TaskInv(t), TaskStep(t)
  PROVE  PlanInv' /\ CommandsTruthful'
<1>1. /\ cmd # "idle" /\ made
      /\ UNCHANGED <<want, cmd, plan, scope, items, made, last>>
  BY TaskFrame
<1>2. (made /\ Head(plan) = "INIT_SERVICE_STATUS") => failed' = failed
  <2> SUFFICES ASSUME Head(plan) = "INIT_SERVICE_STATUS" PROVE failed' = failed
    BY <1>1
  <2>1. tpc[t] \in {"init", "done"}
    BY <1>1 DEF TaskInv, Pcs
  <2>2. InitStatus(t)
    BY <2>1 DEF TaskStep, Fails, TableFails, Pull, List, Get, Create, CreateConflict, InsertService,
                SyncConfig, Start, Check, CheckFails, Stop, RemoveFile, RemoveContainer, SetCleaned,
                GetStatus, At, CanFail
  <2>3. QED
    BY <2>2 DEF InitStatus, Advance
<1>3. PlanInv'
  BY <1>1, <1>2 DEF PlanInv
<1>4. last'.cmd = "idle"
  BY <1>1 DEF PlanInv, NoCommand
<1>5. CommandsTruthful'
  BY <1>4 DEF CommandsTruthful
<1>6. QED
  BY <1>3, <1>5

\* What a step of its own task leaves of s, one action after the other.
LEMMA OwnTask ==
  ASSUME TypeOK, PlanInv, NEW s \in Service, TaskInv(s), StepInv(s), TaskStep(s)
  PROVE  TaskInv(s)' /\ StepInv(s)'
<1> DEFINE type == Head(plan)
<1>1. /\ cmd # "idle" /\ made
      /\ UNCHANGED <<want, cmd, plan, scope, items, made, last, cid>>
      /\ failed => failed'
  BY TaskFrame
<1>2. type \in StepTypes /\ type' = type /\ tpc[s] \in Pcs(type) \cup {"done"}
  BY <1>1, PlanLemma DEF PlanInv, TypeOK, TaskInv
<1>3. /\ failed \in BOOLEAN /\ failed' \in BOOLEAN
      /\ tpc \in [Service -> Locations] /\ db \in [Service -> Ids \cup {NoRow, Cleaned}]
      /\ ctr \in [Service -> Ids \cup {NoCtr}] /\ state \in [Service -> States]
      /\ NoCtr \notin Ids /\ NoRow \notin Ids /\ Cleaned \notin Ids
  BY TaskTypeOK DEF TypeOK, NoCtr, NoRow, Cleaned, Ids
<1> HIDE DEF type
<1>4. CASE Fails(s) \/ TableFails(s) \/ CreateConflict(s) \/ CheckFails(s)
  <2>1. /\ UNCHANGED <<db, ctr, state, image, shown, new>> /\ failed' = TRUE /\ tpc'[s] = "done"
        /\ tpc[s] # "init"
    BY <1>3, <1>4 DEF Fails, TableFails, CreateConflict, CheckFails, Refused, At, CanFail, tableVars,
                      engineVars, memVars
  <2>2. tpc[s] # "done"
    BY <1>4 DEF Fails, TableFails, CreateConflict, CheckFails, At, CanFail
  <2>3. HasRow(s)' = HasRow(s) /\ Found(s)' = Found(s) /\ GetContainerId(s)' = GetContainerId(s)
    BY <1>1, <2>1 DEF HasRow, Found, GetContainerId
  <2>4. type = "GET_SERVICE_STATUS" => shown[s] = "Unknown"
    BY <1>1, <1>2, <2>2 DEF TaskInv, Pcs
  <2>5. s \in scope
    BY <1>1, <2>2 DEF TaskInv
  <2>6. TaskInv(s)'
    BY <1>1, <1>2, <2>1, <2>3, <2>4, <2>5 DEF TaskInv, type
  <2>7. StepInv(s)'
    BY <1>1, <2>1, <2>3 DEF StepInv
  <2>8. QED
    BY <2>6, <2>7
<1>5. CASE Pull(s) \/ List(s) \/ Get(s) \/ SyncConfig(s) \/ Check(s)
  <2>1. /\ UNCHANGED <<db, ctr, state, image, shown, new, failed>>
        /\ tpc[s] # "done"
    BY <1>5 DEF Pull, List, Get, SyncConfig, Check, At, Goto, Advance, tableVars, engineVars, memVars
  <2>2. HasRow(s)' = HasRow(s) /\ Found(s)' = Found(s) /\ GetContainerId(s)' = GetContainerId(s)
    BY <1>1, <2>1 DEF HasRow, Found, GetContainerId
  <2>3. StepInv(s)'
    BY <1>1, <2>1, <2>2 DEF StepInv
  <2>4. s \in scope
    BY <1>1, <2>1 DEF TaskInv
  <2>5. CASE Pull(s) \/ SyncConfig(s)
    <3>1. tpc'[s] = "done" /\ type \in {"PULL_IMAGE", "SYNC_CONFIG"}
      BY <1>2, <1>3, <2>5, PcLemma DEF Pull, SyncConfig, At, Goto, Advance
    <3>2. Achieved(s, type)'
      BY <1>2, <3>1 DEF Achieved
    <3>3. QED
      BY <1>1, <2>1, <2>2, <2>3, <2>4, <3>1, <3>2 DEF TaskInv, type
  <2>6. CASE Check(s)
    <3>1. tpc'[s] = "done" /\ type \in {"START_SERVICE", "RESTART_SERVICE"} /\ state[s] = "running"
      BY <1>2, <1>3, <2>6, PcLemma DEF Check, CheckPostStart, At, Goto, Advance
    <3>2. Achieved(s, type)'
      BY <1>2, <2>1, <3>1 DEF Achieved
    <3>3. QED
      BY <1>1, <2>1, <2>2, <2>3, <2>4, <3>1, <3>2 DEF TaskInv, type
  <2>7. CASE Get(s)
    <3>1. type = "CREATE_CONTAINER" /\ tpc'[s] = GetService(s) /\ tpc[s] = "get"
      BY <1>2, <1>3, <2>7, PcLemma DEF Get, At, Goto, Advance
    <3>2. CASE HasRow(s)
      <4>1. tpc'[s] = "done" /\ cmd # "upgrade"
        BY <1>1, <1>3, <3>1, <3>2 DEF GetService, HasRow, TaskInv
      <4>2. Achieved(s, type)'
        BY <1>2, <1>1, <2>2, <3>1, <3>2, <4>1 DEF Achieved
      <4>3. QED
        BY <1>1, <2>1, <2>2, <2>3, <2>4, <3>1, <4>1, <4>2 DEF TaskInv, type
    <3>3. CASE ~HasRow(s)
      <4>1. tpc'[s] = "create"
        BY <1>3, <3>1, <3>3 DEF GetService, HasRow
      <4>2. QED
        BY <1>1, <2>1, <2>2, <2>3, <2>4, <3>1, <3>3, <4>1 DEF TaskInv, type, Pcs
    <3>4. QED
      BY <3>2, <3>3
  <2>8. CASE List(s)
    <3>1. /\ type \in {"SYNC_CONFIG", "START_SERVICE", "RESTART_SERVICE", "STOP_SERVICE"}
          /\ tpc'[s] = IF Found(s) THEN AfterList(type) ELSE "done"
      BY <1>2, <1>3, <2>8, PcLemma DEF List, At, Goto, Advance, type
    <3>2. CASE Found(s)
      <4>1. tpc'[s] \in Pcs(type) /\ tpc'[s] \in {"sync", "start", "restart", "stop"}
        BY <3>1, <3>2 DEF AfterList, Pcs
      <4>2. QED
        BY <1>1, <2>1, <2>2, <2>3, <2>4, <3>1, <3>2, <4>1 DEF TaskInv, type
    <3>3. CASE ~Found(s)
      <4>1. Achieved(s, type)'
        BY <1>2, <2>2, <3>1, <3>3 DEF Achieved
      <4>2. QED
        BY <1>1, <2>1, <2>2, <2>3, <2>4, <3>1, <3>3, <4>1 DEF TaskInv, type
    <3>4. QED
      BY <3>2, <3>3
  <2>9. QED
    BY <1>5, <2>5, <2>6, <2>7, <2>8
<1>6. CASE Create(s)
  <2>1. /\ UNCHANGED <<db, shown, failed>> /\ tpc[s] = "create" /\ tpc'[s] = "insert"
        /\ ctr'[s] \in Ids /\ new'[s] = ctr'[s] /\ image'[s] = want
    BY <1>3, <1>6 DEF Create, At, Goto, Advance, tableVars, memVars, TypeOK
  <2>2. type = "CREATE_CONTAINER" /\ s \in scope /\ ~HasRow(s) /\ ~HasRow(s)'
    BY <1>1, <1>2, <2>1, PcLemma DEF TaskInv, HasRow
  <2>3. TaskInv(s)'
    BY <1>1, <1>3, <2>1, <2>2 DEF TaskInv, type, Pcs
  <2>4. StepInv(s)'
    BY <1>1, <2>1, <2>2 DEF StepInv, type
  <2>5. QED
    BY <2>3, <2>4
<1>7. CASE InsertService(s)
  <2>1. /\ UNCHANGED <<ctr, state, image, shown, failed>> /\ tpc[s] = "insert" /\ tpc'[s] = "done"
        /\ db'[s] = new[s]
    BY <1>3, <1>7 DEF InsertService, Insert, At, Goto, Advance, engineVars, memVars
  <2>2. type = "CREATE_CONTAINER" /\ s \in scope /\ new[s] = ctr[s] /\ ctr[s] \in Ids /\ image[s] = want
    BY <1>1, <1>2, <1>3, <2>1, PcLemma DEF TaskInv
  <2>3. HasRow(s)' /\ db'[s] = ctr'[s]
    BY <2>1, <2>2 DEF HasRow
  <2>4. Achieved(s, type)'
    BY <1>2, <1>1, <2>1, <2>2, <2>3 DEF Achieved
  <2>5. TaskInv(s)'
    BY <1>1, <1>3, <2>1, <2>2, <2>3, <2>4 DEF TaskInv, type
  <2>6. StepInv(s)'
    BY <1>1, <2>2 DEF StepInv, type
  <2>7. QED
    BY <2>5, <2>6
<1>8. CASE Start(s)
  <2>1. /\ UNCHANGED <<db, ctr, image, shown, failed, new>> /\ tpc[s] \in {"start", "restart"}
        /\ tpc'[s] = "check"
    BY <1>3, <1>8 DEF Start, Goto, Advance, tableVars, memVars
  <2>2. type \in {"START_SERVICE", "RESTART_SERVICE"} /\ s \in scope /\ Found(s)
    BY <1>1, <1>2, <2>1, PcLemma DEF TaskInv
  <2>3. HasRow(s)' = HasRow(s) /\ Found(s)' = Found(s) /\ GetContainerId(s)' = GetContainerId(s)
    BY <1>1, <2>1 DEF HasRow, Found, GetContainerId
  <2>4. TaskInv(s)'
    BY <1>1, <2>1, <2>2, <2>3 DEF TaskInv, type, Pcs, Found
  <2>5. StepInv(s)'
    BY <1>1, <2>1, <2>3 DEF StepInv
  <2>6. QED
    BY <2>4, <2>5
<1>9. CASE Stop(s)
  <2>1. /\ UNCHANGED <<db, ctr, image, shown, failed, new>> /\ tpc[s] = "stop"
        /\ tpc'[s] = "done" /\ state'[s] # "running"
    BY <1>3, <1>9 DEF Stop, At, Goto, Advance, tableVars, memVars, States
  <2>2. type = "STOP_SERVICE" /\ s \in scope /\ Found(s)
    BY <1>1, <1>2, <2>1, PcLemma DEF TaskInv
  <2>3. HasRow(s)' = HasRow(s) /\ Found(s)' = Found(s) /\ GetContainerId(s)' = GetContainerId(s)
    BY <1>1, <2>1 DEF HasRow, Found, GetContainerId
  <2>4. Achieved(s, type)'
    BY <1>2, <2>1, <2>2 DEF Achieved
  <2>5. TaskInv(s)'
    BY <1>1, <2>1, <2>2, <2>3, <2>4 DEF TaskInv, type, Found
  <2>6. StepInv(s)'
    BY <1>1, <2>1, <2>3 DEF StepInv
  <2>7. QED
    BY <2>5, <2>6
<1>10. CASE RemoveFile(s)
  <2>1. /\ UNCHANGED <<db, ctr, image, state, shown, failed, new>> /\ tpc[s] = "rmfile"
        /\ tpc'[s] = IF "container" \in items THEN "rm" ELSE "done"
    BY <1>3, <1>10 DEF RemoveFile, At, Goto, Advance, tableVars, engineVars, memVars
  <2>2. type = "CLEAN_SERVICE" /\ s \in scope
    BY <1>1, <1>2, <2>1, PcLemma DEF TaskInv
  <2>3. HasRow(s)' = HasRow(s)
    BY <1>1, <2>1 DEF HasRow
  <2>4. Achieved(s, type)' \/ tpc'[s] = "rm"
    BY <1>2, <1>1, <2>1, <2>2 DEF Achieved
  <2>5. TaskInv(s)'
    BY <1>1, <2>1, <2>2, <2>3, <2>4 DEF TaskInv, type, Pcs
  <2>6. StepInv(s)'
    BY <1>1, <2>1, <2>3 DEF StepInv
  <2>7. QED
    BY <2>5, <2>6
<1>11. CASE RemoveContainer(s)
  <2>1. /\ UNCHANGED <<db, image, shown, failed, new>> /\ tpc[s] = "rm" /\ tpc'[s] = "setdb"
        /\ \/ ctr'[s] = NoCtr /\ state'[s] = "none"
           \/ UNCHANGED <<ctr, state>>
    BY <1>3, <1>11 DEF RemoveContainer, At, Goto, Advance, tableVars, memVars
  <2>2. type = "CLEAN_SERVICE" /\ s \in scope /\ "container" \in items
    BY <1>1, <1>2, <2>1, PcLemma DEF TaskInv
  <2>3. HasRow(s)' = HasRow(s)
    BY <1>1, <2>1 DEF HasRow
  <2>4. TaskInv(s)'
    BY <1>1, <2>1, <2>2, <2>3 DEF TaskInv, type, Pcs
  <2>5. StepInv(s)'
    BY <1>1, <2>2 DEF StepInv, type
  <2>6. QED
    BY <2>4, <2>5
<1>12. CASE SetCleaned(s)
  <2>1. /\ UNCHANGED <<ctr, state, image, shown, failed, new>> /\ tpc[s] = "setdb" /\ tpc'[s] = "done"
        /\ db'[s] \in {NoRow, Cleaned}
    BY <1>3, <1>12 DEF SetCleaned, At, Goto, Advance, engineVars, memVars
  <2>2. type = "CLEAN_SERVICE" /\ s \in scope
    BY <1>1, <1>2, <2>1, PcLemma DEF TaskInv
  <2>3. ~HasRow(s)'
    BY <1>3, <2>1 DEF HasRow, Ids
  <2>4. Achieved(s, type)'
    BY <1>2, <2>2, <2>3 DEF Achieved
  <2>5. TaskInv(s)'
    BY <1>1, <2>1, <2>2, <2>3, <2>4 DEF TaskInv, type
  <2>6. StepInv(s)'
    BY <1>1, <2>2 DEF StepInv, type
  <2>7. QED
    BY <2>5, <2>6
<1>13. CASE InitStatus(s) \/ GetStatus(s)
  <2>1. /\ UNCHANGED <<db, ctr, state, image, new, failed>>
        /\ tpc[s] \in {"init", "status"} /\ tpc'[s] = "done"
    BY <1>3, <1>13 DEF InitStatus, GetStatus, At, Advance, tableVars, engineVars
  <2>2. HasRow(s)' = HasRow(s) /\ Found(s)' = Found(s) /\ GetContainerId(s)' = GetContainerId(s)
    BY <1>1, <2>1 DEF HasRow, Found, GetContainerId
  <2>3. FormatServiceStatus(s)' = FormatServiceStatus(s)
    BY <1>1, <2>1, <2>2 DEF FormatServiceStatus
  <2>4. StepInv(s)'
    BY <1>1, <2>1, <2>2 DEF StepInv
  <2>5. shown \in [Service -> States \cup {"Unknown", "Cleaned", "Losed"}]
    BY DEF TypeOK
  <2>6. CASE InitStatus(s)
    <3>1. type = "INIT_SERVICE_STATUS" /\ s \in scope /\ shown'[s] = "Unknown"
      BY <1>1, <1>2, <2>5, <2>6, PcLemma DEF InitStatus, At, TaskInv
    <3>2. Achieved(s, type)'
      BY <1>2, <3>1 DEF Achieved
    <3>3. QED
      BY <1>1, <2>1, <2>2, <2>4, <3>1, <3>2 DEF TaskInv, type
  <2>7. CASE GetStatus(s)
    <3>1. type = "GET_SERVICE_STATUS" /\ s \in scope /\ shown'[s] = FormatServiceStatus(s)
      BY <1>1, <1>2, <2>5, <2>7, PcLemma DEF GetStatus, At, TaskInv
    <3>2. Achieved(s, type)'
      BY <1>2, <2>3, <3>1 DEF Achieved
    <3>3. QED
      BY <1>1, <2>1, <2>2, <2>3, <2>4, <3>1, <3>2 DEF TaskInv, type
  <2>8. QED
    BY <1>13, <2>6, <2>7
<1>14. QED
  BY <1>4, <1>5, <1>6, <1>7, <1>8, <1>9, <1>10, <1>11, <1>12, <1>13 DEF TaskStep

-----------------------------------------------------------------------------

\* The initial state.
LEMMA InitIInv == Init => IInv
<1> SUFFICES ASSUME Init PROVE IInv
  OBVIOUS
<1> USE DEF Init
<1>1. TypeOK
  BY ServicesAssumption DEF TypeOK, NoRow, Cleaned, NoCtr, States, Locations, NoCommand, NoStatus
<1>2. PlanInv
  BY DEF PlanInv, Plans
<1>3. ServiceInv
  BY DEF ServiceInv, TaskInv, StepInv, HasRow, Ids, NoRow
<1>4. CommandsTruthful
  BY DEF CommandsTruthful, NoCommand
<1>5. QED
  BY <1>1, <1>2, <1>3, <1>4 DEF IInv

\* A command begins.
LEMMA BeginStep ==
  ASSUME IInv, NEW c \in Commands, NEW sc \in SUBSET Service, NEW it \in SUBSET Items,
         Begin(c, sc, it)
  PROVE  IInv'
<1> USE DEF Begin, IInv, tableVars, engineVars, taskVars
<1>1. c \in CommandNames
  BY ServicesAssumption DEF CommandNames
<1>2. TypeOK'
  BY <1>1 DEF TypeOK, NoCommand, NoStatus, States, Items
<1>3. Steps(c, it) \in Plans(c)
  BY <1>1 DEF CommandNames, Steps, Plans, CleanSteps, OnlyClean, StopClean
<1>4. PlanInv'
  BY <1>3, <1>1 DEF PlanInv, CommandNames
<1>5. ~made /\ made' = FALSE
  BY DEF PlanInv
<1>6. ServiceInv'
  <2> SUFFICES ASSUME NEW s \in Service PROVE TaskInv(s)' /\ StepInv(s)'
    BY DEF ServiceInv
  <2>1. TaskInv(s)'
    BY <1>5 DEF ServiceInv, TaskInv, HasRow
  <2>2. c \in {"deploy", "upgrade", "status"} =>
          Head(plan') \in {"PULL_IMAGE", "INIT_SERVICE_STATUS"}
    BY DEF Steps, DeploySteps, UpgradeSteps, StatusSteps
  <2>3. StepInv(s)'
    BY <2>2 DEF StepInv
  <2>4. QED
    BY <2>1, <2>3
<1>7. CommandsTruthful'
  BY DEF CommandsTruthful, NoCommand
<1>8. QED
  BY <1>2, <1>4, <1>6, <1>7

\* The tasks of a step are created.
LEMMA CreateTasksStep ==
  ASSUME IInv, CreateTasks
  PROVE  IInv'
<1> USE DEF IInv, tableVars, engineVars, memVars
<1>1. /\ UNCHANGED <<db, ctr, state, image, data, want, cmd, plan, scope, items, old, new, last, shown,
                      faults, crashes>>
      /\ cmd # "idle" /\ ~made /\ made' = TRUE /\ failed' = FALSE
      /\ tpc' = [s \in Service |-> IF s \in scope THEN FirstPc(Head(plan), s) ELSE "done"]
      /\ cid' = [s \in Service |-> GetContainerId(s)]
  BY DEF CreateTasks
<1>2. Head(plan) \in StepTypes
  BY <1>1, PlanLemma DEF PlanInv, TypeOK
<1>3. \A s \in Service : FirstPc(Head(plan), s) \in Pcs(Head(plan)) \cup {"done"}
  BY <1>2 DEF FirstPc, Pcs, StepTypes
<1>4. \A s \in Service : FirstPc(Head(plan), s) \in Locations
  BY <1>2 DEF FirstPc, Locations
<1>5. \A s \in Service : GetContainerId(s) \in Ids \cup {Cleaned}
  BY DEF GetContainerId, TypeOK
<1>6. TypeOK'
  <2>1. tpc' \in [Service -> Locations]
    BY <1>1, <1>4 DEF Locations
  <2>2. cid' \in [Service -> Ids \cup {Cleaned}]
    BY <1>1, <1>5
  <2>3. QED
    BY <1>1, <2>1, <2>2 DEF TypeOK
<1>7. PlanInv'
  BY <1>1 DEF PlanInv
<1>8. ServiceInv'
  <2> SUFFICES ASSUME NEW s \in Service PROVE TaskInv(s)' /\ StepInv(s)'
    BY DEF ServiceInv
  <2>1. /\ TaskInv(s) /\ StepInv(s)
        /\ cid'[s] = GetContainerId(s) /\ GetContainerId(s)' = GetContainerId(s)
        /\ HasRow(s)' = HasRow(s)
    BY <1>1 DEF ServiceInv, HasRow, GetContainerId
  <2>2. CASE s \notin scope
    BY <1>1, <2>1, <2>2 DEF TaskInv, StepInv
  <2>3. CASE s \in scope
    <3>1. tpc'[s] = FirstPc(Head(plan), s)
      BY <1>1, <2>3
    <3>2. /\ tpc'[s] \in {"done", "pull", "get", "rmfile", "init", "status", "list"}
          /\ tpc'[s] = "done" => Head(plan) = "CLEAN_SERVICE" /\ GetContainerId(s) = Cleaned
          /\ tpc'[s] = "get" => Head(plan) = "CREATE_CONTAINER"
          /\ tpc'[s] = "status" => Head(plan) = "GET_SERVICE_STATUS"
      BY <1>2, <3>1 DEF FirstPc, StepTypes
    <3>3. GetContainerId(s) = Cleaned => ~HasRow(s)
      BY DEF GetContainerId, HasRow, NoRow, Cleaned, Ids
    <3>4. tpc'[s] = "done" => Achieved(s, Head(plan))'
      BY <1>1, <2>1, <3>2, <3>3 DEF Achieved
    <3>5. /\ tpc'[s] = "status" => shown[s] = "Unknown"
          /\ (cmd = "upgrade" /\ tpc'[s] = "get") => ~HasRow(s)
      <4>1. Head(plan) = "GET_SERVICE_STATUS" => cmd = "status"
        BY <1>1 DEF PlanInv, TypeOK, Plans, CommandNames, DeploySteps, ToCreate, ToSync, ToStart, StartSteps,
              StopSteps, RestartSteps, UpgradeSteps, ToStop, ToClean, StopClean, OnlyClean
      <4>2. QED
        BY <1>1, <2>1, <2>3, <3>2, <4>1 DEF StepInv
    <3>6. TaskInv(s)'
      BY <1>1, <1>3, <2>1, <2>3, <3>1, <3>2, <3>4, <3>5 DEF TaskInv
    <3>7. StepInv(s)'
      BY <1>1, <2>1 DEF StepInv
    <3>8. QED
      BY <3>6, <3>7
  <2>4. QED
    BY <2>2, <2>3
<1>9. CommandsTruthful'
  BY <1>1 DEF CommandsTruthful, PlanInv, NoCommand
<1>10. QED
  BY <1>6, <1>7, <1>8, <1>9

\* A step ends well, and the command goes on with the next one.
LEMMA GoOn ==
  ASSUME IInv, EndStep, ~failed, Len(plan) # 1
  PROVE  IInv'
<1> USE DEF IInv, tableVars, engineVars, memVars
<1>1. /\ UNCHANGED <<db, ctr, state, image, data, want, scope, items, shown, faults, crashes, cmd, last>>
      /\ cmd # "idle" /\ made /\ \A s \in Service : tpc[s] = "done"
      /\ made' = FALSE /\ tpc' = [s \in Service |-> "none"] /\ plan' = Tail(plan)
      /\ cid' = [s \in Service |-> Cleaned] /\ old' = [s \in Service |-> NoRow]
      /\ new' = [s \in Service |-> NoCtr] /\ failed' = FALSE
  BY DEF EndStep, NoTasks, StepError
<1>2. cmd \in CommandNames /\ plan \in Plans(cmd)
  BY <1>1 DEF TypeOK, PlanInv
<1>3. TypeOK'
  BY <1>1 DEF TypeOK, Locations, NoCtr, NoRow
<1>4. PlanInv'
  BY <1>1, <1>2, PlanLemma DEF PlanInv
<1>5. ServiceInv'
  <2> SUFFICES ASSUME NEW s \in Service PROVE TaskInv(s)' /\ StepInv(s)'
    BY DEF ServiceInv
  <2>1. TaskInv(s) /\ StepInv(s) /\ HasRow(s)' = HasRow(s) /\ tpc[s] = "done"
    BY <1>1 DEF ServiceInv, HasRow
  <2>2. TaskInv(s)'
    BY <1>1, <2>1 DEF TaskInv
  <2>3. s \in scope => Achieved(s, Head(plan))
    BY <1>1, <2>1 DEF TaskInv
  <2>4. CASE cmd = "deploy"
    BY <1>1, <1>2, <2>1, <2>2, <2>3, <2>4, OrderLemma DEF StepInv, Achieved
  <2>5. CASE cmd = "upgrade"
    <3>1. "container" \in items
      BY <2>5 DEF PlanInv, UpgradeItems
    <3>2. QED
      BY <1>1, <1>2, <2>1, <2>2, <2>3, <2>5, <3>1, OrderLemma DEF StepInv, Achieved
  <2>6. CASE cmd = "status"
    BY <1>1, <1>2, <2>1, <2>2, <2>3, <2>6, OrderLemma DEF StepInv, Achieved
  <2>7. CASE cmd \notin {"deploy", "upgrade", "status"}
    BY <1>1, <2>2, <2>7 DEF StepInv
  <2>8. QED
    BY <2>4, <2>5, <2>6, <2>7
<1>6. CommandsTruthful'
  BY <1>1 DEF CommandsTruthful, PlanInv, NoCommand
<1>7. QED
  BY <1>3, <1>4, <1>5, <1>6

\* The last step ends, or one that failed, and the command returns: what it reports
\* follows from what its tasks achieved.
LEMMA Return ==
  ASSUME IInv, EndStep, failed \/ Len(plan) = 1
  PROVE  IInv'
<1> USE DEF IInv, tableVars, engineVars, memVars
<1>1. /\ UNCHANGED <<db, ctr, state, image, data, want, scope, items, shown, faults, crashes>>
      /\ cmd # "idle" /\ made /\ \A s \in Service : tpc[s] = "done"
      /\ made' = FALSE /\ tpc' = [s \in Service |-> "none"]
      /\ cid' = [s \in Service |-> Cleaned] /\ old' = [s \in Service |-> NoRow]
      /\ new' = [s \in Service |-> NoCtr] /\ failed' = FALSE
      /\ cmd' = "idle" /\ plan' = <<>>
      /\ last' = [cmd |-> cmd, ok |-> ~failed, scope |-> scope, items |-> items]
  BY DEF EndStep, NoTasks, StepError, Finish
<1>2. cmd \in CommandNames /\ plan \in Plans(cmd)
  BY <1>1 DEF TypeOK, PlanInv
<1>3. TypeOK'
  <2>1. last' \in [cmd : CommandNames \cup {"idle"}, ok : BOOLEAN,
                    scope : SUBSET Service, items : SUBSET Items]
    BY <1>1 DEF TypeOK
  <2>2. QED
    BY <1>1, <2>1 DEF TypeOK, Locations, NoCtr, NoRow
<1>4. PlanInv'
  BY <1>1 DEF PlanInv, Plans
<1>5. ServiceInv'
  BY <1>1 DEF ServiceInv, TaskInv, StepInv, HasRow
<1>6. CommandsTruthful'
  <2>1. /\ last'.cmd = cmd /\ last'.scope = scope
        /\ last'.ok => ~failed /\ Len(plan) = 1
        /\ ~failed => last'.ok
    BY <1>1
  <2>2. ASSUME NEW s \in Service
        PROVE  /\ TaskInv(s) /\ StepInv(s) /\ tpc[s] = "done"
               /\ (~failed /\ s \in scope) => Achieved(s, Head(plan))
               /\ NoCtr \notin Ids /\ NoRow \notin Ids /\ Cleaned \notin Ids
               /\ db[s] \in Ids \cup {NoRow, Cleaned} /\ ctr[s] \in Ids \cup {NoCtr}
               /\ Lost(s)' = Lost(s) /\ Orphan(s)' = Orphan(s)
    BY <1>1 DEF ServiceInv, TaskInv, NoCtr, NoRow, Cleaned, Ids, TypeOK, Lost, Orphan
  <2>3. ASSUME cmd = "deploy", last'.ok, NEW s \in Service
        PROVE  (state[s] = "running" \/ Lost(s))'
    <3>1. Head(plan) = "START_SERVICE" /\ s \in scope
      BY <1>2, <2>1, <2>3, OrderLemma DEF PlanInv
    <3>2. HasRow(s) /\ cid[s] = db[s]
      BY <1>1, <2>2, <2>3, <3>1 DEF StepInv, TaskInv, GetContainerId, HasRow
    <3>3. Found(s) => state[s] = "running"
      BY <2>1, <2>2, <2>3, <3>1 DEF Achieved
    <3>4. Found(s) \/ Lost(s)
      BY <2>2, <3>2 DEF TaskInv, Found, Lost, HasRow
    <3>5. QED
      BY <1>1, <2>2, <3>3, <3>4
  <2>4. ASSUME cmd = "upgrade", last'.ok, NEW s \in scope
        PROVE  (state[s] = "running" /\ image[s] = want)'
    <3>1. Head(plan) = "START_SERVICE" /\ s \in Service
      BY <1>2, <2>1, <2>4, OrderLemma DEF TypeOK
    <3>2. HasRow(s) /\ cid[s] = db[s] /\ db[s] = ctr[s] /\ image[s] = want
      BY <1>1, <2>2, <2>4, <3>1 DEF StepInv, TaskInv, GetContainerId, HasRow
    <3>3. Found(s) => state[s] = "running"
      BY <2>1, <2>2, <2>4, <3>1 DEF Achieved
    <3>4. Found(s)
      BY <2>2, <3>1, <3>2 DEF Found, HasRow
    <3>5. QED
      BY <1>1, <3>2, <3>3, <3>4
  <2>5. ASSUME cmd = "stop", last'.ok, NEW s \in scope
        PROVE  (state[s] = "running" => Orphan(s))'
    <3>1. Head(plan) = "STOP_SERVICE" /\ s \in Service
      BY <1>2, <2>5, OrderLemma DEF TypeOK
    <3>2. cid[s] = GetContainerId(s) /\ (ctr[s] = NoCtr => state[s] = "none")
      BY <1>1, <2>2, <3>1 DEF TaskInv
    <3>3. Found(s) => state[s] # "running"
      BY <2>1, <2>2, <2>5, <3>1 DEF Achieved
    <3>4. state[s] = "running" => Orphan(s)
      BY <2>2, <3>1, <3>2, <3>3 DEF Found, Orphan, GetContainerId
    <3>5. QED
      BY <1>1, <2>2, <3>1, <3>4
  <2>6. ASSUME cmd = "status", NEW s \in scope
        PROVE  (/\ shown[s] = "Unknown" => ~last.ok
                /\ shown[s] = "Cleaned" => db[s] \notin Ids
                /\ shown[s] = "Losed" => Lost(s)
                /\ shown[s] \in States => shown[s] = state[s] /\ ~Orphan(s))'
    <3>1. Head(plan) = "GET_SERVICE_STATUS" /\ s \in Service
      BY <1>1, <1>2, <2>6, OrderLemma DEF TypeOK, PlanInv
    <3>2. /\ cid[s] = GetContainerId(s) /\ (HasRow(s) /\ ctr[s] # NoCtr => db[s] = ctr[s])
          /\ shown[s] = FormatServiceStatus(s) \/ (shown[s] = "Unknown" /\ failed)
      BY <1>1, <2>2, <2>6, <3>1 DEF TaskInv
    <3>3. CASE shown[s] = "Unknown" /\ failed
      BY <1>1, <2>1, <2>2, <3>1, <3>3 DEF States
    <3>4. CASE shown[s] = FormatServiceStatus(s)
      <4>1. state[s] \in States
        BY <3>1 DEF TypeOK
      <4>2. CASE cid[s] = Cleaned
        BY <1>1, <2>2, <3>1, <3>2, <3>4, <4>2 DEF FormatServiceStatus, States, GetContainerId
      <4>3. CASE cid[s] # Cleaned /\ Found(s)
        BY <1>1, <2>2, <3>1, <3>2, <3>4, <4>1, <4>3
           DEF FormatServiceStatus, States, GetContainerId, Found, Orphan
      <4>4. CASE cid[s] # Cleaned /\ ~Found(s)
        BY <1>1, <2>2, <3>1, <3>2, <3>4, <4>4
           DEF FormatServiceStatus, States, GetContainerId, Found, Lost, HasRow
      <4>5. QED
        BY <4>2, <4>3, <4>4
    <3>5. QED
      BY <3>2, <3>3, <3>4
  <2>7. QED
    BY <2>1, <2>3, <2>4, <2>5, <2>6 DEF CommandsTruthful
<1>7. QED
  BY <1>3, <1>4, <1>5, <1>6

\* dingocli is killed, the topology changes or a container is lost.
LEMMA EnvironmentStep ==
  ASSUME IInv, Environment
  PROVE  IInv'
<1> USE DEF IInv, tableVars, engineVars, taskVars, NoStatus, NoCommand
<1>1. CASE Crash
  <2>1. TypeOK'
    <3>1. /\ UNCHANGED <<db, ctr, state, image, data, want, scope, items, last, faults>>
          /\ made' = FALSE /\ failed' = FALSE /\ cmd' = "idle"
          /\ tpc' = [s \in Service |-> "none"] /\ cid' = [s \in Service |-> Cleaned]
          /\ old' = [s \in Service |-> NoRow] /\ new' = [s \in Service |-> NoCtr]
          /\ shown' = [s \in Service |-> "none"] /\ crashes' = crashes + 1
      BY <1>1 DEF Crash, NoTasks
    <3>2. /\ tpc' \in [Service -> Locations] /\ cid' \in [Service -> Ids \cup {Cleaned}]
          /\ old' \in [Service -> Ids \cup {NoRow, Cleaned}] /\ new' \in [Service -> Ids \cup {NoCtr}]
          /\ shown' \in [Service -> States \cup {"Unknown", "Cleaned", "Losed"}]
      BY <3>1 DEF Locations, States
    <3>3. crashes' \in Nat
      BY <3>1 DEF TypeOK
    <3>4. QED
      BY <3>1, <3>2, <3>3 DEF TypeOK
  <2>2. PlanInv'
    BY <1>1 DEF Crash, NoTasks, PlanInv, Plans
  <2>3. ServiceInv'
    BY <1>1 DEF Crash, NoTasks, ServiceInv, TaskInv, StepInv, HasRow
  <2>4. CommandsTruthful'
    BY <1>1 DEF Crash, CommandsTruthful, PlanInv
  <2>5. QED
    BY <2>1, <2>2, <2>3, <2>4
<1>2. CASE CommitTopology
  <2>1. TypeOK'
    BY <1>2 DEF CommitTopology, TypeOK, States
  <2>2. PlanInv'
    BY <1>2 DEF CommitTopology, PlanInv
  <2>3. ServiceInv'
    BY <1>2 DEF CommitTopology, ServiceInv, TaskInv, StepInv, HasRow, PlanInv
  <2>4. CommandsTruthful'
    BY <1>2 DEF CommitTopology, CommandsTruthful
  <2>5. QED
    BY <2>1, <2>2, <2>3, <2>4
<1>3. ASSUME NEW t \in Service, Lose(t)
      PROVE  IInv'
  <2>1. TypeOK'
    BY <1>3 DEF Lose, TypeOK, States
  <2>2. PlanInv'
    BY <1>3 DEF Lose, PlanInv
  <2>3. ServiceInv'
    BY <1>3 DEF Lose, ServiceInv, TaskInv, StepInv, HasRow, PlanInv, TypeOK
  <2>4. CommandsTruthful'
    BY <1>3 DEF Lose, CommandsTruthful
  <2>5. QED
    BY <2>1, <2>2, <2>3, <2>4
<1>4. QED
  BY <1>1, <1>2, <1>3 DEF Environment

\* IInv is inductive.
LEMMA NextIInv == IInv /\ [Next]_vars => IInv'
<1> SUFFICES ASSUME IInv, [Next]_vars PROVE IInv'
  OBVIOUS
<1>1. CASE BeginAny
  BY <1>1, BeginStep DEF BeginAny
<1>2. CASE CreateTasks
  BY <1>2, CreateTasksStep
<1>3. CASE EndStep
  BY <1>3, GoOn, Return
<1>4. ASSUME NEW t \in Service, TaskStep(t)
      PROVE  IInv'
  <2>1. TaskInv(t) /\ TypeOK /\ PlanInv
    BY DEF IInv, ServiceInv
  <2>2. TypeOK' /\ PlanInv' /\ CommandsTruthful'
    BY <1>4, <2>1, TaskTypeOK, TaskPlanInv
  <2>3. ASSUME NEW s \in Service PROVE TaskInv(s)' /\ StepInv(s)'
    <3>1. TaskInv(s) /\ StepInv(s)
      BY DEF IInv, ServiceInv
    <3>2. CASE s = t
      BY <1>4, <2>1, <3>1, <3>2, OwnTask
    <3>3. CASE s # t
      BY <1>4, <2>1, <3>1, <3>3, OtherTask
    <3>4. QED
      BY <3>2, <3>3
  <2>4. QED
    BY <2>2, <2>3 DEF IInv, ServiceInv
<1>5. CASE Environment
  BY <1>5, EnvironmentStep
<1>6. CASE UNCHANGED vars
  <2> USE <1>6 DEF vars, IInv
  <2>1. TypeOK'
    BY DEF TypeOK
  <2>2. PlanInv'
    BY DEF PlanInv
  <2>3. ServiceInv'
    BY DEF ServiceInv, TaskInv, StepInv, HasRow, Achieved, Found, GetContainerId, FormatServiceStatus
  <2>4. CommandsTruthful'
    BY DEF CommandsTruthful, Lost, Orphan
  <2>5. QED
    BY <2>1, <2>2, <2>3, <2>4
<1>7. QED
  BY <1>1, <1>2, <1>3, <1>4, <1>5, <1>6 DEF Next, Run

\* Every reachable state satisfies the inductive invariant.
LEMMA Invariance == Spec => []IInv
  BY InitIInv, NextIInv, PTL DEF Spec

\* Whatever failed, was lost or was killed on the way, the row of a service never
\* names another container than the one the service has: the guards of
\* Step2GetService and of the engine's create suffice.
THEOREM RowsNameContainers == Spec => []RowNamesContainer
<1>1. IInv => RowNamesContainer
  BY DEF IInv, ServiceInv, TaskInv, HasRow, RowNamesContainer
<1>2. QED
  BY <1>1, Invariance, PTL

\* A deploy, an upgrade, a stop or a status says what is so when it returns, after
\* any history of failures, kills and losses.
THEOREM CommandsAreTruthful == Spec => []CommandsTruthful
  BY Invariance, PTL DEF IInv

\* No step removes the data directory of a service, apart from RemoveFile of a
\* clean that was asked to, for a service in its scope.
THEOREM DataIsKept == Spec => DataKept
<1>1. ASSUME IInv, [Next]_vars, NEW s \in Service, data[s], ~data'[s]
      PROVE  cmd = "clean" /\ "data" \in items /\ s \in scope
  <2>1. data' # data
    BY <1>1
  <2>2. PICK t \in Service : TaskStep(t)
    BY <1>1, <2>1 DEF Next, Run, BeginAny, Begin, CreateTasks, EndStep, Environment, Crash,
                CommitTopology, Lose, vars
  <2>3. t = s /\ cmd # "idle" /\ made
    BY <1>1, <2>2, TaskFrame DEF IInv
  <2>4. RemoveFile(s)
    BY <1>1, <2>1, <2>2, <2>3
       DEF TaskStep, Fails, TableFails, Pull, List, Get, Create, CreateConflict, InsertService, Refused,
           SyncConfig, Start, Check, CheckFails, Stop, RemoveContainer, SetCleaned, InitStatus, GetStatus,
           IInv, TypeOK
  <2>5. "data" \in items /\ tpc[s] = "rmfile"
    BY <1>1, <2>4, Zenon DEF RemoveFile, At, IInv, TypeOK
  <2>6. s \in scope
    BY <1>1, <2>3, <2>5 DEF IInv, ServiceInv, TaskInv
  <2>7. cmd = "clean"
    BY <1>1, <2>3, <2>5 DEF IInv, PlanInv, UpgradeItems
  <2>8. QED
    BY <2>5, <2>6, <2>7
<1>2. IInv /\ [Next]_vars =>
        [\A s \in Service : (data[s] /\ ~data'[s]) =>
           (cmd = "clean" /\ "data" \in items /\ s \in scope)]_vars
  BY <1>1
<1>3. QED
  BY <1>2, Invariance, PTL DEF Spec, DataKept

=============================================================================
