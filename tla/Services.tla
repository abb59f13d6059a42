------------------------------ MODULE Services ------------------------------
(***************************************************************************)
(* The life of the services of a cluster: what the cluster commands do to  *)
(* the table `containers` of dingocli and to the containers on the hosts.  *)
(*                                                                         *)
(* A command is a playbook, a sequence of steps; a step is one task per    *)
(* service in scope; the tasks of a step interleave, and the next step     *)
(* begins when all of them ended and none failed (Tasks, Playbook).  A     *)
(* task reads the container id from the table when it is created, and      *)
(* talks to the container engine afterwards: every call to the table or    *)
(* the engine is a step of its own, and the process may be killed between  *)
(* any two of them.                                                        *)
(*                                                                         *)
(* The engine (external) keeps at most one container per name, and the     *)
(* name of a service's container is a function of the service, so a        *)
(* service has at most one container.  Roles, hosts and images' names are  *)
(* left out; an image is its version.                                      *)
(***************************************************************************)
EXTENDS Integers, Sequences

CONSTANTS
  Service,      \* the services of the topology
  Commands,     \* the commands the operator uses
  MaxId,        \* bound: container ids, reused once nothing refers to them
  MaxFaults,    \* bound: engine or SSH errors
  MaxCrashes,   \* bound: how often the process is killed or the table unwritable
  MaxWant,      \* bound: topology versions, each with an image of its own
  LossAllowed   \* a container may be removed behind dingocli's back

ASSUME ServicesAssumption ==
  /\ Commands \subseteq {"deploy", "start", "stop", "restart", "upgrade", "clean", "status"}
  /\ MaxId \in Nat /\ MaxFaults \in Nat /\ MaxCrashes \in Nat
  /\ MaxWant \in Nat \ {0}
  /\ LossAllowed \in BOOLEAN

VARIABLES
  db,       \* containers.container_id: NoRow, Cleaned ("-") or an id
  ctr,      \* the id of the service's container, or NoCtr
  state,    \* its state
  image,    \* the image it was created from
  data,     \* whether the data directory of the service exists
  want,     \* the image the topology asks for
  cmd,      \* the command being run, or "idle"
  plan,     \* its remaining steps
  scope,    \* the services it is for
  items,    \* what its clean step removes
  made,     \* whether the tasks of the current step were created
  tpc,      \* where the task of a service is
  cid,      \* the container id the task read when it was created
  old,      \* Step2GetService: the id read by a create task
  new,      \* the id printed by the engine's create
  failed,   \* whether a task of the current step failed
  last,     \* the last command that returned, and what it returned
  shown,    \* MemStorage: the status of each service that `status` prints
  faults, crashes

tableVars == <<db>>
engineVars == <<ctr, state, image>>
cmdVars == <<cmd, plan, scope, items, made, last>>
memVars == <<shown>>
taskVars == <<tpc, cid, old, new, failed>>
vars == <<db, ctr, state, image, data, want, cmd, plan, scope, items,
          made, tpc, cid, old, new, failed, last, shown, faults, crashes>>

NoRow == 0
Cleaned == -1
NoCtr == 0
Ids == 1..MaxId

States == {"none", "created", "running", "exited"}
Items == {"container", "data"}

(***************************************************************************)
(* The playbooks of the commands                                           *)
(***************************************************************************)

\* genUpgradePlaybook cleans the container only; `clean` takes the items from
\* its option --only.
UpgradeItemsAll == Items
UpgradeItems == {"container"}

DeploySteps == <<"PULL_IMAGE", "CREATE_CONTAINER", "SYNC_CONFIG", "START_SERVICE">>
StartSteps == <<"START_SERVICE">>
StopSteps == <<"STOP_SERVICE">>
RestartSteps == <<"RESTART_SERVICE">>
UpgradeSteps == <<"PULL_IMAGE", "STOP_SERVICE", "CLEAN_SERVICE",
                  "CREATE_CONTAINER", "SYNC_CONFIG", "START_SERVICE">>
StatusSteps == <<"INIT_SERVICE_STATUS", "GET_SERVICE_STATUS">>
CleanSteps(it) ==
  IF "container" \in it THEN <<"STOP_SERVICE", "CLEAN_SERVICE">>
  ELSE <<"CLEAN_SERVICE">>

Steps(c, it) ==
  CASE c = "deploy"  -> DeploySteps
    [] c = "start"   -> StartSteps
    [] c = "stop"    -> StopSteps
    [] c = "restart" -> RestartSteps
    [] c = "upgrade" -> UpgradeSteps
    [] c = "clean"   -> CleanSteps(it)
    [] c = "status"  -> StatusSteps

NoStatus == [s \in Service |-> "none"]
NoCommand == [cmd |-> "idle", ok |-> FALSE, scope |-> {}, items |-> {}]

(***************************************************************************)
(* Commands                                                                *)
(***************************************************************************)

Init ==
  /\ db = [s \in Service |-> NoRow]
  /\ ctr = [s \in Service |-> NoCtr]
  /\ state = [s \in Service |-> "none"]
  /\ image = [s \in Service |-> 0]
  /\ data = [s \in Service |-> FALSE]
  /\ want = 1
  /\ cmd = "idle"
  /\ plan = <<>>
  /\ scope = {}
  /\ items = {}
  /\ made = FALSE
  /\ tpc = [s \in Service |-> "none"]
  /\ cid = [s \in Service |-> Cleaned]
  /\ old = [s \in Service |-> NoRow]
  /\ new = [s \in Service |-> NoCtr]
  /\ failed = FALSE
  /\ last = NoCommand
  /\ shown = NoStatus
  /\ faults = 0
  /\ crashes = 0

\* The operator runs command c.  Deploy is for all services; the other
\* commands are for the services the filter options leave, and no service
\* left is an error before anything is done.
Begin(c, sc, it) ==
  /\ cmd = "idle"
  /\ c \in Commands
  /\ sc # {}
  /\ c = "deploy" => sc = Service
  /\ it # {} <=> c \in {"clean", "upgrade"}
  /\ c = "upgrade" => it = UpgradeItems
  /\ cmd' = c
  /\ plan' = Steps(c, it)
  /\ scope' = sc
  /\ items' = it
  /\ made' = FALSE
  /\ last' = NoCommand
  /\ shown' = NoStatus
  /\ UNCHANGED <<tableVars, engineVars, data, want, taskVars, faults, crashes>>

\* dingocli.GetContainerId: no row reads like a cleaned container.
GetContainerId(s) == IF db[s] = NoRow THEN Cleaned ELSE db[s]

\* Where the task of a step type begins; "done" where the factory gets no task:
\* there is nothing to clean for a cleaned container.
FirstPc(type, s) ==
  CASE type = "PULL_IMAGE" -> "pull"
    [] type = "CREATE_CONTAINER" -> "get"
    [] type = "CLEAN_SERVICE" ->
         IF GetContainerId(s) = Cleaned THEN "done" ELSE "rmfile"
    [] type = "INIT_SERVICE_STATUS" -> "init"
    [] type = "GET_SERVICE_STATUS" -> "status"
    [] OTHER -> "list"

\* createTasks of the current step.
CreateTasks ==
  /\ cmd # "idle"
  /\ ~made
  /\ made' = TRUE
  /\ tpc' = [s \in Service |-> IF s \in scope THEN FirstPc(Head(plan), s) ELSE "done"]
  /\ cid' = [s \in Service |-> GetContainerId(s)]
  /\ failed' = FALSE
  /\ UNCHANGED <<tableVars, engineVars, data, want, cmd, plan, scope, items,
                 old, new, last, memVars, faults, crashes>>

\* The tasks of the step are gone, and their local variables with them.
NoTasks ==
  /\ made' = FALSE
  /\ tpc' = [s \in Service |-> "none"]
  /\ cid' = [s \in Service |-> Cleaned]
  /\ old' = [s \in Service |-> NoRow]
  /\ new' = [s \in Service |-> NoCtr]
  /\ failed' = FALSE

Finish(ok) ==
  /\ cmd' = "idle"
  /\ plan' = <<>>
  /\ last' = [cmd |-> cmd, ok |-> ok, scope |-> scope, items |-> items]

\* Execute returned: go on with the next step, or return from the command.
StepErrorIgnored == FALSE
StepError == failed

EndStep ==
  /\ cmd # "idle"
  /\ made
  /\ \A s \in Service : tpc[s] = "done"
  /\ NoTasks
  /\ IF StepError \/ Len(plan) = 1 THEN Finish(~StepError)
     ELSE plan' = Tail(plan) /\ UNCHANGED <<cmd, last>>
  /\ UNCHANGED <<tableVars, engineVars, data, want, scope, items, memVars, faults, crashes>>

(***************************************************************************)
(* The steps of the task of service s                                      *)
(***************************************************************************)

At(s, pc) == cmd # "idle" /\ made /\ tpc[s] = pc

Advance(s, pc) ==
  /\ tpc' = [tpc EXCEPT ![s] = pc]
  /\ UNCHANGED <<cmdVars, cid, failed, want, crashes>>

Goto(s, pc) == Advance(s, pc) /\ UNCHANGED memVars

\* The engine, the shell or the SSH connection returns an error: the task ends
\* with it.
CanFail == {"pull", "list", "get", "create", "sync", "start", "check", "stop",
            "restart", "rmfile", "status"}

Fails(s) ==
  /\ cmd # "idle" /\ made
  /\ tpc[s] \in CanFail
  /\ faults < MaxFaults
  /\ faults' = faults + 1
  /\ tpc' = [tpc EXCEPT ![s] = "done"]
  /\ failed' = TRUE
  /\ UNCHANGED <<tableVars, engineVars, data, want, cmdVars, memVars, cid, old, new,
                 crashes>>

\* The table cannot be written (counted with the crashes: it leaves the engine and
\* the table apart in the same way), and the task ends with the error.
TableFails(s) ==
  /\ cmd # "idle" /\ made
  /\ tpc[s] \in {"insert", "setdb"}
  /\ crashes < MaxCrashes
  /\ crashes' = crashes + 1
  /\ tpc' = [tpc EXCEPT ![s] = "done"]
  /\ failed' = TRUE
  /\ UNCHANGED <<tableVars, engineVars, data, want, cmdVars, memVars, cid, old, new,
                 faults>>

\* The task ends with an error of its own.
Refused(s) ==
  /\ tpc' = [tpc EXCEPT ![s] = "done"]
  /\ failed' = TRUE
  /\ UNCHANGED <<tableVars, engineVars, data, want, cmdVars, memVars, cid, old, new,
                 faults, crashes>>

Pull(s) ==
  /\ At(s, "pull")
  /\ Goto(s, "done")
  /\ UNCHANGED <<tableVars, engineVars, data, old, new, faults>>

\* ListContainers and CheckContainerExist: a task whose container is gone is
\* skipped, and counts as done.
Found(s) == ctr[s] # NoCtr /\ cid[s] = ctr[s]

AfterList(type) ==
  CASE type = "SYNC_CONFIG" -> "sync"
    [] type = "START_SERVICE" -> "start"
    [] type = "RESTART_SERVICE" -> "restart"
    [] type = "STOP_SERVICE" -> "stop"

List(s) ==
  /\ At(s, "list")
  /\ Goto(s, IF Found(s) THEN AfterList(Head(plan)) ELSE "done")
  /\ UNCHANGED <<tableVars, engineVars, data, old, new, faults>>

\* Step2GetService: a service that has a container id is skipped.
GetServiceUnchecked(s) == "create"
GetService(s) == IF db[s] \in {NoRow, Cleaned} THEN "create" ELSE "done"

Get(s) ==
  /\ At(s, "get")
  /\ old' = [old EXCEPT ![s] = db[s]]
  /\ Goto(s, GetService(s))
  /\ UNCHANGED <<tableVars, engineVars, data, new, faults>>

\* CreateDirectory, then the engine's create: a container of the same name
\* makes it fail.
Fresh(i) == \A s \in Service : i \notin {db[s], ctr[s], cid[s], old[s], new[s]}

Create(s) ==
  /\ At(s, "create")
  /\ ctr[s] = NoCtr
  /\ \E i \in Ids :
       /\ Fresh(i) /\ \A j \in 1..(i - 1) : ~Fresh(j)
       /\ ctr' = [ctr EXCEPT ![s] = i]
       /\ new' = [new EXCEPT ![s] = i]
  /\ state' = [state EXCEPT ![s] = "created"]
  /\ image' = [image EXCEPT ![s] = want]
  /\ data' = [data EXCEPT ![s] = TRUE]
  /\ Goto(s, "insert")
  /\ UNCHANGED <<tableVars, old, faults>>

CreateConflict(s) ==
  /\ At(s, "create")
  /\ ctr[s] # NoCtr
  /\ Refused(s)

\* Step2InsertService: an update of the cleaned row, or an insert, which fails
\* if the service has a row.
Insert(s) == [db EXCEPT ![s] = new[s]]

InsertService(s) ==
  /\ At(s, "insert")
  /\ old[s] = Cleaned \/ db[s] = NoRow
  /\ db' = Insert(s)
  /\ Goto(s, "done")
  /\ UNCHANGED <<engineVars, data, old, new, faults>>

SyncConfig(s) ==
  /\ At(s, "sync")
  /\ Goto(s, "done")
  /\ UNCHANGED <<tableVars, engineVars, data, old, new, faults>>

\* The container is started, and may have stopped again by the time it is
\* inspected (Step2CheckPostStart, three seconds later).
Start(s) ==
  /\ tpc[s] \in {"start", "restart"} /\ cmd # "idle" /\ made
  /\ \/ faults' = faults /\ state' = [state EXCEPT ![s] = "running"]
     \/ faults < MaxFaults /\ faults' = faults + 1 /\ state' = [state EXCEPT ![s] = "exited"]
  /\ Goto(s, "check")
  /\ UNCHANGED <<tableVars, ctr, image, data, old, new>>

CheckPostStart(s) == state[s] = "running"

Check(s) ==
  /\ At(s, "check")
  /\ CheckPostStart(s)
  /\ Goto(s, "done")
  /\ UNCHANGED <<tableVars, engineVars, data, old, new, faults>>

CheckFails(s) ==
  /\ At(s, "check")
  /\ ~CheckPostStart(s)
  /\ Refused(s)

Stop(s) ==
  /\ At(s, "stop")
  /\ state' = [state EXCEPT ![s] = IF @ = "running" THEN "exited" ELSE @]
  /\ Goto(s, "done")
  /\ UNCHANGED <<tableVars, ctr, image, data, old, new, faults>>

\* RemoveFile removes the directories of the items that were asked for, and
\* Step2CleanContainer is added if the container is one of them.
RemoveFile(s) ==
  /\ At(s, "rmfile")
  /\ data' = [data EXCEPT ![s] = @ /\ "data" \notin items]
  /\ Goto(s, IF "container" \in items THEN "rm" ELSE "done")
  /\ UNCHANGED <<tableVars, engineVars, old, new, faults>>

\* Step2CleanContainer: the result of the engine's rm is dropped.  It removes
\* nothing if the container is running (there is no --force) or on an error.
RemoveContainer(s) ==
  /\ At(s, "rm")
  /\ \/ /\ Found(s) /\ state[s] # "running"
        /\ ctr' = [ctr EXCEPT ![s] = NoCtr]
        /\ state' = [state EXCEPT ![s] = "none"]
        /\ faults' = faults
     \/ /\ ~Found(s) \/ state[s] = "running"
        /\ UNCHANGED <<ctr, state, faults>>
     \/ /\ Found(s) /\ state[s] # "running"
        /\ faults < MaxFaults /\ faults' = faults + 1
        /\ UNCHANGED <<ctr, state>>
  /\ Goto(s, "setdb")
  /\ UNCHANGED <<tableVars, image, data, old, new>>

\* ... and the row is marked cleaned.
SetCleaned(s) ==
  /\ At(s, "setdb")
  /\ db' = [db EXCEPT ![s] = IF @ = NoRow THEN NoRow ELSE Cleaned]
  /\ Goto(s, "done")
  /\ UNCHANGED <<engineVars, data, old, new, faults>>

\* step2InitStatus: the service is listed before its host is asked, so that one
\* whose host does not answer is shown as Unknown.
InitStatus(s) ==
  /\ At(s, "init")
  /\ shown' = [shown EXCEPT ![s] = "Unknown"]
  /\ Advance(s, "done")
  /\ UNCHANGED <<tableVars, engineVars, data, old, new, faults>>

\* ListContainers and step2FormatServiceStatus: no container id is Cleaned, no
\* answer of the engine Losed; the ports and the leader are asked for in between
\* and their errors dropped.
FormatServiceStatus(s) ==
  IF cid[s] = Cleaned THEN "Cleaned" ELSE IF Found(s) THEN state[s] ELSE "Losed"

GetStatus(s) ==
  /\ At(s, "status")
  /\ shown' = [shown EXCEPT ![s] = FormatServiceStatus(s)]
  /\ Advance(s, "done")
  /\ UNCHANGED <<tableVars, engineVars, data, old, new, faults>>

TaskStep(s) ==
  \/ Fails(s) \/ TableFails(s) \/ Pull(s) \/ List(s) \/ Get(s) \/ Create(s) \/ CreateConflict(s)
  \/ InsertService(s) \/ SyncConfig(s) \/ Start(s) \/ Check(s) \/ CheckFails(s)
  \/ Stop(s) \/ RemoveFile(s) \/ RemoveContainer(s) \/ SetCleaned(s)
  \/ InitStatus(s) \/ GetStatus(s)

(***************************************************************************)
(* The environment                                                         *)
(***************************************************************************)

\* dingocli is killed: the table and the engine stay as they are.
Crash ==
  /\ cmd # "idle"
  /\ crashes < MaxCrashes
  /\ crashes' = crashes + 1
  /\ cmd' = "idle"
  /\ plan' = <<>>
  /\ NoTasks
  /\ shown' = NoStatus
  /\ UNCHANGED <<tableVars, engineVars, data, want, scope, items, last, faults>>

\* `config commit` with another image, between two commands.
CommitTopology ==
  /\ cmd = "idle"
  /\ want < MaxWant
  /\ want' = want + 1
  /\ last' = NoCommand
  /\ shown' = NoStatus
  /\ UNCHANGED <<tableVars, engineVars, data, cmd, plan, scope, items, made,
                 taskVars, faults, crashes>>

\* A container is lost between two commands: service_status.go calls it LOSED.
Lose(s) ==
  /\ LossAllowed
  /\ cmd = "idle"
  /\ ctr[s] # NoCtr
  /\ ctr' = [ctr EXCEPT ![s] = NoCtr]
  /\ state' = [state EXCEPT ![s] = "none"]
  /\ last' = NoCommand
  /\ shown' = NoStatus
  /\ UNCHANGED <<tableVars, image, data, want, cmd, plan, scope, items, made,
                 taskVars, faults, crashes>>

Environment == CommitTopology \/ Crash \/ \E s \in Service : Lose(s)

Run == CreateTasks \/ EndStep \/ \E s \in Service : TaskStep(s)

BeginAny ==
  \E c \in Commands, sc \in SUBSET Service, it \in SUBSET Items : Begin(c, sc, it)

Next == BeginAny \/ Run \/ Environment

Spec == Init /\ [][Next]_vars

(***************************************************************************)
(* Properties                                                              *)
(***************************************************************************)

\* The table never points past the container of a service: if a row holds a
\* container id and the service has a container, it is that container.  Every
\* command finds the container by that id.
RowNamesContainer ==
  \A s \in Service : (db[s] \in Ids /\ ctr[s] # NoCtr) => db[s] = ctr[s]

\* A container that dingocli does not know of.
Orphan(s) == ctr[s] # NoCtr /\ db[s] # ctr[s]

\* The row of a service names a container that is gone.
Lost(s) == db[s] \in Ids /\ ctr[s] = NoCtr

\* A command that reports success did what it is for, whatever was lost, failed,
\* killed or stopped half-way before: a deploy leaves every service running, apart
\* from those whose container is gone although their row names it; an upgrade
\* leaves the services it was for running the image of the topology; a stop leaves
\* no container running that dingocli knows.  And `status`, successful or not,
\* shows the state of the containers dingocli knows, calls no service Cleaned that
\* still has a row with an id, and leaves none Unknown if it succeeded.
CommandsTruthful ==
  /\ (last.cmd = "deploy" /\ last.ok) =>
       \A s \in Service : state[s] = "running" \/ Lost(s)
  /\ (last.cmd = "upgrade" /\ last.ok) =>
       \A s \in last.scope : state[s] = "running" /\ image[s] = want
  /\ (last.cmd = "stop" /\ last.ok) =>
       \A s \in last.scope : state[s] = "running" => Orphan(s)
  /\ last.cmd = "status" =>
       \A s \in last.scope :
         /\ shown[s] = "Unknown" => ~last.ok
         /\ shown[s] = "Cleaned" => db[s] \notin Ids
         /\ shown[s] = "Losed" => Lost(s)
         /\ shown[s] \in States => shown[s] = state[s] /\ ~Orphan(s)

\* The data directory of a service disappears only in a clean command that was
\* asked to remove data, for a service it was asked for: an upgrade keeps it.
DataKept ==
  [][\A s \in Service : (data[s] /\ ~data'[s]) =>
       (cmd = "clean" /\ "data" \in items /\ s \in scope)]_vars

(***************************************************************************)
(* Retrying a deploy                                                       *)
(***************************************************************************)

\* The operator deploys again until every service runs, and dingocli goes on.
RetrySpec ==
  /\ Init
  /\ [][Next]_vars
  /\ WF_vars(Run)
  /\ WF_vars(BeginAny)

\* However often tasks failed, containers were lost or dingocli was killed, a
\* deploy that is retried gets every service running whose container is not
\* lost, unless a container was left that dingocli does not know of: that one
\* makes CREATE_CONTAINER fail, and so keeps the other services from being
\* started as well.
DeployRecovers ==
  <>[](\/ \A s \in Service : state[s] = "running" \/ Lost(s)
       \/ \E s \in Service : Orphan(s))

=============================================================================
