------------------------------ MODULE Cluster ------------------------------
(***************************************************************************)
(* From a topology file to the steps that are run: `config commit`,        *)
(* `cluster precheck`, `cluster deploy` and `cluster upgrade`.             *)
(*                                                                         *)
(* A topology is parsed into deploy configs, one for every instance of     *)
(* every service; the kind of the cluster and the roles among the deploy   *)
(* configs choose a list of steps; every step is restricted to its role,   *)
(* some to one service; the playbook runs the steps in order and stops at  *)
(* the first one that fails.  A command is a process: MemStorage and the   *)
(* step lists (package variables) begin anew with each.                    *)
(*                                                                         *)
(* What a task does to the container of its service is in Services; here   *)
(* a step is one action, and a service is none, created, running or        *)
(* stopped.                                                                *)
(***************************************************************************)
EXTENDS Integers, FiniteSets, SequencesExt

CONSTANTS
  Topologies,   \* the topology files: [kind, deploy], deploy: Section -> Seq(Deploy)
  Commands,     \* the commands the operator gives, see CommandType
  MaxGiven,     \* bound: commands given
  MaxFaults     \* bound: tasks that fail

Sections == {"etcd", "metaserver", "mds", "coordinator", "store", "document",
             "index", "diskann", "executor", "web", "proxy"}
Roles == Sections \cup {"mds-client"}
Kinds == {"dingofs", "dingo-store", "dingodb"}

\* An entry of a deploy list, and a section with its list.
Entries(host) == [host : {host}, name : Int, instances : Int, replicas : Int, replica : Int]
IsDeployList(ds) == ds \in Seq(Range(ds)) /\ \A d \in Range(ds) : d \in Entries(d.host)

ASSUME ClusterAssumption ==
  /\ \A t \in Topologies : t.kind \in Kinds /\ \A s \in Sections : IsDeployList(t.deploy[s])
  /\ \A c \in Commands : c.local \in BOOLEAN /\ c.force \in BOOLEAN /\ c.insecure \in BOOLEAN
  /\ MaxGiven \in Nat /\ MaxFaults \in Nat

\* The elements of s at the positions I, in order: SelectSeq by position.
Pick(s, I) ==
  LET picked[k \in 0..Len(s)] ==
        IF k = 0 THEN <<>>
        ELSE IF k \in I THEN Append(picked[k - 1], s[k]) ELSE picked[k - 1]
  IN  picked[Len(s)]

(***************************************************************************)
(* Parsing                                                                 *)
(***************************************************************************)

\* The roles a topology may use, in the order of the deploy configs.
RolesOf(t) ==
  LET d == t.deploy IN
  CASE t.kind = "dingofs" /\ d["coordinator"] # <<>> ->
         <<"mds", "coordinator", "store", "mds-client">>
           \o (IF d["executor"] # <<>> THEN <<"executor">> ELSE <<>>)
    [] t.kind = "dingofs" /\ d["coordinator"] = <<>> /\ d["etcd"] = <<>> ->
         <<"mds", "mds-client">>
    [] t.kind = "dingofs" /\ d["coordinator"] = <<>> /\ d["etcd"] # <<>> ->
         <<"etcd", "metaserver", "coordinator", "store", "mds", "executor">>
    [] t.kind = "dingo-store" -> <<"coordinator", "store", "executor">>
    [] t.kind = "dingodb" ->
         <<"coordinator", "store", "document", "index", "diskann", "executor",
           "proxy", "web">>

\* CTX_KEY_MDS_VERSION, as ParseTopology leaves it in the context.
MdsVersion(t) ==
  CASE t.kind # "dingofs" -> "none"
    [] t.kind = "dingofs" /\ t.deploy["coordinator"] # <<>> ->
         IF t.deploy["executor"] # <<>> THEN "v2" ELSE "none"
    [] OTHER -> IF t.deploy["etcd"] = <<>> THEN "v2" ELSE "v1"

\* The tmp role mds-client borrows the first deploy of the mds.
DeploysOf(t, role) ==
  IF role = "mds-client" THEN <<[t.deploy["mds"][1] EXCEPT !.replicas = 0]>>
  ELSE t.deploy[role]

\* instances, or its older names replicas and replica, or one.
Instances(d) ==
  IF d.instances > 0 THEN d.instances
  ELSE IF d.replicas > 0 THEN d.replicas
  ELSE IF d.replica > 0 THEN d.replica ELSE 1

Negative(d) == d.replicas < 0 \/ d.replica < 0 \/ d.instances < 0

NoName == -1
FormatName(name, hostSequence) == IF name = NoName THEN hostSequence ELSE name

NewDeployConfig(role, d, hostSequence, i) ==
  LET name == FormatName(d.name, hostSequence) IN
  [id |-> <<role, d.host, name, i>>, parent |-> <<role, d.host, name, 0>>,
   role |-> role, host |-> d.host]

DeployConfigs(t) ==
  FlattenSeq([r \in DOMAIN RolesOf(t) |->
    LET role == RolesOf(t)[r]
        ds == DeploysOf(t, role) IN
    FlattenSeq([h \in DOMAIN ds |->
      [i \in 1..Instances(ds[h]) |-> NewDeployConfig(role, ds[h], h - 1, i - 1)]])])

\* `exist`, the ids seen so far: nothing is ever added to it.
Exist(dcs, k) == {}

\* Deploy[0] of no mds panics; the other outcomes are error codes.
ParseTopology(t) ==
  IF "mds-client" \in Range(RolesOf(t)) /\ t.deploy["mds"] = <<>> THEN "panic"
  ELSE LET dcs == DeployConfigs(t) IN
    IF \E r \in DOMAIN RolesOf(t) : \E d \in Range(DeploysOf(t, RolesOf(t)[r])) : Negative(d)
    THEN "error"
    ELSE IF \E k \in DOMAIN dcs : dcs[k].id \in Exist(dcs, k) THEN "error"
    ELSE IF dcs = <<>> THEN "empty" ELSE "ok"

RolesIn(dcs) == {dcs[k].role : k \in DOMAIN dcs}
ByRole(dcs, role) == Pick(dcs, {k \in DOMAIN dcs : dcs[k].role = role})
Ids(dcs) == {dcs[k].id : k \in DOMAIN dcs}

(***************************************************************************)
(* CHECK_TOPOLOGY                                                          *)
(***************************************************************************)

\* FetchSkipRoles
SkipRoles(t, dcs) ==
  CASE t.kind # "dingofs" -> {}
    [] t.kind = "dingofs" /\ MdsVersion(t) = "v1" -> {"coordinator", "store", "mds"}
    [] t.kind = "dingofs" /\ MdsVersion(t) # "v1" ->
         IF "coordinator" \in RolesIn(dcs) THEN {"etcd", "metaserver", "mds"}
         ELSE {"coordinator", "store", "mds", "etcd", "metaserver", "executor"}

\* step2CheckServices: three services of each role, and three hosts of some.
Three == 3
CheckedRolesNoStore(t, dcs) ==
  IF t.kind = "dingofs" THEN {"etcd", "mds", "metaserver", "coordinator"} \ SkipRoles(t, dcs)
  ELSE {"coordinator"}
CheckedRoles(t, dcs) ==
  IF t.kind = "dingofs"
  THEN {"etcd", "mds", "metaserver", "coordinator", "store"} \ SkipRoles(t, dcs)
  ELSE {"coordinator", "store"}

Step2CheckServices(t, dcs) ==
  /\ \A role \in CheckedRoles(t, dcs) : Len(ByRole(dcs, role)) >= Three
  /\ \A role \in CheckedRoles(t, dcs) \cap {"etcd", "mds", "metaserver"} :
       Cardinality({dc.parent : dc \in Range(ByRole(dcs, role))}) >= Three

\* What the task can end with when the options `keys` are in MemStorage: the
\* checks of hosts, directories, addresses and S3 may find something as well,
\* and the last of them asserts the type of a value without looking for it.
CheckTopology(t, dcs, keys) ==
  {"error"} \cup
  (IF ~Step2CheckServices(t, dcs) THEN {}
   ELSE IF "CHECK_SKIP_SNAPSHOTCLONE" \notin keys THEN {"panic"} ELSE {"ok"})

CommitKeys == {"ALL_DEPLOY_CONFIGS", "CHECK_SKIP_SNAPSHOTCLONE", "CHECK_WITH_WEAK",
               "SKIP_CHECKS_ROLES"}
PrecheckKeys == {"ALL_DEPLOY_CONFIGS", "CHECK_WITH_WEAK", "SKIP_CHECKS_ROLES"}

(***************************************************************************)
(* The lists of steps                                                      *)
(***************************************************************************)

StepLists == [
  mds_only |-> <<"CLEAN_PRECHECK_ENVIRONMENT", "PULL_IMAGE", "CREATE_CONTAINER",
    "CREATE_MDSV2_CLI_CONTAINER", "SYNC_CONFIG", "START_MDSV2_CLI_CONTAINER",
    "CREATE_META_TABLES", "START_FS_MDS">>,
  mds_follow |-> <<"CLEAN_PRECHECK_ENVIRONMENT", "PULL_IMAGE", "CREATE_CONTAINER",
    "CREATE_MDSV2_CLI_CONTAINER", "SYNC_CONFIG", "START_COORDINATOR", "START_STORE",
    "CHECK_STORE_HEALTH", "START_MDSV2_CLI_CONTAINER", "CREATE_META_TABLES",
    "START_FS_MDS", "START_DINGODB_EXECUTOR">>,
  store |-> <<"CLEAN_PRECHECK_ENVIRONMENT", "PULL_IMAGE", "CREATE_CONTAINER",
    "SYNC_CONFIG", "START_COORDINATOR", "START_STORE", "CHECK_STORE_HEALTH",
    "START_DINGODB_EXECUTOR">>,
  db |-> <<"CLEAN_PRECHECK_ENVIRONMENT", "PULL_IMAGE", "CREATE_CONTAINER",
    "SYNC_CONFIG", "START_COORDINATOR", "START_STORE", "CHECK_STORE_HEALTH",
    "START_DINGODB_DOCUMENT", "START_DINGODB_DISKANN", "START_DINGODB_INDEX",
    "START_DINGODB_EXECUTOR", "START_DINGODB_WEB", "START_DINGODB_PROXY">>,
  upgrade |-> <<"PULL_IMAGE", "STOP_SERVICE", "CLEAN_SERVICE", "CREATE_CONTAINER",
    "SYNC_CONFIG", "START_SERVICE">>,
  upgrade_store_fs |-> <<"PULL_IMAGE", "STOP_SERVICE", "CLEAN_SERVICE",
    "CREATE_CONTAINER", "SYNC_CONFIG", "START_COORDINATOR", "START_STORE",
    "CHECK_STORE_HEALTH", "START_FS_MDS", "START_DINGODB_EXECUTOR">>]

DEPLOY_FILTER_ROLE == [
  START_FS_MDS |-> "mds",
  START_COORDINATOR |-> "coordinator",
  START_STORE |-> "store",
  CHECK_STORE_HEALTH |-> "store",
  START_DINGODB_DOCUMENT |-> "document",
  START_DINGODB_DISKANN |-> "diskann",
  START_DINGODB_INDEX |-> "index",
  START_DINGODB_EXECUTOR |-> "executor",
  START_DINGODB_WEB |-> "web",
  START_DINGODB_PROXY |-> "proxy",
  START_MDSV2_CLI_CONTAINER |-> "mds-client",
  CREATE_META_TABLES |-> "mds-client",
  CREATE_MDSV2_CLI_CONTAINER |-> "mds-client"]

\* The role a step is for; none if it is for all services.
FilterRoleMissing(step) ==
  IF step \in DOMAIN DEPLOY_FILTER_ROLE \ {"START_COORDINATOR"}
  THEN {DEPLOY_FILTER_ROLE[step]} ELSE {}
FilterRole(step) ==
  IF step \in DOMAIN DEPLOY_FILTER_ROLE THEN {DEPLOY_FILTER_ROLE[step]} ELSE {}

\* DEPLOY_LIMIT_SERVICE
Limited == {"CREATE_META_TABLES", "CREATE_MDSV2_CLI_CONTAINER", "CHECK_STORE_HEALTH"}

Configs(dcs, step) ==
  IF FilterRole(step) = {} THEN dcs
  ELSE Pick(dcs, {k \in DOMAIN dcs : dcs[k].role \in FilterRole(step)})

\* config[:n] with n = 1: out of range if there is none.
Limit(configs, step) ==
  IF step \in Limited THEN SubSeq(configs, 1, 1) ELSE configs

Panics(dcs, steps) ==
  \E k \in DOMAIN steps : steps[k] \in Limited /\ Configs(dcs, steps[k]) = <<>>

Plan(dcs, steps) ==
  [k \in DOMAIN steps |->
     [type |-> steps[k], dcs |-> Limit(Configs(dcs, steps[k]), steps[k])]]

\* The list genDeployPlaybook chooses, and how many of its steps it takes: the
\* executor's step is the last.
DeployList(t, dcs) ==
  CASE t.kind = "dingofs" /\ "coordinator" \in RolesIn(dcs) -> "mds_follow"
    [] t.kind = "dingofs" /\ "coordinator" \notin RolesIn(dcs) ->
         IF {"mds", "mds-client"} \subseteq RolesIn(dcs) THEN "mds_only" ELSE "none"
    [] t.kind = "dingo-store" -> "store"
    [] t.kind = "dingodb" -> "db"

DeployLenAlwaysCut(list, dcs) == Len(StepLists[list]) - 1
DeployLen(list, dcs) ==
  IF list = "mds_follow" /\ "executor" \notin RolesIn(dcs)
  THEN Len(StepLists[list]) - 1 ELSE Len(StepLists[list])

UpgradeList(dcs) == IF "mds-client" \in RolesIn(dcs) THEN "upgrade_store_fs" ELSE "upgrade"

\* --local: append(steps[:i], steps[i+1:]...) shifts the elements in the array
\* of the list, which keeps its length, and takes one element less of it.
PullAt(steps) == {i \in DOMAIN steps : steps[i] = "PULL_IMAGE"}

Shifted(list, len) ==
  [k \in DOMAIN list |->
     IF k < len /\ \E i \in PullAt(SubSeq(list, 1, len)) : i <= k THEN list[k + 1] ELSE list[k]]

RemovePull(list, len) ==
  IF PullAt(SubSeq(list, 1, len)) = {} THEN SubSeq(list, 1, len)
  ELSE SubSeq(Shifted(list, len), 1, len - 1)

(***************************************************************************)
(* precheck                                                                *)
(***************************************************************************)

CHECK_ITEMS == {"topology", "ssh", "permission", "kernel", "network", "date", "service"}

DINGOFS_PRECHECK_STEPS ==
  <<"CHECK_TOPOLOGY", "CHECK_SSH_CONNECT", "CHECK_PERMISSION",
    "CLEAN_PRECHECK_ENVIRONMENT", "CHECK_PORT_IN_USE", "START_HTTP_SERVER",
    "CHECK_DESTINATION_REACHABLE", "GET_HOST_DATE", "CHECK_HOST_DATE">>

BELONG_CHECK_ITEM == [
  CHECK_TOPOLOGY |-> "topology",
  CHECK_SSH_CONNECT |-> "ssh",
  CHECK_PERMISSION |-> "permission",
  CHECK_PORT_IN_USE |-> "network",
  CHECK_DESTINATION_REACHABLE |-> "network",
  GET_HOST_DATE |-> "date",
  CHECK_HOST_DATE |-> "date"]

\* A step that belongs to no item is never skipped: the probes are started even
\* with --skip network.
SkipPrecheckSteps(skip) ==
  LET Skipped(s) == s \in DOMAIN BELONG_CHECK_ITEM /\ BELONG_CHECK_ITEM[s] \in skip
  IN  Pick(DINGOFS_PRECHECK_STEPS,
           {k \in DOMAIN DINGOFS_PRECHECK_STEPS : ~Skipped(DINGOFS_PRECHECK_STEPS[k])})

\* genPrecheckPlaybook; its post step, POST_CLEAN here, is the clean of the probes
\* once more.
PrecheckPlan(dcs, skip) ==
  LET steps == SkipPrecheckSteps(skip) \o <<"POST_CLEAN">> IN
  [k \in DOMAIN steps |->
     [type |-> steps[k],
      dcs |-> IF steps[k] \in {"CHECK_TOPOLOGY", "CHECK_HOST_DATE"} THEN SubSeq(dcs, 1, 1)
              ELSE dcs]]

(***************************************************************************)
(* The state                                                               *)
(***************************************************************************)

VARIABLES
  stored,    \* the topology in the table of clusters, or NoTopology
  forced,    \* whether it was committed by force
  cmd,       \* the command being run, or Idle
  todo,      \* the deploy configs it still has to make a playbook for, in batches
  plan,      \* the remaining steps of the current playbook
  batch,     \* the deploy configs of the current playbook
  lists,     \* the step lists of the process
  svc,       \* the services: service id -> state
  base,      \* the services that ran when the command began
  metaTables, \* whether the meta tables were created
  probes,    \* the containers of a precheck on the hosts: <<"port" or "http", service id>>
  result,    \* what the playbook returns after its post step: "ok" or "error"
  last,      \* the last command and how it ended
  given, faults

allVars == <<stored, forced, cmd, todo, plan, batch, lists, svc, base, metaTables,
          probes, result, last, given, faults>>

NoTopology == [kind |-> "none", deploy |-> [s \in Sections |-> <<>>]]
NoCommand == [name |-> "none", local |-> FALSE, force |-> FALSE, insecure |-> FALSE,
              role |-> "*", host |-> "*", skip |-> {}]
AllIds == UNION {IF ParseTopology(t) = "ok" THEN Ids(DeployConfigs(t)) ELSE {} : t \in Topologies}
RoleOf(id) == id[1]

ClusterInit ==
  /\ stored = NoTopology
  /\ forced = FALSE
  /\ cmd = NoCommand
  /\ todo = <<>> /\ plan = <<>> /\ batch = <<>>
  /\ lists = StepLists
  /\ svc = [i \in AllIds |-> "none"]
  /\ base = {}
  /\ metaTables = FALSE
  /\ probes = {}
  /\ result = "ok"
  /\ last = [cmd |-> NoCommand, out |-> "none", at |-> "none"]
  /\ given = 0
  /\ faults = 0

clusterVars == <<stored, forced>>
serviceVars == <<svc, metaTables, probes>>
processVars == <<cmd, todo, plan, batch, lists, base, result>>

Give(c, name) ==
  /\ cmd = NoCommand
  /\ given < MaxGiven
  /\ given' = given + 1
  /\ c \in Commands /\ c.name = name
  /\ UNCHANGED faults

\* A command that ends before its playbook.
Refuse(c, out, at) ==
  /\ last' = [cmd |-> c, out |-> out, at |-> at]
  /\ UNCHANGED <<clusterVars, serviceVars, processVars>>

AsOutcome(parsed) == IF parsed = "empty" THEN "error" ELSE parsed

(***************************************************************************)
(* config commit                                                           *)
(***************************************************************************)

\* The topology that is in the table is parsed first, even with --force; an
\* empty one is no error.
OldTopology == IF stored = NoTopology THEN "empty" ELSE ParseTopology(stored)

CommitOldInvalid(c) ==
  /\ Give(c, "commit")
  /\ OldTopology \in {"error", "panic"}
  /\ Refuse(c, OldTopology, "old")

\* The checks, or the operator's answer.
CommitRefused(c, t) ==
  /\ Give(c, "commit")
  /\ OldTopology \in {"ok", "empty"}
  /\ ~c.force
  /\ \/ ParseTopology(t) # "ok" /\ Refuse(c, AsOutcome(ParseTopology(t)), "parse")
     \/ /\ ParseTopology(t) = "ok"
        /\ \E out \in CheckTopology(t, DeployConfigs(t), CommitKeys) \ {"ok"} :
             Refuse(c, out, "check")

CommitChecked(c, t) ==
  c.force \/ (ParseTopology(t) = "ok" /\ "ok" \in CheckTopology(t, DeployConfigs(t), CommitKeys))

CommitStored(c, t) ==
  /\ Give(c, "commit")
  /\ OldTopology \in {"ok", "empty"}
  /\ CommitChecked(c, t)
  /\ stored' = t
  /\ forced' = c.force
  /\ last' = [cmd |-> c, out |-> "ok", at |-> "stored"]
  /\ UNCHANGED <<serviceVars, processVars>>

(***************************************************************************)
(* deploy and upgrade                                                      *)
(***************************************************************************)

Dcs == DeployConfigs(stored)

\* FilterDeployConfig; a filter by service id is like one by host and role.
Filter(dcs, c) ==
  Pick(dcs, {k \in DOMAIN dcs : c.role \in {"*", dcs[k].role} /\ c.host \in {"*", dcs[k].host}})

Parsed == IF stored = NoTopology THEN "empty" ELSE ParseTopology(stored)

Steps(list, len, c) ==
  IF c.local THEN RemovePull(lists[list], len) ELSE SubSeq(lists[list], 1, len)

DeploySteps(c) ==
  LET list == DeployList(stored, Dcs) IN
  IF list = "none" THEN <<>> ELSE Steps(list, DeployLen(list, Dcs), c)

\* The precheck of a deploy skips nothing, so it ends with its first step.
DeployRefused(c) ==
  /\ Give(c, "deploy")
  /\ \/ Parsed # "ok" /\ Refuse(c, AsOutcome(Parsed), "parse")
     \/ /\ Parsed = "ok" /\ ~c.insecure
        /\ \E out \in CheckTopology(stored, Dcs, PrecheckKeys) \ {"ok"} :
             Refuse(c, out, "precheck")
     \/ /\ Parsed = "ok" /\ c.insecure
        /\ Panics(Dcs, DeploySteps(c)) /\ Refuse(c, "panic", "plan")

Begin(c) ==
  /\ cmd' = c
  /\ base' = {i \in AllIds : svc[i] = "running"}
  /\ last' = [cmd |-> NoCommand, out |-> "none", at |-> "none"]
  /\ UNCHANGED <<clusterVars, serviceVars, result>>

PrecheckRefused(c) ==
  /\ Give(c, "precheck")
  /\ \/ ~(c.skip \subseteq CHECK_ITEMS) /\ Refuse(c, "error", "options")
     \/ /\ c.skip \subseteq CHECK_ITEMS
        /\ Parsed # "ok" /\ Refuse(c, AsOutcome(Parsed), "parse")

BeginPrecheck(c) ==
  /\ Give(c, "precheck")
  /\ c.skip \subseteq CHECK_ITEMS
  /\ Parsed = "ok"
  /\ Begin(c)
  /\ plan' = PrecheckPlan(Dcs, c.skip)
  /\ batch' = Dcs
  /\ UNCHANGED <<todo, lists>>

BeginDeploy(c) ==
  /\ Give(c, "deploy")
  /\ Parsed = "ok"
  /\ c.insecure \/ "ok" \in CheckTopology(stored, Dcs, PrecheckKeys)
  /\ ~Panics(Dcs, DeploySteps(c))
  /\ Begin(c)
  /\ plan' = Plan(Dcs, DeploySteps(c))
  /\ batch' = Dcs
  /\ UNCHANGED <<todo, lists>>

\* All the services at once with --force, else one by one.
BatchesAtOnce(dcs, c) == <<dcs>>
Batches(dcs, c) == IF c.force THEN <<dcs>> ELSE [k \in DOMAIN dcs |-> <<dcs[k]>>]

UpgradeRefused(c) ==
  /\ Give(c, "upgrade")
  /\ \/ Parsed # "ok" /\ Refuse(c, AsOutcome(Parsed), "parse")
     \/ Parsed = "ok" /\ Filter(Dcs, c) = <<>> /\ Refuse(c, "error", "scope")

BeginUpgrade(c) ==
  /\ Give(c, "upgrade")
  /\ Parsed = "ok"
  /\ Filter(Dcs, c) # <<>>
  /\ Begin(c)
  /\ todo' = Batches(Filter(Dcs, c), c)
  /\ UNCHANGED <<plan, batch, lists>>

\* genUpgradePlaybook leaves out a step for which there is no service.
WithServices(dcs, steps) ==
  Pick(steps, {k \in DOMAIN steps : FilterRole(steps[k]) = {} \/ Configs(dcs, steps[k]) # <<>>})

NextBatch ==
  /\ plan = <<>>
  /\ todo # <<>>
  /\ LET dcs == Head(todo)
         list == UpgradeList(dcs)
         steps == Steps(list, Len(lists[list]), cmd) IN
     /\ plan' = Plan(dcs, WithServices(dcs, steps))
     /\ batch' = dcs
     /\ lists' = IF cmd.local THEN [lists EXCEPT ![list] = Shifted(@, Len(@))] ELSE lists
  /\ todo' = Tail(todo)
  /\ UNCHANGED <<clusterVars, serviceVars, cmd, base, result, last, given, faults>>

Return(out, at) ==
  /\ cmd' = NoCommand
  /\ todo' = <<>> /\ plan' = <<>> /\ batch' = <<>>
  /\ lists' = StepLists
  /\ base' = {}
  /\ result' = "ok"
  /\ last' = [cmd |-> cmd, out |-> out, at |-> at]
  /\ UNCHANGED <<clusterVars, given>>

\* The operator declines to upgrade the next service.
Decline ==
  /\ plan = <<>>
  /\ todo # <<>>
  /\ ~cmd.force
  /\ Return("error", "declined")
  /\ UNCHANGED <<serviceVars, faults>>

Finish ==
  /\ cmd # NoCommand
  /\ plan = <<>> /\ todo = <<>>
  /\ Return(result, "end")
  /\ UNCHANGED <<serviceVars, faults>>

\* dingocli is killed between two steps: no post step is run.
Kill ==
  /\ cmd # NoCommand
  /\ faults < MaxFaults
  /\ faults' = faults + 1
  /\ Return("killed", "killed")
  /\ UNCHANGED serviceVars

(***************************************************************************)
(* The steps                                                               *)
(***************************************************************************)

\* The services a step has a task for: the factory and the tasks leave out the
\* mds-client in some steps, and in an upgrade altogether (KEY_SKIP_MDSV2_CLI).
SkipsClient(type) ==
  \/ type \in {"CLEAN_PRECHECK_ENVIRONMENT", "POST_CLEAN", "CREATE_CONTAINER",
              "CHECK_PERMISSION", "CHECK_PORT_IN_USE", "CHECK_DESTINATION_REACHABLE",
              "START_HTTP_SERVER"}
  \/ cmd.name = "upgrade" /\ type # "PULL_IMAGE"

\* One task per host; NewCheckPortInUseTask has none for an executor.
OncePerHost == {"CHECK_SSH_CONNECT", "GET_HOST_DATE"}
FirstOnHost(dcs, k) == \A j \in 1..(k - 1) : dcs[j].host # dcs[k].host

Targets(step) ==
  {step.dcs[k].id : k \in
     {k \in DOMAIN step.dcs :
        /\ ~(step.dcs[k].role = "mds-client" /\ SkipsClient(step.type))
        /\ ~(step.dcs[k].role = "executor" /\ step.type = "CHECK_PORT_IN_USE")
        /\ step.type \in OncePerHost => FirstOnHost(step.dcs, k)}}

Starts == {"START_SERVICE", "START_FS_MDS", "START_COORDINATOR", "START_STORE",
           "START_DINGODB_DOCUMENT", "START_DINGODB_DISKANN", "START_DINGODB_INDEX",
           "START_DINGODB_EXECUTOR", "START_DINGODB_WEB", "START_DINGODB_PROXY",
           "START_MDSV2_CLI_CONTAINER"}

\* What a task that succeeds makes of its service; a service without a container
\* is skipped, one that has a container is not created again.
After(type, st) ==
  CASE type \in {"CREATE_CONTAINER", "CREATE_MDSV2_CLI_CONTAINER"} /\ st = "none" -> "created"
    [] type \in Starts /\ st # "none" -> "running"
    [] type = "STOP_SERVICE" /\ st = "running" -> "stopped"
    [] type = "CLEAN_SERVICE" /\ st # "running" -> "none"
    [] OTHER -> st

Apply(type, ids) == [i \in AllIds |-> IF i \in ids THEN After(type, svc[i]) ELSE svc[i]]

\* NewCheckPortInUseTask leaves a container that sleeps; NewStartHTTPServerTask
\* one that listens on the ports of the service, or goes away where the service
\* has them; NewCleanEnvironmentTask stops both.
PortProbes(ids) == {"port"} \X ids
HttpProbes(ids) == {"http"} \X {i \in ids : svc[i] # "running"}
CleanProbes(ids) == {p \in probes : p[2] \notin ids}

ProbesAfter(type, ids) ==
  CASE type = "CHECK_PORT_IN_USE" -> probes \cup PortProbes(ids)
    [] type = "START_HTTP_SERVER" -> probes \cup HttpProbes(ids)
    [] type \in {"CLEAN_PRECHECK_ENVIRONMENT", "POST_CLEAN"} -> CleanProbes(ids)
    [] OTHER -> probes

\* CHECK_TOPOLOGY as a step of precheck.
TopologyVerdict == CheckTopology(stored, batch, PrecheckKeys)

\* The script of CHECK_STORE_HEALTH waits for a store that is available and ends
\* all the same; whether it succeeded is not looked at.
StepOk ==
  /\ plan # <<>>
  /\ Head(plan).type = "CHECK_TOPOLOGY" => "ok" \in TopologyVerdict
  /\ svc' = Apply(Head(plan).type, Targets(Head(plan)))
  /\ metaTables' = (metaTables \/ Head(plan).type = "CREATE_META_TABLES")
  /\ probes' = ProbesAfter(Head(plan).type, Targets(Head(plan)))
  /\ plan' = Tail(plan)
  /\ UNCHANGED <<clusterVars, cmd, todo, batch, lists, base, result, last, given, faults>>

\* Playbook.run ends with the error of a step, and Run goes on to the post step.
\* The errors of CHECK_PORT_IN_USE and of the post step are dropped.
ErrorIgnored(type) == type \in {"CHECK_PORT_IN_USE", "POST_CLEAN"}

Failed ==
  IF cmd.name # "precheck" THEN Return("error", "step")
  ELSE /\ IF ErrorIgnored(Head(plan).type) THEN plan' = Tail(plan) /\ UNCHANGED result
          ELSE plan' = SubSeq(plan, Len(plan), Len(plan)) /\ result' = "error"
       /\ UNCHANGED <<clusterVars, cmd, todo, batch, lists, base, last, given>>

TopologyRejected ==
  /\ plan # <<>>
  /\ Head(plan).type = "CHECK_TOPOLOGY"
  /\ \E out \in TopologyVerdict \ {"ok"} :
       IF out = "panic" THEN Return("panic", "precheck") ELSE Failed
  /\ UNCHANGED <<serviceVars, faults>>

\* getServiceConnectAddress: the roles a service is to reach.
CONNECT == [etcd |-> {"etcd"}, mds |-> {"mds", "etcd"}, metaserver |-> {"metaserver", "mds"}]
ConnectAddress(i) ==
  IF RoleOf(i) \in DOMAIN CONNECT
  THEN {j \in Ids(batch) : j # i /\ RoleOf(j) \in CONNECT[RoleOf(i)]} ELSE {}

\* The task of service i fails; the others of the step are run nevertheless, and
\* the task itself may have come as far as to start or stop its probe.
StepFails(i) ==
  /\ plan # <<>>
  /\ faults < MaxFaults
  /\ faults' = faults + 1
  /\ Head(plan).type # "CHECK_TOPOLOGY"
  /\ i \in Targets(Head(plan))
  /\ Head(plan).type = "CHECK_DESTINATION_REACHABLE" => ConnectAddress(i) # {}
  /\ svc' = Apply(Head(plan).type, Targets(Head(plan)) \ {i})
  /\ \E ids \in {Targets(Head(plan)), Targets(Head(plan)) \ {i}} :
       probes' = ProbesAfter(Head(plan).type, ids)
  /\ UNCHANGED metaTables
  /\ Failed

\* The operator gives no more commands.
NoMoreCommands ==
  /\ cmd = NoCommand
  /\ given = MaxGiven
  /\ UNCHANGED allVars

ClusterNext ==
  \/ \E c \in Commands :
       \/ CommitOldInvalid(c)
       \/ \E t \in Topologies : CommitRefused(c, t) \/ CommitStored(c, t)
       \/ PrecheckRefused(c) \/ BeginPrecheck(c)
       \/ DeployRefused(c) \/ BeginDeploy(c)
       \/ UpgradeRefused(c) \/ BeginUpgrade(c)
  \/ NextBatch \/ Decline \/ Finish \/ Kill \/ StepOk \/ TopologyRejected
  \/ \E i \in AllIds : StepFails(i)
  \/ NoMoreCommands

ClusterSpec == ClusterInit /\ [][ClusterNext]_allVars

(***************************************************************************)
(* Properties                                                              *)
(***************************************************************************)

Lasting(ids) == {i \in ids : RoleOf(i) # "mds-client"}
Done(name) == last.cmd.name = name /\ last.out = "ok"

\* A deploy that reports success has started every service of the topology but
\* the tmp role mds-client: the roles ParseTopology makes, the step lists and
\* their filters agree (deploy.go:411, "successfully deployed").  A DingoFS topology
\* with an etcd and no coordinator (mds v1) is the exception: no list of steps is
\* for it, and the deploy succeeds without a step (deploy.go:271).  And an upgrade
\* that reports success, of whatever services, at once or one by one, leaves none
\* of them stopped.
StartsAll ==
  /\ Done("deploy") /\ MdsVersion(stored) # "v1" => \A i \in Lasting(Ids(Dcs)) : svc[i] = "running"
  /\ Done("upgrade") => \A i \in Lasting(Ids(Filter(Dcs, last.cmd))) : svc[i] = "running"

\* An upgrade one by one never has more than one service down, not even when it
\* fails or is declined half way.
OneByOne ==
  (cmd.name = "upgrade" /\ ~cmd.force) => Cardinality({i \in base : svc[i] # "running"}) <= 1

\* Coordinators are started before the stores, both before the mds and the
\* executors, in a deploy and in an upgrade that has an mds-client among its
\* services; a deploy starts an mds only when the meta tables exist, and a service
\* only when no probe of a failed or killed precheck is left that has its ports.
StartsBefore == {<<"coordinator", "store">>, <<"coordinator", "mds">>, <<"store", "mds">>,
                 <<"store", "executor">>}

StartOrder ==
  [][\A i \in AllIds :
       (svc[i] # "running" /\ svc'[i] = "running" /\ (cmd.name = "deploy" \/ "mds-client" \in RolesIn(batch))) =>
         /\ \A j \in Ids(batch) : <<RoleOf(j), RoleOf(i)>> \in StartsBefore => svc[j] = "running"
         /\ (cmd.name = "deploy" /\ RoleOf(i) = "mds") => metaTables
         /\ (cmd.name = "deploy" /\ RoleOf(i) # "mds-client") => <<"http", i>> \notin probes]_allVars

\* The checks of `config commit` keep out every topology for which deploy -k or
\* upgrade would panic (a limit of one service where there is none, no mds).
CommittedNeverPanics ==
  (last.out = "panic" /\ last.cmd.name \in {"deploy", "upgrade"}) => (forced \/ last.at = "precheck")

=============================================================================
