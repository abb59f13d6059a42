------------------------------- MODULE Monitor -------------------------------
(***************************************************************************)
(* The monitor of a cluster: `monitor deploy, start, stop, restart,        *)
(* reload, upgrade, clean, status` and `monitor config commit`, the parsing*)
(* of monitor.yaml, and what the commands do to the containers, to the     *)
(* configuration files on the monitor's host and to the data directories.  *)
(*                                                                         *)
(* A command is a playbook.  A step of it is one action here: its tasks    *)
(* are for different services, and how the calls inside of tasks           *)
(* interleave is the subject of modules Tasks and Services.  Any tasks of  *)
(* a step may fail, before they did anything or half-way, and dingocli may *)
(* be killed in any step.                                                  *)
(*                                                                         *)
(* prometheus, grafana and monitor_sync run on one host.  The directories  *)
(* of the first two lie inside the data directory of the third, which      *)
(* monitor_sync fills with the files the cluster's image brings along.     *)
(***************************************************************************)
EXTENDS Integers, Sequences, SequencesExt

CONSTANTS
  Host,         \* hosts a topology may use
  Home,         \* the first host of node_exporter's deploy list
  Port,         \* values of prometheus' listen_port
  Yaml,         \* the monitor.yaml files the operator has
  MaxPlayed,    \* bound: commands
  MaxMishaps    \* bound: tasks and calls that fail, kills, containers lost, other topologies,
                \* deploys and cleans of the cluster

Roles == {"node_exporter", "prometheus", "grafana", "monitor_sync"}

\* What a monitor.yaml holds: the roles that have a deploy list, the roles that have
\* a config section, prometheus' port, and whether the credentials of grafana are
\* admin:admin.
Config == [deploy : SUBSET Roles, config : SUBSET Roles, port : Port, admin : BOOLEAN]

ASSUME MonitorAssumption ==
  /\ Home \in Host
  /\ Port \subseteq Nat \ {0}
  /\ Yaml \subseteq Config
  /\ MaxPlayed \in Nat /\ MaxMishaps \in Nat

VARIABLES
  topo,     \* the hosts of the cluster's topology
  origin,   \* whether the container of dcs[0] is on Home
  conf,     \* the row of table monitors, or Empty
  row,      \* containers.container_id of a service: NoRow, Cleaned or Known
  ctr,      \* its container
  listen,   \* the port prometheus' container was created with
  file,     \* the configuration files on the host Home
  data,     \* the data directories that exist
  playbook, \* the command being run, or Idle
  last,     \* the last command and what became of it
  played, mishaps

monitorVars == <<topo, origin, conf, row, ctr, listen, file, data, playbook, last, played, mishaps>>
worldVars == <<topo, origin, row, ctr, listen, file, data>>

Prom == <<"prometheus", Home>>
Graf == <<"grafana", Home>>
Sync == <<"monitor_sync", Home>>
Service == ({"node_exporter"} \X Host) \cup {Prom, Graf, Sync}

Empty == [port |-> 0]
NoRow == "none"
Cleaned == "-"
Known == "id"
Absent == 0
Origin == -1
NoFiles == [prom |-> Absent, ds |-> Absent, dash |-> "absent", script |-> FALSE]
Idle == [op |-> "idle", plan |-> <<>>, items |-> {}, fresh |-> FALSE, bad |-> FALSE]
NoCommand == [op |-> "none", out |-> "none", scope |-> {}, fresh |-> FALSE, bad |-> FALSE,
              shown |-> <<>>]

(***************************************************************************)
(* ParseMonitorInfo                                                        *)
(***************************************************************************)

\* The switch falls through: the first role that has a deploy list brings all roles
\* after it along.
RolesOf(c) ==
  CASE "node_exporter" \in c.deploy -> Roles
    [] "node_exporter" \notin c.deploy /\ "prometheus" \in c.deploy -> Roles \ {"node_exporter"}
    [] c.deploy \cap {"node_exporter", "prometheus"} = {} /\ "grafana" \in c.deploy ->
         {"grafana", "monitor_sync"}
    [] OTHER -> {"monitor_sync"}

\* getHost: every role is deployed on the first host of node_exporter's list, and
\* the list is stored into the role's config.  Without the list, or without the
\* config, that panics.
GetHostPanics(c, r) == "node_exporter" \notin c.deploy \/ r \notin c.config

\* The data directory of monitor_sync is used without a check as well.
ParsePanics(c) == "monitor_sync" \notin c.config \/ \E r \in RolesOf(c) : GetHostPanics(c, r)

\* The directories of grafana are set only if prometheus has a deploy list.
GrafanaDirs == "prometheus" \in conf.deploy

\* parseHosts: a topology without services is an error.
ParseHostsFails == topo = {}

\* node_exporter runs on every host of the topology.
ParseMonitorInfo(c) ==
  {s \in Service : s[1] \in RolesOf(c) /\ (s[1] = "node_exporter" => s[2] \in topo)}

FilterMonitorConfig(mcs, role, host) ==
  {s \in mcs : (role = "*" \/ s[1] = role) /\ (host = "*" \/ s[2] = host)}

\* The services only one of two configurations has.
DiffMonitor(c1, c2) ==
  (ParseMonitorInfo(c1) \ ParseMonitorInfo(c2)) \cup (ParseMonitorInfo(c2) \ ParseMonitorInfo(c1))

(***************************************************************************)
(* Tasks.  The task of a service s: whether it must end with an error,     *)
(* whatever the engine and the network do, and what is then, and otherwise,*)
(* the state of its container and its row.                                 *)
(***************************************************************************)

\* ListContainers and CheckContainerExist: a task whose container is not there is
\* skipped and counts as done.
Found(s) == row[s] = Known /\ ctr[s] # "none"

Nothing(s) == [fails |-> FALSE, failed |-> ctr[s], ctr |-> ctr[s], row |-> row[s]]

PullImage(s) == Nothing(s)

\* Step2GetService lets a service without a container id through.  A container
\* of its name that the table does not know makes the creation fail, and so does a
\* volume without a directory.
Creates(s) == row[s] # Known

CreateContainer(s) ==
  [Nothing(s) EXCEPT !.fails = Creates(s) /\ (ctr[s] # "none" \/ (s = Graf /\ ~GrafanaDirs)),
                     !.ctr = IF Creates(s) THEN "created" ELSE @,
                     !.row = Known]

\* prometheus does not stay up without its file, nor monitor_sync without its script.
CanRun(s) ==
  CASE s = Prom -> file.prom # Absent
    [] s = Sync -> file.script
    [] OTHER -> TRUE

StartService(s) ==
  [Nothing(s) EXCEPT !.fails = Found(s) /\ ctr[s] # "running" /\ ~CanRun(s),
                     !.failed = "exited",
                     !.ctr = IF Found(s) THEN "running" ELSE @]

RestartService(s) ==
  [Nothing(s) EXCEPT !.fails = Found(s) /\ ~CanRun(s),
                     !.failed = "exited",
                     !.ctr = IF Found(s) THEN "running" ELSE @]

StopService(s) ==
  [Nothing(s) EXCEPT !.ctr = IF Found(s) /\ @ = "running" THEN "exited" ELSE @]

\* Step2CleanContainer: without --force, a running container is not removed, and
\* the error of the removal is dropped.
CleanMonitor(s) ==
  IF "container" \notin playbook.items \/ row[s] # Known THEN Nothing(s)
  ELSE [Nothing(s) EXCEPT !.ctr = IF @ # "running" THEN "none" ELSE @, !.row = Cleaned]

\* The ports are edited into files that must be there, and monitor_sync's files are
\* copied, on its host, out of the container of dcs[0].
SyncConfig(s) ==
  [Nothing(s) EXCEPT !.fails = /\ Found(s)
                               /\ \/ s = Prom /\ file.prom = Absent
                                  \/ s = Graf /\ (file.ds = Absent \/ ~GrafanaDirs)
                                  \/ s = Sync /\ ~origin]

\* syncPrometheusUid: grafana is asked ten times, as admin:admin, for its data
\* sources.
SyncPrometheusUid == ctr[Graf] = "running" /\ conf.admin

SyncGrafanaDashboard(s) ==
  [Nothing(s) EXCEPT !.fails = Found(s) /\ (file.ds = Absent \/ ~GrafanaDirs \/ ~SyncPrometheusUid)]

\* A file is appended to /etc/hosts inside the container.
SyncHostsMapping(s) == [Nothing(s) EXCEPT !.fails = Found(s) /\ ctr[s] # "running"]

Task(type, s) ==
  CASE type = "PULL_MONITOR_IMAGE" -> PullImage(s)
    [] type = "CREATE_MONITOR_CONTAINER" -> CreateContainer(s)
    [] type \in {"SYNC_MONITOR_ORIGIN_CONFIG", "SYNC_MONITOR_ALT_CONFIG"} -> SyncConfig(s)
    [] type = "START_MONITOR_SERVICE" -> StartService(s)
    [] type = "RESTART_MONITOR_SERVICE" -> RestartService(s)
    [] type = "STOP_MONITOR_SERVICE" -> StopService(s)
    [] type = "CLEAN_MONITOR_SERVICE" -> CleanMonitor(s)
    [] type = "SYNC_GRAFANA_DASHBOARD" -> SyncGrafanaDashboard(s)
    [] type = "SYNC_HOSTS_MAPPING" -> SyncHostsMapping(s)
    [] OTHER -> Nothing(s)

\* No service has the role monitor_conf, which is the only one with a container to
\* clean after the configuration was copied.
CleanConfigContainer(scope) == {}

TasksOfSkippingGrafana(type, scope) ==
  CASE type = "SYNC_MONITOR_ORIGIN_CONFIG" -> scope \cap {Sync}
    [] type = "SYNC_MONITOR_ALT_CONFIG" -> scope \cap {Prom}
    [] type = "CLEAN_CONFIG_CONTAINER" -> CleanConfigContainer(scope)
    [] type = "SYNC_GRAFANA_DASHBOARD" -> scope \cap {Graf}
    [] type = "SYNC_HOSTS_MAPPING" -> scope \cap {Prom}
    [] OTHER -> scope

\* The services a step has a task for: createTasks, and the New...Task functions
\* that return no task.
TasksOf(type, scope) ==
  CASE type = "SYNC_MONITOR_ORIGIN_CONFIG" -> scope \cap {Sync}
    [] type = "SYNC_MONITOR_ALT_CONFIG" -> scope \cap {Prom, Graf}
    [] type = "CLEAN_CONFIG_CONTAINER" -> CleanConfigContainer(scope)
    [] type = "SYNC_GRAFANA_DASHBOARD" -> scope \cap {Graf}
    [] type = "SYNC_HOSTS_MAPPING" -> scope \cap {Prom}
    [] type = "CLEAN_MONITOR_SERVICE" ->
         {s \in scope : s[1] = "monitor_sync" => row[s] = Known}
    [] OTHER -> scope

\* The data directories of the services in D: node_exporter has none, and the one
\* of monitor_sync holds the ones of prometheus and grafana.
GetDataDirs(D) ==
  (D \cap {Prom, Graf, Sync}) \cup (IF D \cap {Prom, Graf} # {} THEN {Sync} ELSE {})

GetCleanFiles(D) ==
  IF "data" \notin playbook.items THEN {}
  ELSE D \cup (IF Sync \in D THEN {Prom, Graf} ELSE {})

\* ... when the tasks in D got so far.
DataAfter(type, D) ==
  CASE type = "CREATE_MONITOR_CONTAINER" -> data \cup GetDataDirs({s \in D : Creates(s)})
    [] type = "CLEAN_MONITOR_SERVICE" -> data \ GetCleanFiles(D)
    [] OTHER -> data

\* The origin configuration is copied out of the container of dcs[0], the ports
\* are then edited in, and the dashboard is installed and linked to prometheus.
FileAfter(type, D, dropped) ==
  CASE type = "SYNC_MONITOR_ORIGIN_CONFIG" /\ Sync \in D /\ Found(Sync) /\ origin ->
         [file EXCEPT !.prom = Origin, !.ds = Origin, !.script = TRUE]
    [] type = "SYNC_MONITOR_ALT_CONFIG" ->
         [file EXCEPT !.prom = IF Prom \in D /\ Found(Prom) THEN conf.port ELSE @,
                      !.ds = IF Graf \in D /\ Found(Graf) THEN conf.port ELSE @]
    [] type = "SYNC_GRAFANA_DASHBOARD" /\ Found(Graf) /\ file.ds # Absent /\ GrafanaDirs ->
         [file EXCEPT !.dash = IF Graf \in D \ dropped THEN "linked" ELSE "raw"]
    [] type = "CLEAN_MONITOR_SERVICE" /\ Sync \in D /\ "data" \in playbook.items -> NoFiles
    [] OTHER -> file

(***************************************************************************)
(* Commands                                                                *)
(***************************************************************************)

MonitorInit ==
  /\ topo = {Home}
  /\ origin = TRUE
  /\ conf = Empty
  /\ row = [s \in Service |-> NoRow]
  /\ ctr = [s \in Service |-> "none"]
  /\ listen = Absent
  /\ file = NoFiles
  /\ data = {}
  /\ playbook = Idle
  /\ last = NoCommand
  /\ played = 0 /\ mishaps = 0

BeginCommand ==
  /\ playbook = Idle
  /\ played < MaxPlayed
  /\ played' = played + 1

EndCommand(op, out) ==
  /\ playbook' = Idle
  /\ last' = [NoCommand EXCEPT !.op = op, !.out = out]

Plays(op, plan, items, fresh) ==
  /\ playbook' = [op |-> op, plan |-> plan, items |-> items, fresh |-> fresh, bad |-> FALSE]
  /\ last' = NoCommand

For(steps, scope) == [i \in DOMAIN steps |-> [type |-> steps[i], scope |-> scope]]

ReplaceMonitor(y) == conf' = y

DeployStepsAltFirst(local) ==
  (IF local THEN <<>> ELSE <<"PULL_MONITOR_IMAGE">>) \o
  <<"CREATE_MONITOR_CONTAINER", "SYNC_MONITOR_ALT_CONFIG", "SYNC_MONITOR_ORIGIN_CONFIG",
    "CLEAN_CONFIG_CONTAINER", "START_MONITOR_SERVICE", "SYNC_GRAFANA_DASHBOARD",
    "SYNC_HOSTS_MAPPING">>

DeploySteps(local) ==
  (IF local THEN <<>> ELSE <<"PULL_MONITOR_IMAGE">>) \o
  <<"CREATE_MONITOR_CONTAINER", "SYNC_MONITOR_ORIGIN_CONFIG", "SYNC_MONITOR_ALT_CONFIG",
    "CLEAN_CONFIG_CONTAINER", "START_MONITOR_SERVICE", "SYNC_GRAFANA_DASHBOARD",
    "SYNC_HOSTS_MAPPING">>

\* runDeploy: the file is parsed, saved and deployed.
Deploy(y, local) ==
  LET mcs == ParseMonitorInfo(y)
  IN  /\ BeginCommand
      /\ IF ParseHostsFails \/ ParsePanics(y)
           THEN EndCommand("deploy", IF ParseHostsFails THEN "error" ELSE "panic") /\ conf' = conf
           ELSE /\ ReplaceMonitor(y)
                /\ Plays("deploy", For(DeploySteps(local), mcs), {},
                         \A s \in mcs : ctr[s] = "none" /\ row[s] # Known)
      /\ UNCHANGED <<worldVars, mishaps>>

\* runCommit: the file is parsed even with --force; the services that come and go
\* are printed as warnings, and the operator is asked.
CommitPanicsUnforced(y, force) == ~force /\ ParsePanics(y)
CommitPanics(y, force) == ParsePanics(y)

Commit(y, force) ==
  /\ BeginCommand
  /\ IF ParseHostsFails \/ CommitPanics(y, force)
       THEN EndCommand("commit", IF ParseHostsFails THEN "error" ELSE "panic") /\ conf' = conf
       ELSE \/ /\ playbook' = Idle
               /\ last' = [NoCommand EXCEPT !.op = "commit", !.out = "ok",
                             !.shown = IF force \/ conf = Empty THEN {} ELSE DiffMonitor(conf, y)]
               /\ ReplaceMonitor(y)
            \/ ~force /\ EndCommand("commit", "error") /\ conf' = conf
  /\ UNCHANGED <<worldVars, mishaps>>

\* The other commands parse the stored configuration, take the services the filter
\* options leave, and ask the operator.
ParseMonitorFails == ParseHostsFails \/ conf = Empty

Command(op, role, host, items, steps) ==
  LET mcs == FilterMonitorConfig(ParseMonitorInfo(conf), role, host)
  IN  /\ BeginCommand
      /\ IF ParseMonitorFails \/ mcs = {} THEN EndCommand(op, "error")
         ELSE \/ EndCommand(op, "error")
              \/ Plays(op, For(steps, mcs), items, FALSE)
      /\ UNCHANGED <<worldVars, conf, mishaps>>

MonitorStart(role, host) == Command("start", role, host, {}, <<"START_MONITOR_SERVICE">>)
MonitorStop(role, host) == Command("stop", role, host, {}, <<"STOP_MONITOR_SERVICE">>)
MonitorRestart(role, host) == Command("restart", role, host, {}, <<"RESTART_MONITOR_SERVICE">>)

MonitorReload(role, host) ==
  Command("reload", role, host, {},
          <<"CREATE_MONITOR_CONTAINER", "SYNC_MONITOR_ALT_CONFIG", "CLEAN_CONFIG_CONTAINER",
            "RESTART_MONITOR_SERVICE">>)

MonitorClean(role, host, items) ==
  Command("clean", role, host, items,
          (IF "container" \in items THEN <<"STOP_MONITOR_SERVICE">> ELSE <<>>)
            \o <<"CLEAN_MONITOR_SERVICE">>)

MonitorStatus(role, host) ==
  Command("status", role, host, {}, <<"INIT_MONITOR_STATUS", "GET_MONITOR_STATUS">>)

UpgradeItems == {"container"}

UpgradeSteps(local) ==
  (IF local THEN <<>> ELSE <<"PULL_MONITOR_IMAGE">>) \o
  <<"STOP_MONITOR_SERVICE", "CLEAN_MONITOR_SERVICE", "CREATE_MONITOR_CONTAINER",
    "START_MONITOR_SERVICE", "SYNC_HOSTS_MAPPING">>

UpgradeAtOnce(role, host, local) == Command("upgrade", role, host, UpgradeItems, UpgradeSteps(local))

\* The order of the services in what ParseMonitorInfo returns.
Rank(s) ==
  CASE s[1] = "node_exporter" -> 1 [] s[1] = "prometheus" -> 2
    [] s[1] = "grafana" -> 3 [] OTHER -> 4

\* One by one, an upgrade is a playbook for each of the first n services, and the
\* operator declines the next.  With --local the first step is cut out of the list
\* all playbooks share: the later ones get its last step twice.
OneByOnePlan(local, order) ==
  LET Steps(i) == UpgradeSteps(local) \o
                    (IF local /\ i > 1 THEN <<"SYNC_HOSTS_MAPPING">> ELSE <<>>)
  IN  FlattenSeq([i \in DOMAIN order |-> For(Steps(i), {order[i]})])

UpgradeOneByOne(role, host, local, n) ==
  LET mcs == FilterMonitorConfig(ParseMonitorInfo(conf), role, host)
      order == SetToSortSeq(mcs, LAMBDA s, t : Rank(s) < Rank(t))
  IN  /\ BeginCommand
      /\ ~ParseMonitorFails
      /\ n \in 1..Len(order)
      /\ Plays("upgrade", OneByOnePlan(local, SubSeq(order, 1, n)), UpgradeItems, FALSE)
      /\ UNCHANGED <<worldVars, conf, mishaps>>

(***************************************************************************)
(* Running a step                                                          *)
(***************************************************************************)

CurrentStep == Head(playbook.plan)
Tasks == TasksOf(CurrentStep.type, CurrentStep.scope)
Failing == {s \in Tasks : Task(CurrentStep.type, s).fails}

\* Calls whose error the code drops: the removal of a container, the sed on the
\* dashboard.
Droppable ==
  CASE CurrentStep.type = "CLEAN_MONITOR_SERVICE" -> {s \in Tasks : Task(CurrentStep.type, s).row = Cleaned}
    [] CurrentStep.type = "SYNC_GRAFANA_DASHBOARD" -> Tasks
    [] OTHER -> {}

\* The tasks of D are done, with a dropped error in K; those of H ended half-way:
\* the container was created or removed and the table not written, the directory
\* made or removed and nothing else, the container started and gone again.
Applies(D, H, K) ==
  /\ ctr' = [s \in Service |->
       LET t == Task(CurrentStep.type, s)
       IN  IF s \in D \ K THEN t.ctr
           ELSE IF s \in H THEN IF t.ctr = "running" THEN "exited" ELSE t.ctr
           ELSE IF s \in Failing THEN t.failed
           ELSE ctr[s]]
  /\ row' = [s \in Service |-> IF s \in D THEN Task(CurrentStep.type, s).row ELSE row[s]]
  /\ listen' = IF CurrentStep.type = "CREATE_MONITOR_CONTAINER" /\ Prom \in D \cup H /\ Creates(Prom)
               THEN conf.port ELSE listen
  /\ data' = DataAfter(CurrentStep.type, D \cup H)
  /\ file' = FileAfter(CurrentStep.type, D, K)
  /\ UNCHANGED <<topo, origin, conf, played>>

\* What `monitor status` shows of a service: that of INIT_MONITOR_STATUS when the
\* second task failed.
FormatMonitorStatus(s, F) ==
  CASE s \in F -> "Unknown"
    [] s \notin F /\ row[s] # Known -> "Cleaned"
    [] s \notin F /\ row[s] = Known /\ ctr[s] = "none" -> "Losed"
    [] OTHER -> ctr[s]

\* All tasks of the step ran, those of E failed for a reason of their own.
RunStep(E, H, K) ==
  LET F == Failing \cup E
      cost == Cardinality(E) + Cardinality(K)
  IN  /\ playbook # Idle
      /\ E \subseteq Tasks \ Failing /\ H \subseteq E /\ K \subseteq Droppable \ F
      /\ mishaps + cost <= MaxMishaps
      /\ mishaps' = mishaps + cost
      /\ Applies(Tasks \ F, H, K)
      /\ IF F # {} \/ Len(playbook.plan) = 1
           THEN /\ playbook' = Idle
                /\ last' = [op |-> playbook.op, out |-> IF F = {} THEN "ok" ELSE "error",
                            scope |-> CurrentStep.scope, fresh |-> playbook.fresh,
                            bad |-> playbook.bad \/ E # {},
                            shown |-> IF CurrentStep.type = "GET_MONITOR_STATUS"
                                      THEN [s \in CurrentStep.scope |-> FormatMonitorStatus(s, F)]
                                      ELSE <<>>]
           ELSE /\ playbook' = [playbook EXCEPT !.plan = Tail(@), !.bad = @ \/ E # {}]
                /\ UNCHANGED last

\* dingocli is killed in a step, with the tasks of D done.
KillCommand(D, H) ==
  /\ playbook # Idle
  /\ D \cup H \subseteq Tasks \ Failing
  /\ D \cap H = {}
  /\ mishaps < MaxMishaps
  /\ mishaps' = mishaps + 1
  /\ Applies(D, H, {})
  /\ playbook' = Idle
  /\ last' = NoCommand

(***************************************************************************)
(* The environment                                                         *)
(***************************************************************************)

\* `config commit` of the cluster: other hosts, and another dcs[0].
CommitTopology(t, o) ==
  /\ o => Home \in t
  /\ playbook = Idle
  /\ mishaps < MaxMishaps
  /\ mishaps' = mishaps + 1
  /\ topo' = t
  /\ origin' = o
  /\ last' = NoCommand
  /\ UNCHANGED <<conf, row, ctr, listen, file, data, playbook, played>>

\* A deploy or a clean of the cluster: dcs[0] gets its container or loses it.
ClusterCommand ==
  /\ playbook = Idle
  /\ mishaps < MaxMishaps
  /\ Home \in topo
  /\ mishaps' = mishaps + 1
  /\ origin' = ~origin
  /\ last' = NoCommand
  /\ UNCHANGED <<topo, conf, row, ctr, listen, file, data, playbook, played>>

\* A container is lost between two commands.
Lose(s) ==
  /\ playbook = Idle
  /\ mishaps < MaxMishaps
  /\ ctr[s] # "none"
  /\ mishaps' = mishaps + 1
  /\ ctr' = [ctr EXCEPT ![s] = "none"]
  /\ last' = NoCommand
  /\ UNCHANGED <<topo, origin, conf, row, listen, file, data, playbook, played>>

\* The filter options: nothing, a role, or a host.
Filter ==
  {<<"*", "*">>, <<"prometheus", "*">>, <<"monitor_sync", "*">>} \cup ({"*"} \X (Host \ {Home}))

AtMostOne == {{}} \cup {{s} : s \in Service}

MonitorNext ==
  \/ \E y \in Yaml, b \in BOOLEAN : Deploy(y, b) \/ Commit(y, b)
  \/ \E f \in Filter :
       \/ MonitorStart(f[1], f[2]) \/ MonitorStop(f[1], f[2]) \/ MonitorRestart(f[1], f[2])
       \/ MonitorReload(f[1], f[2]) \/ MonitorStatus(f[1], f[2])
       \/ \E items \in {{"container"}, {"data"}, {"container", "data"}} : MonitorClean(f[1], f[2], items)
       \/ \E local \in BOOLEAN :
            \/ UpgradeAtOnce(f[1], f[2], local)
            \/ \E n \in 1..Cardinality(Service) : UpgradeOneByOne(f[1], f[2], local, n)
  \/ \E E, K \in AtMostOne : \E H \in {{}, E} : RunStep(E, H, K)
  \/ /\ playbook # Idle
     /\ \E D \in SUBSET Tasks, H \in AtMostOne : KillCommand(D, H)
  \/ \E t \in SUBSET Host, o \in BOOLEAN : CommitTopology(t, o)
  \/ ClusterCommand
  \/ \E s \in Service : Lose(s)

\* The operator may stop at any time.
MonitorSpec == MonitorInit /\ [][MonitorNext \/ UNCHANGED monitorVars]_monitorVars

(***************************************************************************)
(* Properties                                                              *)
(***************************************************************************)

\* What `monitor deploy` and `monitor config commit` store can be parsed again: no
\* later command panics on it (dcs, sections and hosts are used unchecked in
\* ParseMonitorInfo), and `config commit --force` parses too.
StoredParses == conf # Empty => ~ParsePanics(conf)

\* A service whose container is gone and whose row still names it: the tasks of a
\* deploy are skipped for it.
Lost(s) == row[s] = Known /\ ctr[s] = "none"

\* "Deploy monitor success": every service runs, but for the lost ones, which the
\* tasks skip without a word; prometheus scrapes and grafana reads the configured
\* port; and when the deploy created the containers, prometheus listens on it.
DeployWired ==
  (last.op = "deploy" /\ last.out = "ok") =>
    /\ \A s \in last.scope : ctr[s] = "running" \/ Lost(s)
    /\ ~Lost(Prom) => file.prom = conf.port
    /\ ~Lost(Graf) => file.ds = conf.port /\ file.dash # "absent"
    /\ last.fresh => listen = conf.port

\* A deploy that finds no containers and in which nothing fails for a reason of its
\* own succeeds if, and only if, the container of dcs[0] is on the monitor's host,
\* prometheus has a deploy list and grafana's credentials are the ones
\* syncPrometheusUid uses; whatever was stopped, killed, cleaned or left half done
\* before it makes no difference.
FreshDeploySucceeds ==
  (last.op = "deploy" /\ last.fresh /\ ~last.bad /\ last.out # "none")
    => (last.out = "ok" <=> origin /\ GrafanaDirs /\ conf.admin)

=============================================================================
