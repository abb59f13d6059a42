# A verification of dingocli (dingofs-tools)

TLA+ modules that model the core of `dingocli`, the command line tool that
deploys and operates DingoFS and DingoDB clusters; TLC configurations that
check them on small instances; and TLAPS proofs for every size of instance.
`PROJECT.json` maps every definition to the lines it models.

    tlc -workers 2 -config Tasks.cfg MCTasks       # one run
    tlapm TasksProofs.tla                          # one module of proofs

## 1. The system and its parts

`dingocli` is a Go program. Each invocation is a process that reads a local
SQLite/rqlite database and some files, does its work (over SSH and a container
engine, over gRPC to a metadata server, or over HTTP to a mirror) and exits.
Nothing stays running between two commands, so everything that survives is in
the database, on the hosts, on the metadata server or in
`~/.dingo/installed.json`; and two commands may run at once.

| Part | State | Operations | Meets | Correct when |
|---|---|---|---|---|
| task execution: `internal/tasks`, `internal/task/task/task.go` | task list, wait group, channel of worker slots, progress bars, monitor of results | `Tasks.Execute`, `Task.Execute` | playbook (caller), steps (callee), progress library | never more workers than asked for; all tasks ended when it returns; error returned iff a task failed; bars say what happened; it returns |
| playbook: `internal/playbook` | list of steps | `Run` | commands, task execution | steps in order, stops at the first error, post steps run |
| service life cycle: `internal/task/task/common` | rows of `containers`; containers, their images and states; data directories | create, sync, start, stop, restart, clean, pull | storage, engine, task execution | the row names the container there is; what a command reports is so; data is removed only on request |
| topology: `internal/configure/topology` | deploy configs made from YAML | `ParseTopology`, variables, `DiffTopology`, filters | cluster commands | every service has an id of its own; roles agree with the step lists |
| topology check: `internal/task/task/checker` | keys in the memory storage | check of services, hosts, S3, ports... | `config commit`, `precheck` | what passes can be deployed; every check ends in a verdict |
| cluster commands: `cli/command/cluster`, `cli/command/config` | stored topology, step lists (package variables) | commit, deploy, upgrade, start, stop, restart, clean, ... | topology, playbook, storage | success means all services run; order of starts; one service down at a time in an upgrade |
| storage: `internal/storage` | tables `clusters`, `containers`, `hosts`, ... | one SQL statement per method | every command | at most one current cluster; ids are not reused; names can be looked up |
| recursive walks: `cli/command/fs/subpath/delete.go`, `internal/rpc/operator.go` | goroutines, channel of slots, error channels, context, map of counted inodes, totals | `deleteDirectoryAndData`, `GetDirSummarySize` | metadata server, other clients | a directory is removed after what is in it; no error is lost; totals exact; it ends |
| component manager: `internal/component`, `cli/command/component` | `installed.json`, binaries | install, update, use, uninstall, start | mirror, mount/mds/cache commands | one entry per product, one default per name, entries name binaries that exist |
| rpc client: `internal/rpc` | pool of connections, retries, one shared error value | `GetRpcResponse`, `GetConnection`, `PutConnection` | metadata server | a success is the answer to a request that was executed; a bounded number of executions; a connection serves one call at a time |
| mds router: `internal/common/mds_router.go`, `internal/rpc/mds.go` | partition of the inodes, list of mds | `Init`, `GetMDS` | rpc client | every inode has an mds when the list is complete |
| fs, quota, config, subpath, cache and `mds status` commands | none of their own | a plan of calls and decisions each | rpc client, walks, metadata server, other clients | success only if the server did it; usage and limits are the ones meant |
| mount, umount, `mds start`, `mds meta`, `cache start` | child processes, the mount table | start, watch, unmount | component manager, kernel | a mount that reports success brought up its own client; it returns |
| nfs: `cli/command/nfs`, `internal/utils/nfs.go` | export files, the reload of nfs-ganesha | add, remove | mount, nfs-ganesha | ids differ, exports of others are kept, what the store holds is served |
| monitor: `internal/configure/monitor.go`, `cli/command/monitor`, `internal/task/task/monitor` | stored file, rows, containers, configuration files of prometheus and grafana | commit, deploy, start, stop, restart, reload, upgrade, clean, status | storage, engine, task execution | what is stored parses; a deploy leaves services that find each other |
| checks: `internal/task/task/checker` | probe containers, memory storage | port, network, date, ssh, permission, kernel | `precheck` | every probe is gone when a service needs its port |
| hosts and playground tables and commands | tables | commit, list | storage | as for clusters |
| variables: `pkg/variable` | map of variables | build, resolve | topology, hosts | every reference replaced, cycles refused |
| steps, modules, SSH: `internal/task/step`, `pkg/module` | none | one remote command | hosts | a failing command is an error |
| output, tables, prompts, configuration, logging | none | display and parsing | - | - |

Hard behaviours: the workers of a batch and the goroutines of a walk interleave;
tasks read ids when they are created and use them after other steps have
changed them; `dingocli` can be killed between a change of the engine and the
update of its table; two processes share one database and one
`installed.json`; answers of the metadata server get lost after the call was
carried out; one task of many fails; step lists, filters, limits and the roles
of a parsed topology are tables in different files that must agree. The
`hazards` of `PROJECT.json` list them at the lines where they bite.

## 2. The modules

| Module | Models | Extends / instantiated by |
|---|---|---|
| `Execute` | abstract: what a caller of `Tasks.Execute` relies on | `Tasks` (refinement) |
| `Tasks` | `Tasks.Execute`, the monitor, `Task.Execute` | `MCTasks`, `TasksProofs` |
| `Services` | what the service commands (status included) do to table, engine and data | `MCServices`, `ServicesProofs` |
| `Cluster` | parse, check, commit, precheck, deploy, upgrade | `MCCluster`, `ClusterProofs` |
| `ClusterStore` | clusters, containers, hosts in the database | `MCClusterStore`, `ClusterProofs` |
| `Walk` | the two concurrent walks | `MCWalk`, `WalkProofs` |
| `Component` | the component manager and its users | `MCComponent`, `ComponentProofs` |
| `RpcCall` | abstract: what a caller of `GetRpcResponse` relies on | `Rpc` (refinement) |
| `Rpc` | `GetRpcResponse`, retries, the pool of connections | `MCRpc`, `RpcProofs` |
| `MdsCommands` | the commands that talk to the metadata server, the router | `MCMdsCommands`, `MdsCommandsProofs` |
| `Mount` | the commands that run a binary, and umount | `MCMount`, `HostProofs` |
| `Nfs` | nfs add and remove | `MCNfs`, `HostProofs` |
| `Monitor` | the monitor file, commands and tasks | `MCMonitor`, `HostProofs` |

The layers fit together as follows. `Execute` is the interface between a
playbook and its batches: a batch ends with every task ended and an error iff
one failed. `Services` and `Cluster` build on that interface only: in
`Services` the tasks of one step interleave and the next step begins when all
ended and none failed; in `Cluster` a whole step is one action that succeeds,
or fails after an arbitrary one of its tasks. `Tasks` is shown to implement
`Execute`, so this use is justified. `Monitor` uses it in the same way.
`ClusterStore` is the database below all of them, under several processes.

`RpcCall` is the interface between a command and the metadata server: a call
ends well only if the request was executed, and it may have been executed
several times, or once without the caller ever hearing of it. `Rpc` is shown to
implement it. `MdsCommands` and `Walk` build on that interface: an attempt is
answered, refused, lost before or lost after it was executed, and repeated as
often as the client allows.

### Tasks and Execute

`mpc` is the program counter of `Tasks.Execute`: `Begin` (options and main
bar), then for every task `AddWaiter` (`wg.Add`), `AcquireSlot` (the send into
`workers`), `Spawn` (sub bar and `go`), and after the loop `EndLoop`,
`WaitGroup`, `IncrMainBar`, `SetMainBarStatus`, `ProgressWait`. `tpc[t]` is
that of the worker of task `t`: `Connect` or `ConnectFails`, `StepOk`,
`StepBreaks` (a step asks to skip the rest), `StepFails`, `PostStepOk`,
`PostDone`, `SetResult` (under the lock of the monitor), `IncrSubBar`,
`ReleaseSlot`, `WorkerDone` (`wg.Done`). An error is the index of its task, the
results of a bar are three counters. The progress library (external) gives out
bar ids in order, and its `Wait` returns when every bar is full.

`Execute` has a status per task and a result: tasks start in any order up to a
limit, each ends well or badly, and the batch returns `error` iff one ended
badly, after all ended. The refinement mapping (`statusBar`, `retBar`) lets a
task end when its result is in the monitor.

### Services

`db` is `containers.container_id` (`NoRow`, `Cleaned` for `"-"`, or an id),
`ctr`, `state`, `image` the one container an engine can have under the name of
a service, `data` its data directory, `want` the image of the committed
topology. `Begin` starts a command with its list of steps, `CreateTasks` makes
the tasks of a step (and reads the container ids: this early read is kept),
`EndStep` goes to the next step or returns. Each access of a task to the table
or the engine is an action of its own: `Pull`, `List`, `Get`, `Create`,
`InsertService`, `SyncConfig`, `Start`, `Check`, `Stop`, `RemoveFile`,
`RemoveContainer`, `SetCleaned`. `Fails` and `TableFails` are the errors of the
engine and of the database, `Crash` the kill of the process, `Lose` a container
removed by someone else, `CommitTopology` a new image. `status` is the pair of
steps `InitStatus` and `GetStatus`: `shown` is what the memory storage holds for
each service (`FormatServiceStatus`), with "Unknown" from the first step where
the second failed, "Cleaned" for a row without an id and "Losed" for a
container that is gone.

### Cluster

A topology is its kind and, for every section, the deploys (host, name, the
three spellings of the number of instances). `ParseTopology` and
`DeployConfigs` translate the parser: which roles a kind has, the `mds-client`
role that borrows the first mds, instances, ids, and the topologies for which
it returns an error or panics. `CheckTopology` translates the checks of
services and hosts with the memory-storage keys each caller sets.
`StepLists` are the package variables of `deploy.go` and `upgrade.go`;
`FilterRole`, `Limit`, `DeployLen` the filters, limits and the cut of the last
step; `WithServices` leaves out the steps of an upgrade that no service is for; `RemovePull` is `append(steps[:i], steps[i+1:]...)` with its effect on
the package variable, kept in `lists` for the batches of the same process.
`BeginDeploy`, `BeginUpgrade`, `NextBatch`, `StepOk`, `StepFails`, `Finish`,
`Decline` run them. Addresses, directories and S3 settings are one
nondeterministic verdict.

`BeginPrecheck` runs the list of checks with the ones of `--skip` taken out
(`SkipPrecheckSteps` by `BELONG_CHECK_ITEM`), once per service or once per host
(`OncePerHost`, `FirstOnHost`). `probes` are the containers that hold a port
(`PortProbes`) or answer http (`HttpProbes`) and the ones a clean removes
(`CleanProbes`); `ErrorIgnored` names the steps whose error the playbook drops;
the post step runs after a failure too, and not after a kill. `ConnectAddress`
says which roles a service must reach. What a probe measures (kernel, clock,
permissions, network) is a verdict that may be bad for any task.

### ClusterStore

One row per cluster id, `seq` the AUTOINCREMENT sequence, `service` what
`containers` holds for a cluster id, `hosts` the number of rows of that table and
`lastHosts` the one written last (the first is the one that is read). A process
is `idle`, or between two statements of its command; the statements are
`Query`, `CheckServices`, `Confirm` (the operator's answer), `QueryNew`,
`QueryHosts`, and the writes. `Abandon` covers refusals, errors and kills.
`SelectCluster` compares with LIKE (`Like`): names equal up to case match, and
which other names a name with a wildcard matches is the relation `Wildcard`, so
that patterns which match everything and ones such as `x_y`, which matches `x-y`
and not the reverse, both are instances. `renamed` is a history of the clusters
that got their name by a rename: the new name is looked up as a pattern, but
nothing looks whether an older name, taken as a pattern, matches it.

### Walk

There is one walk per directory, so a stack frame is indexed by its directory:
`pc`, `todo` (the listed entries not yet handled), `err`, `errCh` (the channel
of capacity one), `wg`. `SelectError`, `SelectCancelled`, `SelectSlot` and
`SelectDefault` are the cases of the select statement; a walk that returns
early leaves its goroutines running, as the code does. The metadata server
(external) carries a call out, refuses it, or carries it out and loses the
answer; another client creates a file while the walk runs. `EndCommand` is the
return to the command, with `runDelete`'s use of a nil summary.

### Component

`disk` is `installed.json`, `torn` the time between truncation and write of
`os.WriteFile`, `bin` the build of each binary, `repo` the mirror. A process
loads file and mirror once (`mem`, `snap`) and works on these copies. Install
and update go through their arguments one by one (`ArgumentFails`,
`DownloadFails`, `Download`, `Truncate`, `Write`); `use`, `uninstall` and
`uninstall --all` change the copy and save it; `start` stands for mount,
`mds start`, `mds meta` and `cache start`, which install the latest version if
none is active. A download may bring an error page, since the status of the
answer is not looked at.

### Rpc and RpcCall

`pc[g]` is where the call of goroutine `g` is: `GetConnection` (an idle
connection, taken under the lock, or none), `DialOk`, `DialAgain`, `DialFails`
(next address), the outcomes of one attempt (`StubOk`, `StubRetryStatus`,
`StubStatus`, `StubError`), `PutConnection` (after failures too) and `Return`,
which panics when there was no address. `late` are the requests that timed out
and that the server may still execute (`LateExecution`). `clue` is the one
error value all goroutines share. In `RpcCall` a call is open, ended well, with
a status, or failed, and counts how often it was executed.

### MdsCommands

A command is a plan: a sequence of local steps (`storage`, `quota value`,
`confirm`, `router`, `measure`, `exists`, `compare`, `paths`) and of rpcs
(`GetFsRpc`, `SetDirQuotaRpc`, ...), with the server method each calls. `Plan`
is read off the `run...` functions. The actions are the local steps (`Local`,
`Router`, `Measure`, `Exists`, `Compare`, `Paths`), the ways an attempt can end
(`Answer`, `Busy`, `Lost`, `NoEndPoint`) and the ways a command can end
(`Finish`, `Exit`). `mds` is the state of the metadata servers (external):
file systems, directories, quotas, a cache member. A limit is a signed integer
of `Bits` bits and `GiB` is scaled with it, so that a capacity that fits, one
that wraps to a negative limit and one that wraps to zero all occur. `HashInit`
gives every outcome of an initialisation that walks a Go map in random order
and stops at the first mds that is not listed. `WriteFile` and `RemoveDir` are
another client.

### Mount

`pc[p]` is the command of a terminal, `child[p]` the process it started,
`served` who serves a mountpoint. `Begin`, `RunCommandHelp`, `NotStarted`, `Start`
and then `Wait` (foreground), `SleepOver` (a daemonized mds or cache) or `Tick`
and `Report` (the goroutine of a daemonized mount and the channel it sends on).
`StatSeen` is `!os.IsNotExist(err)`: true of anything mounted, stale mounts
included, and of the paths in `Odd`, where the answer is another one although
nothing is mounted (the path is a plain file, may not be searched, or holds a file
of that name; the mountpoint itself is not checked). The child (external) may come
up, fail, crash and exit; a crash leaves a stale mount. `Umount` has the options,
the errors of `syscall.Unmount` and the way out through `fusermount3`. `own` and
`alone` are histories: the commands whose own client came up, and the mounts that
began where nothing was mounted and had no rival at their mountpoint since.

### Nfs

An export file is named after an inode and the last element of a path
(`GenerateFileName`) and holds the path and an id. The inode of a path is the one
it has in the file system that is mounted above it, or in the local one (`InodeIn`):
the roots of two mounts have the same, so that their files have one name if their
last elements are equal. A command is its sequence of shell commands: look whether
the path is exported, find the inode, choose an id (`GenetateExportId`), save or
remove the file, find the pid of ganesha and send SIGHUP
(`NotifyGaneshaReLoadConfig`); any of them may fail and two operators interleave
between them. File systems are mounted and unmounted behind their back.
nfs-ganesha (external) starts, stops and reads the directory after a signal; of
exports that share an id it serves one at most, and of those that share their path
any (`Loads`).

### Monitor

`conf` is the stored file (which roles have a deploy list and which a config, the
port of prometheus, the credentials of grafana), `origin` whether the container of
the first service of the cluster's topology, which `SyncConfig` copies files out
of, is on the host of the monitor (`CommitTopology` and `ClusterCommand` change
it), `row`, `ctr` the table and the engine for the five
services on two hosts, `file` the configuration files of prometheus and grafana
and the dashboard, `data` the data directories. `ParseMonitorInfo` gives the
services of a file, `ParsePanics` the files it cannot bear. A command is a plan
of steps with a scope (`DeploySteps`, `UpgradeSteps`, ...); `RunStep` runs all
tasks of one step (`Task`, `TasksOf`, `DataAfter`, `FileAfter`), of which some
fail, end half-way or have an error the code drops; `KillCommand` ends the
command in the middle of a step.

## 3. The runs

Deadlock is checked in every run; where a system may stop, an explicit
stuttering step (`Returned`, `NoMoreCommands`, `Quiet`, `Ended`) says in which states, so a state
with nothing to do anywhere else is an error. In `Monitor` the operator may stop
at any time, and in `Mount` and `Nfs` a mount can always change, so deadlock says
nothing there; in the last two the liveness properties stand in for it.

| Run | What it checks | Bounds |
|---|---|---|
| `Tasks` | concurrency, the error, the bars, refinement of `Execute`, termination | up to 3 tasks, 2 parent ids, concurrency 1 and 0 (which means 10), all silent options, tasks with and without steps and post steps |
| `Services` | table against engine, truth of deploy, upgrade, stop and status, data kept | 2 services, 3 container ids, 2 images, one engine error, one crash, losses |
| `ServicesRetry` | a deploy that is retried recovers | as above with deploy only, 2 engine errors, 1 crash |
| `Cluster` | all services started, in order, with no probe on their ports, one down at a time, no panic after a checked commit | 25 topologies of the three kinds (every mix of absent, too few and enough, and one with an etcd), 16 commands, 3 in a row, one failing task or kill |
| `ClusterStore` | one current cluster, ids not reused, serial commands consistent, removal | 2 processes, names `a`, `A`, `x_y`, `x-y`, 2 clusters ever, 5 commands |
| `Walk` | threads, order of removals, errors, counts, termination | 4 directories nested twice, 4 files (two links of one inode, a symbolic link, one created late), 0, 1 and 2 threads, three commands |
| `Component` | the list, its defaults and binaries | 2 processes, 3 products of 2 names, 1 new build, 3 commands of 9, 1 kill |
| `Rpc` | connections exclusive, refinement of `RpcCall` (safety and return) | 3 goroutines (two addresses, one, none), 1 retry |
| `MdsCommands` | reports true, usage exact, limits as asked | 2 processes, 2 commands out of all, 1 retry, 4-bit integers, 1 file written, 3 lists of mds |
| `Mount` | success is that of the own client; a mount returns | 2 terminals, 2 paths, one of them odd, 4 binaries |
| `Nfs` | ids apart, exports kept, the store served | 2 operators, 2 mountpoints whose files share a name while both are mounted, one path inside the other, 3 commands, 1 fault |
| `Monitor` | stored file parses, a deploy wires the services, when a first deploy succeeds | 5 services on 2 hosts, 5 files, 3 commands, 1 fault |

Why these bounds are enough to be interesting. *Tasks*: with three tasks and one slot a task
waits for a slot while one runs and one has ended; two parent ids give a shared
bar and a bar of its own; more tasks repeat these cases, and the proofs cover
all sizes. *Services*: with two services one fails or is killed while the other
is at any point; three ids let a row, a container and a newly created one all
differ. Two images make an upgrade visible. *Cluster*: three services of a role
is what the checks ask for, two and none are the refused cases. Three commands
are a commit, a deploy and an upgrade. *ClusterStore*: five commands let one process add,
deploy, remove and add again while the other is at any statement, and add `a`, add
`x_y`, rename `a` to `x-y`, deploy and remove `x_y`, which is the case that
`RemoveKeepsActive` excepts. *Walk*: the
tree has siblings that run in parallel and a directory nested inside one of
them, so that goroutines of different depth compete for two, one or no slots.
*Component*: one name with two versions, which compete for the default, and
another name that must not be touched. *Rpc*: two goroutines share an address,
one of them after it failed to dial another; with one retry an attempt is the
last one or not. *MdsCommands*: every pair of commands interleaves with one
file written at any point; four bits are enough for a limit to fit, to turn
negative and to turn to zero. *Mount* and *Nfs*: two actors on one object at
any point of each other's command; in *Nfs* the export of one path is overwritten
and removed by commands for the other. *Monitor*: three commands are a deploy, one
that disturbs and a deploy again. Symmetry is used for processes and services
in runs without liveness properties.

Fairness. `Tasks`, `Walk` and `Rpc`: weak fairness of every goroutine, which is
what the Go scheduler gives; steps return because remote commands and calls
carry timeouts (their failure is always possible, so nothing is assumed of the
servers). `ServicesRetry`: weak fairness of the running command and of the
operator who gives the deploy again; the faults are bounded by the model, and
nothing forces them to happen. `Mount`: weak fairness of the command and its
goroutine, none of the child. `Nfs`: weak fairness of the commands, whose shell
commands have a timeout, and of nfs-ganesha acting on a signal it has received.

Each property of each passing run has a mutant in `PROJECT.json`: a definition
of the model changed as a plausible bug would change the code (the operator
before it in the module), for which TLC finds the property violated.

## 4. The proofs

### TasksProofs: for every batch, number of bars, steps and concurrency

Assumed of the constants: `TasksAssumption` (`MaxTasks` and the concurrencies
are natural numbers, there are finitely many parent ids) and `StepsAssumption` (step counts are natural numbers). Proved:

* `TypeCorrect`: `Spec => []TypeOK`. The point is `wg \in Nat` and
  `slots \in Nat`: nothing is given back that was not taken.
* `ConcurrencyIsRespected`, `NothingIsLeftBehind`, `ErrorIsReported`.
* `TasksImplementExecute`: `Spec => Abs!Spec`.
* `BarsAreTruthful`: what the main bar shows when Execute returns, and what a
  full sub bar shows.

None is inductive by itself. The inductive invariant `IInv` adds:
`SlotInv` (the tokens in the channel are as many as the workers that hold one,
plus the one the main goroutine holds between `AcquireSlot` and `Spawn`),
`WgInv` (the same for the wait group), `LoopInv` (tasks before `next` were
spawned, those from `next` on were not), `ErrInv` (the monitor has an error iff
a task whose result is recorded failed, and it is the error of such a task) and
`RetInv`. `WgInv` gives `NothingLeftBehind` (a zero counter means an empty set
of workers), `SlotInv` gives the concurrency bound, `ErrInv` at the end gives
the returned error. The refinement shows each action to be a step of `Execute`
or to leave `statusBar` and `retBar` unchanged, by the same invariant.

The bars need an invariant of their own, `BarInv`. Which ids the progress
library has given out, and to which parent ids, is `MainBarInv` and `SubBarInv`;
`FillInv` says that a bar has advanced once for each of its tasks that is past
`IncrSubBar`, and `TallyInv` that the error (success) counter of a bar is zero
exactly if no task of the bar whose result is recorded failed (succeeded). A
result is recorded before the bar is advanced, so a full bar has all results in
(this is where the order of the two statements in the worker matters).

### ClusterProofs: for every number of processes, clusters, names and commands, and every topology

`ClusterStore`, from `StoreAssumption` (types of the constants). Proved:

* `TypeCorrect`, `AtMostOneIsCurrent`, `NewClusterIsEmpty`.
* `SerialIsConsistent` and `RemovalKeepsActive`, for commands that do not
  overlap.

The inductive invariant is `TypeOK`, `AtMostOneCurrent`, `NamesUnique` (two
rows never have the same name, from the UNIQUE column), `IdsGiven` (ids above
the sequence are unused in every table) and `ArgsGiven` (a process in the
middle of a command has a real name as its argument). `CheckoutCluster` needs
`NamesUnique`, since it makes current every row that has the name.
`NewClusterEmpty` needs `IdsGiven`: the services of a removed cluster stay
behind, and only the sequence keeps a new one from getting them.

The last two theorems rest on `SerialInv`, which is about a history in which no
command overlapped another: the one command that runs (`Alone`) has checked what
its location says it has (`Checked`), and this is still so because nobody else
wrote; no two names differ in case only (`NamesApart`); when a
cluster gets its name LIKE finds no other for it, so an older one that it finds
later was renamed since (`LaterRenamed`); the first row of hosts is what was written
last (`HostsLast`). `RemoveKeepsActive` needs the row that LIKE
found first to be the row that `=` removes: by `FirstIsLeast` the first is the
smallest id that matches, and `NamesApart` and `LaterRenamed` leave only an earlier
cluster that was renamed, which the property excepts.

`Cluster`, from `ClusterAssumption` (a topology is of one of the three kinds, and
every section has a list of entries with integers for the numbers of instances;
the options of a command are Booleans; the bounds are natural numbers). No bound
is put on the number of entries, instances, hosts, services, commands or faults.
Proved:

* `SuccessMeansRunning`, `UpgradesOneByOne`, `StartsAreOrdered`,
  `NoPanicAfterCommit`.

The inductive invariant `ClusterInv` is about the steps that are left of a
playbook. `Up(plan, i, svc[i])` says that service `i` runs and no step that is left
stops it, or that a step that is left starts it, no stop comes after that, its
container is there by then, and nothing that must wait for it is started before.
The argument has three parts.

* *The lists agree with the parser.* `DcsLemma` says which roles the deploy
  configs of an accepted topology have, `ListCases` which list
  `genDeployPlaybook` chooses for them, and `GoodLists` that this list, cut or not,
  has a container created and then a start for each of these roles, in order
  (`Ready`), the meta tables before the mds and the clean of the probes before any
  start (`After1`), and that a step with a limit has a service when
  `step2CheckServices` let the topology pass.
* *`--local` and the filters keep this.* A list from which some positions are
  taken in order stays `Ready` as long as the positions that matter are among
  them (`Embeds`, `Covers`, `ReadyKept`). `RemovePullKeeps` shows it for the list
  that `append(steps[:i], steps[i+1:]...)` gives, `ShiftedKeeps` for the package
  variable it leaves behind, which the next batch of the same upgrade uses
  (`ListsReady`); `WithServicesLemma` for the steps an upgrade leaves out.
* *A step keeps what was promised.* `UpStep`: if `Up` holds before a step that
  succeeds, it holds of the rest of the playbook afterwards. At the end of the
  playbook nothing is left but that the service runs.

`StoredOK` ties what is stored to the checks of the commit, `PlanOK` the services
of a step to the batch, `DeployOK` and `UpgradeOK` apply `Up` to the services of
the topology, to those that ran when an upgrade began (`base`), and to those that
are in the batch or still in `todo`. An upgrade one by one has one service in its
batch, so all that ran and does not run has to be started by the playbook of that
one: this is `OneByOne`.

What `Pick` and `FlattenSeq` compute is shown by least counterexamples on the
length, as in `WalkProofs`.

### WalkProofs: for every tree, number of threads, command and behaviour of the server

Assumed: `TreeAssumption` and `BelowRootAssumption` (the entries form a tree
below Root; the second is stated as "no set of directories without Root contains
the parents of all its members", which is what the proofs use in place of an
induction over the tree), `LengthAssumption`, `FiniteAssumption`. Proved:

* `TypeCorrect`, `ThreadsAreRespected`, `DirectoryIsEmptied`, `NoErrorIsLost`,
  `DeletionIsComplete`, `SummaryIsTruthful`.

The inductive invariant has three parts. `FrameInv` is about the stack frames:
what a loop has not come to is not walked (`TodoInv`, `FreshInv`), the wait group
counts the goroutines that have not ended (`WgInv`), an inline walk has its
caller waiting for it alone (`InlineInv`), an error has been told to the parent
by the time a walk is over (`ErrInv`), and a walk that goes on or has failed has
a parent that goes on or has failed (`OpenInv`). The last one, with
`BelowRootAssumption`, gives the main lemma `AllQuiet`: if the walk of Root
ended well, no walk anywhere goes on or has failed. `SlotInv` and `FailInv` tie
the channel, the context and the result of the command to the frames. `TreeInv`
is about the server: a walk that ended well has removed its directory
(`GoneInv`), what is left in a directory is still to come, being walked, or new
(`LeftInv`), and until a call fails the count is that of the entries gone
(`CountInv`).

The totals of the walks that count have `SumInv`: while the tree is at rest and
no call has failed, the totals are those of the entries the loops have come to
so far (`Seen`), a directory that was come to is walked, and the map of inodes
holds those of the files seen that have two links or more. A file that shares
its inode with one that was seen therefore has its inode in the map, and one
that does not is counted for the first time, whichever goroutine comes first.
When the command succeeds, `AllQuiet` and `BelowRootAssumption` give that
everything was seen (`AllSeen`). The lengths are a sum over a set that
`MapThenSumSet` takes in the order of CHOOSE; that any other order gives the same
sum is `SumLemma`, proved by a least counterexample on the cardinality, since the
induction theorems of the library cannot be used.

### RpcProofs: for every number of goroutines, addresses and retries

Assumed: `RpcAssumption` (`Retries` is a natural number, every goroutine has a
sequence of addresses). Proved:

* `ConnectionsAreExclusive`;
* `CallIsSafe`: `Spec => Abstract!Safety`, the refinement of `RpcCall` without
  its fairness.

`HoldInv` says where a goroutine holds a connection. With it `ConnExclusive` is
inductive in its full form: held connections differ, no queue has one twice or
one that is held or in another queue, and together they are all that were
dialled. For the refinement, `BudgetInv` bounds what was executed and what may
still be executed late by the attempts made so far; without the late requests
the bound would not be inductive, since they execute after the call has
returned. `ResultInv` says that a success was executed.

### ServicesProofs: for every number of services, container ids, images, failures and kills

Assumed: `ServicesAssumption` (bounds are natural numbers, the commands are
those of the code). Proved:

* `RowsNameContainers`, `CommandsAreTruthful`, `DataIsKept`.

A property of the end of a command needs an invariant of every point before:
`PlanInv` says where the command is in its step list, `TaskInv(s)` what the task
of a service has established at each of its locations, `StepInv(s)` what the
steps that are over have left for it. Each is about one service, so a task of
another one disturbs it only by its failure.

### MdsCommandsProofs: for every number of processes, commands, retries and files, and every width

Assumed: `MdsCommandsAssumption` (natural numbers) and `WidthAssumption`: `2^Bits`
and `2^(Bits-1)` are numbers, the first is twice the second, and the second is at
least two. This is arithmetic for every width from 2 on (TLC evaluates it for the
width of the run); the provers know nothing of exponents. Proved:

* `ReportsAreTruthful`, `UsageIsExact`, `LimitsAreAsAsked`.

A command is a plan that is worked off from the front. The invariant `PlanInv`
says that the write a command promises is still ahead in its plan or was
executed, and that an rpc which needs the router or a measure has the step that
provides it ahead of it, or its result. `MeasureInv` says that a measure which
no write has overtaken is the usage of the directory and of the root.

### HostProofs: for every number of operators, terminals, paths, mountpoints, files, commands and faults

`Nfs`, from `NfsAssumption` (which mountpoint a path is below; inodes are numbers;
bounds), with any file systems, inodes and last elements of paths. Proved:

* `IdsAreApart`, `ExportsAreKept`.

The inductive invariant says of every export, and of every id an operator has
chosen and not saved yet, that it is larger than the ids it was chosen after
(`Above`). `GenetateExportId` is above all ids in the store only if there is a
largest one, so the ids are bounded (`Bounded`), and `MaxLemma` finds the
largest by `WFMin`. `ExportsKept` speaks of paths and file systems where the code
compares names: a command holds an inode that its path has in some file system
(`LookedUp`), and a file in the store is named after one that its own path has
(`Named`), however the mounts have changed since.

`Mount`, from `MountAssumption` (the odd paths are paths; no terminal is called
like a state of a mountpoint). Proved:

* `SuccessIsAlwaysOwn`.

`MountInv` says of a mount that is `alone` and whose client has not come up that
nothing is mounted at its mountpoint, that no other client may still come up there,
and that a daemonized one is still polling (`Waiting`). `Effects` collects what any
step does to one terminal, and `ServedEffects` that only a client that comes up
makes a mountpoint served; the crash of a client, an unmount and the commands of
other terminals keep `Waiting` by these two.

`Monitor`, from `MonitorAssumption` (files are of the type of a monitor file,
ports are positive, bounds are natural numbers). Proved:

* `StoredAlwaysParses`, `DeployIsWired`, `FreshDeployAlwaysSucceeds`.

`MonitorInv` says of a deploy with `k` of its eight steps left what the others
have brought about (`Deployed`): rows that name containers from the second on,
the port in both files from the fourth, services that run from the sixth, the
dashboard from the seventh, each up to containers that were lost before, which
every task skips. `FreshDeployed` says more of a deploy that found no container:
which state every container is in, that prometheus listens on the stored port,
that the files are there, and, once the steps that need them are over, that the
container of `dcs[0]` is on the host and grafana has its directories. Whether a task
fails then depends on these, on the credentials and on reasons of its own only.

### ComponentProofs: for all products, processes, requests, builds and kills

Assumed: `ComponentAssumption` (types of the constants; `use`, `uninstall` and
`start` have an argument). Proved:

* `ListIsConsistent`, for processes that overlap too;
* `EntriesHaveBinaries`, `InstallIsTruthful`, `DefaultsSurvive`, for those that
  do not.

`Lined` is the first result for the copies of all processes as well: a copy of a
consistent list that is changed stays consistent, so it does not matter who
saves last. For the others, a process that is `Alone` has read what is in the
file (`Current`), what it is going to save has its binaries (`Complete`), keeps
the defaults it must (`Defaults`), and has recorded the arguments it is done
with (`Progress`). What the loop of uninstall keeps (`Kept`, a recursive
function over the list) is shown by a least counterexample over the index.

### How the invariants were found

The inductive invariants were checked by TLC, as invariants of the run of their
component, before they were proved (their types apart, where these are infinite
sets); several were strengthened after TLC or a failed proof step showed a state
they did not exclude. `StartsAll` itself was too strong: its proof stopped at the
topologies with an etcd, for which there is no list of steps and a deploy
succeeds with nothing done (`deploy.go:271`). The run had no such topology; it
has one now, and the property excepts it. The proofs
of preservation have one lemma or step per action. Facts about sets, sums,
sequences and functions are lemmas of their own at the beginning of each module.

### Only model-checked

* Liveness: `Termination` (`Tasks` and `Walk`), `DeployRecovers`, `MountReturns`,
  `StoreServed`, and the part of `ImplementsCall` that says that calls return.
  The prover has neither ENABLED nor fairness.

Every other property of the runs, all the invariants and the action properties
among them, is stated by a theorem.

## 5. What is not modelled

`PROJECT.json` lists each component with its status. Left out: what a shell
probe measures, SSH and the text of configuration files (each command on a host
is a call that succeeds or fails); the resolution of variables in a topology and
the tables of configuration items (strings and defaults; a recursion that does
not end on a cycle is noted below); output, tables, prompts, logging; reads that
are only displayed in a loop (stats, warmup query); the dingocli self-upgrade (a
download and a script); commands that hand a terminal to one host; the
playground, client and audit tables; copies of `internal/tasks` that nothing
imports; vendored and generated code.

Two steps are coarser than the code: a write of `installed.json` that is not cut off
is one step of `Component`, so that two overlapping writes do not mix, and the measure
of a directory in `MdsCommands` is one step, with writes during the walk counted as
writes after it (`Walk` has the walk itself).

What the models state on purpose with an exception, because the code goes the
other way there, is listed here for the maintainers.

Deployment:

* `CREATE_CONTAINER` skips a service whose row has an id
  (`create_container.go:99`), and the later steps skip a service whose container
  is not found: after a kill between the removal of a container and
  `SetContainId` a deploy reports success without the service (`Lost` in
  `CommandsTruthful`); an error of `docker rm` is dropped (`clean_service.go:58`)
  and leaves a container that blocks later creates (`Orphan` in `DeployRecovers`);
* the precheck does not set `KEY_CHECK_SKIP_SNAPSHOECLONE`, which
  `step2CheckS3Configure` asserts to be a bool (`checker/topology.go:83`): it
  panics unless `--skip topology` is given (`CommittedNeverPanics` excepts it);
* `precheck --skip network` still starts the http probes, since
  `START_HTTP_SERVER` belongs to no item; the errors of `CHECK_PORT_IN_USE` and of
  post steps are dropped (`playbook.go:82`); the tasks of `GET_HOST_DATE` write a
  plain map without a lock (`date.go:70`); clocks may differ by 15 seconds and the
  error says 30;
* `cluster status --with-cluster` shows the services of both clusters in its
  second table, since the memory storage is not cleared;
* a step that asks to skip makes its task end with nil (`task.go:125`), so the
  `[SKIP]` status of the monitor (`tasks.go:183`, `monitor.go:83`) never shows;
* `clean` writes `"-"` also when the removal of the container failed
  (`clean_service.go:57`), and `clean --only data` does nothing once the
  container was cleaned (`clean_service.go:104`);
* a DingoFS topology with etcd selects no deploy step and still reports success
  (`deploy.go:271`, `deploy.go:411`);
* `upgrade --local` edits the package-level step list in place (`upgrade.go:113`);
  from the second batch of the same upgrade on, the list ends with its last step
  twice, which only starts what runs already (`StartsAll` holds);
* several mds make several `mds-client` configs (`topology.go:201`); duplicate
  ids are not detected (`topology.go:261`); the result of the health check of the
  stores is not used (`check_service.go:46`);
* `config commit --force` cannot replace a stored topology that does not parse
  (`commit.go:188`);
* `rename` does not look for names that LIKE matches: after `add b`, `add x_y`,
  `rename b x-y`, the commands `cluster rm x_y` and `checkout x_y` find `x-y` first,
  so that a cluster is removed without a check of its services (`remove.go:93`,
  `sql.go:124-127`; excepted in `SerialConsistent` and `RemoveKeepsActive`);
* with two operators at once, `cluster rm` can remove a cluster that was
  deployed after the check (`remove.go:90-104`), and two first `hosts commit`
  insert two rows (`storage.go:131`);
* versions of components are compared as strings (`repo.go:31`); a kill while
  `installed.json` is written leaves a file no command accepts; the HTTP status
  of a download is not checked; `component use` without a version always fails,
  and an update makes the updated version the default;
* a name given to `cluster checkout` in the wrong case passes the lookup (LIKE)
  and not the update (=): every current flag is cleared and a switch is reported
  (`sql.go:127`); `component update --all` ends at the first component that is up
  to date (`update.go:82`);
* variables that refer to each other recurse without end (`variables.go:98`).

Commands that talk to the metadata server:

* `runDelete` of subpath reads `summary.Inodes` after an error, when the summary
  is nil (`delete.go:142`); `checkPathIsExist` of subpath create is inverted
  (`subpath/create.go:179`); `errors.Is(dirErr, syscall.ENOENT)` of quota list is
  never true (`list.go:150`);
* `quota check` and `config check` with `--repair --format json` return before
  they repair (`check.go:135`), and json output exits 0 on errors; an error of
  `fs usage` ends its loop and is not returned (`usage.go:158`);
* an empty endpoint is not noticed by quota set, get and delete and by subpath
  create, and the call panics for want of an address (`client.go:114`); the result
  of `HashMDSRouter.Init` is dropped (`rpc/utils.go:72`);
* the capacity of a quota wraps (`quota_utils.go:87`), and a usage measured before
  a file was written is stored after it (`quota/set.go:138`);
* the rpc client returns a status that asks for a retry as a result after the last
  retry, does not try another address after a failed call, puts failed
  connections back into the pool and shares one error value
  (`client.go:67-111`).

Processes on this machine:

* the timeout of a daemonized mount is never taken (`mount.go:155`), so a mount
  whose client died polls for ever; any answer of stat but "not exist", and a mount
  of somebody else, counts as its own (`SuccessIsOwn` says when it is); a daemonized mds or cache is reported as
  started after two seconds whatever became of it (`mds/start.go:132`,
  `cache/start.go:127`);
* two overlapping `nfs add` get the same id and a failing grep gives id 1
  (`nfs.go:84-128`); a path inside a longer exported one is refused (`nfs.go:72`);
  after a failed signal the export stays and a retry is refused
  (`add.go:161-181`), until another command brings it into service; `nfs remove`
  after an umount removes nothing and reports success (`remove.go:69-92`); the files
  of two paths with the same last element and inode, such as two mounted roots, are
  one (`nfs.go:55-57`), so that a command for one takes the export of the other.

Monitor:

* a deploy always fails if the first service of the topology is on another host than
  the monitor or has no container, since its files are copied with `docker cp` on the
  monitor's host (`sync_config.go:187-211`), and if prometheus has no deploy list,
  since grafana's directories are then not set (`monitor.go:412`);
* `ParseMonitorInfo` panics on a missing section (`monitor.go:369`); the deploy
  hosts of prometheus and grafana are ignored, and node ips come in the random
  order of a map, so that `commit` shows changes where there are none;
* `syncPrometheusUid` always logs in as admin:admin (`sync_config.go:53`) and
  drops the error of sed; reload and a second deploy keep containers with the old
  port while the files get the new one, an upgrade does the reverse; cleaning the
  data of monitor_sync removes those of prometheus and grafana; `commit` prints
  "updated" also when the update failed (`commit.go:164`).

## 6. Plan

Done, in this order: `Execute`/`Tasks` (everything goes through it),
`Services`, `Cluster`, `ClusterStore`, `Walk`, `Component`, the proofs of
`Tasks`, `ClusterStore` and `Walk`; then `RpcCall`/`Rpc`, `MdsCommands`,
`Mount`, `Nfs`, `Monitor`, and the precheck and status commands.

Then the proofs of `Rpc`, `Services`, `MdsCommands`, `Nfs` and `Component`, and
the second half of those of `Tasks` (the bars), `ClusterStore` (commands that do
not overlap) and `Walk` (the totals).

Then the proofs of `Mount`, `Monitor` and `Cluster`; with them every safety
property of the runs is proved.

Next: of the code, the resolution of variables and the label patterns of hosts
could be written as functions against a reference definition.
