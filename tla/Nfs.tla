--------------------------------- MODULE Nfs ---------------------------------
(***************************************************************************)
(* `nfs add` and `nfs remove`: the exports of nfs-ganesha for directories  *)
(* of a mounted file system, run by several operators while the file       *)
(* system comes and goes (the commands for that are in module Mount).      *)
(*                                                                         *)
(* An export is a file in the store directory, named after the inode and   *)
(* the last element of its path, so that different paths may share a name. *)
(* Each command is a sequence of shell commands with a timeout of ten      *)
(* seconds, any of which may fail; the commands of two operators           *)
(* interleave between them.  A path's inode is the one it has in the file  *)
(* system that is mounted above it, or in the local one while none is.     *)
(***************************************************************************)
EXTENDS Integers, FiniteSetsExt

CONSTANTS
  Mountpoint,   \* directories a file system is mounted at
  Operator,     \* the terminals that run nfs commands
  Path,         \* the paths they export, all below mountpoints
  Below,        \* [Path -> Mountpoint]
  Base,         \* the last element of a path
  Volume,       \* the file systems
  Local,        \* the one of this machine, which the mountpoints are in
  InodeIn,      \* the inode a path has in a file system, or NoInode; the root of
                \* each has the same one, and so paths of different mounts may
  Within,       \* pairs <<p, q>>: p, read as a pattern, is found in a longer path q
  MaxCommands,  \* bound: nfs commands
  MaxFaults     \* bound: shell commands that fail, clients and nfs-ganesha lost

NoInode == 0
Stale == "stale"        \* of a mountpoint: mounted, and its client is gone

ASSUME NfsAssumption ==
  /\ Below \in [Path -> Mountpoint]
  /\ Local \in Volume /\ Stale \notin Volume
  /\ InodeIn \in [Volume -> [Path -> Nat]]
  /\ Within \subseteq Path \X Path
  /\ MaxCommands \in Nat /\ MaxFaults \in Nat

VARIABLES
  mnt,      \* what is at a mountpoint: a file system, Local if none is mounted, or Stale
  npc,      \* where the command of an operator is
  cmd,      \* its command and path
  inode,    \* GetInodeId's result
  exportId, \* GenetateExportId's result, and the exports it was chosen after
  out,      \* what the operator's last command returned
  store,    \* the export files: name, path, Export_Id and what that was chosen after
  ganesha,  \* the number of processes called ganesha.nfsd
  hup,      \* a SIGHUP that nfs-ganesha has not acted on
  loaded,   \* the export files it read last
  commands, faults

nfsVars == <<npc, cmd, inode, exportId, out, store, ganesha, hup, loaded, commands>>
vars == <<mnt, faults, nfsVars>>

NoCmd == [op |-> "none", path |-> "none"]
NoId == [id |-> 0, after |-> {}]
Cmds == [op : {"add", "remove"}, path : Path]

Init ==
  /\ mnt \in [Mountpoint -> Volume]
  /\ npc = [o \in Operator |-> "idle"]
  /\ cmd = [o \in Operator |-> NoCmd]
  /\ inode = [o \in Operator |-> NoInode]
  /\ exportId = [o \in Operator |-> NoId]
  /\ out = [o \in Operator |-> "none"]
  /\ store = {}
  /\ ganesha = 1
  /\ hup = FALSE
  /\ loaded = {}
  /\ commands = 0 /\ faults = 0

(***************************************************************************)
(* The shell commands                                                      *)
(***************************************************************************)

\* `ls -di path`: the inode, or an error where the path is not there or stale.
GetInodeId(p) ==
  LET v == mnt[Below[p]]
  IN  IF v = Stale THEN NoInode ELSE InodeIn[v][p]

\* <inode>-<base>.conf
GenerateFileName(i, p) == <<i, Base[p]>>

\* `grep "Path.*=.*p"`: the path is found inside longer ones as well.
CheckPathIsExported(p) ==
  \E f \in store : f.path = p \/ <<p, f.path>> \in Within

\* One more than the largest Export_Id of the store.  A grep that fails with
\* anything but "no match" reads as an empty answer: 1.
GenetateExportIdMax == Max({f.id : f \in store} \cup {1})
GenetateExportId == Max({f.id : f \in store} \cup {0}) + 1

Begins(o, c) ==
  /\ npc[o] = "idle"
  /\ commands < MaxCommands
  /\ commands' = commands + 1
  /\ cmd' = [cmd EXCEPT ![o] = c]
  /\ out' = [out EXCEPT ![o] = "none"]
  /\ npc' = [npc EXCEPT ![o] = IF c.op = "add" THEN "check" ELSE "inode"]
  /\ UNCHANGED <<inode, exportId, store, ganesha, hup, loaded, faults>>

At(o, l) == npc[o] = l
Goto(o, l) == npc' = [npc EXCEPT ![o] = l] /\ UNCHANGED <<cmd, out, commands>>

Ends(o, r) ==
  /\ npc' = [npc EXCEPT ![o] = "idle"]
  /\ out' = [out EXCEPT ![o] = r]
  /\ inode' = [inode EXCEPT ![o] = NoInode]
  /\ exportId' = [exportId EXCEPT ![o] = NoId]
  /\ cmd' = [cmd EXCEPT ![o] = NoCmd]
  /\ UNCHANGED commands

\* A shell command fails or times out, a temporary file cannot be written, or the
\* text of --conf is refused: the command returns the error and leaves what it did.
CanFail == {"check", "inode", "save", "rm", "pid", "kill"}
Fails(o) ==
  /\ npc[o] \in CanFail
  /\ faults < MaxFaults
  /\ faults' = faults + 1
  /\ Ends(o, "error")
  /\ UNCHANGED <<store, ganesha, hup, loaded>>

\* Steps 1 and 2 of runAdd: GenerateExportStoragePath, which leaves nothing else
\* changed, and the check; a grep that fails counts as "not exported".
CheckExported(o) ==
  /\ At(o, "check")
  /\ \/ CheckPathIsExported(cmd[o].path) /\ Ends(o, "error") /\ faults' = faults
     \/ /\ ~CheckPathIsExported(cmd[o].path) /\ faults' = faults
        /\ Goto(o, "inode") /\ UNCHANGED <<inode, exportId>>
     \/ /\ CheckPathIsExported(cmd[o].path) /\ faults < MaxFaults /\ faults' = faults + 1
        /\ Goto(o, "inode") /\ UNCHANGED <<inode, exportId>>
  /\ UNCHANGED <<store, ganesha, hup, loaded>>

Inode(o) ==
  /\ At(o, "inode")
  /\ IF GetInodeId(cmd[o].path) = NoInode
       THEN Ends(o, "error")
       ELSE /\ inode' = [inode EXCEPT ![o] = GetInodeId(cmd[o].path)]
            /\ Goto(o, IF cmd[o].op = "add" THEN "id" ELSE "rm")
            /\ exportId' = exportId
  /\ UNCHANGED <<store, ganesha, hup, loaded, faults>>

ExportId(o) ==
  /\ At(o, "id")
  /\ \/ /\ exportId' = [exportId EXCEPT ![o] =
             [id |-> GenetateExportId, after |-> {<<f.name, f.id>> : f \in store}]]
        /\ faults' = faults
     \/ /\ faults < MaxFaults /\ faults' = faults + 1
        /\ exportId' = [exportId EXCEPT ![o] = [id |-> 1, after |-> {}]]
  /\ Goto(o, "save")
  /\ UNCHANGED <<inode, store, ganesha, hup, loaded>>

\* SaveToLocal: the file is renamed over one of the same name, whatever its path.
SaveToLocal(o) ==
  LET n == GenerateFileName(inode[o], cmd[o].path)
  IN  {f \in store : f.name # n}
        \cup {[name |-> n, path |-> cmd[o].path, id |-> exportId[o].id,
               after |-> exportId[o].after]}

Save(o) ==
  /\ At(o, "save")
  /\ store' = SaveToLocal(o)
  /\ Goto(o, "pid")
  /\ UNCHANGED <<inode, exportId, ganesha, hup, loaded, faults>>

\* `rm -f`: a file that is not there is no error.
RemoveFileOfBase(o) == {f \in store : f.name[2] # Base[cmd[o].path]}
RemoveFile(o) ==
  {f \in store : f.name # GenerateFileName(inode[o], cmd[o].path)}

RemoveExport(o) ==
  /\ At(o, "rm")
  /\ store' = RemoveFile(o)
  /\ Goto(o, "pid")
  /\ UNCHANGED <<inode, exportId, ganesha, hup, loaded, faults>>

\* GetGaneshaPID: pgrep fails without a process; the digits of two processes'
\* pids are read as one number, which is too large or the pid of something else.
Pid(o) ==
  /\ At(o, "pid")
  /\ \/ ganesha > 0 /\ Goto(o, "kill") /\ UNCHANGED <<inode, exportId>>
     \/ ganesha # 1 /\ Ends(o, "error")
  /\ UNCHANGED <<store, ganesha, hup, loaded, faults>>

\* NotifyGaneshaReLoadConfig: the pid may be gone by now, or be another process's.
NotifyGaneshaReLoadConfigLost(o) == hup
NotifyGaneshaReLoadConfig(o) == TRUE
Kill(o) ==
  /\ At(o, "kill")
  /\ \/ ganesha = 1 /\ hup' = NotifyGaneshaReLoadConfig(o) /\ Ends(o, "ok")
     \/ ganesha # 1 /\ hup' = hup /\ \E r \in {"ok", "error"} : Ends(o, r)
  /\ UNCHANGED <<store, ganesha, loaded, faults>>

(***************************************************************************)
(* nfs-ganesha (external)                                                  *)
(***************************************************************************)

\* The exports that share neither their Export_Id nor their path with another.
Unshared(s) == {f \in s : \A g \in s \ {f} : g.id # f.id /\ g.path # f.path}

\* What it serves of the files s: an Export_Id must be unique, so of those that
\* share it one at most, and of those that share their path some.
Loads(s) ==
  {l \in SUBSET s : /\ Unshared(s) \subseteq l
                    /\ \A f, g \in l : f.id = g.id => f = g}

Reload ==
  /\ hup
  /\ hup' = FALSE
  /\ loaded' \in Loads(store)
  /\ UNCHANGED <<npc, cmd, inode, exportId, out, store, ganesha, commands, faults>>

\* It is stopped or started, and reads the store when it starts.
GaneshaRestarts(n) ==
  /\ faults < MaxFaults
  /\ n # ganesha
  /\ faults' = faults + 1
  /\ ganesha' = n
  /\ hup' = FALSE
  /\ loaded' \in IF n = 0 THEN {{}} ELSE Loads(store)
  /\ UNCHANGED <<npc, cmd, inode, exportId, out, store, commands>>

NfsStep(o) ==
  \/ CheckExported(o) \/ Inode(o) \/ ExportId(o) \/ Save(o)
  \/ RemoveExport(o) \/ Pid(o) \/ Kill(o)

NfsNext ==
  \/ \E o \in Operator : NfsStep(o) \/ Fails(o) \/ \E c \in Cmds : Begins(o, c)
  \/ Reload
  \/ \E n \in 0..2 : GaneshaRestarts(n)

\* A file system is mounted, unmounted, or loses its client.
MountChanges(m) ==
  /\ \/ /\ mnt[m] = Local /\ faults' = faults
        /\ \E v \in Volume \ {Local} : mnt' = [mnt EXCEPT ![m] = v]
     \/ /\ mnt[m] \in Volume \ {Local} /\ mnt' = [mnt EXCEPT ![m] = Stale]
        /\ faults < MaxFaults /\ faults' = faults + 1
     \/ mnt[m] # Local /\ mnt' = [mnt EXCEPT ![m] = Local] /\ faults' = faults
  /\ UNCHANGED nfsVars

Next == (NfsNext /\ UNCHANGED mnt) \/ \E m \in Mountpoint : MountChanges(m)

\* The commands run on, and nfs-ganesha acts on a signal.
Spec ==
  /\ Init /\ [][Next]_vars
  /\ \A o \in Operator : WF_vars(NfsStep(o) /\ UNCHANGED mnt)
  /\ WF_vars(Reload /\ UNCHANGED mnt)

(***************************************************************************)
(* Properties                                                              *)
(***************************************************************************)

\* Two exports share an Export_Id only if neither was there when the id of the
\* other was chosen: nfs.go:84 wants every id to be unique, and only commands that
\* overlap, or a grep that failed, break that.
IdsApart ==
  \A f, g \in store :
    (f # g /\ f.id = g.id) => <<f.name, f.id>> \notin g.after

\* The inodes a path may have, as file systems come and go above it.
Inodes(p) == {InodeIn[v][p] : v \in Volume} \ {NoInode}

\* Paths whose export files may have the same name.
Collide(p, q) == Base[p] = Base[q] /\ Inodes(p) \cap Inodes(q) # {}

\* An export leaves the store only by a command for its own path, or for one whose
\* last element is the same and which has, in some file system, the inode the
\* other has in one (as two mounted roots have: nfs.go:55-57), and only while that
\* is the inode the command found.  No command takes the export of any other path,
\* or one made when another file system was there, however the mounts change
\* between the steps.
ExportsKept ==
  [][\A f \in store \ store' :
       \E q \in Operator :
         /\ npc[q] \in {"rm", "save"} /\ npc'[q] = "pid" /\ inode[q] = f.name[1]
         /\ inode[q] \in Inodes(cmd[q].path) /\ Collide(cmd[q].path, f.path)]_vars

\* Once a command has been told that its signal was sent, nfs-ganesha serves what
\* the store holds: no export that is gone, and every one that shares its Export_Id
\* and its path with no other, the ones included that were left behind by commands
\* whose own signal failed; unless nfs-ganesha is stopped or started first.
StoreServed ==
  \A o \in Operator :
    npc[o] = "kill" ~>
      \/ Unshared(store) \subseteq loaded /\ loaded \subseteq store
      \/ out[o] = "error" \/ ganesha # 1

=============================================================================
