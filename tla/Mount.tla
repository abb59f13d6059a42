-------------------------------- MODULE Mount --------------------------------
(***************************************************************************)
(* The commands that run a DingoFS binary on this machine: `fs mount`,     *)
(* `mds start`, `mds meta` and `cache start`, and `fs umount`, which takes *)
(* a mount away.  They start the binary as a child and either wait for it  *)
(* or let it go to the background; a daemonized mount watches for the file *)
(* .stats at the mountpoint with a goroutine of its own.                   *)
(*                                                                         *)
(* The child and the kernel's mount table are external: a child may come   *)
(* up, fail, crash and, after an unmount, exit at any time.                *)
(***************************************************************************)
EXTENDS Integers, FiniteSets

CONSTANTS
  Mounter,      \* the terminals that run mount and start commands
  Dir,          \* the paths given as mountpoints
  Odd,          \* the ones where .stats is not "not exist" though nothing is mounted:
                \* a plain file, a directory that may not be searched, a file .stats in it
  Kinds         \* the binaries: dingo-client, dingo-mds, dingo-cache, dingo-mds-client

VARIABLES
  pc,         \* where the command of a mounter is
  run,        \* what it was asked for: the binary, the mountpoint, the mode
  child,      \* its child process
  res,        \* what the last command returned
  served,     \* who serves a mountpoint, or Nobody, or Gone
  busy,       \* mountpoints that are some process's working directory
  own,        \* history: the commands whose own client has come up
  alone       \* history: the mounts that began where nothing was, with no rival since

mountVars == <<pc, run, child, res, served, busy, own, alone>>

Nobody == "unmounted"
Gone == "stale"             \* mounted, and its client is gone: ENOTCONN
ASSUME MountAssumption == Odd \subseteq Dir /\ {Nobody, Gone} \cap Mounter = {}

Modes == {"help", "few", "foreground", "daemonize"}
NoRun == [kind |-> "none", at |-> "none", mode |-> "help"]
Runs == [kind : Kinds, at : Dir, mode : Modes]
Alive == {"starting", "serving"}

MountInit ==
  /\ pc = [p \in Mounter |-> "idle"]
  /\ run = [p \in Mounter |-> NoRun]
  /\ child = [p \in Mounter |-> "none"]
  /\ res = [p \in Mounter |-> "none"]
  /\ served = [m \in Dir |-> Nobody]
  /\ busy = {}
  /\ own = {}
  /\ alone = {}

(***************************************************************************)
(* mount, mds start, cache start                                           *)
(***************************************************************************)

\* `mds meta` waits for dingo-mds-client; it has no daemonized form.
MetaModes == {"help", "foreground"}

\* The command asks the component manager for the active version of the binary,
\* and installs the latest one if there is none (module Component).  --help
\* prints the binary's help; a mount needs two arguments.
Begin(p, r) ==
  /\ pc[p] = "idle"
  /\ child[p] \notin Alive
  /\ r.mode = "few" => r.kind = "dingo-client"
  /\ r.kind = "dingo-mds-client" => r.mode \in MetaModes
  /\ run' = [run EXCEPT ![p] = r]
  /\ child' = [child EXCEPT ![p] = "none"]
  /\ res' = [res EXCEPT ![p] = "none"]
  /\ pc' = [pc EXCEPT ![p] = "binary"]
  /\ UNCHANGED <<served, busy>>

Returns(p, out) ==
  /\ pc' = [pc EXCEPT ![p] = "idle"]
  /\ res' = [res EXCEPT ![p] = out]

\* runCommandHelp: the binary is run with --help; an error counts only if it
\* printed nothing.
RunCommandHelp(p) ==
  /\ pc[p] = "binary" /\ run[p].mode = "help"
  /\ \E out \in {"ok", "error"} : Returns(p, out)
  /\ UNCHANGED <<run, child, served, busy>>

\* No binary and none could be installed, too few arguments, no file, no
\* execute permission to be had, or the process could not be started.
NotStarted(p) ==
  /\ pc[p] = "binary" /\ run[p].mode # "help"
  /\ Returns(p, "error")
  /\ UNCHANGED <<run, child, served, busy>>

\* Where a started command goes on: Wait in the foreground; the two-second sleep
\* of a daemonized service; the goroutine of a daemonized mount.
AfterStart(r) ==
  CASE r.mode = "foreground" -> "wait"
    [] r.mode = "daemonize" /\ r.kind = "dingo-client" -> "poll"
    [] r.mode = "daemonize" /\ r.kind # "dingo-client" -> "sleep"

Start(p) ==
  /\ pc[p] = "binary" /\ run[p].mode \notin {"help", "few"}
  /\ child' = [child EXCEPT ![p] = "starting"]
  /\ pc' = [pc EXCEPT ![p] = AfterStart(run[p])]
  /\ UNCHANGED <<run, res, served, busy>>

\* oscmd.Wait in the foreground.
Wait(p) ==
  /\ pc[p] = "wait"
  /\ child[p] \notin Alive
  /\ Returns(p, IF child[p] = "exited" THEN "ok" ELSE "error")
  /\ UNCHANGED <<run, child, served, busy>>

\* runStart daemonized: two seconds later success is printed, whatever the child
\* did in the meantime.
SleepOver(p) ==
  /\ pc[p] = "sleep"
  /\ Returns(p, "ok")
  /\ UNCHANGED <<run, child, served, busy>>

\* os.Stat of .stats at the mountpoint: any error but "not exist" counts as there,
\* ENOTCONN of a stale mount and what an odd path answers included.
StatSeenNoError(p) == served[run[p].at] \in Mounter
StatSeenOfMountpoint(p) == TRUE
StatSeen(p) == served[run[p].at] # Nobody \/ run[p].at \in Odd

\* A tick of the goroutine.  The select over the send on isReady (there is room in
\* the channel), a fresh two-minute timer and a default has one ready case: the
\* send.  The timer is made anew in every select, so isTimeout is never sent.
Tick(p) ==
  /\ pc[p] = "poll"
  /\ StatSeen(p)
  /\ pc' = [pc EXCEPT ![p] = "ready"]
  /\ UNCHANGED <<run, child, res, served, busy>>

\* The command receives from isReady and prints success.
Report(p) ==
  /\ pc[p] = "ready"
  /\ Returns(p, "ok")
  /\ UNCHANGED <<run, child, served, busy>>

(***************************************************************************)
(* The child (external)                                                    *)
(***************************************************************************)

Mounts(p) == run[p].kind = "dingo-client"

ChildServes(p) ==
  /\ child[p] = "starting"
  /\ child' = [child EXCEPT ![p] = "serving"]
  /\ IF Mounts(p)
       THEN served[run[p].at] = Nobody /\ served' = [served EXCEPT ![run[p].at] = p]
       ELSE served' = served
  /\ UNCHANGED <<pc, run, res, busy>>

ChildFails(p) ==
  /\ child[p] = "starting"
  /\ child' = [child EXCEPT ![p] = "failed"]
  /\ UNCHANGED <<pc, run, res, served, busy>>

ChildCrashes(p) ==
  /\ child[p] = "serving"
  /\ child' = [child EXCEPT ![p] = "failed"]
  /\ served' = [m \in Dir |-> IF served[m] = p THEN Gone ELSE served[m]]
  /\ UNCHANGED <<pc, run, res, busy>>

\* A client ends when it is unmounted, a service when it is stopped.
ChildExits(p) ==
  /\ child[p] = "serving"
  /\ \A m \in Dir : served[m] # p
  /\ child' = [child EXCEPT ![p] = "exited"]
  /\ UNCHANGED <<pc, run, res, served, busy>>

\* Some process enters or leaves a mounted directory.
Use(m) ==
  /\ served[m] \in Mounter
  /\ busy' = IF m \in busy THEN busy \ {m} ELSE busy \cup {m}
  /\ UNCHANGED <<pc, run, child, res, served>>

(***************************************************************************)
(* umount                                                                  *)
(***************************************************************************)

\* syscall.Unmount (external): EINVAL where nothing is mounted, EPERM without
\* privileges, EBUSY unless the unmount is lazy.
Unmount(m, flags, root) ==
  CASE served[m] = Nobody -> "EINVAL"
    [] served[m] # Nobody /\ ~root -> "EPERM"
    [] served[m] # Nobody /\ root /\ m \in busy /\ flags # "lazy" -> "EBUSY"
    [] OTHER -> "ok"

\* fusermount3 -u (external): the way out without privileges.
Fusermount(m) == IF served[m] # Nobody /\ m \notin busy THEN "ok" ELSE "error"

\* runUmuont: what becomes of a umount with these options.
RunUmount(m, flags, root) ==
  LET err == Unmount(m, flags, root)
  IN  CASE flags = "both" -> "error"
        [] flags # "both" /\ err = "EPERM" -> Fusermount(m)
        [] flags # "both" /\ err = "ok" -> "ok"
        [] OTHER -> "error"

Umount(m, flags, root) ==
  /\ served' = IF RunUmount(m, flags, root) = "ok" THEN [served EXCEPT ![m] = Nobody] ELSE served
  /\ busy' = IF RunUmount(m, flags, root) = "ok" THEN busy \ {m} ELSE busy
  /\ UNCHANGED <<pc, run, child, res>>

CommandStep(p) ==
  \/ RunCommandHelp(p) \/ NotStarted(p) \/ Start(p) \/ Wait(p)
  \/ SleepOver(p) \/ Tick(p) \/ Report(p)

ChildStep(p) == ChildServes(p) \/ ChildFails(p) \/ ChildCrashes(p) \/ ChildExits(p)

UmountAny ==
  \E m \in Dir, flags \in {"none", "lazy", "force", "both"}, root \in BOOLEAN :
    Umount(m, flags, root)

Step ==
  \/ \E p \in Mounter : CommandStep(p) \/ ChildStep(p) \/ \E r \in Runs : Begin(p, r)
  \/ \E m \in Dir : Use(m)
  \/ UmountAny

NextOwn == {p \in Mounter : child'[p] = "serving" \/ (p \in own /\ pc'[p] # "binary")}

\* The mounts whose client is started now, and those at the mountpoint of p that
\* may still come up.
Started == {p \in Mounter : Mounts(p) /\ child[p] = "none" /\ child'[p] = "starting"}
Rivals(p) ==
  {q \in Mounter \ {p} : Mounts(q) /\ child[q] = "starting" /\ run[q].at = run[p].at}

NextAlone ==
  {p \in Started : served[run[p].at] = Nobody /\ run[p].at \notin Odd /\ Rivals(p) = {}}
    \cup {p \in alone : pc'[p] # "binary" /\ \A q \in Started : run[q].at # run[p].at}

MountNext == Step /\ own' = NextOwn /\ alone' = NextAlone

\* The goroutines of a command run; nothing is assumed of the child.
MountSpec ==
  /\ MountInit /\ [][MountNext]_mountVars
  /\ \A p \in Mounter : WF_mountVars(CommandStep(p) /\ own' = NextOwn /\ alone' = NextAlone)

(***************************************************************************)
(* Properties                                                              *)
(***************************************************************************)

\* A daemonized mount that began at a path where nothing was mounted, with no rival
\* that may still come up there, and none started there since, reports success only
\* if its own client came up, whatever crashes and unmounts happen.  (With a rival,
\* a stale mount or an odd path, mount.go:154 takes what it finds for its own.)
SuccessIsOwn ==
  \A p \in alone :
    (pc[p] = "idle" /\ res[p] = "ok" /\ run[p].mode = "daemonize") => p \in own

\* A daemonized mount whose mountpoint is served, or is an odd path, from some time
\* on returns: the goroutine sees the file and the command is told.  (Elsewhere it
\* polls for ever: the two-minute timeout of mount.go:155 is never taken.)
MountReturns ==
  \A p \in Mounter :
    <>[](run[p] \in Runs /\ (served[run[p].at] # Nobody \/ run[p].at \in Odd))
      => []<>(pc[p] \notin {"poll", "ready"})

=============================================================================
