----------------------------- MODULE HostProofs -----------------------------
(***************************************************************************)
(* Proofs about the commands that work on this machine: Nfs, for any       *)
(* number of operators, paths, mountpoints, file systems, commands and     *)
(* faults, and whichever paths are parts of others or share a last element *)
(* or an inode; Mount, for any number of terminals, mountpoints, odd ones  *)
(* among them, and binaries; and Monitor, for any files, ports, commands   *)
(* and faults.                                                             *)
(*                                                                         *)
(* The inductive invariant of Nfs says of every export in the store, and   *)
(* of every Export_Id an operator holds and has not saved yet, that the id *)
(* is larger than those of the exports it was chosen after.  That rests on *)
(* GenetateExportId being above all ids of the store, and so on the store  *)
(* having a largest id: the ids are bounded.  It also says that a running  *)
(* command holds an inode its path has in some file system, and that every *)
(* file is named after such an inode and the last element of its path.     *)
(*                                                                         *)
(* The one of Mount says of a mount that began alone and whose client has  *)
(* not come up that nothing is mounted there and that it still waits.      *)
(*                                                                         *)
(* The one of Monitor says what a deploy has brought about when k of its   *)
(* eight steps are left, and what more it has if it found no container.    *)
(***************************************************************************)
EXTENDS Nfs, Mount, Monitor, SequenceTheorems, WellFoundedInduction, TLAPS

(***************************************************************************)
(* Nfs                                                                     *)
(***************************************************************************)

\* The names of export files, and the pairs of a name and an Export_Id that the
\* choice of an id looks at.
FileNames == Nat \X {Base[p] : p \in Path}
ChosenAfter == FileNames \X Nat

Ids == [id : Nat, after : SUBSET ChosenAfter]
Exports == [name : FileNames, path : Path, id : Nat, after : SUBSET ChosenAfter]

Labels == {"idle", "check", "inode", "id", "save", "rm", "pid", "kill"}

TypeOK ==
  /\ mnt \in [Mountpoint -> Volume \cup {Stale}]
  /\ npc \in [Operator -> Labels]
  /\ cmd \in [Operator -> Cmds \cup {NoCmd}]
  /\ inode \in [Operator -> Nat]
  /\ exportId \in [Operator -> Ids]
  /\ store \subseteq Exports

\* A command that runs has a path.
Given == \A o \in Operator : npc[o] # "idle" => cmd[o] \in Cmds

\* From the lookup on it holds an inode its path has in some file system.
Holding == {"id", "save", "rm"}
LookedUp == \A o \in Operator : npc[o] \in Holding => inode[o] \in Inodes(cmd[o].path)

\* An export file is named after an inode of its path and the path's last element.
Named(f) == f.name[1] \in Inodes(f.path) /\ f.name[2] = Base[f.path]

\* The ids of the store are bounded.
Bounded == \E b \in Nat : \A f \in store : f.id <= b

\* An id is above those it was chosen after.
Above(r) == \A x \in r.after : x[2] < r.id

IInv ==
  /\ TypeOK /\ Given /\ LookedUp /\ Bounded
  /\ \A f \in store : Above(f) /\ Named(f)
  /\ \A o \in Operator : Above(exportId[o])

\* Max of a bounded set of numbers is its largest element.
LEMMA MaxLemma ==
  ASSUME NEW S, S \subseteq Nat, S # {}, NEW b \in Nat, \A x \in S : x <= b
  PROVE  Max(S) \in S /\ \A x \in S : x <= Max(S)
<1> DEFINE T == {n \in Nat : \A x \in S : x <= n}
<1>1. PICK n \in T : \A m \in T : <<m, n>> \notin OpToRel(<, Nat)
  <2>1. T \subseteq Nat /\ T # {}
    OBVIOUS
  <2> HIDE DEF T
  <2>2. QED
    BY <2>1, WFMin, NatLessThanWellFounded
<1>2. \A m \in T : n <= m
  <2>1. \A i, j \in Nat : <<j, i>> \notin OpToRel(<, Nat) => i <= j
    BY DEF OpToRel
  <2>2. QED
    BY <1>1, <2>1
<1>3. n \in S
  <2>1. SUFFICES ASSUME n \notin S PROVE FALSE
    OBVIOUS
  <2>2. PICK y \in S : TRUE
    OBVIOUS
  <2>3. n \in Nat /\ y <= n /\ y # n /\ y \in Nat
    BY <2>1
  <2>4. n - 1 \in Nat /\ \A x \in S : x <= n - 1
    BY <2>1, <2>3
  <2>5. QED
    BY <1>2, <2>3, <2>4
<1>4. \E x \in S : \A y \in S : x >= y
  BY <1>3
<1>5. QED
  BY <1>4 DEF Max

\* GenetateExportId is above every id of the store.
LEMMA IdLemma ==
  ASSUME TypeOK, Bounded
  PROVE  GenetateExportId \in Nat /\ \A f \in store : f.id < GenetateExportId
<1> DEFINE S == {f.id : f \in store} \cup {0}
<1>1. PICK b \in Nat : \A f \in store : f.id <= b
  BY DEF Bounded
<1>2. \A f \in store : f.id \in Nat
  BY DEF TypeOK, Exports
<1>3. S \subseteq Nat /\ S # {} /\ \A x \in S : x <= b
  BY <1>1, <1>2
<1>4. Max(S) \in Nat /\ \A x \in S : x <= Max(S)
  <2> HIDE DEF S
  <2>1. QED
    BY <1>3, MaxLemma
<1>5. GenetateExportId = Max(S) + 1 /\ \A f \in store : f.id \in S
  BY DEF GenetateExportId
<1> HIDE DEF S
<1>6. QED
  BY <1>2, <1>4, <1>5

\* Nothing is exported at first.
LEMMA InitIInv == Init => IInv
<1> SUFFICES ASSUME Init PROVE IInv
  OBVIOUS
<1>1. TypeOK
  BY DEF Init, TypeOK, Labels, Ids, NoId, NoInode
<1>2. Given /\ LookedUp /\ Bounded
  BY DEF Init, Given, LookedUp, Holding, Bounded
<1>3. QED
  BY <1>1, <1>2 DEF Init, IInv, Above, NoId

\* A command ends: what it held is dropped.
LEMMA EndsLemma ==
  ASSUME IInv, NEW o \in Operator, NEW r, Ends(o, r), UNCHANGED <<store, mnt>>
  PROVE  IInv'
<1> USE DEF IInv
<1>1. TypeOK'
  BY DEF Ends, TypeOK, Labels, Ids, NoId, NoInode
<1>2. Given' /\ LookedUp' /\ Bounded'
  BY DEF Ends, TypeOK, Given, LookedUp, Holding, Bounded
<1>3. \A q \in Operator : Above(exportId'[q])
  BY DEF Ends, TypeOK, Above, NoId
<1>4. QED
  BY <1>1, <1>2, <1>3

\* A command goes on to another step and holds what it held.
LEMMA GotoLemma ==
  ASSUME IInv, NEW o \in Operator, NEW l \in Labels, Goto(o, l), npc[o] # "idle",
         NEW i \in Nat, inode' = [inode EXCEPT ![o] = i],
         l \in Holding => i \in Inodes(cmd[o].path), UNCHANGED <<exportId, store, mnt>>
  PROVE  IInv'
<1> USE DEF IInv
<1>1. TypeOK'
  BY DEF Goto, TypeOK
<1>2. Given' /\ Bounded'
  BY DEF Goto, TypeOK, Given, Bounded
<1>3. LookedUp'
  BY DEF Goto, TypeOK, LookedUp
<1>4. QED
  BY <1>1, <1>2, <1>3

\* An id is chosen: it is above what is in the store, or after nothing.
LEMMA ExportIdStep ==
  ASSUME IInv, NEW o \in Operator, ExportId(o), UNCHANGED mnt
  PROVE  IInv'
<1> USE DEF IInv
<1>1. /\ npc' = [npc EXCEPT ![o] = "save"] /\ npc[o] = "id"
      /\ UNCHANGED <<cmd, inode, store>>
  BY DEF ExportId, Goto, At
<1>2. PICK e \in Ids : exportId' = [exportId EXCEPT ![o] = e] /\ Above(e)
  <2>1. CASE exportId' = [exportId EXCEPT ![o] = [id |-> 1, after |-> {}]]
    <3> DEFINE e == [id |-> 1, after |-> {}]
    <3>1. e \in Ids /\ e.after = {}
      BY DEF Ids
    <3>2. Above(e)
      BY <3>1 DEF Above
    <3>3. QED
      BY <2>1, <3>1, <3>2
  <2>2. CASE exportId' = [exportId EXCEPT ![o] =
               [id |-> GenetateExportId, after |-> {<<f.name, f.id>> : f \in store}]]
    <3> DEFINE e == [id |-> GenetateExportId, after |-> {<<f.name, f.id>> : f \in store}]
    <3>1. e.id = GenetateExportId /\ e.after = {<<f.name, f.id>> : f \in store}
      OBVIOUS
    <3>2. \A f \in store : <<f.name, f.id>> \in ChosenAfter
      BY DEF TypeOK, Exports, ChosenAfter
    <3>3. e \in Ids
      BY <3>2, IdLemma DEF Ids
    <3>4. Above(e)
      BY <3>1, IdLemma DEF Above
    <3>5. QED
      BY <2>2, <3>3, <3>4
  <2>3. QED
    BY <2>1, <2>2 DEF ExportId
<1>3. TypeOK'
  BY <1>1, <1>2 DEF TypeOK, Labels
<1>4. Given' /\ LookedUp' /\ Bounded'
  BY <1>1 DEF TypeOK, Given, LookedUp, Holding, Bounded
<1>5. \A q \in Operator : Above(exportId'[q])
  BY <1>2 DEF TypeOK
<1>6. QED
  BY <1>1, <1>3, <1>4, <1>5

\* An export is saved with the id chosen for it.
LEMMA SaveStep ==
  ASSUME IInv, NEW o \in Operator, Save(o), UNCHANGED mnt
  PROVE  IInv'
<1> USE DEF IInv
<1> DEFINE g == [name |-> GenerateFileName(inode[o], cmd[o].path), path |-> cmd[o].path,
                 id |-> exportId[o].id, after |-> exportId[o].after]
<1>1. /\ npc' = [npc EXCEPT ![o] = "pid"] /\ npc[o] = "save"
      /\ UNCHANGED <<cmd, inode, exportId>>
      /\ store' \subseteq store \cup {g}
  BY DEF Save, SaveToLocal, Goto, At
<1>2. cmd[o].path \in Path
  BY <1>1 DEF Given, Cmds
<1>3. exportId[o] \in Ids /\ inode[o] \in Nat /\ inode[o] \in Inodes(cmd[o].path)
  BY <1>1 DEF TypeOK, LookedUp, Holding
<1>4. g \in Exports /\ Above(g) /\ Named(g)
  BY <1>2, <1>3 DEF Exports, FileNames, GenerateFileName, Ids, Above, Named
<1> HIDE DEF g
<1>5. TypeOK'
  BY <1>1, <1>4 DEF TypeOK, Labels
<1>6. Given' /\ LookedUp'
  BY <1>1 DEF TypeOK, Given, LookedUp, Holding
<1>7. Bounded'
  <2>1. PICK b \in Nat : \A f \in store : f.id <= b
    BY DEF Bounded
  <2>2. g.id \in Nat /\ \A f \in store : f.id \in Nat
    BY <1>4 DEF Exports, TypeOK
  <2>3. b + g.id \in Nat /\ \A f \in store' : f.id <= b + g.id
    BY <1>1, <2>1, <2>2
  <2>4. QED
    BY <2>3 DEF Bounded
<1>8. QED
  BY <1>1, <1>4, <1>5, <1>6, <1>7

\* What the other steps of a command, and its failure, do.
LEMMA StepIInv ==
  ASSUME IInv, NEW o \in Operator, NfsStep(o) \/ Fails(o), UNCHANGED mnt
  PROVE  IInv'
<1>1. CASE Fails(o)
  BY <1>1, EndsLemma DEF Fails
<1>2. inode[o] \in Nat /\ inode = [inode EXCEPT ![o] = inode[o]]
  BY DEF IInv, TypeOK
<1>3. CASE CheckExported(o)
  <2>1. CASE Ends(o, "error")
    BY <1>3, <2>1, EndsLemma DEF CheckExported
  <2>2. CASE Goto(o, "inode") /\ UNCHANGED <<inode, exportId>>
    <3>1. IInv /\ "inode" \in Labels \ Holding /\ npc[o] # "idle" /\ store' = store
      BY <1>3 DEF CheckExported, At, Labels, Holding
    <3>2. QED
      BY <1>2, <2>2, <3>1, GotoLemma
  <2>3. QED
    BY <1>3, <2>1, <2>2 DEF CheckExported
<1>4. CASE Inode(o)
  <2>1. CASE Ends(o, "error")
    BY <1>4, <2>1, EndsLemma DEF Inode
  <2>2. CASE /\ inode' = [inode EXCEPT ![o] = GetInodeId(cmd[o].path)]
             /\ Goto(o, IF cmd[o].op = "add" THEN "id" ELSE "rm")
             /\ exportId' = exportId
    <3>1. IInv /\ "id" \in Labels /\ "rm" \in Labels /\ npc[o] # "idle" /\ store' = store
      BY <1>4 DEF Inode, At, Labels
    <3>2. CASE GetInodeId(cmd[o].path) # NoInode
      <4>1. cmd[o].path \in Path
        BY <1>4 DEF Inode, At, IInv, Given, Cmds
      <4>2. mnt[Below[cmd[o].path]] \in Volume \cup {Stale}
        BY <4>1, NfsAssumption DEF IInv, TypeOK
      <4>3. GetInodeId(cmd[o].path) \in Nat \cap Inodes(cmd[o].path)
        BY <3>2, <4>1, <4>2, NfsAssumption DEF GetInodeId, Inodes
      <4>4. QED
        BY <2>2, <3>1, <4>3, GotoLemma
    <3>3. CASE GetInodeId(cmd[o].path) = NoInode
      BY <1>4, <2>1, <3>3 DEF Inode
    <3>4. QED
      BY <3>2, <3>3
  <2>3. QED
    BY <1>4, <2>1, <2>2 DEF Inode
<1>5. CASE ExportId(o)
  BY <1>5, ExportIdStep
<1>6. CASE Save(o)
  BY <1>6, SaveStep
<1>7. CASE RemoveExport(o)
  <2>1. /\ npc' = [npc EXCEPT ![o] = "pid"] /\ npc[o] = "rm"
        /\ UNCHANGED <<cmd, inode, exportId>>
        /\ store' \subseteq store
    BY <1>7 DEF RemoveExport, RemoveFile, Goto, At
  <2>2. TypeOK' /\ Given' /\ LookedUp'
    BY <2>1 DEF IInv, TypeOK, Given, LookedUp, Holding, Labels
  <2>3. Bounded'
    BY <2>1 DEF IInv, Bounded
  <2>4. QED
    BY <2>1, <2>2, <2>3 DEF IInv
<1>8. CASE Pid(o)
  <2>1. CASE Ends(o, "error")
    BY <1>8, <2>1, EndsLemma DEF Pid
  <2>2. CASE Goto(o, "kill") /\ UNCHANGED <<inode, exportId>>
    <3>1. IInv /\ "kill" \in Labels \ Holding /\ npc[o] # "idle" /\ store' = store
      BY <1>8 DEF Pid, At, Labels, Holding
    <3>2. QED
      BY <1>2, <2>2, <3>1, GotoLemma
  <2>3. QED
    BY <1>8, <2>1, <2>2 DEF Pid
<1>9. CASE Kill(o)
  BY <1>9, EndsLemma DEF Kill
<1>10. QED
  BY <1>1, <1>3, <1>4, <1>5, <1>6, <1>7, <1>8, <1>9 DEF NfsStep

\* A command begins with the path it was given.
LEMMA BeginsStep ==
  ASSUME IInv, NEW o \in Operator, NEW c \in Cmds, Begins(o, c), UNCHANGED mnt
  PROVE  IInv'
<1> USE DEF IInv
<1>1. TypeOK'
  BY DEF Begins, TypeOK, Labels
<1>2. Given' /\ LookedUp' /\ Bounded'
  BY DEF Begins, TypeOK, Given, LookedUp, Holding, Bounded
<1>3. QED
  BY <1>1, <1>2 DEF Begins

\* Every step keeps the invariant.
LEMMA NextIInv == IInv /\ [Next]_vars => IInv'
<1> SUFFICES ASSUME IInv, [Next]_vars PROVE IInv'
  OBVIOUS
<1>1. CASE UNCHANGED <<npc, cmd, inode, exportId, store>> /\ mnt' \in [Mountpoint -> Volume \cup {Stale}]
  <2>1. TypeOK' /\ Given' /\ LookedUp' /\ Bounded'
    BY <1>1 DEF IInv, TypeOK, Given, LookedUp, Bounded
  <2>2. QED
    BY <1>1, <2>1 DEF IInv
<1>2. CASE NfsNext /\ UNCHANGED mnt
  <2>1. mnt' \in [Mountpoint -> Volume \cup {Stale}]
    BY <1>2 DEF IInv, TypeOK
  <2>2. QED
    BY <1>1, <1>2, <2>1, StepIInv, BeginsStep DEF NfsNext, Reload, GaneshaRestarts
<1>3. CASE \E m \in Mountpoint : MountChanges(m)
  <2>1. mnt' \in [Mountpoint -> Volume \cup {Stale}]
    BY <1>3, NfsAssumption DEF IInv, TypeOK, MountChanges
  <2>2. QED
    BY <1>1, <1>3, <2>1 DEF MountChanges, nfsVars
<1>4. CASE UNCHANGED vars
  <2>1. mnt' \in [Mountpoint -> Volume \cup {Stale}]
    BY <1>4 DEF IInv, TypeOK, vars
  <2>2. QED
    BY <1>1, <1>4, <2>1 DEF vars, nfsVars
<1>5. QED
  BY <1>2, <1>3, <1>4 DEF Next

\* IInv always holds.
LEMMA Invariance == Spec => []IInv
BY InitIInv, NextIInv, PTL DEF Spec

\* However the commands of the operators interleave and fail, two exports share an
\* Export_Id only if neither was there when the id of the other was chosen by
\* GenetateExportId.
THEOREM IdsAreApart == Spec => []IdsApart
<1>1. IInv => IdsApart
  <2> SUFFICES ASSUME IInv, NEW f \in store, NEW g \in store, f.id = g.id,
                      <<f.name, f.id>> \in g.after
               PROVE  FALSE
    BY DEF IdsApart
  <2>1. f.id < g.id
    BY DEF IInv, Above
  <2>2. f.id \in Nat /\ g.id \in Nat
    BY DEF IInv, TypeOK, Exports
  <2>3. QED
    BY <2>1, <2>2
<1>2. QED
  BY <1>1, Invariance, PTL

\* An export leaves the store only by a command for its own path, or for one with
\* the same last element and, in some file system, the same inode, and which found
\* that inode; for any file systems and however they come and go.
THEOREM ExportsAreKept == Spec => ExportsKept
<1> DEFINE Takes(q, f) ==
      /\ npc[q] \in {"rm", "save"} /\ npc'[q] = "pid" /\ inode[q] = f.name[1]
      /\ inode[q] \in Inodes(cmd[q].path) /\ Collide(cmd[q].path, f.path)
<1>1. IInv /\ [Next]_vars => \A f \in store \ store' : \E q \in Operator : Takes(q, f)
  <2> SUFFICES ASSUME IInv, [Next]_vars, NEW f \in store \ store'
               PROVE  \E q \in Operator : Takes(q, f)
    OBVIOUS
  <2>1. PICK q \in Operator : Save(q) \/ RemoveExport(q)
    BY DEF Next, vars, nfsVars, NfsNext, NfsStep, Fails, Begins, Reload, GaneshaRestarts, MountChanges,
           CheckExported, Inode, ExportId, Pid, Kill
  <2>2. f.name = <<inode[q], Base[cmd[q].path]>>
    BY <2>1 DEF Save, SaveToLocal, RemoveExport, RemoveFile, GenerateFileName
  <2>3. npc[q] \in {"rm", "save"} /\ npc' = [npc EXCEPT ![q] = "pid"]
    BY <2>1 DEF Save, RemoveExport, At, Goto
  <2>4. npc'[q] = "pid" /\ inode[q] \in Inodes(cmd[q].path) /\ Named(f)
    BY <2>3 DEF IInv, TypeOK, LookedUp, Holding
  <2>5. Collide(cmd[q].path, f.path) /\ inode[q] = f.name[1]
    BY <2>2, <2>4 DEF Collide, Named
  <2>6. QED
    BY <2>3, <2>4, <2>5
<1>2. QED
  BY <1>1, Invariance, PTL DEF Spec, ExportsKept

(***************************************************************************)
(* Mount                                                                   *)
(***************************************************************************)

MountTypeOK ==
  /\ pc \in [Mounter -> {"idle", "binary", "wait", "sleep", "poll", "ready"}]
  /\ run \in [Mounter -> Runs \cup {NoRun}]
  /\ child \in [Mounter -> {"none", "starting", "serving", "failed", "exited"}]
  /\ served \in [Dir -> Mounter \cup {Nobody, Gone}]
  /\ alone \subseteq Mounter

\* A command that has not started its client was asked for something.
BinaryInv == \A p \in Mounter : pc[p] = "binary" => run[p] \in Runs /\ child[p] = "none"

\* A mount without rivals whose client has not come up: nothing is at its
\* mountpoint, nobody else may come up there, and a daemonized one still polls.
Waiting(p) ==
  /\ run[p] \in Runs /\ pc[p] # "binary"
  /\ served[run[p].at] = Nobody /\ run[p].at \notin Odd
  /\ Rivals(p) = {}
  /\ run[p].mode = "daemonize" => pc[p] = "poll"

MountInv == MountTypeOK /\ BinaryInv /\ \A p \in alone : p \in own \/ Waiting(p)

\* No command has begun at first.
LEMMA InitMountInv == MountInit => MountInv
BY DEF MountInit, MountInv, MountTypeOK, BinaryInv

\* What a step may do to the command and the client of q.
Effects(q) ==
  /\ child'[q] = "starting" =>
       run'[q] = run[q] /\ (child[q] = "starting" \/ (child[q] = "none" /\ Start(q)))
  /\ pc'[q] # "binary" => run'[q] = run[q]
  /\ pc[q] = "poll" => pc'[q] = "poll" \/ StatSeen(q)
  /\ pc'[q] = "binary" => run'[q] \in Runs /\ child'[q] = "none"

\* A command begins or goes on.
LEMMA CommandEffects ==
  ASSUME MountInv, NEW p \in Mounter, CommandStep(p) \/ (\E r \in Runs : Begin(p, r))
  PROVE  /\ \A q \in Mounter : Effects(q)
         /\ pc' \in [Mounter -> {"idle", "binary", "wait", "sleep", "poll", "ready"}]
         /\ run' \in [Mounter -> Runs \cup {NoRun}]
         /\ child' \in [Mounter -> {"none", "starting", "serving", "failed", "exited"}]
         /\ served' = served
<1> USE DEF MountInv, MountTypeOK, BinaryInv
<1>1. CASE \E r \in Runs : Begin(p, r)
  BY <1>1 DEF Begin, Effects
<1>2. CASE RunCommandHelp(p) \/ NotStarted(p) \/ Wait(p) \/ SleepOver(p)
  BY <1>2 DEF RunCommandHelp, NotStarted, Wait, SleepOver, Returns, Effects
<1>3. CASE Start(p)
  <2>1. run[p] \in Runs /\ run[p].mode \in {"foreground", "daemonize"} /\ child[p] = "none"
    BY <1>3 DEF Start, Runs, Modes
  <2>2. AfterStart(run[p]) \in {"wait", "poll", "sleep"}
    BY <2>1 DEF AfterStart
  <2>3. /\ child' = [child EXCEPT ![p] = "starting"] /\ pc' = [pc EXCEPT ![p] = AfterStart(run[p])]
        /\ run' = run /\ served' = served /\ pc[p] = "binary"
    BY <1>3 DEF Start
  <2>4. ASSUME NEW q \in Mounter PROVE Effects(q)
    <3>1. CASE q = p
      BY <1>3, <2>1, <2>2, <2>3, <3>1 DEF Effects
    <3>2. CASE q # p
      BY <2>3, <3>2 DEF Effects
    <3>3. QED
      BY <3>1, <3>2
  <2>5. QED
    BY <2>2, <2>3, <2>4
<1>4. CASE Tick(p)
  BY <1>4 DEF Tick, Effects
<1>5. CASE Report(p)
  BY <1>5 DEF Report, Returns, Effects
<1>6. QED
  BY <1>1, <1>2, <1>3, <1>4, <1>5 DEF CommandStep

\* A client comes up, fails, crashes or exits: commands do not notice.
LEMMA ChildEffects ==
  ASSUME MountInv, NEW p \in Mounter, ChildStep(p)
  PROVE  /\ \A q \in Mounter : Effects(q)
         /\ pc' = pc /\ run' = run
         /\ child' \in [Mounter -> {"none", "starting", "serving", "failed", "exited"}]
         /\ served' \in [Dir -> Mounter \cup {Nobody, Gone}]
<1> USE DEF MountInv, MountTypeOK, BinaryInv
<1>1. /\ pc' = pc /\ run' = run /\ child[p] \in {"starting", "serving"}
      /\ \E c \in {"serving", "failed", "exited"} : child' = [child EXCEPT ![p] = c]
  BY DEF ChildStep, ChildServes, ChildFails, ChildCrashes, ChildExits
<1>2. \A q \in Mounter : Effects(q)
  BY <1>1 DEF Effects
<1>3. served' \in [Dir -> Mounter \cup {Nobody, Gone}]
  BY DEF ChildStep, ChildServes, ChildFails, ChildCrashes, ChildExits
<1>4. QED
  BY <1>1, <1>2, <1>3

\* What is mounted where nothing was is the client of a mount that was starting.
LEMMA ServedEffects ==
  ASSUME MountInv, Step, NEW m \in Dir, served[m] = Nobody, served'[m] # Nobody
  PROVE  \E q \in Mounter : /\ child[q] = "starting" /\ child'[q] = "serving"
                            /\ Mounts(q) /\ run[q].at = m
<1> USE DEF MountInv, MountTypeOK
<1>1. CASE \E p \in Mounter : ChildServes(p)
  BY <1>1 DEF ChildServes
<1>2. CASE \E p \in Mounter : ChildFails(p) \/ ChildCrashes(p) \/ ChildExits(p)
  BY <1>2, MountAssumption DEF ChildFails, ChildCrashes, ChildExits
<1>3. CASE \E p \in Mounter : CommandStep(p) \/ \E r \in Runs : Begin(p, r)
  BY <1>3, CommandEffects
<1>4. CASE (\E n \in Dir : Use(n)) \/ UmountAny
  BY <1>4 DEF Use, UmountAny, Umount
<1>5. QED
  BY <1>1, <1>2, <1>3, <1>4 DEF Step, ChildStep

\* Every step has the effects above, and keeps the types.
LEMMA StepEffects ==
  ASSUME MountInv, MountNext
  PROVE  (\A q \in Mounter : Effects(q)) /\ MountTypeOK'
<1>1. Step /\ alone' = NextAlone
  BY DEF MountNext
<1>2. alone' \subseteq Mounter
  BY <1>1 DEF NextAlone, Started, MountInv, MountTypeOK
<1>3. CASE \E p \in Mounter : CommandStep(p) \/ \E r \in Runs : Begin(p, r)
  BY <1>2, <1>3, CommandEffects DEF MountInv, MountTypeOK
<1>4. CASE \E p \in Mounter : ChildStep(p)
  BY <1>2, <1>4, ChildEffects DEF MountInv, MountTypeOK
<1>5. CASE (\E n \in Dir : Use(n)) \/ UmountAny
  <2>1. UNCHANGED <<pc, run, child>> /\ served' \in [Dir -> Mounter \cup {Nobody, Gone}]
    BY <1>5 DEF Use, UmountAny, Umount, MountInv, MountTypeOK
  <2>2. \A q \in Mounter : Effects(q)
    BY <2>1 DEF Effects, MountInv, BinaryInv
  <2>3. QED
    BY <1>2, <2>1, <2>2 DEF MountInv, MountTypeOK
<1>6. QED
  BY <1>1, <1>3, <1>4, <1>5 DEF Step

\* A mount that begins alone waits, and one that is alone still does until its
\* client has come up.
LEMMA AloneKept ==
  ASSUME MountInv, MountNext, NEW p \in alone', p \notin own'
  PROVE  Waiting(p)'
<1>0. p \in Mounter /\ (\A q \in Mounter : Effects(q)) /\ MountTypeOK'
  BY StepEffects DEF MountTypeOK
<1>1. /\ child'[p] # "serving" /\ (p \in own => pc'[p] = "binary")
      /\ p \in NextAlone
  BY <1>0 DEF MountNext, NextOwn
<1>2. CASE p \in Started
  <2>1. /\ child[p] = "none" /\ child'[p] = "starting" /\ Mounts(p)
    BY <1>2 DEF Started
  <2>2. Start(p)
    BY <1>0, <2>1 DEF Effects
  <2>3. /\ pc[p] = "binary" /\ run' = run /\ served' = served
        /\ child' = [child EXCEPT ![p] = "starting"] /\ pc' = [pc EXCEPT ![p] = AfterStart(run[p])]
    BY <2>2 DEF Start
  <2>4. run[p] \in Runs /\ run[p].mode \in {"foreground", "daemonize"} /\ run[p].kind = "dingo-client"
    BY <1>0, <2>1, <2>2, <2>3 DEF Start, Runs, Modes, Mounts, MountInv, BinaryInv
  <2>5. AfterStart(run[p]) # "binary" /\ (run[p].mode = "daemonize" => AfterStart(run[p]) = "poll")
    BY <2>4 DEF AfterStart
  <2>6. /\ served[run[p].at] = Nobody /\ run[p].at \notin Odd /\ Rivals(p) = {}
    <3>1. p \notin alone \/ p \in own
      BY <1>0, <2>3 DEF MountInv, Waiting
    <3>2. p \in own => FALSE
      BY <1>0, <1>1, <2>3, <2>5 DEF MountInv, MountTypeOK
    <3>3. QED
      BY <1>1, <3>1, <3>2 DEF NextAlone
  <2>7. Rivals(p)' = {}
    BY <1>0, <2>3, <2>6 DEF Rivals, Mounts, MountInv, MountTypeOK
  <2>8. pc'[p] = AfterStart(run[p])
    BY <1>0, <2>3 DEF MountInv, MountTypeOK
  <2>9. QED
    BY <2>3, <2>4, <2>5, <2>6, <2>7, <2>8 DEF Waiting
<1>3. CASE p \notin Started
  <2>1. p \in alone /\ pc'[p] # "binary" /\ \A q \in Started : run[q].at # run[p].at
    BY <1>1, <1>3 DEF NextAlone
  <2>2. Waiting(p) /\ run'[p] = run[p]
    BY <1>0, <1>1, <2>1 DEF MountInv, Effects
  <2>3. run[p].at \in Dir /\ Step
    BY <2>2 DEF Waiting, Runs, MountNext
  <2>4. served'[run[p].at] = Nobody
    <3> SUFFICES ASSUME served'[run[p].at] # Nobody PROVE FALSE
      OBVIOUS
    <3>1. PICK q \in Mounter : /\ child[q] = "starting" /\ child'[q] = "serving"
                               /\ Mounts(q) /\ run[q].at = run[p].at
      BY <2>2, <2>3, ServedEffects DEF Waiting
    <3>2. q # p
      BY <1>1, <3>1
    <3>3. QED
      BY <2>2, <3>1, <3>2 DEF Waiting, Rivals
  <2>5. Rivals(p)' = {}
    <3> SUFFICES ASSUME NEW q \in Mounter \ {p}, Mounts(q)', child'[q] = "starting",
                        run'[q].at = run'[p].at
                 PROVE  FALSE
      BY DEF Rivals
    <3>1. run'[q] = run[q] /\ (child[q] = "starting" \/ child[q] = "none")
      BY <1>0 DEF Effects
    <3>2. Mounts(q) /\ run[q].at = run[p].at
      BY <2>2, <3>1 DEF Mounts
    <3>3. CASE child[q] = "starting"
      BY <2>2, <3>2, <3>3 DEF Waiting, Rivals
    <3>4. CASE child[q] = "none"
      BY <2>1, <3>2, <3>4 DEF Started
    <3>5. QED
      BY <3>1, <3>3, <3>4
  <2>6. run[p].mode = "daemonize" => pc'[p] = "poll"
    BY <1>0, <2>2 DEF Waiting, Effects, StatSeen
  <2>7. QED
    BY <2>1, <2>2, <2>4, <2>5, <2>6 DEF Waiting
<1>4. QED
  BY <1>2, <1>3

\* Every step keeps the invariant of Mount.
LEMMA NextMountInv == MountInv /\ [MountNext]_mountVars => MountInv'
<1> SUFFICES ASSUME MountInv, [MountNext]_mountVars PROVE MountInv'
  OBVIOUS
<1>1. CASE UNCHANGED mountVars
  BY <1>1 DEF mountVars, MountInv, MountTypeOK, BinaryInv, Waiting, Rivals, Mounts
<1>2. CASE MountNext
  <2>1. (\A q \in Mounter : Effects(q)) /\ MountTypeOK'
    BY <1>2, StepEffects
  <2>2. BinaryInv'
    BY <2>1 DEF BinaryInv, Effects
  <2>3. \A p \in alone' : p \in own' \/ Waiting(p)'
    BY <1>2, AloneKept
  <2>4. QED
    BY <2>1, <2>2, <2>3 DEF MountInv
<1>3. QED
  BY <1>1, <1>2

\* A daemonized mount that began where nothing was mounted and had no rival reports
\* success only if its own client came up, for any number of terminals, mountpoints,
\* crashes and umounts.
THEOREM SuccessIsAlwaysOwn == MountSpec => []SuccessIsOwn
<1>1. MountInv => SuccessIsOwn
  BY DEF MountInv, Waiting, SuccessIsOwn
<1>2. QED
  BY InitMountInv, NextMountInv, <1>1, PTL DEF MountSpec

(***************************************************************************)
(* Monitor                                                                 *)
(***************************************************************************)

\* The configuration files as the tasks leave them.
Files == [prom : Int, ds : Int, dash : {"absent", "raw", "linked"}, script : BOOLEAN]

\* The k last steps of a deploy, for the services of sc.
DeployStep ==
  <<"PULL_MONITOR_IMAGE", "CREATE_MONITOR_CONTAINER", "SYNC_MONITOR_ORIGIN_CONFIG",
    "SYNC_MONITOR_ALT_CONFIG", "CLEAN_CONFIG_CONTAINER", "START_MONITOR_SERVICE",
    "SYNC_GRAFANA_DASHBOARD", "SYNC_HOSTS_MAPPING">>
StepsLeft(k, sc) == [i \in 1..k |-> [type |-> DeployStep[8 - k + i], scope |-> sc]]

\* What a deploy has brought about when k of its steps are left.  A lost container
\* stays lost: its row names it, and every task skips it.
Deployed(k, sc) ==
  /\ conf # Empty
  /\ {Prom, Graf, Sync} \subseteq sc
  /\ k <= 6 => \A s \in sc : row[s] = Known
  /\ k <= 4 => (ctr[Prom] # "none" => file.prom = conf.port)
  /\ k <= 4 => (ctr[Graf] # "none" => file.ds = conf.port)
  /\ k <= 2 => \A s \in sc : ctr[s] \in {"running", "none"}
  /\ k <= 1 => (ctr[Graf] # "none" => file.dash # "absent")

\* And what one has that found no container: it got past the steps that need the
\* directories of grafana, the container of dcs[0] and the credentials.
FreshDeployed(k, sc) ==
  /\ k <= 6 => GrafanaDirs
  /\ k <= 5 => origin
  /\ k <= 1 => conf.admin
  /\ k >= 7 => \A s \in sc : ctr[s] = "none" /\ row[s] # Known
  /\ k <= 6 => listen = conf.port
  /\ k \in 3..6 => \A s \in sc : ctr[s] = "created"
  /\ k <= 2 => \A s \in sc : ctr[s] = "running"
  /\ k <= 5 => file.prom # Absent /\ file.ds # Absent /\ file.script = TRUE

DeployInv ==
  playbook.op = "deploy" =>
    \E k \in 1..8 : \E sc \in SUBSET Service :
      /\ playbook.plan = StepsLeft(k, sc)
      /\ Deployed(k, sc)
      /\ playbook.fresh => FreshDeployed(k, sc)

\* A playbook has its five fields, and no result is kept while one runs.
PlaybookOK ==
  /\ playbook = [op |-> playbook.op, plan |-> playbook.plan, items |-> playbook.items,
                 fresh |-> playbook.fresh, bad |-> playbook.bad]
  /\ playbook # Idle => last = NoCommand

MonitorInv ==
  /\ conf \in Yaml \cup {Empty} /\ file \in Files
  /\ PlaybookOK /\ DeployInv
  /\ StoredParses /\ DeployWired /\ FreshDeploySucceeds

\* prometheus, grafana and monitor_sync are three services.
LEMMA ThreeServices ==
  /\ Prom \in Service /\ Graf \in Service /\ Sync \in Service
  /\ Prom # Graf /\ Prom # Sync /\ Graf # Sync
BY DEF Service, Prom, Graf, Sync

\* The steps of a deploy and what is left after each.
LEMMA StepsLeftLemma ==
  ASSUME NEW k \in 1..8, NEW sc
  PROVE  /\ Len(StepsLeft(k, sc)) = k
         /\ Head(StepsLeft(k, sc)) = [type |-> DeployStep[9 - k], scope |-> sc]
         /\ k > 1 => Tail(StepsLeft(k, sc)) = StepsLeft(k - 1, sc)
<1> DEFINE S == StepsLeft(k, sc)
<1>0. \A i \in 1..8 : DeployStep[i] \in {DeployStep[j] : j \in 1..8}
  OBVIOUS
<1>1. S \in Seq({[type |-> DeployStep[j], scope |-> sc] : j \in 1..8}) /\ Len(S) = k
  BY DEF StepsLeft
<1>2. Head(S) = [type |-> DeployStep[9 - k], scope |-> sc]
  <2>1. 8 - k + 1 = 9 - k
    OBVIOUS
  <2>2. S[1] = [type |-> DeployStep[9 - k], scope |-> sc]
    BY <2>1 DEF StepsLeft
  <2>3. QED
    BY <1>1, <2>2
<1>3. ASSUME k > 1 PROVE Tail(S) = StepsLeft(k - 1, sc)
  <2>1. Tail(S) = [i \in 1..(k - 1) |-> S[i + 1]]
    <3> HIDE DEF S
    <3>1. S # <<>> /\ Len(S) \in Nat
      BY <1>1
    <3>2. /\ Tail(S) \in Seq({[type |-> DeployStep[j], scope |-> sc] : j \in 1..8})
          /\ Len(Tail(S)) = k - 1 /\ \A i \in 1..(k - 1) : Tail(S)[i] = S[i + 1]
      BY <1>1, <3>1, HeadTailProperties
    <3>3. DOMAIN Tail(S) = 1..(k - 1) /\ Tail(S) = [i \in DOMAIN Tail(S) |-> Tail(S)[i]]
      BY <3>2, LenProperties
    <3>4. QED
      BY <3>2, <3>3
  <2>2. \A i \in 1..(k - 1) : 8 - k + (i + 1) = 8 - (k - 1) + i
    BY <1>3
  <2>3. \A i \in 1..(k - 1) : S[i + 1] = [type |-> DeployStep[8 - (k - 1) + i], scope |-> sc]
    BY <1>3, <2>2 DEF StepsLeft
  <2>4. QED
    BY <2>1, <2>3 DEF StepsLeft
<1>4. QED
  BY <1>1, <1>2, <1>3

\* A deploy begins with all of its steps, or without the one that pulls images.
LEMMA DeployBegins ==
  ASSUME NEW local \in BOOLEAN, NEW sc
  PROVE  \E k \in {7, 8} : For(DeploySteps(local), sc) = StepsLeft(k, sc)
<1>1. CASE local
  <2>1. DeploySteps(local) = <<"CREATE_MONITOR_CONTAINER", "SYNC_MONITOR_ORIGIN_CONFIG",
           "SYNC_MONITOR_ALT_CONFIG", "CLEAN_CONFIG_CONTAINER", "START_MONITOR_SERVICE",
           "SYNC_GRAFANA_DASHBOARD", "SYNC_HOSTS_MAPPING">>
    BY <1>1 DEF DeploySteps
  <2>2. For(DeploySteps(local), sc) = StepsLeft(7, sc)
    BY <2>1 DEF For, StepsLeft, DeployStep
  <2>3. QED
    BY <2>2
<1>2. CASE ~local
  <2>1. DeploySteps(local) = DeployStep
    <3> DEFINE T == {DeployStep[i] : i \in 1..8}
               s == <<"PULL_MONITOR_IMAGE">>
               t == <<"CREATE_MONITOR_CONTAINER", "SYNC_MONITOR_ORIGIN_CONFIG",
                      "SYNC_MONITOR_ALT_CONFIG", "CLEAN_CONFIG_CONTAINER", "START_MONITOR_SERVICE",
                      "SYNC_GRAFANA_DASHBOARD", "SYNC_HOSTS_MAPPING">>
    <3>1. s \in Seq(T) /\ t \in Seq(T) /\ Len(s) = 1 /\ Len(t) = 7
      BY DEF DeployStep
    <3>2. /\ s \o t \in Seq(T) /\ Len(s \o t) = 8
          /\ \A i \in 1..8 : (s \o t)[i] = IF i <= 1 THEN s[i] ELSE t[i - 1]
      <4> HIDE DEF s, t, T
      <4>1. /\ s \o t \in Seq(T) /\ Len(s \o t) = Len(s) + Len(t)
            /\ \A i \in 1..Len(s) + Len(t) : (s \o t)[i] = IF i <= Len(s) THEN s[i] ELSE t[i - Len(s)]
        BY <3>1, ConcatProperties
      <4>2. QED
        BY <3>1, <4>1
    <3>3. s[1] = DeployStep[1] /\ \A i \in 1..7 : t[i] = DeployStep[i + 1]
      BY DEF DeployStep
    <3>4. \A i \in 1..8 : (s \o t)[i] = DeployStep[i]
      <4> HIDE DEF s, t, T
      <4>1. ASSUME NEW i \in 1..8 PROVE (s \o t)[i] = DeployStep[i]
        <5>1. CASE i = 1
          BY <3>2, <3>3, <5>1
        <5>2. CASE i # 1
          <6>1. i - 1 \in 1..7 /\ (i - 1) + 1 = i /\ ~(i <= 1)
            BY <5>2
          <6>2. QED
            BY <3>2, <3>3, <6>1
        <5>3. QED
          BY <5>1, <5>2
      <4>2. QED
        BY <4>1
    <3>5. DeployStep \in Seq(T) /\ Len(DeployStep) = 8
      BY DEF DeployStep
    <3>6. s \o t = DeployStep
      <4> HIDE DEF s, t, T
      <4>1. QED
        BY <3>2, <3>4, <3>5, SeqEqual
    <3>7. QED
      BY <1>2, <3>6 DEF DeploySteps
  <2>2. For(DeploySteps(local), sc) = StepsLeft(8, sc)
    BY <2>1 DEF For, StepsLeft, DeployStep
  <2>3. QED
    BY <2>2
<1>3. QED
  BY <1>1, <1>2

\* A file that parses has every section, and so prometheus, grafana and monitor_sync.
LEMMA ParsedScope ==
  ASSUME NEW c \in Config, ~ParsePanics(c)
  PROVE  /\ {Prom, Graf, Sync} \subseteq ParseMonitorInfo(c)
         /\ ParseMonitorInfo(c) \in SUBSET Service
<1>2. RolesOf(c) # {}
  BY DEF RolesOf, Roles
<1>3. "node_exporter" \in c.deploy
  BY <1>2 DEF ParsePanics, GetHostPanics
<1>4. RolesOf(c) = {"node_exporter", "prometheus", "grafana", "monitor_sync"}
  BY <1>3 DEF RolesOf, Roles
<1>5. QED
  BY <1>4, ThreeServices DEF ParseMonitorInfo, Prom, Graf, Sync

\* The files keep their shape.
LEMMA FileTyped ==
  ASSUME MonitorInv, NEW type, NEW D, NEW K
  PROVE  FileAfter(type, D, K) \in Files
<1>1. file \in Files
  BY DEF MonitorInv
<1>2. conf.port \in Int
  <2>1. CASE conf \in Yaml
    <3>1. conf \in Config
      BY <2>1, MonitorAssumption
    <3>2. conf.port \in Port
      BY <3>1 DEF Config
    <3>3. \A x \in Port : x \in Int
      BY MonitorAssumption
    <3>4. QED
      BY <3>2, <3>3, Zenon
  <2>2. CASE conf = Empty
    BY <2>2 DEF Empty
  <2>3. QED
    BY <2>1, <2>2 DEF MonitorInv
<1>3. Origin \in Int /\ NoFiles \in Files
  BY DEF Origin, NoFiles, Files, Absent
<1>4. QED
  BY <1>1, <1>2, <1>3 DEF FileAfter, Files

\* What remains when the playbook is over, or another command than deploy begins.
LEMMA OtherCommand ==
  ASSUME MonitorInv, conf' = conf, file' \in Files, PlaybookOK', playbook'.op # "deploy",
         last'.op # "deploy"
  PROVE  MonitorInv'
<1>1. StoredParses'
  BY DEF MonitorInv, StoredParses, ParsePanics, RolesOf, GetHostPanics
<1>2. DeployInv' /\ DeployWired' /\ FreshDeploySucceeds'
  BY DEF DeployInv, DeployWired, FreshDeploySucceeds
<1>3. QED
  BY <1>1, <1>2 DEF MonitorInv

\* Nothing is deployed at first.
LEMMA InitMonitorInv == MonitorInit => MonitorInv
<1> SUFFICES ASSUME MonitorInit PROVE MonitorInv
  OBVIOUS
<1>1. file \in Files /\ conf \in Yaml \cup {Empty} /\ StoredParses
  BY DEF MonitorInit, NoFiles, Files, Absent, StoredParses
<1>2. PlaybookOK /\ DeployInv
  BY DEF MonitorInit, PlaybookOK, DeployInv, Idle
<1>3. DeployWired /\ FreshDeploySucceeds
  BY DEF MonitorInit, NoCommand, DeployWired, FreshDeploySucceeds
<1>4. QED
  BY <1>1, <1>2, <1>3 DEF MonitorInv

\* A command ends at once with something other than success.
LEMMA EndKept ==
  ASSUME MonitorInv, NEW op, NEW result, result # "ok", EndCommand(op, result), conf' = conf, file' = file
  PROVE  MonitorInv'
<1>1. PlaybookOK' /\ playbook'.op = "idle"
  BY DEF EndCommand, PlaybookOK, Idle
<1>2. StoredParses'
  BY DEF MonitorInv, StoredParses, ParsePanics, RolesOf, GetHostPanics
<1>3. last'.out = result /\ last'.fresh = FALSE
  BY DEF EndCommand, NoCommand
<1>4. DeployInv' /\ DeployWired' /\ FreshDeploySucceeds'
  BY <1>1, <1>3 DEF DeployInv, DeployWired, FreshDeploySucceeds
<1>5. QED
  BY <1>1, <1>2, <1>4 DEF MonitorInv

\* deploy stores a file that parses and begins with its first step.
LEMMA DeployKept ==
  ASSUME MonitorInv, NEW y \in Yaml, NEW local \in BOOLEAN, Deploy(y, local)
  PROVE  MonitorInv'
<1>0. UNCHANGED <<topo, row, ctr, listen, file, data>>
  BY DEF Deploy, worldVars
<1>1. CASE ParseHostsFails \/ ParsePanics(y)
  <2>1. PICK result \in {"error", "panic"} : EndCommand("deploy", result)
    BY <1>1 DEF Deploy
  <2>2. conf' = conf
    BY <1>1 DEF Deploy
  <2>3. QED
    BY <1>0, <2>1, <2>2, EndKept
<1>2. CASE ~(ParseHostsFails \/ ParsePanics(y))
  <2> DEFINE fresh == \A s \in ParseMonitorInfo(y) : ctr[s] = "none" /\ row[s] # Known
  <2>1. y \in Config /\ ~ParsePanics(y)
    BY <1>2, MonitorAssumption
  <2>2. PICK sc \in SUBSET Service : sc = ParseMonitorInfo(y) /\ {Prom, Graf, Sync} \subseteq sc
    BY <2>1, ParsedScope
  <2>3. /\ conf' = y
        /\ playbook' = [op |-> "deploy", plan |-> For(DeploySteps(local), sc), items |-> {},
                        fresh |-> fresh, bad |-> FALSE]
        /\ last' = NoCommand
    BY <1>2, <2>2 DEF Deploy, ReplaceMonitor, Plays
  <2>4. PICK k \in {7, 8} : For(DeploySteps(local), sc) = StepsLeft(k, sc)
    BY DeployBegins
  <2>5. y # Empty
    BY <2>1 DEF Config, Empty
  <2>6. Deployed(k, sc)'
    BY <2>2, <2>3, <2>4, <2>5 DEF Deployed
  <2>7. fresh => FreshDeployed(k, sc)'
    <3> SUFFICES ASSUME fresh PROVE FreshDeployed(k, sc)'
      OBVIOUS
    <3>1. \A s \in sc : ctr'[s] = "none" /\ row'[s] # Known
      BY <1>0, <2>2
    <3>2. QED
      BY <2>4, <3>1 DEF FreshDeployed
  <2> HIDE DEF fresh
  <2>8. DeployInv'
    <3>1. playbook'.plan = StepsLeft(k, sc) /\ playbook'.fresh = fresh
      BY <2>3, <2>4
    <3>2. k \in 1..8 /\ (playbook'.fresh => FreshDeployed(k, sc)')
      BY <2>4, <2>7, <3>1
    <3>3. QED
      BY <2>6, <3>1, <3>2 DEF DeployInv
  <2>9. PlaybookOK'
    BY <2>3 DEF PlaybookOK
  <2>10. StoredParses'
    BY <2>1, <2>3 DEF StoredParses, ParsePanics, RolesOf, GetHostPanics
  <2>11. DeployWired' /\ FreshDeploySucceeds'
    BY <2>3 DEF DeployWired, FreshDeploySucceeds, NoCommand
  <2>12. file' \in Files
    BY <1>0 DEF MonitorInv
  <2>13. QED
    BY <2>3, <2>8, <2>9, <2>10, <2>11, <2>12 DEF MonitorInv
<1>3. QED
  BY <1>1, <1>2

\* config commit stores a file that parses.
LEMMA CommitKept ==
  ASSUME MonitorInv, NEW y \in Yaml, NEW force \in BOOLEAN, Commit(y, force)
  PROVE  MonitorInv'
<1>0. file' = file
  BY DEF Commit, worldVars
<1>1. CASE conf' = conf /\ \E result \in {"error", "panic"} : EndCommand("commit", result)
  BY <1>0, <1>1, EndKept
<1>2. CASE conf' = y /\ playbook' = Idle /\ last'.op = "commit" /\ ~ParsePanics(y)
  <2>1. PlaybookOK' /\ playbook'.op = "idle"
    BY <1>2 DEF PlaybookOK, Idle
  <2>2. StoredParses'
    BY <1>2 DEF StoredParses, ParsePanics, RolesOf, GetHostPanics
  <2>3. DeployInv' /\ DeployWired' /\ FreshDeploySucceeds'
    BY <1>2, <2>1 DEF DeployInv, DeployWired, FreshDeploySucceeds
  <2>4. QED
    BY <1>0, <1>2, <2>1, <2>2, <2>3 DEF MonitorInv
<1>3. QED
  BY <1>1, <1>2 DEF Commit, ReplaceMonitor, CommitPanics, NoCommand

\* The commands on a monitor that is stored do not change what is stored.
LEMMA CommandKept ==
  ASSUME MonitorInv, NEW op, op # "deploy", conf' = conf, UNCHANGED worldVars,
         EndCommand(op, "error")
           \/ \E plan, items : Plays(op, plan, items, FALSE)
  PROVE  MonitorInv'
<1>0. file' = file
  BY DEF worldVars
<1>1. CASE EndCommand(op, "error")
  BY <1>0, <1>1, EndKept
<1>2. CASE \E plan, items : Plays(op, plan, items, FALSE)
  <2>1. PICK plan, items : Plays(op, plan, items, FALSE)
    BY <1>2
  <2>2. PlaybookOK' /\ playbook'.op = op /\ last'.op = "none"
    BY <2>1 DEF Plays, PlaybookOK, NoCommand
  <2>3. file' \in Files
    BY <1>0 DEF MonitorInv
  <2>4. QED
    BY <2>2, <2>3, OtherCommand
<1>3. QED
  BY <1>1, <1>2

\* What a step leaves when no task of it fails: dropped errors are those of K.
LEMMA StepDone ==
  ASSUME NEW K, Failing = {}, Applies(Tasks, {}, K)
  PROVE  /\ \A s \in Service : ctr'[s] = IF s \in Tasks \ K THEN Task(CurrentStep.type, s).ctr ELSE ctr[s]
         /\ \A s \in Service : row'[s] = IF s \in Tasks THEN Task(CurrentStep.type, s).row ELSE row[s]
         /\ listen' = IF CurrentStep.type = "CREATE_MONITOR_CONTAINER" /\ Prom \in Tasks /\ Creates(Prom)
                      THEN conf.port ELSE listen
         /\ file' = FileAfter(CurrentStep.type, Tasks, K)
         /\ conf' = conf /\ origin' = origin
BY DEF Applies

\* A step in which nothing must fail and that changes no container.
LEMMA Untouched ==
  ASSUME NEW K, Failing = {}, Applies(Tasks, {}, K),
         \A s \in Service : Task(CurrentStep.type, s).ctr = ctr[s] /\ Task(CurrentStep.type, s).row = row[s],
         CurrentStep.type # "CREATE_MONITOR_CONTAINER"
  PROVE  /\ \A s \in Service : ctr'[s] = ctr[s] /\ row'[s] = row[s]
         /\ listen' = listen /\ conf' = conf /\ origin' = origin
         /\ file' = FileAfter(CurrentStep.type, Tasks, K)
BY StepDone

\* The port of a stored configuration is neither that of no file nor that of the
\* file of the image.
LEMMA PortLemma ==
  ASSUME MonitorInv, conf # Empty
  PROVE  conf.port # Absent
<1>1. conf \in Config
  BY MonitorAssumption DEF MonitorInv
<1>2. conf.port \in Port
  BY <1>1 DEF Config
<1>3. \A x \in Port : x # 0
  BY MonitorAssumption
<1>4. QED
  BY <1>2, <1>3, Zenon DEF Absent

\* A step of a deploy in which no task failed.
LEMMA DeployGoesOn ==
  ASSUME MonitorInv, NEW k \in 1..8, NEW sc \in SUBSET Service, playbook.plan = StepsLeft(k, sc),
         Deployed(k, sc), NEW K, K \subseteq Droppable, Failing = {}, Applies(Tasks, {}, K)
  PROVE  /\ Deployed(k - 1, sc)'
         /\ FreshDeployed(k, sc) => FreshDeployed(k - 1, sc)'
<1>1. CurrentStep.type = DeployStep[9 - k] /\ CurrentStep.scope = sc
  BY StepsLeftLemma DEF CurrentStep
<1>2. {Prom, Graf, Sync} \subseteq sc /\ conf # Empty /\ sc \subseteq Service
  BY DEF Deployed
<1>3. CASE k = 8
  <2>1. CurrentStep.type = "PULL_MONITOR_IMAGE"
    BY <1>1, <1>3 DEF DeployStep
  <2>2. \A s \in Service : Task(CurrentStep.type, s).ctr = ctr[s] /\ Task(CurrentStep.type, s).row = row[s]
    BY <2>1 DEF Task, PullImage, Nothing
  <2>3. \A s \in Service : ctr'[s] = ctr[s] /\ row'[s] = row[s]
    BY <2>1, <2>2, Untouched
  <2>4. conf' = conf
    BY StepDone
  <2>5. Deployed(k - 1, sc)'
    BY <1>2, <1>3, <2>4 DEF Deployed
  <2>6. FreshDeployed(k, sc) => FreshDeployed(k - 1, sc)'
    BY <1>2, <1>3, <2>3 DEF FreshDeployed
  <2>7. QED
    BY <2>5, <2>6
<1>4. CASE k = 7
  <2>1. CurrentStep.type = "CREATE_MONITOR_CONTAINER" /\ Tasks = sc
    BY <1>1, <1>4 DEF DeployStep, Tasks, TasksOf
  <2>2. \A s \in Service : /\ Task(CurrentStep.type, s).row = Known
                           /\ Task(CurrentStep.type, s).ctr = IF Creates(s) THEN "created" ELSE ctr[s]
    BY <2>1 DEF Task, CreateContainer, Nothing
  <2>3. \A s \in sc : row'[s] = Known
    BY <1>2, <2>1, <2>2, StepDone
  <2>4. conf' = conf
    BY StepDone
  <2>5. Deployed(k - 1, sc)'
    BY <1>2, <1>4, <2>3, <2>4 DEF Deployed
  <2>6. ASSUME FreshDeployed(k, sc) PROVE FreshDeployed(k - 1, sc)'
    <3>1. \A s \in sc : Creates(s)
      BY <1>4, <2>6 DEF FreshDeployed, Creates
    <3>2. Droppable = {}
      BY <2>1 DEF Droppable
    <3>3. listen' = conf'.port
      BY <1>2, <2>1, <2>4, <3>1, StepDone
    <3>4. \A s \in sc : ctr'[s] = "created"
      BY <1>2, <2>1, <2>2, <3>1, <3>2, StepDone
    <3>5. GrafanaDirs'
      <4>1. ~Task(CurrentStep.type, Graf).fails
        BY <1>2, <2>1 DEF Failing
      <4>2. Task(CurrentStep.type, Graf).fails = (Creates(Graf) /\ (ctr[Graf] # "none" \/ ~GrafanaDirs))
        BY <2>1 DEF Task, CreateContainer, Nothing
      <4>3. QED
        BY <1>2, <2>4, <3>1, <4>1, <4>2 DEF GrafanaDirs
    <3>6. QED
      BY <1>4, <3>3, <3>4, <3>5 DEF FreshDeployed
  <2>7. QED
    BY <2>5, <2>6
<1>5. CASE k = 6
  <2>1. CurrentStep.type = "SYNC_MONITOR_ORIGIN_CONFIG" /\ Tasks = {Sync}
    BY <1>1, <1>2, <1>5 DEF DeployStep, Tasks, TasksOf
  <2>2. \A s \in Service : Task(CurrentStep.type, s).ctr = ctr[s] /\ Task(CurrentStep.type, s).row = row[s]
    BY <2>1 DEF Task, SyncConfig, Nothing
  <2>3. /\ \A s \in Service : ctr'[s] = ctr[s] /\ row'[s] = row[s]
        /\ listen' = listen /\ conf' = conf /\ origin' = origin
        /\ file' = FileAfter(CurrentStep.type, Tasks, K)
    BY <2>1, <2>2, Untouched
  <2>4. Deployed(k - 1, sc)'
    BY <1>2, <1>5, <2>3 DEF Deployed
  <2>5. ASSUME FreshDeployed(k, sc) PROVE FreshDeployed(k - 1, sc)'
    <3>1. \A s \in sc : ctr[s] = "created" /\ row[s] = Known
      BY <1>5, <2>5 DEF FreshDeployed, Deployed
    <3>2. Found(Sync) /\ origin
      <4>1. Found(Sync)
        BY <1>2, <3>1 DEF Found
      <4>2. ~Task(CurrentStep.type, Sync).fails
        BY <1>2, <2>1 DEF Failing
      <4>3. ~origin => Task(CurrentStep.type, Sync).fails
        BY <2>1, <4>1 DEF Task, SyncConfig, Nothing
      <4>4. QED
        BY <4>1, <4>2, <4>3
    <3>3. file' = [file EXCEPT !.prom = Origin, !.ds = Origin, !.script = TRUE]
      BY <2>1, <2>3, <3>2 DEF FileAfter
    <3>4. file'.prom # Absent /\ file'.ds # Absent /\ file'.script = TRUE
      BY <3>3 DEF MonitorInv, Files, Origin, Absent
    <3>5. QED
      BY <1>2, <1>5, <2>3, <2>5, <3>1, <3>2, <3>4 DEF FreshDeployed, GrafanaDirs
  <2>6. QED
    BY <2>4, <2>5
<1>6. CASE k = 5
  <2>1. CurrentStep.type = "SYNC_MONITOR_ALT_CONFIG" /\ Tasks = {Prom, Graf}
    BY <1>1, <1>2, <1>6 DEF DeployStep, Tasks, TasksOf
  <2>2. \A s \in Service : Task(CurrentStep.type, s).ctr = ctr[s] /\ Task(CurrentStep.type, s).row = row[s]
    BY <2>1 DEF Task, SyncConfig, Nothing
  <2>3. /\ \A s \in Service : ctr'[s] = ctr[s] /\ row'[s] = row[s]
        /\ listen' = listen /\ conf' = conf /\ origin' = origin
        /\ file' = FileAfter(CurrentStep.type, Tasks, K)
    BY <2>1, <2>2, Untouched
  <2>4. file' = [file EXCEPT !.prom = IF Found(Prom) THEN conf.port ELSE @,
                             !.ds = IF Found(Graf) THEN conf.port ELSE @]
    BY <2>1, <2>3 DEF FileAfter
  <2>5. /\ file'.prom = IF Found(Prom) THEN conf.port ELSE file.prom
        /\ file'.ds = IF Found(Graf) THEN conf.port ELSE file.ds
        /\ file'.script = file.script
    BY <2>4 DEF MonitorInv, Files
  <2>6. \A s \in sc : row[s] = Known
    BY <1>6 DEF Deployed
  <2>7. Deployed(k - 1, sc)'
    <3>1. ctr[Prom] # "none" => file'.prom = conf.port
      BY <1>2, <2>5, <2>6 DEF Found
    <3>2. ctr[Graf] # "none" => file'.ds = conf.port
      BY <1>2, <2>5, <2>6 DEF Found
    <3>3. QED
      BY <1>2, <1>6, <2>3, <2>6, <3>1, <3>2 DEF Deployed
  <2>8. ASSUME FreshDeployed(k, sc) PROVE FreshDeployed(k - 1, sc)'
    <3>1. file'.prom # Absent /\ file'.ds # Absent /\ file'.script = TRUE
      BY <1>2, <1>6, <2>5, <2>8, PortLemma DEF FreshDeployed
    <3>2. QED
      BY <1>2, <1>6, <2>3, <2>8, <3>1 DEF FreshDeployed, GrafanaDirs
  <2>9. QED
    BY <2>7, <2>8
<1>7. CASE k = 4
  <2>1. CurrentStep.type = "CLEAN_CONFIG_CONTAINER"
    BY <1>1, <1>7 DEF DeployStep
  <2>2. \A s \in Service : Task(CurrentStep.type, s).ctr = ctr[s] /\ Task(CurrentStep.type, s).row = row[s]
    BY <2>1 DEF Task, Nothing
  <2>3. /\ \A s \in Service : ctr'[s] = ctr[s] /\ row'[s] = row[s]
        /\ listen' = listen /\ conf' = conf /\ origin' = origin /\ file' = file
    BY <2>1, <2>2, Untouched DEF FileAfter
  <2>4. Deployed(k - 1, sc)'
    BY <1>2, <1>7, <2>3, ThreeServices DEF Deployed
  <2>5. FreshDeployed(k, sc) => FreshDeployed(k - 1, sc)'
    BY <1>2, <1>7, <2>3 DEF FreshDeployed, GrafanaDirs
  <2>6. QED
    BY <2>4, <2>5
<1>8. CASE k = 3
  <2>1. CurrentStep.type = "START_MONITOR_SERVICE" /\ Tasks = sc
    BY <1>1, <1>8 DEF DeployStep, Tasks, TasksOf
  <2>2. \A s \in Service : /\ Task(CurrentStep.type, s).row = row[s]
                           /\ Task(CurrentStep.type, s).ctr = IF Found(s) THEN "running" ELSE ctr[s]
    BY <2>1 DEF Task, StartService, Nothing
  <2>3. Droppable = {}
    BY <2>1 DEF Droppable
  <2>4. /\ \A s \in sc : ctr'[s] = IF Found(s) THEN "running" ELSE ctr[s]
        /\ \A s \in sc : row'[s] = row[s]
    BY <1>2, <2>1, <2>2, <2>3, StepDone
  <2>5. listen' = listen /\ conf' = conf /\ origin' = origin /\ file' = file
    BY <2>1, StepDone DEF FileAfter
  <2>6. \A s \in sc : row[s] = Known
    BY <1>8 DEF Deployed
  <2>7. \A s \in sc : ctr'[s] \in {"running", "none"} /\ (ctr[s] = "none" => ctr'[s] = "none")
    BY <2>4, <2>6 DEF Found
  <2>8. Deployed(k - 1, sc)'
    BY <1>2, <1>8, <2>4, <2>5, <2>6, <2>7 DEF Deployed
  <2>9. ASSUME FreshDeployed(k, sc) PROVE FreshDeployed(k - 1, sc)'
    <3>1. \A s \in sc : ctr'[s] = "running"
      BY <1>8, <2>4, <2>6, <2>9 DEF FreshDeployed, Found
    <3>2. QED
      BY <1>8, <2>5, <2>9, <3>1 DEF FreshDeployed, GrafanaDirs
  <2>10. QED
    BY <2>8, <2>9
<1>9. CASE k = 2
  <2>1. CurrentStep.type = "SYNC_GRAFANA_DASHBOARD" /\ Tasks = {Graf}
    BY <1>1, <1>2, <1>9 DEF DeployStep, Tasks, TasksOf
  <2>2. \A s \in Service : Task(CurrentStep.type, s).ctr = ctr[s] /\ Task(CurrentStep.type, s).row = row[s]
    BY <2>1 DEF Task, SyncGrafanaDashboard, Nothing
  <2>3. /\ \A s \in Service : ctr'[s] = ctr[s] /\ row'[s] = row[s]
        /\ listen' = listen /\ conf' = conf /\ origin' = origin
        /\ file' = FileAfter(CurrentStep.type, Tasks, K)
    BY <2>1, <2>2, Untouched
  <2>4. PICK d \in {"linked", "raw"} :
          file' = IF Found(Graf) /\ file.ds # Absent /\ GrafanaDirs THEN [file EXCEPT !.dash = d] ELSE file
    BY <2>1, <2>3 DEF FileAfter
  <2>5. /\ file'.prom = file.prom /\ file'.ds = file.ds /\ file'.script = file.script
        /\ Found(Graf) /\ file.ds # Absent /\ GrafanaDirs => file'.dash = d
    BY <2>4 DEF MonitorInv, Files
  <2>6. ctr[Graf] # "none" => file'.dash # "absent"
    <3>1. ctr[Graf] # "none" => Found(Graf) /\ file.ds # Absent
      BY <1>2, <1>9, PortLemma DEF Deployed, Found
    <3>2. ~Task(CurrentStep.type, Graf).fails
      BY <2>1 DEF Failing
    <3>3. Found(Graf) /\ ~GrafanaDirs => Task(CurrentStep.type, Graf).fails
      BY <2>1 DEF Task, SyncGrafanaDashboard, Nothing
    <3>4. QED
      BY <2>4, <2>5, <3>1, <3>2, <3>3
  <2>7. Deployed(k - 1, sc)'
    BY <1>2, <1>9, <2>3, <2>5, <2>6, ThreeServices DEF Deployed
  <2>8. ASSUME FreshDeployed(k, sc) PROVE FreshDeployed(k - 1, sc)'
    <3>1. ctr[Graf] = "running" /\ row[Graf] = Known
      BY <1>2, <1>9, <2>8 DEF FreshDeployed, Deployed
    <3>2. Found(Graf)
      BY <3>1 DEF Found
    <3>3. ~Task(CurrentStep.type, Graf).fails
      BY <2>1 DEF Failing
    <3>4. ~conf.admin => Task(CurrentStep.type, Graf).fails
      BY <2>1, <3>2 DEF Task, SyncGrafanaDashboard, SyncPrometheusUid, Nothing
    <3>5. conf'.admin
      BY <2>3, <3>3, <3>4
    <3>6. QED
      BY <1>2, <1>9, <2>3, <2>5, <2>8, <3>5 DEF FreshDeployed, GrafanaDirs
  <2>9. QED
    BY <2>7, <2>8
<1>10. CASE k = 1
  <2>1. CurrentStep.type = "SYNC_HOSTS_MAPPING"
    BY <1>1, <1>10 DEF DeployStep
  <2>2. \A s \in Service : Task(CurrentStep.type, s).ctr = ctr[s] /\ Task(CurrentStep.type, s).row = row[s]
    BY <2>1 DEF Task, SyncHostsMapping, Nothing
  <2>3. /\ \A s \in Service : ctr'[s] = ctr[s] /\ row'[s] = row[s]
        /\ listen' = listen /\ conf' = conf /\ origin' = origin /\ file' = file
    BY <2>1, <2>2, Untouched DEF FileAfter
  <2>4. Deployed(k - 1, sc)'
    BY <1>2, <1>10, <2>3, ThreeServices DEF Deployed
  <2>5. FreshDeployed(k, sc) => FreshDeployed(k - 1, sc)'
    BY <1>2, <1>10, <2>3 DEF FreshDeployed, GrafanaDirs
  <2>6. QED
    BY <2>4, <2>5
<1>11. QED
  BY <1>3, <1>4, <1>5, <1>6, <1>7, <1>8, <1>9, <1>10

\* No task of a deploy that found no containers must fail, if the container of dcs[0]
\* is on Home, grafana has its directories, and its credentials are the ones
\* syncPrometheusUid uses.
LEMMA FreshNeverFails ==
  ASSUME MonitorInv, NEW k \in 1..8, NEW sc \in SUBSET Service, playbook.plan = StepsLeft(k, sc),
         Deployed(k, sc), FreshDeployed(k, sc), origin, GrafanaDirs, conf.admin
  PROVE  Failing = {}
<1>1. CurrentStep.type = DeployStep[9 - k] /\ CurrentStep.scope = sc
  BY StepsLeftLemma DEF CurrentStep
<1>2. {Prom, Graf, Sync} \subseteq sc
  BY DEF Deployed
<1> SUFFICES ASSUME NEW s \in Tasks PROVE ~Task(CurrentStep.type, s).fails
  BY DEF Failing
<1>3. CASE k = 8
  <2>1. CurrentStep.type = "PULL_MONITOR_IMAGE"
    BY <1>1, <1>3 DEF DeployStep
  <2>2. QED
    BY <2>1 DEF Task, PullImage, Nothing
<1>4. CASE k = 7
  <2>1. CurrentStep.type = "CREATE_MONITOR_CONTAINER" /\ s \in sc
    BY <1>1, <1>4 DEF DeployStep, Tasks, TasksOf
  <2>2. ctr[s] = "none"
    BY <1>4, <2>1 DEF FreshDeployed
  <2>3. QED
    BY <2>1, <2>2 DEF Task, CreateContainer, Nothing
<1>5. CASE k = 6
  <2>1. CurrentStep.type = "SYNC_MONITOR_ORIGIN_CONFIG" /\ s = Sync
    BY <1>1, <1>5 DEF DeployStep, Tasks, TasksOf
  <2>2. QED
    BY <2>1, ThreeServices DEF Task, SyncConfig, Nothing
<1>6. CASE k = 5
  <2>1. CurrentStep.type = "SYNC_MONITOR_ALT_CONFIG"
    BY <1>1, <1>6 DEF DeployStep
  <2>2. file.prom # Absent /\ file.ds # Absent
    BY <1>6 DEF FreshDeployed
  <2>3. QED
    BY <2>1, <2>2 DEF Task, SyncConfig, Nothing
<1>7. CASE k = 4
  <2>1. CurrentStep.type = "CLEAN_CONFIG_CONTAINER"
    BY <1>1, <1>7 DEF DeployStep
  <2>2. QED
    BY <2>1 DEF Task, Nothing
<1>8. CASE k = 3
  <2>1. CurrentStep.type = "START_MONITOR_SERVICE"
    BY <1>1, <1>8 DEF DeployStep
  <2>2. file.prom # Absent /\ file.script = TRUE
    BY <1>8 DEF FreshDeployed
  <2>3. CanRun(s)
    BY <2>2 DEF CanRun
  <2>4. QED
    BY <2>1, <2>3 DEF Task, StartService, Nothing
<1>9. CASE k = 2
  <2>1. CurrentStep.type = "SYNC_GRAFANA_DASHBOARD"
    BY <1>1, <1>9 DEF DeployStep
  <2>2. file.ds # Absent /\ ctr[Graf] = "running"
    BY <1>2, <1>9 DEF FreshDeployed
  <2>3. QED
    BY <2>1, <2>2 DEF Task, SyncGrafanaDashboard, SyncPrometheusUid, Nothing
<1>10. CASE k = 1
  <2>1. CurrentStep.type = "SYNC_HOSTS_MAPPING" /\ s \in sc
    BY <1>1, <1>10 DEF DeployStep, Tasks, TasksOf
  <2>2. ctr[s] = "running"
    BY <1>10, <2>1 DEF FreshDeployed
  <2>3. QED
    BY <2>1, <2>2 DEF Task, SyncHostsMapping, Nothing
<1>11. QED
  BY <1>3, <1>4, <1>5, <1>6, <1>7, <1>8, <1>9, <1>10

\* The fields of a playbook that goes on.
LEMMA GoesOnLemma ==
  ASSUME NEW p, p = [op |-> p.op, plan |-> p.plan, items |-> p.items, fresh |-> p.fresh, bad |-> p.bad],
         NEW t, NEW b, NEW q, q = [p EXCEPT !.plan = t, !.bad = b]
  PROVE  /\ q.op = p.op /\ q.plan = t /\ q.fresh = p.fresh
         /\ q = [op |-> q.op, plan |-> q.plan, items |-> q.items, fresh |-> q.fresh, bad |-> q.bad]
<1>1. q = [op |-> p.op, plan |-> t, items |-> p.items, fresh |-> p.fresh, bad |-> b]
  OBVIOUS
<1>2. QED
  BY <1>1

\* A step of a deploy runs: the deploy goes on, ends with success, or ends with the
\* tasks that failed.
LEMMA DeployRuns ==
  ASSUME MonitorInv, playbook.op = "deploy", NEW E, NEW H, NEW K, RunStep(E, H, K)
  PROVE  MonitorInv'
<1> DEFINE F == Failing \cup E
<1>1. PICK k \in 1..8, sc \in SUBSET Service :
         /\ playbook.plan = StepsLeft(k, sc)
         /\ Deployed(k, sc)
         /\ playbook.fresh => FreshDeployed(k, sc)
  BY DEF MonitorInv, DeployInv
<1>2. /\ Len(playbook.plan) = k
      /\ k > 1 => Tail(playbook.plan) = StepsLeft(k - 1, sc)
      /\ CurrentStep.scope = sc
  <2>1. Head(playbook.plan) = [type |-> DeployStep[9 - k], scope |-> sc]
    BY <1>1, StepsLeftLemma
  <2>2. Len(playbook.plan) = k
    BY <1>1, StepsLeftLemma
  <2>3. k > 1 => Tail(playbook.plan) = StepsLeft(k - 1, sc)
    BY <1>1, StepsLeftLemma
  <2>4. QED
    BY <2>1, <2>2, <2>3 DEF CurrentStep
<1>3. /\ H \subseteq E /\ K \subseteq Droppable \ F /\ Applies(Tasks \ F, H, K)
      /\ playbook # Idle /\ last = NoCommand
  BY DEF RunStep, MonitorInv, PlaybookOK
<1>4. conf' = conf /\ file' \in Files
  <2>1. file' = FileAfter(CurrentStep.type, Tasks \ F, K)
    BY <1>3 DEF Applies
  <2>2. QED
    BY <1>3, <2>1, FileTyped DEF Applies
<1>5. StoredParses'
  BY <1>4 DEF MonitorInv, StoredParses, ParsePanics, RolesOf, GetHostPanics
<1>6. ASSUME F = {}
      PROVE  Deployed(k - 1, sc)' /\ (playbook.fresh => FreshDeployed(k - 1, sc)')
  <2>1. Failing = {} /\ E = {} /\ H = {} /\ Tasks \ F = Tasks
    BY <1>3, <1>6
  <2>2. Applies(Tasks, {}, K) /\ K \subseteq Droppable
    BY <1>3, <2>1
  <2>3. QED
    BY <1>1, <2>1, <2>2, DeployGoesOn
<1>7. CASE F = {} /\ k # 1
  <2> DEFINE b == playbook.bad \/ E # {}
  <2>0. ~(F # {} \/ Len(playbook.plan) = 1)
    BY <1>2, <1>7
  <2>1. /\ playbook' = [playbook EXCEPT !.plan = Tail(playbook.plan), !.bad = b]
        /\ last' = last
    BY <2>0, Zenon DEF RunStep
  <2>2. /\ playbook'.op = playbook.op /\ playbook'.plan = StepsLeft(k - 1, sc)
        /\ playbook'.fresh = playbook.fresh /\ PlaybookOK'
    <3> HIDE DEF b
    <3>1. playbook = [op |-> playbook.op, plan |-> playbook.plan, items |-> playbook.items,
                      fresh |-> playbook.fresh, bad |-> playbook.bad]
      BY DEF MonitorInv, PlaybookOK
    <3>2. Tail(playbook.plan) = StepsLeft(k - 1, sc)
      BY <1>2, <1>7
    <3>3. QED
      BY <1>3, <2>1, <3>1, <3>2, GoesOnLemma DEF PlaybookOK
  <2>3. DeployInv'
    <3>1. k - 1 \in 1..8
      BY <1>7
    <3>2. QED
      BY <1>6, <1>7, <2>2, <3>1 DEF DeployInv
  <2>4. DeployWired' /\ FreshDeploySucceeds'
    BY <1>3, <2>1 DEF DeployWired, FreshDeploySucceeds, NoCommand
  <2>5. QED
    BY <1>4, <1>5, <2>2, <2>3, <2>4 DEF MonitorInv
<1>8. CASE F # {} \/ k = 1
  <2> DEFINE b == playbook.bad \/ E # {}
             v == IF F = {} THEN "ok" ELSE "error"
             shown == IF CurrentStep.type = "GET_MONITOR_STATUS"
                      THEN [s \in CurrentStep.scope |-> FormatMonitorStatus(s, F)] ELSE <<>>
  <2>0. F # {} \/ Len(playbook.plan) = 1
    BY <1>2, <1>8
  <2>10. /\ playbook' = Idle
        /\ last' = [op |-> playbook.op, out |-> v, scope |-> CurrentStep.scope,
                    fresh |-> playbook.fresh, bad |-> b, shown |-> shown]
    BY <2>0, Zenon DEF RunStep
  <2>11. last'.op = "deploy" /\ last'.out = v /\ last'.scope = sc /\ last'.fresh = playbook.fresh /\ last'.bad = b
    <3> HIDE DEF b, v, shown
    <3>1. QED
      BY <1>2, <2>10
  <2>1. /\ playbook' = Idle
        /\ last'.op = "deploy" /\ last'.out = (IF F = {} THEN "ok" ELSE "error")
        /\ last'.scope = sc /\ last'.fresh = playbook.fresh
    BY <2>10, <2>11
  <2>2. last'.bad = (playbook.bad \/ E # {})
    BY <2>11, Zenon
  <2>3. PlaybookOK' /\ DeployInv'
    BY <2>1 DEF PlaybookOK, DeployInv, Idle
  <2>4. DeployWired'
    <3> SUFFICES ASSUME F = {} PROVE DeployWired'
      BY <2>1 DEF DeployWired
    <3>1. Deployed(0, sc)' /\ (playbook.fresh => FreshDeployed(0, sc)')
      BY <1>6, <1>8
    <3>2. /\ \A s \in sc : ctr'[s] = "running" \/ Lost(s)'
          /\ ~Lost(Prom)' => file'.prom = conf'.port
          /\ ~Lost(Graf)' => file'.ds = conf'.port /\ file'.dash # "absent"
      BY <3>1 DEF Deployed, Lost
    <3>3. playbook.fresh => listen' = conf'.port
      BY <3>1 DEF FreshDeployed
    <3>4. QED
      BY <2>1, <3>2, <3>3 DEF DeployWired
  <2>5. FreshDeploySucceeds'
    <3> SUFFICES ASSUME last'.fresh, ~last'.bad
                 PROVE  last'.out = "ok" <=> origin' /\ GrafanaDirs' /\ conf'.admin
      BY DEF FreshDeploySucceeds
    <3>1. E = {} /\ playbook.fresh
      BY <2>1, <2>2
    <3>2. origin' = origin /\ GrafanaDirs' = GrafanaDirs
      BY <1>3, <1>4 DEF Applies, GrafanaDirs
    <3>3. ASSUME origin', GrafanaDirs', conf'.admin PROVE last'.out = "ok"
      <4>1. Failing = {}
        BY <1>1, <1>4, <3>1, <3>2, <3>3, FreshNeverFails
      <4>2. QED
        BY <2>1, <3>1, <4>1
    <3>4. ASSUME last'.out = "ok" PROVE origin' /\ GrafanaDirs' /\ conf'.admin
      <4>1. F = {}
        BY <2>1, <3>4
      <4>2. FreshDeployed(0, sc)'
        BY <1>6, <1>8, <3>1, <4>1
      <4>3. QED
        BY <4>2 DEF FreshDeployed
    <3>5. QED
      BY <3>3, <3>4
  <2>6. QED
    BY <1>4, <1>5, <2>3, <2>4, <2>5 DEF MonitorInv
<1>9. QED
  BY <1>7, <1>8

\* A step of another command runs, or the command is killed in one.
LEMMA OtherRuns ==
  ASSUME MonitorInv, NEW D, NEW H, NEW K, Applies(D, H, K), playbook # Idle,
         \/ playbook' = Idle /\ last' = NoCommand
         \/ /\ playbook.op # "deploy"
            /\ \/ playbook' = Idle /\ last'.op = playbook.op
               \/ \E E : playbook' = [playbook EXCEPT !.plan = Tail(@), !.bad = @ \/ E # {}] /\ last' = last
  PROVE  MonitorInv'
<1>1. conf' = conf /\ file' \in Files
  BY FileTyped DEF Applies
<1>2. last = NoCommand
  BY DEF MonitorInv, PlaybookOK
<1>3. CASE playbook' = Idle /\ last'.op # "deploy"
  <2>1. PlaybookOK' /\ playbook'.op # "deploy"
    BY <1>3 DEF PlaybookOK, Idle
  <2>2. QED
    BY <1>1, <1>3, <2>1, OtherCommand
<1>4. CASE /\ playbook.op # "deploy" /\ last' = last
           /\ \E E : playbook' = [playbook EXCEPT !.plan = Tail(@), !.bad = @ \/ E # {}]
  <2>1. PlaybookOK' /\ playbook'.op = playbook.op
    <3>1. PICK b : playbook' = [playbook EXCEPT !.plan = Tail(playbook.plan), !.bad = b]
      BY <1>4, Zenon
    <3>2. playbook = [op |-> playbook.op, plan |-> playbook.plan, items |-> playbook.items,
                      fresh |-> playbook.fresh, bad |-> playbook.bad]
      BY DEF MonitorInv, PlaybookOK
    <3>3. QED
      BY <1>2, <1>4, <3>1, <3>2, GoesOnLemma DEF PlaybookOK
  <2>2. last'.op # "deploy"
    BY <1>2, <1>4 DEF NoCommand
  <2>3. QED
    BY <1>1, <1>4, <2>1, <2>2, OtherCommand
<1>5. NoCommand.op # "deploy"
  BY DEF NoCommand
<1>6. QED
  BY <1>3, <1>4, <1>5, Zenon

\* Every step keeps the invariant of Monitor.
LEMMA NextMonitorInv ==
  MonitorInv /\ [MonitorNext \/ UNCHANGED monitorVars]_monitorVars => MonitorInv'
<1> SUFFICES ASSUME MonitorInv, [MonitorNext \/ UNCHANGED monitorVars]_monitorVars PROVE MonitorInv'
  OBVIOUS
<1>1. CASE UNCHANGED monitorVars
  <2>1. /\ conf' = conf /\ file' = file /\ playbook' = playbook /\ last' = last
        /\ ctr' = ctr /\ row' = row /\ listen' = listen /\ origin' = origin
    BY <1>1 DEF monitorVars
  <2>2. StoredParses' /\ PlaybookOK' /\ FreshDeploySucceeds'
    BY <2>1 DEF MonitorInv, PlaybookOK, StoredParses, FreshDeploySucceeds, GrafanaDirs,
       ParsePanics, RolesOf, GetHostPanics
  <2>3. DeployWired'
    BY <2>1 DEF MonitorInv, DeployWired, Lost
  <2>4. ASSUME NEW k \in 1..8, NEW sc \in SUBSET Service
        PROVE  Deployed(k, sc)' = Deployed(k, sc) /\ FreshDeployed(k, sc)' = FreshDeployed(k, sc)
    BY <2>1 DEF Deployed, FreshDeployed, GrafanaDirs
  <2>5. DeployInv'
    BY <2>1, <2>4 DEF MonitorInv, DeployInv
  <2>6. QED
    BY <2>1, <2>2, <2>3, <2>5 DEF MonitorInv
<1>2. CASE \E y \in Yaml, b \in BOOLEAN : Deploy(y, b) \/ Commit(y, b)
  BY <1>2, DeployKept, CommitKept
<1>3. ASSUME NEW op, op # "deploy", NEW role, NEW host, NEW items, NEW steps,
             Command(op, role, host, items, steps)
      PROVE  MonitorInv'
  BY <1>3, CommandKept DEF Command
<1>4. CASE \E f \in Filter :
       \/ MonitorStart(f[1], f[2]) \/ MonitorStop(f[1], f[2]) \/ MonitorRestart(f[1], f[2])
       \/ MonitorReload(f[1], f[2]) \/ MonitorStatus(f[1], f[2])
       \/ \E items \in {{"container"}, {"data"}, {"container", "data"}} : MonitorClean(f[1], f[2], items)
       \/ \E local \in BOOLEAN : UpgradeAtOnce(f[1], f[2], local)
  BY <1>3, <1>4 DEF MonitorStart, MonitorStop, MonitorRestart, MonitorReload, MonitorStatus,
     MonitorClean, UpgradeAtOnce
<1>5. CASE \E f \in Filter, local \in BOOLEAN, n \in 1..Cardinality(Service) :
             UpgradeOneByOne(f[1], f[2], local, n)
  BY <1>5, CommandKept DEF UpgradeOneByOne
<1>6. CASE \E E, K \in AtMostOne : \E H \in {{}, E} : RunStep(E, H, K)
  <2>1. PICK E \in AtMostOne, K \in AtMostOne : \E H \in {{}, E} : RunStep(E, H, K)
    BY <1>6
  <2>2. PICK H : RunStep(E, H, K)
    BY <2>1
  <2>3. CASE playbook.op = "deploy"
    BY <2>2, <2>3, DeployRuns
  <2>4. CASE playbook.op # "deploy"
    <3>1. playbook # Idle /\ Applies(Tasks \ (Failing \cup E), H, K)
      BY <2>2 DEF RunStep
    <3>2. \/ playbook' = Idle /\ last'.op = playbook.op
          \/ playbook' = [playbook EXCEPT !.plan = Tail(@), !.bad = @ \/ E # {}] /\ last' = last
      BY <2>2 DEF RunStep
    <3>3. QED
      BY <2>4, <3>1, <3>2, OtherRuns
  <2>5. QED
    BY <2>3, <2>4
<1>7. CASE playbook # Idle /\ \E D \in SUBSET Tasks, H \in AtMostOne : KillCommand(D, H)
  BY <1>7, OtherRuns DEF KillCommand
<1>8. CASE \/ \E t \in SUBSET Host, o \in BOOLEAN : CommitTopology(t, o)
           \/ ClusterCommand \/ \E s \in Service : Lose(s)
  <2>1. playbook = Idle /\ playbook' = playbook /\ last' = NoCommand /\ conf' = conf /\ file' = file
    BY <1>8 DEF CommitTopology, ClusterCommand, Lose
  <2>2. PlaybookOK' /\ playbook'.op # "deploy" /\ last'.op # "deploy" /\ file' \in Files
    BY <2>1 DEF PlaybookOK, Idle, NoCommand, MonitorInv
  <2>3. QED
    BY <2>1, <2>2, OtherCommand
<1>9. QED
  BY <1>1, <1>2, <1>4, <1>5, <1>6, <1>7, <1>8 DEF MonitorNext

\* MonitorInv always holds.
LEMMA MonitorInvariance == MonitorSpec => []MonitorInv
BY InitMonitorInv, NextMonitorInv, PTL DEF MonitorSpec

\* What deploy and config commit store can always be parsed again, whatever files
\* the operator has: no later command panics on it.
THEOREM StoredAlwaysParses == MonitorSpec => []StoredParses
<1>1. MonitorInv => StoredParses
  BY DEF MonitorInv
<1>2. QED
  BY <1>1, MonitorInvariance, PTL

\* "Deploy monitor success" is true on any topology: every service runs or was lost
\* before, and prometheus and grafana are wired to the configured port.
THEOREM DeployIsWired == MonitorSpec => []DeployWired
<1>1. MonitorInv => DeployWired
  BY DEF MonitorInv
<1>2. QED
  BY <1>1, MonitorInvariance, PTL

\* A deploy that finds no containers and in which no task fails for a reason of its
\* own succeeds exactly if the container of dcs[0] is on the monitor's host,
\* prometheus has a deploy list and grafana its default credentials, on any
\* topology and whatever happened before.
THEOREM FreshDeployAlwaysSucceeds == MonitorSpec => []FreshDeploySucceeds
<1>1. MonitorInv => FreshDeploySucceeds
  BY DEF MonitorInv
<1>2. QED
  BY <1>1, MonitorInvariance, PTL

=============================================================================
