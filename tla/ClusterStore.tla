---------------------------- MODULE ClusterStore ----------------------------
(***************************************************************************)
(* The database of dingocli: the tables clusters, containers and hosts,    *)
(* and the commands that work on them: `cluster add`, `checkout`, `rm`,    *)
(* `rename`, `hosts commit`, and, for the containers table, a deploy and a *)
(* clean of the cluster the process works on.                              *)
(*                                                                         *)
(* Every command is a process of its own.  It reads the current cluster    *)
(* when it begins, and goes on with one SQL statement at a time; the       *)
(* statements of processes interleave, and a process may be killed between *)
(* any two.  The database (external) executes a statement atomically and   *)
(* keeps names unique.                                                     *)
(*                                                                         *)
(* SelectCluster compares with LIKE, the statements that write compare     *)
(* with =.                                                                 *)
(***************************************************************************)
EXTENDS Integers, FiniteSets

CONSTANTS
  Proc,         \* the processes
  Names,        \* the names operators use for clusters
  Fold(_),      \* a name in lower case
  Wildcard,     \* the pairs <<n, pattern>> in which the _ and % of pattern match n
  Ops,          \* the commands operators give
  MaxClusters,  \* bound: clusters ever added
  MaxCommands   \* bound: commands given

None == "none"
AllOps == {"add", "checkout", "rm", "rename", "hosts", "deploy", "clean"}

ASSUME StoreAssumption ==
  /\ MaxClusters \in Nat /\ MaxCommands \in Nat
  /\ None \notin Names
  /\ Ops \subseteq AllOps
  /\ Wildcard \subseteq Names \X Names

VARIABLES
  name,      \* clusters.name: id -> name, or None
  current,   \* clusters.current
  seq,       \* the AUTOINCREMENT sequence of clusters
  service,   \* containers: cluster id -> "none", "active" or "cleaned"
  hosts,     \* the number of rows of hosts
  lastHosts, \* the row of hosts that was written last
  pc, op, arg, new, force,   \* per process: where it is, its command and options
  cid,       \* ClusterId() of the process
  hit,       \* what its last query found
  overlap,   \* whether two commands ever ran at the same time
  renamed,   \* history: the clusters that ever got another name
  commands

tables == <<name, current, seq, service, hosts, lastHosts, renamed>>
options == <<op, arg, new, force, cid, overlap>>
vars == <<tables, options, pc, hit, commands>>

Cids == 1..MaxClusters
NoCluster == -1
NoHit == 0
Pcs == {"idle", "query", "check", "confirm", "query2", "write"}

Init ==
  /\ name = [i \in Cids |-> None]
  /\ current = [i \in Cids |-> FALSE]
  /\ seq = 0
  /\ service = [i \in Cids |-> "none"]
  /\ hosts = 0
  /\ lastHosts = 0
  /\ pc = [p \in Proc |-> "idle"]
  /\ op = [p \in Proc |-> "add"]
  /\ arg = [p \in Proc |-> None]
  /\ new = [p \in Proc |-> None]
  /\ force = [p \in Proc |-> FALSE]
  /\ cid = [p \in Proc |-> NoCluster]
  /\ hit = [p \in Proc |-> NoHit]
  /\ overlap = FALSE
  /\ renamed = {}
  /\ commands = 0

(***************************************************************************)
(* Statements                                                              *)
(***************************************************************************)

Rows == {i \in Cids : name[i] # None}
Currents == {i \in Cids : current[i]}

\* GetCurrentCluster: none, if there is not exactly one.
GetCurrentCluster ==
  IF Cardinality(Currents) = 1 THEN CHOOSE i \in Currents : TRUE ELSE NoCluster

\* SelectCluster; the result is in the order of the ids, and clusters[0] the first.
LikeExact(n, pattern) == n = pattern
Like(n, pattern) == <<n, pattern>> \in Wildcard \/ Fold(n) = Fold(pattern)
GetClusters(pattern) == {i \in Rows : Like(name[i], pattern)}
First(ids) == CHOOSE i \in ids : \A j \in ids : i <= j

\* The rows WHERE name = n.
HasName(n) == {i \in Rows : name[i] = n}

\* GetClusterByName for the cluster named in the environment; an error is only
\* logged and leaves no cluster.
GetClusterByName(n) == IF HasName(n) = {} THEN NoCluster ELSE CHOOSE i \in HasName(n) : TRUE

\* CheckoutCluster sets one flag and clears all the others.
CheckoutNoElse(n) == [i \in Cids |-> current[i] \/ i \in HasName(n)]
Checkout(n) == [i \in Cids |-> i \in HasName(n)]

\* AUTOINCREMENT: an id is never given twice.
NextIdReused == IF Rows = {} THEN 1 ELSE (CHOOSE i \in Rows : \A j \in Rows : j <= i) + 1
NextId == seq + 1

(***************************************************************************)
(* The life of a process                                                   *)
(***************************************************************************)

\* The name in a command that takes none.
AnyName == CHOOSE n \in Names : TRUE

FirstPc(o) ==
  CASE o \in {"deploy", "clean"} -> "write"
    [] o = "hosts" -> "confirm"
    [] OTHER -> "query"

\* init reads the cluster to work on: the one the environment names (force stands
\* for that in a deploy or a clean), or the current one.  A deploy or a clean
\* needs one, since it needs its topology.
Start(p, o, a, b, f) ==
  LET id == IF o \in {"deploy", "clean"} /\ f THEN GetClusterByName(a) ELSE GetCurrentCluster
  IN /\ pc[p] = "idle"
     /\ commands < MaxCommands
     /\ commands' = commands + 1
     /\ o \in {"deploy", "clean"} => id # NoCluster
     /\ pc' = [pc EXCEPT ![p] = FirstPc(o)]
     /\ op' = [op EXCEPT ![p] = o]
     /\ arg' = [arg EXCEPT ![p] = a]
     /\ new' = [new EXCEPT ![p] = b]
     /\ force' = [force EXCEPT ![p] = f]
     /\ cid' = [cid EXCEPT ![p] = id]
     /\ hit' = [hit EXCEPT ![p] = NoHit]
     /\ overlap' = (overlap \/ \E q \in Proc \ {p} : pc[q] # "idle")
     /\ UNCHANGED tables

Goto(p, to) ==
  /\ pc' = [pc EXCEPT ![p] = to]
  /\ UNCHANGED <<options, commands>>

\* The process ends, and what it knew is gone.
Exit(p) ==
  /\ pc' = [pc EXCEPT ![p] = "idle"]
  /\ op' = [op EXCEPT ![p] = "add"]
  /\ arg' = [arg EXCEPT ![p] = None]
  /\ new' = [new EXCEPT ![p] = None]
  /\ force' = [force EXCEPT ![p] = FALSE]
  /\ cid' = [cid EXCEPT ![p] = NoCluster]
  /\ hit' = [hit EXCEPT ![p] = NoHit]
  /\ UNCHANGED <<overlap, commands>>

\* The command returns an error, the operator declines, or the process is killed.
Abandon(p) ==
  /\ pc[p] # "idle"
  /\ Exit(p)
  /\ UNCHANGED tables

AfterQuery(o) ==
  CASE o = "rm" -> "check"
    [] o = "rename" -> "confirm"
    [] OTHER -> "write"

\* The first query: `add` wants no cluster of that name, the others want one.
\* Where it finds otherwise the command returns an error (Abandon).
Query(p) ==
  LET found == GetClusters(arg[p])
  IN /\ pc[p] = "query"
     /\ op[p] \in {"add", "checkout", "rm", "rename"}
     /\ (op[p] = "add") = (found = {})
     /\ hit' = [hit EXCEPT ![p] = IF found = {} THEN NoHit ELSE First(found)]
     /\ Goto(p, AfterQuery(op[p]))
     /\ UNCHANGED tables

\* checkAllServicesRemoved, of clusters[0].
CheckedClusterCurrent(p) == IF cid[p] = NoCluster THEN hit[p] ELSE cid[p]
CheckedCluster(p) == hit[p]
CheckServices(p) ==
  /\ pc[p] = "check"
  /\ force[p] \/ service[CheckedCluster(p)] # "active"
  /\ Goto(p, "confirm")
  /\ UNCHANGED <<hit, tables>>

\* The operator confirms, or --force does.
Confirm(p) ==
  /\ pc[p] = "confirm"
  /\ Goto(p, IF op[p] = "rm" THEN "write" ELSE "query2")
  /\ UNCHANGED <<hit, tables>>

\* RenameClusterName looks for the new name first.
QueryNew(p) ==
  /\ pc[p] = "query2" /\ op[p] = "rename"
  /\ GetClusters(new[p]) = {}
  /\ Goto(p, "write")
  /\ UNCHANGED <<hit, tables>>

\* SetHosts looks for a row first.
QueryHosts(p) ==
  /\ pc[p] = "query2" /\ op[p] = "hosts"
  /\ hit' = [hit EXCEPT ![p] = hosts]
  /\ Goto(p, "write")
  /\ UNCHANGED tables

\* The statement that ends a command.
Write(p, o) ==
  /\ pc[p] = "write" /\ op[p] = o
  /\ Exit(p)

\* The name is UNIQUE: the insert fails if the name is taken by now.
InsertCluster(p) ==
  /\ Write(p, "add")
  /\ HasName(arg[p]) = {}
  /\ NextId \in Cids
  /\ name' = [name EXCEPT ![NextId] = arg[p]]
  /\ seq' = NextId
  /\ UNCHANGED <<current, service, hosts, lastHosts, renamed>>

CheckoutCluster(p) ==
  /\ Write(p, "checkout")
  /\ current' = Checkout(arg[p])
  /\ UNCHANGED <<name, seq, service, hosts, lastHosts, renamed>>

\* The rows of containers stay.
DeleteCluster(p) ==
  /\ Write(p, "rm")
  /\ name' = [i \in Cids |-> IF i \in HasName(arg[p]) THEN None ELSE name[i]]
  /\ current' = [i \in Cids |-> current[i] /\ i \notin HasName(arg[p])]
  /\ UNCHANGED <<seq, service, hosts, lastHosts, renamed>>

RenameCluster(p) ==
  /\ Write(p, "rename")
  /\ HasName(arg[p]) = {} \/ HasName(new[p]) = {}
  /\ name' = [i \in Cids |-> IF i \in HasName(arg[p]) THEN new[p] ELSE name[i]]
  /\ renamed' = renamed \cup HasName(arg[p])
  /\ UNCHANGED <<current, seq, service, hosts, lastHosts>>

\* SetHosts inserts a row if it saw none, or updates the first.
SetHostsNew(p) == hit[p] = 0
SetHosts(p) ==
  /\ Write(p, "hosts")
  /\ IF SetHostsNew(p) THEN hosts' = hosts + 1 /\ lastHosts' = hosts + 1
                       ELSE lastHosts' = 1 /\ UNCHANGED hosts
  /\ UNCHANGED <<name, current, seq, service, renamed>>

\* InsertService or SetContainId by a deploy of the cluster the process read.
InsertService(p) ==
  /\ Write(p, "deploy")
  /\ service' = [service EXCEPT ![cid[p]] = "active"]
  /\ UNCHANGED <<name, current, seq, hosts, lastHosts, renamed>>

\* SetContainId by a clean.
SetCleaned(p) ==
  /\ Write(p, "clean")
  /\ service' = [service EXCEPT ![cid[p]] = IF @ = "none" THEN "none" ELSE "cleaned"]
  /\ UNCHANGED <<name, current, seq, hosts, lastHosts, renamed>>

\* The operators have no more commands to give.
Quiet == commands = MaxCommands /\ (\A p \in Proc : pc[p] = "idle") /\ UNCHANGED vars

Step(p) ==
  \/ Query(p) \/ CheckServices(p) \/ Confirm(p) \/ QueryNew(p) \/ QueryHosts(p)
  \/ InsertCluster(p) \/ CheckoutCluster(p) \/ DeleteCluster(p) \/ RenameCluster(p)
  \/ SetHosts(p) \/ InsertService(p) \/ SetCleaned(p) \/ Abandon(p)

Next ==
  \/ \E p \in Proc, o \in Ops, a, b \in Names, f \in BOOLEAN :
       /\ o # "rename" => b = a
       /\ (o = "hosts" \/ (o \in {"deploy", "clean"} /\ ~f)) => a = AnyName
       /\ f => o \in {"rm", "deploy", "clean"}
       /\ Start(p, o, a, b, f)
  \/ \E p \in Proc : Step(p)
  \/ Quiet

Spec == Init /\ [][Next]_vars

(***************************************************************************)
(* Properties                                                              *)
(***************************************************************************)

\* Every variable has its type.
TypeOK ==
  /\ name \in [Cids -> Names \cup {None}]
  /\ current \in [Cids -> BOOLEAN]
  /\ seq \in 0..MaxClusters
  /\ service \in [Cids -> {"none", "active", "cleaned"}]
  /\ hosts \in Nat /\ lastHosts \in Nat
  /\ pc \in [Proc -> Pcs]
  /\ op \in [Proc -> AllOps]
  /\ arg \in [Proc -> Names \cup {None}] /\ new \in [Proc -> Names \cup {None}]
  /\ force \in [Proc -> BOOLEAN]
  /\ cid \in [Proc -> Cids \cup {NoCluster}]
  /\ hit \in [Proc -> Nat]
  /\ overlap \in BOOLEAN
  /\ renamed \subseteq Cids
  /\ commands \in 0..MaxCommands

\* However the commands interleave, at most one cluster is the current one, and
\* it is in the table: GetCurrentCluster takes two for none.
AtMostOneCurrent ==
  /\ \A i, j \in Currents : i = j
  /\ Currents \subseteq Rows

\* A cluster that is added has no services: it does not inherit the rows of one
\* that was removed, which stay in containers for good.
NewClusterEmpty ==
  [][\A i \in Cids : (name[i] = None /\ name'[i] # None) => service[i] = "none"]_vars

\* While commands do not overlap, no two clusters have names that differ in case
\* only; clusters[0] of the own name of a cluster, wildcards in it or not, is that
\* cluster, unless one that was added before it has been renamed; and what the
\* last `hosts commit` wrote is what the next command reads, the first row.
SerialConsistent ==
  ~overlap =>
    /\ \A i, j \in Rows : Fold(name[i]) = Fold(name[j]) => i = j
    /\ \A i, j \in Rows : (j < i /\ Like(name[j], name[i])) => j \in renamed
    /\ hosts # 0 => lastHosts = 1

\* While commands do not overlap, `cluster rm` without --force removes a cluster
\* with a service that was not cleaned (checkAllServicesRemoved, of clusters[0])
\* only if the name has a wildcard that matches an earlier cluster, which was
\* renamed: then that cluster is checked, and = removes this one.
RemoveKeepsActive ==
  [][\A p \in Proc : (DeleteCluster(p) /\ ~force[p] /\ ~overlap) =>
       \A i \in HasName(arg[p]) : service[i] = "active" =>
         \E j \in Rows \cap renamed : j < i /\ <<name[j], arg[p]>> \in Wildcard]_vars

=============================================================================
