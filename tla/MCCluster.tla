----------------------------- MODULE MCCluster -----------------------------
(* Topologies and commands for model checking Cluster. *)
EXTENDS Cluster, TLC

Deploy(host, instances, replicas) ==
  [host |-> host, name |-> NoName, instances |-> instances, replicas |-> replicas, replica |-> 0]
Hosts == <<"h1", "h2", "h3">>
On(n) == [k \in 1..n |-> Deploy(Hosts[k], 0, 0)]

Topology(kind, f) ==
  [kind |-> kind,
   deploy |-> [s \in Sections |-> IF s \in DOMAIN f THEN f[s] ELSE <<>>]]

\* Every mix of absent, too few and enough services, in the three kinds.
Mixes ==
  {Topology("dingofs", "coordinator" :> On(c) @@ "store" :> On(s) @@ "mds" :> On(m) @@ "executor" :> On(e)) :
     c \in {0, 3}, s \in {0, 3}, m \in {0, 2}, e \in {0, 1}}
  \cup {Topology("dingofs", "etcd" :> On(3) @@ "metaserver" :> On(3) @@ "mds" :> On(1))}
  \cup {Topology("dingo-store", "coordinator" :> On(c) @@ "store" :> On(s) @@ "executor" :> On(1)) :
     c \in {0, 3}, s \in {0, 2, 3}}
  \cup {Topology("dingodb", "coordinator" :> On(3) @@ "store" :> On(3) @@ "document" :> On(d)
          @@ "index" :> On(1) @@ "diskann" :> On(d) @@ "executor" :> On(1) @@ "web" :> On(d) @@ "proxy" :> On(1)) :
     d \in {0, 1}}

Command(name, local, force, insecure, role, host) ==
  [name |-> name, local |-> local, force |-> force, insecure |-> insecure, role |-> role, host |-> host,
   skip |-> {}]
Commit(force) == Command("commit", FALSE, force, FALSE, "*", "*")
DeployK(local) == Command("deploy", local, FALSE, TRUE, "*", "*")
Precheck(skip) == [Command("precheck", FALSE, FALSE, FALSE, "*", "*") EXCEPT !.skip = skip]
Upgrade(local, force, role, host) == Command("upgrade", local, force, FALSE, role, host)

AllCommands ==
  {Commit(FALSE), Commit(TRUE)} \cup {DeployK(l) : l \in BOOLEAN}
  \cup {Command("deploy", FALSE, FALSE, FALSE, "*", "*")}
  \cup {Precheck(s) : s \in {{}, {"disk"}, {"topology"}, {"topology", "network", "ssh"}}}
  \cup {Upgrade(l, f, "*", "*") : l \in BOOLEAN, f \in BOOLEAN}
  \cup {Upgrade(FALSE, TRUE, "mds", "*"), Upgrade(FALSE, FALSE, "mds-client", "*"), Upgrade(TRUE, TRUE, "*", "h1")}
============================================================================
