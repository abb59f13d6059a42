---------------------------- MODULE ClusterProofs ----------------------------
(***************************************************************************)
(* Proofs about ClusterStore, for any number of processes, names, clusters *)
(* and commands, and whatever LIKE matches; and about Cluster, for any     *)
(* topologies of the three kinds, any commands and any number of faults.   *)
(*                                                                         *)
(* The inductive invariant of ClusterStore adds to TypeOK and              *)
(* AtMostOneCurrent what they rest on: names are unique, the ids in use are*)
(* those given so far, and the options of a running command are names.  For*)
(* commands that do not overlap, SerialInv adds what the statements of the *)
(* one running command have found out so far, and that it is still so.     *)
(*                                                                         *)
(* The one of Cluster, ClusterInv, is about the steps that are left of a   *)
(* playbook.  Up(plan, i, svc[i]) says that service i runs, or will when   *)
(* they have succeeded, and that nothing which must wait for it is started *)
(* before; it is so for every service of the topology or batch when the    *)
(* playbook is made, because of what its list of steps is (Ready), and a   *)
(* step that succeeds keeps it.                                            *)
(***************************************************************************)
EXTENDS ClusterStore, Cluster, FiniteSetTheorems, SequenceTheorems, WellFoundedInduction, TLAPS

\* Two rows of clusters never have the same name (UNIQUE, sql.go:108).
NamesUnique == \A i, j \in Rows : name[i] = name[j] => i = j

\* Nothing belongs to an id that AUTOINCREMENT has not given.
IdsGiven ==
  /\ \A i \in Rows : i <= seq
  /\ \A i \in Cids : service[i] # "none" => i <= seq
  /\ \A p \in Proc : cid[p] \in Cids => cid[p] <= seq

\* A process that runs a command has names as its arguments, and a deploy or a
\* clean has a cluster.
ArgsGiven ==
  \A p \in Proc : pc[p] # "idle" =>
    /\ arg[p] \in Names /\ new[p] \in Names
    /\ op[p] \in {"deploy", "clean"} => cid[p] \in Cids

IInv == TypeOK /\ AtMostOneCurrent /\ NamesUnique /\ IdsGiven /\ ArgsGiven

\* A set of numbers that is not empty has a least element.
LEMMA LeastElement ==
  ASSUME NEW T, T \subseteq Nat, T # {}
  PROVE  \E i \in T : \A j \in T : i <= j
<1>1. \E i \in T : \A j \in T : <<j, i>> \notin OpToRel(<, Nat)
  BY WFMin, NatLessThanWellFounded
<1>2. \A i, j \in Nat : <<j, i>> \notin OpToRel(<, Nat) => i <= j
  BY DEF OpToRel
<1>3. QED
  BY <1>1, <1>2

\* Initially the tables are empty.
LEMMA InitIInv == Init => IInv
<1> SUFFICES ASSUME Init PROVE IInv
  OBVIOUS
<1> USE StoreAssumption DEF Init
<1>1. TypeOK
  <2>1. overlap \in BOOLEAN /\ current \in [Cids -> BOOLEAN] /\ force \in [Proc -> BOOLEAN]
    OBVIOUS
  <2>2. /\ name \in [Cids -> Names \cup {None}] /\ seq \in 0..MaxClusters
        /\ service \in [Cids -> {"none", "active", "cleaned"}]
        /\ commands \in 0..MaxCommands
    OBVIOUS
  <2>3. /\ pc \in [Proc -> Pcs] /\ op \in [Proc -> AllOps] /\ hit \in [Proc -> Nat]
        /\ arg \in [Proc -> Names \cup {None}] /\ new \in [Proc -> Names \cup {None}]
        /\ cid \in [Proc -> Cids \cup {NoCluster}]
    BY DEF Pcs, AllOps, NoHit
  <2>4. hosts \in Nat /\ lastHosts \in Nat /\ renamed \subseteq Cids
    OBVIOUS
  <2>5. QED
    BY <2>1, <2>2, <2>3, <2>4 DEF TypeOK
<1>2. AtMostOneCurrent /\ NamesUnique /\ IdsGiven /\ ArgsGiven
  BY DEF AtMostOneCurrent, NamesUnique, IdsGiven, ArgsGiven, Rows, Currents, Cids, NoCluster
<1>3. QED
  BY <1>1, <1>2 DEF IInv

\* What GetCurrentCluster and GetClusterByName return is an id in use, or none.
LEMMA CurrentGiven ==
  ASSUME IInv
  PROVE  /\ GetCurrentCluster \in Cids \cup {NoCluster}
         /\ GetCurrentCluster \in Cids => GetCurrentCluster <= seq
         /\ \A n : GetClusterByName(n) \in Cids \cup {NoCluster}
         /\ \A n : GetClusterByName(n) \in Cids => GetClusterByName(n) <= seq
<1>1. ASSUME Cardinality(Currents) = 1, Currents = {}
      PROVE  FALSE
  BY <1>1, FS_EmptySet
<1>2. Currents # {} => (CHOOSE i \in Currents : TRUE) \in Currents
  OBVIOUS
<1>3. GetCurrentCluster \in Currents \cup {NoCluster}
  BY <1>1, <1>2 DEF GetCurrentCluster
<1>4. ASSUME NEW n
      PROVE  GetClusterByName(n) \in Rows \cup {NoCluster}
  <2>1. HasName(n) # {} => (CHOOSE i \in HasName(n) : TRUE) \in HasName(n)
    OBVIOUS
  <2>2. HasName(n) \subseteq Rows
    BY DEF HasName
  <2>3. QED
    BY <2>1, <2>2 DEF GetClusterByName
<1>5. Currents \subseteq Rows /\ Rows \subseteq Cids /\ NoCluster \notin Cids
  BY StoreAssumption DEF IInv, AtMostOneCurrent, Rows, Cids, NoCluster
<1>6. \A i \in Rows : i <= seq
  BY DEF IInv, IdsGiven
<1>7. QED
  BY <1>3, <1>4, <1>5, <1>6

\* A step that leaves the tables alone, and goes on in a command or ends it,
\* keeps the invariant.
LEMMA GotoPreserves ==
  ASSUME IInv, UNCHANGED tables, NEW p \in Proc, pc[p] # "idle",
         NEW to \in Pcs, Goto(p, to), hit' \in [Proc -> Nat]
  PROVE  IInv'
<1> USE DEF IInv, Goto, tables, options
<1>1. TypeOK'
  BY DEF TypeOK
<1>2. AtMostOneCurrent' /\ NamesUnique' /\ IdsGiven'
  BY DEF AtMostOneCurrent, NamesUnique, IdsGiven, Rows, Currents
<1>3. ArgsGiven'
  BY DEF TypeOK, ArgsGiven
<1>4. QED
  BY <1>1, <1>2, <1>3

\* A process that ends keeps the types, and its arguments no longer matter.
LEMMA ExitKeeps ==
  ASSUME IInv, NEW p \in Proc, Exit(p)
  PROVE  /\ op' \in [Proc -> AllOps] /\ arg' \in [Proc -> Names \cup {None}]
         /\ new' \in [Proc -> Names \cup {None}] /\ force' \in [Proc -> BOOLEAN]
         /\ cid' \in [Proc -> Cids \cup {NoCluster}] /\ hit' \in [Proc -> Nat]
         /\ pc' \in [Proc -> Pcs]
         /\ ArgsGiven'
         /\ \A q \in Proc : cid'[q] \in Cids => cid'[q] <= seq
<1> USE DEF IInv, Exit, TypeOK
<1>1. op' \in [Proc -> AllOps] /\ pc' \in [Proc -> Pcs] /\ hit' \in [Proc -> Nat]
  BY DEF AllOps, Pcs, NoHit
<1>2. arg' \in [Proc -> Names \cup {None}] /\ new' \in [Proc -> Names \cup {None}]
      /\ force' \in [Proc -> BOOLEAN] /\ cid' \in [Proc -> Cids \cup {NoCluster}]
  OBVIOUS
<1>3. ArgsGiven'
  BY DEF ArgsGiven
<1>4. \A q \in Proc : cid'[q] \in Cids => cid'[q] <= seq
  BY DEF IdsGiven, Cids, NoCluster
<1>5. QED
  BY <1>1, <1>2, <1>3, <1>4

\* A process that ends without a write keeps the invariant.
LEMMA AbandonPreserves ==
  ASSUME IInv, NEW p \in Proc, Abandon(p)
  PROVE  IInv'
<1>1. Exit(p) /\ UNCHANGED tables
  BY DEF Abandon
<1>2. TypeOK'
  BY <1>1, ExitKeeps DEF IInv, TypeOK, tables, Exit
<1>3. AtMostOneCurrent' /\ NamesUnique'
  BY <1>1 DEF IInv, AtMostOneCurrent, NamesUnique, tables, Rows, Currents
<1>4. IdsGiven'
  BY <1>1, ExitKeeps DEF IInv, IdsGiven, tables, Rows
<1>5. QED
  BY <1>1, <1>2, <1>3, <1>4, ExitKeeps DEF IInv

\* A command begins with names for arguments and the cluster it reads.
LEMMA StartPreserves ==
  ASSUME IInv, NEW p \in Proc, NEW o \in AllOps, NEW a \in Names, NEW b \in Names,
         NEW f \in BOOLEAN, Start(p, o, a, b, f)
  PROVE  IInv'
<1> DEFINE id == IF o \in {"deploy", "clean"} /\ f THEN GetClusterByName(a) ELSE GetCurrentCluster
<1>1. id \in Cids \cup {NoCluster} /\ (id \in Cids => id <= seq)
  BY CurrentGiven
<1>2. cid' = [cid EXCEPT ![p] = id] /\ (o \in {"deploy", "clean"} => id # NoCluster)
  BY DEF Start
<1> HIDE DEF id
<1>3. FirstPc(o) \in Pcs
  BY DEF FirstPc, Pcs
<1> USE DEF IInv, Start, tables
<1>4. TypeOK'
  BY <1>1, <1>2, <1>3, StoreAssumption DEF TypeOK, NoHit
<1>5. AtMostOneCurrent' /\ NamesUnique'
  BY DEF AtMostOneCurrent, NamesUnique, Rows, Currents
<1>6. IdsGiven'
  BY <1>1, <1>2 DEF IdsGiven, TypeOK, Rows
<1>7. ArgsGiven'
  BY <1>1, <1>2 DEF ArgsGiven, TypeOK
<1>8. QED
  BY <1>4, <1>5, <1>6, <1>7

\* Every statement that writes keeps the invariant.
LEMMA WritePreserves ==
  ASSUME IInv, NEW p \in Proc,
         \/ InsertCluster(p) \/ CheckoutCluster(p) \/ DeleteCluster(p) \/ RenameCluster(p)
         \/ SetHosts(p) \/ InsertService(p) \/ SetCleaned(p)
  PROVE  IInv'
<1> USE DEF IInv
<1>0. pc[p] = "write" /\ Exit(p) /\ UNCHANGED <<overlap, commands>>
  BY DEF Write, Exit, InsertCluster, CheckoutCluster, DeleteCluster, RenameCluster, SetHosts,
     InsertService, SetCleaned
<1>1. /\ op' \in [Proc -> AllOps] /\ arg' \in [Proc -> Names \cup {None}]
      /\ new' \in [Proc -> Names \cup {None}] /\ force' \in [Proc -> BOOLEAN]
      /\ cid' \in [Proc -> Cids \cup {NoCluster}] /\ hit' \in [Proc -> Nat]
      /\ UNCHANGED <<overlap, commands>>
      /\ \A q \in Proc : cid'[q] \in Cids => cid'[q] <= seq
  BY <1>0, ExitKeeps
<1>2. arg[p] \in Names /\ new[p] \in Names /\ None \notin Names
  BY <1>0, StoreAssumption DEF ArgsGiven
<1>3. ArgsGiven'
  BY <1>0, ExitKeeps
<1>4. pc' \in [Proc -> Pcs]
  BY <1>0, ExitKeeps
<1>5. CASE InsertCluster(p)
  <2>1. NextId = seq + 1 /\ NextId \in Cids /\ name' = [name EXCEPT ![NextId] = arg[p]]
        /\ seq' = NextId /\ UNCHANGED <<current, service, hosts, lastHosts, renamed>> /\ HasName(arg[p]) = {}
    BY <1>5 DEF InsertCluster, NextId
  <2>2. NextId \notin Rows /\ seq \in Nat /\ Rows' = Rows \cup {NextId}
    BY <2>1, <1>2 DEF IdsGiven, TypeOK, Rows, Cids
  <2>3. TypeOK'
    BY <1>1, <1>2, <1>4, <2>1, StoreAssumption DEF TypeOK, Cids
  <2>4. AtMostOneCurrent'
    BY <2>1, <2>2 DEF AtMostOneCurrent, Currents
  <2>5. NamesUnique'
    BY <2>1, <2>2 DEF NamesUnique, HasName, TypeOK, Rows
  <2>6. IdsGiven'
    <3>1. seq' = seq + 1 /\ UNCHANGED service /\ seq \in Nat
      BY <1>1, <2>1, <2>2
    <3>2. (\A i \in Cids : i \in Int) /\ Rows \subseteq Cids
      BY DEF Cids, Rows
    <3>3. \A i \in Rows' : i <= seq'
      <4> SUFFICES ASSUME NEW i \in Rows' PROVE i <= seq'
        OBVIOUS
      <4>1. CASE i = NextId
        BY <2>1, <3>1, <4>1
      <4>2. CASE i \in Rows
        <5>1. i <= seq /\ i \in Int
          BY <3>2, <4>2 DEF IdsGiven
        <5>2. QED
          BY <3>1, <5>1
      <4>3. QED
        BY <2>2, <4>1, <4>2
    <3>4. \A q \in Proc : cid'[q] \in Cids => cid'[q] <= seq'
      BY <1>1, <3>1, <3>2
    <3>5. QED
      BY <3>1, <3>2, <3>3, <3>4 DEF IdsGiven
  <2>7. QED
    BY <1>3, <2>3, <2>4, <2>5, <2>6
<1>6. CASE CheckoutCluster(p)
  <2>1. current' = [i \in Cids |-> i \in HasName(arg[p])] 
        /\ UNCHANGED <<name, seq, service, hosts, lastHosts, renamed>>
    BY <1>6 DEF CheckoutCluster, Checkout
  <2>2. Currents' = HasName(arg[p]) /\ Rows' = Rows
    BY <2>1 DEF Currents, HasName, Rows
  <2>3. TypeOK' /\ IdsGiven' /\ NamesUnique'
    BY <1>1, <1>4, <2>1, <2>2 DEF TypeOK, IdsGiven, NamesUnique
  <2>4. AtMostOneCurrent'
    BY <2>1, <2>2 DEF AtMostOneCurrent, NamesUnique, HasName
  <2>5. QED
    BY <1>3, <2>3, <2>4
<1>7. CASE DeleteCluster(p)
  <2>1. /\ name' = [i \in Cids |-> IF i \in HasName(arg[p]) THEN None ELSE name[i]]
        /\ current' = [i \in Cids |-> current[i] /\ i \notin HasName(arg[p])]
        /\ UNCHANGED <<seq, service, hosts, lastHosts, renamed>>
    BY <1>7 DEF DeleteCluster
  <2>2. Rows' = Rows \ HasName(arg[p]) /\ Currents' = Currents \ HasName(arg[p])
    BY <2>1 DEF Currents, HasName, Rows
  <2>3. TypeOK'
    BY <1>1, <1>4, <2>1 DEF TypeOK
  <2>4. AtMostOneCurrent' /\ IdsGiven'
    BY <1>1, <2>1, <2>2 DEF AtMostOneCurrent, IdsGiven
  <2>5. NamesUnique'
    BY <2>1, <2>2 DEF NamesUnique, Rows
  <2>6. QED
    BY <1>3, <2>3, <2>4, <2>5
<1>8. CASE RenameCluster(p)
  <2>1. /\ name' = [i \in Cids |-> IF i \in HasName(arg[p]) THEN new[p] ELSE name[i]]
        /\ HasName(arg[p]) = {} \/ HasName(new[p]) = {}
        /\ renamed' = renamed \cup HasName(arg[p]) /\ HasName(arg[p]) \subseteq Cids
        /\ UNCHANGED <<current, seq, service, hosts, lastHosts>>
    BY <1>8 DEF RenameCluster, HasName, Rows
  <2>2. Rows' = Rows /\ Currents' = Currents
    BY <1>2, <2>1 DEF Currents, HasName, Rows
  <2>3. TypeOK'
    BY <1>1, <1>2, <1>4, <2>1 DEF TypeOK
  <2>4. AtMostOneCurrent' /\ IdsGiven'
    BY <1>1, <2>1, <2>2 DEF AtMostOneCurrent, IdsGiven
  <2>5. NamesUnique'
    BY <2>1, <2>2 DEF NamesUnique, HasName, Rows
  <2>6. QED
    BY <1>3, <2>3, <2>4, <2>5
<1>9. CASE SetHosts(p)
  <2>1. hosts \in Nat
    BY DEF TypeOK
  <2>2. hosts' \in Nat /\ lastHosts' \in Nat
    BY <1>9, <2>1 DEF SetHosts
  <2>3. UNCHANGED <<name, current, seq, service, renamed>>
    BY <1>9 DEF SetHosts
  <2>4. TypeOK'
    BY <1>1, <1>4, <2>2, <2>3 DEF TypeOK
  <2>5. QED
    BY <1>1, <1>3, <2>3, <2>4 DEF AtMostOneCurrent, NamesUnique, IdsGiven, Rows, Currents
<1>10. CASE InsertService(p) \/ SetCleaned(p)
  <2>1. PICK s \in {"none", "active", "cleaned"} : service' = [service EXCEPT ![cid[p]] = s]
    <3>1. cid[p] \in Cids
      BY <1>0, <1>10 DEF ArgsGiven, Write, InsertService, SetCleaned
    <3>2. service[cid[p]] \in {"none", "active", "cleaned"}
      BY <3>1 DEF TypeOK
    <3>3. QED
      BY <1>10, <3>2 DEF InsertService, SetCleaned
  <2>2. cid[p] \in Cids /\ UNCHANGED <<name, current, seq, hosts, lastHosts, renamed>>
    BY <1>0, <1>10 DEF ArgsGiven, Write, InsertService, SetCleaned
  <2>3. TypeOK' /\ IdsGiven'
    BY <1>1, <1>4, <2>1, <2>2 DEF TypeOK, IdsGiven, Rows
  <2>4. QED
    BY <1>3, <2>2, <2>3 DEF AtMostOneCurrent, NamesUnique, Rows, Currents
<1>11. QED
  BY <1>5, <1>6, <1>7, <1>8, <1>9, <1>10

\* A query finds an id, a row count or nothing, and changes no table.
LEMMA QueryPreserves ==
  ASSUME IInv, NEW p \in Proc,
         \/ Query(p) \/ CheckServices(p) \/ Confirm(p) \/ QueryNew(p) \/ QueryHosts(p)
  PROVE  IInv'
<1>1. pc[p] # "idle" /\ UNCHANGED tables
  BY DEF Query, CheckServices, Confirm, QueryNew, QueryHosts
<1>2. PICK to \in Pcs : Goto(p, to)
  BY DEF Query, CheckServices, Confirm, QueryNew, QueryHosts, AfterQuery, Pcs
<1>3. hit' \in [Proc -> Nat]
  <2>1. hit \in [Proc -> Nat] /\ hosts \in Nat
    BY DEF IInv, TypeOK
  <2>2. CASE Query(p)
    <3> DEFINE found == GetClusters(arg[p])
    <3>1. found = {} \/ First(found) \in Nat
      <4>1. found \subseteq Nat
        BY DEF GetClusters, Rows, Cids
      <4>2. found # {} => \E i \in found : \A j \in found : i <= j
        BY <4>1, LeastElement
      <4> HIDE DEF found
      <4>3. QED
        BY <4>1, <4>2 DEF First
    <3>2. QED
      BY <2>1, <2>2, <3>1 DEF Query, NoHit
  <2>3. CASE ~Query(p)
    <3>1. hit' = hit \/ hit' = [hit EXCEPT ![p] = hosts]
      BY <2>3 DEF CheckServices, Confirm, QueryNew, QueryHosts
    <3>2. QED
      BY <2>1, <3>1
  <2>4. QED
    BY <2>2, <2>3
<1>4. QED
  BY <1>1, <1>2, <1>3, GotoPreserves

\* Every step keeps the invariant.
LEMMA StepPreservesIInv ==
  ASSUME IInv, [Next]_vars
  PROVE  IInv'
<1>1. CASE UNCHANGED vars
  BY <1>1 DEF vars, tables, options, IInv, TypeOK, AtMostOneCurrent, NamesUnique, IdsGiven,
     ArgsGiven, Rows, Currents
<1>2. CASE \E p \in Proc : Step(p)
  <2>1. PICK p \in Proc : Step(p)
    BY <1>2
  <2>2. QED
    BY <2>1, QueryPreserves, AbandonPreserves, WritePreserves DEF Step
<1>3. CASE \E p \in Proc, o \in Ops, a, b \in Names, f \in BOOLEAN : Start(p, o, a, b, f)
  BY <1>3, StartPreserves, StoreAssumption
<1>4. QED
  BY <1>1, <1>2, <1>3 DEF Next, Quiet

\* The strengthened invariant holds in every behaviour.
THEOREM StoreInvariant == Spec => []IInv
<1>2. Init => IInv
  BY InitIInv
<1>3. IInv /\ [Next]_vars => IInv'
  BY StepPreservesIInv
<1>4. QED
  BY <1>2, <1>3, PTL DEF Spec

\* Every variable always has its type.
THEOREM TypeCorrect == Spec => []TypeOK
<1>1. IInv => TypeOK
  BY DEF IInv
<1>2. QED
  BY <1>1, StoreInvariant, PTL

\* However the statements of any number of processes interleave, at most one
\* cluster is the current one (CheckoutCluster, sql.go:136-142), and it exists.
THEOREM AtMostOneIsCurrent == Spec => []AtMostOneCurrent
<1>1. IInv => AtMostOneCurrent
  BY DEF IInv
<1>2. QED
  BY <1>1, StoreInvariant, PTL

\* A cluster is added under an id that no row of containers has: DeleteCluster
\* leaves those rows behind, and AUTOINCREMENT never gives their id again.
THEOREM NewClusterIsEmpty == Spec => NewClusterEmpty
<1> DEFINE A == \A i \in Cids : (name[i] = None /\ name'[i] # None) => service[i] = "none"
<1>1. IInv /\ [Next]_vars => [A]_vars
  <2> SUFFICES ASSUME IInv, Next, NEW i \in Cids, name[i] = None, name'[i] # None
               PROVE  service[i] = "none"
    BY DEF A
  <2>1. PICK p \in Proc : InsertCluster(p) \/ DeleteCluster(p) \/ RenameCluster(p)
    BY DEF Next, Start, Step, Quiet, vars, tables, Query, CheckServices, Confirm, QueryNew,
       QueryHosts, CheckoutCluster, SetHosts, InsertService, SetCleaned, Abandon
  <2>2. i \notin HasName(arg[p])
    BY DEF HasName, Rows
  <2>3. name \in [Cids -> Names \cup {None}] /\ seq \in Nat
    BY DEF IInv, TypeOK
  <2>4. i = seq + 1
    BY <2>1, <2>2, <2>3 DEF InsertCluster, DeleteCluster, RenameCluster, NextId
  <2>5. ~(i <= seq)
    BY <2>3, <2>4
  <2>6. QED
    BY <2>5 DEF IInv, IdsGiven
<1> HIDE DEF A
<1>2. Spec => [][A]_vars
  BY <1>1, StoreInvariant, PTL DEF Spec
<1>3. QED
  BY <1>2 DEF NewClusterEmpty, A

(***************************************************************************)
(* Commands that do not overlap                                            *)
(***************************************************************************)

\* What a command that runs alone has read is still true of the tables: the name
\* it adds or renames to is free for LIKE, the row it saw in hosts is there, and
\* the cluster `rm` checked is the first that its name matches.
Checked(p) ==
  /\ pc[p] = "write" /\ op[p] = "add" => GetClusters(arg[p]) = {}
  /\ pc[p] = "write" /\ op[p] = "rename" => GetClusters(new[p]) = {}
  /\ pc[p] = "write" /\ op[p] = "hosts" => hit[p] = hosts
  /\ pc[p] \in {"check", "confirm", "write"} /\ op[p] = "rm" =>
       hit[p] \in GetClusters(arg[p]) /\ \A j \in GetClusters(arg[p]) : hit[p] <= j
  /\ pc[p] \in {"confirm", "write"} /\ op[p] = "rm" /\ ~force[p] => service[hit[p]] # "active"

\* No two clusters have names that differ in case only.
NamesApart == \A i, j \in Rows : Fold(name[i]) = Fold(name[j]) => i = j

\* When a cluster gets its name no other cluster matches it, so an older one that
\* does was renamed since.
LaterRenamed == \A i, j \in Rows : (j < i /\ Like(name[j], name[i])) => j \in renamed

HostsLast == hosts # 0 => lastHosts = 1

Alone == \A p, q \in Proc : (pc[p] # "idle" /\ pc[q] # "idle") => p = q

SerialInv ==
  ~overlap => Alone /\ NamesApart /\ LaterRenamed /\ HostsLast /\ \A p \in Proc : Checked(p)

\* Nothing was read when there is no command.
LEMMA InitSerial == Init => SerialInv
<1> SUFFICES ASSUME Init PROVE SerialInv
  OBVIOUS
<1>1. \A p \in Proc : pc[p] = "idle"
  BY DEF Init
<1>2. Rows = {} /\ hosts = 0
  BY DEF Init, Rows
<1>3. \A p \in Proc : Checked(p)
  BY <1>1 DEF Checked
<1>4. QED
  BY <1>1, <1>2, <1>3 DEF SerialInv, Alone, NamesApart, LaterRenamed, HostsLast

\* A process that ends leaves no command behind that has read anything.
LEMMA ExitIsAlone ==
  ASSUME IInv, Alone, NEW p \in Proc, pc[p] # "idle", Exit(p)
  PROVE  Alone' /\ \A q \in Proc : Checked(q)'
<1>1. \A q \in Proc : pc'[q] = "idle"
  BY DEF Exit, Alone, IInv, TypeOK
<1>2. \A q \in Proc : Checked(q)'
  BY <1>1 DEF Checked
<1>3. QED
  BY <1>1, <1>2 DEF Alone

\* A command that begins while no other runs has read nothing yet.
LEMMA StartSerial ==
  ASSUME IInv, SerialInv, NEW p \in Proc, NEW o \in AllOps, NEW a \in Names, NEW b \in Names,
         NEW f \in BOOLEAN, Start(p, o, a, b, f)
  PROVE  SerialInv'
<1> SUFFICES ASSUME ~overlap'
             PROVE  /\ Alone' /\ NamesApart' /\ LaterRenamed' /\ HostsLast'
                    /\ \A q \in Proc : Checked(q)'
  BY DEF SerialInv
<1>1. ~overlap /\ \A q \in Proc \ {p} : pc[q] = "idle"
  BY DEF Start
<1>2. NamesApart' /\ LaterRenamed' /\ HostsLast'
  BY <1>1 DEF SerialInv, Start, tables, NamesApart, LaterRenamed, HostsLast, Rows, Like
<1>3. \A q \in Proc \ {p} : pc'[q] = "idle"
  BY <1>1 DEF Start, IInv, TypeOK
<1>4. pc'[p] = FirstPc(o) /\ op'[p] = o
  BY DEF Start, IInv, TypeOK
<1>5. Checked(p)'
  BY <1>4 DEF Checked, FirstPc
<1>6. \A q \in Proc \ {p} : Checked(q)'
  BY <1>3 DEF Checked
<1>7. QED
  BY <1>2, <1>3, <1>5, <1>6 DEF Alone

\* clusters[0] is one of the clusters a query found, and the oldest of them.
LEMMA FirstIsLeast ==
  ASSUME NEW a, GetClusters(a) # {}
  PROVE  /\ First(GetClusters(a)) \in GetClusters(a)
         /\ \A j \in GetClusters(a) : First(GetClusters(a)) <= j
<1> DEFINE found == GetClusters(a)
<1>1. found \subseteq Nat
  BY DEF Rows, Cids, GetClusters
<1>2. \E i \in found : \A j \in found : i <= j
  BY <1>1, LeastElement
<1> HIDE DEF found
<1>3. /\ First(found) \in found
      /\ \A j \in found : First(found) <= j
  BY <1>2 DEF First
<1>4. QED
  BY <1>3 DEF found

\* What a command reads while it runs alone is true when it goes on.
LEMMA QuerySerial ==
  ASSUME IInv, SerialInv, NEW p \in Proc,
         \/ Query(p) \/ CheckServices(p) \/ Confirm(p) \/ QueryNew(p) \/ QueryHosts(p)
  PROVE  SerialInv'
<1>1. /\ pc[p] # "idle" /\ UNCHANGED tables /\ UNCHANGED options
      /\ \E to \in Pcs : pc' = [pc EXCEPT ![p] = to]
  BY DEF Query, CheckServices, Confirm, QueryNew, QueryHosts, Goto, AfterQuery, Pcs
<1> SUFFICES ASSUME ~overlap
             PROVE  /\ Alone' /\ NamesApart' /\ LaterRenamed' /\ HostsLast'
                    /\ \A q \in Proc : Checked(q)'
  BY <1>1 DEF SerialInv, options
<1>2. Alone /\ NamesApart /\ LaterRenamed /\ HostsLast /\ Checked(p)
  BY DEF SerialInv
<1>3. NamesApart' /\ LaterRenamed' /\ HostsLast'
  BY <1>1, <1>2 DEF tables, NamesApart, LaterRenamed, HostsLast, Rows
<1>4. \A q \in Proc \ {p} : pc'[q] = "idle"
  BY <1>1, <1>2 DEF Alone, IInv, TypeOK
<1>5. /\ Rows' = Rows /\ \A a : GetClusters(a)' = GetClusters(a) /\ HasName(a)' = HasName(a)
      /\ hosts' = hosts /\ service' = service
      /\ op'[p] = op[p] /\ arg'[p] = arg[p] /\ new'[p] = new[p] /\ force'[p] = force[p]
  BY <1>1 DEF tables, options, Rows, GetClusters, HasName
<1>6. pc \in [Proc -> Pcs] /\ hit \in [Proc -> Nat]
  BY DEF IInv, TypeOK
<1>7. Checked(p)'
  <2>1. CASE Query(p)
    <3> DEFINE found == GetClusters(arg[p])
    <3>1. /\ pc'[p] = AfterQuery(op[p])
          /\ op[p] = "add" <=> found = {}
          /\ found # {} => hit'[p] = First(found)
          /\ op[p] \in {"add", "checkout", "rm", "rename"}
      BY <1>6, <2>1 DEF Query, Goto
    <3>2. op[p] = "rm" => hit'[p] \in found /\ \A j \in found : hit'[p] <= j
      BY <3>1, FirstIsLeast
    <3>3. pc'[p] = "write" => op[p] \in {"add", "checkout"}
      BY <3>1 DEF AfterQuery
    <3>4. op[p] = "rm" => pc'[p] = "check"
      BY <3>1 DEF AfterQuery
    <3>5. QED
      BY <1>5, <3>1, <3>2, <3>3, <3>4 DEF Checked
  <2>2. CASE CheckServices(p)
    <3>1. /\ pc[p] = "check" /\ pc'[p] = "confirm" /\ hit' = hit
          /\ force[p] \/ service[hit[p]] # "active"
      BY <1>6, <2>2 DEF CheckServices, Goto, CheckedCluster
    <3>2. QED
      BY <1>2, <1>5, <3>1 DEF Checked
  <2>3. CASE Confirm(p)
    <3>1. /\ pc[p] = "confirm" /\ hit' = hit
          /\ pc'[p] = IF op[p] = "rm" THEN "write" ELSE "query2"
      BY <1>6, <2>3 DEF Confirm, Goto
    <3>2. QED
      BY <1>2, <1>5, <3>1 DEF Checked
  <2>4. CASE QueryNew(p)
    <3>1. op[p] = "rename" /\ GetClusters(new[p]) = {}
      BY <2>4 DEF QueryNew
    <3>2. QED
      BY <1>5, <3>1 DEF Checked
  <2>5. CASE QueryHosts(p)
    <3>1. op[p] = "hosts" /\ hit'[p] = hosts
      BY <1>6, <2>5 DEF QueryHosts
    <3>2. QED
      BY <1>5, <3>1 DEF Checked
  <2>6. QED
    BY <2>1, <2>2, <2>3, <2>4, <2>5
<1>8. \A q \in Proc \ {p} : Checked(q)'
  BY <1>4 DEF Checked
<1>9. QED
  BY <1>3, <1>4, <1>7, <1>8 DEF Alone

\* What a command that runs alone writes keeps the names apart, and the first row
\* of hosts is what was written last.
LEMMA WriteSerial ==
  ASSUME IInv, SerialInv, NEW p \in Proc,
         \/ InsertCluster(p) \/ CheckoutCluster(p) \/ DeleteCluster(p) \/ RenameCluster(p)
         \/ SetHosts(p) \/ InsertService(p) \/ SetCleaned(p) \/ Abandon(p)
  PROVE  SerialInv'
<1>1. pc[p] # "idle" /\ Exit(p)
  BY DEF Write, Abandon, InsertCluster, CheckoutCluster, DeleteCluster, RenameCluster, SetHosts,
     InsertService, SetCleaned
<1> SUFFICES ASSUME ~overlap
             PROVE  /\ Alone' /\ NamesApart' /\ LaterRenamed' /\ HostsLast'
                    /\ \A q \in Proc : Checked(q)'
  BY <1>1 DEF SerialInv, Exit
<1>2. Alone /\ NamesApart /\ LaterRenamed /\ HostsLast /\ Checked(p)
  BY DEF SerialInv
<1>3. Alone' /\ \A q \in Proc : Checked(q)'
  BY <1>1, <1>2, ExitIsAlone
<1>4. CASE UNCHANGED <<name, hosts, lastHosts, renamed>>
  BY <1>2, <1>3, <1>4 DEF NamesApart, LaterRenamed, HostsLast, Rows
<1>5. CASE InsertCluster(p)
  <2>1. /\ name' = [name EXCEPT ![seq + 1] = arg[p]] /\ seq + 1 \in Cids
        /\ UNCHANGED <<hosts, lastHosts, renamed>> /\ GetClusters(arg[p]) = {}
    BY <1>2, <1>5 DEF InsertCluster, NextId, Write, Checked
  <2>2. \A i \in Rows : i <= seq /\ i \in Nat
    BY DEF IInv, IdsGiven, Rows, Cids
  <2>3. seq \in Nat /\ name \in [Cids -> Names \cup {None}]
    BY DEF IInv, TypeOK
  <2>4. \A i \in Rows : i # seq + 1 /\ i <= seq + 1
    BY <2>2, <2>3
  <2>5. /\ \A i \in Rows' : i = seq + 1 \/ i \in Rows
        /\ \A i \in Rows : name'[i] = name[i]
        /\ name'[seq + 1] = arg[p]
    BY <2>1, <2>3, <2>4 DEF Rows
  <2>6. /\ \A i \in Rows : ~Like(name[i], arg[p]) /\ Fold(name[i]) # Fold(arg[p])
    BY <2>1 DEF GetClusters, Like
  <2>7. NamesApart'
    BY <1>2, <2>5, <2>6 DEF NamesApart
  <2>8. LaterRenamed'
    <3>1. \A i \in Rows : ~(seq + 1 < i)
      BY <2>2, <2>3, <2>4
    <3>2. UNCHANGED renamed /\ \A i \in Rows : i \in Int
      BY <2>1, <2>2
    <3>3. QED
      BY <1>2, <2>3, <2>5, <2>6, <3>1, <3>2 DEF LaterRenamed
  <2>9. HostsLast'
    BY <1>2, <2>1 DEF HostsLast
  <2>10. QED
    BY <1>3, <2>7, <2>8, <2>9
<1>6. CASE DeleteCluster(p)
  <2>1. /\ name' = [i \in Cids |-> IF i \in HasName(arg[p]) THEN None ELSE name[i]]
        /\ UNCHANGED <<hosts, lastHosts, renamed>>
    BY <1>6 DEF DeleteCluster
  <2>2. \A i \in Rows' : i \in Rows /\ name'[i] = name[i]
    BY <2>1 DEF Rows
  <2>3. NamesApart' /\ LaterRenamed' /\ HostsLast'
    BY <1>2, <2>1, <2>2 DEF NamesApart, LaterRenamed, HostsLast
  <2>4. QED
    BY <1>3, <2>3
<1>7. CASE RenameCluster(p)
  <2>1. /\ name' = [i \in Cids |-> IF i \in HasName(arg[p]) THEN new[p] ELSE name[i]]
        /\ UNCHANGED <<hosts, lastHosts>> /\ GetClusters(new[p]) = {}
        /\ renamed' = renamed \cup HasName(arg[p])
    BY <1>2, <1>7 DEF RenameCluster, Write, Checked
  <2>2. \A i \in Rows : ~Like(name[i], new[p]) /\ Fold(name[i]) # Fold(new[p])
    BY <2>1 DEF GetClusters, Like
  <2>3. \A i, j \in HasName(arg[p]) : i = j
    BY DEF HasName, IInv, NamesUnique
  <2>4. \A i \in Rows' : i \in Rows /\ name'[i] = IF i \in HasName(arg[p]) THEN new[p] ELSE name[i]
    BY <2>1 DEF Rows, HasName
  <2>5. NamesApart'
    BY <1>2, <2>2, <2>3, <2>4 DEF NamesApart
  <2>6. LaterRenamed'
    BY <1>2, <2>1, <2>2, <2>4 DEF LaterRenamed
  <2>7. HostsLast'
    BY <1>2, <2>1 DEF HostsLast
  <2>8. QED
    BY <1>3, <2>5, <2>6, <2>7
<1>8. CASE SetHosts(p)
  <2>1. UNCHANGED <<name, renamed>> /\ hit[p] = hosts
    BY <1>2, <1>8 DEF SetHosts, Write, Checked
  <2>2. hosts \in Nat
    BY DEF IInv, TypeOK
  <2>3. lastHosts' = 1
    BY <1>8, <2>1, <2>2 DEF SetHosts, SetHostsNew
  <2>4. NamesApart' /\ LaterRenamed' /\ HostsLast'
    BY <1>2, <2>1, <2>3 DEF NamesApart, LaterRenamed, HostsLast, Rows
  <2>5. QED
    BY <1>3, <2>4
<1>9. QED
  BY <1>4, <1>5, <1>6, <1>7, <1>8 DEF CheckoutCluster, InsertService, SetCleaned, Abandon, tables

\* Commands that do not overlap find the tables as they left them.
THEOREM SerialInvariant == Spec => []SerialInv
<1>1. ASSUME IInv, SerialInv, [Next]_vars PROVE SerialInv'
  <2>1. CASE UNCHANGED vars
    <3>1. \A p \in Proc : Checked(p) => Checked(p)'
      BY <2>1 DEF vars, tables, options, Checked, GetClusters, HasName, Rows
    <3>2. QED
      BY <1>1, <2>1, <3>1 DEF vars, tables, options, SerialInv, Alone, NamesApart,
         LaterRenamed, HostsLast, Rows
  <2>2. CASE \E p \in Proc : Step(p)
    <3>1. PICK p \in Proc : Step(p)
      BY <2>2
    <3>2. QED
      BY <1>1, <3>1, QuerySerial, WriteSerial DEF Step
  <2>3. CASE \E p \in Proc, o \in Ops, a, b \in Names, f \in BOOLEAN : Start(p, o, a, b, f)
    BY <1>1, <2>3, StartSerial, StoreAssumption
  <2>4. QED
    BY <1>1, <2>1, <2>2, <2>3 DEF Next, Quiet
<1>2. IInv /\ SerialInv /\ [Next]_vars => SerialInv'
  BY <1>1
<1>3. QED
  BY <1>2, InitSerial, StoreInvariant, PTL DEF Spec

\* While commands do not overlap, no two names differ in case only, clusters[0] of
\* the name of a cluster is that cluster unless an older one was renamed, and the
\* next command reads what `hosts commit` wrote last, for any names and wildcards.
THEOREM SerialIsConsistent == Spec => []SerialConsistent
<1>1. SerialInv => SerialConsistent
  BY DEF SerialInv, SerialConsistent, NamesApart, LaterRenamed, HostsLast
<1>2. QED
  BY <1>1, SerialInvariant, PTL

\* While commands do not overlap, `cluster rm` without --force removes a cluster
\* with a service that was not cleaned only if its name is a wildcard for an older
\* cluster that was renamed, for any names and wildcards.
THEOREM RemovalKeepsActive == Spec => RemoveKeepsActive
<1> DEFINE A == \A p \in Proc : (DeleteCluster(p) /\ ~force[p] /\ ~overlap) =>
                  \A i \in HasName(arg[p]) : service[i] = "active" =>
                    \E j \in Rows \cap renamed : j < i /\ <<name[j], arg[p]>> \in Wildcard
<1>1. SerialInv => A
  <2> SUFFICES ASSUME SerialInv, NEW p \in Proc, DeleteCluster(p), ~force[p], ~overlap,
                      NEW i \in HasName(arg[p]), service[i] = "active"
               PROVE  \E j \in Rows \cap renamed : j < i /\ <<name[j], arg[p]>> \in Wildcard
    BY DEF A
  <2>1. Checked(p) /\ pc[p] = "write" /\ op[p] = "rm" /\ NamesApart /\ LaterRenamed
    BY DEF SerialInv, DeleteCluster, Write
  <2>2. i \in GetClusters(arg[p]) /\ i \in Rows /\ name[i] = arg[p]
    BY DEF HasName, GetClusters, Like
  <2>3. /\ service[hit[p]] # "active" /\ hit[p] \in GetClusters(arg[p]) /\ hit[p] <= i
    BY <2>1, <2>2 DEF Checked
  <2>4. hit[p] # i /\ hit[p] \in Rows /\ Like(name[hit[p]], name[i])
    BY <2>2, <2>3 DEF GetClusters
  <2>5. hit[p] < i
    BY <2>2, <2>3, <2>4 DEF Rows, Cids
  <2>6. hit[p] \in renamed
    BY <2>1, <2>2, <2>4, <2>5 DEF LaterRenamed
  <2>7. <<name[hit[p]], arg[p]>> \in Wildcard
    BY <2>1, <2>2, <2>4 DEF NamesApart, Like
  <2>8. QED
    BY <2>4, <2>5, <2>6, <2>7
<1>2. SerialInv /\ [Next]_vars => [A]_vars
  BY <1>1
<1> HIDE DEF A
<1>3. Spec => [][A]_vars
  BY <1>2, SerialInvariant, PTL DEF Spec
<1>4. QED
  BY <1>3 DEF RemoveKeepsActive, A

(***************************************************************************)
(* Cluster                                                                 *)
(***************************************************************************)

\* The steps a playbook may have.  Those of an upgrade depend on whether an
\* mds-client is among its services.
DeployTypes == {"CLEAN_PRECHECK_ENVIRONMENT", "PULL_IMAGE", "CREATE_CONTAINER",
  "CREATE_MDSV2_CLI_CONTAINER", "SYNC_CONFIG", "CHECK_STORE_HEALTH", "CREATE_META_TABLES"}
    \cup (Starts \ {"START_SERVICE"})
UpgradeTypes == {"PULL_IMAGE", "STOP_SERVICE", "CLEAN_SERVICE", "CREATE_CONTAINER", "SYNC_CONFIG",
  "START_SERVICE"}
UpgradeFsTypes == {"PULL_IMAGE", "STOP_SERVICE", "CLEAN_SERVICE", "CREATE_CONTAINER", "SYNC_CONFIG",
  "START_COORDINATOR", "START_STORE", "CHECK_STORE_HEALTH", "START_FS_MDS", "START_DINGODB_EXECUTOR"}
PrecheckTypes == {"CHECK_TOPOLOGY", "CHECK_SSH_CONNECT", "CHECK_PERMISSION",
  "CLEAN_PRECHECK_ENVIRONMENT", "CHECK_PORT_IN_USE", "START_HTTP_SERVER",
  "CHECK_DESTINATION_REACHABLE", "GET_HOST_DATE", "CHECK_HOST_DATE", "POST_CLEAN"}
AllTypes == DeployTypes \cup UpgradeTypes \cup UpgradeFsTypes \cup PrecheckTypes
FsRoles == {"coordinator", "store", "mds", "executor"}

\* Step s is of a type of T and has service i.
Hit(s, i, T) == s.type \in T /\ i \in Ids(s.dcs)

\* The step starts services that come after those of the role.
StartsLater(type, role) == type \in Starts /\ \E r \in FilterRole(type) : <<role, r>> \in StartsBefore

\* Service i, in state st, runs or is left running when the steps of P succeed: a
\* step starts it that no stop comes after, its container is there then, and
\* nothing that comes after its role is started before.
Up(P, i, st) ==
  \/ st = "running" /\ \A k \in DOMAIN P : ~Hit(P[k], i, {"STOP_SERVICE"})
  \/ \E k \in DOMAIN P :
       /\ Hit(P[k], i, Starts)
       /\ \A m \in DOMAIN P : m > k => ~Hit(P[m], i, {"STOP_SERVICE"})
       /\ \A m \in 1..(k - 1) : ~StartsLater(P[m].type, RoleOf(i))
       /\ \/ st # "none" /\ \A m \in 1..(k - 1) : ~Hit(P[m], i, {"CLEAN_SERVICE"})
          \/ \E j \in 1..(k - 1) :
               /\ Hit(P[j], i, {"CREATE_CONTAINER"})
               /\ \A m \in (j + 1)..(k - 1) : ~Hit(P[m], i, {"CLEAN_SERVICE"})

\* A list of steps that brings up the services of a role, from whatever state.
Ready(steps, r) ==
  \E k \in DOMAIN steps : \E j \in 1..(k - 1) :
    /\ steps[j] = "CREATE_CONTAINER"
    /\ steps[k] \in Starts /\ FilterRole(steps[k]) \subseteq {r}
    /\ \A m \in DOMAIN steps : m > j => steps[m] \notin {"STOP_SERVICE", "CLEAN_SERVICE"}
    /\ \A m \in 1..(k - 1) : ~StartsLater(steps[m], r)

\* Steps of B come after one of type a.
After1(steps, a, B) ==
  \A m \in DOMAIN steps : steps[m] \in B => \E n \in 1..(m - 1) : steps[n] = a

TypesOf(P) == [k \in DOMAIN P |-> P[k].type]

PlanSteps(dcs) == [type : AllTypes, dcs : Seq(Range(dcs))]

\* The lists of an upgrade, as the playbooks before have left them, still bring up
\* the services.
ListsReady(ls) ==
  /\ {"upgrade", "upgrade_store_fs"} \subseteq DOMAIN ls
  /\ ls["upgrade"] \in Seq(UpgradeTypes) /\ \A r \in Roles : Ready(ls["upgrade"], r)
  /\ ls["upgrade_store_fs"] \in Seq(UpgradeFsTypes)
  /\ \A r \in FsRoles : Ready(ls["upgrade_store_fs"], r)

StoredOK ==
  /\ forced \in BOOLEAN
  /\ stored \in Topologies \cup {NoTopology}
  /\ stored # NoTopology /\ ~forced =>
       ParseTopology(stored) = "ok" /\ Step2CheckServices(stored, Dcs)

ProcessOK ==
  /\ cmd = NoCommand =>
       plan = <<>> /\ todo = <<>> /\ batch = <<>> /\ lists = StepLists /\ base = {}
  /\ cmd # NoCommand =>
       /\ last.out = "none" /\ cmd \in Commands /\ cmd.name \in {"deploy", "upgrade", "precheck"}
       /\ stored \in Topologies /\ ParseTopology(stored) = "ok"
       /\ plan \in Seq(PlanSteps(Dcs)) /\ batch \in Seq(Range(Dcs))
  /\ cmd.name # "upgrade" => todo = <<>>
  /\ result \in {"ok", "error"}
  /\ base \subseteq AllIds

PlanOK ==
  /\ cmd.name \in {"deploy", "upgrade"} =>
       \A k \in DOMAIN plan : plan[k].dcs = Limit(Configs(batch, plan[k].type), plan[k].type)
  /\ \A k \in DOMAIN plan :
       plan[k].type \in
         CASE cmd.name = "deploy" -> DeployTypes
           [] cmd.name = "precheck" -> PrecheckTypes
           [] cmd.name = "upgrade" /\ "mds-client" \in RolesIn(batch) -> UpgradeFsTypes
           [] OTHER -> UpgradeTypes

DeployOK ==
  cmd.name = "deploy" =>
    /\ batch = Dcs
    /\ IF MdsVersion(stored) = "v1" THEN plan = <<>>
       ELSE \A i \in Lasting(Ids(batch)) : Up(plan, i, svc[i])
    /\ metaTables \/ After1(TypesOf(plan), "CREATE_META_TABLES", {"START_FS_MDS"})
    /\ \/ \A i \in Lasting(Ids(batch)) : <<"http", i>> \notin probes
       \/ After1(TypesOf(plan), "CLEAN_PRECHECK_ENVIRONMENT", Starts)

UpgradeOK ==
  cmd.name = "upgrade" =>
    /\ todo \in Seq(Seq(Range(Dcs)))
    /\ \A i \in Lasting(base) \cup Lasting(Ids(batch)) : Up(plan, i, svc[i])
    /\ \A i \in base \ Lasting(base) : svc[i] = "running"
    /\ \A i \in Lasting(Ids(Filter(Dcs, cmd))) :
         Up(plan, i, svc[i]) \/ \E n \in DOMAIN todo : i \in Ids(todo[n])
    /\ ~cmd.force => Len(batch) <= 1 /\ \A n \in DOMAIN todo : Len(todo[n]) = 1
    /\ ListsReady(lists)

ClusterInv ==
  /\ StoredOK /\ ProcessOK /\ PlanOK /\ DeployOK /\ UpgradeOK
  /\ StartsAll /\ CommittedNeverPanics

(***************************************************************************)
(* Sequences made by recursion                                             *)
(***************************************************************************)

\* Counting up to N.
LEMMA CountUp ==
  ASSUME NEW N \in Nat, NEW P, 0 \in P, \A n \in 1..N : n - 1 \in P => n \in P
  PROVE  \A n \in 0..N : n \in P
<1> DEFINE Bad == {n \in 0..N : n \notin P}
<1> SUFFICES ASSUME Bad # {} PROVE FALSE
  OBVIOUS
<1>1. PICK n \in Bad : \A m \in Bad : n <= m
  <2>1. Bad \subseteq Nat
    OBVIOUS
  <2> HIDE DEF Bad
  <2>2. QED
    BY <2>1, LeastElement
<1>2. n \in 1..N /\ n - 1 \in 0..N /\ n \notin P /\ ~(n <= n - 1)
  BY <1>1
<1>3. n - 1 \in P
  BY <1>1, <1>2
<1>4. QED
  BY <1>2, <1>3

\* f is x0 first and then what G makes of the value before.
Iterates(f, N, x0, G) == f[0] = x0 /\ \A i \in 1..N : f[i] = G[<<i, f[i - 1]>>]

\* A function of the numbers up to N may be defined from the value before.
LEMMA Recursion ==
  ASSUME NEW N \in Nat, NEW X, NEW x0 \in X, NEW G \in [(1..N) \X X -> X]
  PROVE  \E f \in [0..N -> X] : Iterates(f, N, x0, G)
<1> DEFINE Good(n) == \E f \in [0..n -> X] : f[0] = x0 /\ \A i \in 1..n : f[i] = G[<<i, f[i - 1]>>]
           P == {n \in 0..N : Good(n)}
<1>1. Good(0)
  <2> DEFINE f == [i \in 0..0 |-> x0]
  <2>1. f \in [0..0 -> X] /\ f[0] = x0
    OBVIOUS
  <2>2. \A i \in 1..0 : FALSE
    OBVIOUS
  <2> HIDE DEF f
  <2>3. QED
    BY <2>1, <2>2
<1>2. ASSUME NEW n \in 1..N, Good(n - 1) PROVE Good(n)
  <2>1. PICK f \in [0..(n - 1) -> X] : f[0] = x0 /\ \A i \in 1..(n - 1) : f[i] = G[<<i, f[i - 1]>>]
    BY <1>2
  <2> DEFINE h == [i \in 0..n |-> IF i = n THEN G[<<n, f[n - 1]>>] ELSE f[i]]
  <2>2. n - 1 \in 0..(n - 1) /\ n # 0 /\ n \in Nat
    OBVIOUS
  <2>3. G[<<n, f[n - 1]>>] \in X
    BY <2>2
  <2>4. h \in [0..n -> X]
    BY <2>2, <2>3
  <2>5. h[0] = x0 /\ h[n] = G[<<n, f[n - 1]>>] /\ \A i \in 0..(n - 1) : h[i] = f[i]
    BY <2>1, <2>2
  <2> HIDE DEF h
  <2>6. ASSUME NEW i \in 1..n PROVE h[i] = G[<<i, h[i - 1]>>]
    <3>1. h[i - 1] = f[i - 1]
      BY <2>2, <2>5
    <3>2. i # n => i \in 1..(n - 1) /\ h[i] = f[i]
      BY <2>2, <2>5
    <3>3. QED
      BY <2>1, <2>5, <3>1, <3>2
  <2>7. QED
    BY <2>4, <2>5, <2>6
<1> HIDE DEF Good
<1>3. 0 \in P /\ \A n \in 1..N : n - 1 \in P => n \in P
  BY <1>1, <1>2
<1>4. N \in P
  <2> HIDE DEF P
  <2>1. N \in 0..N
    OBVIOUS
  <2>2. QED
    BY <1>3, <2>1, CountUp
<1>5. QED
  BY <1>4 DEF Good, Iterates

\* q is made of elements of s, e tells which, in an order that does not go back.
Embeds(q, s, e) ==
  /\ e \in [1..Len(q) -> 1..Len(s)]
  /\ \A n \in 1..Len(q) : q[n] = s[e[n]]
  /\ \A m, n \in 1..Len(q) : m <= n => e[m] <= e[n]

\* ... and has those at the positions X.
Covers(q, e, X) == \A x \in X : \E n \in 1..Len(q) : e[n] = x

\* ... and all of them from positions before n.
Within(q, e, n) == \A j \in 1..Len(q) : e[j] \in 1..(n - 1)

\* Every element of r that d takes is the one at n or one that e took for q.
OneMore(r, d, q, e, n) == \A j \in 1..Len(r) : d[j] = n \/ \E i \in 1..Len(q) : d[j] = e[i]

\* The element at a later position is appended.
LEMMA EmbedsAppend ==
  ASSUME NEW S, NEW s \in Seq(S), NEW q \in Seq(S), NEW e, NEW n \in 1..Len(s), Embeds(q, s, e),
         NEW X, Covers(q, e, X), Within(q, e, n)
  PROVE  \E d : /\ Embeds(Append(q, s[n]), s, d) /\ Covers(Append(q, s[n]), d, X \cup {n})
                /\ OneMore(Append(q, s[n]), d, q, e, n)
<1> DEFINE r == Append(q, s[n])
           d == [j \in 1..(Len(q) + 1) |-> IF j = Len(q) + 1 THEN n ELSE e[j]]
<1>1. Len(q) \in Nat /\ Len(s) \in Nat /\ s[n] \in S
  BY LenProperties, ElementOfSeq
<1>2. Len(r) = Len(q) + 1 /\ r[Len(q) + 1] = s[n] /\ \A j \in 1..Len(q) : r[j] = q[j]
  BY <1>1, AppendProperties
<1>3. e \in [1..Len(q) -> 1..Len(s)] /\ \A j \in 1..Len(q) : q[j] = s[e[j]]
  BY DEF Embeds
<1>4. d \in [1..Len(r) -> 1..Len(s)]
  BY <1>1, <1>2, <1>3
<1>5. d[Len(q) + 1] = n /\ \A j \in 1..Len(q) : d[j] = e[j]
  BY <1>1
<1> HIDE DEF d, r
<1>6. \A j \in 1..Len(r) : j = Len(q) + 1 \/ j \in 1..Len(q)
  BY <1>1, <1>2
<1>7. \A j \in 1..Len(r) : r[j] = s[d[j]]
  BY <1>2, <1>3, <1>5, <1>6
<1>8. ASSUME NEW i \in 1..Len(r), NEW j \in 1..Len(r), i <= j PROVE d[i] <= d[j]
  <2>1. CASE j \in 1..Len(q)
    <3>1. i \in 1..Len(q)
      BY <1>1, <1>8, <2>1
    <3>2. QED
      BY <1>5, <1>8, <2>1, <3>1 DEF Embeds
  <2>2. CASE j = Len(q) + 1
    <3>1. CASE i = j
      BY <1>1, <1>5, <2>2, <3>1
    <3>2. CASE i # j
      <4>1. i \in 1..Len(q) /\ e[i] \in 1..(n - 1)
        BY <1>6, <2>2, <3>2 DEF Within
      <4>2. QED
        BY <1>1, <1>5, <2>2, <4>1
    <3>3. QED
      BY <3>1, <3>2
  <2>3. QED
    BY <1>6, <2>1, <2>2
<1>9. ASSUME NEW x \in X \cup {n} PROVE \E j \in 1..Len(r) : d[j] = x
  <2>1. CASE x = n
    <3>1. Len(q) + 1 \in 1..Len(r)
      BY <1>1, <1>2
    <3>2. QED
      BY <1>5, <2>1, <3>1
  <2>2. CASE x \in X
    <3>1. PICK j \in 1..Len(q) : e[j] = x
      BY <2>2 DEF Covers
    <3>2. j \in 1..Len(r)
      BY <1>1, <1>2
    <3>3. QED
      BY <1>5, <3>1, <3>2
  <2>3. QED
    BY <2>1, <2>2
<1>10. Embeds(r, s, d) /\ Covers(r, d, X \cup {n})
  BY <1>4, <1>7, <1>8, <1>9 DEF Embeds, Covers
<1>11. OneMore(r, d, q, e, n)
  BY <1>5, <1>6 DEF OneMore
<1>12. QED
  BY <1>10, <1>11 DEF r

\* What has been picked after each position.
IsPick(f, s, I) ==
  f = [k \in 0..Len(s) |->
         IF k = 0 THEN <<>>
         ELSE IF k \in I THEN Append(f[k - 1], s[k]) ELSE f[k - 1]]

\* Pick takes the elements at the positions I, in order.
LEMMA PickLemma ==
  ASSUME NEW S, NEW s \in Seq(S), NEW I
  PROVE  /\ Pick(s, I) \in Seq(S)
         /\ \E e : /\ Embeds(Pick(s, I), s, e) /\ Covers(Pick(s, I), e, I \cap 1..Len(s))
                   /\ \A j \in 1..Len(Pick(s, I)) : e[j] \in I
<1>1. Len(s) \in Nat /\ \A k \in 1..Len(s) : s[k] \in S
  BY LenProperties, ElementOfSeq
<1>2. \E f : IsPick(f, s, I)
  <2> DEFINE G == [x \in (1..Len(s)) \X Seq(S) |-> IF x[1] \in I THEN Append(x[2], s[x[1]]) ELSE x[2]]
  <2>1. G \in [(1..Len(s)) \X Seq(S) -> Seq(S)]
    BY <1>1, AppendProperties
  <2>2. <<>> \in Seq(S)
    BY EmptySeq
  <2>3. \A i \in 1..Len(s), q \in Seq(S) : G[<<i, q>>] = IF i \in I THEN Append(q, s[i]) ELSE q
    OBVIOUS
  <2> HIDE DEF G
  <2>4. PICK f \in [0..Len(s) -> Seq(S)] : f[0] = <<>> /\ \A i \in 1..Len(s) : f[i] = G[<<i, f[i - 1]>>]
    <3> DEFINE X == Seq(S)  N == Len(s)
    <3>1. N \in Nat /\ <<>> \in X /\ G \in [(1..N) \X X -> X]
      BY <1>1, <2>1, <2>2
    <3> HIDE DEF X, N
    <3>2. \E f \in [0..N -> X] : Iterates(f, N, <<>>, G)
      BY <3>1, Recursion
    <3>3. QED
      BY <3>2 DEF X, N, Iterates
  <2>5. \A i \in 1..Len(s) : f[i - 1] \in Seq(S) /\ i # 0
    BY <1>1
  <2>6. \A i \in 0..Len(s) : i = 0 \/ i \in 1..Len(s)
    BY <1>1
  <2>7. \A k \in 0..Len(s) : f[k] = IF k = 0 THEN <<>>
              ELSE IF k \in I THEN Append(f[k - 1], s[k]) ELSE f[k - 1]
    BY <2>3, <2>4, <2>5, <2>6
  <2>8. IsPick(f, s, I)
    BY <2>7 DEF IsPick
  <2>9. QED
    BY <2>8
<1> DEFINE f == CHOOSE f : IsPick(f, s, I)
<1>3. Pick(s, I) = f[Len(s)]
  BY DEF Pick, IsPick
<1>4. IsPick(f, s, I)
  BY <1>2
<1> HIDE DEF f
<1>5. /\ f[0] = <<>>
      /\ \A k \in 1..Len(s) : f[k] = IF k \in I THEN Append(f[k - 1], s[k]) ELSE f[k - 1]
  <2>1. 0 \in 0..Len(s) /\ \A i \in 1..Len(s) : i \in 0..Len(s) /\ i # 0
    BY <1>1
  <2>2. \A k \in 0..Len(s) : f[k] = IF k = 0 THEN <<>>
             ELSE IF k \in I THEN Append(f[k - 1], s[k]) ELSE f[k - 1]
    BY <1>4, Zenon DEF IsPick
  <2>3. QED
    BY <2>1, <2>2, Zenon
<1> DEFINE Good(n) == /\ f[n] \in Seq(S)
                      /\ \E e : /\ Embeds(f[n], s, e) /\ Covers(f[n], e, I \cap 1..n)
                                /\ \A j \in 1..Len(f[n]) : e[j] \in I \cap 1..n
           P == {n \in 0..Len(s) : Good(n)}
<1>6. Good(0)
  <2> DEFINE e == [j \in 1..0 |-> 1]
  <2>1. f[0] \in Seq(S) /\ Len(f[0]) = 0 /\ 1..0 = {}
    BY <1>5, EmptySeq
  <2>2. e \in [1..0 -> 1..Len(s)]
    BY <2>1
  <2> HIDE DEF e
  <2>3. Embeds(f[0], s, e) /\ Covers(f[0], e, I \cap 1..0)
    BY <2>1, <2>2 DEF Embeds, Covers
  <2>4. QED
    BY <2>1, <2>3
<1>7. ASSUME NEW n \in 1..Len(s), Good(n - 1) PROVE Good(n)
  <2> DEFINE q == f[n - 1]
  <2>1. PICK e : /\ Embeds(q, s, e) /\ Covers(q, e, I \cap 1..(n - 1))
                 /\ \A j \in 1..Len(q) : e[j] \in I \cap 1..(n - 1)
    BY <1>7
  <2>2. q \in Seq(S)
    BY <1>7
  <2>3. n \in Nat /\ 1..(n - 1) \subseteq 1..n /\ 1..n = 1..(n - 1) \cup {n}
    BY <1>1
  <2>4. CASE n \in I
    <3>1. f[n] = Append(q, s[n]) /\ Append(q, s[n]) \in Seq(S)
      BY <1>1, <1>5, <2>2, <2>4, AppendProperties
    <3> HIDE DEF q
    <3>2. PICK d : /\ Embeds(Append(q, s[n]), s, d) /\ Covers(Append(q, s[n]), d, (I \cap 1..(n - 1)) \cup {n})
                   /\ \A j \in 1..Len(Append(q, s[n])) : d[j] = n \/ \E i \in 1..Len(q) : d[j] = e[i]
      <4> DEFINE Y == I \cap 1..(n - 1)
      <4>1. Covers(q, e, Y) /\ Within(q, e, n)
        BY <2>1 DEF Within
      <4> HIDE DEF Y
      <4>2. \E d : /\ Embeds(Append(q, s[n]), s, d) /\ Covers(Append(q, s[n]), d, Y \cup {n})
                   /\ OneMore(Append(q, s[n]), d, q, e, n)
        BY <2>1, <2>2, <4>1, EmbedsAppend
      <4>3. QED
        BY <4>2 DEF Y, OneMore
    <3>3. (I \cap 1..(n - 1)) \cup {n} = I \cap 1..n
      BY <2>3, <2>4
    <3>4. \A j \in 1..Len(Append(q, s[n])) : d[j] \in I \cap 1..n
      BY <2>1, <2>3, <2>4, <3>2
    <3>5. QED
      BY <3>1, <3>2, <3>3, <3>4
  <2>5. CASE n \notin I
    <3>1. f[n] = q
      BY <1>5, <2>5
    <3>2. I \cap 1..n = I \cap 1..(n - 1)
      BY <2>3, <2>5
    <3> HIDE DEF q
    <3>3. QED
      BY <2>1, <2>2, <3>1, <3>2
  <2>6. QED
    BY <2>4, <2>5
<1> HIDE DEF Good
<1>8. 0 \in P /\ \A n \in 1..Len(s) : n - 1 \in P => n \in P
  BY <1>1, <1>6, <1>7
<1>9. Good(Len(s))
  <2>1. \A n \in 0..Len(s) : n \in P
    <3> HIDE DEF P
    <3>1. QED
      BY <1>1, <1>8, CountUp
  <2>2. Len(s) \in 0..Len(s)
    BY <1>1
  <2>3. QED
    BY <2>1, <2>2
<1>10. QED
  BY <1>3, <1>9 DEF Good

\* What has been joined after each position.
IsFlat(f, ss) == f = [i \in 1..Len(ss) |-> IF i = 1 THEN ss[i] ELSE f[i - 1] \o ss[i]]

\* FlattenSeq makes one sequence, with the elements of all.
LEMMA FlattenLemma ==
  ASSUME NEW S, NEW ss \in Seq(Seq(S))
  PROVE  FlattenSeq(ss) \in Seq(S) /\ Range(FlattenSeq(ss)) = UNION {Range(ss[i]) : i \in 1..Len(ss)}
<1> DEFINE N == Len(ss)
<1>1. N \in Nat /\ DOMAIN ss = 1..N /\ \A k \in 1..N : ss[k] \in Seq(S)
  <2> DEFINE X == Seq(S)
  <2>1. ss \in Seq(X)
    OBVIOUS
  <2> HIDE DEF X
  <2>2. N \in Nat /\ DOMAIN ss = 1..N /\ \A k \in 1..N : ss[k] \in X
    BY <2>1, LenProperties, ElementOfSeq
  <2>3. QED
    BY <2>2 DEF X
<1>2. CASE N = 0
  <2>1. ss = <<>> /\ FlattenSeq(ss) = ss
    BY <1>2, EmptySeq DEF FlattenSeq
  <2>2. Range(<<>>) = {} /\ <<>> \in Seq(S) /\ 1..0 = {}
    BY EmptySeq DEF Range
  <2>3. QED
    BY <1>2, <2>1, <2>2
<1>3. CASE N # 0
  <2>1. \E f : IsFlat(f, ss)
    <3> DEFINE X == Seq(S)
               G == [x \in (1..N) \X X |-> IF x[1] = 1 THEN ss[x[1]] ELSE x[2] \o ss[x[1]]]
    <3> HIDE DEF N
    <3>1. G \in [(1..N) \X X -> X]
      BY <1>1, ConcatProperties
    <3>2. <<>> \in X
      BY EmptySeq
    <3>3. \A i \in 1..N, q \in X : G[<<i, q>>] = IF i = 1 THEN ss[i] ELSE q \o ss[i]
      OBVIOUS
    <3> HIDE DEF G, X
    <3>4. PICK g \in [0..N -> X] : Iterates(g, N, <<>>, G)
      BY <1>1, <3>1, <3>2, Recursion
    <3>5. \A i \in 1..N : g[i] = IF i = 1 THEN ss[i] ELSE g[i - 1] \o ss[i]
      <4>1. \A i \in 1..N : i - 1 \in 0..N
        BY <1>1
      <4>2. \A i \in 1..N : g[i] = G[<<i, g[i - 1]>>] /\ g[i - 1] \in X
        BY <3>4, <4>1 DEF Iterates
      <4>3. QED
        BY <3>3, <4>2
    <3> DEFINE f == [i \in 1..N |-> g[i]]
    <3>6. \A i \in 1..N : i = 1 \/ f[i - 1] = g[i - 1]
      BY <1>1
    <3>7. f = [i \in 1..N |-> IF i = 1 THEN ss[i] ELSE f[i - 1] \o ss[i]]
      BY <3>5, <3>6
    <3>8. QED
      BY <3>7 DEF IsFlat, N
  <2> DEFINE f == CHOOSE f : IsFlat(f, ss)
  <2>2. FlattenSeq(ss) = f[N]
    BY <1>3 DEF FlattenSeq, IsFlat
  <2>3. IsFlat(f, ss)
    BY <2>1
  <2> HIDE DEF f
  <2>4. \A i \in 1..N : f[i] = IF i = 1 THEN ss[i] ELSE f[i - 1] \o ss[i]
    BY <2>3, Zenon DEF IsFlat, N
  <2> HIDE DEF N
  <2> DEFINE All(n) == UNION {Range(ss[i]) : i \in 1..n}
             Good(n) == n = 0 \/ (f[n] \in Seq(S) /\ Range(f[n]) = All(n))
             P == {n \in 0..N : Good(n)}
  <2>5. ASSUME NEW n \in 1..N, Good(n - 1) PROVE Good(n)
    <3>1. All(n) = All(n - 1) \cup Range(ss[n])
      <4>1. 1..n = 1..(n - 1) \cup {n}
        BY <1>1
      <4>2. QED
        BY <4>1
    <3>2. ss[n] \in Seq(S)
      BY <1>1
    <3>3. CASE n = 1
      <4>1. All(n - 1) = {}
        BY <3>3
      <4>2. f[n] = ss[n]
        BY <2>4, <3>3
      <4> HIDE DEF All
      <4>3. QED
        BY <3>1, <3>2, <4>1, <4>2
    <3>4. CASE n # 1
      <4> HIDE DEF All
      <4>0. N \in Nat
        BY <1>1
      <4>a. n - 1 # 0
        BY <3>4, <4>0
      <4>b. f[n] = f[n - 1] \o ss[n]
        BY <2>4, <3>4, Zenon
      <4>1. f[n] = f[n - 1] \o ss[n] /\ n - 1 # 0
        BY <4>a, <4>b, Zenon
      <4>2. f[n - 1] \in Seq(S) /\ Range(f[n - 1]) = All(n - 1)
        BY <2>5, <4>1
      <4>3. f[n - 1] \o ss[n] \in Seq(S)
        BY <3>2, <4>2, ConcatProperties
      <4>4. Range(f[n - 1] \o ss[n]) = Range(f[n - 1]) \cup Range(ss[n])
        BY <3>2, <4>2, RangeConcatenation
      <4>5. QED
        BY <3>1, <4>1, <4>2, <4>3, <4>4
    <3>5. QED
      BY <3>3, <3>4
  <2>6. N \in P
    <3>1. 0 \in P /\ \A n \in 1..N : n - 1 \in P => n \in P
      <4> HIDE DEF Good
      <4>1. Good(0)
        BY DEF Good
      <4>2. \A n \in 1..N : n \in 0..N
        BY <1>1
      <4>3. QED
        BY <1>1, <2>5, <4>1, <4>2
    <3> HIDE DEF P
    <3>2. N \in 0..N
      BY <1>1
    <3>3. QED
      BY <1>1, <3>1, <3>2, CountUp
  <2>7. QED
    BY <1>3, <2>2, <2>6 DEF N
<1>4. QED
  BY <1>2, <1>3

(***************************************************************************)
(* The deploy configs of a topology                                        *)
(***************************************************************************)

\* The roles of each kind of topology.
RoleSet(t) ==
  CASE t.kind = "dingofs" /\ t.deploy["coordinator"] # <<>> ->
         {"mds", "coordinator", "store", "mds-client"}
           \cup (IF t.deploy["executor"] # <<>> THEN {"executor"} ELSE {})
    [] t.kind = "dingofs" /\ t.deploy["coordinator"] = <<>> /\ t.deploy["etcd"] = <<>> ->
         {"mds", "mds-client"}
    [] t.kind = "dingofs" /\ t.deploy["coordinator"] = <<>> /\ t.deploy["etcd"] # <<>> ->
         {"etcd", "metaserver", "coordinator", "store", "mds", "executor"}
    [] t.kind = "dingo-store" -> {"coordinator", "store", "executor"}
    [] t.kind = "dingodb" ->
         {"coordinator", "store", "document", "index", "diskann", "executor", "proxy", "web"}

\* The roles of a topology, as a set.
LEMMA RolesOfLemma ==
  ASSUME NEW t, t.kind \in Kinds
  PROVE  RolesOf(t) \in Seq(Roles) /\ Range(RolesOf(t)) = RoleSet(t)
<1> DEFINE d == t.deploy
           four == <<"mds", "coordinator", "store", "mds-client">>
<1>1. four \in Seq(Roles) /\ Range(four) = {"mds", "coordinator", "store", "mds-client"}
  BY DEF Roles, Sections, Range
<1>2. <<"executor">> \in Seq(Roles) /\ Range(<<"executor">>) = {"executor"}
  BY DEF Roles, Sections, Range
<1>3. <<>> \in Seq(Roles) /\ Range(<<>>) = {}
  BY EmptySeq DEF Range
<1>4. CASE t.kind = "dingofs" /\ d["coordinator"] # <<>>
  <2> DEFINE ex == IF d["executor"] # <<>> THEN <<"executor">> ELSE <<>>
  <2>1. RolesOf(t) = four \o ex
    BY <1>4, Zenon DEF RolesOf
  <2>2. ex \in Seq(Roles) /\ Range(ex) = IF d["executor"] # <<>> THEN {"executor"} ELSE {}
    BY <1>2, <1>3, Zenon
  <2>3. RoleSet(t) = Range(four) \cup Range(ex)
    <3> HIDE DEF four
    <3>1. QED
      BY <1>1, <1>4, <2>2, Zenon DEF RoleSet
  <2> HIDE DEF four, ex
  <2>4. four \in Seq(Roles) /\ ex \in Seq(Roles)
    BY <1>1, <2>2
  <2>5. four \o ex \in Seq(Roles)
    BY <2>4, ConcatProperties
  <2>6. Range(four \o ex) = Range(four) \cup Range(ex)
    BY <2>4, RangeConcatenation
  <2>7. QED
    BY <2>1, <2>3, <2>5, <2>6, Zenon
<1>5. CASE t.kind = "dingofs" /\ d["coordinator"] = <<>> /\ d["etcd"] = <<>>
  BY <1>5 DEF RolesOf, RoleSet, Roles, Sections, Range
<1>6. CASE t.kind = "dingofs" /\ d["coordinator"] = <<>> /\ d["etcd"] # <<>>
  <2>1. RolesOf(t) = <<"etcd", "metaserver", "coordinator", "store", "mds", "executor">>
    BY <1>6 DEF RolesOf
  <2>2. RoleSet(t) = {"etcd", "metaserver", "coordinator", "store", "mds", "executor"}
    BY <1>6 DEF RoleSet
  <2>3. QED
    BY <2>1, <2>2 DEF Roles, Sections, Range
<1>7. CASE t.kind = "dingo-store"
  BY <1>7 DEF RolesOf, RoleSet, Roles, Sections, Range
<1>8. CASE t.kind = "dingodb"
  <2>1. RolesOf(t) = <<"coordinator", "store", "document", "index", "diskann", "executor", "proxy", "web">>
    BY <1>8 DEF RolesOf
  <2>2. RoleSet(t) = {"coordinator", "store", "document", "index", "diskann", "executor", "proxy", "web"}
    BY <1>8 DEF RoleSet
  <2>3. QED
    BY <2>1, <2>2 DEF Roles, Sections, Range
<1>9. QED
  BY <1>4, <1>5, <1>6, <1>7, <1>8 DEF Kinds

\* What NewDeployConfig can make for a role.
MadeFor(role, ds) == {NewDeployConfig(role, ds[h], h - 1, i - 1) : h \in DOMAIN ds, i \in Nat}

\* The deploy configs of one role.
Group(role, ds) ==
  FlattenSeq([h \in DOMAIN ds |->
    [i \in 1..Instances(ds[h]) |-> NewDeployConfig(role, ds[h], h - 1, i - 1)]])

\* Entries that are parsed: an instance at least of each.
Counted(ds) == ds \in Seq(Range(ds)) /\ \A h \in DOMAIN ds : Instances(ds[h]) \in Nat \ {0}

\* The deploy configs of one role: made from its entries, and some if there is an entry.
LEMMA GroupLemma ==
  ASSUME NEW role, NEW ds, Counted(ds)
  PROVE  Group(role, ds) \in Seq(MadeFor(role, ds)) /\ (ds # <<>> => Range(Group(role, ds)) # {})
<1> DEFINE M == MadeFor(role, ds)
           line(h) == [i \in 1..Instances(ds[h]) |-> NewDeployConfig(role, ds[h], h - 1, i - 1)]
           ss == [h \in DOMAIN ds |-> line(h)]
<1>1. Len(ds) \in Nat /\ DOMAIN ds = 1..Len(ds) /\ (ds # <<>> => Len(ds) # 0)
  <2> DEFINE X == Range(ds)
  <2>1. ds \in Seq(X)
    BY DEF Counted
  <2> HIDE DEF X
  <2>2. QED
    BY <2>1, LenProperties, EmptySeq
<1>2. \A h \in DOMAIN ds : line(h) \in Seq(M) /\ Range(line(h)) # {}
  <2> SUFFICES ASSUME NEW h \in DOMAIN ds PROVE line(h) \in Seq(M) /\ Range(line(h)) # {}
    OBVIOUS
  <2> DEFINE n == Instances(ds[h])
  <2>1. n \in Nat /\ n # 0
    BY DEF Counted
  <2>2. \A i \in 1..n : NewDeployConfig(role, ds[h], h - 1, i - 1) \in M
    BY <2>1 DEF MadeFor
  <2> HIDE DEF n, M
  <2>3. [i \in 1..n |-> NewDeployConfig(role, ds[h], h - 1, i - 1)] \in Seq(M)
    BY <2>1, <2>2, IsASeq
  <2>4. 1 \in 1..n
    BY <2>1
  <2>5. Range([i \in 1..n |-> NewDeployConfig(role, ds[h], h - 1, i - 1)]) # {}
    BY <2>4 DEF Range
  <2>6. QED
    BY <2>3, <2>5 DEF n
<1> HIDE DEF line, M
<1>3. ss \in Seq(Seq(M)) /\ Len(ss) = Len(ds) /\ \A h \in DOMAIN ds : ss[h] = line(h)
  BY <1>1, <1>2
<1>4. Group(role, ds) = FlattenSeq(ss)
  BY DEF Group, line
<1> HIDE DEF ss
<1>5. Group(role, ds) \in Seq(M) /\ Range(Group(role, ds)) = UNION {Range(ss[i]) : i \in 1..Len(ss)}
  BY <1>3, <1>4, FlattenLemma
<1>6. ASSUME ds # <<>> PROVE Range(Group(role, ds)) # {}
  <2>1. 1 \in 1..Len(ss) /\ 1 \in DOMAIN ds
    BY <1>1, <1>3, <1>6
  <2>2. Range(ss[1]) # {}
    BY <1>2, <1>3, <2>1
  <2>3. QED
    BY <1>5, <2>1, <2>2
<1>7. QED
  BY <1>5, <1>6 DEF M

\* An entry has an instance at least, whatever its three numbers are.
LEMMA InstancesLemma ==
  ASSUME NEW d, d.instances \in Int, d.replicas \in Int, d.replica \in Int
  PROVE  Instances(d) \in Nat \ {0}
BY DEF Instances

\* So has every entry of a deploy list ...
LEMMA CountedLemma ==
  ASSUME NEW ds, IsDeployList(ds)
  PROVE  Counted(ds)
<1>1. ASSUME NEW h \in DOMAIN ds PROVE Instances(ds[h]) \in Nat \ {0}
  <2> DEFINE d == ds[h]
  <2>1. d \in Range(ds)
    BY Zenon DEF Range
  <2>2. d \in Entries(d.host)
    BY <2>1, Zenon DEF IsDeployList
  <2> HIDE DEF d
  <2>3. d.instances \in Int /\ d.replicas \in Int /\ d.replica \in Int
    BY <2>2 DEF Entries
  <2>4. Instances(d) \in Nat \ {0}
    BY <2>3, InstancesLemma
  <2>5. QED
    BY <2>4 DEF d
<1>2. QED
  BY <1>1 DEF Counted, IsDeployList

\* ... and of the list a role takes, the one the mds-client borrows included.
LEMMA DeploysCounted ==
  ASSUME NEW t \in Topologies, NEW role \in Roles, role = "mds-client" => t.deploy["mds"] # <<>>
  PROVE  Counted(DeploysOf(t, role))
<1>1. CASE role # "mds-client"
  <2>1. role \in Sections
    BY <1>1 DEF Roles
  <2>2. IsDeployList(t.deploy[role])
    BY <2>1, ClusterAssumption, Zenon
  <2>3. QED
    BY <1>1, <2>2, CountedLemma, Zenon DEF DeploysOf
<1>2. CASE role = "mds-client"
  <2> DEFINE ms == t.deploy["mds"]
             d == ms[1]
             e == [d EXCEPT !.replicas = 0]
  <2>1. IsDeployList(ms) /\ ms # <<>>
    BY <1>2, ClusterAssumption DEF Sections
  <2>2. d \in Range(ms)
    <3> HIDE DEF ms
    <3>1. ms \in Seq(Range(ms))
      BY <2>1 DEF IsDeployList
    <3> DEFINE X == Range(ms)
    <3> HIDE DEF X
    <3>2. ms \in Seq(X)
      BY <3>1 DEF X
    <3>3. Len(ms) \in Nat \ {0}
      BY <2>1, <3>2, EmptySeq
    <3>4. 1 \in 1..Len(ms)
      BY <3>3
    <3>5. ms[1] \in X
      BY <3>2, <3>4, ElementOfSeq
    <3>6. QED
      BY <3>5 DEF X
  <2>3. d \in Entries(d.host)
    BY <2>1, <2>2 DEF IsDeployList
  <2>4. DeploysOf(t, role) = <<e>>
    BY <1>2 DEF DeploysOf
  <2> HIDE DEF d
  <2>5. e.instances \in Int /\ e.replicas \in Int /\ e.replica \in Int
    BY <2>3 DEF Entries
  <2> HIDE DEF e
  <2>6. Instances(e) \in Nat \ {0}
    BY <2>5, InstancesLemma
  <2>7. <<e>> \in Seq(Range(<<e>>)) /\ DOMAIN <<e>> = {1} /\ <<e>>[1] = e
    BY DEF Range
  <2>8. QED
    BY <2>4, <2>6, <2>7 DEF Counted
<1>3. QED
  BY <1>1, <1>2

\* The deploy configs have the roles of the topology for which it has a deploy.
IsDcs(t, dcs) ==
  /\ dcs \in Seq(Range(dcs))
  /\ \A dc \in Range(dcs) :
       dc.role \in RoleSet(t) /\ RoleOf(dc.id) = dc.role /\ DeploysOf(t, dc.role) # <<>>
  /\ \A role \in RoleSet(t) : DeploysOf(t, role) # <<>> => role \in RolesIn(dcs)

\* What ParseTopology gives for a topology it accepts.
LEMMA DcsLemma ==
  ASSUME NEW t \in Topologies, ParseTopology(t) = "ok"
  PROVE  /\ IsDcs(t, DeployConfigs(t)) /\ DeployConfigs(t) # <<>>
         /\ "mds-client" \in RoleSet(t) => t.deploy["mds"] # <<>>
<1> DEFINE rs == RolesOf(t)
           dcs == DeployConfigs(t)
           ds(r) == DeploysOf(t, rs[r])
           M == UNION {MadeFor(rs[r], ds(r)) : r \in DOMAIN rs}
           ss == [r \in DOMAIN rs |-> Group(rs[r], ds(r))]
<1>1. rs \in Seq(Roles) /\ Range(rs) = RoleSet(t)
  BY RolesOfLemma, ClusterAssumption
<1>2. Len(rs) \in Nat /\ DOMAIN rs = 1..Len(rs) /\ \A r \in DOMAIN rs : rs[r] \in Roles
  <2> HIDE DEF rs
  <2>1. QED
    BY <1>1, LenProperties, ElementOfSeq
<1>3. dcs # <<>> /\ ("mds-client" \in RoleSet(t) => t.deploy["mds"] # <<>>)
  BY <1>1 DEF ParseTopology
<1>4. \A r \in DOMAIN rs : rs[r] \in RoleSet(t)
  BY <1>1 DEF Range
<1>5. \A r \in DOMAIN rs : Counted(ds(r))
  BY <1>2, <1>3, <1>4, DeploysCounted
<1>6. dcs = FlattenSeq(ss)
  BY DEF DeployConfigs, Group
<1> HIDE DEF rs, dcs, ds
<1>7. \A r \in DOMAIN rs : /\ Group(rs[r], ds(r)) \in Seq(MadeFor(rs[r], ds(r)))
                           /\ ds(r) # <<>> => Range(Group(rs[r], ds(r))) # {}
  BY <1>5, GroupLemma
<1>8. \A r \in DOMAIN rs : Group(rs[r], ds(r)) \in Seq(M)
  <2> SUFFICES ASSUME NEW r \in DOMAIN rs PROVE Group(rs[r], ds(r)) \in Seq(M)
    OBVIOUS
  <2> DEFINE Y == MadeFor(rs[r], ds(r))
  <2>1. Y \subseteq M
    OBVIOUS
  <2>2. Group(rs[r], ds(r)) \in Seq(Y)
    BY <1>7
  <2> HIDE DEF Y, M
  <2>3. QED
    BY <2>1, <2>2, SeqMonotonic
<1>9. ss \in Seq(Seq(M)) /\ Len(ss) = Len(rs) /\ \A r \in DOMAIN rs : ss[r] = Group(rs[r], ds(r))
  <2> HIDE DEF M
  <2>1. QED
    BY <1>2, <1>8
<1> HIDE DEF ss
<1>10. dcs \in Seq(M) /\ Range(dcs) = UNION {Range(ss[i]) : i \in 1..Len(ss)}
  <2> HIDE DEF M
  <2>1. QED
    BY <1>6, <1>9, FlattenLemma
<1>11. dcs \in Seq(Range(dcs)) /\ Range(dcs) \subseteq M
  <2> HIDE DEF M
  <2>1. QED
    BY <1>10, SeqOfRange, RangeOfSeq
<1>12. ASSUME NEW dc \in Range(dcs)
       PROVE  dc.role \in RoleSet(t) /\ RoleOf(dc.id) = dc.role /\ DeploysOf(t, dc.role) # <<>>
  <2>1. PICK r \in DOMAIN rs : dc \in MadeFor(rs[r], ds(r))
    BY <1>11
  <2>2. PICK h \in DOMAIN ds(r), i \in Nat : dc = NewDeployConfig(rs[r], ds(r)[h], h - 1, i - 1)
    BY <2>1 DEF MadeFor
  <2>3. dc.role = rs[r] /\ RoleOf(dc.id) = rs[r]
    BY <2>2 DEF NewDeployConfig, RoleOf
  <2>4. ds(r) # <<>>
    BY <2>2
  <2>5. QED
    BY <1>4, <2>3, <2>4 DEF ds
<1>13. ASSUME NEW role \in RoleSet(t), DeploysOf(t, role) # <<>> PROVE role \in RolesIn(dcs)
  <2>1. PICK r \in DOMAIN rs : rs[r] = role
    BY <1>1 DEF Range
  <2>2. ds(r) # <<>>
    BY <1>13, <2>1 DEF ds
  <2>3. Range(ss[r]) # {} /\ ss[r] \in Seq(MadeFor(role, ds(r)))
    BY <1>7, <1>9, <2>1, <2>2
  <2>4. PICK dc : dc \in Range(ss[r])
    BY <2>3
  <2>5. dc \in MadeFor(role, ds(r))
    <3> DEFINE Y == MadeFor(role, ds(r))
    <3> HIDE DEF Y
    <3>1. ss[r] \in Seq(Y)
      BY <2>3 DEF Y
    <3>2. Range(ss[r]) \subseteq Y
      BY <3>1, RangeOfSeq
    <3>3. QED
      BY <2>4, <3>2 DEF Y
  <2>6. dc.role = role
    BY <2>5 DEF MadeFor, NewDeployConfig
  <2>7. dc \in Range(dcs)
    <3>1. r \in 1..Len(ss)
      BY <1>2, <1>9
    <3>2. QED
      BY <1>10, <2>4, <3>1
  <2>8. QED
    BY <2>6, <2>7 DEF RolesIn, Range
<1>14. QED
  BY <1>3, <1>11, <1>12, <1>13 DEF IsDcs, dcs

(***************************************************************************)
(* The deploy configs of a step                                            *)
(***************************************************************************)

\* The elements of s at the positions I, no matter in what order.
AtPositions(s, I) == {s[k] : k \in I \cap DOMAIN s}

\* Pick takes the elements at the positions and no others.
LEMMA PickRange ==
  ASSUME NEW S, NEW s \in Seq(S), NEW I
  PROVE  Pick(s, I) \in Seq(S) /\ Range(Pick(s, I)) = AtPositions(s, I)
<1> DEFINE q == Pick(s, I)
<1>1. q \in Seq(S)
  BY PickLemma
<1>2. PICK e : /\ Embeds(q, s, e) /\ Covers(q, e, I \cap 1..Len(s))
               /\ \A j \in 1..Len(q) : e[j] \in I
  BY PickLemma
<1> HIDE DEF q
<1>3. DOMAIN s = 1..Len(s) /\ DOMAIN q = 1..Len(q)
  BY <1>1, LenProperties
<1>4. ASSUME NEW x \in Range(q) PROVE x \in AtPositions(s, I)
  <2>1. PICK j \in 1..Len(q) : x = q[j]
    BY <1>3 DEF Range
  <2>2. e[j] \in I \cap DOMAIN s /\ x = s[e[j]]
    BY <1>2, <1>3, <2>1 DEF Embeds
  <2>3. QED
    BY <2>2 DEF AtPositions
<1>5. ASSUME NEW x \in AtPositions(s, I) PROVE x \in Range(q)
  <2>1. PICK k \in I \cap 1..Len(s) : x = s[k]
    BY <1>3 DEF AtPositions
  <2>2. PICK j \in 1..Len(q) : e[j] = k
    BY <1>2 DEF Covers
  <2>3. x = q[j]
    BY <1>2, <2>1, <2>2 DEF Embeds
  <2>4. QED
    BY <1>3, <2>3 DEF Range
<1>6. QED
  BY <1>1, <1>4, <1>5 DEF q

\* Ids and roles, by the elements of a sequence.
LEMMA RangeFacts ==
  ASSUME NEW dcs
  PROVE  Ids(dcs) = {dc.id : dc \in Range(dcs)} /\ RolesIn(dcs) = {dc.role : dc \in Range(dcs)}
BY DEF Ids, RolesIn, Range

\* A sequence is empty if it has no elements.
LEMMA RangeEmpty ==
  ASSUME NEW S, NEW s \in Seq(S)
  PROVE  (s = <<>> <=> Range(s) = {}) /\ (s = <<>> <=> Len(s) = 0)
<1>1. Len(s) \in Nat /\ DOMAIN s = 1..Len(s)
  BY LenProperties
<1>2. s = <<>> => Len(s) = 0 /\ Range(s) = {}
  BY DEF Range
<1>3. s # <<>> => Len(s) \in Nat \ {0}
  BY EmptySeq
<1>4. s # <<>> => Range(s) # {}
  <2> SUFFICES ASSUME s # <<>> PROVE Range(s) # {}
    OBVIOUS
  <2>1. 1 \in 1..Len(s)
    BY <1>3
  <2>2. QED
    BY <1>1, <2>1 DEF Range
<1>5. QED
  BY <1>2, <1>3, <1>4

\* The deploy configs of dcs a step is for.
ForStep(dcs, step) == {dc \in Range(dcs) : FilterRole(step) = {} \/ dc.role \in FilterRole(step)}

\* A step is given the services of its role, or all.
LEMMA ConfigsLemma ==
  ASSUME NEW S, NEW dcs \in Seq(S), NEW step
  PROVE  Configs(dcs, step) \in Seq(S) /\ Range(Configs(dcs, step)) = ForStep(dcs, step)
<1>1. CASE FilterRole(step) = {}
  BY <1>1 DEF Configs, ForStep
<1>2. CASE FilterRole(step) # {}
  <2> DEFINE I == {k \in DOMAIN dcs : dcs[k].role \in FilterRole(step)}
  <2>1. Configs(dcs, step) = Pick(dcs, I)
    BY <1>2 DEF Configs
  <2>2. AtPositions(dcs, I) = ForStep(dcs, step)
    BY <1>2 DEF AtPositions, ForStep, Range
  <2> HIDE DEF I
  <2>3. QED
    BY <2>1, <2>2, PickRange
<1>3. QED
  BY <1>1, <1>2

\* A limit gives one of them; there is one to give unless there is none at all.
LEMMA LimitLemma ==
  ASSUME NEW S, NEW q \in Seq(S), NEW step
  PROVE  /\ Limit(q, step) \in Seq(S) \/ (q = <<>> /\ step \in Limited)
         /\ q # <<>> => Range(Limit(q, step)) \subseteq Range(q)
         /\ step \notin Limited => Limit(q, step) = q
<1>1. CASE step \notin Limited
  BY <1>1 DEF Limit
<1>2. CASE step \in Limited /\ q # <<>>
  <2>1. Limit(q, step) = SubSeq(q, 1, 1) /\ Len(q) \in Nat \ {0}
    BY <1>2, EmptySeq DEF Limit
  <2>2. 1 \in 1..Len(q) /\ q[1] \in S /\ DOMAIN q = 1..Len(q)
    BY <2>1, ElementOfSeq, LenProperties
  <2>3. q[1] \in Range(q)
    BY <2>2 DEF Range
  <2>4. \A i \in 1..1 : q[i] \in S /\ q[i] \in Range(q)
    BY <2>2, <2>3
  <2>5. SubSeq(q, 1, 1) \in Seq(S)
    BY <2>4, SubSeqProperties
  <2>6. SubSeq(q, 1, 1) \in Seq(Range(q))
    <3> DEFINE X == Range(q)
    <3> HIDE DEF X
    <3>1. \A i \in 1..1 : q[i] \in X
      BY <2>4 DEF X
    <3>2. SubSeq(q, 1, 1) \in Seq(X)
      BY <3>1, SubSeqProperties
    <3>3. QED
      BY <3>2 DEF X
  <2>7. Range(SubSeq(q, 1, 1)) \subseteq Range(q)
    <3> DEFINE X == Range(q)  u == SubSeq(q, 1, 1)
    <3>1. u \in Seq(X)
      BY <2>6
    <3> HIDE DEF X, u
    <3>2. Range(u) \subseteq X
      BY <3>1, RangeOfSeq
    <3>3. QED
      BY <3>2 DEF X, u
  <2>8. QED
    BY <1>2, <2>1, <2>5, <2>7
<1>3. CASE step \in Limited /\ q = <<>>
  BY <1>3
<1>4. QED
  BY <1>1, <1>2, <1>3

\* ByRole takes the services of a role.
LEMMA ByRoleLemma ==
  ASSUME NEW S, NEW dcs \in Seq(S), NEW role
  PROVE  ByRole(dcs, role) \in Seq(S) /\ Range(ByRole(dcs, role)) = {dc \in Range(dcs) : dc.role = role}
<1> DEFINE I == {k \in DOMAIN dcs : dcs[k].role = role}
<1>1. AtPositions(dcs, I) = {dc \in Range(dcs) : dc.role = role}
  BY DEF AtPositions, Range
<1>2. ByRole(dcs, role) = Pick(dcs, I)
  BY DEF ByRole
<1> HIDE DEF I
<1>3. QED
  BY <1>1, <1>2, PickRange

\* FilterDeployConfig takes some of the services.
LEMMA FilterLemma ==
  ASSUME NEW S, NEW dcs \in Seq(S), NEW c
  PROVE  Filter(dcs, c) \in Seq(S) /\ Range(Filter(dcs, c)) \subseteq Range(dcs)
<1> DEFINE I == {k \in DOMAIN dcs : c.role \in {"*", dcs[k].role} /\ c.host \in {"*", dcs[k].host}}
<1>1. AtPositions(dcs, I) \subseteq Range(dcs)
  BY DEF AtPositions, Range
<1>2. Filter(dcs, c) = Pick(dcs, I)
  BY DEF Filter
<1> HIDE DEF I
<1>3. QED
  BY <1>1, <1>2, PickRange

(***************************************************************************)
(* What leaving out steps keeps                                            *)
(***************************************************************************)

\* The order of two elements tells that of what they were taken from.
LEMMA EmbedsOrder ==
  ASSUME NEW S, NEW s \in Seq(S), NEW q \in Seq(S), NEW e, Embeds(q, s, e),
         NEW m \in 1..Len(q), NEW n \in 1..Len(q)
  PROVE  /\ (e[m] < e[n] => m < n) /\ (m <= n => e[m] <= e[n])
         /\ e[m] \in 1..Len(s) /\ q[m] = s[e[m]]
<1>1. Len(q) \in Nat /\ Len(s) \in Nat
  BY LenProperties
<1>2. e[m] \in 1..Len(s) /\ e[n] \in 1..Len(s) /\ q[m] = s[e[m]] /\ (n <= m => e[n] <= e[m]) /\ (m <= n => e[m] <= e[n])
  BY DEF Embeds
<1>3. QED
  BY <1>1, <1>2

\* The positions that make a list Ready for role r.
Vital(s, r) == {x \in 1..Len(s) : s[x] = "CREATE_CONTAINER" \/ (s[x] \in Starts /\ FilterRole(s[x]) \subseteq {r})}

\* A list with the steps that matter, in their order, stays Ready.
LEMMA ReadyKept ==
  ASSUME NEW S, NEW s \in Seq(S), NEW q \in Seq(S), NEW e, NEW r, Embeds(q, s, e),
         Covers(q, e, Vital(s, r)), Ready(s, r)
  PROVE  Ready(q, r)
<1>1. Len(q) \in Nat /\ Len(s) \in Nat /\ DOMAIN q = 1..Len(q) /\ DOMAIN s = 1..Len(s)
  BY LenProperties
<1>2. PICK k \in DOMAIN s : \E j \in 1..(k - 1) :
        /\ s[j] = "CREATE_CONTAINER"
        /\ s[k] \in Starts /\ FilterRole(s[k]) \subseteq {r}
        /\ \A m \in DOMAIN s : m > j => s[m] \notin {"STOP_SERVICE", "CLEAN_SERVICE"}
        /\ \A m \in 1..(k - 1) : ~StartsLater(s[m], r)
  BY DEF Ready
<1>a. PICK j \in 1..(k - 1) :
        /\ s[j] = "CREATE_CONTAINER"
        /\ s[k] \in Starts /\ FilterRole(s[k]) \subseteq {r}
        /\ \A m \in DOMAIN s : m > j => s[m] \notin {"STOP_SERVICE", "CLEAN_SERVICE"}
        /\ \A m \in 1..(k - 1) : ~StartsLater(s[m], r)
  BY <1>2
<1>3. k \in 1..Len(s) /\ j \in 1..Len(s) /\ j < k
  BY <1>1, <1>a
<1>4. k \in Vital(s, r) /\ j \in Vital(s, r)
  BY <1>a, <1>3 DEF Vital
<1>5. PICK k1 \in 1..Len(q), j1 \in 1..Len(q) : e[k1] = k /\ e[j1] = j
  BY <1>4 DEF Covers
<1>6. j1 < k1 /\ q[k1] = s[k] /\ q[j1] = s[j]
  BY <1>3, <1>5, EmbedsOrder
<1>7. j1 \in 1..(k1 - 1)
  BY <1>1, <1>6
<1>8. ASSUME NEW m \in 1..Len(q), m > j1 PROVE q[m] \notin {"STOP_SERVICE", "CLEAN_SERVICE"}
  <2>1. e[m] \in 1..Len(s) /\ q[m] = s[e[m]] /\ j <= e[m]
    BY <1>1, <1>5, <1>8, EmbedsOrder
  <2>2. e[m] = j \/ e[m] > j
    BY <1>1, <1>3, <2>1
  <2>3. QED
    BY <1>1, <1>a, <2>1, <2>2
<1>9. ASSUME NEW m \in 1..(k1 - 1) PROVE ~StartsLater(q[m], r)
  <2>0. m \in 1..Len(q) /\ m <= k1
    BY <1>1
  <2>1. e[m] \in 1..Len(s) /\ q[m] = s[e[m]] /\ e[m] <= k
    BY <1>5, <2>0, EmbedsOrder
  <2>2. e[m] = k \/ e[m] \in 1..(k - 1)
    BY <1>1, <1>3, <2>1
  <2>3. CASE e[m] = k
    <3>1. <<r, r>> \notin StartsBefore
      BY DEF StartsBefore
    <3>2. QED
      BY <1>a, <2>1, <2>3, <3>1 DEF StartsLater
  <2>4. CASE e[m] \in 1..(k - 1)
    BY <1>a, <2>1, <2>4
  <2>5. QED
    BY <2>2, <2>3, <2>4
<1>10. QED
  BY <1>1, <1>a, <1>6, <1>7, <1>8, <1>9 DEF Ready

\* So does what comes after a step that is kept.
LEMMA After1Kept ==
  ASSUME NEW S, NEW s \in Seq(S), NEW q \in Seq(S), NEW e, NEW a, NEW B, Embeds(q, s, e),
         Covers(q, e, {x \in 1..Len(s) : s[x] = a}), After1(s, a, B)
  PROVE  After1(q, a, B)
<1>1. Len(q) \in Nat /\ Len(s) \in Nat /\ DOMAIN q = 1..Len(q) /\ DOMAIN s = 1..Len(s)
  BY LenProperties
<1>2. ASSUME NEW m \in 1..Len(q), q[m] \in B PROVE \E n \in 1..(m - 1) : q[n] = a
  <2>1. e[m] \in 1..Len(s) /\ q[m] = s[e[m]]
    BY EmbedsOrder
  <2>2. PICK n \in 1..(e[m] - 1) : s[n] = a
    BY <1>1, <1>2, <2>1 DEF After1
  <2>3. n \in 1..Len(s) /\ n < e[m]
    BY <1>1, <2>1
  <2>4. PICK n1 \in 1..Len(q) : e[n1] = n
    BY <2>2, <2>3 DEF Covers
  <2>5. n1 < m /\ q[n1] = a
    BY <2>2, <2>3, <2>4, EmbedsOrder
  <2>6. n1 \in 1..(m - 1)
    BY <1>1, <2>5
  <2>7. QED
    BY <2>5, <2>6
<1>3. QED
  BY <1>1, <1>2 DEF After1

\* q is s but for some of its PULL_IMAGE steps.
Keeps(q, s) ==
  \E e : Embeds(q, s, e) /\ Covers(q, e, {x \in 1..Len(s) : s[x] # "PULL_IMAGE"})

\* Keeps: for the list itself ...
LEMMA KeepsSelf ==
  ASSUME NEW S, NEW s \in Seq(S)
  PROVE  Keeps(s, s)
<1> DEFINE e == [j \in 1..Len(s) |-> j]
<1>1. Len(s) \in Nat
  BY LenProperties
<1>2. e \in [1..Len(s) -> 1..Len(s)] /\ \A j \in 1..Len(s) : e[j] = j
  OBVIOUS
<1> HIDE DEF e
<1>3. QED
  BY <1>1, <1>2 DEF Keeps, Embeds, Covers

\* ... it keeps Ready ...
LEMMA KeepsReady ==
  ASSUME NEW S, NEW s \in Seq(S), NEW q \in Seq(S), Keeps(q, s), NEW r, Ready(s, r)
  PROVE  Ready(q, r)
<1>1. PICK e : Embeds(q, s, e) /\ Covers(q, e, {x \in 1..Len(s) : s[x] # "PULL_IMAGE"})
  BY DEF Keeps
<1>2. Covers(q, e, Vital(s, r))
  BY <1>1 DEF Covers, Vital, Starts
<1>3. QED
  BY <1>1, <1>2, ReadyKept

\* ... and After1.
LEMMA KeepsAfter ==
  ASSUME NEW S, NEW s \in Seq(S), NEW q \in Seq(S), Keeps(q, s), NEW a, a # "PULL_IMAGE", NEW B,
         After1(s, a, B)
  PROVE  After1(q, a, B)
<1>1. PICK e : Embeds(q, s, e) /\ Covers(q, e, {x \in 1..Len(s) : s[x] # "PULL_IMAGE"})
  BY DEF Keeps
<1>2. Covers(q, e, {x \in 1..Len(s) : s[x] = a})
  BY <1>1 DEF Covers
<1>3. QED
  BY <1>1, <1>2, After1Kept

\* What SubSeq from 1 gives.
LEMMA PrefixLemma ==
  ASSUME NEW S, NEW s \in Seq(S), NEW n \in 0..Len(s)
  PROVE  /\ SubSeq(s, 1, n) \in Seq(S) /\ Len(SubSeq(s, 1, n)) = n
         /\ \A i \in 1..n : SubSeq(s, 1, n)[i] = s[i]
<1>1. Len(s) \in Nat /\ n \in Nat
  BY LenProperties
<1>2. \A i \in 1..n : s[i] \in S
  BY <1>1, ElementOfSeq
<1>3. QED
  BY <1>1, <1>2, SubSeqProperties

\* Where Shifted takes the element k from, if p is the place of the first PULL_IMAGE.
From(k, n, p) == IF k < n /\ p <= k THEN k + 1 ELSE k

\* Shifted keeps the order.
LEMMA FromMonotone ==
  ASSUME NEW k \in Nat, NEW m \in Nat, NEW n \in Nat, NEW p \in Nat, k <= m
  PROVE  From(k, n, p) <= From(m, n, p)
BY DEF From

\* Shifted, by where it takes its elements from.
LEMMA ShiftedLemma ==
  ASSUME NEW S, NEW s \in Seq(S), NEW n \in 0..Len(s), PullAt(SubSeq(s, 1, n)) # {}
  PROVE  \E p \in 1..n : /\ s[p] = "PULL_IMAGE"
                         /\ Shifted(s, n) = [k \in 1..Len(s) |-> s[From(k, n, p)]]
<1> DEFINE u == SubSeq(s, 1, n)
<1>1. Len(s) \in Nat /\ n \in Nat /\ DOMAIN s = 1..Len(s)
  BY LenProperties
<1>2. u \in Seq(S) /\ Len(u) = n /\ \A i \in 1..n : u[i] = s[i]
  BY PrefixLemma
<1>3. DOMAIN u = 1..n
  BY <1>2, LenProperties
<1> HIDE DEF u
<1>4. PullAt(u) \subseteq 1..n /\ PullAt(u) # {} /\ \A i \in PullAt(u) : s[i] = "PULL_IMAGE"
  BY <1>2, <1>3 DEF PullAt, u
<1>5. PICK p \in PullAt(u) : \A j \in PullAt(u) : p <= j
  <2>1. PullAt(u) \subseteq Nat
    BY <1>1, <1>4
  <2>2. QED
    BY <1>4, <2>1, LeastElement
<1>6. p \in 1..n /\ s[p] = "PULL_IMAGE"
  BY <1>4, <1>5
<1>7. ASSUME NEW k \in 1..Len(s)
      PROVE  (IF k < n /\ \E i \in PullAt(u) : i <= k THEN s[k + 1] ELSE s[k]) = s[From(k, n, p)]
  <2>1. (\E i \in PullAt(u) : i <= k) <=> p <= k
    BY <1>1, <1>4, <1>5
  <2>2. QED
    BY <2>1 DEF From
<1>8. Shifted(s, n) = [k \in 1..Len(s) |-> s[From(k, n, p)]]
  BY <1>1, <1>7 DEF Shifted, u
<1>9. QED
  BY <1>6, <1>8

\* The list --local leaves behind has all its steps but a PULL_IMAGE.
LEMMA ShiftedKeeps ==
  ASSUME NEW S, NEW s \in Seq(S)
  PROVE  Shifted(s, Len(s)) \in Seq(S) /\ Keeps(Shifted(s, Len(s)), s)
<1> DEFINE n == Len(s)
           q == Shifted(s, n)
<1>1. n \in Nat /\ DOMAIN s = 1..n /\ n \in 0..Len(s)
  BY LenProperties
<1>2. SubSeq(s, 1, n) = s
  BY SubSeqFull
<1>3. CASE PullAt(SubSeq(s, 1, n)) = {}
  <2>1. q = [k \in DOMAIN s |-> s[k]]
    BY <1>3 DEF Shifted
  <2>2. s = [k \in DOMAIN s |-> s[k]]
    BY LenProperties
  <2>3. q = s
    BY <2>1, <2>2, Zenon
  <2>4. QED
    BY <2>3, KeepsSelf, Zenon
<1>4. CASE PullAt(SubSeq(s, 1, n)) # {}
  <2>1. PICK p \in 1..n : s[p] = "PULL_IMAGE" /\ q = [k \in 1..n |-> s[From(k, n, p)]]
    <3>1. \E p \in 1..n : /\ s[p] = "PULL_IMAGE"
                          /\ q = [k \in 1..Len(s) |-> s[From(k, n, p)]]
      BY <1>1, <1>4, ShiftedLemma
    <3>2. QED
      BY <3>1
  <2> HIDE DEF q, n
  <2> DEFINE e == [k \in 1..n |-> From(k, n, p)]
  <2>2. \A k \in 1..n : From(k, n, p) \in 1..n /\ s[From(k, n, p)] \in S
    <3>1. \A k \in 1..n : From(k, n, p) \in 1..n
      BY <1>1 DEF From
    <3>2. QED
      BY <3>1, ElementOfSeq DEF n
  <2>3. q \in Seq(S) /\ Len(q) = n
    BY <1>1, <2>1, <2>2
  <2>4. e \in [1..n -> 1..n] /\ \A k \in 1..n : e[k] = From(k, n, p) /\ q[k] = s[e[k]]
    BY <2>1, <2>2
  <2> HIDE DEF e
  <2>5. \A k, m \in 1..n : k <= m => e[k] <= e[m]
    <3> SUFFICES ASSUME NEW k \in 1..n, NEW m \in 1..n, k <= m PROVE e[k] <= e[m]
      OBVIOUS
    <3>1. k \in Nat /\ m \in Nat /\ n \in Nat /\ p \in Nat
      BY <1>1
    <3>2. From(k, n, p) <= From(m, n, p)
      BY <3>1, FromMonotone
    <3>3. QED
      BY <2>4, <3>2, Zenon
  <2>6. \A x \in 1..n : x # p => \E k \in 1..n : e[k] = x
    <3> SUFFICES ASSUME NEW x \in 1..n, x # p PROVE \E k \in 1..n : e[k] = x
      OBVIOUS
    <3>1. CASE x < p
      <4>1. e[x] = x
        BY <1>1, <2>4, <3>1 DEF From
      <4>2. QED
        BY <4>1
    <3>2. CASE x > p
      <4>1. x - 1 \in 1..n /\ From(x - 1, n, p) = x
        BY <1>1, <3>2 DEF From
      <4>2. QED
        BY <2>4, <4>1
    <3>3. QED
      BY <1>1, <3>1, <3>2
  <2>7. Keeps(q, s)
    <3>1. Len(q) = n /\ Len(s) = n /\ s[p] = "PULL_IMAGE"
      BY <2>1, <2>3 DEF n
    <3>2. \A k \in 1..n : q[k] = s[e[k]]
      BY <2>4, Zenon
    <3>3. e \in [1..n -> 1..n]
      BY <2>4, Zenon
    <3>4. \A k \in 1..Len(q) : q[k] = s[e[k]]
      BY <3>1, <3>2
    <3>5. \A k, m \in 1..Len(q) : k <= m => e[k] <= e[m]
      BY <2>5, <3>1
    <3>6. \A x \in 1..Len(s) : x # p => \E k \in 1..Len(q) : e[k] = x
      BY <2>6, <3>1
    <3>7. e \in [1..Len(q) -> 1..Len(s)]
      BY <3>1, <3>3
    <3>8. Embeds(q, s, e)
      BY <3>4, <3>5, <3>7, Zenon DEF Embeds
    <3>9. Covers(q, e, {x \in 1..Len(s) : s[x] # "PULL_IMAGE"})
      BY <3>1, <3>6 DEF Covers
    <3>10. QED
      BY <3>8, <3>9 DEF Keeps
  <2>8. QED
    BY <2>3, <2>7 DEF n, q
<1>5. QED
  BY <1>3, <1>4

\* And so has the list it runs.
LEMMA RemovePullKeeps ==
  ASSUME NEW S, NEW s \in Seq(S), NEW n \in 0..Len(s)
  PROVE  RemovePull(s, n) \in Seq(S) /\ Keeps(RemovePull(s, n), SubSeq(s, 1, n))
<1> DEFINE u == SubSeq(s, 1, n)
           q == RemovePull(s, n)
<1>1. Len(s) \in Nat /\ n \in Nat /\ DOMAIN s = 1..Len(s)
  BY LenProperties
<1>2. u \in Seq(S) /\ Len(u) = n /\ \A i \in 1..n : u[i] = s[i]
  BY PrefixLemma
<1>3. CASE PullAt(u) = {}
  <2>1. q = u
    BY <1>3 DEF RemovePull
  <2> HIDE DEF u, q
  <2>2. q \in Seq(S) /\ Keeps(q, u)
    BY <1>2, <2>1, KeepsSelf
  <2>3. QED
    BY <2>2 DEF q, u
<1>4. CASE PullAt(u) # {}
  <2>1. PICK p \in 1..n : s[p] = "PULL_IMAGE" /\ Shifted(s, n) = [k \in 1..Len(s) |-> s[From(k, n, p)]]
    BY <1>4, ShiftedLemma
  <2> DEFINE h == Shifted(s, n)
             N == n - 1
             e == [k \in 1..N |-> From(k, n, p)]
  <2>2. q = SubSeq(h, 1, N)
    BY <1>4 DEF RemovePull
  <2>a. N \in Nat /\ n = N + 1
    BY <1>1
  <2> HIDE DEF q, u, h, N
  <2>3. \A k \in 1..N : From(k, n, p) \in 1..n /\ k \in 1..Len(s) /\ From(k, n, p) \in 1..Len(s)
    BY <1>1, <2>a DEF From
  <2>4. \A k \in 1..N : h[k] = s[From(k, n, p)] /\ h[k] \in S /\ h[k] = u[From(k, n, p)]
    BY <1>2, <2>1, <2>3, ElementOfSeq DEF h
  <2>5. q \in Seq(S) /\ Len(q) = N /\ \A i \in 1..N : q[i] = h[i]
    <3>1. N \in Int /\ 1 \in Int /\ \A i \in 1..N : h[i] \in S
      BY <2>4, <2>a
    <3>2. /\ SubSeq(h, 1, N) \in Seq(S)
          /\ Len(SubSeq(h, 1, N)) = IF 1 <= N THEN N - 1 + 1 ELSE 0
          /\ \A i \in 1..(N - 1 + 1) : SubSeq(h, 1, N)[i] = h[1 + i - 1]
      BY <3>1, SubSeqProperties
    <3>3. QED
      BY <2>2, <2>a, <3>2
  <2>6. e \in [1..N -> 1..n] /\ \A k \in 1..N : e[k] = From(k, n, p)
    BY <2>3
  <2> HIDE DEF e
  <2>7. \A k \in 1..N : q[k] = u[e[k]]
    BY <2>4, <2>5, <2>6
  <2>8. \A k, m \in 1..N : k <= m => e[k] <= e[m]
    <3> SUFFICES ASSUME NEW k \in 1..N, NEW m \in 1..N, k <= m PROVE e[k] <= e[m]
      OBVIOUS
    <3>1. k \in Nat /\ m \in Nat /\ n \in Nat /\ p \in Nat
      BY <1>1, <2>a
    <3>2. From(k, n, p) <= From(m, n, p)
      BY <3>1, FromMonotone
    <3>3. QED
      BY <2>6, <3>2, Zenon
  <2>9. \A x \in 1..n : x # p => \E k \in 1..N : e[k] = x
    <3> SUFFICES ASSUME NEW x \in 1..n, x # p PROVE \E k \in 1..N : e[k] = x
      OBVIOUS
    <3>1. CASE x < p
      <4>1. x \in 1..N /\ From(x, n, p) = x
        BY <1>1, <2>a, <3>1 DEF From
      <4>2. QED
        BY <2>6, <4>1
    <3>2. CASE x > p
      <4>1. x - 1 \in 1..N /\ From(x - 1, n, p) = x
        BY <1>1, <2>a, <3>2 DEF From
      <4>2. QED
        BY <2>6, <4>1
    <3>3. QED
      BY <1>1, <3>1, <3>2
  <2>10. Keeps(q, u)
    <3>1. Len(q) = N /\ Len(u) = n /\ u[p] = "PULL_IMAGE"
      BY <1>2, <2>1, <2>5
    <3>2. e \in [1..N -> 1..n]
      BY <2>6, Zenon
    <3>3. \A k \in 1..Len(q) : q[k] = u[e[k]]
      BY <2>7, <3>1
    <3>4. \A k, m \in 1..Len(q) : k <= m => e[k] <= e[m]
      BY <2>8, <3>1
    <3>5. \A x \in 1..Len(u) : x # p => \E k \in 1..Len(q) : e[k] = x
      BY <2>9, <3>1
    <3>6. e \in [1..Len(q) -> 1..Len(u)]
      BY <3>1, <3>2
    <3>7. Embeds(q, u, e)
      BY <3>3, <3>4, <3>6, Zenon DEF Embeds
    <3>8. Covers(q, e, {x \in 1..Len(u) : u[x] # "PULL_IMAGE"})
      BY <3>1, <3>5 DEF Covers
    <3>9. QED
      BY <3>7, <3>8 DEF Keeps
  <2>11. QED
    BY <2>5, <2>10 DEF q, u
<1>5. QED
  BY <1>3, <1>4

(***************************************************************************)
(* The lists of steps                                                      *)
(***************************************************************************)

\* The table of roles, entry by entry.
LEMMA FilterRoleFacts ==
  /\ FilterRole("START_FS_MDS") = {"mds"} /\ FilterRole("START_COORDINATOR") = {"coordinator"}
  /\ FilterRole("START_STORE") = {"store"} /\ FilterRole("CHECK_STORE_HEALTH") = {"store"}
  /\ FilterRole("START_DINGODB_DOCUMENT") = {"document"} /\ FilterRole("START_DINGODB_DISKANN") = {"diskann"}
  /\ FilterRole("START_DINGODB_INDEX") = {"index"} /\ FilterRole("START_DINGODB_EXECUTOR") = {"executor"}
  /\ FilterRole("START_DINGODB_WEB") = {"web"} /\ FilterRole("START_DINGODB_PROXY") = {"proxy"}
  /\ FilterRole("START_MDSV2_CLI_CONTAINER") = {"mds-client"}
  /\ FilterRole("CREATE_META_TABLES") = {"mds-client"}
  /\ FilterRole("CREATE_MDSV2_CLI_CONTAINER") = {"mds-client"}
  /\ FilterRole("CREATE_CONTAINER") = {} /\ FilterRole("START_SERVICE") = {}
  /\ FilterRole("STOP_SERVICE") = {} /\ FilterRole("CLEAN_SERVICE") = {}
BY DEF FilterRole, DEPLOY_FILTER_ROLE

\* Which starts come after which role.
LEMMA StartsLaterFacts ==
  ASSUME NEW type, NEW role, StartsLater(type, role)
  PROVE  \/ type = "START_STORE" /\ role = "coordinator"
         \/ type = "START_FS_MDS" /\ role \in {"coordinator", "store"}
         \/ type = "START_DINGODB_EXECUTOR" /\ role = "store"
<1>1. type \in Starts /\ \E r \in FilterRole(type) : <<role, r>> \in StartsBefore
  BY DEF StartsLater
<1>2. PICK r \in FilterRole(type) : <<role, r>> \in StartsBefore
  BY <1>1
<1>3. \/ role = "coordinator" /\ r \in {"store", "mds"}
      \/ role = "store" /\ r \in {"mds", "executor"}
  BY <1>2 DEF StartsBefore
<1>4. \/ type = "START_STORE" /\ r = "store"
      \/ type = "START_FS_MDS" /\ r = "mds"
      \/ type = "START_DINGODB_EXECUTOR" /\ r = "executor"
  BY <1>1, <1>2, <1>3, FilterRoleFacts DEF Starts
<1>5. QED
  BY <1>3, <1>4

\* A list with its container at j and its start at k, checked place by place.
LEMMA ReadyIntro ==
  ASSUME NEW s, NEW n \in Nat, DOMAIN s = 1..n, NEW r, NEW j \in 1..n, NEW k \in 1..n, j < k,
         s[j] = "CREATE_CONTAINER", s[k] \in Starts, FilterRole(s[k]) \subseteq {r},
         \A m \in (j + 1)..n : s[m] \notin {"STOP_SERVICE", "CLEAN_SERVICE"},
         \A m \in 1..(k - 1) : ~StartsLater(s[m], r)
  PROVE  Ready(s, r)
<1>1. j \in 1..(k - 1)
  OBVIOUS
<1>2. \A m \in DOMAIN s : m > j => s[m] \notin {"STOP_SERVICE", "CLEAN_SERVICE"}
  OBVIOUS
<1>3. QED
  BY <1>1, <1>2 DEF Ready

\* The list of an upgrade starts every role anew.
LEMMA UpgradeReady ==
  /\ StepLists["upgrade"] \in Seq(UpgradeTypes)
  /\ \A r \in Roles : Ready(StepLists["upgrade"], r)
<1> DEFINE s == StepLists["upgrade"]
<1>1. s = <<"PULL_IMAGE", "STOP_SERVICE", "CLEAN_SERVICE", "CREATE_CONTAINER", "SYNC_CONFIG", "START_SERVICE">>
  BY DEF StepLists
<1> HIDE DEF s
<1>2. s \in Seq(UpgradeTypes) /\ DOMAIN s = 1..6
  BY <1>1 DEF UpgradeTypes
<1>3. ASSUME NEW r \in Roles PROVE Ready(s, r)
  <2>1. s[4] = "CREATE_CONTAINER" /\ s[6] = "START_SERVICE" /\ s[5] = "SYNC_CONFIG"
    BY <1>1
  <2>2. \A m \in 5..6 : s[m] \notin {"STOP_SERVICE", "CLEAN_SERVICE"}
    BY <2>1
  <2>3. \A m \in 1..5 : s[m] \notin {"START_STORE", "START_FS_MDS", "START_DINGODB_EXECUTOR"}
    BY <1>1
  <2>4. \A m \in 1..5 : ~StartsLater(s[m], r)
    BY <2>3, StartsLaterFacts
  <2>5. s[6] \in Starts /\ FilterRole(s[6]) \subseteq {r}
    BY <2>1, FilterRoleFacts DEF Starts
  <2>6. QED
    BY <1>2, <2>1, <2>2, <2>4, <2>5, ReadyIntro
<1>4. QED
  BY <1>2, <1>3 DEF s

\* No start that another may have to wait for comes before place k.
Early(s, k) == \A m \in 1..(k - 1) : s[m] \notin {"START_STORE", "START_FS_MDS", "START_DINGODB_EXECUTOR"}

\* A start of a role that comes before those that wait for it makes a list Ready ...
LEMMA ReadyEarly ==
  ASSUME NEW S, NEW s \in Seq(S), NEW r, NEW j \in 1..Len(s), NEW k \in 1..Len(s), j < k,
         s[j] = "CREATE_CONTAINER", s[k] \in Starts, FilterRole(s[k]) = {r},
         \A m \in j..Len(s) : s[m] \notin {"STOP_SERVICE", "CLEAN_SERVICE"},
         r \in {"coordinator", "store"} => Early(s, k)
  PROVE  Ready(s, r)
<1>1. Len(s) \in Nat /\ DOMAIN s = 1..Len(s)
  BY LenProperties
<1>2. \A m \in 1..(k - 1) : ~StartsLater(s[m], r)
  BY StartsLaterFacts DEF Early
<1>3. \A m \in (j + 1)..Len(s) : s[m] \notin {"STOP_SERVICE", "CLEAN_SERVICE"}
  BY <1>1
<1>4. QED
  BY <1>1, <1>2, <1>3, ReadyIntro

\* ... and in a list of deploy nothing stops it again.
LEMMA DeployReady ==
  ASSUME NEW s \in Seq(DeployTypes), NEW r, NEW j \in 1..Len(s), NEW k \in 1..Len(s), j < k,
         s[j] = "CREATE_CONTAINER", s[k] \in Starts, FilterRole(s[k]) = {r},
         r \in {"coordinator", "store"} => Early(s, k)
  PROVE  Ready(s, r)
<1>1. \A m \in 1..Len(s) : s[m] \notin {"STOP_SERVICE", "CLEAN_SERVICE"}
  <2>1. \A m \in 1..Len(s) : s[m] \in DeployTypes
    BY ElementOfSeq
  <2>2. QED
    BY <2>1 DEF DeployTypes, Starts
<1>2. \A m \in j..Len(s) : s[m] \notin {"STOP_SERVICE", "CLEAN_SERVICE"}
  BY <1>1, LenProperties
<1>3. QED
  BY <1>2, ReadyEarly

\* A step before which there is none of B is before all of B.
LEMMA AfterFirst ==
  ASSUME NEW S, NEW s \in Seq(S), NEW p \in 1..Len(s), NEW a, s[p] = a, NEW B,
         \A m \in 1..p : s[m] \notin B
  PROVE  After1(s, a, B)
<1>1. Len(s) \in Nat /\ DOMAIN s = 1..Len(s)
  BY LenProperties
<1>2. ASSUME NEW m \in DOMAIN s, s[m] \in B PROVE p \in 1..(m - 1)
  BY <1>1, <1>2
<1>3. QED
  BY <1>2 DEF After1

\* The lists of a deploy bring up the roles they are for.
LEMMA MdsOnlyReady ==
  LET s == StepLists["mds_only"] IN
  /\ s \in Seq(DeployTypes)
  /\ \A r \in {"mds"} : Ready(s, r)
  /\ After1(s, "CREATE_META_TABLES", {"START_FS_MDS"})
  /\ After1(s, "CLEAN_PRECHECK_ENVIRONMENT", Starts)
<1> DEFINE s == StepLists["mds_only"]
<1>a. s = <<"CLEAN_PRECHECK_ENVIRONMENT", "PULL_IMAGE", "CREATE_CONTAINER",
        "CREATE_MDSV2_CLI_CONTAINER", "SYNC_CONFIG", "START_MDSV2_CLI_CONTAINER",
        "CREATE_META_TABLES", "START_FS_MDS">>
  BY DEF StepLists
<1> HIDE DEF s
<1>2. s \in Seq(DeployTypes) /\ Len(s) = 8
  BY <1>a DEF DeployTypes, Starts
<1>3. s[1] = "CLEAN_PRECHECK_ENVIRONMENT" /\ s[2] = "PULL_IMAGE" /\ s[3] = "CREATE_CONTAINER" /\
      s[4] = "CREATE_MDSV2_CLI_CONTAINER" /\ s[5] = "SYNC_CONFIG" /\ s[6] =
      "START_MDSV2_CLI_CONTAINER" /\ s[7] = "CREATE_META_TABLES" /\ s[8] = "START_FS_MDS"
  BY <1>a
<1>4. \A m \in 1..7 : s[m] \notin {"START_STORE", "START_FS_MDS", "START_DINGODB_EXECUTOR"}
  BY <1>3
<1>5. Ready(s, "mds")
  <2>1. s[8] \in Starts /\ FilterRole(s[8]) = {"mds"}
    BY <1>3, FilterRoleFacts DEF Starts
  <2>2. 3 \in 1..Len(s) /\ 8 \in 1..Len(s) /\ 3 < 8 /\ s[3] = "CREATE_CONTAINER"
    BY <1>2, <1>3
  <2>3. QED
    BY <1>2, <2>1, <2>2, DeployReady
<1>6. \A r \in {"mds"} : Ready(s, r)
  BY <1>5
<1>7. After1(s, "CREATE_META_TABLES", {"START_FS_MDS"})
  <2>1. 7 \in 1..Len(s) /\ s[7] = "CREATE_META_TABLES" /\ \A m \in 1..7 : s[m] \notin {"START_FS_MDS"}
    BY <1>2, <1>3
  <2>2. QED
    BY <1>2, <2>1, AfterFirst
<1>8. After1(s, "CLEAN_PRECHECK_ENVIRONMENT", Starts)
  <2>1. 1 \in 1..Len(s) /\ s[1] = "CLEAN_PRECHECK_ENVIRONMENT" /\ \A m \in 1..1 : s[m] \notin Starts
    BY <1>2, <1>3 DEF Starts
  <2>2. QED
    BY <1>2, <2>1, AfterFirst
<1>9. QED
  BY <1>2, <1>6, <1>7, <1>8 DEF s

\* With and without its last step.
LEMMA MdsFollowReady ==
  ASSUME NEW n \in {11, 12}
  PROVE  LET s == SubSeq(StepLists["mds_follow"], 1, n) IN
         /\ s \in Seq(DeployTypes)
         /\ \A r \in {"coordinator", "store", "mds"} : Ready(s, r)
         /\ n = 12 => Ready(s, "executor")
         /\ After1(s, "CREATE_META_TABLES", {"START_FS_MDS"})
         /\ After1(s, "CLEAN_PRECHECK_ENVIRONMENT", Starts)
<1> DEFINE w == StepLists["mds_follow"]
           s == SubSeq(w, 1, n)
<1>a. w = <<"CLEAN_PRECHECK_ENVIRONMENT", "PULL_IMAGE", "CREATE_CONTAINER",
        "CREATE_MDSV2_CLI_CONTAINER", "SYNC_CONFIG", "START_COORDINATOR", "START_STORE",
        "CHECK_STORE_HEALTH", "START_MDSV2_CLI_CONTAINER", "CREATE_META_TABLES", "START_FS_MDS",
        "START_DINGODB_EXECUTOR">>
  BY DEF StepLists
<1> HIDE DEF w
<1>b. w \in Seq(DeployTypes) /\ Len(w) = 12
  BY <1>a DEF DeployTypes, Starts
<1>c. s \in Seq(DeployTypes) /\ Len(s) = n /\ \A i \in 1..n : s[i] = w[i]
  <2> HIDE DEF s
  <2>1. n \in 0..Len(w)
    BY <1>b
  <2>2. QED
    BY <1>b, <2>1, PrefixLemma DEF s
<1> HIDE DEF s
<1>2. s \in Seq(DeployTypes) /\ Len(s) = n /\ Len(s) >= 11
  BY <1>c
<1>3. s[1] = "CLEAN_PRECHECK_ENVIRONMENT" /\ s[2] = "PULL_IMAGE" /\ s[3] = "CREATE_CONTAINER" /\
      s[4] = "CREATE_MDSV2_CLI_CONTAINER" /\ s[5] = "SYNC_CONFIG" /\ s[6] = "START_COORDINATOR" /\
      s[7] = "START_STORE" /\ s[8] = "CHECK_STORE_HEALTH" /\ s[9] = "START_MDSV2_CLI_CONTAINER" /\
      s[10] = "CREATE_META_TABLES" /\ s[11] = "START_FS_MDS"
  BY <1>a, <1>c
<1>4. \A m \in 1..6 : s[m] \notin {"START_STORE", "START_FS_MDS", "START_DINGODB_EXECUTOR"}
  BY <1>3
<1>5. Ready(s, "coordinator")
  <2>1. s[6] \in Starts /\ FilterRole(s[6]) = {"coordinator"}
    BY <1>3, FilterRoleFacts DEF Starts
  <2>2. 3 \in 1..Len(s) /\ 6 \in 1..Len(s) /\ 3 < 6 /\ s[3] = "CREATE_CONTAINER"
    BY <1>2, <1>3
  <2>3. Early(s, 6)
    BY <1>4 DEF Early
  <2>4. QED
    BY <1>2, <2>1, <2>2, <2>3, DeployReady
<1>6. Ready(s, "store")
  <2>1. s[7] \in Starts /\ FilterRole(s[7]) = {"store"}
    BY <1>3, FilterRoleFacts DEF Starts
  <2>2. 3 \in 1..Len(s) /\ 7 \in 1..Len(s) /\ 3 < 7 /\ s[3] = "CREATE_CONTAINER"
    BY <1>2, <1>3
  <2>3. Early(s, 7)
    BY <1>4 DEF Early
  <2>4. QED
    BY <1>2, <2>1, <2>2, <2>3, DeployReady
<1>7. Ready(s, "mds")
  <2>1. s[11] \in Starts /\ FilterRole(s[11]) = {"mds"}
    BY <1>3, FilterRoleFacts DEF Starts
  <2>2. 3 \in 1..Len(s) /\ 11 \in 1..Len(s) /\ 3 < 11 /\ s[3] = "CREATE_CONTAINER"
    BY <1>2, <1>3
  <2>3. QED
    BY <1>2, <2>1, <2>2, DeployReady
<1>8. n = 12 => Ready(s, "executor")
  <2> SUFFICES ASSUME n = 12 PROVE Ready(s, "executor")
    OBVIOUS
  <2>1. s[12] = "START_DINGODB_EXECUTOR"
    BY <1>a, <1>c
  <2>2. Len(s) = 12
    BY <1>c
  <2>3. s[12] \in Starts /\ FilterRole(s[12]) = {"executor"}
    BY <2>1, FilterRoleFacts DEF Starts
  <2>4. 3 \in 1..Len(s) /\ 12 \in 1..Len(s) /\ 3 < 12 /\ s[3] = "CREATE_CONTAINER"
    BY <1>3, <2>2
  <2>5. QED
    BY <1>2, <2>3, <2>4, DeployReady
<1>9. \A r \in {"coordinator", "store", "mds"} : Ready(s, r)
  BY <1>5, <1>6, <1>7
<1>10. After1(s, "CREATE_META_TABLES", {"START_FS_MDS"})
  <2>1. 10 \in 1..Len(s) /\ s[10] = "CREATE_META_TABLES" /\ \A m \in 1..10 : s[m] \notin {"START_FS_MDS"}
    BY <1>2, <1>3
  <2>2. QED
    BY <1>2, <2>1, AfterFirst
<1>11. After1(s, "CLEAN_PRECHECK_ENVIRONMENT", Starts)
  <2>1. 1 \in 1..Len(s) /\ s[1] = "CLEAN_PRECHECK_ENVIRONMENT" /\ \A m \in 1..1 : s[m] \notin Starts
    BY <1>2, <1>3 DEF Starts
  <2>2. QED
    BY <1>2, <2>1, AfterFirst
<1>12. QED
  BY <1>10, <1>11, <1>2, <1>8, <1>9 DEF s, w

\* dingo-store.
LEMMA StoreReady ==
  LET s == StepLists["store"] IN
  /\ s \in Seq(DeployTypes)
  /\ \A r \in {"coordinator", "store", "executor"} : Ready(s, r)
  /\ \A i \in DOMAIN s : s[i] # "START_FS_MDS"
  /\ After1(s, "CLEAN_PRECHECK_ENVIRONMENT", Starts)
<1> DEFINE s == StepLists["store"]
<1>a. s = <<"CLEAN_PRECHECK_ENVIRONMENT", "PULL_IMAGE", "CREATE_CONTAINER", "SYNC_CONFIG",
        "START_COORDINATOR", "START_STORE", "CHECK_STORE_HEALTH", "START_DINGODB_EXECUTOR">>
  BY DEF StepLists
<1> HIDE DEF s
<1>2. s \in Seq(DeployTypes) /\ Len(s) = 8
  BY <1>a DEF DeployTypes, Starts
<1>3. s[1] = "CLEAN_PRECHECK_ENVIRONMENT" /\ s[2] = "PULL_IMAGE" /\ s[3] = "CREATE_CONTAINER" /\
      s[4] = "SYNC_CONFIG" /\ s[5] = "START_COORDINATOR" /\ s[6] = "START_STORE" /\ s[7] =
      "CHECK_STORE_HEALTH" /\ s[8] = "START_DINGODB_EXECUTOR"
  BY <1>a
<1>4. \A m \in 1..5 : s[m] \notin {"START_STORE", "START_FS_MDS", "START_DINGODB_EXECUTOR"}
  BY <1>3
<1>5. Ready(s, "coordinator")
  <2>1. s[5] \in Starts /\ FilterRole(s[5]) = {"coordinator"}
    BY <1>3, FilterRoleFacts DEF Starts
  <2>2. 3 \in 1..Len(s) /\ 5 \in 1..Len(s) /\ 3 < 5 /\ s[3] = "CREATE_CONTAINER"
    BY <1>2, <1>3
  <2>3. Early(s, 5)
    BY <1>4 DEF Early
  <2>4. QED
    BY <1>2, <2>1, <2>2, <2>3, DeployReady
<1>6. Ready(s, "store")
  <2>1. s[6] \in Starts /\ FilterRole(s[6]) = {"store"}
    BY <1>3, FilterRoleFacts DEF Starts
  <2>2. 3 \in 1..Len(s) /\ 6 \in 1..Len(s) /\ 3 < 6 /\ s[3] = "CREATE_CONTAINER"
    BY <1>2, <1>3
  <2>3. Early(s, 6)
    BY <1>4 DEF Early
  <2>4. QED
    BY <1>2, <2>1, <2>2, <2>3, DeployReady
<1>7. Ready(s, "executor")
  <2>1. s[8] \in Starts /\ FilterRole(s[8]) = {"executor"}
    BY <1>3, FilterRoleFacts DEF Starts
  <2>2. 3 \in 1..Len(s) /\ 8 \in 1..Len(s) /\ 3 < 8 /\ s[3] = "CREATE_CONTAINER"
    BY <1>2, <1>3
  <2>3. QED
    BY <1>2, <2>1, <2>2, DeployReady
<1>8. \A r \in {"coordinator", "store", "executor"} : Ready(s, r)
  BY <1>5, <1>6, <1>7
<1>9. \A i \in DOMAIN s : s[i] # "START_FS_MDS"
  BY <1>a
<1>10. After1(s, "CLEAN_PRECHECK_ENVIRONMENT", Starts)
  <2>1. 1 \in 1..Len(s) /\ s[1] = "CLEAN_PRECHECK_ENVIRONMENT" /\ \A m \in 1..1 : s[m] \notin Starts
    BY <1>2, <1>3 DEF Starts
  <2>2. QED
    BY <1>2, <2>1, AfterFirst
<1>11. QED
  BY <1>10, <1>2, <1>8, <1>9 DEF s

\* dingodb.
LEMMA DbReady ==
  LET s == StepLists["db"] IN
  /\ s \in Seq(DeployTypes)
  /\ \A r \in {"coordinator", "store", "document", "index", "diskann", "executor", "proxy", "web"} : Ready(s, r)
  /\ \A i \in DOMAIN s : s[i] # "START_FS_MDS"
  /\ After1(s, "CLEAN_PRECHECK_ENVIRONMENT", Starts)
<1> DEFINE s == StepLists["db"]
<1>a. s = <<"CLEAN_PRECHECK_ENVIRONMENT", "PULL_IMAGE", "CREATE_CONTAINER", "SYNC_CONFIG",
        "START_COORDINATOR", "START_STORE", "CHECK_STORE_HEALTH", "START_DINGODB_DOCUMENT",
        "START_DINGODB_DISKANN", "START_DINGODB_INDEX", "START_DINGODB_EXECUTOR",
        "START_DINGODB_WEB", "START_DINGODB_PROXY">>
  BY DEF StepLists
<1> HIDE DEF s
<1>2. s \in Seq(DeployTypes) /\ Len(s) = 13
  BY <1>a DEF DeployTypes, Starts
<1>3. s[1] = "CLEAN_PRECHECK_ENVIRONMENT" /\ s[2] = "PULL_IMAGE" /\ s[3] = "CREATE_CONTAINER" /\
      s[4] = "SYNC_CONFIG" /\ s[5] = "START_COORDINATOR" /\ s[6] = "START_STORE" /\ s[7] =
      "CHECK_STORE_HEALTH" /\ s[8] = "START_DINGODB_DOCUMENT" /\ s[9] = "START_DINGODB_DISKANN" /\
      s[10] = "START_DINGODB_INDEX" /\ s[11] = "START_DINGODB_EXECUTOR" /\ s[12] =
      "START_DINGODB_WEB" /\ s[13] = "START_DINGODB_PROXY"
  BY <1>a
<1>4. \A m \in 1..5 : s[m] \notin {"START_STORE", "START_FS_MDS", "START_DINGODB_EXECUTOR"}
  BY <1>3
<1>5. Ready(s, "coordinator")
  <2>1. s[5] \in Starts /\ FilterRole(s[5]) = {"coordinator"}
    BY <1>3, FilterRoleFacts DEF Starts
  <2>2. 3 \in 1..Len(s) /\ 5 \in 1..Len(s) /\ 3 < 5 /\ s[3] = "CREATE_CONTAINER"
    BY <1>2, <1>3
  <2>3. Early(s, 5)
    BY <1>4 DEF Early
  <2>4. QED
    BY <1>2, <2>1, <2>2, <2>3, DeployReady
<1>6. Ready(s, "store")
  <2>1. s[6] \in Starts /\ FilterRole(s[6]) = {"store"}
    BY <1>3, FilterRoleFacts DEF Starts
  <2>2. 3 \in 1..Len(s) /\ 6 \in 1..Len(s) /\ 3 < 6 /\ s[3] = "CREATE_CONTAINER"
    BY <1>2, <1>3
  <2>3. Early(s, 6)
    BY <1>4 DEF Early
  <2>4. QED
    BY <1>2, <2>1, <2>2, <2>3, DeployReady
<1>7. Ready(s, "document")
  <2>1. s[8] \in Starts /\ FilterRole(s[8]) = {"document"}
    BY <1>3, FilterRoleFacts DEF Starts
  <2>2. 3 \in 1..Len(s) /\ 8 \in 1..Len(s) /\ 3 < 8 /\ s[3] = "CREATE_CONTAINER"
    BY <1>2, <1>3
  <2>3. QED
    BY <1>2, <2>1, <2>2, DeployReady
<1>8. Ready(s, "index")
  <2>1. s[10] \in Starts /\ FilterRole(s[10]) = {"index"}
    BY <1>3, FilterRoleFacts DEF Starts
  <2>2. 3 \in 1..Len(s) /\ 10 \in 1..Len(s) /\ 3 < 10 /\ s[3] = "CREATE_CONTAINER"
    BY <1>2, <1>3
  <2>3. QED
    BY <1>2, <2>1, <2>2, DeployReady
<1>9. Ready(s, "diskann")
  <2>1. s[9] \in Starts /\ FilterRole(s[9]) = {"diskann"}
    BY <1>3, FilterRoleFacts DEF Starts
  <2>2. 3 \in 1..Len(s) /\ 9 \in 1..Len(s) /\ 3 < 9 /\ s[3] = "CREATE_CONTAINER"
    BY <1>2, <1>3
  <2>3. QED
    BY <1>2, <2>1, <2>2, DeployReady
<1>10. Ready(s, "executor")
  <2>1. s[11] \in Starts /\ FilterRole(s[11]) = {"executor"}
    BY <1>3, FilterRoleFacts DEF Starts
  <2>2. 3 \in 1..Len(s) /\ 11 \in 1..Len(s) /\ 3 < 11 /\ s[3] = "CREATE_CONTAINER"
    BY <1>2, <1>3
  <2>3. QED
    BY <1>2, <2>1, <2>2, DeployReady
<1>11. Ready(s, "proxy")
  <2>1. s[13] \in Starts /\ FilterRole(s[13]) = {"proxy"}
    BY <1>3, FilterRoleFacts DEF Starts
  <2>2. 3 \in 1..Len(s) /\ 13 \in 1..Len(s) /\ 3 < 13 /\ s[3] = "CREATE_CONTAINER"
    BY <1>2, <1>3
  <2>3. QED
    BY <1>2, <2>1, <2>2, DeployReady
<1>12. Ready(s, "web")
  <2>1. s[12] \in Starts /\ FilterRole(s[12]) = {"web"}
    BY <1>3, FilterRoleFacts DEF Starts
  <2>2. 3 \in 1..Len(s) /\ 12 \in 1..Len(s) /\ 3 < 12 /\ s[3] = "CREATE_CONTAINER"
    BY <1>2, <1>3
  <2>3. QED
    BY <1>2, <2>1, <2>2, DeployReady
<1>13. \A r \in {"coordinator", "store", "document", "index", "diskann", "executor", "proxy", "web"} : Ready(s, r)
  BY <1>5, <1>6, <1>7, <1>8, <1>9, <1>10, <1>11, <1>12
<1>14. \A i \in DOMAIN s : s[i] # "START_FS_MDS"
  BY <1>a
<1>15. After1(s, "CLEAN_PRECHECK_ENVIRONMENT", Starts)
  <2>1. 1 \in 1..Len(s) /\ s[1] = "CLEAN_PRECHECK_ENVIRONMENT" /\ \A m \in 1..1 : s[m] \notin Starts
    BY <1>2, <1>3 DEF Starts
  <2>2. QED
    BY <1>2, <2>1, AfterFirst
<1>16. QED
  BY <1>13, <1>14, <1>15, <1>2 DEF s

\* The list of an upgrade with an mds-client.
LEMMA UpgradeFsListReady ==
  LET s == StepLists["upgrade_store_fs"] IN
  /\ s \in Seq(UpgradeFsTypes)
  /\ \A r \in {"coordinator", "store", "mds", "executor"} : Ready(s, r)
<1> DEFINE s == StepLists["upgrade_store_fs"]
<1>a. s = <<"PULL_IMAGE", "STOP_SERVICE", "CLEAN_SERVICE", "CREATE_CONTAINER", "SYNC_CONFIG",
        "START_COORDINATOR", "START_STORE", "CHECK_STORE_HEALTH", "START_FS_MDS",
        "START_DINGODB_EXECUTOR">>
  BY DEF StepLists
<1> HIDE DEF s
<1>2. s \in Seq(UpgradeFsTypes) /\ Len(s) = 10
  BY <1>a DEF UpgradeFsTypes, Starts
<1>3. s[1] = "PULL_IMAGE" /\ s[2] = "STOP_SERVICE" /\ s[3] = "CLEAN_SERVICE" /\ s[4] =
      "CREATE_CONTAINER" /\ s[5] = "SYNC_CONFIG" /\ s[6] = "START_COORDINATOR" /\ s[7] =
      "START_STORE" /\ s[8] = "CHECK_STORE_HEALTH" /\ s[9] = "START_FS_MDS" /\ s[10] =
      "START_DINGODB_EXECUTOR"
  BY <1>a
<1>4. \A m \in 1..6 : s[m] \notin {"START_STORE", "START_FS_MDS", "START_DINGODB_EXECUTOR"}
  BY <1>3
<1>5. \A m \in 4..10 : s[m] \notin {"STOP_SERVICE", "CLEAN_SERVICE"}
  BY <1>3
<1>6. Ready(s, "coordinator")
  <2>1. s[6] \in Starts /\ FilterRole(s[6]) = {"coordinator"}
    BY <1>3, FilterRoleFacts DEF Starts
  <2>2. 4 \in 1..Len(s) /\ 6 \in 1..Len(s) /\ 4 < 6 /\ s[4] = "CREATE_CONTAINER"
    BY <1>2, <1>3
  <2>3. Early(s, 6)
    BY <1>4 DEF Early
  <2>4. QED
    BY <1>2, <2>1, <2>2, <2>3, <1>5, ReadyEarly
<1>7. Ready(s, "store")
  <2>1. s[7] \in Starts /\ FilterRole(s[7]) = {"store"}
    BY <1>3, FilterRoleFacts DEF Starts
  <2>2. 4 \in 1..Len(s) /\ 7 \in 1..Len(s) /\ 4 < 7 /\ s[4] = "CREATE_CONTAINER"
    BY <1>2, <1>3
  <2>3. Early(s, 7)
    BY <1>4 DEF Early
  <2>4. QED
    BY <1>2, <2>1, <2>2, <2>3, <1>5, ReadyEarly
<1>8. Ready(s, "mds")
  <2>1. s[9] \in Starts /\ FilterRole(s[9]) = {"mds"}
    BY <1>3, FilterRoleFacts DEF Starts
  <2>2. 4 \in 1..Len(s) /\ 9 \in 1..Len(s) /\ 4 < 9 /\ s[4] = "CREATE_CONTAINER"
    BY <1>2, <1>3
  <2>3. QED
    BY <1>2, <2>1, <2>2, <1>5, ReadyEarly
<1>9. Ready(s, "executor")
  <2>1. s[10] \in Starts /\ FilterRole(s[10]) = {"executor"}
    BY <1>3, FilterRoleFacts DEF Starts
  <2>2. 4 \in 1..Len(s) /\ 10 \in 1..Len(s) /\ 4 < 10 /\ s[4] = "CREATE_CONTAINER"
    BY <1>2, <1>3
  <2>3. QED
    BY <1>2, <2>1, <2>2, <1>5, ReadyEarly
<1>10. \A r \in {"coordinator", "store", "mds", "executor"} : Ready(s, r)
  BY <1>6, <1>7, <1>8, <1>9
<1>11. QED
  BY <1>10, <1>2 DEF s


\* What genDeployPlaybook chooses, and why its services are there.
ListCase(t, dcs, list) ==
  \/ /\ list = "none" /\ MdsVersion(t) = "v1"
  \/ /\ list = "mds_only" /\ MdsVersion(t) # "v1"
     /\ "mds-client" \in RolesIn(dcs) /\ RolesIn(dcs) \subseteq {"mds", "mds-client"}
  \/ /\ list = "mds_follow" /\ MdsVersion(t) # "v1"
     /\ "mds-client" \in RolesIn(dcs)
     /\ RolesIn(dcs) \subseteq {"coordinator", "store", "mds", "mds-client", "executor"}
     /\ Step2CheckServices(t, dcs) => "store" \in RolesIn(dcs)
  \/ /\ list = "store" /\ MdsVersion(t) # "v1"
     /\ RolesIn(dcs) \subseteq {"coordinator", "store", "executor"}
     /\ Step2CheckServices(t, dcs) => "store" \in RolesIn(dcs)
  \/ /\ list = "db" /\ MdsVersion(t) # "v1"
     /\ RolesIn(dcs) \subseteq {"coordinator", "store", "document", "index", "diskann", "executor", "proxy", "web"}
     /\ Step2CheckServices(t, dcs) => "store" \in RolesIn(dcs)

\* A role that step2CheckServices counts is there.
LEMMA CheckedIsThere ==
  ASSUME NEW t, NEW S, NEW dcs \in Seq(S), NEW role \in CheckedRoles(t, dcs), Step2CheckServices(t, dcs)
  PROVE  role \in RolesIn(dcs)
<1> DEFINE b == ByRole(dcs, role)
<1>1. Len(b) >= Three
  BY DEF Step2CheckServices
<1>2. b \in Seq(S) /\ Range(b) = {dc \in Range(dcs) : dc.role = role}
  BY ByRoleLemma
<1> HIDE DEF b
<1>3. Len(b) # 0
  BY <1>1, <1>2, LenProperties DEF Three
<1>4. Range(b) # {}
  BY <1>2, <1>3, RangeEmpty
<1>5. PICK dc \in Range(dcs) : dc.role = role
  BY <1>2, <1>4
<1>6. QED
  BY <1>5, RangeFacts

\* Which list genDeployPlaybook chooses, by the roles the parser made.
LEMMA ListCases ==
  ASSUME NEW t \in Topologies, ParseTopology(t) = "ok"
  PROVE  ListCase(t, DeployConfigs(t), DeployList(t, DeployConfigs(t)))
<1> DEFINE dcs == DeployConfigs(t)
           list == DeployList(t, dcs)
           S == Range(dcs)
<1>1. IsDcs(t, dcs) /\ ("mds-client" \in RoleSet(t) => t.deploy["mds"] # <<>>)
  BY DcsLemma
<1> HIDE DEF dcs
<1>2. dcs \in Seq(S) /\ t.kind \in Kinds
  BY <1>1, ClusterAssumption DEF IsDcs
<1>3. \A r \in RolesIn(dcs) : r \in RoleSet(t) /\ DeploysOf(t, r) # <<>>
  <2> SUFFICES ASSUME NEW r \in RolesIn(dcs) PROVE r \in RoleSet(t) /\ DeploysOf(t, r) # <<>>
    OBVIOUS
  <2>1. PICK dc \in Range(dcs) : dc.role = r
    BY RangeFacts
  <2>2. QED
    BY <1>1, <2>1 DEF IsDcs
<1>4. \A r \in RoleSet(t) : DeploysOf(t, r) # <<>> => r \in RolesIn(dcs)
  BY <1>1 DEF IsDcs
<1>5. DeploysOf(t, "mds-client") # <<>>
  BY DEF DeploysOf
<1>6. \A r \in Sections : DeploysOf(t, r) = t.deploy[r]
  BY DEF DeploysOf, Sections
<1>7. "store" \in CheckedRoles(t, dcs) => (Step2CheckServices(t, dcs) => "store" \in RolesIn(dcs))
  <2> HIDE DEF S
  <2>1. QED
    BY <1>2, CheckedIsThere
<1>8. "coordinator" \in Sections /\ "mds" \in Sections
  BY DEF Sections
<1>9. CASE t.kind = "dingofs" /\ t.deploy["coordinator"] # <<>>
  <2>1. RoleSet(t) = {"mds", "coordinator", "store", "mds-client"}
           \cup (IF t.deploy["executor"] # <<>> THEN {"executor"} ELSE {})
    BY <1>9 DEF RoleSet
  <2>2. "coordinator" \in RolesIn(dcs) /\ "mds-client" \in RolesIn(dcs)
    BY <1>4, <1>5, <1>6, <1>8, <1>9, <2>1
  <2>3. RolesIn(dcs) \subseteq {"coordinator", "store", "mds", "mds-client", "executor"}
    BY <1>3, <2>1
  <2>4. MdsVersion(t) # "v1"
    BY <1>9 DEF MdsVersion
  <2>5. list = "mds_follow"
    BY <1>9, <2>2 DEF DeployList
  <2>6. "store" \in CheckedRoles(t, dcs)
    BY <1>9, <2>2, <2>4 DEF CheckedRoles, SkipRoles
  <2> HIDE DEF list
  <2>7. QED
    BY <1>7, <2>2, <2>3, <2>4, <2>5, <2>6 DEF ListCase, list, dcs
<1>10. CASE t.kind = "dingofs" /\ t.deploy["coordinator"] = <<>> /\ t.deploy["etcd"] = <<>>
  <2>1. RoleSet(t) = {"mds", "mds-client"}
    BY <1>10 DEF RoleSet
  <2>2. "mds" \in RolesIn(dcs) /\ "mds-client" \in RolesIn(dcs)
    BY <1>1, <1>4, <1>5, <1>6, <1>8, <2>1
  <2>3. RolesIn(dcs) \subseteq {"mds", "mds-client"}
    BY <1>3, <2>1
  <2>4. MdsVersion(t) # "v1"
    BY <1>10 DEF MdsVersion
  <2>5. list = "mds_only"
    BY <1>10, <2>2, <2>3 DEF DeployList
  <2> HIDE DEF list
  <2>6. QED
    BY <2>2, <2>3, <2>4, <2>5 DEF ListCase, list, dcs
<1>11. CASE t.kind = "dingofs" /\ t.deploy["coordinator"] = <<>> /\ t.deploy["etcd"] # <<>>
  <2>1. RoleSet(t) = {"etcd", "metaserver", "coordinator", "store", "mds", "executor"}
    BY <1>11 DEF RoleSet
  <2>2. "coordinator" \notin RolesIn(dcs) /\ "mds-client" \notin RolesIn(dcs)
    BY <1>3, <1>6, <1>8, <1>11, <2>1
  <2>3. MdsVersion(t) = "v1"
    BY <1>11 DEF MdsVersion
  <2>4. list = "none"
    BY <1>11, <2>2 DEF DeployList
  <2> HIDE DEF list
  <2>5. QED
    BY <2>3, <2>4 DEF ListCase, list, dcs
<1>12. CASE t.kind = "dingo-store"
  <2>1. RoleSet(t) = {"coordinator", "store", "executor"} /\ list = "store" /\ MdsVersion(t) = "none"
        /\ CheckedRoles(t, dcs) = {"coordinator", "store"}
    BY <1>12 DEF RoleSet, DeployList, MdsVersion, CheckedRoles
  <2>2. RolesIn(dcs) \subseteq {"coordinator", "store", "executor"}
    BY <1>3, <2>1
  <2> HIDE DEF list
  <2>3. QED
    BY <1>7, <2>1, <2>2 DEF ListCase, list, dcs
<1>13. CASE t.kind = "dingodb"
  <2>1. RoleSet(t) = {"coordinator", "store", "document", "index", "diskann", "executor", "proxy", "web"}
        /\ list = "db" /\ MdsVersion(t) = "none" /\ CheckedRoles(t, dcs) = {"coordinator", "store"}
    BY <1>13 DEF RoleSet, DeployList, MdsVersion, CheckedRoles
  <2>2. RolesIn(dcs) \subseteq RoleSet(t)
    BY <1>3
  <2> HIDE DEF list
  <2>3. QED
    BY <1>7, <2>1, <2>2 DEF ListCase, list, dcs
<1>14. QED
  BY <1>2, <1>9, <1>10, <1>11, <1>12, <1>13 DEF Kinds

\* A list as genDeployPlaybook takes it, with --local without the PULL_IMAGE step.
Take(s, n, local) == IF local THEN RemovePull(s, n) ELSE SubSeq(s, 1, n)

\* With or without --local, the list is its prefix but for a PULL_IMAGE.
LEMMA TakeKeeps ==
  ASSUME NEW S, NEW s \in Seq(S), NEW n \in 0..Len(s), NEW local \in BOOLEAN
  PROVE  Take(s, n, local) \in Seq(S) /\ Keeps(Take(s, n, local), SubSeq(s, 1, n))
<1>1. CASE local = TRUE
  BY <1>1, RemovePullKeeps DEF Take
<1>2. CASE local = FALSE
  <2> DEFINE u == SubSeq(s, 1, n)
  <2>1. u \in Seq(S)
    BY PrefixLemma
  <2> HIDE DEF u
  <2>2. Keeps(u, u)
    BY <2>1, KeepsSelf
  <2>3. QED
    BY <1>2, <2>1, <2>2 DEF Take, u
<1>3. QED
  BY <1>1, <1>2

DStepsOf(t, dcs, local) ==
  LET list == DeployList(t, dcs) IN
  IF list = "none" THEN <<>> ELSE Take(StepLists[list], DeployLen(list, dcs), local)

\* The steps a deploy may have: they bring up the services of dcs, in order, after
\* the meta tables and the clean of the probes, and have the service they need.
GoodSteps(t, dcs, u) ==
  /\ u \in Seq(DeployTypes)
  /\ \A r \in RolesIn(dcs) \ {"mds-client"} : MdsVersion(t) # "v1" => Ready(u, r)
  /\ After1(u, "CREATE_META_TABLES", {"START_FS_MDS"})
  /\ After1(u, "CLEAN_PRECHECK_ENVIRONMENT", Starts)
  /\ Step2CheckServices(t, dcs) => \A k \in DOMAIN u : u[k] \in Limited => FilterRole(u[k]) \subseteq RolesIn(dcs)

\* The steps with a limit that a list does not have.
LEMMA LimitedFacts ==
  /\ \A k \in DOMAIN StepLists["mds_only"] : StepLists["mds_only"][k] # "CHECK_STORE_HEALTH"
  /\ \A k \in DOMAIN StepLists["store"] :
       StepLists["store"][k] \notin {"CREATE_META_TABLES", "CREATE_MDSV2_CLI_CONTAINER"}
  /\ \A k \in DOMAIN StepLists["db"] :
       StepLists["db"][k] \notin {"CREATE_META_TABLES", "CREATE_MDSV2_CLI_CONTAINER"}
BY DEF StepLists

\* The list that is chosen, cut or not, is good for the topology.
LEMMA GoodLists ==
  ASSUME NEW t \in Topologies, ParseTopology(t) = "ok",
         DeployList(t, DeployConfigs(t)) # "none"
  PROVE  LET dcs == DeployConfigs(t)
             list == DeployList(t, dcs) IN
         /\ StepLists[list] \in Seq(DeployTypes)
         /\ DeployLen(list, dcs) \in 0..Len(StepLists[list])
         /\ GoodSteps(t, dcs, SubSeq(StepLists[list], 1, DeployLen(list, dcs)))
         /\ MdsVersion(t) # "v1"
<1> DEFINE dcs == DeployConfigs(t)
           list == DeployList(t, dcs)
           s == StepLists[list]
           n == DeployLen(list, dcs)
           u == SubSeq(s, 1, n)
           needs == \A k \in DOMAIN u : u[k] \in Limited => FilterRole(u[k]) \subseteq RolesIn(dcs)
<1>1. ListCase(t, dcs, list)
  BY ListCases
<1> HIDE DEF dcs, list
<1>a. \A x \in Limited : /\ x = "CHECK_STORE_HEALTH" => FilterRole(x) = {"store"}
                         /\ x # "CHECK_STORE_HEALTH" => FilterRole(x) = {"mds-client"}
                         /\ x \in {"CREATE_META_TABLES", "CREATE_MDSV2_CLI_CONTAINER", "CHECK_STORE_HEALTH"}
  BY FilterRoleFacts DEF Limited
<1>2. CASE list = "mds_only"
  <2>1. /\ s \in Seq(DeployTypes) /\ Ready(s, "mds")
        /\ After1(s, "CREATE_META_TABLES", {"START_FS_MDS"})
        /\ After1(s, "CLEAN_PRECHECK_ENVIRONMENT", Starts)
    BY <1>2, MdsOnlyReady
  <2>2. n = Len(s)
    BY <1>2 DEF DeployLen
  <2>3. \A k \in DOMAIN s : s[k] # "CHECK_STORE_HEALTH"
    BY <1>2, LimitedFacts
  <2>4. /\ MdsVersion(t) # "v1"
        /\ "mds-client" \in RolesIn(dcs) /\ RolesIn(dcs) \subseteq {"mds", "mds-client"}
    BY <1>1, <1>2 DEF ListCase
  <2> HIDE DEF s, n
  <2>5. u = s /\ n \in 0..Len(s)
    BY <2>1, <2>2, SubSeqFull, LenProperties
  <2> HIDE DEF u
  <2>6. needs
    BY <1>a, <2>3, <2>4, <2>5
  <2> HIDE DEF needs
  <2>7. GoodSteps(t, dcs, u)
    BY <2>1, <2>4, <2>5, <2>6 DEF GoodSteps, needs
  <2>8. QED
    BY <2>1, <2>4, <2>5, <2>7 DEF dcs, list, s, n, u
<1>3. CASE list = "mds_follow"
  <2>1. /\ "mds-client" \in RolesIn(dcs) /\ MdsVersion(t) # "v1"
        /\ RolesIn(dcs) \subseteq {"coordinator", "store", "mds", "mds-client", "executor"}
        /\ Step2CheckServices(t, dcs) => "store" \in RolesIn(dcs)
    BY <1>1, <1>3 DEF ListCase
  <2>2. Len(StepLists["mds_follow"]) = 12 /\ StepLists["mds_follow"] \in Seq(DeployTypes)
    BY DEF StepLists, DeployTypes, Starts
  <2>3. n \in {11, 12} /\ ("executor" \in RolesIn(dcs) => n = 12) /\ s \in Seq(DeployTypes) /\ n \in 0..Len(s)
    BY <1>3, <2>2 DEF DeployLen
  <2>a. s = StepLists["mds_follow"]
    BY <1>3
  <2> HIDE DEF n, s
  <2>4. /\ u \in Seq(DeployTypes)
        /\ \A r \in {"coordinator", "store", "mds"} : Ready(u, r)
        /\ n = 12 => Ready(u, "executor")
        /\ After1(u, "CREATE_META_TABLES", {"START_FS_MDS"})
        /\ After1(u, "CLEAN_PRECHECK_ENVIRONMENT", Starts)
    BY <2>3, <2>a, MdsFollowReady
  <2> HIDE DEF u
  <2>5. Step2CheckServices(t, dcs) => needs
    BY <1>a, <2>1
  <2>6. \A r \in RolesIn(dcs) \ {"mds-client"} : Ready(u, r)
    BY <2>1, <2>3, <2>4
  <2> HIDE DEF needs
  <2>7. GoodSteps(t, dcs, u)
    BY <2>4, <2>5, <2>6 DEF GoodSteps, needs
  <2>8. QED
    BY <2>1, <2>3, <2>7 DEF dcs, list, s, n, u
<1>4. CASE list \in {"store", "db"}
  <2>1. /\ s \in Seq(DeployTypes) /\ \A r \in RolesIn(dcs) : Ready(s, r)
        /\ \A i \in DOMAIN s : s[i] # "START_FS_MDS"
        /\ After1(s, "CLEAN_PRECHECK_ENVIRONMENT", Starts)
    <3>1. CASE list = "store"
      <4>1. RolesIn(dcs) \subseteq {"coordinator", "store", "executor"}
        BY <1>1, <3>1 DEF ListCase
      <4>2. QED
        BY <3>1, <4>1, StoreReady
    <3>2. CASE list = "db"
      <4>1. RolesIn(dcs) \subseteq {"coordinator", "store", "document", "index", "diskann", "executor", "proxy", "web"}
        BY <1>1, <3>2 DEF ListCase
      <4>2. QED
        BY <3>2, <4>1, DbReady
    <3>3. QED
      BY <1>4, <3>1, <3>2
  <2>2. n = Len(s)
    BY <1>4 DEF DeployLen
  <2>3. \A k \in DOMAIN s : s[k] \notin {"CREATE_META_TABLES", "CREATE_MDSV2_CLI_CONTAINER"}
    BY <1>4, LimitedFacts
  <2>4. MdsVersion(t) # "v1" /\ (Step2CheckServices(t, dcs) => "store" \in RolesIn(dcs))
    BY <1>1, <1>4 DEF ListCase
  <2> HIDE DEF s, n
  <2>5. u = s /\ n \in 0..Len(s)
    BY <2>1, <2>2, SubSeqFull, LenProperties
  <2> HIDE DEF u
  <2>6. Step2CheckServices(t, dcs) => needs
    BY <1>a, <2>3, <2>4, <2>5
  <2>7. After1(u, "CREATE_META_TABLES", {"START_FS_MDS"})
    BY <2>1, <2>5 DEF After1
  <2> HIDE DEF needs
  <2>8. GoodSteps(t, dcs, u)
    BY <2>1, <2>5, <2>6, <2>7 DEF GoodSteps, needs
  <2>9. QED
    BY <2>1, <2>4, <2>5, <2>8 DEF dcs, list, s, n, u
<1>5. QED
  BY <1>1, <1>2, <1>3, <1>4 DEF ListCase, list, dcs

\* And so are the steps a deploy takes of it; for mds v1 there are none.
LEMMA DeployStepsGood ==
  ASSUME NEW t \in Topologies, ParseTopology(t) = "ok", NEW local \in BOOLEAN
  PROVE  /\ GoodSteps(t, DeployConfigs(t), DStepsOf(t, DeployConfigs(t), local))
         /\ MdsVersion(t) = "v1" => DStepsOf(t, DeployConfigs(t), local) = <<>>
<1> DEFINE dcs == DeployConfigs(t)
           list == DeployList(t, dcs)
           q == DStepsOf(t, dcs, local)
<1>1. CASE list = "none"
  <2>1. ListCase(t, dcs, list)
    BY ListCases
  <2>2. MdsVersion(t) = "v1"
    BY <1>1, <2>1 DEF ListCase
  <2>3. q = <<>>
    BY <1>1 DEF DStepsOf
  <2>4. <<>> \in Seq(DeployTypes) /\ DOMAIN <<>> = {}
    BY EmptySeq
  <2> HIDE DEF dcs, q
  <2>5. GoodSteps(t, dcs, q)
    BY <2>2, <2>3, <2>4 DEF GoodSteps, After1
  <2>6. QED
    BY <2>3, <2>5 DEF dcs, q
<1>2. CASE list # "none"
  <2> DEFINE s == StepLists[list]
             n == DeployLen(list, dcs)
             u == SubSeq(s, 1, n)
  <2>1. /\ s \in Seq(DeployTypes) /\ n \in 0..Len(s) /\ GoodSteps(t, dcs, u)
        /\ MdsVersion(t) # "v1"
    BY <1>2, GoodLists
  <2>2. q = Take(s, n, local)
    BY <1>2 DEF DStepsOf
  <2> HIDE DEF dcs, list, s, n, q
  <2>3. q \in Seq(DeployTypes) /\ Keeps(q, u)
    BY <2>1, <2>2, TakeKeeps
  <2>4. u \in Seq(DeployTypes)
    BY <2>1 DEF GoodSteps
  <2> HIDE DEF u
  <2>5. ASSUME NEW r \in RolesIn(dcs) \ {"mds-client"} PROVE Ready(q, r)
    <3>1. Ready(u, r)
      BY <2>1, <2>5 DEF GoodSteps
    <3>2. QED
      BY <2>3, <2>4, <3>1, KeepsReady
  <2>6. After1(q, "CREATE_META_TABLES", {"START_FS_MDS"})
    BY <2>1, <2>3, <2>4, KeepsAfter DEF GoodSteps
  <2>7. After1(q, "CLEAN_PRECHECK_ENVIRONMENT", Starts)
    BY <2>1, <2>3, <2>4, KeepsAfter DEF GoodSteps
  <2>8. ASSUME Step2CheckServices(t, dcs), NEW k \in DOMAIN q, q[k] \in Limited
        PROVE  FilterRole(q[k]) \subseteq RolesIn(dcs)
    <3>1. PICK e : Embeds(q, u, e)
      BY <2>3 DEF Keeps
    <3>2. DOMAIN q = 1..Len(q) /\ DOMAIN u = 1..Len(u)
      BY <2>3, <2>4, LenProperties
    <3>3. e[k] \in DOMAIN u /\ q[k] = u[e[k]]
      BY <3>1, <3>2 DEF Embeds
    <3>4. QED
      BY <2>1, <2>8, <3>3 DEF GoodSteps
  <2>9. GoodSteps(t, dcs, q)
    BY <2>3, <2>5, <2>6, <2>7, <2>8 DEF GoodSteps
  <2>10. QED
    BY <2>1, <2>9 DEF dcs, q
<1>3. QED
  BY <1>1, <1>2

(***************************************************************************)
(* The playbooks                                                           *)
(***************************************************************************)

\* A topology that the checks let pass has the services that the limited steps of
\* its deploy are for.
LEMMA GoodNeverPanics ==
  ASSUME NEW t, NEW S, NEW dcs \in Seq(S), NEW u, GoodSteps(t, dcs, u), Step2CheckServices(t, dcs)
  PROVE  ~Panics(dcs, u)
<1> SUFFICES ASSUME NEW k \in DOMAIN u, u[k] \in Limited, Configs(dcs, u[k]) = <<>> PROVE FALSE
  BY DEF Panics
<1>1. FilterRole(u[k]) \subseteq RolesIn(dcs)
  BY DEF GoodSteps
<1>2. FilterRole(u[k]) # {}
  BY FilterRoleFacts DEF Limited
<1>3. PICK r \in FilterRole(u[k]) : r \in RolesIn(dcs)
  BY <1>1, <1>2
<1>4. PICK dc \in Range(dcs) : dc.role = r
  BY <1>3, RangeFacts
<1>5. dc \in Range(Configs(dcs, u[k]))
  BY <1>3, <1>4, ConfigsLemma DEF ForStep
<1>6. QED
  BY <1>5 DEF Range

\* The steps of a playbook have the deploy configs they are for.
PlanHas(dcs, steps, P) ==
  \A k \in DOMAIN steps :
    /\ P[k].type = steps[k]
    /\ P[k].dcs = Limit(Configs(dcs, steps[k]), steps[k])
    /\ P[k].dcs \in Seq(Range(dcs))

\* The playbook has a step for each of the list, with the services of its role.
LEMMA PlanLemma ==
  ASSUME NEW dcs, dcs \in Seq(Range(dcs)), NEW T, NEW steps \in Seq(T), ~Panics(dcs, steps), T \subseteq AllTypes
  PROVE  LET P == Plan(dcs, steps) IN
         /\ P \in Seq(PlanSteps(dcs)) /\ Len(P) = Len(steps) /\ DOMAIN P = DOMAIN steps
         /\ PlanHas(dcs, steps, P)
<1> DEFINE S == Range(dcs)
           P == Plan(dcs, steps)
<1>1. Len(steps) \in Nat /\ DOMAIN steps = 1..Len(steps) /\ \A k \in DOMAIN steps : steps[k] \in T
  BY LenProperties, ElementOfSeq
<1>2. ASSUME NEW k \in DOMAIN steps
      PROVE  Limit(Configs(dcs, steps[k]), steps[k]) \in Seq(S)
  <2> DEFINE q == Configs(dcs, steps[k])
  <2>1. q # <<>> \/ steps[k] \notin Limited
    BY DEF Panics
  <2>2. q \in Seq(S)
    BY ConfigsLemma
  <2> HIDE DEF q, S
  <2>3. Limit(q, steps[k]) \in Seq(S)
    BY <2>1, <2>2, LimitLemma
  <2>4. QED
    BY <2>3 DEF q
<1>3. P = [k \in DOMAIN steps |-> [type |-> steps[k], dcs |-> Limit(Configs(dcs, steps[k]), steps[k])]]
  BY DEF Plan
<1>4. \A k \in DOMAIN steps :
        /\ P[k] = [type |-> steps[k], dcs |-> Limit(Configs(dcs, steps[k]), steps[k])]
        /\ P[k] \in PlanSteps(dcs)
  <2> SUFFICES ASSUME NEW k \in DOMAIN steps
      PROVE  /\ P[k] = [type |-> steps[k], dcs |-> Limit(Configs(dcs, steps[k]), steps[k])]
             /\ P[k] \in PlanSteps(dcs)
    OBVIOUS
  <2>1. P[k] = [type |-> steps[k], dcs |-> Limit(Configs(dcs, steps[k]), steps[k])]
    BY <1>3, Zenon
  <2>2. steps[k] \in AllTypes
    BY <1>1
  <2>3. Limit(Configs(dcs, steps[k]), steps[k]) \in Seq(Range(dcs))
    BY <1>2
  <2> DEFINE x == Limit(Configs(dcs, steps[k]), steps[k])
             Y == Seq(Range(dcs))
  <2>4. x \in Y
    BY <2>3
  <2> HIDE DEF x, Y
  <2>5. [type |-> steps[k], dcs |-> x] \in [type : AllTypes, dcs : Y]
    BY <2>2, <2>4
  <2>6. QED
    BY <2>1, <2>5, Zenon DEF PlanSteps, x, Y
<1>5. DOMAIN P = 1..Len(steps)
  BY <1>1, <1>3
<1> HIDE DEF P
<1>6. P \in Seq(PlanSteps(dcs)) /\ Len(P) = Len(steps)
  <2> DEFINE X == PlanSteps(dcs)  n == Len(steps)
  <2>1. P = [k \in 1..n |-> P[k]] /\ \A k \in 1..n : P[k] \in X
    BY <1>1, <1>3, <1>4
  <2> HIDE DEF X, n
  <2>2. [k \in 1..n |-> P[k]] \in Seq(X) /\ Len([k \in 1..n |-> P[k]]) = n
    <3>1. n \in Nat
      BY <1>1 DEF n
    <3>2. [k \in 1..n |-> P[k]] \in Seq(X)
      BY <2>1, <3>1, IsASeq
    <3>3. QED
      BY <3>1, <3>2
  <2>3. P \in Seq(X) /\ Len(P) = n
    BY <2>1, <2>2, Zenon
  <2>4. QED
    BY <2>3 DEF X, n
<1>7. PlanHas(dcs, steps, P)
  <2> SUFFICES ASSUME NEW k \in DOMAIN steps
      PROVE  /\ P[k].type = steps[k]
             /\ P[k].dcs = Limit(Configs(dcs, steps[k]), steps[k])
             /\ P[k].dcs \in Seq(Range(dcs))
    BY DEF PlanHas
  <2>1. P[k] = [type |-> steps[k], dcs |-> Limit(Configs(dcs, steps[k]), steps[k])]
    BY <1>4, Zenon
  <2>2. Limit(Configs(dcs, steps[k]), steps[k]) \in Seq(Range(dcs))
    BY <1>2, Zenon
  <2> DEFINE x == Limit(Configs(dcs, steps[k]), steps[k])
             Y == Seq(Range(dcs))
  <2>3. P[k] = [type |-> steps[k], dcs |-> x] /\ x \in Y
    BY <2>1, <2>2, Zenon
  <2> HIDE DEF x, Y
  <2>4. P[k].type = steps[k] /\ P[k].dcs = x
    BY <2>3
  <2>5. QED
    BY <2>2, <2>4, Zenon DEF x
<1>8. QED
  BY <1>1, <1>5, <1>6, <1>7 DEF P

\* The steps of a list that is ready for its role bring up every service of dcs.
LEMMA UpPlan ==
  ASSUME NEW S, NEW dcs \in Seq(S), NEW T, NEW steps \in Seq(T), NEW dc \in Range(dcs), dc.role = RoleOf(dc.id),
         Ready(steps, dc.role), NEW st, NEW P, DOMAIN P = DOMAIN steps, PlanHas(dcs, steps, P)
  PROVE  Up(P, dc.id, st)
<1> DEFINE r == dc.role
           i == dc.id
<1>1. PICK k \in DOMAIN steps : \E j \in 1..(k - 1) :
        /\ steps[j] = "CREATE_CONTAINER"
        /\ steps[k] \in Starts /\ FilterRole(steps[k]) \subseteq {r}
        /\ \A m \in DOMAIN steps : m > j => steps[m] \notin {"STOP_SERVICE", "CLEAN_SERVICE"}
        /\ \A m \in 1..(k - 1) : ~StartsLater(steps[m], r)
  BY DEF Ready
<1>2. PICK j \in 1..(k - 1) :
        /\ steps[j] = "CREATE_CONTAINER"
        /\ steps[k] \in Starts /\ FilterRole(steps[k]) \subseteq {r}
        /\ \A m \in DOMAIN steps : m > j => steps[m] \notin {"STOP_SERVICE", "CLEAN_SERVICE"}
        /\ \A m \in 1..(k - 1) : ~StartsLater(steps[m], r)
  BY <1>1
<1>3. DOMAIN steps = 1..Len(steps) /\ Len(steps) \in Nat
  BY LenProperties
<1>4. /\ j \in DOMAIN steps /\ j < k
      /\ \A m \in 1..(k - 1) : m \in DOMAIN steps
      /\ \A m \in (j + 1)..(k - 1) : m \in DOMAIN steps /\ m > j
      /\ \A m \in DOMAIN steps : m > k => m > j
  BY <1>3
<1>5. Hit(P[k], i, Starts)
  <2>1. steps[k] \notin Limited
    BY <1>2 DEF Starts, Limited
  <2>2. Limit(Configs(dcs, steps[k]), steps[k]) = Configs(dcs, steps[k])
    BY <2>1, Zenon DEF Limit
  <2>3. dc \in Range(Configs(dcs, steps[k]))
    BY <1>2, ConfigsLemma DEF ForStep
  <2>4. i \in Ids(Configs(dcs, steps[k]))
    BY <2>3, RangeFacts
  <2>5. QED
    BY <1>2, <2>2, <2>4, Zenon DEF PlanHas, Hit
<1>6. Hit(P[j], i, {"CREATE_CONTAINER"})
  <2>1. steps[j] \notin Limited
    BY <1>2 DEF Limited
  <2>2. Limit(Configs(dcs, steps[j]), steps[j]) = Configs(dcs, steps[j])
    BY <2>1, Zenon DEF Limit
  <2>3. dc \in Range(Configs(dcs, steps[j]))
    BY <1>2, ConfigsLemma, FilterRoleFacts DEF ForStep
  <2>4. i \in Ids(Configs(dcs, steps[j]))
    BY <2>3, RangeFacts
  <2>5. P[j].type \in {"CREATE_CONTAINER"} /\ i \in Ids(P[j].dcs)
    BY <1>2, <1>4, <2>2, <2>4, Zenon DEF PlanHas
  <2>6. QED
    BY <2>5, Zenon DEF Hit
<1>7. \A m \in DOMAIN P : P[m].type = steps[m]
  BY Zenon DEF PlanHas
<1>8. \A m \in DOMAIN P : m > k => ~Hit(P[m], i, {"STOP_SERVICE"})
  BY <1>2, <1>4, <1>7 DEF Hit
<1>9. \A m \in 1..(k - 1) : ~StartsLater(P[m].type, RoleOf(i))
  <2> SUFFICES ASSUME NEW m \in 1..(k - 1) PROVE ~StartsLater(P[m].type, r)
    OBVIOUS
  <2>1. P[m].type = steps[m] /\ ~StartsLater(steps[m], r)
    BY <1>2, <1>4, <1>7
  <2>2. QED
    BY <2>1, Zenon
<1>10. \A m \in (j + 1)..(k - 1) : ~Hit(P[m], i, {"CLEAN_SERVICE"})
  BY <1>2, <1>4, <1>7 DEF Hit
<1>11. QED
  BY <1>4, <1>5, <1>6, <1>8, <1>9, <1>10, Zenon DEF Up

\* Head, Tail and the positions of a sequence.
LEMMA TailLemma ==
  ASSUME NEW S, NEW P \in Seq(S), P # <<>>
  PROVE  /\ Len(P) \in Nat \ {0} /\ DOMAIN P = 1..Len(P) /\ 1 \in DOMAIN P /\ P[1] = Head(P)
         /\ Tail(P) \in Seq(S) /\ Len(Tail(P)) = Len(P) - 1 /\ DOMAIN Tail(P) = 1..(Len(P) - 1)
         /\ \A m \in 1..(Len(P) - 1) : Tail(P)[m] = P[m + 1]
         /\ \A m \in 2..Len(P) : Tail(P)[m - 1] = P[m]
<1>1. Len(P) \in Nat \ {0} /\ DOMAIN P = 1..Len(P)
  BY EmptySeq, LenProperties
<1>2. Tail(P) \in Seq(S) /\ Len(Tail(P)) = Len(P) - 1 /\ \A m \in 1..(Len(P) - 1) : Tail(P)[m] = P[m + 1]
  BY HeadTailProperties
<1>3. DOMAIN Tail(P) = 1..Len(Tail(P))
  BY <1>2, LenProperties
<1>4. \A m \in 2..Len(P) : m - 1 \in 1..(Len(P) - 1) /\ (m - 1) + 1 = m
  BY <1>1
<1>5. \A m \in 2..Len(P) : Tail(P)[m - 1] = P[m]
  BY <1>2, <1>4
<1>6. P[1] = Head(P)
  BY <1>1
<1>7. QED
  BY <1>1, <1>2, <1>3, <1>5, <1>6

\* What a step makes of the state of service i.
Made(s, i, st) == IF i \in Ids(s.dcs) THEN After(s.type, st) ELSE st

\* What a step makes of a service.
LEMMA MadeFacts ==
  ASSUME NEW s, NEW i, NEW st
  PROVE  /\ st = "running" /\ ~Hit(s, i, {"STOP_SERVICE"}) => Made(s, i, st) = "running"
         /\ Hit(s, i, Starts) /\ st # "none" => Made(s, i, st) = "running"
         /\ Hit(s, i, {"CREATE_CONTAINER"}) => Made(s, i, st) # "none"
         /\ st # "none" /\ ~Hit(s, i, {"CLEAN_SERVICE"}) => Made(s, i, st) # "none"
         /\ Made(s, i, st) = "running" /\ st # "running" => Hit(s, i, Starts) /\ st # "none"
BY DEF Made, After, Hit, Starts

\* The hits of the steps that remain.
LEMMA UpStep ==
  ASSUME NEW S, NEW P \in Seq(S), P # <<>>, NEW i, NEW st, Up(P, i, st)
  PROVE  Up(Tail(P), i, Made(Head(P), i, st))
<1> DEFINE Q == Tail(P)
           n == Len(P)
           st1 == Made(Head(P), i, st)
<1>1. /\ n \in Nat \ {0} /\ DOMAIN P = 1..n /\ 1 \in DOMAIN P /\ P[1] = Head(P)
      /\ DOMAIN Q = 1..(n - 1)
      /\ \A m \in 1..(n - 1) : Q[m] = P[m + 1]
      /\ \A m \in 2..n : Q[m - 1] = P[m]
  BY TailLemma
<1> HIDE DEF Q, n
<1>2. CASE st = "running" /\ \A k \in DOMAIN P : ~Hit(P[k], i, {"STOP_SERVICE"})
  <2>1. st1 = "running"
    BY <1>1, <1>2, MadeFacts
  <2>2. \A m \in DOMAIN Q : m + 1 \in DOMAIN P
    BY <1>1
  <2>3. \A m \in DOMAIN Q : ~Hit(Q[m], i, {"STOP_SERVICE"})
    BY <1>1, <1>2, <2>2
  <2>4. QED
    BY <2>1, <2>3 DEF Up, Q
<1>3. ASSUME NEW k \in DOMAIN P,
             Hit(P[k], i, Starts),
             \A m \in DOMAIN P : m > k => ~Hit(P[m], i, {"STOP_SERVICE"}),
             \A m \in 1..(k - 1) : ~StartsLater(P[m].type, RoleOf(i)),
             \/ st # "none" /\ \A m \in 1..(k - 1) : ~Hit(P[m], i, {"CLEAN_SERVICE"})
             \/ \E j \in 1..(k - 1) :
                  /\ Hit(P[j], i, {"CREATE_CONTAINER"})
                  /\ \A m \in (j + 1)..(k - 1) : ~Hit(P[m], i, {"CLEAN_SERVICE"})
      PROVE  Up(Q, i, st1)
  <2>1. CASE k = 1
    <3>1. 1..(k - 1) = {}
      BY <2>1
    <3>2. st # "none"
      BY <1>3, <3>1, Zenon
    <3>3. st1 = "running"
      BY <1>1, <1>3, <2>1, <3>2, MadeFacts
    <3>4. \A m \in DOMAIN Q : m + 1 \in DOMAIN P /\ m + 1 > k
      BY <1>1, <2>1
    <3>5. \A m \in DOMAIN Q : ~Hit(Q[m], i, {"STOP_SERVICE"})
      BY <1>1, <1>3, <3>4
    <3>6. QED
      BY <3>3, <3>5, Zenon DEF Up
  <2>2. CASE k # 1
    <3> DEFINE k1 == k - 1
    <3>1. k1 \in DOMAIN Q /\ k \in 2..n /\ Q[k1] = P[k]
      BY <1>1, <2>2
    <3>2. \A m \in DOMAIN Q : m > k1 => ~Hit(Q[m], i, {"STOP_SERVICE"})
      <4>1. \A m \in DOMAIN Q : m > k1 => m + 1 \in DOMAIN P /\ m + 1 > k /\ Q[m] = P[m + 1]
        BY <1>1
      <4>2. QED
        BY <1>3, <4>1
    <3>a. \A m \in 1..(k1 - 1) : m + 1 \in 1..(k - 1) /\ m \in 1..(n - 1) /\ Q[m] = P[m + 1]
      <4>1. \A m \in 1..(k1 - 1) : m + 1 \in 1..(k - 1) /\ m \in 1..(n - 1)
        BY <1>1, <3>1
      <4>2. QED
        BY <1>1, <4>1
    <3>3. \A m \in 1..(k1 - 1) : ~StartsLater(Q[m].type, RoleOf(i))
      BY <1>3, <3>a
    <3>4. 1 \in 1..(k - 1)
      BY <3>1
    <3>5. CASE st # "none" /\ \A m \in 1..(k - 1) : ~Hit(P[m], i, {"CLEAN_SERVICE"})
      <4>1. st1 # "none"
        BY <1>1, <3>4, <3>5, MadeFacts
      <4>2. \A m \in 1..(k1 - 1) : ~Hit(Q[m], i, {"CLEAN_SERVICE"})
        BY <3>5, <3>a
      <4> HIDE DEF k1, st1
      <4>3. Hit(Q[k1], i, Starts)
        BY <1>3, <3>1
      <4>4. QED
        BY <3>1, <3>2, <3>3, <4>1, <4>2, <4>3, Zenon DEF Up
    <3>6. ASSUME NEW j \in 1..(k - 1), Hit(P[j], i, {"CREATE_CONTAINER"}),
                 \A m \in (j + 1)..(k - 1) : ~Hit(P[m], i, {"CLEAN_SERVICE"})
          PROVE  Up(Q, i, st1)
      <4>1. CASE j = 1
        <5>1. st1 # "none"
          BY <1>1, <3>6, <4>1, MadeFacts
        <5>2. \A m \in 1..(k1 - 1) : m + 1 \in (j + 1)..(k - 1)
          BY <3>1, <4>1
        <5>3. \A m \in 1..(k1 - 1) : ~Hit(Q[m], i, {"CLEAN_SERVICE"})
          BY <3>6, <3>a, <5>2
        <5> HIDE DEF k1, st1
        <5>4. Hit(Q[k1], i, Starts)
          BY <1>3, <3>1
        <5>5. QED
          BY <3>1, <3>2, <3>3, <5>1, <5>3, <5>4, Zenon DEF Up
      <4>2. CASE j # 1
        <5> DEFINE j1 == j - 1
        <5>1. j1 \in 1..(k1 - 1) /\ j1 + 1 = j
          BY <3>1, <4>2
        <5>2. Hit(Q[j1], i, {"CREATE_CONTAINER"})
          BY <3>6, <3>a, <5>1
        <5>3. \A m \in (j1 + 1)..(k1 - 1) : m \in 1..(k1 - 1) /\ m + 1 \in (j + 1)..(k - 1)
          BY <3>1, <5>1
        <5>4. \A m \in (j1 + 1)..(k1 - 1) : ~Hit(Q[m], i, {"CLEAN_SERVICE"})
          BY <3>6, <3>a, <5>3
        <5> HIDE DEF k1, st1, j1
        <5>5. Hit(Q[k1], i, Starts)
          BY <1>3, <3>1
        <5>6. QED
          BY <3>1, <3>2, <3>3, <5>1, <5>2, <5>4, <5>5, Zenon DEF Up
      <4>3. QED
        BY <4>1, <4>2
    <3>7. QED
      BY <1>3, <3>5, <3>6
  <2>3. QED
    BY <2>1, <2>2
<1>4. QED
  BY <1>2, <1>3, Zenon DEF Up, Q

\* The steps of B still come after an a, if the step that is done is not one.
LEMMA After1Step ==
  ASSUME NEW S, NEW P \in Seq(S), P # <<>>, NEW a, NEW B, After1(TypesOf(P), a, B)
  PROVE  Head(P).type \notin B /\ (Head(P).type # a => After1(TypesOf(Tail(P)), a, B))
<1> DEFINE Q == Tail(P)
           n == Len(P)
<1>1. /\ n \in Nat \ {0} /\ DOMAIN P = 1..n /\ 1 \in DOMAIN P /\ P[1] = Head(P)
      /\ DOMAIN Q = 1..(n - 1)
      /\ \A m \in 1..(n - 1) : Q[m] = P[m + 1]
      /\ \A m \in 2..n : Q[m - 1] = P[m]
  BY TailLemma
<1> HIDE DEF Q, n
<1>2. \A m \in DOMAIN P : P[m].type \in B => \E x \in 1..(m - 1) : P[x].type = a
  <2> SUFFICES ASSUME NEW m \in DOMAIN P, P[m].type \in B PROVE \E x \in 1..(m - 1) : P[x].type = a
    OBVIOUS
  <2>1. TypesOf(P)[m] \in B /\ m \in DOMAIN TypesOf(P)
    BY DEF TypesOf
  <2>2. PICK x \in 1..(m - 1) : TypesOf(P)[x] = a
    BY <2>1 DEF After1
  <2>3. x \in DOMAIN P
    BY <1>1
  <2>4. QED
    BY <2>2, <2>3 DEF TypesOf
<1>3. Head(P).type \notin B
  <2>1. 1..(1 - 1) = {}
    OBVIOUS
  <2>2. QED
    BY <1>1, <1>2, <2>1
<1>4. ASSUME Head(P).type # a, NEW m \in DOMAIN Q, Q[m].type \in B
      PROVE  \E x \in 1..(m - 1) : Q[x].type = a
  <2>1. Q[m] = P[m + 1] /\ m + 1 \in DOMAIN P /\ (m + 1) - 1 = m
    BY <1>1
  <2>2. PICK x \in 1..m : P[x].type = a
    BY <1>2, <1>4, <2>1
  <2>3. x # 1
    BY <1>1, <1>4, <2>2
  <2>4. x - 1 \in 1..(m - 1) /\ x \in 2..n
    BY <1>1, <2>3
  <2>5. Q[x - 1] = P[x]
    BY <1>1, <2>4
  <2>6. QED
    BY <2>2, <2>4, <2>5
<1>5. ASSUME Head(P).type # a PROVE After1(TypesOf(Q), a, B)
  <2> SUFFICES ASSUME NEW m \in DOMAIN TypesOf(Q), TypesOf(Q)[m] \in B
               PROVE  \E x \in 1..(m - 1) : TypesOf(Q)[x] = a
    BY DEF After1
  <2>1. m \in DOMAIN Q /\ Q[m].type \in B
    BY DEF TypesOf
  <2>2. PICK x \in 1..(m - 1) : Q[x].type = a
    BY <1>4, <1>5, <2>1
  <2>3. x \in DOMAIN Q
    BY <1>1, <2>1
  <2>4. QED
    BY <2>2, <2>3 DEF TypesOf
<1>6. QED
  BY <1>3, <1>5 DEF Q

(***************************************************************************)
(* ClusterInv is inductive                                                 *)
(***************************************************************************)

\* What is known of the stored topology once it is parsed.
LEMMA ParsedFacts ==
  ASSUME StoredOK, Parsed = "ok"
  PROVE  /\ stored \in Topologies /\ ParseTopology(stored) = "ok" /\ stored # NoTopology
         /\ IsDcs(stored, Dcs) /\ Dcs # <<>> /\ Dcs \in Seq(Range(Dcs))
         /\ ~forced => Step2CheckServices(stored, Dcs)
<1>1. stored # NoTopology /\ ParseTopology(stored) = "ok"
  BY DEF Parsed
<1>2. stored \in Topologies
  BY <1>1 DEF StoredOK
<1>3. IsDcs(stored, Dcs) /\ Dcs # <<>>
  BY <1>1, <1>2, DcsLemma DEF Dcs
<1>4. QED
  BY <1>1, <1>2, <1>3 DEF StoredOK, IsDcs

\* The ids of a topology are among AllIds.
LEMMA IdsKnown ==
  ASSUME NEW t \in Topologies, ParseTopology(t) = "ok"
  PROVE  Ids(DeployConfigs(t)) \subseteq AllIds
BY DEF AllIds

\* DeploySteps, while the lists of the process are those it began with.
LEMMA DeployStepsAre ==
  ASSUME NEW c \in Commands, lists = StepLists
  PROVE  DeploySteps(c) = DStepsOf(stored, Dcs, c.local) /\ c.local \in BOOLEAN
<1>1. c.local \in BOOLEAN
  BY ClusterAssumption
<1>2. DeploySteps(c) = DStepsOf(stored, Dcs, c.local)
  BY DEF DeploySteps, Steps, DStepsOf, Take
<1>3. QED
  BY <1>1, <1>2

\* An action that has no process: it changes what is stored and how the last
\* command ended.
LEMMA IdleStep ==
  ASSUME ClusterInv, cmd = NoCommand, UNCHANGED <<serviceVars, processVars>>,
         StoredOK', StartsAll', CommittedNeverPanics'
  PROVE  ClusterInv'
<1> USE DEF serviceVars, processVars
<1>1. /\ plan = <<>> /\ todo = <<>> /\ batch = <<>> /\ lists = StepLists /\ base = {}
      /\ result \in {"ok", "error"}
  BY DEF ClusterInv, ProcessOK
<1>2. cmd' = NoCommand /\ NoCommand.name = "none"
  BY DEF NoCommand
<1>3. ProcessOK'
  BY <1>1, <1>2 DEF ProcessOK
<1>4. PlanOK'
  BY <1>1, <1>2 DEF PlanOK
<1>5. DeployOK' /\ UpgradeOK'
  BY <1>2 DEF DeployOK, UpgradeOK
<1>6. QED
  BY <1>3, <1>4, <1>5 DEF ClusterInv

\* A command that is refused is not done; it has panicked only by force, or in
\* the precheck.
LEMMA RefuseStep ==
  ASSUME ClusterInv, cmd = NoCommand, NEW c, NEW out, NEW at, Refuse(c, out, at), out # "ok",
         c.name \in {"deploy", "upgrade"} /\ out = "panic" => forced \/ at = "precheck"
  PROVE  ClusterInv'
<1>1. UNCHANGED <<serviceVars, processVars>> /\ stored' = stored /\ forced' = forced
  BY DEF Refuse, clusterVars
<1>2. last' = [cmd |-> c, out |-> out, at |-> at]
  BY DEF Refuse
<1>3. StoredOK'
  BY <1>1 DEF ClusterInv, StoredOK, Dcs
<1>4. last'.out = out /\ last'.cmd = c /\ last'.at = at
  BY <1>2
<1>5. StartsAll'
  BY <1>4 DEF StartsAll, Done
<1>6. CommittedNeverPanics'
  BY <1>1, <1>4 DEF CommittedNeverPanics
<1>7. QED
  BY <1>1, <1>3, <1>5, <1>6, IdleStep

\* Who has come through the checks of commit does not panic on parsing.
LEMMA ParseRefused ==
  ASSUME StoredOK, Parsed # "ok"
  PROVE  AsOutcome(Parsed) # "ok" /\ (AsOutcome(Parsed) = "panic" => forced)
<1>1. AsOutcome(Parsed) # "ok"
  BY DEF AsOutcome
<1>2. ASSUME AsOutcome(Parsed) = "panic" PROVE forced
  <2>1. Parsed = "panic"
    BY <1>2 DEF AsOutcome
  <2>2. stored # NoTopology /\ ParseTopology(stored) = "panic"
    BY <2>1 DEF Parsed
  <2>3. QED
    BY <2>2 DEF StoredOK
<1>3. QED
  BY <1>1, <1>2

\* A commit stores only what it has checked, unless forced.
LEMMA CommitsKeepInv ==
  ASSUME ClusterInv, NEW c \in Commands, NEW t \in Topologies,
         CommitOldInvalid(c) \/ CommitRefused(c, t) \/ CommitStored(c, t)
  PROVE  ClusterInv'
<1>1. cmd = NoCommand /\ c.name = "commit"
  BY DEF CommitOldInvalid, CommitRefused, CommitStored, Give
<1>2. CASE CommitOldInvalid(c)
  <2>1. Refuse(c, OldTopology, "old") /\ OldTopology # "ok"
    BY <1>2 DEF CommitOldInvalid
  <2>2. QED
    BY <1>1, <2>1, RefuseStep
<1>3. CASE CommitRefused(c, t)
  <2>1. CASE ParseTopology(t) # "ok" /\ Refuse(c, AsOutcome(ParseTopology(t)), "parse")
    <3>1. AsOutcome(ParseTopology(t)) # "ok"
      BY <2>1 DEF AsOutcome
    <3>2. QED
      BY <1>1, <2>1, <3>1, RefuseStep
  <2>2. CASE \E out \in CheckTopology(t, DeployConfigs(t), CommitKeys) \ {"ok"} : Refuse(c, out, "check")
    <3>1. PICK out \in CheckTopology(t, DeployConfigs(t), CommitKeys) \ {"ok"} : Refuse(c, out, "check")
      BY <2>2
    <3>2. QED
      BY <1>1, <3>1, RefuseStep
  <2>3. QED
    BY <1>3, <2>1, <2>2 DEF CommitRefused
<1>4. CASE CommitStored(c, t)
  <2>1. /\ UNCHANGED <<serviceVars, processVars>> /\ stored' = t /\ forced' = c.force
        /\ last' = [cmd |-> c, out |-> "ok", at |-> "stored"] /\ CommitChecked(c, t)
    BY <1>4 DEF CommitStored
  <2>2. c.force \in BOOLEAN
    BY ClusterAssumption
  <2>3. ~c.force => ParseTopology(t) = "ok" /\ Step2CheckServices(t, DeployConfigs(t))
    BY <2>1 DEF CommitChecked, CheckTopology
  <2>4. StoredOK'
    BY <2>1, <2>2, <2>3 DEF StoredOK, Dcs
  <2>5. last'.out = "ok" /\ last'.cmd = c
    BY <2>1
  <2>6. StartsAll'
    BY <1>1, <2>5 DEF StartsAll, Done
  <2>7. CommittedNeverPanics'
    BY <2>5 DEF CommittedNeverPanics
  <2>8. QED
    BY <1>1, <2>1, <2>4, <2>6, <2>7, IdleStep
<1>5. QED
  BY <1>2, <1>3, <1>4

\* A command that is refused changes nothing; after a checked commit it does not panic.
LEMMA RefusalsKeepInv ==
  ASSUME ClusterInv, NEW c \in Commands, PrecheckRefused(c) \/ DeployRefused(c) \/ UpgradeRefused(c)
  PROVE  ClusterInv'
<1>1. cmd = NoCommand /\ StoredOK
  BY DEF PrecheckRefused, DeployRefused, UpgradeRefused, Give, ClusterInv
<1>2. ASSUME Parsed # "ok", Refuse(c, AsOutcome(Parsed), "parse") PROVE ClusterInv'
  <2>1. AsOutcome(Parsed) # "ok" /\ (AsOutcome(Parsed) = "panic" => forced)
    BY <1>1, <1>2, ParseRefused
  <2>2. QED
    BY <1>1, <1>2, <2>1, RefuseStep
<1>3. CASE PrecheckRefused(c)
  <2>1. CASE Refuse(c, "error", "options")
    BY <1>1, <2>1, RefuseStep
  <2>2. QED
    BY <1>2, <1>3, <2>1 DEF PrecheckRefused
<1>4. CASE UpgradeRefused(c)
  <2>1. CASE Refuse(c, "error", "scope")
    BY <1>1, <2>1, RefuseStep
  <2>2. QED
    BY <1>2, <1>4, <2>1 DEF UpgradeRefused
<1>5. CASE DeployRefused(c)
  <2>1. ASSUME NEW out, out # "ok", Refuse(c, out, "precheck") PROVE ClusterInv'
    BY <1>1, <2>1, RefuseStep
  <2>2. CASE Parsed = "ok" /\ Panics(Dcs, DeploySteps(c)) /\ Refuse(c, "panic", "plan")
    <3>1. forced
      <4> SUFFICES ASSUME ~forced PROVE FALSE
        OBVIOUS
      <4>1. /\ stored \in Topologies /\ ParseTopology(stored) = "ok" /\ Dcs \in Seq(Range(Dcs))
            /\ Step2CheckServices(stored, Dcs)
        BY <1>1, <2>2, ParsedFacts
      <4>2. DeploySteps(c) = DStepsOf(stored, Dcs, c.local) /\ c.local \in BOOLEAN
        BY <1>1, DeployStepsAre DEF ClusterInv, ProcessOK
      <4>3. GoodSteps(stored, Dcs, DStepsOf(stored, Dcs, c.local))
        BY <4>1, <4>2, DeployStepsGood DEF Dcs
      <4> DEFINE S == Range(Dcs)  u == DStepsOf(stored, Dcs, c.local)
      <4> HIDE DEF S, u
      <4>4. Dcs \in Seq(S) /\ GoodSteps(stored, Dcs, u)
        BY <4>1, <4>3 DEF S, u
      <4>5. ~Panics(Dcs, u)
        BY <4>1, <4>4, GoodNeverPanics
      <4>6. QED
        BY <2>2, <4>2, <4>5 DEF u
    <3>2. QED
      BY <1>1, <2>2, <3>1, RefuseStep
  <2>3. QED
    BY <1>2, <1>5, <2>1, <2>2 DEF DeployRefused
<1>6. QED
  BY <1>3, <1>4, <1>5

\* A command that returns leaves nothing behind in its process.
LEMMA ReturnStep ==
  ASSUME ClusterInv, NEW out, NEW at, Return(out, at), StartsAll', CommittedNeverPanics'
  PROVE  ClusterInv'
<1>1. /\ cmd' = NoCommand /\ todo' = <<>> /\ plan' = <<>> /\ batch' = <<>> /\ lists' = StepLists
      /\ base' = {} /\ result' = "ok" /\ stored' = stored /\ forced' = forced
  BY DEF Return, clusterVars
<1>2. NoCommand.name = "none"
  BY DEF NoCommand
<1>3. StoredOK'
  BY <1>1 DEF ClusterInv, StoredOK, Dcs
<1>4. ProcessOK'
  BY <1>1 DEF ProcessOK
<1>5. PlanOK' /\ DeployOK' /\ UpgradeOK'
  BY <1>1, <1>2 DEF PlanOK, DeployOK, UpgradeOK
<1>6. QED
  BY <1>3, <1>4, <1>5 DEF ClusterInv

\* ... and has not succeeded unless it says so.
LEMMA ReturnUnsuccessful ==
  ASSUME ClusterInv, NEW out, NEW at, Return(out, at), out # "ok", out = "panic" => at = "precheck"
  PROVE  ClusterInv'
<1>1. last' = [cmd |-> cmd, out |-> out, at |-> at]
  BY DEF Return
<1>2. last'.out = out /\ last'.at = at
  BY <1>1
<1>3. StartsAll' /\ CommittedNeverPanics'
  BY <1>2 DEF StartsAll, Done, CommittedNeverPanics
<1>4. QED
  BY <1>3, ReturnStep

\* When the steps are done, what they bring up runs.
LEMMA UpEnd ==
  ASSUME NEW i, NEW st, Up(<<>>, i, st)
  PROVE  st = "running"
<1>1. DOMAIN <<>> = {}
  OBVIOUS
<1>2. QED
  BY <1>1, Zenon DEF Up

\* The end of a playbook: when it succeeds, what was Up runs.
LEMMA EndsKeepInv ==
  ASSUME ClusterInv, Decline \/ Finish \/ Kill
  PROVE  ClusterInv'
<1>1. CASE Decline
  <2>1. Return("error", "declined")
    BY <1>1 DEF Decline
  <2>2. QED
    BY <2>1, ReturnUnsuccessful
<1>2. CASE Kill
  <2>1. Return("killed", "killed")
    BY <1>2 DEF Kill
  <2>2. QED
    BY <2>1, ReturnUnsuccessful
<1>3. CASE Finish
  <2>1. /\ cmd # NoCommand /\ plan = <<>> /\ todo = <<>> /\ Return(result, "end")
        /\ svc' = svc
    BY <1>3 DEF Finish, serviceVars
  <2>2. result \in {"ok", "error"} /\ stored' = stored /\ last' = [cmd |-> cmd, out |-> result, at |-> "end"]
    BY <2>1 DEF ClusterInv, ProcessOK, Return, clusterVars
  <2>3. last'.out = result /\ last'.cmd = cmd
    BY <2>2
  <2>4. CommittedNeverPanics'
    BY <2>2, <2>3 DEF CommittedNeverPanics
  <2>5. ASSUME cmd.name = "deploy", MdsVersion(stored) # "v1", NEW i \in Lasting(Ids(Dcs)) PROVE svc[i] = "running"
    <3>1. Up(plan, i, svc[i])
      BY <2>5 DEF ClusterInv, DeployOK
    <3>2. QED
      BY <2>1, <3>1, UpEnd
  <2>6. ASSUME cmd.name = "upgrade", NEW i \in Lasting(Ids(Filter(Dcs, cmd))) PROVE svc[i] = "running"
    <3>1. Up(plan, i, svc[i]) \/ \E n \in DOMAIN todo : i \in Ids(todo[n])
      BY <2>6 DEF ClusterInv, UpgradeOK
    <3>2. DOMAIN <<>> = {}
      OBVIOUS
    <3>3. Up(plan, i, svc[i])
      BY <2>1, <3>1, <3>2
    <3>4. QED
      BY <2>1, <3>3, UpEnd
  <2>7. StartsAll'
    <3>1. Dcs' = Dcs
      BY <2>2 DEF Dcs
    <3>2. ASSUME Done("deploy")', MdsVersion(stored)' # "v1" PROVE \A i \in Lasting(Ids(Dcs)) : svc'[i] = "running"
      BY <2>1, <2>2, <2>3, <2>5, <3>2 DEF Done
    <3>3. ASSUME Done("upgrade")' PROVE \A i \in Lasting(Ids(Filter(Dcs, cmd))) : svc'[i] = "running"
      BY <2>1, <2>3, <2>6, <3>3 DEF Done
    <3>4. QED
      BY <2>3, <3>1, <3>2, <3>3 DEF StartsAll
  <2>8. QED
    BY <2>1, <2>4, <2>7, ReturnStep
<1>4. QED
  BY <1>1, <1>2, <1>3

\* Nothing is stored at first.
LEMMA InitInv ==
  ASSUME ClusterInit
  PROVE  ClusterInv
<1> USE DEF ClusterInit
<1>1. NoCommand.name = "none" /\ last.out = "none"
  BY DEF NoCommand
<1>2. StoredOK /\ ProcessOK
  BY <1>1 DEF StoredOK, ProcessOK
<1>3. PlanOK /\ DeployOK /\ UpgradeOK
  BY <1>1 DEF PlanOK, DeployOK, UpgradeOK
<1>4. StartsAll /\ CommittedNeverPanics
  BY <1>1 DEF StartsAll, Done, CommittedNeverPanics
<1>5. QED
  BY <1>2, <1>3, <1>4 DEF ClusterInv

\* A command that begins.
LEMMA BeginStep ==
  ASSUME ClusterInv, NEW c \in Commands, NEW kind \in {"deploy", "upgrade", "precheck"}, Give(c, kind),
         Parsed = "ok", Begin(c), plan' \in Seq(PlanSteps(Dcs)), batch' \in Seq(Range(Dcs)),
         c.name # "upgrade" => todo' = <<>>, PlanOK', DeployOK', UpgradeOK'
  PROVE  ClusterInv'
<1>1. /\ cmd' = c /\ base' = {i \in AllIds : svc[i] = "running"} /\ stored' = stored /\ forced' = forced
      /\ result' = result /\ last' = [cmd |-> NoCommand, out |-> "none", at |-> "none"]
  BY DEF Begin, clusterVars
<1>2. last'.out = "none"
  BY <1>1
<1>3. c # NoCommand /\ c.name = kind
  BY DEF Give, NoCommand
<1>4. stored \in Topologies /\ ParseTopology(stored) = "ok"
  BY ParsedFacts DEF ClusterInv
<1>5. StoredOK' /\ Dcs' = Dcs
  BY <1>1 DEF ClusterInv, StoredOK, Dcs
<1>6. ProcessOK'
  <2>1. result' \in {"ok", "error"} /\ base' \subseteq AllIds
    BY <1>1 DEF ClusterInv, ProcessOK
  <2>2. plan' \in Seq(PlanSteps(Dcs')) /\ batch' \in Seq(Range(Dcs'))
    BY <1>5
  <2>3. QED
    BY <1>1, <1>2, <1>3, <1>4, <2>1, <2>2 DEF ProcessOK
<1>7. StartsAll' /\ CommittedNeverPanics'
  BY <1>2 DEF StartsAll, Done, CommittedNeverPanics
<1>8. QED
  BY <1>5, <1>6, <1>7 DEF ClusterInv

\* The types of the steps of a playbook are its list.
LEMMA TypesAre ==
  ASSUME NEW dcs, NEW T, NEW steps \in Seq(T), NEW P, DOMAIN P = DOMAIN steps, PlanHas(dcs, steps, P)
  PROVE  TypesOf(P) = steps
<1>1. \A k \in DOMAIN steps : P[k].type = steps[k]
  BY Zenon DEF PlanHas
<1>2. steps = [k \in DOMAIN steps |-> steps[k]]
  BY LenProperties
<1>3. TypesOf(P) = [k \in DOMAIN steps |-> P[k].type]
  BY Zenon DEF TypesOf
<1>4. QED
  BY <1>1, <1>2, <1>3

\* The playbook of a deploy brings up all services.
LEMMA BeginDeployKeepsInv ==
  ASSUME ClusterInv, NEW c \in Commands, BeginDeploy(c)
  PROVE  ClusterInv'
<1> DEFINE u == DeploySteps(c)
           P == Plan(Dcs, u)
<1>1. /\ Give(c, "deploy") /\ Parsed = "ok" /\ Begin(c) /\ plan' = P /\ batch' = Dcs /\ todo' = todo
      /\ ~Panics(Dcs, u)
  BY DEF BeginDeploy
<1>2. cmd = NoCommand /\ c.name = "deploy" /\ cmd' = c /\ stored' = stored /\ svc' = svc
  BY <1>1 DEF Give, Begin, clusterVars, serviceVars
<1>3. todo = <<>> /\ lists = StepLists /\ StoredOK
  BY <1>2 DEF ClusterInv, ProcessOK
<1>4. /\ stored \in Topologies /\ ParseTopology(stored) = "ok" /\ Dcs \in Seq(Range(Dcs)) /\ IsDcs(stored, Dcs)
  BY <1>1, <1>3, ParsedFacts
<1>5. u = DStepsOf(stored, Dcs, c.local) /\ c.local \in BOOLEAN
  BY <1>3, DeployStepsAre
<1>6. GoodSteps(stored, Dcs, u) /\ (MdsVersion(stored) = "v1" => u = <<>>)
  BY <1>4, <1>5, DeployStepsGood DEF Dcs
<1> HIDE DEF u, P
<1>7. u \in Seq(DeployTypes) /\ DeployTypes \subseteq AllTypes
  BY <1>6 DEF GoodSteps, AllTypes
<1>8. P \in Seq(PlanSteps(Dcs)) /\ Len(P) = Len(u) /\ DOMAIN P = DOMAIN u /\ PlanHas(Dcs, u, P)
  BY <1>1, <1>4, <1>7, PlanLemma DEF P
<1>9. \A k \in DOMAIN P : /\ P[k].type = u[k] /\ u[k] \in DeployTypes
                          /\ P[k].dcs = Limit(Configs(Dcs, P[k].type), P[k].type)
  <2>1. \A k \in DOMAIN u : u[k] \in DeployTypes
    BY <1>7, LenProperties, ElementOfSeq
  <2>2. \A k \in DOMAIN u : P[k].type = u[k] /\ P[k].dcs = Limit(Configs(Dcs, u[k]), u[k])
    BY <1>8, Zenon DEF PlanHas
  <2>3. QED
    BY <1>8, <2>1, <2>2
<1>10. PlanOK'
  BY <1>1, <1>2, <1>9 DEF PlanOK
<1>11. ASSUME MdsVersion(stored) = "v1" PROVE P = <<>>
  <2>1. Len(P) = 0
    BY <1>6, <1>8, <1>11
  <2> DEFINE X == PlanSteps(Dcs)
  <2> HIDE DEF X
  <2>2. P \in Seq(X)
    BY <1>8 DEF X
  <2>3. QED
    BY <2>1, <2>2, RangeEmpty
<1>12. ASSUME MdsVersion(stored) # "v1", NEW i \in Lasting(Ids(Dcs)) PROVE Up(P, i, svc[i])
  <2>1. PICK dc \in Range(Dcs) : dc.id = i
    BY RangeFacts DEF Lasting
  <2>2. dc.role = RoleOf(dc.id) /\ dc.role # "mds-client"
    BY <1>4, <2>1 DEF IsDcs, Lasting
  <2>3. dc.role \in RolesIn(Dcs) \ {"mds-client"}
    BY <2>2, RangeFacts
  <2>4. Ready(u, dc.role)
    BY <1>6, <1>12, <2>3 DEF GoodSteps
  <2> DEFINE S == Range(Dcs)
  <2>5. dc \in Range(Dcs) /\ Dcs \in Seq(S)
    BY <1>4
  <2> HIDE DEF S
  <2>6. Up(P, dc.id, svc[i])
    BY <1>7, <1>8, <2>2, <2>4, <2>5, UpPlan
  <2>7. QED
    BY <2>1, <2>6
<1>13. TypesOf(P) = u
  BY <1>7, <1>8, TypesAre
<1>14. DeployOK'
  <2>1. Dcs' = Dcs
    BY <1>2 DEF Dcs
  <2>2. IF MdsVersion(stored') = "v1" THEN plan' = <<>>
        ELSE \A i \in Lasting(Ids(batch')) : Up(plan', i, svc'[i])
    BY <1>1, <1>2, <1>11, <1>12
  <2>3. After1(TypesOf(plan'), "CREATE_META_TABLES", {"START_FS_MDS"})
    BY <1>1, <1>6, <1>13 DEF GoodSteps
  <2>4. After1(TypesOf(plan'), "CLEAN_PRECHECK_ENVIRONMENT", Starts)
    BY <1>1, <1>6, <1>13 DEF GoodSteps
  <2>5. QED
    BY <1>1, <2>1, <2>2, <2>3, <2>4, Zenon DEF DeployOK
<1>15. UpgradeOK'
  BY <1>2 DEF UpgradeOK
<1>16. QED
  BY <1>1, <1>3, <1>4, <1>8, <1>10, <1>14, <1>15, BeginStep

\* The steps of a precheck.
LEMMA PrecheckLemma ==
  ASSUME NEW dcs, dcs \in Seq(Range(dcs)), dcs # <<>>, NEW skip
  PROVE  LET P == PrecheckPlan(dcs, skip) IN
         P \in Seq(PlanSteps(dcs)) /\ \A k \in DOMAIN P : P[k].type \in PrecheckTypes
<1> DEFINE P == PrecheckPlan(dcs, skip)
           some == SkipPrecheckSteps(skip)
           steps == some \o <<"POST_CLEAN">>
           Y == Seq(Range(dcs))
           of(s) == IF s \in {"CHECK_TOPOLOGY", "CHECK_HOST_DATE"} THEN SubSeq(dcs, 1, 1) ELSE dcs
           n == Len(steps)
<1>1. some \in Seq(PrecheckTypes)
  <2> DEFINE D == DINGOFS_PRECHECK_STEPS
  <2>1. D \in Seq(PrecheckTypes)
    BY DEF DINGOFS_PRECHECK_STEPS, PrecheckTypes
  <2> HIDE DEF D
  <2>2. \A I : Pick(D, I) \in Seq(PrecheckTypes)
    BY <2>1, PickLemma
  <2>3. QED
    BY <2>2 DEF SkipPrecheckSteps, D
<1>2. <<"POST_CLEAN">> \in Seq(PrecheckTypes)
  BY DEF PrecheckTypes
<1> HIDE DEF some
<1>3. steps \in Seq(PrecheckTypes)
  BY <1>1, <1>2, ConcatProperties
<1>4. P = [k \in DOMAIN steps |-> [type |-> steps[k], dcs |-> of(steps[k])]]
  BY DEF PrecheckPlan, some
<1> HIDE DEF steps
<1>5. n \in Nat /\ DOMAIN steps = 1..n /\ \A k \in 1..n : steps[k] \in PrecheckTypes
  BY <1>3, LenProperties, ElementOfSeq
<1> HIDE DEF n
<1>6. SubSeq(dcs, 1, 1) \in Y /\ dcs \in Y
  <2> DEFINE S == Range(dcs)
  <2>1. dcs \in Seq(S)
    OBVIOUS
  <2> HIDE DEF S
  <2>2. 1 \in 0..Len(dcs)
    BY <2>1, EmptySeq
  <2>3. SubSeq(dcs, 1, 1) \in Seq(S)
    BY <2>1, <2>2, PrefixLemma
  <2>4. QED
    BY <2>1, <2>3 DEF S
<1>7. \A s : of(s) \in Y
  BY <1>6, Zenon
<1> HIDE DEF of, Y, P
<1>8. \A k \in 1..n : P[k] \in [type : PrecheckTypes, dcs : Y]
  BY <1>4, <1>5, <1>7
<1>9. P = [k \in 1..n |-> P[k]]
  BY <1>4, <1>5
<1> DEFINE R == [type : PrecheckTypes, dcs : Y]
<1>10. R \subseteq PlanSteps(dcs)
  <2>1. PrecheckTypes \subseteq AllTypes
    BY DEF AllTypes
  <2>2. R \subseteq [type : AllTypes, dcs : Y]
    BY <2>1
  <2>3. QED
    BY <2>2, Zenon DEF PlanSteps, Y
<1>11. P \in Seq(R)
  <2> HIDE DEF R
  <2>1. \A k \in 1..n : P[k] \in R
    BY <1>8 DEF R
  <2>2. [k \in 1..n |-> P[k]] \in Seq(R)
    BY <1>5, <2>1, IsASeq
  <2>3. QED
    BY <1>9, <2>2, Zenon
<1>12. P \in Seq(PlanSteps(dcs))
  <2> DEFINE X == PlanSteps(dcs)
  <2>1. R \subseteq X
    BY <1>10
  <2> HIDE DEF R, X
  <2>2. P \in Seq(X)
    BY <1>11, <2>1, SeqMonotonic
  <2>3. QED
    BY <2>2 DEF X
<1>13. \A k \in DOMAIN P : P[k].type \in PrecheckTypes
  <2>1. DOMAIN P = 1..n
    BY <1>9
  <2>2. QED
    BY <1>8, <2>1
<1>14. QED
  BY <1>12, <1>13 DEF P

\* A precheck begins.
LEMMA BeginPrecheckKeepsInv ==
  ASSUME ClusterInv, NEW c \in Commands, BeginPrecheck(c)
  PROVE  ClusterInv'
<1>1. /\ Give(c, "precheck") /\ Parsed = "ok" /\ Begin(c) /\ plan' = PrecheckPlan(Dcs, c.skip) /\ batch' = Dcs
      /\ todo' = todo
  BY DEF BeginPrecheck
<1>2. c.name = "precheck" /\ cmd' = c /\ todo = <<>>
  BY <1>1 DEF Give, Begin, ClusterInv, ProcessOK
<1>3. Dcs \in Seq(Range(Dcs)) /\ Dcs # <<>>
  BY <1>1, ParsedFacts DEF ClusterInv
<1>4. plan' \in Seq(PlanSteps(Dcs)) /\ \A k \in DOMAIN plan' : plan'[k].type \in PrecheckTypes
  BY <1>1, <1>3, PrecheckLemma
<1>5. PlanOK'
  BY <1>2, <1>4 DEF PlanOK
<1>6. DeployOK' /\ UpgradeOK'
  BY <1>2 DEF DeployOK, UpgradeOK
<1>7. QED
  BY <1>1, <1>2, <1>3, <1>4, <1>5, <1>6, BeginStep

\* The lists a process begins with.
LEMMA StepListsReady == ListsReady(StepLists)
<1>1. {"upgrade", "upgrade_store_fs"} \subseteq DOMAIN StepLists
  BY DEF StepLists
<1>2. QED
  BY <1>1, UpgradeReady, UpgradeFsListReady DEF ListsReady, FsRoles

\* Every service of F is in a batch, and alone in it without --force.
BatchesOf(F, atOnce, B) ==
  /\ \A i \in Ids(F) : \E n \in DOMAIN B : i \in Ids(B[n])
  /\ ~atOnce => \A n \in DOMAIN B : Len(B[n]) = 1

\* The batches of an upgrade.
LEMMA BatchesLemma ==
  ASSUME NEW S, NEW F \in Seq(S), NEW c, c.force \in BOOLEAN
  PROVE  Batches(F, c) \in Seq(Seq(S)) /\ BatchesOf(F, c.force, Batches(F, c))
<1> DEFINE X == Seq(S)
           B == Batches(F, c)
<1>1. Len(F) \in Nat /\ DOMAIN F = 1..Len(F) /\ \A n \in 1..Len(F) : F[n] \in S
  BY LenProperties, ElementOfSeq
<1>2. CASE c.force = TRUE
  <2>1. B = <<F>>
    BY <1>2 DEF Batches
  <2>2. F \in X
    OBVIOUS
  <2> HIDE DEF X, B
  <2>3. B \in Seq(X) /\ 1 \in DOMAIN B /\ B[1] = F
    BY <2>1, <2>2
  <2>4. BatchesOf(F, c.force, B)
    BY <1>2, <2>3 DEF BatchesOf
  <2>5. QED
    BY <2>3, <2>4 DEF X, B
<1>3. CASE c.force = FALSE
  <2> DEFINE m == Len(F)
  <2>1. B = [k \in 1..m |-> <<F[k]>>]
    BY <1>1, <1>3 DEF Batches
  <2>2. \A k \in 1..m : <<F[k]>> \in X
    BY <1>1
  <2> HIDE DEF X, B, m
  <2>3. B \in Seq(X)
    <3>1. [k \in 1..m |-> <<F[k]>>] \in Seq(X)
      BY <1>1, <2>2, IsASeq DEF m
    <3>2. QED
      BY <2>1, <3>1, Zenon
  <2>4. DOMAIN B = 1..m /\ \A k \in 1..m : B[k] = <<F[k]>> /\ Len(B[k]) = 1 /\ Ids(B[k]) = {F[k].id}
    <3>1. DOMAIN B = 1..m /\ \A k \in 1..m : B[k] = <<F[k]>>
      BY <2>1
    <3>2. \A x : Len(<<x>>) = 1 /\ Ids(<<x>>) = {x.id}
      BY DEF Ids
    <3>3. QED
      BY <3>1, <3>2, Zenon
  <2>5. BatchesOf(F, c.force, B)
    <3>1. ASSUME NEW i \in Ids(F) PROVE \E n \in DOMAIN B : i \in Ids(B[n])
      <4>1. PICK k \in 1..m : i = F[k].id
        BY <1>1 DEF Ids, m
      <4>2. QED
        BY <2>4, <4>1
    <3>2. \A n \in DOMAIN B : Len(B[n]) = 1
      BY <2>4
    <3>3. QED
      BY <3>1, <3>2 DEF BatchesOf
  <2>6. QED
    BY <2>3, <2>5 DEF X, B
<1>4. QED
  BY <1>2, <1>3

\* A service that runs is Up as long as no step stops it.
LEMMA UpRuns ==
  ASSUME NEW i, NEW P, \A k \in DOMAIN P : ~Hit(P[k], i, {"STOP_SERVICE"})
  PROVE  Up(P, i, "running")
BY Zenon DEF Up

\* An upgrade begins: what runs is base, and every service is in a batch.
LEMMA BeginUpgradeKeepsInv ==
  ASSUME ClusterInv, NEW c \in Commands, BeginUpgrade(c)
  PROVE  ClusterInv'
<1> DEFINE F == Filter(Dcs, c)
           B == Batches(F, c)
<1>1. /\ Give(c, "upgrade") /\ Parsed = "ok" /\ Begin(c) /\ todo' = B
      /\ plan' = plan /\ batch' = batch /\ lists' = lists
  BY DEF BeginUpgrade
<1>2. /\ cmd = NoCommand /\ c.name = "upgrade" /\ cmd' = c /\ stored' = stored /\ svc' = svc
      /\ base' = {i \in AllIds : svc[i] = "running"}
  BY <1>1 DEF Give, Begin, clusterVars, serviceVars
<1>3. plan = <<>> /\ batch = <<>> /\ lists = StepLists /\ StoredOK
  BY <1>2 DEF ClusterInv, ProcessOK
<1>4. Dcs \in Seq(Range(Dcs)) /\ c.force \in BOOLEAN
  BY <1>1, <1>3, ParsedFacts, ClusterAssumption
<1>5. B \in Seq(Seq(Range(Dcs))) /\ BatchesOf(F, c.force, B)
  <2> DEFINE S == Range(Dcs)
  <2>1. Dcs \in Seq(S)
    BY <1>4
  <2> HIDE DEF S
  <2>2. F \in Seq(S)
    BY <2>1, FilterLemma
  <2> HIDE DEF F
  <2>3. B \in Seq(Seq(S)) /\ BatchesOf(F, c.force, B)
    BY <1>4, <2>2, BatchesLemma
  <2>4. QED
    BY <2>3 DEF S
<1> HIDE DEF B
<1>6. PlanOK'
  <2>1. plan' = <<>> /\ DOMAIN <<>> = {}
    BY <1>1, <1>3
  <2>2. QED
    BY <2>1 DEF PlanOK
<1>7. DeployOK'
  BY <1>2 DEF DeployOK
<1>8. UpgradeOK'
  <2>1. Dcs' = Dcs
    BY <1>2 DEF Dcs
  <2>2. DOMAIN <<>> = {} /\ Ids(<<>>) = {} /\ Len(<<>>) = 0
    BY DEF Ids
  <2>3. ASSUME NEW i \in Lasting(base') \cup Lasting(Ids(batch')) PROVE Up(plan', i, svc'[i])
    <3>1. i \in base'
      BY <1>1, <1>3, <2>2 DEF Lasting
    <3>2. svc'[i] = "running"
      BY <1>2, <3>1
    <3>3. Up(<<>>, i, "running")
      BY <2>2, UpRuns
    <3>4. QED
      BY <1>1, <1>3, <3>2, <3>3
  <2>4. \A i \in base' \ Lasting(base') : svc'[i] = "running"
    BY <1>2
  <2>5. \A i \in Lasting(Ids(F)) : \E n \in DOMAIN todo' : i \in Ids(todo'[n])
    BY <1>1, <1>5 DEF BatchesOf, Lasting
  <2>6. ~c.force => Len(batch') <= 1 /\ \A n \in DOMAIN todo' : Len(todo'[n]) = 1
    BY <1>1, <1>3, <1>5, <2>2 DEF BatchesOf
  <2>7. ListsReady(lists')
    BY <1>1, <1>3, StepListsReady
  <2>8. todo' \in Seq(Seq(Range(Dcs')))
    BY <1>1, <1>5, <2>1
  <2>9. QED
    BY <1>2, <2>1, <2>3, <2>4, <2>5, <2>6, <2>7, <2>8, Zenon DEF UpgradeOK
<1>9. plan' \in Seq(PlanSteps(Dcs)) /\ batch' \in Seq(Range(Dcs))
  BY <1>1, <1>3, EmptySeq
<1>10. QED
  BY <1>1, <1>2, <1>6, <1>7, <1>8, <1>9, BeginStep

\* WithServices leaves out no step that a service of dcs needs.
LEMMA WithServicesLemma ==
  ASSUME NEW S, NEW dcs \in Seq(S), NEW T, NEW steps \in Seq(T)
  PROVE  LET w == WithServices(dcs, steps) IN
         /\ w \in Seq(T) /\ ~Panics(dcs, w)
         /\ \A dc \in Range(dcs) : Ready(steps, dc.role) => Ready(w, dc.role)
<1> DEFINE I == {k \in DOMAIN steps : FilterRole(steps[k]) = {} \/ Configs(dcs, steps[k]) # <<>>}
           w == Pick(steps, I)
<1>1. w \in Seq(T)
  BY PickLemma
<1>2. PICK e : /\ Embeds(w, steps, e) /\ Covers(w, e, I \cap 1..Len(steps))
               /\ \A j \in 1..Len(w) : e[j] \in I
  BY PickLemma
<1>3. WithServices(dcs, steps) = w
  BY DEF WithServices
<1> HIDE DEF w
<1>4. DOMAIN w = 1..Len(w) /\ DOMAIN steps = 1..Len(steps)
  BY <1>1, LenProperties
<1>5. ~Panics(dcs, w)
  <2> SUFFICES ASSUME NEW k \in DOMAIN w, w[k] \in Limited, Configs(dcs, w[k]) = <<>> PROVE FALSE
    BY DEF Panics
  <2>1. e[k] \in I /\ w[k] = steps[e[k]]
    BY <1>2, <1>4 DEF Embeds
  <2>2. FilterRole(w[k]) # {}
    BY FilterRoleFacts DEF Limited
  <2>3. QED
    BY <2>1, <2>2
<1>6. ASSUME NEW dc \in Range(dcs), Ready(steps, dc.role) PROVE Ready(w, dc.role)
  <2> DEFINE r == dc.role
  <2>1. ASSUME NEW x \in Vital(steps, r) PROVE x \in I \cap 1..Len(steps)
    <3>1. /\ x \in 1..Len(steps)
          /\ steps[x] = "CREATE_CONTAINER" \/ FilterRole(steps[x]) \subseteq {r}
      BY <2>1 DEF Vital
    <3>2. CASE FilterRole(steps[x]) = {}
      BY <1>4, <3>1, <3>2
    <3>3. CASE FilterRole(steps[x]) # {}
      <4>1. FilterRole(steps[x]) = {r}
        BY <3>1, <3>3, FilterRoleFacts
      <4>2. dc \in Range(Configs(dcs, steps[x]))
        BY <4>1, ConfigsLemma DEF ForStep
      <4>3. Configs(dcs, steps[x]) # <<>>
        BY <4>2 DEF Range
      <4>4. QED
        BY <1>4, <3>1, <4>3
    <3>4. QED
      BY <3>2, <3>3
  <2> HIDE DEF I
  <2>2. Covers(w, e, Vital(steps, r))
    BY <1>2, <2>1 DEF Covers
  <2>3. QED
    BY <1>1, <1>2, <1>6, <2>2, ReadyKept
<1>7. QED
  BY <1>1, <1>3, <1>5, <1>6, Zenon

\* The steps of an upgrade, for the services of dcs.
UpSteps(ls, dcs, local) ==
  LET s == ls[UpgradeList(dcs)] IN WithServices(dcs, Take(s, Len(s), local))

\* The types of the steps, which depend on whether there is an mds-client.
TypesFor(dcs) == IF "mds-client" \in RolesIn(dcs) THEN UpgradeFsTypes ELSE UpgradeTypes

\* With an mds-client, the other roles are the ones upgrade_store_fs starts.
LEMMA FsRolesLemma ==
  ASSUME NEW t, t.kind \in Kinds, "mds-client" \in RoleSet(t), NEW r \in RoleSet(t), r # "mds-client"
  PROVE  r \in FsRoles
<1>1. CASE t.kind = "dingofs" /\ t.deploy["coordinator"] # <<>>
  BY <1>1 DEF RoleSet, FsRoles
<1>2. CASE t.kind = "dingofs" /\ t.deploy["coordinator"] = <<>> /\ t.deploy["etcd"] = <<>>
  BY <1>2 DEF RoleSet, FsRoles
<1>3. CASE t.kind = "dingofs" /\ t.deploy["coordinator"] = <<>> /\ t.deploy["etcd"] # <<>>
  BY <1>3 DEF RoleSet
<1>4. CASE t.kind \in {"dingo-store", "dingodb"}
  BY <1>4 DEF RoleSet
<1>5. QED
  BY <1>1, <1>2, <1>3, <1>4 DEF Kinds

\* The list of an upgrade brings up the services of dcs.
LEMMA UpgradeStepsLemma ==
  ASSUME NEW t \in Topologies, NEW all, IsDcs(t, all), NEW dcs \in Seq(Range(all)),
         NEW ls, ListsReady(ls), NEW local \in BOOLEAN
  PROVE  LET w == UpSteps(ls, dcs, local) IN
         /\ w \in Seq(TypesFor(dcs)) /\ ~Panics(dcs, w)
         /\ \A dc \in Range(dcs) : dc.role # "mds-client" => Ready(w, dc.role)
<1> DEFINE list == UpgradeList(dcs)
           s == ls[list]
           q == Take(s, Len(s), local)
           T == TypesFor(dcs)
<1>1. t.kind \in Kinds
  BY ClusterAssumption
<1>2. Range(dcs) \subseteq Range(all)
  <2> DEFINE X == Range(all)
  <2>1. dcs \in Seq(X)
    OBVIOUS
  <2> HIDE DEF X
  <2>2. Range(dcs) \subseteq X
    BY <2>1, RangeOfSeq
  <2>3. QED
    BY <2>2 DEF X
<1>3. \A dc \in Range(dcs) : dc.role \in RoleSet(t) /\ dc.role \in Roles
  <2>1. RoleSet(t) = Range(RolesOf(t)) /\ RolesOf(t) \in Seq(Roles)
    BY <1>1, RolesOfLemma
  <2>2. Range(RolesOf(t)) \subseteq Roles
    BY <2>1, RangeOfSeq
  <2>3. QED
    BY <1>2, <2>1, <2>2 DEF IsDcs
<1>4. s \in Seq(T)
  BY DEF ListsReady, UpgradeList, TypesFor
<1>5. ASSUME NEW dc \in Range(dcs), dc.role # "mds-client" PROVE Ready(s, dc.role)
  <2>1. CASE "mds-client" \in RolesIn(dcs)
    <3>1. PICK d \in Range(dcs) : d.role = "mds-client"
      BY <2>1, RangeFacts
    <3>2. "mds-client" \in RoleSet(t)
      BY <1>3, <3>1
    <3>3. dc.role \in FsRoles
      BY <1>1, <1>3, <1>5, <3>2, FsRolesLemma
    <3>4. list = "upgrade_store_fs"
      BY <2>1 DEF UpgradeList
    <3>5. QED
      BY <3>3, <3>4 DEF ListsReady
  <2>2. CASE "mds-client" \notin RolesIn(dcs)
    <3>1. list = "upgrade"
      BY <2>2 DEF UpgradeList
    <3>2. QED
      BY <1>3, <3>1 DEF ListsReady
  <2>3. QED
    BY <2>1, <2>2
<1> HIDE DEF s, T
<1>6. q \in Seq(T) /\ Keeps(q, s)
  <2>1. Len(s) \in 0..Len(s) /\ SubSeq(s, 1, Len(s)) = s
    BY <1>4, LenProperties, SubSeqFull
  <2>2. q \in Seq(T) /\ Keeps(q, SubSeq(s, 1, Len(s)))
    BY <1>4, <2>1, TakeKeeps
  <2>3. QED
    BY <2>1, <2>2, Zenon
<1> HIDE DEF q
<1>7. \A dc \in Range(dcs) : dc.role # "mds-client" => Ready(q, dc.role)
  BY <1>4, <1>5, <1>6, KeepsReady
<1> DEFINE w == WithServices(dcs, q)
           D == Range(all)
<1>8. dcs \in Seq(D)
  OBVIOUS
<1> HIDE DEF D
<1>9. w \in Seq(T) /\ ~Panics(dcs, w) /\ \A dc \in Range(dcs) : Ready(q, dc.role) => Ready(w, dc.role)
  BY <1>6, <1>8, WithServicesLemma
<1>10. w = UpSteps(ls, dcs, local)
  BY DEF UpSteps, q, s
<1> HIDE DEF w
<1>11. QED
  BY <1>7, <1>9, <1>10, Zenon DEF T

\* Shifting a list in place keeps what it is ready for.
LEMMA ListsStayReady ==
  ASSUME NEW ls, ListsReady(ls), NEW list \in {"upgrade", "upgrade_store_fs"}
  PROVE  ListsReady([ls EXCEPT ![list] = Shifted(@, Len(@))])
<1> DEFINE l2 == [ls EXCEPT ![list] = Shifted(@, Len(@))]
           s == ls[list]
           T == IF list = "upgrade" THEN UpgradeTypes ELSE UpgradeFsTypes
           R == IF list = "upgrade" THEN Roles ELSE FsRoles
<1>1. /\ list \in DOMAIN ls /\ s \in Seq(T) /\ \A r \in R : Ready(s, r)
      /\ {"upgrade", "upgrade_store_fs"} \subseteq DOMAIN ls
  BY DEF ListsReady
<1>2. DOMAIN l2 = DOMAIN ls /\ l2[list] = Shifted(s, Len(s)) /\ \A x \in DOMAIN ls \ {list} : l2[x] = ls[x]
  BY <1>1
<1> HIDE DEF s, l2, T, R
<1>3. Shifted(s, Len(s)) \in Seq(T) /\ Keeps(Shifted(s, Len(s)), s)
  BY <1>1, ShiftedKeeps
<1>4. \A r \in R : Ready(Shifted(s, Len(s)), r)
  BY <1>1, <1>3, KeepsReady
<1>5. l2[list] \in Seq(T) /\ \A r \in R : Ready(l2[list], r)
  BY <1>2, <1>3, <1>4, Zenon
<1>6. CASE list = "upgrade"
  <2>1. l2["upgrade_store_fs"] = ls["upgrade_store_fs"]
    BY <1>1, <1>2, <1>6
  <2>2. QED
    BY <1>1, <1>2, <1>5, <1>6, <2>1 DEF ListsReady, T, R, l2
<1>7. CASE list = "upgrade_store_fs"
  <2>1. l2["upgrade"] = ls["upgrade"] /\ "upgrade" # list
    BY <1>1, <1>2, <1>7
  <2>2. QED
    BY <1>1, <1>2, <1>5, <1>7, <2>1 DEF ListsReady, T, R, l2
<1>8. QED
  BY <1>6, <1>7

\* A step of a playbook for some of the services is one for more.
LEMMA PlanStepsMonotone ==
  ASSUME NEW few, NEW all, few \in Seq(Range(all)), NEW P \in Seq(PlanSteps(few))
  PROVE  P \in Seq(PlanSteps(all))
<1> DEFINE X == Range(all)
           Y == Range(few)
<1>1. Y \subseteq X
  <2>1. few \in Seq(X)
    OBVIOUS
  <2> HIDE DEF X
  <2>2. QED
    BY <2>1, RangeOfSeq
<1>2. PlanSteps(few) = [type : AllTypes, dcs : Seq(Y)] /\ PlanSteps(all) = [type : AllTypes, dcs : Seq(X)]
  BY Zenon DEF PlanSteps
<1> HIDE DEF X, Y
<1>3. Seq(Y) \subseteq Seq(X)
  BY <1>1, SeqMonotonic
<1> DEFINE A == Seq(Y)  B == Seq(X)
<1>4. A \subseteq B
  BY <1>3
<1> HIDE DEF A, B
<1>5. [type : AllTypes, dcs : A] \subseteq [type : AllTypes, dcs : B]
  BY <1>4
<1> DEFINE U == PlanSteps(few)  V == PlanSteps(all)
<1>6. U \subseteq V
  BY <1>2, <1>5, Zenon DEF A, B
<1>7. P \in Seq(U)
  OBVIOUS
<1> HIDE DEF U, V
<1>8. P \in Seq(V)
  BY <1>6, <1>7, SeqMonotonic
<1>9. QED
  BY <1>8 DEF V

\* The playbook of a batch brings up its services and leaves the others as they are.
LEMMA NextBatchKeepsInv ==
  ASSUME ClusterInv, NextBatch
  PROVE  ClusterInv'
<1> DEFINE dcs == Head(todo)
           w == UpSteps(lists, dcs, cmd.local)
           P == Plan(dcs, w)
           D == Range(Dcs)
<1>1. plan = <<>> /\ todo # <<>> /\ todo' = Tail(todo) /\ batch' = dcs
  BY DEF NextBatch
<1>2. /\ stored' = stored /\ forced' = forced /\ svc' = svc /\ cmd' = cmd /\ base' = base /\ result' = result
      /\ last' = last
  BY DEF NextBatch, clusterVars, serviceVars
<1>3. plan' = P
  BY DEF NextBatch, Steps, UpSteps, Take
<1>4. cmd.name = "upgrade" /\ cmd # NoCommand
  BY <1>1 DEF ClusterInv, ProcessOK
<1>5. /\ cmd \in Commands /\ stored \in Topologies /\ ParseTopology(stored) = "ok" /\ last.out = "none"
      /\ cmd.local \in BOOLEAN /\ result \in {"ok", "error"} /\ base \subseteq AllIds
  BY <1>4, ClusterAssumption DEF ClusterInv, ProcessOK
<1>6. IsDcs(stored, Dcs)
  BY <1>5, DcsLemma DEF Dcs
<1>7. todo \in Seq(Seq(D)) /\ ListsReady(lists)
  BY <1>4 DEF ClusterInv, UpgradeOK
<1>8. dcs \in Seq(D) /\ Tail(todo) \in Seq(Seq(D))
  <2> DEFINE X == Seq(D)
  <2>1. todo \in Seq(X)
    BY <1>7
  <2> HIDE DEF X
  <2>2. dcs \in X /\ Tail(todo) \in Seq(X)
    BY <1>1, <2>1, HeadTailProperties
  <2>3. QED
    BY <2>2 DEF X
<1> HIDE DEF w, P
<1>9. /\ w \in Seq(TypesFor(dcs)) /\ ~Panics(dcs, w)
      /\ \A dc \in Range(dcs) : dc.role # "mds-client" => Ready(w, dc.role)
  BY <1>5, <1>6, <1>7, <1>8, UpgradeStepsLemma DEF w
<1> HIDE DEF dcs
<1>10. dcs \in Seq(Range(dcs)) /\ Range(dcs) \subseteq D
  <2> HIDE DEF D
  <2>1. QED
    BY <1>8, SeqOfRange, RangeOfSeq
<1>11. TypesFor(dcs) \subseteq AllTypes
  BY DEF TypesFor, AllTypes
<1>12. P \in Seq(PlanSteps(dcs)) /\ Len(P) = Len(w) /\ DOMAIN P = DOMAIN w /\ PlanHas(dcs, w, P)
  BY <1>9, <1>10, <1>11, PlanLemma DEF P
<1>13. P \in Seq(PlanSteps(Dcs))
  BY <1>8, <1>12, PlanStepsMonotone
<1>14. \A k \in DOMAIN P : /\ P[k].type \in TypesFor(dcs) /\ P[k].dcs \in Seq(Range(dcs))
                           /\ P[k].dcs = Limit(Configs(dcs, P[k].type), P[k].type)
  <2>1. \A k \in DOMAIN w : w[k] \in TypesFor(dcs)
    BY <1>9, LenProperties, ElementOfSeq
  <2>2. \A k \in DOMAIN w : /\ P[k].type = w[k] /\ P[k].dcs = Limit(Configs(dcs, w[k]), w[k])
                            /\ P[k].dcs \in Seq(Range(dcs))
    BY <1>12, Zenon DEF PlanHas
  <2>3. QED
    BY <1>12, <2>1, <2>2
<1>15. PlanOK'
  <2>1. \A k \in DOMAIN P : P[k].type \in CASE cmd.name = "deploy" -> DeployTypes
           [] cmd.name = "precheck" -> PrecheckTypes
           [] cmd.name = "upgrade" /\ "mds-client" \in RolesIn(dcs) -> UpgradeFsTypes
           [] OTHER -> UpgradeTypes
    BY <1>4, <1>14 DEF TypesFor
  <2>2. QED
    BY <1>1, <1>2, <1>3, <1>14, <2>1 DEF PlanOK
<1>16. ASSUME NEW i \in Ids(dcs), RoleOf(i) # "mds-client" PROVE Up(P, i, svc[i])
  <2>1. PICK dc \in Range(dcs) : dc.id = i
    BY RangeFacts
  <2>2. dc.role = RoleOf(dc.id)
    BY <1>6, <1>10 DEF IsDcs
  <2>3. Ready(w, dc.role)
    BY <1>9, <1>16, <2>1, <2>2
  <2> HIDE DEF D
  <2>4. Up(P, dc.id, svc[i])
    BY <1>8, <1>9, <1>12, <2>2, <2>3, UpPlan
  <2>5. QED
    BY <2>1, <2>4
<1>17. ASSUME NEW i, i \notin Ids(dcs), NEW k \in DOMAIN P PROVE i \notin Ids(P[k].dcs)
  <2> DEFINE S == Range(dcs)  q == P[k].dcs
  <2>1. q \in Seq(S)
    BY <1>14
  <2> HIDE DEF S, q
  <2>2. Range(q) \subseteq S
    BY <2>1, RangeOfSeq
  <2>3. Ids(q) \subseteq Ids(dcs)
    BY <2>2, RangeFacts DEF S
  <2>4. QED
    BY <1>17, <2>3 DEF q
<1>18. ASSUME NEW i, Up(plan, i, svc[i]), i \notin Ids(dcs) PROVE Up(P, i, svc[i])
  <2>1. svc[i] = "running"
    BY <1>1, <1>18, UpEnd
  <2>2. \A k \in DOMAIN P : ~Hit(P[k], i, {"STOP_SERVICE"})
    BY <1>17, <1>18 DEF Hit
  <2>3. QED
    BY <2>1, <2>2, UpRuns
<1>19. UpgradeOK'
  <2>1. Dcs' = Dcs
    BY <1>2 DEF Dcs
  <2>2. ASSUME NEW i \in Lasting(base) \cup Lasting(Ids(dcs)) PROVE Up(P, i, svc[i])
    <3>1. RoleOf(i) # "mds-client"
      BY DEF Lasting
    <3>2. CASE i \in Ids(dcs)
      BY <1>16, <3>1, <3>2
    <3>3. CASE i \notin Ids(dcs)
      <4>1. i \in Lasting(base)
        BY <3>3 DEF Lasting
      <4>2. Up(plan, i, svc[i])
        BY <1>4, <4>1 DEF ClusterInv, UpgradeOK
      <4>3. QED
        BY <1>18, <3>3, <4>2
    <3>4. QED
      BY <3>2, <3>3
  <2>3. \A i \in base \ Lasting(base) : svc[i] = "running"
    BY <1>4 DEF ClusterInv, UpgradeOK
  <2>a. /\ Len(todo) \in Nat \ {0} /\ DOMAIN todo = 1..Len(todo) /\ 1 \in DOMAIN todo /\ todo[1] = dcs
        /\ DOMAIN Tail(todo) = 1..(Len(todo) - 1)
        /\ \A m \in 1..(Len(todo) - 1) : Tail(todo)[m] = todo[m + 1]
        /\ \A m \in 2..Len(todo) : Tail(todo)[m - 1] = todo[m]
    <3> DEFINE X == Seq(D)
    <3>1. todo \in Seq(X)
      BY <1>7
    <3> HIDE DEF X
    <3>2. QED
      BY <1>1, <3>1, TailLemma DEF dcs
  <2>4. ASSUME NEW i \in Lasting(Ids(Filter(Dcs, cmd)))
        PROVE  Up(P, i, svc[i]) \/ \E n \in DOMAIN Tail(todo) : i \in Ids(Tail(todo)[n])
    <3>1. RoleOf(i) # "mds-client"
      BY DEF Lasting
    <3>2. CASE i \in Ids(dcs)
      BY <1>16, <3>1, <3>2
    <3>3. CASE i \notin Ids(dcs)
      <4>1. Up(plan, i, svc[i]) \/ \E n \in DOMAIN todo : i \in Ids(todo[n])
        BY <1>4 DEF ClusterInv, UpgradeOK
      <4>2. CASE Up(plan, i, svc[i])
        BY <1>18, <3>3, <4>2
      <4>3. ASSUME NEW n \in DOMAIN todo, i \in Ids(todo[n])
            PROVE  \E m \in DOMAIN Tail(todo) : i \in Ids(Tail(todo)[m])
        <5>1. n # 1
          BY <2>a, <3>3, <4>3
        <5>2. n \in 2..Len(todo) /\ n - 1 \in DOMAIN Tail(todo)
          BY <2>a, <5>1
        <5>3. Tail(todo)[n - 1] = todo[n]
          BY <2>a, <5>2
        <5>4. QED
          BY <4>3, <5>2, <5>3
      <4>4. QED
        BY <4>1, <4>2, <4>3
    <3>4. QED
      BY <3>2, <3>3
  <2>5. ASSUME ~cmd.force PROVE Len(dcs) <= 1 /\ \A n \in DOMAIN Tail(todo) : Len(Tail(todo)[n]) = 1
    <3>1. \A n \in DOMAIN todo : Len(todo[n]) = 1
      BY <1>4, <2>5 DEF ClusterInv, UpgradeOK
    <3>2. Len(dcs) = 1
      BY <2>a, <3>1
    <3>3. \A n \in DOMAIN Tail(todo) : n + 1 \in DOMAIN todo /\ Tail(todo)[n] = todo[n + 1]
      BY <2>a
    <3>4. QED
      BY <3>1, <3>2, <3>3
  <2>6. ListsReady(lists')
    <3>1. UpgradeList(dcs) \in {"upgrade", "upgrade_store_fs"}
      BY DEF UpgradeList
    <3>2. lists' = IF cmd.local THEN [lists EXCEPT ![UpgradeList(dcs)] = Shifted(@, Len(@))] ELSE lists
      BY DEF NextBatch, dcs
    <3>3. ListsReady([lists EXCEPT ![UpgradeList(dcs)] = Shifted(@, Len(@))])
      BY <1>7, <3>1, ListsStayReady
    <3>4. QED
      BY <1>7, <3>2, <3>3, Zenon
  <2>7. todo' \in Seq(Seq(Range(Dcs')))
    BY <1>1, <1>8, <2>1
  <2>8. \A i \in Lasting(base') \cup Lasting(Ids(batch')) : Up(plan', i, svc'[i])
    BY <1>1, <1>2, <1>3, <2>2
  <2>9. \A i \in Lasting(Ids(Filter(Dcs', cmd'))) :
          Up(plan', i, svc'[i]) \/ \E n \in DOMAIN todo' : i \in Ids(todo'[n])
    BY <1>1, <1>2, <1>3, <2>1, <2>4
  <2>10. ~cmd'.force => Len(batch') <= 1 /\ \A n \in DOMAIN todo' : Len(todo'[n]) = 1
    BY <1>1, <1>2, <2>5
  <2>11. \A i \in base' \ Lasting(base') : svc'[i] = "running"
    BY <1>2, <2>3
  <2>12. QED
    BY <2>6, <2>7, <2>8, <2>9, <2>10, <2>11, Zenon DEF UpgradeOK
<1>20. ProcessOK'
  <2>1. plan' \in Seq(PlanSteps(Dcs')) /\ batch' \in Seq(Range(Dcs'))
    BY <1>1, <1>2, <1>3, <1>8, <1>13 DEF Dcs
  <2>2. cmd \in Commands /\ cmd.name \in {"deploy", "upgrade", "precheck"}
    BY <1>4, <1>5
  <2>3. QED
    BY <1>2, <1>4, <1>5, <2>1, <2>2 DEF ProcessOK
<1>21. StoredOK'
  BY <1>2 DEF ClusterInv, StoredOK, Dcs
<1>22. DeployOK'
  BY <1>2, <1>4 DEF DeployOK
<1>23. StartsAll' /\ CommittedNeverPanics'
  BY <1>2, <1>5 DEF StartsAll, Done, CommittedNeverPanics
<1>24. QED
  BY <1>15, <1>19, <1>20, <1>21, <1>22, <1>23 DEF ClusterInv

\* What is known while a playbook runs.
Running ==
  /\ cmd # NoCommand /\ cmd.name \in {"deploy", "upgrade", "precheck"} /\ last.out = "none"
  /\ stored \in Topologies /\ ParseTopology(stored) = "ok" /\ IsDcs(stored, Dcs)
  /\ Head(plan) \in PlanSteps(Dcs) /\ plan \in Seq(PlanSteps(Dcs)) /\ Tail(plan) \in Seq(PlanSteps(Dcs))
  /\ \A dc \in Range(Head(plan).dcs) : dc \in Range(Dcs) /\ dc.role = RoleOf(dc.id)
  /\ batch \in Seq(Range(Dcs)) /\ Ids(batch) \subseteq Ids(Dcs) /\ Ids(Dcs) \subseteq AllIds

\* It follows from the invariant.
LEMMA RunningFacts ==
  ASSUME ClusterInv, plan # <<>>
  PROVE  Running
<1> DEFINE X == PlanSteps(Dcs)
           D == Range(Dcs)
<1>1. cmd # NoCommand
  BY DEF ClusterInv, ProcessOK
<1>2. /\ last.out = "none" /\ cmd.name \in {"deploy", "upgrade", "precheck"}
      /\ stored \in Topologies /\ ParseTopology(stored) = "ok"
      /\ plan \in Seq(X) /\ batch \in Seq(D)
  BY <1>1 DEF ClusterInv, ProcessOK
<1>3. IsDcs(stored, Dcs) /\ Ids(Dcs) \subseteq AllIds
  BY <1>2, DcsLemma, IdsKnown DEF Dcs
<1>4. Head(plan) \in X /\ Tail(plan) \in Seq(X)
  <2> HIDE DEF X
  <2>1. QED
    BY <1>2, HeadTailProperties
<1>5. Head(plan).dcs \in Seq(D)
  <2> DEFINE Y == Seq(D)
  <2>1. Head(plan) \in [type : AllTypes, dcs : Y]
    BY <1>4 DEF PlanSteps
  <2> HIDE DEF Y
  <2>2. Head(plan).dcs \in Y
    BY <2>1
  <2>3. QED
    BY <2>2 DEF Y
<1>6. Range(Head(plan).dcs) \subseteq D /\ Range(batch) \subseteq D
  <2> HIDE DEF D
  <2>1. QED
    BY <1>2, <1>5, RangeOfSeq
<1>7. \A dc \in Range(Head(plan).dcs) : dc \in Range(Dcs) /\ dc.role = RoleOf(dc.id)
  BY <1>3, <1>6 DEF IsDcs
<1>8. Ids(batch) \subseteq Ids(Dcs)
  BY <1>6, RangeFacts
<1>9. QED
  BY <1>1, <1>2, <1>3, <1>4, <1>7, <1>8 DEF Running

\* The type of the step that is next.
LEMMA HeadType ==
  ASSUME ClusterInv, plan # <<>>
  PROVE  /\ cmd.name = "deploy" => Head(plan).type \in DeployTypes
         /\ cmd.name = "precheck" => Head(plan).type \in PrecheckTypes
         /\ cmd.name = "upgrade" =>
              Head(plan).type \in IF "mds-client" \in RolesIn(batch) THEN UpgradeFsTypes ELSE UpgradeTypes
         /\ cmd.name \in {"deploy", "upgrade"} =>
              Head(plan).dcs = Limit(Configs(batch, Head(plan).type), Head(plan).type)
<1> DEFINE X == PlanSteps(Dcs)
<1>1. plan \in Seq(X)
  BY RunningFacts DEF Running
<1> HIDE DEF X
<1>2. 1 \in DOMAIN plan /\ plan[1] = Head(plan)
  BY <1>1, TailLemma
<1>3. Head(plan).type \in CASE cmd.name = "deploy" -> DeployTypes
           [] cmd.name = "precheck" -> PrecheckTypes
           [] cmd.name = "upgrade" /\ "mds-client" \in RolesIn(batch) -> UpgradeFsTypes
           [] OTHER -> UpgradeTypes
  BY <1>2, Zenon DEF ClusterInv, PlanOK
<1>4. cmd.name \in {"deploy", "upgrade"} =>
        Head(plan).dcs = Limit(Configs(batch, Head(plan).type), Head(plan).type)
  BY <1>2 DEF ClusterInv, PlanOK
<1>5. QED
  BY <1>3, <1>4

\* The tasks of a step of deploy or upgrade: one for each of its services, but
\* for the mds-client.
LEMMA TargetsAre ==
  ASSUME ClusterInv, plan # <<>>, cmd.name \in {"deploy", "upgrade"}, NEW i, RoleOf(i) # "mds-client"
  PROVE  i \in Targets(Head(plan)) <=> i \in Ids(Head(plan).dcs)
<1> DEFINE h == Head(plan)
           q == h.dcs
<1>1. \A dc \in Range(q) : dc.role = RoleOf(dc.id)
  BY RunningFacts DEF Running
<1>2. h.type \in DeployTypes \cup UpgradeFsTypes \cup UpgradeTypes
  BY HeadType
<1>3. h.type \notin OncePerHost /\ h.type # "CHECK_PORT_IN_USE"
  BY <1>2 DEF DeployTypes, UpgradeFsTypes, UpgradeTypes, OncePerHost, Starts
<1> HIDE DEF h
<1>4. ASSUME NEW k \in DOMAIN q, q[k].id = i
      PROVE  /\ ~(q[k].role = "mds-client" /\ SkipsClient(h.type))
             /\ ~(q[k].role = "executor" /\ h.type = "CHECK_PORT_IN_USE")
             /\ h.type \in OncePerHost => FirstOnHost(q, k)
  <2>1. q[k] \in Range(q)
    BY DEF Range
  <2>2. q[k].role # "mds-client"
    BY <1>1, <1>4, <2>1
  <2>3. QED
    BY <1>3, <2>2
<1>5. ASSUME i \in Ids(q) PROVE i \in Targets(h)
  <2>1. PICK k \in DOMAIN q : q[k].id = i
    BY <1>5 DEF Ids
  <2>2. QED
    BY <1>4, <2>1, Zenon DEF Targets
<1>6. Targets(h) \subseteq Ids(q)
  BY Zenon DEF Targets, Ids
<1>7. QED
  BY <1>5, <1>6 DEF h

\* A step that succeeds has done its part for each service.
LEMMA StepMakes ==
  ASSUME ClusterInv, plan # <<>>, cmd.name \in {"deploy", "upgrade"},
         svc' = Apply(Head(plan).type, Targets(Head(plan))), NEW i \in AllIds, RoleOf(i) # "mds-client"
  PROVE  svc'[i] = Made(Head(plan), i, svc[i])
<1>1. svc'[i] = IF i \in Targets(Head(plan)) THEN After(Head(plan).type, svc[i]) ELSE svc[i]
  BY Zenon DEF Apply
<1>2. i \in Targets(Head(plan)) <=> i \in Ids(Head(plan).dcs)
  BY TargetsAre
<1>3. QED
  BY <1>1, <1>2, Zenon DEF Made

\* ... and what it brings up is still brought up.
LEMMA UpKept ==
  ASSUME ClusterInv, plan # <<>>, cmd.name \in {"deploy", "upgrade"},
         svc' = Apply(Head(plan).type, Targets(Head(plan))), NEW i \in AllIds, RoleOf(i) # "mds-client",
         Up(plan, i, svc[i])
  PROVE  Up(Tail(plan), i, svc'[i])
<1> DEFINE X == PlanSteps(Dcs)
<1>1. svc'[i] = Made(Head(plan), i, svc[i])
  BY StepMakes
<1>2. plan \in Seq(X)
  BY RunningFacts DEF Running
<1> HIDE DEF X
<1>3. Up(Tail(plan), i, Made(Head(plan), i, svc[i]))
  BY <1>2, UpStep
<1>4. QED
  BY <1>1, <1>3, Zenon

\* The playbook goes on with the steps Q, which are some of those it had.
LEMMA GoesOn ==
  ASSUME ClusterInv, plan # <<>>, UNCHANGED <<clusterVars, cmd, todo, batch, lists, base, last>>,
         result' \in {"ok", "error"}, plan' \in Seq(PlanSteps(Dcs)),
         \A k \in DOMAIN plan' : \E j \in DOMAIN plan : plan'[k] = plan[j]
  PROVE  StoredOK' /\ ProcessOK' /\ PlanOK' /\ StartsAll' /\ CommittedNeverPanics'
<1>1. Running
  BY RunningFacts
<1>2. Dcs' = Dcs /\ stored' = stored /\ forced' = forced
  BY DEF Dcs, clusterVars
<1>3. StoredOK'
  BY <1>2 DEF ClusterInv, StoredOK
<1>4. ProcessOK'
  <2>1. plan' \in Seq(PlanSteps(Dcs')) /\ batch' \in Seq(Range(Dcs'))
    BY <1>1, <1>2 DEF Running
  <2>2. cmd \in Commands /\ base \subseteq AllIds /\ (cmd.name # "upgrade" => todo = <<>>)
    BY <1>1 DEF ClusterInv, ProcessOK, Running
  <2>3. QED
    BY <1>1, <1>2, <2>1, <2>2 DEF ProcessOK, Running
<1>5. PlanOK'
  <2>1. cmd.name \in {"deploy", "upgrade"} =>
          \A k \in DOMAIN plan : plan[k].dcs = Limit(Configs(batch, plan[k].type), plan[k].type)
    BY DEF ClusterInv, PlanOK
  <2>2. cmd.name \in {"deploy", "upgrade"} =>
          \A k \in DOMAIN plan' : plan'[k].dcs = Limit(Configs(batch, plan'[k].type), plan'[k].type)
    BY <2>1, Zenon
  <2> DEFINE T == CASE cmd.name = "deploy" -> DeployTypes
                   [] cmd.name = "precheck" -> PrecheckTypes
                   [] cmd.name = "upgrade" /\ "mds-client" \in RolesIn(batch) -> UpgradeFsTypes
                   [] OTHER -> UpgradeTypes
  <2>3. \A k \in DOMAIN plan : plan[k].type \in T
    BY Zenon DEF ClusterInv, PlanOK
  <2> HIDE DEF T
  <2>4. \A k \in DOMAIN plan' : plan'[k].type \in T
    BY <2>3, Zenon
  <2>5. cmd' = cmd /\ batch' = batch
    OBVIOUS
  <2>6. QED
    BY <2>2, <2>4, <2>5 DEF PlanOK, T
<1>6. StartsAll' /\ CommittedNeverPanics'
  BY <1>1 DEF Running, StartsAll, Done, CommittedNeverPanics
<1>7. QED
  BY <1>3, <1>4, <1>5, <1>6

\* The steps that remain.
LEMMA TailGoesOn ==
  ASSUME NEW S, NEW P \in Seq(S), P # <<>>
  PROVE  \A k \in DOMAIN Tail(P) : \E j \in DOMAIN P : Tail(P)[k] = P[j]
<1>1. /\ Len(P) \in Nat \ {0} /\ DOMAIN P = 1..Len(P) /\ DOMAIN Tail(P) = 1..(Len(P) - 1)
      /\ \A m \in 1..(Len(P) - 1) : Tail(P)[m] = P[m + 1]
  BY TailLemma
<1>2. \A k \in DOMAIN Tail(P) : k + 1 \in DOMAIN P /\ Tail(P)[k] = P[k + 1]
  BY <1>1
<1>3. QED
  BY <1>2

\* A step that succeeds keeps ClusterInv.
LEMMA StepOkKeepsInv ==
  ASSUME ClusterInv, StepOk
  PROVE  ClusterInv'
<1> DEFINE h == Head(plan)
           X == PlanSteps(Dcs)
<1>1. /\ plan # <<>> /\ svc' = Apply(h.type, Targets(h))
      /\ metaTables' = (metaTables \/ h.type = "CREATE_META_TABLES")
      /\ probes' = ProbesAfter(h.type, Targets(h)) /\ plan' = Tail(plan)
      /\ UNCHANGED <<clusterVars, cmd, todo, batch, lists, base, result, last>>
  BY DEF StepOk
<1>2. Running
  BY <1>1, RunningFacts
<1>3. plan \in Seq(X) /\ Tail(plan) \in Seq(X)
  BY <1>2 DEF Running
<1>4. StoredOK' /\ ProcessOK' /\ PlanOK' /\ StartsAll' /\ CommittedNeverPanics'
  <2> HIDE DEF X
  <2>1. \A k \in DOMAIN plan' : \E j \in DOMAIN plan : plan'[k] = plan[j]
    BY <1>1, <1>3, TailGoesOn
  <2>2. result' \in {"ok", "error"}
    BY <1>1 DEF ClusterInv, ProcessOK
  <2>3. plan' \in Seq(PlanSteps(Dcs))
    BY <1>1, <1>3 DEF X
  <2>4. QED
    BY <1>1, <2>1, <2>2, <2>3, GoesOn
<1>5. Dcs' = Dcs
  BY <1>1 DEF Dcs, clusterVars
<1>6. ASSUME cmd.name \in {"deploy", "upgrade"}, NEW i \in AllIds, RoleOf(i) # "mds-client", Up(plan, i, svc[i])
      PROVE  Up(plan', i, svc'[i])
  BY <1>1, <1>6, UpKept
<1> HIDE DEF X
<1>7. ASSUME cmd.name = "deploy" PROVE DeployOK'
  <2>1. batch = Dcs /\ batch' = batch
    BY <1>1, <1>7 DEF ClusterInv, DeployOK
  <2>2. MdsVersion(stored) # "v1" /\ \A i \in Lasting(Ids(batch)) : Up(plan, i, svc[i])
    BY <1>1, <1>7 DEF ClusterInv, DeployOK
  <2>3. \A i \in Lasting(Ids(batch)) : i \in AllIds /\ RoleOf(i) # "mds-client"
    BY <1>2 DEF Running, Lasting
  <2>4. \A i \in Lasting(Ids(batch)) : Up(plan', i, svc'[i])
    BY <1>6, <1>7, <2>2, <2>3
  <2>5. metaTables' \/ After1(TypesOf(plan'), "CREATE_META_TABLES", {"START_FS_MDS"})
    <3>1. CASE metaTables \/ h.type = "CREATE_META_TABLES"
      BY <1>1, <3>1
    <3>2. CASE ~metaTables /\ h.type # "CREATE_META_TABLES"
      <4>1. After1(TypesOf(plan), "CREATE_META_TABLES", {"START_FS_MDS"})
        BY <1>7, <3>2 DEF ClusterInv, DeployOK
      <4>2. QED
        BY <1>1, <1>3, <3>2, <4>1, After1Step
    <3>3. QED
      BY <3>1, <3>2
  <2>6. \/ \A i \in Lasting(Ids(batch)) : <<"http", i>> \notin probes'
        \/ After1(TypesOf(plan'), "CLEAN_PRECHECK_ENVIRONMENT", Starts)
    <3>0. h.type \in DeployTypes
      BY <1>1, <1>7, HeadType
    <3>1. h.type \notin {"CHECK_PORT_IN_USE", "START_HTTP_SERVER", "POST_CLEAN"}
      BY <3>0 DEF DeployTypes, Starts
    <3>2. CASE h.type = "CLEAN_PRECHECK_ENVIRONMENT"
      <4>1. probes' = CleanProbes(Targets(h))
        BY <1>1, <3>2 DEF ProbesAfter
      <4>2. h.dcs = batch
        <5>1. FilterRole("CLEAN_PRECHECK_ENVIRONMENT") = {} /\ "CLEAN_PRECHECK_ENVIRONMENT" \notin Limited
          BY DEF FilterRole, DEPLOY_FILTER_ROLE, Limited
        <5>2. h.dcs = Limit(Configs(batch, h.type), h.type)
          BY <1>1, <1>7, HeadType
        <5>3. QED
          BY <3>2, <5>1, <5>2 DEF Limit, Configs
      <4>3. ASSUME NEW i \in Lasting(Ids(batch)) PROVE <<"http", i>> \notin probes'
        <5>1. i \in Targets(h)
          BY <1>1, <1>7, <2>3, <4>2, TargetsAre DEF Lasting
        <5>2. QED
          BY <4>1, <5>1 DEF CleanProbes
      <4>4. QED
        BY <4>3
    <3>3. CASE h.type # "CLEAN_PRECHECK_ENVIRONMENT"
      <4>1. probes' = probes
        BY <1>1, <3>1, <3>3 DEF ProbesAfter
      <4>2. CASE \A i \in Lasting(Ids(batch)) : <<"http", i>> \notin probes
        BY <4>1, <4>2
      <4>3. CASE After1(TypesOf(plan), "CLEAN_PRECHECK_ENVIRONMENT", Starts)
        BY <1>1, <1>3, <3>3, <4>3, After1Step
      <4>4. QED
        BY <1>7, <4>2, <4>3 DEF ClusterInv, DeployOK
    <3>4. QED
      BY <3>2, <3>3
  <2>7. stored' = stored
    BY <1>1 DEF clusterVars
  <2>8. IF MdsVersion(stored') = "v1" THEN plan' = <<>>
        ELSE \A i \in Lasting(Ids(batch')) : Up(plan', i, svc'[i])
    BY <2>1, <2>2, <2>4, <2>7
  <2>9. batch' = Dcs'
    BY <1>5, <2>1
  <2>10. \/ \A i \in Lasting(Ids(batch')) : <<"http", i>> \notin probes'
         \/ After1(TypesOf(plan'), "CLEAN_PRECHECK_ENVIRONMENT", Starts)
    BY <2>1, <2>6
  <2>11. QED
    BY <2>5, <2>8, <2>9, <2>10, Zenon DEF DeployOK
<1>8. ASSUME cmd.name = "upgrade" PROVE UpgradeOK'
  <2>0. cmd' = cmd /\ todo' = todo /\ batch' = batch /\ lists' = lists /\ base' = base
    BY <1>1
  <2>a. base \subseteq AllIds /\ Ids(batch) \subseteq AllIds
    BY <1>2 DEF ClusterInv, ProcessOK, Running
  <2>1. \A i \in Lasting(base) \cup Lasting(Ids(batch)) : Up(plan, i, svc[i]) /\ i \in AllIds /\ RoleOf(i) # "mds-client"
    BY <1>8, <2>a DEF ClusterInv, UpgradeOK, Lasting
  <2>2. \A i \in Lasting(base) \cup Lasting(Ids(batch)) : Up(plan', i, svc'[i])
    BY <1>6, <1>8, <2>1
  <2>3. ASSUME NEW i \in base \ Lasting(base) PROVE svc'[i] = "running"
    <3>1. svc[i] = "running" /\ i \in AllIds /\ RoleOf(i) = "mds-client"
      BY <1>8, <2>a DEF ClusterInv, UpgradeOK, Lasting
    <3>2. svc'[i] = IF i \in Targets(h) THEN After(h.type, svc[i]) ELSE svc[i]
      BY <1>1, <3>1, Zenon DEF Apply
    <3>3. CASE i \in Targets(h)
      <4>1. PICK k \in DOMAIN h.dcs : h.dcs[k].id = i /\ ~(h.dcs[k].role = "mds-client" /\ SkipsClient(h.type))
        BY <3>3, Zenon DEF Targets
      <4>2. h.dcs[k] \in Range(h.dcs)
        BY DEF Range
      <4>3. h.dcs[k].role = "mds-client"
        BY <1>2, <3>1, <4>1, <4>2 DEF Running
      <4>4. h.type = "PULL_IMAGE"
        BY <1>8, <4>1, <4>3 DEF SkipsClient
      <4>5. After(h.type, svc[i]) = svc[i]
        BY <4>4 DEF After, Starts
      <4>6. QED
        BY <3>1, <3>2, <4>5
    <3>4. QED
      BY <3>1, <3>2, <3>3
  <2>4. ASSUME NEW i \in Lasting(Ids(Filter(Dcs, cmd)))
        PROVE  Up(plan', i, svc'[i]) \/ \E n \in DOMAIN todo : i \in Ids(todo[n])
    <3>1. i \in AllIds /\ RoleOf(i) # "mds-client"
      <4> DEFINE S == Range(Dcs)
      <4>1. Dcs \in Seq(S)
        BY <1>2 DEF Running, IsDcs
      <4> HIDE DEF S
      <4>2. Range(Filter(Dcs, cmd)) \subseteq Range(Dcs)
        BY <4>1, FilterLemma
      <4>3. i \in Ids(Dcs)
        BY <4>2, RangeFacts DEF Lasting
      <4>4. QED
        BY <1>2, <4>3 DEF Running, Lasting
    <3>2. Up(plan, i, svc[i]) \/ \E n \in DOMAIN todo : i \in Ids(todo[n])
      BY <1>8 DEF ClusterInv, UpgradeOK
    <3>3. QED
      BY <1>6, <1>8, <3>1, <3>2
  <2>5. /\ todo \in Seq(Seq(Range(Dcs))) /\ ListsReady(lists)
        /\ ~cmd.force => Len(batch) <= 1 /\ \A n \in DOMAIN todo : Len(todo[n]) = 1
    BY <1>8 DEF ClusterInv, UpgradeOK
  <2>6. todo' \in Seq(Seq(Range(Dcs'))) /\ ListsReady(lists')
    BY <1>5, <2>0, <2>5
  <2>7. ~cmd'.force => Len(batch') <= 1 /\ \A n \in DOMAIN todo' : Len(todo'[n]) = 1
    BY <2>0, <2>5
  <2>8. \A i \in Lasting(base') \cup Lasting(Ids(batch')) : Up(plan', i, svc'[i])
    BY <2>0, <2>2
  <2>9. \A i \in base' \ Lasting(base') : svc'[i] = "running"
    BY <2>0, <2>3
  <2>10. \A i \in Lasting(Ids(Filter(Dcs', cmd'))) :
           Up(plan', i, svc'[i]) \/ \E n \in DOMAIN todo' : i \in Ids(todo'[n])
    BY <1>5, <2>0, <2>4
  <2>11. QED
    BY <2>6, <2>7, <2>8, <2>9, <2>10, Zenon DEF UpgradeOK
<1>9. DeployOK' /\ UpgradeOK'
  <2>1. cmd' = cmd
    BY <1>1
  <2>2. cmd.name # "deploy" => DeployOK'
    BY <2>1, Zenon DEF DeployOK
  <2>3. cmd.name # "upgrade" => UpgradeOK'
    BY <2>1, Zenon DEF UpgradeOK
  <2>4. QED
    BY <1>7, <1>8, <2>2, <2>3, Zenon
<1>10. QED
  BY <1>4, <1>9, Zenon DEF ClusterInv

\* The last of a sequence, as a sequence.
LEMMA LastOne ==
  ASSUME NEW S, NEW P \in Seq(S), P # <<>>
  PROVE  LET N == Len(P) IN
         /\ N \in DOMAIN P /\ SubSeq(P, N, N) \in Seq(S)
         /\ DOMAIN SubSeq(P, N, N) = 1..1 /\ SubSeq(P, N, N)[1] = P[N]
<1> DEFINE N == Len(P)
<1>1. N \in Nat \ {0} /\ DOMAIN P = 1..N
  BY EmptySeq, LenProperties
<1>2. N \in DOMAIN P /\ P[N] \in S
  BY <1>1, ElementOfSeq
<1> HIDE DEF N
<1>3. N \in Int /\ \A i \in N..N : P[i] \in S
  BY <1>1, <1>2
<1> DEFINE q == SubSeq(P, N, N)
<1>4. q \in Seq(S)
  BY <1>3, SubSeqProperties
<1>5. Len(q) = IF N <= N THEN N - N + 1 ELSE 0
  BY <1>3, SubSeqProperties
<1>6. \A i \in 1..(N - N + 1) : q[i] = P[N + i - 1]
  BY <1>3, SubSeqProperties
<1> HIDE DEF q
<1>7. Len(q) = 1 /\ q[1] = P[N]
  BY <1>1, <1>5, <1>6
<1>8. DOMAIN q = 1..1
  BY <1>4, <1>7, LenProperties
<1>9. QED
  BY <1>2, <1>4, <1>7, <1>8 DEF q, N

\* A step that fails ends a deploy or an upgrade; a precheck goes on with its
\* next step or its last.
LEMMA FailedKeepsInv ==
  ASSUME ClusterInv, plan # <<>>, Failed
  PROVE  ClusterInv'
<1>1. CASE cmd.name # "precheck"
  <2>1. Return("error", "step")
    BY <1>1 DEF Failed
  <2>2. QED
    BY <2>1, ReturnUnsuccessful
<1>2. CASE cmd.name = "precheck"
  <2> DEFINE X == PlanSteps(Dcs)
             n == Len(plan)
  <2>1. /\ UNCHANGED <<clusterVars, cmd, todo, batch, lists, base, last>>
        /\ \/ plan' = Tail(plan) /\ result' = result
           \/ plan' = SubSeq(plan, n, n) /\ result' = "error"
    BY <1>2 DEF Failed
  <2>2. plan \in Seq(X) /\ result \in {"ok", "error"}
    BY RunningFacts DEF Running, ClusterInv, ProcessOK
  <2>3. result' \in {"ok", "error"}
    BY <2>1, <2>2
  <2> HIDE DEF X
  <2>4. plan' \in Seq(X) /\ \A k \in DOMAIN plan' : \E j \in DOMAIN plan : plan'[k] = plan[j]
    <3>1. CASE plan' = Tail(plan)
      <4>1. Tail(plan) \in Seq(X)
        BY <2>2, HeadTailProperties
      <4>2. QED
        BY <2>2, <3>1, <4>1, TailGoesOn
    <3>2. CASE plan' = SubSeq(plan, n, n)
      <4>1. n \in DOMAIN plan /\ plan' \in Seq(X) /\ DOMAIN plan' = 1..1 /\ plan'[1] = plan[n]
        BY <2>2, <3>2, LastOne
      <4>2. \A k \in DOMAIN plan' : k = 1
        BY <4>1
      <4>3. QED
        BY <4>1, <4>2, Zenon
    <3>3. QED
      BY <2>1, <3>1, <3>2
  <2>5. plan' \in Seq(PlanSteps(Dcs))
    BY <2>4 DEF X
  <2>6. StoredOK' /\ ProcessOK' /\ PlanOK' /\ StartsAll' /\ CommittedNeverPanics'
    BY <2>1, <2>3, <2>4, <2>5, GoesOn
  <2>7. DeployOK' /\ UpgradeOK'
    <3>1. cmd'.name = "precheck"
      BY <1>2, <2>1
    <3>2. QED
      BY <3>1 DEF DeployOK, UpgradeOK
  <2>8. QED
    BY <2>6, <2>7, Zenon DEF ClusterInv
<1>3. QED
  BY <1>1, <1>2

\* So does one that fails.
LEMMA FailuresKeepInv ==
  ASSUME ClusterInv, TopologyRejected \/ \E i \in AllIds : StepFails(i)
  PROVE  ClusterInv'
<1>1. CASE TopologyRejected
  <2>1. plan # <<>>
    BY <1>1 DEF TopologyRejected
  <2>2. Return("panic", "precheck") \/ Failed
    BY <1>1 DEF TopologyRejected
  <2>3. CASE Return("panic", "precheck")
    BY <2>3, ReturnUnsuccessful
  <2>4. QED
    BY <2>1, <2>2, <2>3, FailedKeepsInv
<1>2. CASE \E i \in AllIds : StepFails(i)
  <2>1. plan # <<>> /\ Failed
    BY <1>2 DEF StepFails
  <2>2. QED
    BY <2>1, FailedKeepsInv
<1>3. QED
  BY <1>1, <1>2

\* And so does a step that changes nothing.
LEMMA StutterKeepsInv ==
  ASSUME ClusterInv, UNCHANGED allVars
  PROVE  ClusterInv'
<1> USE DEF allVars
<1>1. Dcs' = Dcs
  BY DEF Dcs
<1>2. StoredOK' /\ ProcessOK' /\ PlanOK'
  BY <1>1 DEF ClusterInv, StoredOK, ProcessOK, PlanOK
<1>3. DeployOK'
  BY <1>1 DEF ClusterInv, DeployOK
<1>4. UpgradeOK'
  BY <1>1 DEF ClusterInv, UpgradeOK
<1>5. StartsAll' /\ CommittedNeverPanics'
  BY <1>1 DEF ClusterInv, StartsAll, CommittedNeverPanics, Done
<1>6. QED
  BY <1>2, <1>3, <1>4, <1>5 DEF ClusterInv

\* Every step of a command keeps ClusterInv.
LEMMA ClusterInductive ==
  ASSUME ClusterInv, [ClusterNext]_allVars
  PROVE  ClusterInv'
<1>1. ASSUME NEW c \in Commands,
             \/ CommitOldInvalid(c)
             \/ \E t \in Topologies : CommitRefused(c, t) \/ CommitStored(c, t)
             \/ PrecheckRefused(c) \/ BeginPrecheck(c)
             \/ DeployRefused(c) \/ BeginDeploy(c)
             \/ UpgradeRefused(c) \/ BeginUpgrade(c)
      PROVE  ClusterInv'
  <2>1. CASE CommitOldInvalid(c)
    <3>1. stored \in Topologies
      BY <2>1 DEF CommitOldInvalid, OldTopology, ClusterInv, StoredOK
    <3>2. QED
      BY <2>1, <3>1, CommitsKeepInv
  <2>2. CASE \E t \in Topologies : CommitRefused(c, t) \/ CommitStored(c, t)
    BY <2>2, CommitsKeepInv
  <2>3. CASE PrecheckRefused(c) \/ DeployRefused(c) \/ UpgradeRefused(c)
    BY <2>3, RefusalsKeepInv
  <2>4. CASE BeginPrecheck(c)
    BY <2>4, BeginPrecheckKeepsInv
  <2>5. CASE BeginDeploy(c)
    BY <2>5, BeginDeployKeepsInv
  <2>6. CASE BeginUpgrade(c)
    BY <2>6, BeginUpgradeKeepsInv
  <2>7. QED
    BY <1>1, <2>1, <2>2, <2>3, <2>4, <2>5, <2>6
<1>2. CASE NextBatch
  BY <1>2, NextBatchKeepsInv
<1>3. CASE Decline \/ Finish \/ Kill
  BY <1>3, EndsKeepInv
<1>4. CASE StepOk
  BY <1>4, StepOkKeepsInv
<1>5. CASE TopologyRejected \/ \E i \in AllIds : StepFails(i)
  BY <1>5, FailuresKeepInv
<1>6. CASE NoMoreCommands \/ UNCHANGED allVars
  BY <1>6, StutterKeepsInv DEF NoMoreCommands
<1>7. QED
  BY <1>1, <1>2, <1>3, <1>4, <1>5, <1>6 DEF ClusterNext

\* ClusterInv is an invariant of Cluster.
LEMMA ClusterInvariant == ClusterSpec => []ClusterInv
<1>1. ClusterInit => ClusterInv
  BY InitInv
<1>2. ClusterInv /\ [ClusterNext]_allVars => ClusterInv'
  BY ClusterInductive
<1>3. QED
  BY <1>1, <1>2, PTL DEF ClusterSpec

\* Behind what `config commit` has checked, deploy -k and upgrade never panic
\* (CommittedNeverPanics): Limit finds a service for each step it cuts to one
\* (deploy.go:322) and the mds-client an mds to borrow from, unless the topology
\* was committed with --force or the panic is that of the precheck.
THEOREM NoPanicAfterCommit == ClusterSpec => []CommittedNeverPanics
<1>1. ClusterInv => CommittedNeverPanics
  BY Zenon DEF ClusterInv
<1>2. QED
  BY <1>1, ClusterInvariant, PTL

\* "successfully deployed" is true (StartsAll): whatever the topology, the kind and
\* the options, a deploy that ends well has started every service of it, and an
\* upgrade that ends well has left none of its services stopped.
THEOREM SuccessMeansRunning == ClusterSpec => []StartsAll
<1>1. ClusterInv => StartsAll
  BY Zenon DEF ClusterInv
<1>2. QED
  BY <1>1, ClusterInvariant, PTL

\* A step that starts a service has it from the batch, and is for its role or for all.
LEMMA StartedFrom ==
  ASSUME ClusterInv, cmd.name \in {"deploy", "upgrade"},
         NEW k \in DOMAIN plan, plan[k].type \in Starts, NEW i \in Ids(plan[k].dcs)
  PROVE  /\ i \in Ids(batch)
         /\ FilterRole(plan[k].type) # {} => RoleOf(i) \in FilterRole(plan[k].type)
<1> DEFINE D == Range(Dcs)
           type == plan[k].type
<1>1. cmd # NoCommand
  BY DEF NoCommand
<1>2. batch \in Seq(D) /\ stored \in Topologies /\ ParseTopology(stored) = "ok"
  BY <1>1 DEF ClusterInv, ProcessOK
<1>3. plan[k].dcs = Limit(Configs(batch, type), type)
  BY DEF ClusterInv, PlanOK
<1>4. type \notin Limited
  BY DEF Starts, Limited
<1>5. IsDcs(stored, Dcs)
  BY <1>2, DcsLemma DEF Dcs
<1> HIDE DEF type
<1>6. Range(batch) \subseteq D /\ Range(Configs(batch, type)) = ForStep(batch, type)
  <2> HIDE DEF D
  <2>1. QED
    BY <1>2, RangeOfSeq, ConfigsLemma
<1>7. Range(plan[k].dcs) = ForStep(batch, type)
  BY <1>3, <1>4, <1>6 DEF Limit
<1>8. PICK dc \in ForStep(batch, type) : dc.id = i
  BY <1>7, RangeFacts
<1>9. dc \in Range(batch) /\ (FilterRole(type) # {} => dc.role \in FilterRole(type))
  BY <1>8 DEF ForStep
<1>10. dc.role = RoleOf(dc.id)
  BY <1>5, <1>6, <1>9 DEF IsDcs
<1>11. QED
  BY <1>8, <1>9, <1>10, RangeFacts DEF type

\* A sequence of at most one config has at most one id.
LEMMA AtMostOneId ==
  ASSUME NEW S, NEW dcs \in Seq(S), Len(dcs) <= 1, NEW T, T \subseteq Ids(dcs)
  PROVE  Cardinality(T) <= 1
<1>1. Len(dcs) \in Nat /\ DOMAIN dcs = 1..Len(dcs)
  BY LenProperties
<1>2. T \subseteq {dcs[1].id}
  BY <1>1 DEF Ids
<1>3. CASE T = {}
  BY <1>3, FS_EmptySet
<1>4. CASE T = {dcs[1].id}
  <2>1. Cardinality({dcs[1].id}) = 1
    BY FS_Singleton, Zenon
  <2>2. QED
    BY <1>4, <2>1
<1>5. QED
  BY <1>2, <1>3, <1>4

\* An upgrade one by one takes down one service at a time (OneByOne), of any number
\* of services and wherever it ends: what ran when it began and does not run is to be
\* started by a step that is left of the playbook of the one service.
THEOREM UpgradesOneByOne == ClusterSpec => []OneByOne
<1>1. ASSUME ClusterInv, cmd.name = "upgrade", ~cmd.force
      PROVE  Cardinality({i \in base : svc[i] # "running"}) <= 1
  <2> DEFINE T == {i \in base : svc[i] # "running"}
             D == Range(Dcs)
  <2>1. cmd # NoCommand
    BY <1>1 DEF NoCommand
  <2>2. batch \in Seq(D)
    BY <1>1, <2>1 DEF ClusterInv, ProcessOK
  <2>3. Len(batch) <= 1
    BY <1>1 DEF ClusterInv, UpgradeOK
  <2>4. ASSUME NEW i \in T PROVE i \in Ids(batch)
    <3>1. i \in Lasting(base)
      BY <1>1 DEF ClusterInv, UpgradeOK
    <3>2. Up(plan, i, svc[i])
      BY <1>1, <3>1 DEF ClusterInv, UpgradeOK
    <3>3. PICK k \in DOMAIN plan : Hit(plan[k], i, Starts)
      BY <3>2, Zenon DEF Up
    <3>4. QED
      BY <1>1, <3>3, StartedFrom DEF Hit
  <2>5. T \subseteq Ids(batch)
    BY <2>4
  <2> HIDE DEF T, D
  <2>6. Cardinality(T) <= 1
    BY <2>2, <2>3, <2>5, AtMostOneId
  <2>7. QED
    BY <2>6 DEF T
<1>2. ClusterInv => OneByOne
  BY <1>1 DEF OneByOne
<1>3. QED
  BY <1>2, ClusterInvariant, PTL

\* Only the steps of a playbook touch the services.
LEMMA OnlyStepsTouch ==
  ASSUME [ClusterNext]_allVars
  PROVE  \/ svc' = svc
         \/ plan # <<>> /\ \E ids \in SUBSET Targets(Head(plan)) : svc' = Apply(Head(plan).type, ids)
<1>1. CASE StepOk
  BY <1>1 DEF StepOk
<1>2. CASE \E i \in AllIds : StepFails(i)
  BY <1>2 DEF StepFails
<1>3. CASE NextBatch \/ Decline \/ Finish \/ Kill \/ TopologyRejected
  BY <1>3 DEF NextBatch, Decline, Finish, Kill, TopologyRejected, serviceVars
<1>4. CASE NoMoreCommands \/ UNCHANGED allVars
  BY <1>4 DEF NoMoreCommands, allVars
<1>5. ASSUME NEW c \in Commands,
             \/ CommitOldInvalid(c)
             \/ \E t \in Topologies : CommitRefused(c, t) \/ CommitStored(c, t)
             \/ PrecheckRefused(c) \/ DeployRefused(c) \/ UpgradeRefused(c)
      PROVE  svc' = svc
  BY <1>5 DEF CommitOldInvalid, CommitRefused, CommitStored, PrecheckRefused, DeployRefused,
              UpgradeRefused, Refuse, serviceVars
<1>6. ASSUME NEW c \in Commands, BeginPrecheck(c) \/ BeginDeploy(c) \/ BeginUpgrade(c)
      PROVE  svc' = svc
  BY <1>6 DEF BeginPrecheck, BeginDeploy, BeginUpgrade, Begin, serviceVars
<1>7. QED
  BY <1>1, <1>2, <1>3, <1>4, <1>5, <1>6 DEF ClusterNext

\* The steps that start services of one role only.
LEMMA StartsOneRole ==
  ASSUME NEW type \in Starts \ {"START_SERVICE"}
  PROVE  /\ \E r \in Roles : FilterRole(type) = {r}
         /\ FilterRole(type) = {"mds"} => type = "START_FS_MDS"
BY DEF Starts, FilterRole, DEPLOY_FILTER_ROLE, Roles, Sections

\* A deploy, and an upgrade with an mds-client, start services in order, an mds
\* after the meta tables, and a service where no probe has its ports (StartOrder).
LEMMA StartsInOrder ==
  ASSUME ClusterInv, [ClusterNext]_allVars, NEW i \in AllIds, svc[i] # "running", svc'[i] = "running",
         cmd.name = "deploy" \/ "mds-client" \in RolesIn(batch)
  PROVE  /\ \A j \in Ids(batch) : <<RoleOf(j), RoleOf(i)>> \in StartsBefore => svc[j] = "running"
         /\ (cmd.name = "deploy" /\ RoleOf(i) = "mds") => metaTables
         /\ (cmd.name = "deploy" /\ RoleOf(i) # "mds-client") => <<"http", i>> \notin probes
<1> DEFINE h == Head(plan)
           X == PlanSteps(Dcs)
<1>1. svc' # svc
  OBVIOUS
<1>2. plan # <<>> /\ \E ids \in SUBSET Targets(h) : svc' = Apply(h.type, ids)
  BY <1>1, OnlyStepsTouch
<1>3. PICK ids \in SUBSET Targets(h) : svc' = Apply(h.type, ids)
  BY <1>2
<1>4. svc'[i] = IF i \in ids THEN After(h.type, svc[i]) ELSE svc[i]
  BY <1>3, Zenon DEF Apply
<1>5. i \in Targets(h) /\ After(h.type, svc[i]) = "running"
  BY <1>3, <1>4
<1>6. h.type \in Starts
  BY <1>5 DEF After
<1>7. plan \in Seq(X) /\ cmd.name \in {"deploy", "upgrade", "precheck"}
  BY <1>2, RunningFacts DEF Running
<1>8. 1 \in DOMAIN plan /\ plan[1] = h
  <2> HIDE DEF X
  <2>1. QED
    BY <1>2, <1>7, TailLemma
<1>9. /\ cmd.name \in {"deploy", "upgrade"}
      /\ h.type \in Starts \ {"START_SERVICE"}
  BY <1>2, <1>6, <1>7, HeadType DEF PrecheckTypes, Starts, DeployTypes, UpgradeFsTypes
<1>10. PICK r \in Roles : FilterRole(h.type) = {r}
  BY <1>9, StartsOneRole
<1>11. i \in Ids(plan[1].dcs)
  BY <1>5, <1>8, Zenon DEF Targets, Ids
<1>12. i \in Ids(batch) /\ RoleOf(i) = r
  BY <1>6, <1>8, <1>9, <1>10, <1>11, StartedFrom
<1>13. ASSUME NEW j \in Ids(batch), <<RoleOf(j), RoleOf(i)>> \in StartsBefore
       PROVE  svc[j] = "running"
  <2>1. RoleOf(j) # "mds-client" /\ RoleOf(j) # r
    BY <1>12, <1>13 DEF StartsBefore
  <2>2. j \in Lasting(Ids(batch))
    BY <1>13, <2>1 DEF Lasting
  <2>3. Up(plan, j, svc[j])
    BY <1>2, <1>9, <2>2 DEF ClusterInv, DeployOK, UpgradeOK
  <2>4. StartsLater(plan[1].type, RoleOf(j))
    BY <1>6, <1>8, <1>10, <1>12, <1>13 DEF StartsLater
  <2>5. ASSUME NEW k \in DOMAIN plan, Hit(plan[k], j, Starts),
               \A m \in 1..(k - 1) : ~StartsLater(plan[m].type, RoleOf(j))
        PROVE  FALSE
    <3>1. k \in Nat \ {0}
      <4> HIDE DEF X
      <4>1. DOMAIN plan = 1..Len(plan) /\ Len(plan) \in Nat
        BY <1>7, LenProperties
      <4>2. QED
        BY <4>1
    <3>2. 1 \notin 1..(k - 1)
      BY <2>4, <2>5
    <3>3. k = 1
      BY <3>1, <3>2
    <3>4. RoleOf(j) = r
      BY <1>6, <1>8, <1>9, <1>10, <2>5, <3>3, StartedFrom DEF Hit
    <3>5. QED
      BY <2>1, <3>4
  <2>6. QED
    BY <2>3, <2>5, Zenon DEF Up
<1>14. ASSUME cmd.name = "deploy", RoleOf(i) = "mds" PROVE metaTables
  <2>1. h.type = "START_FS_MDS"
    BY <1>9, <1>10, <1>12, <1>14, StartsOneRole
  <2>2. metaTables \/ After1(TypesOf(plan), "CREATE_META_TABLES", {"START_FS_MDS"})
    BY <1>14 DEF ClusterInv, DeployOK
  <2> HIDE DEF X
  <2>3. ~After1(TypesOf(plan), "CREATE_META_TABLES", {"START_FS_MDS"})
    BY <1>2, <1>7, <2>1, After1Step
  <2>4. QED
    BY <2>2, <2>3
<1>15. ASSUME cmd.name = "deploy", RoleOf(i) # "mds-client" PROVE <<"http", i>> \notin probes
  <2>1. i \in Lasting(Ids(batch))
    BY <1>12, <1>15 DEF Lasting
  <2>2. \/ \A j \in Lasting(Ids(batch)) : <<"http", j>> \notin probes
        \/ After1(TypesOf(plan), "CLEAN_PRECHECK_ENVIRONMENT", Starts)
    BY <1>15 DEF ClusterInv, DeployOK
  <2> HIDE DEF X
  <2>3. ~After1(TypesOf(plan), "CLEAN_PRECHECK_ENVIRONMENT", Starts)
    BY <1>2, <1>6, <1>7, After1Step
  <2>4. QED
    BY <2>1, <2>2, <2>3
<1>16. QED
  BY <1>13, <1>14, <1>15

\* Every start of a service keeps the order (StartOrder): coordinators before stores,
\* both before the mds, stores before executors; an mds of a deploy after the meta
\* tables, and no service next to a probe that has its ports.
THEOREM StartsAreOrdered == ClusterSpec => StartOrder
<1> DEFINE Ordered ==
      \A i \in AllIds :
       (svc[i] # "running" /\ svc'[i] = "running" /\ (cmd.name = "deploy" \/ "mds-client" \in RolesIn(batch))) =>
         /\ \A j \in Ids(batch) : <<RoleOf(j), RoleOf(i)>> \in StartsBefore => svc[j] = "running"
         /\ (cmd.name = "deploy" /\ RoleOf(i) = "mds") => metaTables
         /\ (cmd.name = "deploy" /\ RoleOf(i) # "mds-client") => <<"http", i>> \notin probes
<1>1. ClusterInv /\ [ClusterNext]_allVars => [Ordered]_allVars
  BY StartsInOrder
<1>2. QED
  BY <1>1, ClusterInvariant, PTL DEF ClusterSpec, StartOrder

=============================================================================
