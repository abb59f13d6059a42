------------------------- MODULE MdsCommandsProofs -------------------------
(***************************************************************************)
(* Proofs about MdsCommands, for any number of processes, retries, files   *)
(* and commands, and any width of the limits: what a command reports was   *)
(* done, the stored usage of a directory is exact unless a measure was     *)
(* overtaken by a write, and limits are the ones asked for.                *)
(*                                                                         *)
(* A command is a plan that its process works off from the front.  The     *)
(* inductive invariant says what the plan still holds (PlanInv): a write   *)
(* that the command promises is ahead or was executed, and an rpc that     *)
(* needs the router, or the measured usage, comes after the step that      *)
(* provides it or has it already.                                          *)
(***************************************************************************)
EXTENDS MdsCommands, SequenceTheorems, TLAPS

Elems(q) == {q[n] : n \in 1..Len(q)}

\* Every element of Y in q comes after an x.
Before(q, Y, x) == \A n \in 1..Len(q) : q[n] \in Y => \E k \in 1..(n - 1) : q[k] = x

LocalStep == {"storage", "confirm", "quota_value", "router", "measure_dir", "measure_root",
              "exists", "compare", "paths"}
PlanStep == LocalStep \cup Rpcs
Writes == {"CreateFsRpc", "DeleteFsRpc", "MkDirRpc", "SetDirQuotaRpc", "SetFsQuotaRpc",
           "DeleteDirQuotaRpc", "ReWeightMemberRpc", "LeaveCacheMemberRpc",
           "UnlockCacheMemberRpc", "DeleteCacheMemberRpc"}
Checks == {"quota_check", "config_check"}
Repairs == {"quota_repair", "config_repair"}
RoutedRpcs == {"GetDentryRpc", "ListDentryRpc", "MkDirRpc", "GetDirQuotaRpc", "DeleteDirQuotaRpc",
               "SetDirQuotaRpc"}
Quota == [max : Int, used : Int]
Outcomes == {"none", "running", "success", "error", "printed", "panic"}

TypeOK ==
  /\ DOMAIN mds = {"fs", "dirs", "quota", "member"}
  /\ mds.quota \in [Inode -> Quota \cup {None}]
  /\ inside \in [Inode -> Nat]
  /\ listed \in SUBSET Mds
  /\ cmd \in [Proc -> Cmd \cup {None}]
  /\ todo \in [Proc -> Seq(PlanStep)]
  /\ left \in [Proc -> Nat]
  /\ scan \in [Proc -> Nat \cup {-1}]
  /\ DOMAIN seen = Proc
  /\ routed \in [Proc -> SUBSET Inode]
  /\ DOMAIN executed = Proc
  /\ outcome \in [Proc -> Outcomes]
  /\ started \in Nat
  /\ stale \in [Proc -> BOOLEAN]
  /\ asked \in [Inode -> Nat]
  /\ tainted \in BOOLEAN

\* A process has a command until it exits, and a plan while it runs.
RunInv(p) ==
  /\ cmd[p] = None <=> outcome[p] = "none"
  /\ outcome[p] # "running" => todo[p] = <<>>

\* What is left of the plan of p, and what it has got for it.
PlanInv(p) ==
  /\ \A w \in Writes \cap Elems(Plan(cmd[p])) : w \in Elems(todo[p]) \/ Method(w) \in executed[p]
  /\ "compare" \in Elems(todo[p]) => cmd[p].name \in Checks \cup Repairs
  /\ (Mds \subseteq listed => routed[p] = Inode) \/ Before(todo[p], RoutedRpcs, "router")
  /\ scan[p] # -1 \/ Before(todo[p], {"SetDirQuotaRpc"}, "measure_dir")

\* A directory and the root count the same files, and a measure that no write has
\* overtaken is the usage of both.
MeasureInv ==
  /\ inside[Dir] = inside[ROOTINODEID]
  /\ \A p \in Proc : scan[p] # -1 =>
       scan[p] > 0 /\ (~stale[p] => scan[p] = inside[Dir] + 1)

ProcInv == \A p \in Proc : RunInv(p) /\ (outcome[p] = "running" => PlanInv(p))

IInv == TypeOK /\ ProcInv /\ MeasureInv /\ ReportTruthful /\ UsageExact /\ LimitAsAsked

-----------------------------------------------------------------------------
(* Sequences, commands and plans.                                          *)

\* Working off a sequence from the front.
LEMMA FrontLemma ==
  ASSUME NEW S, NEW q \in Seq(S), q # <<>>
  PROVE  /\ Tail(q) \in Seq(S) /\ Head(q) \in S
         /\ Elems(q) = {Head(q)} \cup Elems(Tail(q))
<1>1. /\ Len(q) \in Nat \ {0} /\ Head(q) = q[1] /\ Tail(q) \in Seq(S) /\ Len(Tail(q)) = Len(q) - 1
      /\ \A i \in 1..(Len(q) - 1) : Tail(q)[i] = q[i + 1]
      /\ q[1] \in S
  BY EmptySeq, HeadTailProperties, ElementOfSeq
<1>2. Elems(q) = {Head(q)} \cup Elems(Tail(q))
  <2>1. ASSUME NEW n \in 1..Len(q) PROVE q[n] \in {Head(q)} \cup Elems(Tail(q))
    <3>1. CASE n = 1
      BY <1>1, <3>1
    <3>2. CASE n # 1
      <4>1. n - 1 \in 1..(Len(q) - 1) /\ Tail(q)[n - 1] = q[n]
        BY <1>1, <3>2
      <4>2. QED
        BY <1>1, <4>1 DEF Elems
    <3>3. QED
      BY <3>1, <3>2
  <2>2. ASSUME NEW n \in 1..Len(Tail(q)) PROVE Tail(q)[n] \in Elems(q)
    <3>1. n + 1 \in 1..Len(q) /\ Tail(q)[n] = q[n + 1]
      BY <1>1
    <3>2. QED
      BY <3>1 DEF Elems
  <2>3. q[1] \in Elems(q)
    BY <1>1 DEF Elems
  <2>4. Elems(q) \subseteq {Head(q)} \cup Elems(Tail(q))
    BY <2>1 DEF Elems
  <2>5. Elems(Tail(q)) \subseteq Elems(q)
    BY <2>2 DEF Elems
  <2>6. QED
    BY <1>1, <2>3, <2>4, <2>5
<1>3. QED
  BY <1>1, <1>2

\* The front of a sequence comes after nothing, and its removal leaves the order.
LEMMA BeforeLemma ==
  ASSUME NEW S, NEW q \in Seq(S), q # <<>>, NEW Y, NEW x, Before(q, Y, x)
  PROVE  Head(q) \notin Y /\ (Head(q) # x => Before(Tail(q), Y, x))
<1>1. /\ Len(q) \in Nat \ {0} /\ Head(q) = q[1] /\ Len(Tail(q)) = Len(q) - 1
      /\ \A i \in 1..(Len(q) - 1) : Tail(q)[i] = q[i + 1]
  BY EmptySeq, HeadTailProperties
<1>2. Head(q) \notin Y
  BY <1>1 DEF Before
<1>3. ASSUME Head(q) # x, NEW n \in 1..Len(Tail(q)), Tail(q)[n] \in Y
      PROVE  \E k \in 1..(n - 1) : Tail(q)[k] = x
  <2>1. n + 1 \in 1..Len(q) /\ q[n + 1] \in Y
    BY <1>1, <1>3
  <2>2. PICK k \in 1..n : q[k] = x
    BY <2>1 DEF Before
  <2>3. k - 1 \in 1..(n - 1) /\ Tail(q)[k - 1] = x
    BY <1>1, <1>3, <2>2
  <2>4. QED
    BY <2>3
<1>4. QED
  BY <1>2, <1>3 DEF Before

\* The typed rpcs.
LEMMA RpcLemma ==
  /\ Rpcs = {"GetMDSRpc", "GetMdsRpc", "CreateFsRpc", "DeleteFsRpc", "ListFsRpc", "GetFsRpc",
             "SetFsQuotaRpc", "GetFsQuotaRpc", "GetInodeRpc", "MkDirRpc", "ListDentryRpc", "GetDentryRpc",
             "SetDirQuotaRpc", "GetDirQuotaRpc", "ListDirQuotaRpc", "DeleteDirQuotaRpc",
             "ListCacheGroupRpc", "ListCacheMemberRpc", "ReWeightMemberRpc", "LeaveCacheMemberRpc",
             "DeleteCacheMemberRpc", "UnlockCacheMemberRpc"}
  /\ LocalStep \cap Rpcs = {}
  /\ \A w \in Rpcs : /\ Method(w) = "SetDirQuota" <=> w = "SetDirQuotaRpc"
                     /\ Method(w) = "SetFsQuota" <=> w = "SetFsQuotaRpc"
<1>1. /\ DOMAIN FsMethod = {"GetMDSRpc", "GetMdsRpc", "CreateFsRpc", "DeleteFsRpc", "ListFsRpc", "GetFsRpc",
             "SetFsQuotaRpc", "GetFsQuotaRpc", "GetInodeRpc", "MkDirRpc", "ListDentryRpc", "GetDentryRpc"}
      /\ DOMAIN DirQuotaMethod = {"SetDirQuotaRpc", "GetDirQuotaRpc", "ListDirQuotaRpc", "DeleteDirQuotaRpc"}
      /\ DOMAIN CacheMethod = {"ListCacheGroupRpc", "ListCacheMemberRpc", "ReWeightMemberRpc",
             "LeaveCacheMemberRpc", "DeleteCacheMemberRpc", "UnlockCacheMemberRpc"}
  BY DEF FsMethod, DirQuotaMethod, CacheMethod
<1>2. Rpcs = {"GetMDSRpc", "GetMdsRpc", "CreateFsRpc", "DeleteFsRpc", "ListFsRpc", "GetFsRpc",
             "SetFsQuotaRpc", "GetFsQuotaRpc", "GetInodeRpc", "MkDirRpc", "ListDentryRpc", "GetDentryRpc",
             "SetDirQuotaRpc", "GetDirQuotaRpc", "ListDirQuotaRpc", "DeleteDirQuotaRpc",
             "ListCacheGroupRpc", "ListCacheMemberRpc", "ReWeightMemberRpc", "LeaveCacheMemberRpc",
             "DeleteCacheMemberRpc", "UnlockCacheMemberRpc"}
  BY <1>1 DEF Rpcs
<1>3. LocalStep \cap Rpcs = {}
  BY <1>2 DEF LocalStep
<1>4. ASSUME NEW w \in Rpcs
      PROVE  /\ Method(w) = "SetDirQuota" <=> w = "SetDirQuotaRpc"
             /\ Method(w) = "SetFsQuota" <=> w = "SetFsQuotaRpc"
  <2>1. CASE w \in DOMAIN FsMethod
    BY <1>1, <2>1 DEF Method, FsMethod
  <2>2. CASE w \in DOMAIN DirQuotaMethod
    BY <1>1, <2>2 DEF Method, DirQuotaMethod
  <2>3. CASE w \in DOMAIN CacheMethod
    BY <1>1, <2>3 DEF Method, CacheMethod
  <2>4. QED
    BY <2>1, <2>2, <2>3 DEF Rpcs
<1>5. QED
  BY <1>2, <1>3, <1>4

\* The commands: only the plain ones print json, and a capacity is one of Capacity.
LEMMA CmdLemma ==
  ASSUME NEW c \in Cmd
  PROVE  /\ c # None /\ c.json \in BOOLEAN
         /\ c.name \in Plain \cup {"fs_create", "fs_delete", "subpath_create", "quota_set", "config_set"}
         /\ "capacity" \in DOMAIN c => c.capacity \in Capacity
<1>1. CASE c \in [name: Plain, json: BOOLEAN]
  BY <1>1 DEF None
<1>2. CASE c \in [name: {"fs_create"}, fs: {"f", "g"}, storage: Storage, json: {FALSE}]
  <2>1. c # None
    BY <1>2 DEF None
  <2>2. c.json \in {FALSE}
    BY <1>2
  <2>3. c.json \in BOOLEAN
    BY <2>2
  <2>4. QED
    BY <1>2, <2>1, <2>3
<1>3. CASE c \in [name: {"fs_delete"}, fs: {"f", "g"}, json: {FALSE}]
  <2>1. c # None
    BY <1>3 DEF None
  <2>2. c.json \in {FALSE}
    BY <1>3
  <2>3. c.json \in BOOLEAN
    BY <2>2
  <2>4. QED
    BY <1>3, <2>1, <2>3
<1>4. CASE c \in [name: {"subpath_create"}, dir: {"d", "e"}, json: {FALSE}]
  <2>1. c # None
    BY <1>4 DEF None
  <2>2. c.json \in {FALSE}
    BY <1>4
  <2>3. c.json \in BOOLEAN
    BY <2>2
  <2>4. QED
    BY <1>4, <2>1, <2>3
<1>5. CASE c \in [name: {"quota_set", "config_set"}, capacity: Capacity, json: {FALSE}]
  <2>1. c # None
    BY <1>5 DEF None
  <2>2. c.json \in {FALSE}
    BY <1>5
  <2>3. c.json \in BOOLEAN
    BY <2>2
  <2>4. QED
    BY <1>5, <2>1, <2>3
<1>6. QED
  BY <1>1, <1>2, <1>3, <1>4, <1>5 DEF Cmd

\* The plans: an rpc to the mds of an inode comes after the router, the quota of a
\* directory is set after it was measured, and only checks and repairs compare.
PlanOK(c, q) ==
  /\ q \in Seq(PlanStep)
  /\ "compare" \in Elems(q) => c.name \in Checks \cup Repairs
  /\ Before(q, RoutedRpcs, "router")
  /\ Before(q, {"SetDirQuotaRpc"}, "measure_dir")
  /\ c.name = "fs_usage" => Elems(q) \cap Writes = {}
  /\ (c.name \in Repairs /\ ~c.json) => Elems(q) \cap {"SetDirQuotaRpc", "SetFsQuotaRpc"} # {}

LEMMA PlanLemma ==
  ASSUME NEW c \in Cmd
  PROVE  PlanOK(c, Plan(c))
<1> USE RpcLemma DEF PlanStep, LocalStep, RoutedRpcs
<1>1. CASE c.name = "fs_create"
  <2>1. Plan(c) = FsCreate
    BY <1>1 DEF Plan
  <2>2. FsCreate \in Seq(PlanStep)
    BY DEF FsCreate
  <2>3. Elems(FsCreate) = {"storage", "CreateFsRpc"}
    BY DEF FsCreate, Elems
  <2>4. Before(FsCreate, RoutedRpcs, "router") /\ Before(FsCreate, {"SetDirQuotaRpc"}, "measure_dir")
    BY DEF FsCreate, Before
  <2>5. QED
    BY <1>1, <2>1, <2>2, <2>3, <2>4 DEF PlanOK, Checks, Repairs
<1>2. CASE c.name = "fs_delete"
  <2>1. Plan(c) = FsDelete
    BY <1>2 DEF Plan
  <2>2. FsDelete \in Seq(PlanStep)
    BY DEF FsDelete
  <2>3. Elems(FsDelete) = {"confirm", "DeleteFsRpc"}
    BY DEF FsDelete, Elems
  <2>4. Before(FsDelete, RoutedRpcs, "router") /\ Before(FsDelete, {"SetDirQuotaRpc"}, "measure_dir")
    BY DEF FsDelete, Before
  <2>5. QED
    BY <1>2, <2>1, <2>2, <2>3, <2>4 DEF PlanOK, Checks, Repairs
<1>3. CASE c.name = "fs_usage"
  <2>1. Plan(c) = FsUsage
    BY <1>3 DEF Plan
  <2>2. FsUsage \in Seq(PlanStep)
    BY DEF FsUsage
  <2>3. Elems(FsUsage) = {"ListFsRpc", "GetMDSRpc", "router", "measure_root"}
    BY DEF FsUsage, Elems
  <2>4. Before(FsUsage, RoutedRpcs, "router") /\ Before(FsUsage, {"SetDirQuotaRpc"}, "measure_dir")
    BY DEF FsUsage, Before
  <2>5. QED
    BY <1>3, <2>1, <2>2, <2>3, <2>4 DEF PlanOK, Checks, Repairs, Writes
<1>4. CASE c.name = "subpath_create"
  <2>1. Plan(c) = SubpathCreate
    BY <1>4 DEF Plan
  <2>2. SubpathCreate \in Seq(PlanStep)
    BY DEF SubpathCreate, Routed
  <2>3. Elems(SubpathCreate) = {"GetFsRpc", "GetMDSRpc", "router", "ListDentryRpc", "exists", "MkDirRpc"}
    BY DEF SubpathCreate, Routed, Elems
  <2>4. Before(SubpathCreate, RoutedRpcs, "router") /\ Before(SubpathCreate, {"SetDirQuotaRpc"}, "measure_dir")
    BY DEF SubpathCreate, Routed, Before
  <2>5. QED
    BY <1>4, <2>1, <2>2, <2>3, <2>4 DEF PlanOK, Checks, Repairs
<1>5. CASE c.name = "quota_set"
  <2>1. Plan(c) = QuotaSet
    BY <1>5 DEF Plan
  <2>2. QuotaSet \in Seq(PlanStep)
    BY DEF QuotaSet, Located, Routed
  <2>3. Elems(QuotaSet) = {"quota_value", "GetFsRpc", "GetMDSRpc", "router", "GetDentryRpc", "measure_dir",
                           "SetDirQuotaRpc"}
    BY DEF QuotaSet, Located, Routed, Elems
  <2>4. Before(QuotaSet, RoutedRpcs, "router") /\ Before(QuotaSet, {"SetDirQuotaRpc"}, "measure_dir")
    BY DEF QuotaSet, Located, Routed, Before
  <2>5. QED
    BY <1>5, <2>1, <2>2, <2>3, <2>4 DEF PlanOK, Checks, Repairs
<1>6. CASE c.name = "quota_get"
  <2>1. Plan(c) = QuotaGet
    BY <1>6 DEF Plan
  <2>2. QuotaGet \in Seq(PlanStep)
    BY DEF QuotaGet, Located, Routed
  <2>3. Elems(QuotaGet) = {"GetFsRpc", "GetMDSRpc", "router", "GetDentryRpc", "GetDirQuotaRpc"}
    BY DEF QuotaGet, Located, Routed, Elems
  <2>4. Before(QuotaGet, RoutedRpcs, "router") /\ Before(QuotaGet, {"SetDirQuotaRpc"}, "measure_dir")
    BY DEF QuotaGet, Located, Routed, Before
  <2>5. QED
    BY <1>6, <2>1, <2>2, <2>3, <2>4 DEF PlanOK, Checks, Repairs
<1>7. CASE c.name = "quota_delete"
  <2>1. Plan(c) = QuotaDelete
    BY <1>7 DEF Plan
  <2>2. QuotaDelete \in Seq(PlanStep)
    BY DEF QuotaDelete, Located, Routed
  <2>3. Elems(QuotaDelete) = {"GetFsRpc", "GetMDSRpc", "router", "GetDentryRpc", "DeleteDirQuotaRpc"}
    BY DEF QuotaDelete, Located, Routed, Elems
  <2>4. Before(QuotaDelete, RoutedRpcs, "router") /\ Before(QuotaDelete, {"SetDirQuotaRpc"}, "measure_dir")
    BY DEF QuotaDelete, Located, Routed, Before
  <2>5. QED
    BY <1>7, <2>1, <2>2, <2>3, <2>4 DEF PlanOK, Checks, Repairs
<1>8. CASE c.name = "config_set"
  <2>1. Plan(c) = ConfigSet
    BY <1>8 DEF Plan
  <2>2. ConfigSet \in Seq(PlanStep)
    BY DEF ConfigSet
  <2>3. Elems(ConfigSet) = {"quota_value", "GetFsRpc", "SetFsQuotaRpc"}
    BY DEF ConfigSet, Elems
  <2>4. Before(ConfigSet, RoutedRpcs, "router") /\ Before(ConfigSet, {"SetDirQuotaRpc"}, "measure_dir")
    BY DEF ConfigSet, Before
  <2>5. QED
    BY <1>8, <2>1, <2>2, <2>3, <2>4 DEF PlanOK, Checks, Repairs
<1>9. CASE c.name = "config_get"
  <2>1. Plan(c) = ConfigGet
    BY <1>9 DEF Plan
  <2>2. ConfigGet \in Seq(PlanStep)
    BY DEF ConfigGet
  <2>3. Elems(ConfigGet) = {"GetFsRpc", "GetFsQuotaRpc"}
    BY DEF ConfigGet, Elems
  <2>4. Before(ConfigGet, RoutedRpcs, "router") /\ Before(ConfigGet, {"SetDirQuotaRpc"}, "measure_dir")
    BY DEF ConfigGet, Before
  <2>5. QED
    BY <1>9, <2>1, <2>2, <2>3, <2>4 DEF PlanOK, Checks, Repairs
<1>10. CASE c.name = "quota_list"
  <2>1. Plan(c) = QuotaList(c)
    BY <1>10 DEF Plan
  <2>2. CASE c.json
    <3>2. QuotaList(c) \in Seq(PlanStep)
      BY <2>2 DEF QuotaList, Routed
    <3>3. Elems(QuotaList(c)) = {"GetFsRpc", "GetMDSRpc", "router", "ListDirQuotaRpc"}
      BY <2>2 DEF QuotaList, Routed, Elems
    <3>4. Before(QuotaList(c), RoutedRpcs, "router") /\ Before(QuotaList(c), {"SetDirQuotaRpc"}, "measure_dir")
      BY <2>2 DEF QuotaList, Routed, Before
    <3>5. QED
      BY <2>2, <1>10, <2>1, <3>2, <3>3, <3>4 DEF PlanOK, Checks, Repairs
  <2>3. CASE ~c.json
    <3>2. QuotaList(c) \in Seq(PlanStep)
      BY <2>3 DEF QuotaList, Routed
    <3>3. Elems(QuotaList(c)) = {"GetFsRpc", "GetMDSRpc", "router", "ListDirQuotaRpc", "paths"}
      BY <2>3 DEF QuotaList, Routed, Elems
    <3>4. Before(QuotaList(c), RoutedRpcs, "router") /\ Before(QuotaList(c), {"SetDirQuotaRpc"}, "measure_dir")
      BY <2>3 DEF QuotaList, Routed, Before
    <3>5. QED
      BY <2>3, <1>10, <2>1, <3>2, <3>3, <3>4 DEF PlanOK, Checks, Repairs
  <2>4. QED
    BY <2>2, <2>3
<1>11. CASE c.name \in {"quota_check", "quota_repair"}
  <2>1. Plan(c) = QuotaCheck(c)
    BY <1>11 DEF Plan
  <2>2. CASE c.json
    <3>2. QuotaCheck(c) \in Seq(PlanStep)
      BY <2>2 DEF QuotaCheck, QuotaGet, Located, Routed
    <3>3. Elems(QuotaCheck(c)) = {"GetFsRpc", "GetMDSRpc", "router", "GetDentryRpc", "GetDirQuotaRpc"}
      BY <2>2 DEF QuotaCheck, QuotaGet, Located, Routed, Elems
    <3>4. Before(QuotaCheck(c), RoutedRpcs, "router") /\ Before(QuotaCheck(c), {"SetDirQuotaRpc"}, "measure_dir")
      BY <2>2 DEF QuotaCheck, QuotaGet, Located, Routed, Before
    <3>5. QED
      BY <2>2, <1>11, <2>1, <3>2, <3>3, <3>4 DEF PlanOK, Checks, Repairs
  <2>3. CASE ~c.json
    <3>2. QuotaCheck(c) \in Seq(PlanStep)
      BY <2>3 DEF QuotaCheck, QuotaGet, Located, Routed
    <3>3. Elems(QuotaCheck(c)) = {"GetFsRpc", "GetMDSRpc", "router", "GetDentryRpc", "GetDirQuotaRpc",
                                  "measure_dir", "compare", "SetDirQuotaRpc"}
      BY <2>3 DEF QuotaCheck, QuotaGet, Located, Routed, Elems
    <3>4. Before(QuotaCheck(c), RoutedRpcs, "router") /\ Before(QuotaCheck(c), {"SetDirQuotaRpc"}, "measure_dir")
      BY <2>3 DEF QuotaCheck, QuotaGet, Located, Routed, Before
    <3>5. QED
      BY <2>3, <1>11, <2>1, <3>2, <3>3, <3>4 DEF PlanOK, Checks, Repairs
  <2>4. QED
    BY <2>2, <2>3
<1>12. CASE c.name \in {"config_check", "config_repair"}
  <2>1. Plan(c) = ConfigCheck(c)
    BY <1>12 DEF Plan
  <2>2. CASE c.json
    <3>2. ConfigCheck(c) \in Seq(PlanStep)
      BY <2>2 DEF ConfigCheck, Routed
    <3>3. Elems(ConfigCheck(c)) = {"GetFsRpc", "GetMDSRpc", "router", "GetFsQuotaRpc"}
      BY <2>2 DEF ConfigCheck, Routed, Elems
    <3>4. Before(ConfigCheck(c), RoutedRpcs, "router") /\ Before(ConfigCheck(c), {"SetDirQuotaRpc"}, "measure_dir")
      BY <2>2 DEF ConfigCheck, Routed, Before
    <3>5. QED
      BY <2>2, <1>12, <2>1, <3>2, <3>3, <3>4 DEF PlanOK, Checks, Repairs
  <2>3. CASE ~c.json
    <3>2. ConfigCheck(c) \in Seq(PlanStep)
      BY <2>3 DEF ConfigCheck, Routed
    <3>3. Elems(ConfigCheck(c)) = {"GetFsRpc", "GetMDSRpc", "router", "GetFsQuotaRpc", "measure_root",
                                   "compare", "SetFsQuotaRpc"}
      BY <2>3 DEF ConfigCheck, Routed, Elems
    <3>4. Before(ConfigCheck(c), RoutedRpcs, "router") /\ Before(ConfigCheck(c), {"SetDirQuotaRpc"}, "measure_dir")
      BY <2>3 DEF ConfigCheck, Routed, Before
    <3>5. QED
      BY <2>3, <1>12, <2>1, <3>2, <3>3, <3>4 DEF PlanOK, Checks, Repairs
  <2>4. QED
    BY <2>2, <2>3
<1>13. CASE c.name = "member_delete"
  <2>1. Plan(c) = MemberDelete
    BY <1>13 DEF Plan
  <2>2. MemberDelete \in Seq(PlanStep)
    BY DEF MemberDelete
  <2>3. Elems(MemberDelete) = {"confirm", "DeleteCacheMemberRpc"}
    BY DEF MemberDelete, Elems
  <2>4. Before(MemberDelete, RoutedRpcs, "router") /\ Before(MemberDelete, {"SetDirQuotaRpc"}, "measure_dir")
    BY DEF MemberDelete, Before
  <2>5. QED
    BY <1>13, <2>1, <2>2, <2>3, <2>4 DEF PlanOK, Checks, Repairs
<1>14. CASE c.name \in {"fs_list", "fs_query", "fs_mountpoint", "mds_status", "member_set", "member_leave",
                      "member_unlock", "member_list", "group_list"}
  <2>1. PICK w \in {"ListFsRpc", "GetFsRpc", "GetMdsRpc", "ReWeightMemberRpc", "LeaveCacheMemberRpc",
                   "UnlockCacheMemberRpc", "ListCacheMemberRpc", "ListCacheGroupRpc"} : Plan(c) = <<w>>
    BY <1>14 DEF Plan, FsList, FsQuery, FsMountpoint, MdsStatus, MemberSet, MemberLeave, MemberUnlock, MemberList, GroupList
  <2>2. <<w>> \in Seq(PlanStep) /\ Elems(<<w>>) = {w}
    BY DEF Elems
  <2>3. Before(<<w>>, RoutedRpcs, "router") /\ Before(<<w>>, {"SetDirQuotaRpc"}, "measure_dir")
    BY DEF Before
  <2>4. QED
    BY <1>14, <2>1, <2>2, <2>3 DEF PlanOK, Checks, Repairs
<1>15. QED
  BY CmdLemma, <1>1, <1>2, <1>3, <1>4, <1>5, <1>6, <1>7, <1>8, <1>9, <1>10, <1>11, <1>12, <1>13, <1>14 DEF Plain

\* A capacity that fits the width is the limit, and no limit is the largest one.
LEMMA LimitLemma ==
  ASSUME NEW n \in Nat
  PROVE  /\ GetQuotaValue(n) \in Int \ {0}
         /\ n * GiB <= MaxInt => GetQuotaValue(n) = IF n = 0 THEN MaxInt ELSE n * GiB
<1> DEFINE m == n * GiB
<1>1. m \in Nat /\ (m = 0 => n = 0) /\ (n = 0 => m = 0)
  BY MdsCommandsAssumption
<1> HIDE DEF m
<1>2. MaxInt \in Nat \ {0} /\ Signed(m) \in Int /\ (m <= MaxInt => Signed(m) = m)
  BY <1>1, WidthAssumption DEF Signed, MaxInt
<1>3. GetQuotaValue(n) = IF Signed(m) = 0 THEN MaxInt ELSE Signed(m)
  BY DEF GetQuotaValue, m
<1>4. /\ GetQuotaValue(n) \in Int \ {0}
      /\ m <= MaxInt => GetQuotaValue(n) = IF n = 0 THEN MaxInt ELSE m
  BY <1>1, <1>2, <1>3
<1>5. QED
  BY <1>4 DEF m

\* A complete list of mds routes every inode, and a router knows only inodes.
LEMMA RouterLemma ==
  ASSUME NEW type, NEW r \in InitFsMDSRouter(type)
  PROVE  r \subseteq Inode /\ (Mds \subseteq listed => r = Inode)
<1>1. Served(Mds) = Inode
  BY DEF Served, Mds, Bucket, Distributions, BucketNum, Inode, ROOTINODEID, Dir
<1>2. \A ms : Served(ms) \subseteq Inode
  BY DEF Served
<1>3. CASE type = "hash"
  <2>1. r \in HashInit
    BY <1>3 DEF InitFsMDSRouter
  <2>2. QED
    BY <1>1, <1>2, <2>1 DEF HashInit
<1>4. CASE type # "hash"
  BY <1>4 DEF InitFsMDSRouter, MonoInit, Mds
<1>5. QED
  BY <1>3, <1>4

-----------------------------------------------------------------------------
(* What the mds executes.                                                  *)

\* The quotas after a request: only the ones that set or delete a quota change any.
LEMMA AppliedLemma ==
  ASSUME TypeOK, NEW p \in Proc, NEW m
  PROVE  /\ m \in {"SetDirQuota", "SetFsQuota"} =>
              Applied(p, m).quota = [mds.quota EXCEPT ![Target(m)] = Merge(mds.quota[Target(m)], QuotaRequest(p))]
         /\ m = "DeleteDirQuota" => Applied(p, m).quota = [mds.quota EXCEPT ![Dir] = None]
         /\ m \notin {"SetDirQuota", "SetFsQuota", "DeleteDirQuota"} => Applied(p, m).quota = mds.quota
<1>1. mds.quota \in [Inode -> Quota \cup {None}] /\ Target(m) \in Inode /\ Dir \in Inode
  BY DEF TypeOK, Target, Inode
<1>2. CASE m \in {"SetDirQuota", "SetFsQuota"}
  BY <1>1, <1>2 DEF Applied, TypeOK
<1>3. CASE m = "DeleteDirQuota"
  BY <1>1, <1>3 DEF Applied, TypeOK
<1>4. CASE m \notin {"SetDirQuota", "SetFsQuota", "DeleteDirQuota"}
  BY <1>1, <1>4 DEF Applied, TypeOK
<1>5. QED
  BY <1>2, <1>3, <1>4

\* The quota a process asks for, and what becomes of the stored one.
LEMMA RequestLemma ==
  ASSUME TypeOK, NEW p \in Proc, cmd[p] \in Cmd, NEW old \in Quota \cup {None}
  PROVE  LET r == QuotaRequest(p) n == Merge(old, r) IN
         /\ n \in Quota /\ n # None
         /\ scan[p] > 0 => n.used = scan[p]
         /\ "capacity" \in DOMAIN cmd[p] =>
              cmd[p].capacity \in Nat /\ n.max = GetQuotaValue(cmd[p].capacity)
         /\ "capacity" \notin DOMAIN cmd[p] => n.max = IF old = None THEN 0 ELSE old.max
<1> DEFINE r == QuotaRequest(p) n == Merge(old, r)
<1>1. scan[p] \in Nat \cup {-1}
  BY DEF TypeOK
<1>2. /\ r.max \in Int /\ r.used \in Int /\ (scan[p] > 0 => r.used = scan[p])
      /\ "capacity" \in DOMAIN cmd[p] =>
           cmd[p].capacity \in Nat /\ r.max = GetQuotaValue(cmd[p].capacity) /\ r.max # 0
      /\ "capacity" \notin DOMAIN cmd[p] => r.max = 0
  <2>1. CASE "capacity" \in DOMAIN cmd[p]
    <3>1. cmd[p].capacity \in Nat
      BY <2>1, CmdLemma, MdsCommandsAssumption
    <3>2. r = SetRequest(p) /\ GetQuotaValue(cmd[p].capacity) \in Int \ {0}
      BY <2>1, <3>1, LimitLemma DEF QuotaRequest
    <3>3. QED
      BY <1>1, <2>1, <3>1, <3>2 DEF SetRequest
  <2>2. CASE "capacity" \notin DOMAIN cmd[p]
    <3>1. r = RepairRequest(p)
      BY <2>2 DEF QuotaRequest
    <3>2. QED
      BY <1>1, <2>2, <3>1 DEF RepairRequest
  <2>3. QED
    BY <2>1, <2>2
<1> HIDE DEF r
<1>3. old # None => old.max \in Int /\ old.used \in Int
  BY DEF Quota
<1>4. /\ n.max = IF r.max = 0 THEN (IF old = None THEN 0 ELSE old.max) ELSE r.max
      /\ n.used = IF r.used = 0 THEN (IF old = None THEN 0 ELSE old.used) ELSE r.used
      /\ n = [max |-> n.max, used |-> n.used]
  BY DEF Merge
<1>5. n.max \in Int /\ n.used \in Int
  BY <1>2, <1>3, <1>4
<1> HIDE DEF n
<1>6. n \in Quota /\ n # None
  BY <1>4, <1>5 DEF Quota, None
<1>7. QED
  BY <1>1, <1>2, <1>4, <1>6 DEF n, r

\* The part of the invariant that is about what the mds stores.
StoreTypeOK ==
  /\ DOMAIN mds = {"fs", "dirs", "quota", "member"}
  /\ mds.quota \in [Inode -> Quota \cup {None}]
  /\ asked \in [Inode -> Nat]
  /\ tainted \in BOOLEAN
StoreInv == StoreTypeOK /\ UsageExact /\ LimitAsAsked

\* A request is executed: a limit is the one asked for, and the usage of the
\* directory the one measured.
LEMMA ExecuteLemma ==
  ASSUME TypeOK, StoreInv, MeasureInv, NEW p \in Proc, cmd[p] \in Cmd, PlanInv(p), AtRpc(p),
         Accepts(p, Method(W(p))), Execute(p, Method(W(p))), inside' = inside
  PROVE  StoreInv' /\ executed' = [executed EXCEPT ![p] = @ \cup {Method(W(p))}]
<1> DEFINE m == Method(W(p))
           n(i) == Merge(mds.quota[i], QuotaRequest(p))
<1>1. /\ mds' = Applied(p, m)
      /\ asked' = IF m \in {"SetDirQuota", "SetFsQuota"} /\ "capacity" \in DOMAIN cmd[p]
                  THEN [asked EXCEPT ![Target(m)] = cmd[p].capacity] ELSE asked
      /\ tainted' = IF m = "SetDirQuota" THEN stale[p] ELSE tainted
      /\ executed' = [executed EXCEPT ![p] = @ \cup {m}]
  BY DEF Execute
<1>2. /\ mds.quota \in [Inode -> Quota \cup {None}] /\ Target(m) \in Inode /\ Dir \in Inode
      /\ asked \in [Inode -> Nat] /\ tainted \in BOOLEAN /\ stale[p] \in BOOLEAN
      /\ m = "SetDirQuota" => Target(m) = Dir
      /\ m = "SetFsQuota" => Target(m) # Dir
  BY DEF TypeOK, Target, Inode, Dir, ROOTINODEID
<1>3. m = "SetDirQuota" => scan[p] > 0 /\ (~stale[p] => scan[p] = inside[Dir] + 1)
  <2> SUFFICES ASSUME m = "SetDirQuota"
               PROVE  scan[p] > 0 /\ (~stale[p] => scan[p] = inside[Dir] + 1)
    OBVIOUS
  <2>1. W(p) = "SetDirQuotaRpc" /\ todo[p] # <<>> /\ todo[p] \in Seq(PlanStep)
    BY RpcLemma DEF AtRpc, W, TypeOK
  <2>2. ~Before(todo[p], {"SetDirQuotaRpc"}, "measure_dir")
    <3> SUFFICES ASSUME Before(todo[p], {"SetDirQuotaRpc"}, "measure_dir") PROVE FALSE
      OBVIOUS
    <3>1. Head(todo[p]) \notin {"SetDirQuotaRpc"}
      BY <2>1, BeforeLemma
    <3>2. QED
      BY <2>1, <3>1 DEF W
  <2>3. QED
    BY <2>2 DEF PlanInv, MeasureInv
<1>4. /\ m \in {"SetDirQuota", "SetFsQuota"} =>
           mds'.quota = [mds.quota EXCEPT ![Target(m)] = n(Target(m))]
      /\ m = "DeleteDirQuota" => mds'.quota = [mds.quota EXCEPT ![Dir] = None]
      /\ m \notin {"SetDirQuota", "SetFsQuota", "DeleteDirQuota"} => mds'.quota = mds.quota
  BY <1>1, AppliedLemma
<1>5. \A i \in Inode :
        /\ n(i) \in Quota /\ n(i) # None
        /\ scan[p] > 0 => n(i).used = scan[p]
        /\ "capacity" \in DOMAIN cmd[p] =>
             cmd[p].capacity \in Nat /\ n(i).max = GetQuotaValue(cmd[p].capacity)
        /\ "capacity" \notin DOMAIN cmd[p] =>
             n(i).max = IF mds.quota[i] = None THEN 0 ELSE mds.quota[i].max
  BY <1>2, RequestLemma
<1>6. mds'.quota \in [Inode -> Quota \cup {None}]
  <2> HIDE DEF n
  <2>1. QED
    BY <1>2, <1>4, <1>5
<1>7. StoreTypeOK'
  <2>1. asked' \in [Inode -> Nat]
    BY <1>1, <1>2, <1>5
  <2>2. tainted' \in BOOLEAN
    BY <1>1, <1>2
  <2>3. DOMAIN mds' = {"fs", "dirs", "quota", "member"}
    BY <1>1 DEF Applied, TypeOK
  <2>4. QED
    BY <1>6, <2>1, <2>2, <2>3 DEF StoreTypeOK
<1>8. UsageExact'
  <2>1. CASE m = "SetDirQuota"
    <3>1. mds'.quota[Dir] = n(Dir) /\ n(Dir).used = scan[p] /\ tainted' = stale[p]
      BY <1>1, <1>2, <1>3, <1>4, <1>5, <2>1
    <3>2. QED
      BY <1>3, <2>1, <3>1 DEF UsageExact
  <2>2. CASE m = "DeleteDirQuota"
    <3>1. mds'.quota[Dir] = None
      BY <1>2, <1>4, <2>2
    <3>2. QED
      BY <3>1 DEF UsageExact
  <2>3. CASE m \notin {"SetDirQuota", "DeleteDirQuota"}
    <3>1. mds'.quota[Dir] = mds.quota[Dir] /\ tainted' = tainted
      BY <1>1, <1>2, <1>4, <2>3
    <3>2. QED
      BY <3>1 DEF UsageExact, StoreInv
  <2>4. QED
    BY <2>1, <2>2, <2>3
<1>9. LimitAsAsked'
  <2> SUFFICES ASSUME NEW i \in Inode, mds'.quota[i] # None, mds'.quota[i].max # 0,
                      asked'[i] * GiB <= MaxInt
               PROVE  mds'.quota[i].max = IF asked'[i] = 0 THEN MaxInt ELSE asked'[i] * GiB
    BY DEF LimitAsAsked
  <2>1. CASE m \in {"SetDirQuota", "SetFsQuota"} /\ i = Target(m)
    <3>1. mds'.quota[i] = n(i)
      BY <1>2, <1>4, <2>1
    <3>2. CASE "capacity" \in DOMAIN cmd[p]
      <4>1. asked'[i] = cmd[p].capacity /\ cmd[p].capacity \in Nat
        BY <1>1, <1>2, <1>5, <2>1, <3>2
      <4>2. mds'.quota[i].max = GetQuotaValue(cmd[p].capacity)
        BY <1>5, <3>1, <3>2
      <4>3. QED
        BY <4>1, <4>2, LimitLemma
    <3>3. CASE "capacity" \notin DOMAIN cmd[p]
      <4>1. asked' = asked
        BY <1>1, <3>3
      <4>2. mds.quota[i] # None /\ mds'.quota[i].max = mds.quota[i].max
        BY <1>5, <3>1, <3>3
      <4>3. QED
        BY <4>1, <4>2 DEF StoreInv, LimitAsAsked
    <3>4. QED
      BY <3>2, <3>3
  <2>2. CASE ~(m \in {"SetDirQuota", "SetFsQuota"} /\ i = Target(m))
    <3>1. asked'[i] = asked[i] /\ mds'.quota[i] = mds.quota[i]
      <4>1. asked'[i] = asked[i]
        BY <1>1, <1>2, <2>2
      <4>2. mds'.quota[i] = mds.quota[i]
        BY <1>2, <1>4, <2>2
      <4>3. QED
        BY <4>1, <4>2
    <3>2. QED
      BY <3>1 DEF StoreInv, LimitAsAsked
  <2>3. QED
    BY <2>1, <2>2
<1>10. QED
  BY <1>1, <1>7, <1>8, <1>9 DEF StoreInv

\* Nothing is executed.
LEMMA NotExecutedLemma ==
  ASSUME StoreInv, NotExecuted, inside' = inside
  PROVE  StoreInv' /\ executed' = executed
  BY DEF StoreInv, StoreTypeOK, NotExecuted, UsageExact, LimitAsAsked

-----------------------------------------------------------------------------
(* What a process has ahead of it.                                         *)

\* A process does the first step of its plan.
LEMMA AdvanceLemma ==
  ASSUME TypeOK, NEW p \in Proc, PlanInv(p), todo[p] # <<>>,
         todo'[p] = Tail(todo[p]), cmd'[p] = cmd[p], listed' = listed,
         executed[p] \subseteq executed'[p],
         Head(todo[p]) \in Writes => Method(Head(todo[p])) \in executed'[p],
         \/ routed'[p] = routed[p] /\ Head(todo[p]) # "router"
         \/ Mds \subseteq listed => routed'[p] = Inode,
         \/ scan'[p] = scan[p] /\ Head(todo[p]) # "measure_dir"
         \/ scan'[p] # -1
  PROVE  PlanInv(p)'
<1>1. todo[p] \in Seq(PlanStep)
  BY DEF TypeOK
<1>2. Elems(todo[p]) = {Head(todo[p])} \cup Elems(todo'[p])
  BY <1>1, FrontLemma
<1>3. ASSUME NEW w \in Writes \cap Elems(Plan(cmd'[p]))
      PROVE  w \in Elems(todo'[p]) \/ Method(w) \in executed'[p]
  BY <1>2, <1>3 DEF PlanInv
<1>4. "compare" \in Elems(todo'[p]) => cmd'[p].name \in Checks \cup Repairs
  BY <1>2 DEF PlanInv
<1>5. (Mds \subseteq listed' => routed'[p] = Inode) \/ Before(todo'[p], RoutedRpcs, "router")
  <2>1. (Before(todo[p], RoutedRpcs, "router") /\ Head(todo[p]) # "router") =>
          Before(todo'[p], RoutedRpcs, "router")
    BY <1>1, BeforeLemma
  <2>2. QED
    BY <2>1 DEF PlanInv
<1>6. scan'[p] # -1 \/ Before(todo'[p], {"SetDirQuotaRpc"}, "measure_dir")
  <2>1. (Before(todo[p], {"SetDirQuotaRpc"}, "measure_dir") /\ Head(todo[p]) # "measure_dir") =>
          Before(todo'[p], {"SetDirQuotaRpc"}, "measure_dir")
    BY <1>1, BeforeLemma
  <2>2. QED
    BY <2>1 DEF PlanInv
<1>7. QED
  BY <1>3, <1>4, <1>5, <1>6 DEF PlanInv

\* The outcome of p is truthful.
Report(p) ==
  /\ outcome[p] = "success" => Promised(p)
  /\ outcome[p] = "panic" => ~(Mds \subseteq listed)

\* All that is said of process p.
OwnInv(p) == RunInv(p) /\ (outcome[p] = "running" => PlanInv(p)) /\ Report(p)

\* A process with something left to do is running a command.
LEMMA RunningLemma ==
  ASSUME TypeOK, NEW p \in Proc, OwnInv(p), todo[p] # <<>> \/ outcome[p] = "running"
  PROVE  /\ outcome[p] = "running" /\ cmd[p] \in Cmd /\ PlanInv(p)
         /\ todo[p] # <<>> => /\ Head(todo[p]) \in PlanStep /\ Tail(todo[p]) \in Seq(PlanStep)
                              /\ Head(todo[p]) \in Elems(todo[p])
<1>1. outcome[p] = "running" /\ cmd[p] \in Cmd /\ PlanInv(p)
  BY DEF OwnInv, RunInv, TypeOK
<1>2. todo[p] \in Seq(PlanStep)
  BY DEF TypeOK
<1>3. QED
  BY <1>1, <1>2, FrontLemma

\* What the step of a process leaves alone.
LEMMA ProcessFrame ==
  ASSUME TypeOK, NEW p \in Proc, Process(p), NEW q \in Proc \ {p}
  PROVE  /\ listed' = listed /\ inside' = inside
         /\ cmd'[q] = cmd[q] /\ todo'[q] = todo[q] /\ scan'[q] = scan[q] /\ seen'[q] = seen[q]
         /\ routed'[q] = routed[q] /\ executed'[q] = executed[q] /\ outcome'[q] = outcome[q]
         /\ stale'[q] = stale[q]
<1> USE DEF TypeOK, NotExecuted, others, Advance, End
<1>1. ASSUME NEW c \in Cmd, Start(p, c)
      PROVE  /\ listed' = listed /\ inside' = inside
             /\ cmd'[q] = cmd[q] /\ todo'[q] = todo[q] /\ scan'[q] = scan[q] /\ seen'[q] = seen[q]
             /\ routed'[q] = routed[q] /\ executed'[q] = executed[q] /\ outcome'[q] = outcome[q]
             /\ stale'[q] = stale[q]
  BY <1>1 DEF Start
<1>2. CASE Local(p) \/ Exists(p) \/ Compare(p) \/ Paths(p)
  BY <1>2 DEF Local, Exists, Compare, Paths
<1>3. CASE Router(p) \/ Measure(p)
  BY <1>3 DEF Router, Measure
<1>4. CASE Finish(p) \/ Exit(p)
  BY <1>4 DEF Finish, Exit
<1>5. CASE Answer(p)
  BY <1>5 DEF Answer, Execute, OnStatus, Fail
<1>6. CASE Busy(p) \/ NoEndPoint(p)
  BY <1>6 DEF Busy, NoEndPoint, OnStatus, Fail
<1>7. ASSUME NEW d \in BOOLEAN, Lost(p, d)
      PROVE  /\ listed' = listed /\ inside' = inside
             /\ cmd'[q] = cmd[q] /\ todo'[q] = todo[q] /\ scan'[q] = scan[q] /\ seen'[q] = seen[q]
             /\ routed'[q] = routed[q] /\ executed'[q] = executed[q] /\ outcome'[q] = outcome[q]
             /\ stale'[q] = stale[q]
  BY <1>7 DEF Lost, Execute, Fail
<1>8. QED
  BY <1>1, <1>2, <1>3, <1>4, <1>5, <1>6, <1>7 DEF Process

\* The step of another process does not disturb what is said of q.
LEMMA OtherProcess ==
  ASSUME TypeOK, NEW p \in Proc, Process(p), NEW q \in Proc \ {p}, OwnInv(q)
  PROVE  OwnInv(q)'
<1>1. /\ listed' = listed
      /\ cmd'[q] = cmd[q] /\ todo'[q] = todo[q] /\ scan'[q] = scan[q] /\ seen'[q] = seen[q]
      /\ routed'[q] = routed[q] /\ executed'[q] = executed[q] /\ outcome'[q] = outcome[q]
  BY ProcessFrame
<1>2. RunInv(q)'
  BY <1>1 DEF OwnInv, RunInv
<1>3. PlanInv(q) => PlanInv(q)'
  BY <1>1 DEF PlanInv
<1>4. Promised(q)' = Promised(q)
  BY <1>1 DEF Promised
<1>5. QED
  BY <1>1, <1>2, <1>3, <1>4 DEF OwnInv, Report

\* The command ends with something else than a success or a panic.
LEMMA EndLemma ==
  ASSUME TypeOK, NEW p \in Proc, OwnInv(p), cmd[p] \in Cmd, NEW how \in {"error", "printed"}, End(p, how)
  PROVE  OwnInv(p)'
<1>1. outcome'[p] = how /\ todo'[p] = <<>> /\ cmd'[p] = cmd[p]
  BY DEF End, TypeOK
<1>2. cmd[p] # None
  BY CmdLemma
<1>3. QED
  BY <1>1, <1>2 DEF OwnInv, RunInv, Report

\* The command goes on with the next step of its plan.
LEMMA GoOn ==
  ASSUME TypeOK, NEW p \in Proc, OwnInv(p), todo[p] # <<>>, Advance(p), PlanInv(p)'
  PROVE  OwnInv(p)'
<1>1. outcome[p] = "running" /\ cmd[p] \in Cmd
  BY RunningLemma
<1>2. outcome'[p] = outcome[p] /\ cmd'[p] = cmd[p]
  BY DEF Advance
<1>3. cmd[p] # None
  BY <1>1, CmdLemma
<1>4. QED
  BY <1>1, <1>2, <1>3 DEF OwnInv, RunInv, Report

\* A command begins.
LEMMA StartOwn ==
  ASSUME TypeOK, NEW p \in Proc, OwnInv(p), NEW c \in Cmd, Start(p, c)
  PROVE  OwnInv(p)'
<1>1. cmd'[p] = c /\ todo'[p] = Plan(c) /\ outcome'[p] = "running" /\ c # None
  BY CmdLemma DEF Start, TypeOK
<1>2. PlanOK(c, Plan(c))
  BY PlanLemma
<1>3. PlanInv(p)'
  BY <1>1, <1>2 DEF PlanInv, PlanOK
<1>4. QED
  BY <1>1, <1>3 DEF OwnInv, RunInv, Report

\* The steps that ask no mds.
LEMMA LocalOwn ==
  ASSUME TypeOK, NEW p \in Proc, OwnInv(p),
         Local(p) \/ Exists(p) \/ Paths(p) \/ Router(p)
  PROVE  OwnInv(p)'
<1>1. todo[p] # <<>> /\ Head(todo[p]) \in {"storage", "quota_value", "confirm", "exists", "paths", "router"}
  BY DEF Local, Exists, Paths, Router, At
<1>2. cmd[p] \in Cmd /\ PlanInv(p)
  BY <1>1, RunningLemma
<1>3. CASE End(p, "error")
  BY <1>2, <1>3, EndLemma
<1>4. CASE Advance(p)
  <2>1. /\ todo'[p] = Tail(todo[p]) /\ cmd'[p] = cmd[p] /\ listed' = listed
        /\ executed'[p] = executed[p] /\ scan'[p] = scan[p]
    BY <1>4 DEF Advance, TypeOK, Local, Exists, Paths, Router, others, NotExecuted
  <2>2. Head(todo[p]) \notin Writes /\ Head(todo[p]) # "measure_dir"
    BY <1>1 DEF Writes
  <2>3. \/ routed'[p] = routed[p] /\ Head(todo[p]) # "router"
        \/ Mds \subseteq listed => routed'[p] = Inode
    <3>1. CASE Router(p)
      BY <3>1, RouterLemma DEF Router, TypeOK
    <3>2. CASE Local(p) \/ Exists(p) \/ Paths(p)
      BY <3>2 DEF Local, Exists, Paths, At
    <3>3. QED
      BY <3>1, <3>2
  <2>4. PlanInv(p)'
    BY <1>1, <1>2, <2>1, <2>2, <2>3, AdvanceLemma
  <2>5. QED
    BY <1>1, <1>4, <2>4, GoOn
<1>5. QED
  BY <1>3, <1>4 DEF Local, Exists, Paths, Router

\* The usage is measured; `fs usage` ends with what it has, and has promised nothing.
LEMMA MeasureOwn ==
  ASSUME TypeOK, NEW p \in Proc, OwnInv(p), Measure(p)
  PROVE  OwnInv(p)'
<1>1. todo[p] # <<>> /\ Head(todo[p]) \in {"measure_dir", "measure_root"}
  BY DEF Measure, At
<1>2. cmd[p] \in Cmd /\ PlanInv(p) /\ cmd[p] # None
  BY <1>1, RunningLemma, CmdLemma
<1>3. CASE /\ Advance(p)
           /\ \E i \in Inode : scan' = [scan EXCEPT ![p] = GetDirectorySizeAndInodes(i)]
  <2>1. scan'[p] # -1
    BY <1>3 DEF TypeOK, GetDirectorySizeAndInodes
  <2>2. /\ todo'[p] = Tail(todo[p]) /\ cmd'[p] = cmd[p] /\ listed' = listed
        /\ executed'[p] = executed[p] /\ routed'[p] = routed[p]
    BY <1>3 DEF Advance, TypeOK, Measure, NotExecuted
  <2>3. Head(todo[p]) \notin Writes /\ Head(todo[p]) # "router"
    BY <1>1 DEF Writes
  <2>4. PlanInv(p)'
    BY <1>1, <1>2, <2>1, <2>2, <2>3, AdvanceLemma
  <2>5. QED
    BY <1>1, <1>3, <2>4, GoOn
<1>4. CASE cmd[p].name # "fs_usage" /\ End(p, "error")
  BY <1>2, <1>4, EndLemma
<1>5. CASE cmd[p].name = "fs_usage" /\ End(p, IF cmd[p].json THEN "printed" ELSE "success")
  <2>1. CASE cmd[p].json
    BY <1>2, <1>5, <2>1, EndLemma
  <2>2. CASE ~cmd[p].json
    <3>1. outcome'[p] = "success" /\ todo'[p] = <<>> /\ cmd'[p] = cmd[p]
      BY <1>5, <2>2 DEF End, TypeOK
    <3>2. Elems(Plan(cmd[p])) \cap Writes = {}
      BY <1>2, <1>5, PlanLemma DEF PlanOK
    <3>3. Promised(p)'
      <4> DEFINE q == Plan(cmd[p])
      <4>1. q \in Seq(PlanStep)
        BY <1>2, PlanLemma DEF PlanOK
      <4>2. \A w \in Writes : ~(\E n \in DOMAIN q : q[n] = w)
        BY <3>2, <4>1 DEF Elems
      <4>3. QED
        BY <1>5, <3>1, <4>2 DEF Promised, Writes
    <3>4. QED
      BY <1>2, <3>1, <3>3 DEF OwnInv, RunInv, Report
  <2>3. QED
    BY <2>1, <2>2
<1>6. QED
  BY <1>3, <1>4, <1>5 DEF Measure, Inode, Dir, ROOTINODEID

\* A check compares, and a repair goes on when the usages differ.
LEMMA CompareOwn ==
  ASSUME TypeOK, NEW p \in Proc, OwnInv(p), Compare(p)
  PROVE  OwnInv(p)'
<1>1. todo[p] # <<>> /\ Head(todo[p]) = "compare"
  BY DEF Compare, At
<1>2. cmd[p] \in Cmd /\ PlanInv(p) /\ cmd[p] # None /\ "compare" \in Elems(todo[p])
  BY <1>1, RunningLemma, CmdLemma
<1>3. cmd[p].name \in Checks \cup Repairs
  BY <1>2 DEF PlanInv
<1>4. CASE Advance(p)
  <2>1. /\ todo'[p] = Tail(todo[p]) /\ cmd'[p] = cmd[p] /\ listed' = listed
        /\ executed'[p] = executed[p] /\ routed'[p] = routed[p] /\ scan'[p] = scan[p]
    BY <1>4 DEF Advance, TypeOK, Compare, NotExecuted, others
  <2>2. PlanInv(p)'
    BY <1>1, <1>2, <2>1, AdvanceLemma DEF Writes
  <2>3. QED
    BY <1>1, <1>4, <2>2, GoOn
<1>5. CASE End(p, "success") /\ ~(cmd[p].name \in Repairs /\ ~CheckQuota(seen[p], scan[p]))
  <2>1. /\ outcome'[p] = "success" /\ todo'[p] = <<>> /\ cmd'[p] = cmd[p]
        /\ seen'[p] = seen[p] /\ scan'[p] = scan[p]
    BY <1>5 DEF End, TypeOK, Compare
  <2>2. CASE cmd[p].name \in Repairs
    <3>1. CheckQuota(seen[p], scan[p])
      BY <1>5, <2>2
    <3>2. Promised(p)'
      BY <2>1, <2>2, <3>1 DEF Promised, CheckQuota, Repairs
    <3>3. QED
      BY <1>2, <2>1, <3>2 DEF OwnInv, RunInv, Report
  <2>3. CASE cmd[p].name \in Checks
    <3>1. Promised(p)'
      BY <2>1, <2>3 DEF Promised, Checks
    <3>2. QED
      BY <1>2, <2>1, <3>1 DEF OwnInv, RunInv, Report
  <2>4. QED
    BY <1>3, <2>2, <2>3
<1>6. QED
  BY <1>4, <1>5 DEF Compare, Repairs

\* The plan is done: every write it promises was executed.
LEMMA FinishOwn ==
  ASSUME TypeOK, NEW p \in Proc, OwnInv(p), Finish(p)
  PROVE  OwnInv(p)'
<1>1. todo[p] = <<>> /\ outcome[p] = "running"
  BY DEF Finish
<1>2. cmd[p] \in Cmd /\ PlanInv(p) /\ cmd[p] # None /\ cmd[p].json \in BOOLEAN
  BY <1>1, RunningLemma, CmdLemma
<1>3. CASE cmd[p].json
  BY <1>2, <1>3, EndLemma DEF Finish
<1>4. CASE ~cmd[p].json
  <2>1. /\ outcome'[p] = "success" /\ todo'[p] = <<>> /\ cmd'[p] = cmd[p]
        /\ executed'[p] = executed[p]
    BY <1>4 DEF Finish, End, TypeOK, NotExecuted
  <2>2. Elems(todo[p]) = {}
    BY <1>1 DEF Elems
  <2>3. \A w \in Writes \cap Elems(Plan(cmd[p])) : Method(w) \in executed[p]
    BY <1>2, <2>2 DEF PlanInv
  <2> DEFINE q == Plan(cmd[p])
  <2>4. q \in Seq(PlanStep)
    BY <1>2, PlanLemma DEF PlanOK
  <2>5. CASE cmd[p].name \in Repairs
    <3>1. Elems(q) \cap {"SetDirQuotaRpc", "SetFsQuotaRpc"} # {}
      BY <1>2, <1>4, <2>5, PlanLemma DEF PlanOK
    <3>2. executed[p] \cap {"SetDirQuota", "SetFsQuota"} # {}
      BY <2>3, <3>1, RpcLemma DEF Writes
    <3>3. Promised(p)'
      BY <2>1, <2>5, <3>2 DEF Promised, Repairs
    <3>4. QED
      BY <1>2, <2>1, <3>3 DEF OwnInv, RunInv, Report
  <2>6. CASE cmd[p].name \notin Repairs
    <3>1. \A w \in Writes : (\E n \in DOMAIN q : q[n] = w) => Method(w) \in executed[p]
      BY <2>3, <2>4 DEF Elems
    <3>2. Promised(p)'
      BY <2>1, <2>6, <3>1 DEF Promised, Repairs, Writes
    <3>3. QED
      BY <1>2, <2>1, <3>2 DEF OwnInv, RunInv, Report
  <2>7. QED
    BY <2>5, <2>6
<1>5. QED
  BY <1>3, <1>4

\* The process exits.
LEMMA ExitOwn ==
  ASSUME TypeOK, NEW p \in Proc, OwnInv(p), Exit(p)
  PROVE  OwnInv(p)'
<1>1. outcome'[p] = "none" /\ cmd'[p] = None /\ todo'[p] = todo[p]
  BY DEF Exit, TypeOK
<1>2. todo[p] = <<>>
  BY DEF Exit, OwnInv, RunInv
<1>3. QED
  BY <1>1, <1>2 DEF OwnInv, RunInv, Report

\* An rpc is repeated.
LEMMA RepeatOwn ==
  ASSUME TypeOK, NEW p \in Proc, OwnInv(p), todo[p] # <<>>, UNCHANGED <<todo, cmd, outcome, scan, routed, listed>>,
         executed[p] \subseteq executed'[p]
  PROVE  OwnInv(p)'
<1>1. outcome[p] = "running" /\ PlanInv(p)
  BY RunningLemma
<1>2. PlanInv(p)'
  BY <1>1 DEF PlanInv
<1>3. QED
  BY <1>1, <1>2 DEF OwnInv, RunInv, Report

\* An rpc is answered, refused, lost, repeated or has no address: a write leaves the
\* plan only when it was executed, and with a complete list of mds there is always
\* an address.
LEMMA RpcOwn ==
  ASSUME TypeOK, NEW p \in Proc, OwnInv(p), AtRpc(p),
         Answer(p) \/ Busy(p) \/ (\E d \in BOOLEAN : Lost(p, d)) \/ NoEndPoint(p)
  PROVE  OwnInv(p)'
<1>1. todo[p] # <<>> /\ Head(todo[p]) \in Rpcs /\ W(p) = Head(todo[p])
  BY DEF AtRpc, W
<1>2. cmd[p] \in Cmd /\ PlanInv(p) /\ outcome[p] = "running" /\ cmd[p] # None
  BY <1>1, RunningLemma, CmdLemma
<1>3. Head(todo[p]) # "router" /\ Head(todo[p]) # "measure_dir"
  BY <1>1, RpcLemma DEF LocalStep
<1>4. ASSUME Fail(p) PROVE OwnInv(p)'
  <2>1. PICK how \in {"printed", "error"} : End(p, how)
    BY <1>4 DEF Fail
  <2>2. QED
    BY <1>2, <2>1, EndLemma
<1>5. CASE Answer(p)
  <2>1. CASE Accepts(p, Method(W(p)))
    <3>1. Advance(p) /\ Execute(p, Method(W(p))) /\ UNCHANGED <<scan, routed, listed>>
      BY <1>5, <2>1 DEF Answer, OnStatus, others
    <3>2. executed'[p] = executed[p] \cup {Method(Head(todo[p]))}
      BY <1>1, <3>1 DEF Execute, TypeOK
    <3>3. todo'[p] = Tail(todo[p]) /\ cmd'[p] = cmd[p]
      BY <3>1 DEF Advance, TypeOK
    <3>4. PlanInv(p)'
      BY <1>1, <1>2, <1>3, <3>1, <3>2, <3>3, AdvanceLemma
    <3>5. QED
      BY <1>1, <3>1, <3>4, GoOn
  <2>2. CASE ~Accepts(p, Method(W(p)))
    BY <1>4, <1>5, <2>2 DEF Answer, OnStatus
  <2>3. QED
    BY <2>1, <2>2
<1>6. CASE Busy(p)
  <2>1. CASE left[p] > 0
    BY <1>1, <1>6, <2>1, RepeatOwn DEF Busy, NotExecuted, others
  <2>2. CASE ~(left[p] > 0)
    BY <1>4, <1>6, <2>2 DEF Busy, OnStatus
  <2>3. QED
    BY <2>1, <2>2
<1>7. ASSUME NEW d \in BOOLEAN, Lost(p, d) PROVE OwnInv(p)'
  <2>1. CASE left[p] > 0
    <3>1. executed[p] \subseteq executed'[p]
      BY <1>7 DEF Lost, Execute, NotExecuted, TypeOK
    <3>2. QED
      BY <1>1, <1>7, <2>1, <3>1, RepeatOwn DEF Lost, others
  <2>2. CASE ~(left[p] > 0)
    BY <1>4, <1>7, <2>2 DEF Lost
  <2>3. QED
    BY <2>1, <2>2
<1>8. CASE NoEndPoint(p)
  <2>1. CASE W(p) \in EndPointChecked
    BY <1>2, <1>8, <2>1, EndLemma DEF NoEndPoint
  <2>2. CASE W(p) \notin EndPointChecked
    <3>1. outcome'[p] = "panic" /\ todo'[p] = <<>> /\ cmd'[p] = cmd[p] /\ listed' = listed
      BY <1>8, <2>2 DEF NoEndPoint, End, TypeOK, others
    <3>2. Head(todo[p]) \in RoutedRpcs /\ routed[p] # Inode
      BY <1>1, <1>8 DEF NoEndPoint, Reachable, EndPoint, RoutedRpcs, Inode
    <3>3. todo[p] \in Seq(PlanStep)
      BY DEF TypeOK
    <3>4. ~Before(todo[p], RoutedRpcs, "router")
      BY <1>1, <3>2, <3>3, BeforeLemma
    <3>5. ~(Mds \subseteq listed)
      BY <1>2, <3>2, <3>4 DEF PlanInv
    <3>6. QED
      BY <1>2, <3>1, <3>5 DEF OwnInv, RunInv, Report
  <2>3. QED
    BY <2>1, <2>2
<1>9. QED
  BY <1>5, <1>6, <1>7, <1>8

\* What holds of p after a step of its own.
LEMMA OwnProcess ==
  ASSUME TypeOK, NEW p \in Proc, OwnInv(p), Process(p)
  PROVE  OwnInv(p)'
<1>1. CASE Answer(p) \/ Busy(p) \/ (\E d \in BOOLEAN : Lost(p, d)) \/ NoEndPoint(p)
  <2>1. AtRpc(p)
    BY <1>1 DEF Answer, Busy, Lost, NoEndPoint
  <2>2. QED
    BY <1>1, <2>1, RpcOwn
<1>2. QED
  BY <1>1, StartOwn, LocalOwn, MeasureOwn, CompareOwn, FinishOwn, ExitOwn DEF Process

-----------------------------------------------------------------------------
(* The inductive invariant.                                                *)

\* The mds is asked by a step of a process, or not.
LEMMA ProcessStore ==
  ASSUME TypeOK, StoreInv, MeasureInv, NEW p \in Proc, OwnInv(p), Process(p)
  PROVE  StoreInv' /\ DOMAIN executed' = Proc
<1>1. CASE Answer(p) \/ \E d \in BOOLEAN : Lost(p, d)
  <2>1. AtRpc(p) /\ inside' = inside
    BY <1>1 DEF Answer, Lost, others
  <2>2. cmd[p] \in Cmd /\ PlanInv(p)
    BY <2>1, RunningLemma DEF AtRpc
  <2>3. (Accepts(p, Method(W(p))) /\ Execute(p, Method(W(p)))) \/ NotExecuted
    BY <1>1 DEF Answer, Lost
  <2>4. CASE Accepts(p, Method(W(p))) /\ Execute(p, Method(W(p)))
    <3>1. StoreInv' /\ executed' = [executed EXCEPT ![p] = @ \cup {Method(W(p))}]
      BY <2>1, <2>2, <2>4, ExecuteLemma
    <3>2. QED
      BY <3>1 DEF TypeOK
  <2>5. CASE NotExecuted
    BY <2>1, <2>5, NotExecutedLemma DEF TypeOK
  <2>6. QED
    BY <2>3, <2>4, <2>5
<1>2. CASE Exit(p)
  <2>1. UNCHANGED <<mds, inside, asked, tainted>> /\ DOMAIN executed' = Proc
    BY <1>2 DEF Exit, TypeOK
  <2>2. QED
    BY <2>1 DEF StoreInv, StoreTypeOK, UsageExact, LimitAsAsked
<1>3. CASE \E c \in Cmd : Start(p, c)
  <2>1. NotExecuted /\ inside' = inside
    BY <1>3 DEF Start, NotExecuted
  <2>2. QED
    BY <2>1, NotExecutedLemma DEF TypeOK
<1>4. CASE \/ Local(p) \/ Router(p) \/ Measure(p) \/ Exists(p) \/ Compare(p) \/ Paths(p)
           \/ Finish(p) \/ Busy(p) \/ NoEndPoint(p)
  <2>1. NotExecuted /\ inside' = inside
    BY <1>4 DEF Local, Router, Measure, Exists, Compare, Paths, Finish, Busy, NoEndPoint, others
  <2>2. QED
    BY <2>1, NotExecutedLemma DEF TypeOK
<1>5. QED
  BY <1>1, <1>2, <1>3, <1>4 DEF Process

\* A measure is the usage of the moment.
LEMMA ProcessMeasure ==
  ASSUME TypeOK, MeasureInv, NEW p \in Proc, Process(p)
  PROVE  /\ MeasureInv'
         /\ scan' \in [Proc -> Nat \cup {-1}] /\ stale' \in [Proc -> BOOLEAN]
         /\ inside' = inside /\ listed' = listed
<1>1. CASE Measure(p)
  <2>1. CASE UNCHANGED <<scan, stale, inside, listed>>
    BY <2>1 DEF MeasureInv, TypeOK
  <2>2. CASE \E i \in Inode : /\ scan' = [scan EXCEPT ![p] = inside[i] + 1]
                              /\ stale' = [stale EXCEPT ![p] = FALSE] /\ UNCHANGED <<inside, listed>>
    <3>1. PICK i \in Inode : /\ scan' = [scan EXCEPT ![p] = inside[i] + 1]
                             /\ stale' = [stale EXCEPT ![p] = FALSE] /\ UNCHANGED <<inside, listed>>
      BY <2>2
    <3>2. inside[i] = inside[Dir] /\ inside[i] \in Nat /\ inside[Dir] \in Nat
      BY DEF MeasureInv, TypeOK, Inode
    <3>3. scan' \in [Proc -> Nat \cup {-1}] /\ scan'[p] = inside[Dir] + 1
      BY <3>1, <3>2 DEF TypeOK
    <3>4. stale' \in [Proc -> BOOLEAN]
      BY <3>1 DEF TypeOK
    <3>5. \A q \in Proc \ {p} : scan'[q] = scan[q] /\ stale'[q] = stale[q]
      BY <3>1 DEF TypeOK
    <3>6. MeasureInv'
      BY <3>1, <3>2, <3>3, <3>5 DEF MeasureInv
    <3>7. QED
      BY <3>1, <3>3, <3>4, <3>6
  <2>3. QED
    BY <1>1, <2>1, <2>2 DEF Measure, GetDirectorySizeAndInodes, Inode
<1>2. CASE Exit(p)
  <2>1. /\ scan' = [scan EXCEPT ![p] = -1] /\ stale' = [stale EXCEPT ![p] = FALSE]
        /\ UNCHANGED <<inside, listed>>
    BY <1>2 DEF Exit
  <2>2. scan' \in [Proc -> Nat \cup {-1}] /\ stale' \in [Proc -> BOOLEAN]
    BY <2>1 DEF TypeOK
  <2>3. scan'[p] = -1 /\ \A q \in Proc \ {p} : scan'[q] = scan[q] /\ stale'[q] = stale[q]
    BY <2>1 DEF TypeOK
  <2>4. MeasureInv'
    BY <2>1, <2>3 DEF MeasureInv
  <2>5. QED
    BY <2>1, <2>2, <2>4
<1>3. CASE UNCHANGED <<scan, stale, inside, listed>>
  BY <1>3 DEF MeasureInv, TypeOK
<1>4. QED
  BY <1>1, <1>2, <1>3
     DEF Process, Start, Local, Router, Exists, Compare, Paths, Finish, Answer, Busy, Lost, NoEndPoint, others

\* The types.
LEMMA ProcessTypeOK ==
  ASSUME IInv, NEW p \in Proc, OwnInv(p), Process(p)
  PROVE  TypeOK'
<1>1. /\ TypeOK /\ MeasureInv /\ StoreInv
  BY DEF IInv, StoreInv, StoreTypeOK, TypeOK
<1>2. /\ StoreTypeOK' /\ DOMAIN executed' = Proc
  BY <1>1, ProcessStore DEF StoreInv
<1>3. scan' \in [Proc -> Nat \cup {-1}] /\ stale' \in [Proc -> BOOLEAN] /\ inside' = inside /\ listed' = listed
  BY <1>1, ProcessMeasure
<1>4. todo[p] # <<>> => Tail(todo[p]) \in Seq(PlanStep)
  BY <1>1, RunningLemma
<1>5. \A S : <<>> \in Seq(S)
  BY EmptySeq
<1>6. Retries \in Nat
  BY MdsCommandsAssumption
<1> DEFINE Goal == /\ cmd' \in [Proc -> Cmd \cup {None}] /\ todo' \in [Proc -> Seq(PlanStep)]
                   /\ left' \in [Proc -> Nat] /\ DOMAIN seen' = Proc /\ routed' \in [Proc -> SUBSET Inode]
                   /\ outcome' \in [Proc -> Outcomes] /\ started' \in Nat
<1>7. ASSUME Advance(p), todo[p] # <<>>
      PROVE  /\ todo' \in [Proc -> Seq(PlanStep)] /\ left' \in [Proc -> Nat]
             /\ outcome' = outcome /\ cmd' = cmd
  BY <1>1, <1>4, <1>6, <1>7 DEF Advance, TypeOK
<1>8. ASSUME NEW how \in Outcomes, End(p, how)
      PROVE  /\ todo' \in [Proc -> Seq(PlanStep)] /\ left' = left
             /\ outcome' \in [Proc -> Outcomes] /\ cmd' = cmd
  BY <1>1, <1>5, <1>8 DEF End, TypeOK
<1>9. {"success", "error", "printed", "panic", "none", "running"} \subseteq Outcomes
  BY DEF Outcomes
<1>10. ASSUME NEW c \in Cmd, Start(p, c) PROVE Goal
  <2>1. Plan(c) \in Seq(PlanStep)
    BY PlanLemma DEF PlanOK
  <2>2. QED
    BY <1>1, <1>6, <1>9, <1>10, <2>1 DEF Start, TypeOK
<1>11. ASSUME Exit(p) PROVE Goal
  BY <1>1, <1>9, <1>11 DEF Exit, TypeOK
<1>12. ASSUME Router(p) PROVE Goal
  <2>1. routed' \in [Proc -> SUBSET Inode]
    BY <1>1, <1>12, RouterLemma DEF Router, TypeOK
  <2>2. QED
    BY <1>1, <1>7, <1>12, <2>1 DEF Router, At, others, TypeOK
<1>13. ASSUME Local(p) \/ Exists(p) \/ Compare(p) \/ Paths(p) \/ Finish(p) PROVE Goal
  <2>1. (todo[p] # <<>> /\ Advance(p)) \/ \E how \in Outcomes : End(p, how)
    BY <1>9, <1>13 DEF Local, Exists, Compare, Paths, Finish, At
  <2>2. UNCHANGED <<seen, routed, started>>
    BY <1>13 DEF Local, Exists, Compare, Paths, Finish, others
  <2>3. QED
    BY <1>1, <1>7, <1>8, <2>1, <2>2 DEF TypeOK
<1>14. ASSUME Measure(p) PROVE Goal
  <2>1. (todo[p] # <<>> /\ Advance(p)) \/ \E how \in Outcomes : End(p, how)
    BY <1>9, <1>14 DEF Measure, At
  <2>2. UNCHANGED <<seen, routed, started>>
    BY <1>14 DEF Measure
  <2>3. QED
    BY <1>1, <1>7, <1>8, <2>1, <2>2 DEF TypeOK
<1>15. ASSUME Answer(p) \/ Busy(p) \/ NoEndPoint(p) \/ \E d \in BOOLEAN : Lost(p, d) PROVE Goal
  <2>1. Fail(p) => \E how \in Outcomes : End(p, how)
    BY <1>9 DEF Fail
  <2>2. \/ todo[p] # <<>> /\ Advance(p)
        \/ \E how \in Outcomes : End(p, how)
        \/ left[p] > 0 /\ left' = [left EXCEPT ![p] = @ - 1] /\ UNCHANGED <<todo, cmd, outcome>>
    BY <1>9, <1>15, <2>1 DEF Answer, Busy, NoEndPoint, Lost, OnStatus, AtRpc
  <2>3. UNCHANGED <<routed, started>> /\ DOMAIN seen' = Proc
    BY <1>1, <1>15 DEF Answer, Busy, NoEndPoint, Lost, others, TypeOK
  <2>4. CASE left[p] > 0 /\ left' = [left EXCEPT ![p] = @ - 1] /\ UNCHANGED <<todo, cmd, outcome>>
    BY <1>1, <2>3, <2>4 DEF TypeOK
  <2>5. QED
    BY <1>1, <1>7, <1>8, <2>2, <2>3, <2>4 DEF TypeOK
<1>16. Goal
  BY <1>10, <1>11, <1>12, <1>13, <1>14, <1>15 DEF Process
<1>17. QED
  BY <1>1, <1>2, <1>3, <1>16 DEF TypeOK, StoreTypeOK

\* A file is written: it counts for the quotas, and overtakes what was measured.
LEMMA WriteFileStep ==
  ASSUME IInv, WriteFile
  PROVE  IInv'
<1> USE DEF IInv
<1>1. /\ inside' = [i \in Inode |-> inside[i] + 1]
      /\ mds' = [mds EXCEPT !.quota = [i \in Inode |-> Counted(mds.quota[i], 1)]]
      /\ stale' = [p \in Proc |-> scan[p] # -1]
      /\ UNCHANGED <<listed, cmd, todo, left, scan, seen, routed, outcome, executed, started, asked, tainted>>
  BY DEF WriteFile, process
<1>2. mds.quota \in [Inode -> Quota \cup {None}] /\ inside \in [Inode -> Nat] /\ Dir \in Inode /\ ROOTINODEID \in Inode
  BY DEF TypeOK, Inode
<1>3. ASSUME NEW u \in Quota
      PROVE  /\ Counted(u, 1) \in Quota /\ Counted(u, 1) # None /\ u # None
             /\ Counted(u, 1).max = u.max /\ Counted(u, 1).used = u.used + 1
  <2>1. u # None /\ Counted(u, 1) = [u EXCEPT !.used = @ + 1]
    BY DEF Counted, Quota, None
  <2>2. /\ Counted(u, 1).max = u.max /\ Counted(u, 1).used = u.used + 1
        /\ Counted(u, 1) \in Quota
    BY <2>1 DEF Quota
  <2>3. \A v \in Quota : v # None
    BY DEF Quota, None
  <2>4. QED
    BY <2>1, <2>2, <2>3
<1>4. Counted(None, 1) = None
  BY DEF Counted
<1>5. \A i \in Inode : /\ mds'.quota[i] = Counted(mds.quota[i], 1)
                       /\ mds'.quota[i] \in Quota \cup {None}
                       /\ mds'.quota[i] = None <=> mds.quota[i] = None
                       /\ mds'.quota[i] # None => /\ mds'.quota[i].max = mds.quota[i].max
                                                 /\ mds'.quota[i].used = mds.quota[i].used + 1
                                                 /\ mds.quota[i].used \in Int
  <2> SUFFICES ASSUME NEW i \in Inode
               PROVE  /\ mds'.quota[i] = Counted(mds.quota[i], 1)
                      /\ mds'.quota[i] \in Quota \cup {None}
                      /\ mds'.quota[i] = None <=> mds.quota[i] = None
                      /\ mds'.quota[i] # None => /\ mds'.quota[i].max = mds.quota[i].max
                                                /\ mds'.quota[i].used = mds.quota[i].used + 1
                                                /\ mds.quota[i].used \in Int
    OBVIOUS
  <2>1. mds'.quota[i] = Counted(mds.quota[i], 1)
    BY <1>1 DEF TypeOK
  <2>2. CASE mds.quota[i] = None
    BY <1>4, <2>1, <2>2
  <2>3. CASE mds.quota[i] \in Quota
    <3>1. mds.quota[i].used \in Int
      BY <2>3 DEF Quota
    <3>2. QED
      BY <1>3, <2>1, <2>3, <3>1
  <2>4. QED
    BY <1>2, <2>2, <2>3
<1>6. inside'[Dir] = inside[Dir] + 1 /\ inside'[ROOTINODEID] = inside[ROOTINODEID] + 1
  BY <1>1, <1>2
<1>7. TypeOK'
  <2>1. mds'.quota \in [Inode -> Quota \cup {None}]
    <3>1. mds'.quota = [i \in Inode |-> Counted(mds.quota[i], 1)]
      BY <1>1 DEF TypeOK
    <3>2. QED
      BY <1>5, <3>1
  <2>2. DOMAIN mds' = {"fs", "dirs", "quota", "member"} /\ inside' \in [Inode -> Nat]
    BY <1>1 DEF TypeOK
  <2>3. stale' \in [Proc -> BOOLEAN]
    BY <1>1
  <2>4. QED
    BY <1>1, <2>1, <2>2, <2>3 DEF TypeOK
<1>8. ProcInv'
  BY <1>1 DEF ProcInv, RunInv, PlanInv
<1>9. MeasureInv'
  BY <1>1, <1>6 DEF MeasureInv
<1>10. ReportTruthful'
  BY <1>1 DEF ReportTruthful, Promised
<1>11. UsageExact'
  BY <1>1, <1>2, <1>5, <1>6 DEF UsageExact
<1>12. LimitAsAsked'
  BY <1>1, <1>5 DEF LimitAsAsked
<1>13. QED
  BY <1>7, <1>8, <1>9, <1>10, <1>11, <1>12

\* The initial state.
LEMMA InitIInv == Init => IInv
<1> SUFFICES ASSUME Init PROVE IInv
  OBVIOUS
<1>1. TypeOK
  <2>1. DOMAIN mds = {"fs", "dirs", "quota", "member"} /\ mds.quota \in [Inode -> Quota \cup {None}]
    BY DEF Init, MdsInit
  <2>2. \A S : <<>> \in Seq(S)
    BY EmptySeq
  <2>3. QED
    BY <2>1, <2>2 DEF Init, TypeOK, Mds, Outcomes
<1>2. ProcInv
  BY DEF Init, ProcInv, RunInv
<1>3. MeasureInv
  BY DEF Init, MeasureInv, Inode
<1>4. ReportTruthful
  BY DEF Init, ReportTruthful
<1>5. \A i \in Inode : mds.quota[i] = None
  BY DEF Init, MdsInit
<1>6. UsageExact /\ LimitAsAsked
  BY <1>5 DEF UsageExact, LimitAsAsked, Inode
<1>7. QED
  BY <1>1, <1>2, <1>3, <1>4, <1>6 DEF IInv

\* IInv is inductive.
LEMMA NextIInv == IInv /\ [Next]_vars => IInv'
<1> SUFFICES ASSUME IInv, [Next]_vars PROVE IInv'
  OBVIOUS
<1>1. ASSUME NEW p \in Proc, Process(p) PROVE IInv'
  <2>1. /\ TypeOK /\ MeasureInv /\ StoreInv /\ \A q \in Proc : OwnInv(q)
    BY DEF IInv, StoreInv, StoreTypeOK, TypeOK, ProcInv, OwnInv, ReportTruthful, Report
  <2>2. TypeOK'
    BY <1>1, <2>1, ProcessTypeOK
  <2>3. MeasureInv' /\ StoreInv'
    BY <1>1, <2>1, ProcessStore, ProcessMeasure
  <2>4. \A q \in Proc : OwnInv(q)'
    BY <1>1, <2>1, OwnProcess, OtherProcess
  <2>5. ProcInv' /\ ReportTruthful'
    BY <2>4 DEF ProcInv, OwnInv, ReportTruthful, Report
  <2>6. QED
    BY <2>2, <2>3, <2>5 DEF IInv, StoreInv
<1>2. CASE WriteFile
  BY <1>2, WriteFileStep
<1>3. CASE RemoveDir
  <2> USE DEF IInv
  <2>1. /\ mds' = [mds EXCEPT !.dirs = @ \ {"d"}]
        /\ UNCHANGED <<inside, listed, cmd, todo, left, scan, seen, routed, outcome, executed, started, stale,
                       asked, tainted>>
    BY <1>3 DEF RemoveDir, process
  <2>2. mds'.quota = mds.quota /\ DOMAIN mds' = DOMAIN mds
    BY <2>1 DEF TypeOK
  <2>3. TypeOK'
    BY <2>1, <2>2 DEF TypeOK
  <2>4. ProcInv' /\ MeasureInv'
    BY <2>1 DEF ProcInv, RunInv, PlanInv, MeasureInv
  <2>5. ReportTruthful'
    BY <2>1 DEF ReportTruthful, Promised
  <2>6. UsageExact' /\ LimitAsAsked'
    BY <2>1, <2>2 DEF UsageExact, LimitAsAsked
  <2>7. QED
    BY <2>3, <2>4, <2>5, <2>6
<1>4. CASE UNCHANGED vars
  <2> USE DEF IInv
  <2>1. UNCHANGED <<mds, inside, listed, cmd, todo, left, scan, seen, routed, outcome, executed, started, stale,
                    asked, tainted>>
    BY <1>4 DEF vars, process
  <2>2. TypeOK'
    BY <2>1 DEF TypeOK
  <2>3. ProcInv' /\ MeasureInv'
    BY <2>1 DEF ProcInv, RunInv, PlanInv, MeasureInv
  <2>4. ReportTruthful'
    BY <2>1 DEF ReportTruthful, Promised
  <2>5. UsageExact' /\ LimitAsAsked'
    BY <2>1 DEF UsageExact, LimitAsAsked
  <2>6. QED
    BY <2>2, <2>3, <2>4, <2>5
<1>5. QED
  BY <1>1, <1>2, <1>3, <1>4 DEF Next, Quiet

\* Every reachable state satisfies the inductive invariant.
LEMMA Invariance == Spec => []IInv
  BY InitIInv, NextIInv, PTL DEF Spec

\* A command that prints success did what it promises, and GetRpcResponse panics for
\* want of an address only when the cluster lists fewer mds than the file system
\* names, however many requests are lost, repeated or refused.
THEOREM ReportsAreTruthful == Spec => []ReportTruthful
  BY Invariance, PTL DEF IInv

\* The stored usage of a directory is exact unless a write overtook the measure that
\* set it.
THEOREM UsageIsExact == Spec => []UsageExact
  BY Invariance, PTL DEF IInv

\* A limit that fits the signed width is the capacity last asked for, for every
\* width, and repairs leave it alone.
THEOREM LimitsAreAsAsked == Spec => []LimitAsAsked
  BY Invariance, PTL DEF IInv

=============================================================================
