---------------------------- MODULE MdsCommands ----------------------------
(***************************************************************************)
(* The commands that talk to the mds: fs create, delete, list, query,      *)
(* mountpoint and usage, subpath create, quota and config (the quota of    *)
(* the file system) set, get, list, check and delete, and the cache group  *)
(* commands. A command is a plan of local steps and of rpcs; every attempt *)
(* of an rpc may be lost before or after the mds executed it, and is       *)
(* repeated as GetRpcResponse does (module Rpc). The processes interleave  *)
(* with each other and with a client that writes files and removes the     *)
(* directory.                                                              *)
(***************************************************************************)
EXTENDS Integers, Sequences, FiniteSets

CONSTANTS Proc,         \* dingocli processes, one command at a time
          Retries,      \* --rpcretrytimes
          MaxCommands,  \* bound: commands started in all
          MaxFiles,     \* bound: files the client writes
          Bits,         \* width of the signed integers that hold a limit
          GiB,          \* 1024 * 1024 * 1024, scaled with Bits
          Capacity      \* values given to --capacity

ASSUME MdsCommandsAssumption ==
    /\ Retries \in Nat
    /\ GiB \in Nat \ {0} /\ Capacity \subseteq Nat

\* The width has a sign bit and at least one more.
ASSUME WidthAssumption ==
    /\ Bits \in Nat /\ 2^Bits \in Nat /\ 2^(Bits - 1) \in Nat \ {0, 1}
    /\ 2^Bits = 2^(Bits - 1) + 2^(Bits - 1)

VARIABLES mds,          \* the state of the metadata servers
          inside,       \* inside[i]: inodes below directory i
          listed,       \* the mds that GetMDSList answers with
          cmd,          \* the command of p, or None
          todo,         \* what is left of its plan
          left,         \* retries left for the rpc it is in
          scan,         \* usage it measured, -1 before
          seen,         \* quota or entries it was answered, or None
          routed,       \* inodes its router finds an mds for
          executed,     \* service methods the mds executed for it without error
          outcome,      \* how its last command ended
          started,      \* number of commands started
          stale,        \* stale[p]: a file was written since p measured the usage
          asked,        \* asked[i]: capacity of the last limit the mds took over for i
          tainted       \* the stored usage was set from a stale measure

process == <<cmd, todo, left, scan, seen, routed, outcome>>
vars == <<mds, inside, listed, process, executed, started, stale, asked, tainted>>

None == [none |-> TRUE]
ROOTINODEID == 1
Dir == 3                 \* the inode of the directory the commands are given
Inode == {ROOTINODEID, Dir}
Mds == {"m1", "m2"}

-----------------------------------------------------------------------------
(* The typed rpcs and the service method each of them calls.               *)

FsMethod ==
    [GetMDSRpc |-> "GetMDSList", GetMdsRpc |-> "GetMDSList", CreateFsRpc |-> "CreateFs", DeleteFsRpc |-> "DeleteFs",
     ListFsRpc |-> "ListFsInfo", GetFsRpc |-> "GetFsInfo", SetFsQuotaRpc |-> "SetFsQuota",
     GetFsQuotaRpc |-> "GetFsQuota", GetInodeRpc |-> "GetInode", MkDirRpc |-> "MkDir",
     ListDentryRpc |-> "ListDentry", GetDentryRpc |-> "GetDentry"]
DirQuotaMethod ==
    [SetDirQuotaRpc |-> "SetDirQuota", GetDirQuotaRpc |-> "GetDirQuota",
     ListDirQuotaRpc |-> "LoadDirQuotas", DeleteDirQuotaRpc |-> "DeleteDirQuota"]
CacheMethod ==
    [ListCacheGroupRpc |-> "ListGroups", ListCacheMemberRpc |-> "ListMembers",
     ReWeightMemberRpc |-> "ReweightMember", LeaveCacheMemberRpc |-> "LeaveCacheGroup",
     DeleteCacheMemberRpc |-> "DeleteMember", UnlockCacheMemberRpc |-> "UnlockMember"]

Rpcs == DOMAIN FsMethod \cup DOMAIN DirQuotaMethod \cup DOMAIN CacheMethod
Method(w) == CASE w \in DOMAIN FsMethod -> FsMethod[w]
               [] w \in DOMAIN DirQuotaMethod -> DirQuotaMethod[w]
               [] w \in DOMAIN CacheMethod -> CacheMethod[w]

-----------------------------------------------------------------------------
(* The plans. A command given --fsname asks for the file system first to   *)
(* learn its id, one given --fsid to learn its epoch: the answer is cached, *)
(* so either way GetFsInfo is sent once.                                   *)

Routed == <<"GetFsRpc", "GetMDSRpc", "router">>
Located == Routed \o <<"GetDentryRpc">>

FsCreate == <<"storage", "CreateFsRpc">>
FsDelete == <<"confirm", "DeleteFsRpc">>
FsList == <<"ListFsRpc">>
FsQuery == <<"GetFsRpc">>
FsMountpoint == <<"ListFsRpc">>
FsUsage == <<"ListFsRpc", "GetMDSRpc", "router", "measure_root">>
\* A directory in the root: the parent "/" needs no lookup.
SubpathCreate == Routed \o <<"ListDentryRpc", "exists", "MkDirRpc">>
QuotaSet == <<"quota_value">> \o Located \o <<"measure_dir", "SetDirQuotaRpc">>
QuotaGet == Located \o <<"GetDirQuotaRpc">>
QuotaDelete == Located \o <<"DeleteDirQuotaRpc">>
ConfigSet == <<"quota_value", "GetFsRpc", "SetFsQuotaRpc">>
ConfigGet == <<"GetFsRpc", "GetFsQuotaRpc">>
\* With --format json the command prints the quota and returns before it measures.
QuotaCheck(c) == QuotaGet \o IF c.json THEN <<>> ELSE <<"measure_dir", "compare", "SetDirQuotaRpc">>
QuotaList(c) == Routed \o <<"ListDirQuotaRpc">> \o IF c.json THEN <<>> ELSE <<"paths">>
ConfigCheck(c) == Routed \o <<"GetFsQuotaRpc">>
                  \o IF c.json THEN <<>> ELSE <<"measure_root", "compare", "SetFsQuotaRpc">>
MdsStatus == <<"GetMdsRpc">>
MemberSet == <<"ReWeightMemberRpc">>
MemberLeave == <<"LeaveCacheMemberRpc">>
MemberUnlock == <<"UnlockCacheMemberRpc">>
MemberDelete == <<"confirm", "DeleteCacheMemberRpc">>
MemberList == <<"ListCacheMemberRpc">>
GroupList == <<"ListCacheGroupRpc">>

Plan(c) ==
    CASE c.name = "fs_create" -> FsCreate [] c.name = "fs_delete" -> FsDelete
      [] c.name = "fs_list" -> FsList [] c.name = "fs_query" -> FsQuery
      [] c.name = "fs_mountpoint" -> FsMountpoint [] c.name = "fs_usage" -> FsUsage
      [] c.name = "subpath_create" -> SubpathCreate
      [] c.name = "quota_set" -> QuotaSet [] c.name = "quota_get" -> QuotaGet
      [] c.name = "quota_list" -> QuotaList(c) [] c.name = "quota_delete" -> QuotaDelete
      [] c.name \in {"quota_check", "quota_repair"} -> QuotaCheck(c)
      [] c.name = "config_set" -> ConfigSet [] c.name = "config_get" -> ConfigGet
      [] c.name \in {"config_check", "config_repair"} -> ConfigCheck(c)
      [] c.name = "mds_status" -> MdsStatus
      [] c.name = "member_set" -> MemberSet [] c.name = "member_leave" -> MemberLeave
      [] c.name = "member_unlock" -> MemberUnlock [] c.name = "member_delete" -> MemberDelete
      [] c.name = "member_list" -> MemberList [] c.name = "group_list" -> GroupList

\* SetS3Info and SetRadosInfo: what each storage type must be given (the name of
\* the ceph cluster has a default).
RequiredInfo == [S3 |-> {"ak", "sk", "endpoint", "bucketname"},
                 RADOS |-> {"username", "key", "mon", "poolname"}]
InfoComplete(st) == st.type \in DOMAIN RequiredInfo /\ RequiredInfo[st.type] \subseteq st.given
Storage == {[type |-> "S3", given |-> RequiredInfo.S3], [type |-> "S3", given |-> {"ak", "sk"}],
            [type |-> "RADOS", given |-> RequiredInfo.RADOS], [type |-> "NFS", given |-> {}]}

Plain == {"fs_list", "fs_query", "fs_mountpoint", "fs_usage", "quota_get", "quota_list", "config_get",
          "config_check", "config_repair", "quota_check", "quota_repair", "quota_delete",
          "mds_status", "member_set", "member_leave", "member_unlock", "member_delete", "member_list", "group_list"}
Cmd == [name: Plain, json: BOOLEAN]
       \cup [name: {"fs_create"}, fs: {"f", "g"}, storage: Storage, json: {FALSE}]
       \cup [name: {"fs_delete"}, fs: {"f", "g"}, json: {FALSE}]
       \cup [name: {"subpath_create"}, dir: {"d", "e"}, json: {FALSE}]
       \cup [name: {"quota_set", "config_set"}, capacity: Capacity, json: {FALSE}]

-----------------------------------------------------------------------------
(* Limits: --capacity is an unsigned number of GiB, the limit a signed     *)
(* number of bytes, and 0 stands for no limit.                             *)

MaxInt == 2^(Bits - 1) - 1
Signed(n) == LET m == n % 2^Bits IN IF m > MaxInt THEN m - 2^Bits ELSE m
GetQuotaValueUnscaled(capacity) == IF capacity = 0 THEN MaxInt ELSE Signed(capacity)
GetQuotaValue(capacity) == IF Signed(capacity * GiB) = 0 THEN MaxInt ELSE Signed(capacity * GiB)

\* utils.CheckQuota: the stored usage against the measured one.
CheckQuota(quota, measured) == quota.used = measured

\* GetDirectorySizeAndInodes (module Walk) and the directory itself.
GetDirectorySizeAndInodesOpen(i) == inside[i]
GetDirectorySizeAndInodes(i) == inside[i] + 1

-----------------------------------------------------------------------------
(* The router: which inode has an mds. HashMDSRouter.Init walks a map in   *)
(* any order and stops at the first mds that is not listed.                *)

BucketNum == 3
Distributions == [m1 |-> {0, 2}, m2 |-> {1}]
Bucket(i) == i % BucketNum
Served(ms) == {i \in Inode: \E m \in ms: Bucket(i) \in Distributions[m]}
HashInit == {Served(ms): ms \in IF Mds \subseteq listed THEN {Mds} ELSE SUBSET (listed \cap Mds)}
MonoInit == {IF "m1" \in listed THEN Inode ELSE {}}
InitFsMDSRouter(type) == IF type = "hash" THEN HashInit ELSE MonoInit

\* The inode whose mds an rpc is sent to, or None for the --mdsaddr list.
\* `quota check --repair` sends to the list.
EndPoint(c, w) ==
    CASE w \in {"GetDentryRpc", "ListDentryRpc", "MkDirRpc"} -> {ROOTINODEID}
      [] w \in {"GetDirQuotaRpc", "DeleteDirQuotaRpc"} -> {Dir}
      [] w = "SetDirQuotaRpc" /\ c.name = "quota_set" -> {Dir}
      [] OTHER -> {}
\* GetDentry and ListDentry look at the endpoint before they call.
EndPointChecked == {"GetDentryRpc", "ListDentryRpc"}

-----------------------------------------------------------------------------
(* The metadata servers, from the way the commands use them.               *)

MdsInit == [fs |-> {"f"}, dirs |-> {"d"}, quota |-> [i \in Inode |-> None],
            member |-> [group |-> TRUE, weight |-> 100, locked |-> TRUE, known |-> TRUE]]

\* A quota message without limits leaves the limits, one without usage the usage.
Merge(old, new) ==
    [max |-> IF new.max = 0 THEN (IF old = None THEN 0 ELSE old.max) ELSE new.max,
     used |-> IF new.used = 0 THEN (IF old = None THEN 0 ELSE old.used) ELSE new.used]

RepairRequest(p) == [max |-> 0, used |-> scan[p]]
SetRequest(p) == [max |-> GetQuotaValue(cmd[p].capacity), used |-> IF scan[p] = -1 THEN 0 ELSE scan[p]]
QuotaRequest(p) == IF "capacity" \in DOMAIN cmd[p] THEN SetRequest(p) ELSE RepairRequest(p)
Target(m) == IF m = "SetFsQuota" \/ m = "GetFsQuota" THEN ROOTINODEID ELSE Dir

Accepts(p, m) ==
    CASE m = "CreateFs" -> cmd[p].fs \notin mds.fs
      [] m = "DeleteFs" -> cmd[p].fs \in mds.fs
      [] m = "MkDir" -> cmd[p].dir \notin mds.dirs
      [] m \in {"GetDentry", "SetDirQuota"} -> "d" \in mds.dirs
      [] m \in {"GetDirQuota", "GetFsQuota", "DeleteDirQuota"} -> mds.quota[Target(m)] # None
      [] m \in {"ReweightMember", "LeaveCacheGroup", "UnlockMember", "DeleteMember"} -> mds.member.known
      [] OTHER -> TRUE

Applied(p, m) ==
    CASE m = "CreateFs" -> [mds EXCEPT !.fs = @ \cup {cmd[p].fs}]
      [] m = "DeleteFs" -> [mds EXCEPT !.fs = @ \ {cmd[p].fs}]
      [] m = "MkDir" -> [mds EXCEPT !.dirs = @ \cup {cmd[p].dir}]
      [] m \in {"SetDirQuota", "SetFsQuota"} ->
            [mds EXCEPT !.quota[Target(m)] = Merge(@, QuotaRequest(p))]
      [] m = "DeleteDirQuota" -> [mds EXCEPT !.quota[Dir] = None]
      [] m = "ReweightMember" -> [mds EXCEPT !.member.weight = 50]
      [] m = "LeaveCacheGroup" -> [mds EXCEPT !.member.group = FALSE]
      [] m = "UnlockMember" -> [mds EXCEPT !.member.locked = FALSE]
      [] m = "DeleteMember" -> [mds EXCEPT !.member.known = FALSE]
      [] OTHER -> mds

Execute(p, m) ==
    /\ mds' = Applied(p, m)
    /\ executed' = [executed EXCEPT ![p] = @ \cup {m}]
    /\ asked' = IF m \in {"SetDirQuota", "SetFsQuota"} /\ "capacity" \in DOMAIN cmd[p]
                THEN [asked EXCEPT ![Target(m)] = cmd[p].capacity] ELSE asked
    /\ tainted' = IF m = "SetDirQuota" THEN stale[p] ELSE tainted

NotExecuted == UNCHANGED <<mds, executed, asked, tainted>>

-----------------------------------------------------------------------------

Init == /\ mds = MdsInit
        /\ inside = [i \in Inode |-> 1]
        /\ listed \in {Mds, {"m1"}, {"m2"}}
        /\ cmd = [p \in Proc |-> None] /\ todo = [p \in Proc |-> <<>>]
        /\ left = [p \in Proc |-> 0] /\ scan = [p \in Proc |-> -1]
        /\ seen = [p \in Proc |-> None] /\ routed = [p \in Proc |-> {}]
        /\ executed = [p \in Proc |-> {}] /\ outcome = [p \in Proc |-> "none"]
        /\ started = 0 /\ stale = [p \in Proc |-> FALSE]
        /\ asked = [i \in Inode |-> 0] /\ tainted = FALSE

Start(p, c) ==
    /\ cmd[p] = None /\ started < MaxCommands
    /\ cmd' = [cmd EXCEPT ![p] = c]
    /\ todo' = [todo EXCEPT ![p] = Plan(c)]
    /\ left' = [left EXCEPT ![p] = Retries]
    /\ outcome' = [outcome EXCEPT ![p] = "running"]
    /\ started' = started + 1
    /\ UNCHANGED <<mds, inside, listed, scan, seen, routed, executed, stale, asked, tainted>>

At(p, step) == todo[p] # <<>> /\ Head(todo[p]) = step

Advance(p) == /\ todo' = [todo EXCEPT ![p] = Tail(@)]
              /\ left' = [left EXCEPT ![p] = Retries]
              /\ UNCHANGED <<cmd, outcome>>

\* The command returns; its process ends.
End(p, how) == /\ outcome' = [outcome EXCEPT ![p] = how]
               /\ todo' = [todo EXCEPT ![p] = <<>>]
               /\ UNCHANGED <<cmd, left>>

\* The last rpc of a command is the one it reports; one before it ends it.
Reported(p) == /\ cmd[p].name # "fs_usage"
               /\ \A n \in 2..Len(todo[p]): todo[p][n] \notin Rpcs

\* An rpc failed: --format json prints the error of the reported rpc and exits 0.
Fail(p) == End(p, IF cmd[p].json /\ Reported(p) THEN "printed" ELSE "error")

others == <<inside, listed, started, stale>>

\* The storage flags, the quota flags (one of two is required) and the answer to
\* the confirmation may end a command before its first write.
Local(p) ==
    /\ \/ At(p, "storage") /\ IF InfoComplete(cmd[p].storage) THEN Advance(p) ELSE End(p, "error")
       \/ (At(p, "quota_value") \/ At(p, "confirm")) /\ (Advance(p) \/ End(p, "error"))
    /\ UNCHANGED <<scan, seen, routed>> /\ NotExecuted /\ UNCHANGED others

Router(p) ==
    /\ At(p, "router")
    /\ \E type \in {"hash", "mono"}: \E r \in InitFsMDSRouter(type): routed' = [routed EXCEPT ![p] = r]
    /\ Advance(p)
    /\ UNCHANGED <<scan, seen>> /\ NotExecuted /\ UNCHANGED others

\* The scan fails as a whole or measures the directory.
Measure(p) ==
    /\ \E s \in {"measure_dir", "measure_root"}: At(p, s)
    /\ LET i == IF At(p, "measure_dir") THEN Dir ELSE ROOTINODEID IN
       \/ /\ i \in routed[p]
          /\ scan' = [scan EXCEPT ![p] = GetDirectorySizeAndInodes(i)]
          /\ stale' = [stale EXCEPT ![p] = FALSE]
          /\ Advance(p)
       \/ \* fs usage leaves the loop, prints the rows it has and returns nil
          /\ End(p, IF cmd[p].name = "fs_usage" THEN (IF cmd[p].json THEN "printed" ELSE "success") ELSE "error")
          /\ UNCHANGED <<scan, stale>>
    /\ UNCHANGED <<seen, routed, inside, listed, started>> /\ NotExecuted

\* checkPathIsExist fails when the name is NOT there.
Exists(p) ==
    /\ At(p, "exists")
    /\ IF cmd[p].dir \in seen[p].dirs THEN Advance(p) ELSE End(p, "error")
    /\ UNCHANGED <<scan, seen, routed>> /\ NotExecuted /\ UNCHANGED others

\* The repair is sent only with --repair and when the usages differ.
Compare(p) ==
    /\ At(p, "compare")
    /\ IF cmd[p].name \in {"quota_repair", "config_repair"} /\ ~CheckQuota(seen[p], scan[p])
       THEN Advance(p) ELSE End(p, "success")
    /\ UNCHANGED <<scan, seen, routed>> /\ NotExecuted /\ UNCHANGED others

\* GetInodePath of every quota it was answered: any lookup may fail, and one of an
\* inode that is gone does, with an error that is never syscall.ENOENT.
Paths(p) ==
    /\ At(p, "paths")
    /\ \/ seen[p] = None /\ Advance(p)
       \/ seen[p] # None /\ Inode \subseteq routed[p] /\ "d" \in mds.dirs /\ Advance(p)
       \/ seen[p] # None /\ End(p, "error")
    /\ UNCHANGED <<scan, seen, routed>> /\ NotExecuted /\ UNCHANGED others

Finish(p) ==
    /\ cmd[p] # None /\ todo[p] = <<>> /\ outcome[p] = "running"
    /\ End(p, IF cmd[p].json THEN "printed" ELSE "success")
    /\ UNCHANGED <<scan, seen, routed>> /\ NotExecuted /\ UNCHANGED others

\* The process exits.
Exit(p) ==
    /\ outcome[p] \in {"success", "error", "printed"}
    /\ cmd' = [cmd EXCEPT ![p] = None]
    /\ left' = [left EXCEPT ![p] = 0]
    /\ scan' = [scan EXCEPT ![p] = -1]
    /\ seen' = [seen EXCEPT ![p] = None]
    /\ routed' = [routed EXCEPT ![p] = {}]
    /\ executed' = [executed EXCEPT ![p] = {}]
    /\ stale' = [stale EXCEPT ![p] = FALSE]
    /\ outcome' = [outcome EXCEPT ![p] = "none"]
    /\ UNCHANGED <<mds, inside, listed, todo, started, asked, tainted>>

-----------------------------------------------------------------------------

AtRpc(p) == todo[p] # <<>> /\ Head(todo[p]) \in Rpcs
W(p) == Head(todo[p])
Reachable(p) == EndPoint(cmd[p], W(p)) \subseteq routed[p]

\* Answered: executed when the mds accepts it, an error status otherwise.
OnStatusIgnored(p, ok) == IF ok \/ Reported(p) THEN Advance(p) ELSE Fail(p)
OnStatus(p, ok) == IF ok THEN Advance(p) ELSE Fail(p)
Answer(p) ==
    /\ AtRpc(p) /\ Reachable(p)
    /\ LET m == Method(W(p)) IN
       /\ IF Accepts(p, m) THEN Execute(p, m) ELSE NotExecuted
       /\ OnStatus(p, Accepts(p, m))
       /\ seen' = [seen EXCEPT ![p] = IF m \in {"GetDirQuota", "GetFsQuota", "LoadDirQuotas"} THEN mds.quota[Target(m)]
                                      ELSE IF m = "ListDentry" THEN [dirs |-> mds.dirs] ELSE @]
    /\ UNCHANGED <<scan, routed>> /\ UNCHANGED others

\* A status that asks for a retry, without effect: the request is repeated while
\* retries are left, then the caller finds the error in the answer.
Busy(p) ==
    /\ AtRpc(p) /\ Reachable(p)
    /\ IF left[p] > 0
       THEN left' = [left EXCEPT ![p] = @ - 1] /\ UNCHANGED <<todo, cmd, outcome>>
       ELSE OnStatus(p, FALSE)
    /\ UNCHANGED <<scan, seen, routed>> /\ NotExecuted /\ UNCHANGED others

\* No answer, before or after the mds executed the request.
Lost(p, delivered) ==
    /\ AtRpc(p) /\ Reachable(p)
    /\ IF delivered /\ Accepts(p, Method(W(p))) THEN Execute(p, Method(W(p))) ELSE NotExecuted
    /\ IF left[p] > 0
       THEN left' = [left EXCEPT ![p] = @ - 1] /\ UNCHANGED <<todo, cmd, outcome>>
       ELSE Fail(p)
    /\ UNCHANGED <<scan, seen, routed>> /\ UNCHANGED others

\* No endpoint: an error where the code looks, a call without addresses elsewhere.
NoEndPoint(p) ==
    /\ AtRpc(p) /\ ~Reachable(p)
    /\ End(p, IF W(p) \in EndPointChecked THEN "error" ELSE "panic")
    /\ UNCHANGED <<scan, seen, routed>> /\ NotExecuted /\ UNCHANGED others

-----------------------------------------------------------------------------
(* The file system client: the mds keeps the stored usage up to date.      *)

Counted(quota, files) == IF quota = None THEN None ELSE [quota EXCEPT !.used = @ + files]

WriteFile ==
    /\ inside[Dir] <= MaxFiles /\ "d" \in mds.dirs
    /\ inside' = [i \in Inode |-> inside[i] + 1]
    /\ mds' = [mds EXCEPT !.quota = [i \in Inode |-> Counted(@[i], 1)]]
    /\ stale' = [p \in Proc |-> scan[p] # -1]
    /\ UNCHANGED <<listed, process, executed, started, asked, tainted>>

RemoveDir ==
    /\ inside[Dir] = 1 /\ "d" \in mds.dirs
    /\ mds' = [mds EXCEPT !.dirs = @ \ {"d"}]
    /\ UNCHANGED <<inside, listed, process, executed, started, stale, asked, tainted>>

Process(p) == \/ \E c \in Cmd: Start(p, c)
              \/ Local(p) \/ Router(p) \/ Measure(p) \/ Exists(p) \/ Compare(p) \/ Paths(p)
              \/ Finish(p) \/ Exit(p)
              \/ Answer(p) \/ Busy(p) \/ (\E d \in BOOLEAN: Lost(p, d)) \/ NoEndPoint(p)

Quiet == started = MaxCommands /\ (\A p \in Proc: cmd[p] = None \/ outcome[p] = "panic") /\ UNCHANGED vars

Next == (\E p \in Proc: Process(p)) \/ WriteFile \/ RemoveDir \/ Quiet

Spec == Init /\ [][Next]_vars
-----------------------------------------------------------------------------

\* What the success message of a command says the mds has done.
Promised(p) ==
    CASE cmd[p].name \in {"quota_repair", "config_repair"} ->
            \/ CheckQuota(seen[p], scan[p])
            \/ executed[p] \cap {"SetDirQuota", "SetFsQuota"} # {}
      [] OTHER -> \A w \in {"CreateFsRpc", "DeleteFsRpc", "MkDirRpc", "SetDirQuotaRpc", "SetFsQuotaRpc",
                            "DeleteDirQuotaRpc", "ReWeightMemberRpc", "LeaveCacheMemberRpc",
                            "UnlockCacheMemberRpc", "DeleteCacheMemberRpc"}:
                    (\E n \in DOMAIN Plan(cmd[p]): Plan(cmd[p])[n] = w) /\ cmd[p].name # "quota_check"
                       /\ cmd[p].name # "config_check" => Method(w) \in executed[p]

\* A command prints "Successfully ..." only when the mds executed its request,
\* however many attempts were lost, repeated or refused on the way.  It panics in
\* GetRpcResponse, for want of an address, only when the cluster lists fewer mds
\* than the partition of the file system names: a complete list routes every inode.
ReportTruthful ==
    \A p \in Proc: /\ outcome[p] = "success" => Promised(p)
                   /\ outcome[p] = "panic" => ~(Mds \subseteq listed)

\* The stored usage of a directory with a quota is its real usage unless a file
\* was written between the measure and the request of a `quota set` or a
\* `quota check --repair` (set.go:138-148, check.go:143-162).
UsageExact == mds.quota[Dir] # None /\ ~tainted => mds.quota[Dir].used = inside[Dir] + 1

\* A limit is the capacity last asked for, 0 meaning none, as long as it fits the
\* signed width (GetQuotaValue multiplies without looking), and repairs leave it.
LimitAsAsked ==
    \A i \in Inode: mds.quota[i] # None /\ mds.quota[i].max # 0 /\ asked[i] * GiB <= MaxInt =>
        mds.quota[i].max = IF asked[i] = 0 THEN MaxInt ELSE asked[i] * GiB

=============================================================================
