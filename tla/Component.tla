------------------------------ MODULE Component ------------------------------
(***************************************************************************)
(* The component manager: the commands `component install`, `update`,      *)
(* `uninstall` and `use`, and the start of a component by `fs mount`,      *)
(* `mds start`, `mds meta` and `cache start`.                              *)
(*                                                                         *)
(* Every command is a process of its own.  It fetches the list of builds   *)
(* from the mirror, reads installed.json, works on its copy, and writes    *)
(* the whole file back.  Nothing is locked, and a process can be killed    *)
(* between any two steps.                                                  *)
(***************************************************************************)
EXTENDS Naturals, Sequences, Functions

CONSTANTS
    Proc,           \* the processes
    Products,       \* the pairs of a name and a version that exist
    Rank,           \* a version's place in the order of strings after "v0.0.0"; 0 for main
    FirstBuilds,    \* what the mirror may have at the beginning, 0 or 1 of each product
    Requests,       \* the commands that may be given
    MaxBuild,       \* bound: builds published after the first ones
    MaxCommands,    \* bound: commands
    MaxKills        \* bound: killed processes

Operations == {"install", "update", "updateall", "use", "uninstall", "uninstallall", "start"}

ASSUME ComponentAssumption ==
    /\ Products \subseteq STRING \X STRING
    /\ \A x \in Products : Rank[x[2]] \in Nat
    /\ FirstBuilds \subseteq [Products -> {0, 1}]
    /\ Requests \subseteq [op : Operations, args : Seq(STRING \X STRING), force : BOOLEAN]
    /\ \A r \in Requests : r.op \in {"use", "uninstall", "uninstallall", "start"} => r.args # <<>>
    /\ MaxBuild \in Nat /\ MaxCommands \in Nat /\ MaxKills \in Nat

VARIABLES
    repo,       \* the newest build of every product on the mirror, 0 if none
    disk,       \* the contents of installed.json: a sequence of entries
    torn,       \* whether installed.json was truncated and not written yet
    bin,        \* the build of every product's binary on disk
    pc, req, queue, mem, snap,
    overlap,    \* for the properties: two processes ran at the same time
    cut,        \* for the properties: what an uninstall removed that did not get to save
    last,       \* the last command that returned
    commands, kills

local == <<pc, req, queue, mem, snap>>
vars == <<repo, disk, torn, bin, local, overlap, cut, last, commands, kills>>

NoFile == 0
Page == MaxBuild + 2    \* what is no binary: an error page of the mirror
Names == {x[1] : x \in Products}
Latest == "latest"

Entry(x, build, active) == [name |-> x[1], version |-> x[2], release |-> build, active |-> active]
Of(e) == <<e.name, e.version>>

Idle == [op |-> "none", args |-> <<>>, force |-> FALSE]
NoReturn == [req |-> Idle, out |-> "none", snap |-> [x \in Products |-> 0]]

Init ==
    /\ repo \in FirstBuilds
    /\ disk = <<>>
    /\ torn = FALSE
    /\ bin = [x \in Products |-> NoFile]
    /\ pc = [p \in Proc |-> "idle"]
    /\ req = [p \in Proc |-> Idle]
    /\ queue = [p \in Proc |-> <<>>]
    /\ mem = [p \in Proc |-> <<>>]
    /\ snap = [p \in Proc |-> [x \in Products |-> 0]]
    /\ overlap = FALSE
    /\ cut = {}
    /\ last = NoReturn
    /\ commands = 0
    /\ kills = 0

Reset(p) ==
    /\ pc' = [pc EXCEPT ![p] = "idle"]
    /\ req' = [req EXCEPT ![p] = Idle]
    /\ queue' = [queue EXCEPT ![p] = <<>>]
    /\ mem' = [mem EXCEPT ![p] = <<>>]
    /\ snap' = [snap EXCEPT ![p] = [x \in Products |-> 0]]

Return(p, out) ==
    /\ Reset(p)
    /\ last' = [req |-> req[p], out |-> out, snap |-> snap[p]]

Go(p, l) ==
    /\ pc' = [pc EXCEPT ![p] = l]
    /\ UNCHANGED last

-----------------------------------------------------------------------------
(* The mirror publishes a build.  The operator gives a command. *)

(* Builds are stamped with the time: a new one is above all others. *)
MaxOf(builds) == CHOOSE b \in Range(builds) : \A c \in Range(builds) : c <= b

Publish(x) ==
    /\ \A y \in Products : repo[y] <= MaxBuild
    /\ repo' = [repo EXCEPT ![x] = 1 + MaxOf(repo)]
    /\ UNCHANGED <<disk, torn, bin, local, overlap, cut, last, commands, kills>>

Start(p, r) ==
    /\ pc[p] = "idle"
    /\ commands < MaxCommands
    /\ commands' = commands + 1
    /\ pc' = [pc EXCEPT ![p] = "load"]
    /\ req' = [req EXCEPT ![p] = r]
    /\ overlap' = (overlap \/ \E q \in Proc \ {p} : pc[q] # "idle")
    /\ last' = NoReturn
    /\ UNCHANGED <<repo, disk, torn, bin, queue, mem, snap, cut, kills>>

(* NewComponentManager: the mirror may be out of reach, and a torn file    *)
(* cannot be parsed.  `update --all` takes its arguments from the file.    *)
LoadFails(p) ==
    /\ pc[p] = "load"
    /\ Return(p, "failed")
    /\ UNCHANGED <<repo, disk, torn, bin, overlap, cut, commands, kills>>

Actives(list, n) == {i \in DOMAIN list : list[i].name = n /\ list[i].active}
Arguments(r, list) == IF r.op = "updateall" THEN [i \in DOMAIN list |-> Of(list[i])] ELSE r.args

LoadPc(r, list) ==
    CASE r.op \in {"install", "update", "updateall"} -> "next"
      [] r.op = "start" -> IF Actives(list, r.args[1][1]) = {} THEN "next" ELSE "exec"
      [] OTHER -> r.op

Load(p) ==
    /\ pc[p] = "load"
    /\ ~torn
    /\ mem' = [mem EXCEPT ![p] = disk]
    /\ snap' = [snap EXCEPT ![p] = repo]
    /\ queue' = [queue EXCEPT ![p] = Arguments(req[p], disk)]
    /\ Go(p, LoadPc(req[p], disk))
    /\ UNCHANGED <<repo, disk, torn, bin, req, overlap, cut, commands, kills>>

-----------------------------------------------------------------------------
(* installOrUpdateComponent *)

(* GetLatest compares versions as strings. *)
GetLatest(n, builds) ==
    {x \in Products : /\ x[1] = n /\ builds[x] > 0 /\ Rank[x[2]] > 0
                      /\ \A y \in Products :
                            (y[1] = n /\ builds[y] > 0) => Rank[y[2]] <= Rank[x[2]]}

(* FindVersion: at most one product.                                       *)
FindVersion(x, builds) ==
    IF x[2] = Latest THEN GetLatest(x[1], builds)
    ELSE {y \in Products : y = x /\ builds[y] > 0}

Installed(list, x) == {i \in DOMAIN list : Of(list[i]) = x}

(* Why the next argument is refused: install wants a product that is not   *)
(* installed, update a newer build than the one installed.                 *)
AlreadyInstalled(p, x) ==
    \E i \in Installed(mem[p], x) :
        \/ req[p].op \in {"install", "start"}
        \/ Head(queue[p])[2] = Latest
        \/ mem[p][i].release >= snap[p][x]

ArgumentFails(p) ==
    /\ pc[p] = "next"
    /\ \/ queue[p] = <<>> /\ req[p].op = "updateall" /\ mem[p] = <<>>
       \/ /\ queue[p] # <<>>
          /\ \A x \in FindVersion(Head(queue[p]), snap[p]) : AlreadyInstalled(p, x)
    /\ Return(p, "refused")
    /\ UNCHANGED <<repo, disk, torn, bin, overlap, cut, commands, kills>>

(* All arguments are done. *)
LastArgument(p) ==
    /\ pc[p] = "next"
    /\ queue[p] = <<>>
    /\ mem[p] # <<>>
    /\ IF req[p].op = "start" THEN Go(p, "exec") /\ UNCHANGED <<req, queue, mem, snap>>
       ELSE Return(p, "ok")
    /\ UNCHANGED <<repo, disk, torn, bin, overlap, cut, commands, kills>>

(* SetDefaultVersion: the entry becomes the only active one of its name.   *)
(* A mutant: the entries of the other versions stay active.                *)
SetDefaultKeepsOthers(list, x) ==
    [i \in DOMAIN list |-> [list[i] EXCEPT !.active = @ \/ Of(list[i]) = x]]
SetDefault(list, x) ==
    [i \in DOMAIN list |->
        IF list[i].name = x[1] THEN [list[i] EXCEPT !.active = Of(list[i]) = x] ELSE list[i]]

(* A mutant: an entry that is there is left as it was. *)
PutKeeps(list, e) == IF Installed(list, Of(e)) = {} THEN Append(list, e) ELSE list
Put(list, e) ==
    IF Installed(list, Of(e)) = {} THEN Append(list, e)
    ELSE [i \in DOMAIN list |-> IF Of(list[i]) = Of(e) THEN e ELSE list[i]]

(* DownloadFileWithProgress writes a temporary file and renames it, and    *)
(* does not look at the status of the answer.  (Two processes that         *)
(* download the same product share the temporary file: the content may     *)
(* then be damaged, or the rename fail.)                                   *)
DownloadFails(p) ==
    /\ pc[p] = "next"
    /\ queue[p] # <<>>
    /\ \E x \in FindVersion(Head(queue[p]), snap[p]) : ~AlreadyInstalled(p, x)
    /\ Return(p, "failed")
    /\ UNCHANGED <<repo, disk, torn, bin, overlap, cut, commands, kills>>

Download(p) ==
    /\ pc[p] = "next"
    /\ queue[p] # <<>>
    /\ \E x \in FindVersion(Head(queue[p]), snap[p]) :
        /\ ~AlreadyInstalled(p, x)
        /\ \E content \in {snap[p][x], Page} : bin' = [bin EXCEPT ![x] = content]
        /\ mem' = [mem EXCEPT ![p] = SetDefault(Put(@, Entry(x, snap[p][x], FALSE)), x)]
    /\ queue' = [queue EXCEPT ![p] = Tail(@)]
    /\ Go(p, "save")
    /\ UNCHANGED <<repo, disk, torn, req, snap, overlap, cut, commands, kills>>

-----------------------------------------------------------------------------
(* SaveInstalledComponents truncates installed.json and writes it. *)

Truncate(p) ==
    /\ pc[p] = "save"
    /\ torn' = TRUE
    /\ Go(p, "write")
    /\ UNCHANGED <<repo, disk, bin, req, queue, mem, snap, overlap, cut, commands, kills>>

Write(p) ==
    /\ pc[p] = "write"
    /\ torn' = FALSE
    /\ disk' = mem[p]
    /\ IF req[p].op \in {"install", "update", "updateall", "start"}
       THEN Go(p, "next") /\ UNCHANGED <<req, queue, mem, snap>>
       ELSE Return(p, "ok")
    /\ UNCHANGED <<repo, bin, overlap, cut, commands, kills>>

Unsaved(p) == pc[p] \in {"save", "write"} /\ req[p].op \in {"uninstall", "uninstallall"}
CutShort(p) == cut' = IF Unsaved(p) THEN cut \cup {x \in Products : bin[x] = NoFile} ELSE cut

(* The disk is full: the error is returned, the file stays as it is. *)
WriteFails(p) ==
    /\ pc[p] = "write"
    /\ CutShort(p)
    /\ Return(p, "failed")
    /\ UNCHANGED <<repo, disk, torn, bin, overlap, commands, kills>>

-----------------------------------------------------------------------------
(* `component use`, runUse *)

(* A mutant: the error of SetDefaultVersion is not looked at. *)
UseAllowedAlways(p) == TRUE
UseAllowed(p) == Installed(mem[p], Head(queue[p])) # {}

Use(p) ==
    /\ pc[p] = "use"
    /\ IF UseAllowed(p)
       THEN /\ mem' = [mem EXCEPT ![p] = SetDefault(@, Head(queue[p]))]
            /\ Go(p, "save")
            /\ UNCHANGED <<req, queue, snap>>
       ELSE Return(p, "refused")
    /\ UNCHANGED <<repo, disk, torn, bin, overlap, cut, commands, kills>>

(* `component uninstall`, runUninstall: the entries that go, those of one  *)
(* version or (--all) of a name.                                           *)
Removed(p) ==
    {e \in Range(mem[p]) : /\ e.name = Head(queue[p])[1]
                           /\ req[p].op = "uninstallall" \/ Of(e) = Head(queue[p])}

UninstallRefused(p) ==
    \/ Removed(p) = {}
    \/ req[p].op = "uninstall" /\ ~req[p].force /\ \E e \in Removed(p) : e.active

(* The loop that collects the other entries. *)
Kept(list, gone) ==
    LET loop[i \in 0..Len(list)] ==
            IF i = 0 THEN <<>>
            ELSE IF list[i] \in gone THEN loop[i - 1] ELSE Append(loop[i - 1], list[i])
    IN  loop[Len(list)]

(* The binaries that are removed, <path>/<version>/<name> for every entry. *)
(* A mutant: those of the other versions go as well.                       *)
UnlinkedByName(p) == {x \in Products : x[1] = Head(queue[p])[1]}
Unlinked(p) == {Of(e) : e \in Removed(p)}

(* The binaries go before the file is saved. *)
Uninstall(p) ==
    /\ pc[p] \in {"uninstall", "uninstallall"}
    /\ IF UninstallRefused(p) THEN Return(p, "refused") /\ UNCHANGED bin
       ELSE /\ bin' = [x \in Products |-> IF x \in Unlinked(p) THEN NoFile ELSE bin[x]]
            /\ mem' = [mem EXCEPT ![p] = Kept(@, Removed(p))]
            /\ Go(p, "save")
            /\ UNCHANGED <<req, queue, snap>>
    /\ UNCHANGED <<repo, disk, torn, overlap, cut, commands, kills>>

(* GetActiveComponent, and the check that the binary exists before it is   *)
(* run.                                                                    *)
Exec(p) ==
    /\ pc[p] = "exec"
    /\ \E i \in Actives(mem[p], req[p].args[1][1]) : 
          Return(p, IF bin[Of(mem[p][i])] # NoFile THEN "ok" ELSE "refused")
    /\ UNCHANGED <<repo, disk, torn, bin, overlap, cut, commands, kills>>

(* A process is killed. *)
Kill(p) ==
    /\ pc[p] # "idle"
    /\ kills < MaxKills
    /\ kills' = kills + 1
    /\ Reset(p)
    /\ CutShort(p)
    /\ UNCHANGED <<repo, disk, torn, bin, overlap, last, commands>>

(* No more commands are given. *)
Quiet ==
    /\ commands = MaxCommands
    /\ \A p \in Proc : pc[p] = "idle"
    /\ UNCHANGED vars

Next ==
    \/ \E x \in Products : Publish(x)
    \/ \E p \in Proc :
        \/ \E r \in Requests : Start(p, r)
        \/ LoadFails(p) \/ Load(p)
        \/ ArgumentFails(p) \/ LastArgument(p) \/ DownloadFails(p) \/ Download(p)
        \/ Truncate(p) \/ Write(p) \/ WriteFails(p)
        \/ Use(p) \/ Uninstall(p) \/ Exec(p)
        \/ Kill(p)
    \/ Quiet

Spec == Init /\ [][Next]_vars

-----------------------------------------------------------------------------

(* installed.json has one entry for a product and at most one default      *)
(* version of a name, whatever commands ran, also after processes that     *)
(* worked on old copies of the file wrote theirs.                          *)
ListConsistent ==
    \A i, j \in DOMAIN disk :
        /\ Of(disk[i]) = Of(disk[j]) => i = j
        /\ disk[i].active /\ disk[j].active /\ disk[i].name = disk[j].name => i = j

(* An entry without its binary is left only by an uninstall that was       *)
(* killed, or could not write, after it removed the binary: in particular  *)
(* an install records nothing that it has not downloaded.                  *)
RecordedBinary ==
    ~overlap =>
        \A i \in DOMAIN disk :
            bin[Of(disk[i])] = NoFile => Of(disk[i]) \in cut \/ \E p \in Proc : Unsaved(p)

(* An install or update that reports success has recorded every component  *)
(* it was asked for at the build the mirror listed, and the last one of a  *)
(* name is the default.                                                    *)
InstallTruthful ==
    LET args == last.req.args
        Recorded(k) == {i \in DOMAIN disk : Of(disk[i]) \in FindVersion(args[k], last.snap)}
    IN  (~overlap /\ last.out = "ok" /\ last.req.op \in {"install", "update"}) =>
            \A k \in DOMAIN args : \E i \in Recorded(k) :
                /\ disk[i].release = last.snap[Of(disk[i])]
                /\ bin[Of(disk[i])] \in {disk[i].release, Page}
                /\ (\A m \in DOMAIN args : m > k => args[m][1] # args[k][1]) => disk[i].active

(* Whatever fails on the way, a name that has a default version keeps one: *)
(* only an uninstall with --force or --all leaves it without.              *)
DefaultSurvives ==
    [][\A n \in Names :
        (~overlap' /\ Actives(disk, n) # {} /\ Actives(disk', n) = {}) =>
            \E p \in Proc : /\ req[p].op = "uninstallall" \/ (req[p].op = "uninstall" /\ req[p].force)
                            /\ req[p].args[1][1] = n]_vars

=============================================================================
