-------------------------------- MODULE Walk --------------------------------
(***************************************************************************)
(* The concurrent walks over a directory tree: deleteDirectoryAndData,     *)
(* which `fs subpath delete` runs, and GetDirSummarySize, which the quota, *)
(* usage and check commands run.  Both walk a directory by listing it,     *)
(* handling its files one after the other, and handing every subdirectory  *)
(* to a goroutine if the channel `concurrent` has room and walking it      *)
(* inline otherwise; both report errors through a channel of capacity one  *)
(* per directory and one context shared by all.                            *)
(*                                                                         *)
(* There is one walk per directory, so the state of a walk (the stack      *)
(* frame of the function) is indexed by its directory.                     *)
(***************************************************************************)
EXTENDS Naturals, FiniteSets, FiniteSetsExt

CONSTANTS
    Dirs, Files,    \* the entries of the tree
    Root,           \* the directory that the command is about
    Parent,         \* the directory of every entry but Root
    Regular,        \* the files of type FILE (the others are symbolic links)
    Inode,          \* the inode of a file: hard links share one
    Length,         \* the length of an inode
    Late,           \* the files another client may create during the walk
    Commands,       \* the commands to run, a subset of those below
    ThreadCounts    \* the values of --threads to try

Nodes == Dirs \cup Files

ASSUME TreeAssumption ==
    /\ Root \in Dirs
    /\ Dirs \cap Files = {}
    /\ Parent \in [Nodes \ {Root} -> Dirs]
    /\ Regular \subseteq Files
    /\ Late \subseteq Files
    /\ ThreadCounts \subseteq Nat
    /\ Commands \subseteq {"delete", "quota", "check"}

(* Every directory is below Root. *)
ASSUME BelowRootAssumption ==
    \A S \in SUBSET (Dirs \ {Root}) : (\A e \in S : Parent[e] \in S) => S = {}

ASSUME LengthAssumption == \A f \in Files : Length[Inode[f]] \in Nat

ASSUME FiniteAssumption == IsFiniteSet(Nodes)

VARIABLES
    op,         \* the command that runs
    threads,    \* the capacity of the channel `concurrent`
    exists,     \* the entries the metadata server has
    born,       \* the files of other clients created so far
    pc,         \* where the walk of a directory is
    how,        \* whether it runs on a goroutine of its own
    todo,       \* the listed entries that its loop has not come to
    err,        \* whether it returned an error
    errCh,      \* whether its channel holds an error
    wg,         \* the goroutines its wait group counts
    slots,      \* the goroutines that hold a place in `concurrent`
    cancelled,  \* whether the context is done
    inodeMap,   \* the hard-linked inodes that were counted
    summary,    \* the totals
    failed,     \* whether a call of the metadata server failed, for the properties
    cmd         \* what became of the command

frames == <<pc, how, todo, err, errCh, wg>>
vars == <<op, threads, exists, born, frames, slots, cancelled, inodeMap, summary, failed, cmd>>

Children(d) == {e \in Nodes \ {Root} : Parent[e] = d}
Initial == Nodes \ Late

Init ==
    /\ op \in Commands
    /\ threads \in ThreadCounts
    /\ exists = Initial
    /\ born = {}
    /\ pc = [d \in Dirs |-> IF d = Root THEN "list" ELSE "idle"]
    /\ how = [d \in Dirs |-> "call"]
    /\ todo = [d \in Dirs |-> {}]
    /\ err = [d \in Dirs |-> FALSE]
    /\ errCh = [d \in Dirs |-> FALSE]
    /\ wg = [d \in Dirs |-> {}]
    /\ slots = {}
    /\ cancelled = FALSE
    /\ inodeMap = {}
    /\ summary = [Inodes |-> 0, Length |-> 0]
    /\ failed = FALSE
    /\ cmd = "run"

-----------------------------------------------------------------------------
(* What a call of the metadata server may do.  An error may be returned    *)
(* for a call that was carried out: the answer was lost, and the retry of  *)
(* the client finds the entry gone.                                        *)

Ok(effect) == exists' = effect /\ UNCHANGED failed
Refused == failed' = TRUE /\ UNCHANGED exists
AnswerLost(effect) == failed' = TRUE /\ exists' = effect

(* The walk of d returns. *)
Return(d, e) ==
    /\ pc' = [pc EXCEPT ![d] = "end"]
    /\ err' = [err EXCEPT ![d] = e]

AddInodes(n) == [summary EXCEPT !.Inodes = @ + n]

List(d) ==
    /\ pc[d] = "list"
    /\ \/ /\ Ok(exists)
          /\ todo' = [todo EXCEPT ![d] = Children(d) \cap exists]
          /\ pc' = [pc EXCEPT ![d] = "loop"]
          /\ UNCHANGED err
       \/ Refused /\ Return(d, TRUE) /\ UNCHANGED todo
    /\ UNCHANGED <<op, threads, born, how, errCh, wg, slots, cancelled, inodeMap, summary, cmd>>

(* The next file of the loop of d is unlinked.  On an error the walk       *)
(* returns at once, without waiting for its goroutines.                    *)
DeleteFile(d, f) ==
    /\ op = "delete"
    /\ pc[d] = "loop"
    /\ f \in todo[d] \cap Files
    /\ todo' = [todo EXCEPT ![d] = @ \ {f}]
    /\ \/ /\ f \in exists
          /\ Ok(exists \ {f})
          /\ summary' = AddInodes(1)
          /\ UNCHANGED <<pc, err>>
       \/ (Refused \/ AnswerLost(exists \ {f})) /\ Return(d, TRUE) /\ UNCHANGED summary
    /\ UNCHANGED <<op, threads, born, how, errCh, wg, slots, cancelled, inodeMap, cmd>>

(* GetInode's link count, and LoadOrStore of the map of counted inodes. *)
Nlink(i) == Cardinality({f \in Regular \cap exists : Inode[f] = i})
(* A mutant: the count of links is off by one. *)
CountedOffByOne(f) == op = "check" /\ Nlink(Inode[f]) > 2 /\ Inode[f] \in inodeMap
Counted(f) == op = "check" /\ Nlink(Inode[f]) >= 2 /\ Inode[f] \in inodeMap
Store(f) == IF op = "check" /\ Nlink(Inode[f]) >= 2 THEN inodeMap \cup {Inode[f]} ELSE inodeMap

(* The next file of the loop of d is counted. *)
CountFile(d, f) ==
    /\ op # "delete"
    /\ pc[d] = "loop"
    /\ f \in todo[d] \cap Files
    /\ todo' = [todo EXCEPT ![d] = @ \ {f}]
    /\ \/ /\ f \notin Regular
          /\ summary' = AddInodes(1)
          /\ UNCHANGED <<pc, err, failed, inodeMap>>
       \/ /\ f \in Regular
          /\ inodeMap' = Store(f)
          /\ summary' = IF Counted(f) THEN summary
                        ELSE [Inodes |-> summary.Inodes + 1,
                              Length |-> summary.Length + Length[Inode[f]]]
          /\ UNCHANGED <<pc, err, failed>>
       \/ /\ f \in Regular
          /\ failed' = TRUE
          /\ Return(d, TRUE)
          /\ UNCHANGED <<summary, inodeMap>>
    /\ UNCHANGED <<op, threads, exists, born, how, errCh, wg, slots, cancelled, cmd>>

-----------------------------------------------------------------------------
(* The select statement on a subdirectory e.  A case that is ready is      *)
(* chosen at random, `default` if none is.  The summary has counted e by   *)
(* then.                                                                   *)

AtDir(d, e) ==
    /\ pc[d] = "loop"
    /\ e \in todo[d] \cap Dirs
    /\ todo' = [todo EXCEPT ![d] = @ \ {e}]
    /\ summary' = IF op = "delete" THEN summary ELSE AddInodes(1)
    /\ UNCHANGED <<op, threads, exists, born, inodeMap, failed, cmd>>

(* A mutant: one goroutine too many. *)
HasSlotOffByOne == Cardinality(slots) <= threads
HasSlot == Cardinality(slots) < threads

SelectError(d, e) ==
    /\ errCh[d]
    /\ AtDir(d, e)
    /\ errCh' = [errCh EXCEPT ![d] = FALSE]
    /\ cancelled' = TRUE
    /\ Return(d, TRUE)
    /\ UNCHANGED <<how, wg, slots>>

SelectCancelled(d, e) ==
    /\ cancelled
    /\ AtDir(d, e)
    /\ Return(d, TRUE)
    /\ UNCHANGED <<how, errCh, wg, slots, cancelled>>

SelectSlot(d, e) ==
    /\ HasSlot
    /\ AtDir(d, e)
    /\ slots' = slots \cup {e}
    /\ wg' = [wg EXCEPT ![d] = @ \cup {e}]
    /\ how' = [how EXCEPT ![e] = "go"]
    /\ pc' = [pc EXCEPT ![e] = "list"]
    /\ UNCHANGED <<err, errCh, cancelled>>

SelectDefault(d, e) ==
    /\ ~errCh[d] /\ ~cancelled /\ ~HasSlot
    /\ AtDir(d, e)
    /\ pc' = [pc EXCEPT ![d] = "call", ![e] = "list"]
    /\ UNCHANGED <<how, err, errCh, wg, slots, cancelled>>

(* The inline walk of e returns to the walk of d, which returns its error. *)
ReturnInline(d, e) ==
    /\ e # Root /\ how[e] = "call" /\ pc[e] = "end" /\ d = Parent[e]
    /\ pc' = [pc EXCEPT ![e] = "done", ![d] = IF err[e] THEN "end" ELSE "loop"]
    /\ err' = [err EXCEPT ![d] = err[e]]
    /\ UNCHANGED <<op, threads, exists, born, how, todo, errCh, wg, slots, cancelled,
                   inodeMap, summary, failed, cmd>>

-----------------------------------------------------------------------------
(* After the loop: wait for the goroutines, then look for an error. *)

(* A mutant: the walk does not wait for its last goroutine. *)
WaitOverEarly(d) == Cardinality(wg[d]) <= 1
WaitOver(d) == wg[d] = {}

Wait(d) ==
    /\ pc[d] = "loop"
    /\ todo[d] = {}
    /\ WaitOver(d)
    /\ errCh' = [errCh EXCEPT ![d] = FALSE]
    /\ IF errCh[d] \/ op # "delete" THEN Return(d, errCh[d])
       ELSE pc' = [pc EXCEPT ![d] = "self"] /\ UNCHANGED err
    /\ UNCHANGED <<op, threads, exists, born, how, todo, wg, slots, cancelled,
                   inodeMap, summary, failed, cmd>>

(* rmdir: the server refuses it for a directory that is not empty. *)
DeleteSelf(d) ==
    /\ pc[d] = "self"
    /\ \/ /\ Children(d) \cap exists = {}
          /\ Ok(exists \ {d})
          /\ summary' = AddInodes(1)
          /\ Return(d, FALSE)
       \/ /\ \/ Refused
             \/ Children(d) \cap exists = {} /\ AnswerLost(exists \ {d})
          /\ Return(d, TRUE)
          /\ UNCHANGED summary
    /\ UNCHANGED <<op, threads, born, how, todo, errCh, wg, slots, cancelled, inodeMap, cmd>>

-----------------------------------------------------------------------------
(* The end of a goroutine: it gives its place back, offers its error to    *)
(* the channel, which drops a second one, and tells the wait group.        *)

Release(e) ==
    /\ how[e] = "go" /\ pc[e] = "end"
    /\ slots' = slots \ {e}
    /\ pc' = [pc EXCEPT ![e] = "send"]
    /\ UNCHANGED <<op, threads, exists, born, how, todo, err, errCh, wg, cancelled,
                   inodeMap, summary, failed, cmd>>

(* A mutant: a goroutine that ends well takes the error of another away. *)
OfferedAnyway(e) == err[e]
Offered(e) == errCh[Parent[e]] \/ err[e]

Send(e) ==
    /\ pc[e] = "send"
    /\ errCh' = [errCh EXCEPT ![Parent[e]] = Offered(e)]
    /\ pc' = [pc EXCEPT ![e] = "sent"]
    /\ UNCHANGED <<op, threads, exists, born, how, todo, err, wg, slots, cancelled,
                   inodeMap, summary, failed, cmd>>

(* A mutant: wg.Done is not deferred, and missed after an error. *)
WgAfterMissed(e) == IF err[e] THEN wg[Parent[e]] ELSE wg[Parent[e]] \ {e}
WgAfter(e) == wg[Parent[e]] \ {e}

WgDone(e) ==
    /\ pc[e] = "sent"
    /\ wg' = [wg EXCEPT ![Parent[e]] = WgAfter(e)]
    /\ pc' = [pc EXCEPT ![e] = "done"]
    /\ UNCHANGED <<op, threads, exists, born, how, todo, err, errCh, slots, cancelled,
                   inodeMap, summary, failed, cmd>>

-----------------------------------------------------------------------------
(* The walk of Root returns to the command: the deferred cancel, the       *)
(* result, and runDelete's use of a summary that is nil after an error.    *)

(* A mutant: the result of the walk is dropped. *)
OutcomeDropped == "ok"
Outcome == IF ~err[Root] THEN "ok" ELSE IF op = "delete" THEN "panic" ELSE "error"

EndCommand ==
    /\ cmd = "run"
    /\ pc[Root] = "end"
    /\ cmd' = Outcome
    /\ cancelled' = TRUE
    /\ summary' = IF op = "delete" \/ err[Root] THEN summary ELSE AddInodes(1)
    /\ UNCHANGED <<op, threads, exists, born, frames, slots, inodeMap, failed>>

(* Another client creates a file. *)
Create(f) ==
    /\ cmd = "run"
    /\ f \in Late \ born
    /\ Parent[f] \in exists
    /\ born' = born \cup {f}
    /\ exists' = exists \cup {f}
    /\ UNCHANGED <<op, threads, frames, slots, cancelled, inodeMap, summary, failed, cmd>>

(* The process has nothing left to do. *)
Ended ==
    /\ cmd # "run"
    /\ \A d \in Dirs \ {Root} : pc[d] \in {"idle", "done"}
    /\ UNCHANGED vars

Walk(d) ==
    \/ List(d)
    \/ \E f \in Files : DeleteFile(d, f) \/ CountFile(d, f)
    \/ \E e \in Dirs : \/ SelectError(d, e) \/ SelectCancelled(d, e)
                       \/ SelectSlot(d, e) \/ SelectDefault(d, e)
                       \/ ReturnInline(d, e)
    \/ Wait(d)
    \/ DeleteSelf(d)

Goroutine(e) == Release(e) \/ Send(e) \/ WgDone(e)

Next ==
    \/ \E d \in Dirs : Walk(d) \/ Goroutine(d)
    \/ EndCommand
    \/ \E f \in Late : Create(f)
    \/ Ended

Spec == Init /\ [][Next]_vars

(* Every goroutine that can go on does so sooner or later, the main one    *)
(* (EndCommand) included.  Nothing is assumed of the other clients, and a  *)
(* call of the server may fail every time.                                 *)
FairSpec ==
    /\ Spec
    /\ \A d \in Dirs : WF_vars(Walk(d) \/ Goroutine(d))
    /\ WF_vars(EndCommand)

-----------------------------------------------------------------------------

(* The types of the variables. *)
TypeOK ==
    /\ op \in Commands /\ threads \in ThreadCounts
    /\ exists \subseteq Nodes /\ born \subseteq Late
    /\ pc \in [Dirs -> {"idle", "list", "loop", "call", "self", "end", "send", "sent", "done"}]
    /\ how \in [Dirs -> {"call", "go"}]
    /\ todo \in [Dirs -> SUBSET Nodes]
    /\ err \in [Dirs -> BOOLEAN] /\ errCh \in [Dirs -> BOOLEAN]
    /\ wg \in [Dirs -> SUBSET Dirs]
    /\ slots \subseteq Dirs
    /\ cancelled \in BOOLEAN /\ failed \in BOOLEAN
    /\ inodeMap \subseteq {Inode[f] : f \in Files}
    /\ summary \in [Inodes : Nat, Length : Nat]
    /\ cmd \in {"run", "ok", "error", "panic"}

Walking(e) == pc[e] \in {"list", "loop", "call", "self", "end"}

(* No more directories are walked on goroutines at a time than --threads   *)
(* allows, although walks nest and end in any order.                       *)
ThreadsRespected == Cardinality({e \in Dirs : how[e] = "go" /\ Walking(e)}) <= threads

(* When a walk asks for the removal of its directory, everything it was    *)
(* to remove below is gone: the only entries left are files another client *)
(* created meanwhile.                                                      *)
EmptyBeforeRmdir == \A d \in Dirs : pc[d] = "self" => Children(d) \cap exists \subseteq born

(* The command succeeds only if every goroutine has ended, and only if no  *)
(* call of any walk failed; it fails only if one did.  Errors travel       *)
(* through one-place channels that drop, early returns, and a context.     *)
ErrorNotLost ==
    cmd # "run" =>
        /\ cmd = "ok" <=> ~failed
        /\ cmd = "ok" => \A d \in Dirs \ {Root} : ~Walking(d)

(* "Successfully delete directory, deleteInodes": nothing is left of the   *)
(* tree, and the number printed is that of the entries there were.         *)
DeleteTruthful ==
    cmd = "ok" /\ op = "delete" =>
        /\ exists = {}
        /\ summary.Inodes = Cardinality(Initial \cup born)

Inodes(files) == {Inode[f] : f \in files}

(* The totals of a walk that succeeded over a tree at rest: every entry,   *)
(* and the length of every file, once.  The check of a whole file system   *)
(* counts an inode once however many links it has, whichever goroutine     *)
(* comes to a link first.                                                  *)
SummaryTruthful ==
    cmd = "ok" /\ op # "delete" /\ born = {} =>
        LET regular == Regular \cap Initial
            rest == Cardinality(Initial \ Regular)
            Total(S, len(_)) == MapThenSumSet(len, S)
        IN  IF op = "check"
            THEN summary = [Inodes |-> rest + Cardinality(Inodes(regular)),
                            Length |-> Total(Inodes(regular), LAMBDA i : Length[i])]
            ELSE summary = [Inodes |-> rest + Cardinality(regular),
                            Length |-> Total(regular, LAMBDA f : Length[Inode[f]])]

(* The command returns, and no goroutine it started runs for ever, also    *)
(* when the walk that started it returned early.                           *)
Termination == <>(cmd # "run" /\ \A d \in Dirs : pc[d] \in {"idle", "end", "done"})

=============================================================================
