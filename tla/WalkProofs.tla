---------------------------- MODULE WalkProofs ----------------------------
(***************************************************************************)
(* Proofs about Walk, for every tree, every number of threads and every    *)
(* behaviour of the metadata server.                                       *)
(*                                                                         *)
(* The inductive invariant IInv is about the frames of the walks, the      *)
(* channels, and what is left of the tree.  Its main use is AllQuiet: when *)
(* the walk of Root has ended well, no walk below is going on or failed.   *)
(* SumInv, for the walks that count, says that the totals are those of the *)
(* entries the loops have come to so far (Seen).                           *)
(***************************************************************************)
EXTENDS Walk, FiniteSetTheorems, WellFoundedInduction, TLAPS

Below == Dirs \ {Root}

-----------------------------------------------------------------------------
(* The frames of the walks. *)

(* What a loop has not come to is below its directory and not walked yet. *)
TodoInv ==
    \A d \in Dirs : \A e \in todo[d] : e \in Children(d) /\ (e \in Dirs => pc[e] = "idle")

(* Nothing below a directory is walked before it is listed. *)
FreshInv ==
    /\ \A e \in Below : pc[Parent[e]] \in {"idle", "list"} => pc[e] = "idle"
    /\ \A e \in Dirs : pc[e] = "idle" => how[e] = "call"
    /\ \A e \in Dirs : pc[e] \in {"send", "sent"} => how[e] = "go"
    /\ pc[Root] \in {"list", "loop", "call", "self", "end"} /\ how[Root] = "call"

(* The wait group counts the goroutines that have not ended. *)
WgInv ==
    \A d \in Dirs : wg[d] = {e \in Below : Parent[e] = d /\ how[e] = "go" /\ pc[e] # "done"}

(* A walk that is called inline has its caller waiting, for it alone. *)
Inline(e) == how[e] = "call" /\ Walking(e)
InlineInv ==
    /\ \A e \in Below : Inline(e) => pc[Parent[e]] = "call"
    /\ \A e, f \in Below : Inline(e) /\ Inline(f) /\ Parent[e] = Parent[f] => e = f

(* An error is returned at the end, and by then it has been told to the    *)
(* walk of the parent, by its channel or as the result of a call.          *)
ErrInv ==
    /\ \A d \in Dirs : pc[d] \in {"idle", "list", "loop", "call", "self"} => ~err[d]
    /\ \A e \in Below : err[e] /\ pc[e] \in {"sent", "done"} => errCh[Parent[e]] \/ err[Parent[e]]

(* While a walk goes on, or once it failed, the walk of the parent goes on *)
(* or has failed.                                                          *)
Live(e) == pc[e] \notin {"idle", "done"} \/ err[e]
Open(d) == pc[d] \in {"loop", "call"} \/ err[d]
OpenInv == \A e \in Below : Live(e) => Open(Parent[e])

FrameInv == TodoInv /\ FreshInv /\ WgInv /\ InlineInv /\ ErrInv /\ OpenInv

-----------------------------------------------------------------------------
(* The rest of the process. *)

(* The places of the channel are held by the goroutines that walk. *)
SlotInv == slots = {e \in Dirs : how[e] = "go" /\ Walking(e)} /\ Cardinality(slots) <= threads

(* Errors come from calls that failed, and the command returns the one of  *)
(* Root.                                                                   *)
FailInv ==
    /\ failed => \E d \in Dirs : err[d]
    /\ \A d \in Dirs : err[d] \/ errCh[d] => failed
    /\ cancelled => failed \/ cmd = "ok"
    /\ cmd = "ok" => pc[Root] = "end" /\ ~err[Root]
    /\ cmd \in {"error", "panic"} => err[Root]

-----------------------------------------------------------------------------
(* The tree. *)

(* An entry has its directory, and a directory stays until its walk        *)
(* removes it.                                                             *)
ExistsInv ==
    /\ exists \subseteq Initial \cup born
    /\ \A e \in exists \ {Root} : Parent[e] \in exists
    /\ \A d \in Dirs : pc[d] \in {"idle", "list", "loop", "call", "self"} => d \in exists

(* A walk that ended well has removed its directory. *)
GoneInv ==
    op = "delete" =>
        \A d \in Dirs : pc[d] \in {"end", "send", "sent", "done"} /\ ~err[d] => d \notin exists

(* What is left in a directory is still to come, is being walked, or was   *)
(* created meanwhile.                                                      *)
LeftInv ==
    op = "delete" =>
        \A d \in Dirs : pc[d] \in {"loop", "call"} =>
            \A c \in Children(d) \cap exists :
                c \in born \cup todo[d] \/ (c \in Dirs /\ pc[c] # "idle")

(* Until a call fails, the count is that of the entries that are gone. *)
CountInv ==
    op = "delete" /\ ~failed => summary.Inodes = Cardinality((Initial \cup born) \ exists)

TreeInv == ExistsInv /\ GoneInv /\ LeftInv /\ EmptyBeforeRmdir /\ CountInv

IInv == TypeOK /\ FrameInv /\ SlotInv /\ FailInv /\ TreeInv

-----------------------------------------------------------------------------
(* Facts about sets and about the tree. *)

(* The entries, and every set of them, are finite. *)
LEMMA NodesFinite ==
    ASSUME NEW S \in SUBSET Nodes
    PROVE  IsFiniteSet(S) /\ Cardinality(S) \in Nat
BY FiniteAssumption, FS_Subset, FS_CardinalityType

(* When the walk of Root has ended well, no other is going on or failed. *)
LEMMA AllQuiet ==
    ASSUME TypeOK, OpenInv, pc[Root] = "end", ~err[Root]
    PROVE  \A e \in Below : ~Live(e)
<1> DEFINE S == {e \in Below : Live(e)}
<1>1. \A e \in S : Parent[e] \in S
  BY TreeAssumption DEF OpenInv, Open, Live, Below, TypeOK, Nodes
<1>2. S = {}
  BY <1>1, BelowRootAssumption DEF Below
<1>3. QED
  BY <1>2

(* When the wait group of a walk is empty and its channel too, no walk of  *)
(* a directory in it is going on or failed.                                *)
LEMMA ChildrenQuiet ==
    ASSUME TypeOK, FrameInv, NEW d \in Dirs, pc[d] = "loop", wg[d] = {}, ~errCh[d],
           NEW e \in Below, Parent[e] = d
    PROVE  ~Live(e)
<1> USE DEF FrameInv, Below
<1>1. e \in Dirs /\ pc[e] \in {"idle", "list", "loop", "call", "self", "end", "send", "sent", "done"}
      /\ how[e] \in {"call", "go"}
  BY DEF TypeOK
<1>2. how[e] = "go" => pc[e] = "done"
  BY DEF WgInv
<1>3. how[e] = "call" => pc[e] \in {"idle", "done"}
  BY <1>1 DEF FreshInv, InlineInv, Inline, Walking
<1>4. pc[e] \in {"idle", "done"}
  BY <1>1, <1>2, <1>3
<1>5. ~err[e]
  BY <1>4 DEF ErrInv
<1>6. QED
  BY <1>4, <1>5 DEF Live

-----------------------------------------------------------------------------

(* The invariant holds initially. *)
LEMMA InitIInv == Init => IInv
<1> SUFFICES ASSUME Init PROVE IInv
  OBVIOUS
<1> USE TreeAssumption DEF Init
<1>1. TypeOK
  BY DEF TypeOK, Initial, Nodes
<1>2. TodoInv /\ FreshInv /\ WgInv /\ InlineInv /\ ErrInv /\ OpenInv
  BY DEF TodoInv, FreshInv, WgInv, InlineInv, Inline, Walking, ErrInv, OpenInv, Live, Below, Nodes
<1>3. SlotInv
  <2>1. slots = {e \in Dirs : how[e] = "go" /\ Walking(e)}
    BY DEF Walking
  <2>2. Cardinality(slots) <= threads
    BY FS_EmptySet
  <2>3. QED
    BY <2>1, <2>2 DEF SlotInv
<1>4. FailInv
  BY DEF FailInv
<1>5. TreeInv
  <2>1. ExistsInv /\ GoneInv /\ LeftInv /\ EmptyBeforeRmdir
    BY DEF ExistsInv, GoneInv, LeftInv, EmptyBeforeRmdir, Initial, Nodes
  <2>2. (Initial \cup born) \ exists = {}
    OBVIOUS
  <2>3. CountInv
    BY <2>2, FS_EmptySet DEF CountInv
  <2>4. QED
    BY <2>1, <2>3 DEF TreeInv
<1>6. QED
  BY <1>1, <1>2, <1>3, <1>4, <1>5 DEF IInv, FrameInv

-----------------------------------------------------------------------------
(* The steps of a walk. *)

(* While a walk goes on the command has not succeeded. *)
LEMMA NotOk ==
    ASSUME IInv, NEW d \in Dirs, pc[d] \notin {"idle", "end", "done"}
    PROVE  cmd # "ok"
<1> SUFFICES ASSUME cmd = "ok" PROVE FALSE
  OBVIOUS
<1>1. pc[Root] = "end" /\ ~err[Root]
  BY DEF IInv, FailInv
<1>2. \A e \in Below : ~Live(e)
  BY <1>1, AllQuiet DEF IInv, FrameInv
<1>3. QED
  BY <1>1, <1>2 DEF Below, Live

(* A walk returns an error: what is common to all the steps that do. *)
LEMMA ReturnErrorPreserves ==
    ASSUME IInv, NEW d \in Dirs, pc[d] \in {"list", "loop", "self"}, Return(d, TRUE), failed',
           UNCHANGED <<op, threads, born, how, wg, slots, inodeMap, cmd>>,
           todo' \in [Dirs -> SUBSET Nodes], \A c \in Dirs : todo'[c] \subseteq todo[c],
           \A c \in Dirs \ {d} : todo'[c] = todo[c],
           errCh' \in [Dirs -> BOOLEAN], \A c \in Dirs \ {d} : errCh'[c] = errCh[c],
           exists' \subseteq exists, \A e \in exists' \ {Root} : Parent[e] \in exists',
           \A c \in Dirs \ {d} : c \in exists => c \in exists',
           failed' \in BOOLEAN, cancelled' \in BOOLEAN, summary' \in [Inodes : Nat, Length : Nat]
    PROVE  IInv'
<1> USE TreeAssumption DEF IInv, FrameInv, TreeInv
<1>1. /\ pc' = [pc EXCEPT ![d] = "end"] /\ err' = [err EXCEPT ![d] = TRUE]
      /\ pc \in [Dirs -> {"idle", "list", "loop", "call", "self", "end", "send", "sent", "done"}]
      /\ err \in [Dirs -> BOOLEAN]
  BY DEF Return, TypeOK
<1>2. TypeOK'
  BY <1>1 DEF TypeOK
<1>3. TodoInv' /\ FreshInv'
  BY <1>1 DEF TodoInv, FreshInv, Below, Children, Nodes
<1>4. WgInv'
  BY <1>1 DEF WgInv, Below
<1>5. InlineInv'
  BY <1>1 DEF InlineInv, Inline, Walking, Below, Nodes
<1>6. ErrInv' /\ OpenInv'
  BY <1>1 DEF ErrInv, OpenInv, Open, Live, Below, Nodes
<1>7. SlotInv'
  BY <1>1 DEF SlotInv, Walking
<1>8. FailInv'
  BY <1>1, NotOk DEF FailInv
<1>9. ExistsInv' /\ GoneInv' /\ LeftInv' /\ EmptyBeforeRmdir' /\ CountInv'
  BY <1>1 DEF ExistsInv, GoneInv, LeftInv, EmptyBeforeRmdir, CountInv, Children, Initial
<1>10. QED
  BY <1>2, <1>3, <1>4, <1>5, <1>6, <1>7, <1>8, <1>9

(* List *)
LEMMA ListPreserves ==
    ASSUME IInv, NEW d \in Dirs, List(d)
    PROVE  IInv'
<1> USE TreeAssumption
<1>1. CASE Refused /\ Return(d, TRUE) /\ UNCHANGED todo
  BY <1>1, ReturnErrorPreserves DEF List, Refused, IInv, TreeInv, ExistsInv, TypeOK
<1>2. CASE /\ Ok(exists)
           /\ todo' = [todo EXCEPT ![d] = Children(d) \cap exists]
           /\ pc' = [pc EXCEPT ![d] = "loop"]
           /\ UNCHANGED err
  <2> USE DEF IInv, FrameInv, TreeInv
  <2>1. /\ UNCHANGED <<op, threads, exists, born, how, err, errCh, wg, slots, cancelled,
                       inodeMap, summary, failed, cmd>>
        /\ pc[d] = "list"
        /\ pc \in [Dirs -> {"idle", "list", "loop", "call", "self", "end", "send", "sent", "done"}]
        /\ todo \in [Dirs -> SUBSET Nodes]
    BY <1>2 DEF List, Ok, TypeOK
  <2>2. TypeOK'
    BY <1>2, <2>1 DEF TypeOK
  <2>3. TodoInv' /\ FreshInv'
    BY <1>2, <2>1 DEF TodoInv, FreshInv, Below, Children, Nodes
  <2>4. WgInv'
    BY <1>2, <2>1 DEF WgInv, Below
  <2>5. InlineInv' /\ ErrInv' /\ OpenInv'
    BY <1>2, <2>1 DEF InlineInv, Inline, Walking, ErrInv, OpenInv, Open, Live, Below, Nodes
  <2>6. SlotInv'
    BY <1>2, <2>1 DEF SlotInv, Walking
  <2>7. FailInv'
    BY <1>2, <2>1 DEF FailInv
  <2>8. ExistsInv' /\ GoneInv' /\ LeftInv' /\ EmptyBeforeRmdir' /\ CountInv'
    BY <1>2, <2>1 DEF ExistsInv, GoneInv, LeftInv, EmptyBeforeRmdir, CountInv, Children, Initial
  <2>9. QED
    BY <2>2, <2>3, <2>4, <2>5, <2>6, <2>7, <2>8
<1>3. QED
  BY <1>1, <1>2 DEF List

(* The loop of a walk has come to a file and goes on: what the removal and *)
(* the counting of a file have in common.                                  *)
LEMMA FileDonePreserves ==
    ASSUME IInv, NEW d \in Dirs, NEW f \in Files, pc[d] = "loop",
           todo' = [todo EXCEPT ![d] = @ \ {f}],
           UNCHANGED <<op, threads, born, pc, how, err, errCh, wg, slots, cancelled, failed, cmd>>
    PROVE  FrameInv' /\ SlotInv' /\ FailInv'
<1> USE TreeAssumption DEF IInv, FrameInv
<1>1. todo \in [Dirs -> SUBSET Nodes]
  BY DEF TypeOK
<1>2. TodoInv' /\ FreshInv' /\ WgInv'
  BY <1>1 DEF TodoInv, FreshInv, WgInv, Below, Children, Nodes
<1>3. InlineInv' /\ ErrInv' /\ OpenInv'
  BY DEF InlineInv, Inline, Walking, ErrInv, OpenInv, Open, Live
<1>4. SlotInv' /\ FailInv'
  BY DEF SlotInv, Walking, FailInv
<1>5. QED
  BY <1>2, <1>3, <1>4

(* One entry fewer: the count of a deletion goes up by one. *)
LEMMA CountOneMore ==
    ASSUME IInv, NEW x \in exists, exists' = exists \ {x}, summary' = AddInodes(1),
           UNCHANGED <<op, born, failed>>
    PROVE  CountInv'
<1> SUFFICES ASSUME op = "delete", ~failed PROVE summary'.Inodes = Cardinality(((Initial \cup born) \ exists)')
  BY DEF CountInv
<1> DEFINE S == (Initial \cup born) \ exists
<1>1. S \in SUBSET Nodes
  BY TreeAssumption DEF Initial, IInv, TypeOK, Nodes
<1>2. ((Initial \cup born) \ exists)' = S \cup {x} /\ x \notin S
  BY DEF IInv, TreeInv, ExistsInv, Initial
<1>3. Cardinality(S \cup {x}) = Cardinality(S) + 1
  BY <1>1, <1>2, NodesFinite, FS_AddElement
<1>4. summary.Inodes = Cardinality(S) /\ summary \in [Inodes : Nat, Length : Nat]
  BY DEF IInv, TreeInv, CountInv, TypeOK
<1>5. summary'.Inodes = summary.Inodes + 1
  BY <1>4 DEF AddInodes
<1>6. QED
  BY <1>2, <1>3, <1>4, <1>5

(* DeleteFile *)
LEMMA DeleteFilePreserves ==
    ASSUME IInv, NEW d \in Dirs, NEW f \in Files, DeleteFile(d, f)
    PROVE  IInv'
<1> USE TreeAssumption
<1>1. /\ pc[d] = "loop"
      /\ todo' = [todo EXCEPT ![d] = @ \ {f}] /\ todo \in [Dirs -> SUBSET Nodes]
      /\ UNCHANGED <<op, threads, born, how, errCh, wg, slots, cancelled, inodeMap, cmd>>
  BY DEF DeleteFile, IInv, TypeOK
<1>2. exists' \subseteq exists => \A e \in exists \ {f, Root} : Parent[e] \in exists \ {f}
  BY DEF IInv, TreeInv, ExistsInv, TypeOK, Nodes
<1>3. CASE (Refused \/ AnswerLost(exists \ {f})) /\ Return(d, TRUE) /\ UNCHANGED summary
  <2>1. /\ exists' \subseteq exists /\ failed' = TRUE
        /\ \A e \in exists' \ {Root} : Parent[e] \in exists'
        /\ \A c \in Dirs \ {d} : c \in exists => c \in exists'
    BY <1>2, <1>3 DEF Refused, AnswerLost, IInv, TreeInv, ExistsInv
  <2>2. /\ errCh' \in [Dirs -> BOOLEAN] /\ cancelled' \in BOOLEAN
        /\ summary' \in [Inodes : Nat, Length : Nat]
    BY <1>1, <1>3 DEF IInv, TypeOK
  <2>3. QED
    BY <1>1, <1>3, <2>1, <2>2, ReturnErrorPreserves
<1>4. CASE f \in exists /\ Ok(exists \ {f}) /\ summary' = AddInodes(1) /\ UNCHANGED <<pc, err>>
  <2>1. exists' = exists \ {f} /\ UNCHANGED failed
    BY <1>4 DEF Ok
  <2>2. TypeOK'
    BY <1>1, <1>4, <2>1 DEF IInv, TypeOK, AddInodes
  <2>3. FrameInv' /\ SlotInv' /\ FailInv'
    BY <1>1, <1>4, <2>1, FileDonePreserves
  <2>4. ExistsInv' /\ GoneInv' /\ LeftInv' /\ EmptyBeforeRmdir'
    BY <1>1, <1>2, <1>4, <2>1 DEF IInv, TreeInv, ExistsInv, GoneInv, LeftInv, EmptyBeforeRmdir,
       Children, Initial
  <2>5. CountInv'
    BY <1>1, <1>4, <2>1, CountOneMore
  <2>6. QED
    BY <2>2, <2>3, <2>4, <2>5 DEF IInv, TreeInv
<1>5. QED
  BY <1>3, <1>4 DEF DeleteFile

(* CountFile *)
LEMMA CountFilePreserves ==
    ASSUME IInv, NEW d \in Dirs, NEW f \in Files, CountFile(d, f)
    PROVE  IInv'
<1> USE TreeAssumption
<1>1. /\ pc[d] = "loop" /\ op # "delete"
      /\ todo' = [todo EXCEPT ![d] = @ \ {f}] /\ todo \in [Dirs -> SUBSET Nodes]
      /\ UNCHANGED <<op, threads, exists, born, how, errCh, wg, slots, cancelled, cmd>>
      /\ summary \in [Inodes : Nat, Length : Nat] /\ errCh \in [Dirs -> BOOLEAN]
      /\ cancelled \in BOOLEAN /\ inodeMap \subseteq {Inode[g] : g \in Files}
  BY DEF CountFile, IInv, TypeOK
<1>2. CASE failed' = TRUE /\ Return(d, TRUE) /\ UNCHANGED <<summary, inodeMap>>
  BY <1>1, <1>2, ReturnErrorPreserves DEF IInv, TreeInv, ExistsInv
<1>3. ASSUME UNCHANGED <<pc, err, failed>>,
             inodeMap' \subseteq {Inode[g] : g \in Files}, summary' \in [Inodes : Nat, Length : Nat]
      PROVE  IInv'
  <2>1. TypeOK'
    BY <1>1, <1>3 DEF IInv, TypeOK
  <2>2. FrameInv' /\ SlotInv' /\ FailInv'
    BY <1>1, <1>3, FileDonePreserves
  <2>3. TreeInv'
    BY <1>1, <1>3 DEF IInv, TreeInv, ExistsInv, GoneInv, LeftInv, EmptyBeforeRmdir, CountInv,
       Children, Initial
  <2>4. QED
    BY <2>1, <2>2, <2>3 DEF IInv
<1>4. AddInodes(1) \in [Inodes : Nat, Length : Nat]
  BY <1>1 DEF AddInodes
<1>5. /\ [Inodes |-> summary.Inodes + 1, Length |-> summary.Length + Length[Inode[f]]]
            \in [Inodes : Nat, Length : Nat]
      /\ Store(f) \subseteq {Inode[g] : g \in Files}
  BY <1>1, LengthAssumption DEF Store
<1>6. QED
  BY <1>1, <1>2, <1>3, <1>4, <1>5 DEF CountFile

-----------------------------------------------------------------------------
(* The cases of the select statement. *)

Pcs == {"idle", "list", "loop", "call", "self", "end", "send", "sent", "done"}

(* What the cases have in common. *)
Selecting(d, e) ==
    /\ pc[d] = "loop" /\ pc[e] = "idle" /\ e \in Below /\ Parent[e] = d /\ d # e
    /\ how[e] = "call" /\ ~err[e] /\ ~err[d]
    /\ todo' = [todo EXCEPT ![d] = @ \ {e}] /\ todo \in [Dirs -> SUBSET Nodes]
    /\ e \in todo[d]
    /\ UNCHANGED <<op, threads, exists, born, inodeMap, failed, cmd>>
    /\ summary' \in [Inodes : Nat, Length : Nat]
    /\ op = "delete" => summary' = summary
    /\ pc \in [Dirs -> Pcs] /\ how \in [Dirs -> {"call", "go"}] /\ wg \in [Dirs -> SUBSET Dirs]
    /\ err \in [Dirs -> BOOLEAN] /\ errCh \in [Dirs -> BOOLEAN]

(* On a subdirectory that its loop comes to, a walk has not begun. *)
LEMMA AtDirFacts ==
    ASSUME IInv, NEW d \in Dirs, NEW e \in Dirs, AtDir(d, e)
    PROVE  Selecting(d, e)
<1>1. /\ pc[d] = "loop" /\ e \in todo[d]
      /\ todo' = [todo EXCEPT ![d] = @ \ {e}]
      /\ UNCHANGED <<op, threads, exists, born, inodeMap, failed, cmd>>
      /\ op = "delete" => summary' = summary
  BY DEF AtDir
<1>2. /\ todo \in [Dirs -> SUBSET Nodes] /\ pc \in [Dirs -> Pcs] /\ how \in [Dirs -> {"call", "go"}]
      /\ wg \in [Dirs -> SUBSET Dirs] /\ summary \in [Inodes : Nat, Length : Nat]
      /\ err \in [Dirs -> BOOLEAN] /\ errCh \in [Dirs -> BOOLEAN]
  BY DEF IInv, TypeOK, Pcs
<1>3. summary' \in [Inodes : Nat, Length : Nat]
  BY <1>2 DEF AtDir, AddInodes
<1>4. pc[e] = "idle" /\ e \in Below /\ Parent[e] = d /\ d # e
  BY <1>1 DEF IInv, FrameInv, TodoInv, Children, Below
<1>5. how[e] = "call" /\ ~err[e] /\ ~err[d]
  BY <1>1, <1>4 DEF IInv, FrameInv, FreshInv, ErrInv
<1>6. QED
  BY <1>1, <1>2, <1>3, <1>4, <1>5 DEF Selecting

(* SelectError and SelectCancelled *)
LEMMA SelectErrorPreserves ==
    ASSUME IInv, NEW d \in Dirs, NEW e \in Dirs, SelectError(d, e) \/ SelectCancelled(d, e)
    PROVE  IInv'
<1>1. /\ Selecting(d, e) /\ Return(d, TRUE) /\ UNCHANGED <<how, wg, slots>>
      /\ errCh' = errCh \/ errCh' = [errCh EXCEPT ![d] = FALSE]
      /\ errCh[d] \/ cancelled
      /\ cancelled' = TRUE
  BY AtDirFacts DEF SelectError, SelectCancelled, IInv, TypeOK
<1>2. cmd # "ok"
  BY <1>1, NotOk DEF Selecting
<1>3. failed /\ failed'
  BY <1>1, <1>2 DEF Selecting, IInv, FailInv
<1>4. /\ errCh' \in [Dirs -> BOOLEAN] /\ \A c \in Dirs \ {d} : errCh'[c] = errCh[c]
  BY <1>1 DEF Selecting
<1>5. failed' \in BOOLEAN
  BY <1>1 DEF Selecting, IInv, TypeOK
<1>6. /\ todo' \in [Dirs -> SUBSET Nodes] /\ \A c \in Dirs : todo'[c] \subseteq todo[c]
      /\ \A c \in Dirs \ {d} : todo'[c] = todo[c]
  BY <1>1 DEF Selecting
<1>7. exists' = exists /\ \A x \in exists' \ {Root} : Parent[x] \in exists'
  BY <1>1 DEF Selecting, IInv, TreeInv, ExistsInv
<1>8. QED
  BY <1>1, <1>3, <1>4, <1>5, <1>6, <1>7, ReturnErrorPreserves DEF Selecting

(* SelectSlot *)
LEMMA SelectSlotPreserves ==
    ASSUME IInv, NEW d \in Dirs, NEW e \in Dirs, SelectSlot(d, e)
    PROVE  IInv'
<1> USE TreeAssumption
<1>1. Selecting(d, e) /\ Cardinality(slots) < threads
  BY AtDirFacts DEF SelectSlot, HasSlot
<1>2. /\ slots' = slots \cup {e} /\ wg' = [wg EXCEPT ![d] = @ \cup {e}]
      /\ how' = [how EXCEPT ![e] = "go"] /\ pc' = [pc EXCEPT ![e] = "list"]
      /\ UNCHANGED <<err, errCh, cancelled>>
  BY DEF SelectSlot
<1> USE <1>1, <1>2 DEF Selecting, IInv, FrameInv, TreeInv
<1>3. TypeOK'
  BY DEF TypeOK, Pcs
<1>4. TodoInv' /\ FreshInv'
  BY DEF TodoInv, FreshInv, Below, Children, Nodes
<1>5. WgInv'
  BY DEF WgInv, FreshInv, Below
<1>6. InlineInv' /\ ErrInv' /\ OpenInv'
  BY DEF InlineInv, Inline, Walking, ErrInv, OpenInv, Open, Live, Below, Nodes, FreshInv
<1>7. SlotInv'
  <2>1. slots' = {x \in Dirs : how'[x] = "go" /\ Walking(x)'}
    BY DEF SlotInv, Walking
  <2>2. slots \in SUBSET Nodes /\ threads \in Nat /\ e \notin slots
    BY DEF SlotInv, TypeOK, Nodes
  <2>3. Cardinality(slots') = Cardinality(slots) + 1 /\ Cardinality(slots) \in Nat
    BY <2>2, NodesFinite, FS_AddElement
  <2>4. QED
    BY <2>1, <2>2, <2>3 DEF SlotInv
<1>8. FailInv'
  BY DEF FailInv, FreshInv
<1>9. ExistsInv' /\ GoneInv' /\ LeftInv' /\ EmptyBeforeRmdir' /\ CountInv'
  BY DEF ExistsInv, GoneInv, LeftInv, EmptyBeforeRmdir, CountInv, Children, Initial
<1>10. QED
  BY <1>3, <1>4, <1>5, <1>6, <1>7, <1>8, <1>9

(* SelectDefault *)
LEMMA SelectDefaultPreserves ==
    ASSUME IInv, NEW d \in Dirs, NEW e \in Dirs, SelectDefault(d, e)
    PROVE  IInv'
<1> USE TreeAssumption
<1>1. Selecting(d, e) /\ cmd # "ok"
  BY AtDirFacts, NotOk DEF SelectDefault, Selecting
<1>2. /\ pc' = [pc EXCEPT ![d] = "call", ![e] = "list"]
      /\ UNCHANGED <<how, err, errCh, wg, slots, cancelled>>
  BY DEF SelectDefault
<1> USE <1>1, <1>2 DEF Selecting, IInv, FrameInv, TreeInv
<1>3. TypeOK'
  BY DEF TypeOK, Pcs
<1>4. TodoInv' /\ FreshInv'
  BY DEF TodoInv, FreshInv, Below, Children, Nodes
<1>5. WgInv'
  BY DEF WgInv, FreshInv, Below
<1>6. InlineInv'
  BY DEF InlineInv, Inline, Walking, Below, Nodes, FreshInv
<1>7. ErrInv' /\ OpenInv'
  BY DEF ErrInv, OpenInv, Open, Live, Below, Nodes, FreshInv
<1>8. SlotInv'
  BY DEF SlotInv, Walking
<1>9. FailInv'
  BY DEF FailInv, FreshInv
<1>10. ExistsInv' /\ GoneInv' /\ LeftInv' /\ EmptyBeforeRmdir' /\ CountInv'
  BY DEF ExistsInv, GoneInv, LeftInv, EmptyBeforeRmdir, CountInv, Children, Initial
<1>11. QED
  BY <1>3, <1>4, <1>5, <1>6, <1>7, <1>8, <1>9, <1>10

-----------------------------------------------------------------------------
(* The ends of the walks. *)

(* ReturnInline *)
LEMMA ReturnInlinePreserves ==
    ASSUME IInv, NEW d \in Dirs, NEW e \in Dirs, ReturnInline(d, e)
    PROVE  IInv'
<1> USE TreeAssumption
<1>1. /\ e \in Below /\ how[e] = "call" /\ pc[e] = "end" /\ d = Parent[e]
      /\ pc' = [pc EXCEPT ![e] = "done", ![d] = IF err[e] THEN "end" ELSE "loop"]
      /\ err' = [err EXCEPT ![d] = err[e]]
      /\ UNCHANGED <<op, threads, exists, born, how, todo, errCh, wg, slots, cancelled,
                     inodeMap, summary, failed, cmd>>
  BY DEF ReturnInline, Below
<1>2. pc[d] = "call" /\ d # e /\ ~err[d] /\ cmd # "ok"
  <2>1. pc[d] = "call"
    BY <1>1 DEF IInv, FrameInv, InlineInv, Inline, Walking
  <2>2. QED
    BY <1>1, <2>1, NotOk DEF IInv, FrameInv, ErrInv
<1>3. pc \in [Dirs -> Pcs] /\ err \in [Dirs -> BOOLEAN]
  BY DEF IInv, TypeOK, Pcs
<1> USE <1>1, <1>2, <1>3 DEF IInv, FrameInv, TreeInv
<1>4. TypeOK'
  BY DEF TypeOK, Pcs
<1>5. TodoInv' /\ FreshInv'
  BY DEF TodoInv, FreshInv, Below, Children, Nodes
<1>6. WgInv'
  BY DEF WgInv, Below
<1>7. InlineInv'
  BY DEF InlineInv, Inline, Walking, Below, Nodes
<1>8. ErrInv' /\ OpenInv'
  BY DEF ErrInv, OpenInv, Open, Live, Below, Nodes
<1>9. SlotInv'
  BY DEF SlotInv, Walking
<1>10. FailInv'
  BY DEF FailInv
<1>11. ExistsInv' /\ GoneInv' /\ LeftInv' /\ EmptyBeforeRmdir' /\ CountInv'
  BY DEF ExistsInv, GoneInv, LeftInv, EmptyBeforeRmdir, CountInv, Children, Initial
<1>12. QED
  BY <1>4, <1>5, <1>6, <1>7, <1>8, <1>9, <1>10, <1>11

(* Wait: an error is found, the walk is over, or it comes to its own       *)
(* directory.                                                              *)
LEMMA WaitPreserves ==
    ASSUME IInv, NEW d \in Dirs, Wait(d)
    PROVE  IInv'
<1> USE TreeAssumption
<1>1. /\ pc[d] = "loop" /\ todo[d] = {} /\ wg[d] = {}
      /\ errCh' = [errCh EXCEPT ![d] = FALSE]
      /\ UNCHANGED <<op, threads, exists, born, how, todo, wg, slots, cancelled,
                     inodeMap, summary, failed, cmd>>
      /\ pc \in [Dirs -> Pcs] /\ err \in [Dirs -> BOOLEAN] /\ errCh \in [Dirs -> BOOLEAN]
  BY DEF Wait, WaitOver, IInv, TypeOK, Pcs
<1>2. cmd # "ok"
  BY <1>1, NotOk
<1>3. CASE errCh[d]
  <2>1. Return(d, TRUE)
    BY <1>1, <1>3 DEF Wait, Return
  <2>2. failed' /\ failed' \in BOOLEAN /\ cancelled' \in BOOLEAN
    BY <1>1, <1>3 DEF IInv, FailInv, TypeOK
  <2>3. QED
    BY <1>1, <2>1, <2>2, ReturnErrorPreserves DEF IInv, TreeInv, ExistsInv, TypeOK
<1>4. CASE ~errCh[d]
  <2>1. PICK p \in {"end", "self"} : pc' = [pc EXCEPT ![d] = p]
    BY <1>1, <1>4 DEF Wait, Return
  <2>2. err' = err /\ errCh' = errCh /\ ~err[d]
    BY <1>1, <1>4 DEF Wait, Return, IInv, FrameInv, ErrInv
  <2>3. p = "end" <=> op # "delete"
    BY <1>1, <1>4, <2>1 DEF Wait, Return
  <2>4. \A e \in Below : Parent[e] = d => ~Live(e)
    BY <1>1, <1>4, ChildrenQuiet DEF IInv
  <2> USE <1>1, <1>2, <2>1, <2>2, <2>3, <2>4 DEF IInv, FrameInv, TreeInv
  <2>5. TypeOK'
    BY DEF TypeOK, Pcs
  <2>6. TodoInv' /\ FreshInv' /\ WgInv'
    BY DEF TodoInv, FreshInv, WgInv, Below, Children, Nodes
  <2>7. InlineInv'
    BY DEF InlineInv, Inline, Walking, Below, Nodes
  <2>8. ErrInv' /\ OpenInv'
    BY DEF ErrInv, OpenInv, Open, Live, Below, Nodes
  <2>9. SlotInv' /\ FailInv'
    BY DEF SlotInv, Walking, FailInv
  <2>10. ExistsInv' /\ GoneInv' /\ LeftInv' /\ CountInv'
    BY DEF ExistsInv, GoneInv, LeftInv, CountInv, Children, Initial
  <2>11. EmptyBeforeRmdir'
    <3>1. op = "delete" => Children(d) \cap exists \subseteq born
      <4> SUFFICES ASSUME op = "delete", NEW c \in Children(d) \cap exists, c \notin born PROVE FALSE
        OBVIOUS
      <4>1. c \in Dirs /\ pc[c] # "idle" /\ c \in Below /\ Parent[c] = d
        BY DEF LeftInv, Children, Below
      <4>2. pc[c] = "done" /\ ~err[c]
        BY <4>1 DEF Live
      <4>3. QED
        BY <4>1, <4>2 DEF GoneInv
    <3>2. QED
      BY <3>1 DEF EmptyBeforeRmdir, Children
  <2>12. QED
    BY <2>5, <2>6, <2>7, <2>8, <2>9, <2>10, <2>11
<1>5. QED
  BY <1>3, <1>4

(* DeleteSelf *)
LEMMA DeleteSelfPreserves ==
    ASSUME IInv, NEW d \in Dirs, DeleteSelf(d)
    PROVE  IInv'
<1> USE TreeAssumption
<1>1. /\ pc[d] = "self" /\ ~err[d]
      /\ UNCHANGED <<op, threads, born, how, todo, errCh, wg, slots, cancelled, inodeMap, cmd>>
      /\ pc \in [Dirs -> Pcs] /\ err \in [Dirs -> BOOLEAN]
      /\ summary \in [Inodes : Nat, Length : Nat] /\ exists \subseteq Nodes
  BY DEF DeleteSelf, IInv, FrameInv, ErrInv, TypeOK, Pcs
<1>2. cmd # "ok"
  BY <1>1, NotOk
<1>3. Children(d) \cap exists = {} => \A e \in (exists \ {d}) \ {Root} : Parent[e] \in exists \ {d}
  BY <1>1 DEF IInv, TreeInv, ExistsInv, Children
<1>4. CASE /\ Refused \/ (Children(d) \cap exists = {} /\ AnswerLost(exists \ {d}))
           /\ Return(d, TRUE) /\ UNCHANGED summary
  <2>1. /\ failed' = TRUE /\ exists' \subseteq exists
        /\ \A e \in exists' \ {Root} : Parent[e] \in exists'
        /\ \A c \in Dirs \ {d} : c \in exists => c \in exists'
    BY <1>3, <1>4 DEF Refused, AnswerLost, IInv, TreeInv, ExistsInv
  <2>2. QED
    BY <1>1, <1>4, <2>1, ReturnErrorPreserves DEF IInv, TypeOK
<1>5. CASE /\ Children(d) \cap exists = {} /\ Ok(exists \ {d})
           /\ summary' = AddInodes(1) /\ Return(d, FALSE)
  <2>1. /\ exists' = exists \ {d} /\ UNCHANGED failed
        /\ pc' = [pc EXCEPT ![d] = "end"] /\ err' = err
    BY <1>1, <1>5 DEF Ok, Return
  <2> USE <1>1, <1>2, <1>3, <1>5, <2>1 DEF IInv, FrameInv, TreeInv
  <2>2. summary' \in [Inodes : Nat, Length : Nat]
    BY DEF AddInodes
  <2>3. TypeOK'
    BY <2>2 DEF TypeOK, Pcs
  <2>4. TodoInv' /\ FreshInv' /\ WgInv'
    BY DEF TodoInv, FreshInv, WgInv, Below, Children, Nodes
  <2>5. InlineInv'
    BY DEF InlineInv, Inline, Walking, Below, Nodes
  <2>6. ErrInv' /\ OpenInv'
    BY DEF ErrInv, OpenInv, Open, Live, Below, Nodes
  <2>7. SlotInv' /\ FailInv'
    BY DEF SlotInv, Walking, FailInv
  <2>8. ExistsInv' /\ GoneInv' /\ LeftInv' /\ EmptyBeforeRmdir'
    BY DEF ExistsInv, GoneInv, LeftInv, EmptyBeforeRmdir, Children, Initial
  <2>9. CountInv'
    BY CountOneMore DEF ExistsInv
  <2>10. QED
    BY <2>3, <2>4, <2>5, <2>6, <2>7, <2>8, <2>9
<1>6. QED
  BY <1>4, <1>5 DEF DeleteSelf

-----------------------------------------------------------------------------
(* The ends of the goroutines. *)

(* Release *)
LEMMA ReleasePreserves ==
    ASSUME IInv, NEW e \in Dirs, Release(e)
    PROVE  IInv'
<1> USE TreeAssumption
<1>1. /\ how[e] = "go" /\ pc[e] = "end" /\ e # Root
      /\ slots' = slots \ {e} /\ pc' = [pc EXCEPT ![e] = "send"]
      /\ UNCHANGED <<op, threads, exists, born, how, todo, err, errCh, wg, cancelled,
                     inodeMap, summary, failed, cmd>>
      /\ pc \in [Dirs -> Pcs]
  BY DEF Release, IInv, FrameInv, FreshInv, TypeOK, Pcs
<1> USE <1>1 DEF IInv, FrameInv, TreeInv
<1>2. TypeOK'
  BY DEF TypeOK, Pcs
<1>3. TodoInv' /\ FreshInv' /\ WgInv'
  BY DEF TodoInv, FreshInv, WgInv, Below, Children, Nodes
<1>4. InlineInv' /\ ErrInv' /\ OpenInv'
  BY DEF InlineInv, Inline, Walking, ErrInv, OpenInv, Open, Live, Below, Nodes
<1>5. SlotInv'
  <2>1. slots' = {x \in Dirs : how'[x] = "go" /\ Walking(x)'}
    BY DEF SlotInv, Walking
  <2>2. slots \in SUBSET Nodes /\ e \in slots /\ threads \in Nat
    BY DEF SlotInv, Walking, TypeOK, Nodes
  <2>3. Cardinality(slots') = Cardinality(slots) - 1 /\ Cardinality(slots) \in Nat
    BY <2>2, NodesFinite, FS_RemoveElement
  <2>4. QED
    BY <2>1, <2>2, <2>3 DEF SlotInv
<1>6. FailInv'
  BY DEF FailInv
<1>7. ExistsInv' /\ GoneInv' /\ LeftInv' /\ EmptyBeforeRmdir' /\ CountInv'
  BY DEF ExistsInv, GoneInv, LeftInv, EmptyBeforeRmdir, CountInv, Children, Initial
<1>8. QED
  BY <1>2, <1>3, <1>4, <1>5, <1>6, <1>7

(* Send: the channel of the parent holds an error from now on, if this     *)
(* walk failed or another did before.                                      *)
LEMMA SendPreserves ==
    ASSUME IInv, NEW e \in Dirs, Send(e)
    PROVE  IInv'
<1> USE TreeAssumption
<1>1. /\ pc[e] = "send" /\ e \in Below /\ Parent[e] \in Dirs
      /\ errCh' = [errCh EXCEPT ![Parent[e]] = errCh[Parent[e]] \/ err[e]]
      /\ pc' = [pc EXCEPT ![e] = "sent"]
      /\ UNCHANGED <<op, threads, exists, born, how, todo, err, wg, slots, cancelled,
                     inodeMap, summary, failed, cmd>>
      /\ pc \in [Dirs -> Pcs] /\ err \in [Dirs -> BOOLEAN] /\ errCh \in [Dirs -> BOOLEAN]
  BY DEF Send, Offered, IInv, FrameInv, FreshInv, TypeOK, Pcs, Below, Nodes
<1> USE <1>1 DEF IInv, FrameInv, TreeInv
<1>2. TypeOK'
  BY DEF TypeOK, Pcs
<1>3. TodoInv' /\ FreshInv' /\ WgInv'
  BY DEF TodoInv, FreshInv, WgInv, Below, Children, Nodes
<1>4. InlineInv' /\ OpenInv'
  BY DEF InlineInv, Inline, Walking, OpenInv, Open, Live, Below, Nodes
<1>5. ErrInv'
  BY DEF ErrInv, Below, Nodes
<1>6. SlotInv' /\ FailInv'
  BY DEF SlotInv, Walking, FailInv
<1>7. ExistsInv' /\ GoneInv' /\ LeftInv' /\ EmptyBeforeRmdir' /\ CountInv'
  BY DEF ExistsInv, GoneInv, LeftInv, EmptyBeforeRmdir, CountInv, Children, Initial
<1>8. QED
  BY <1>2, <1>3, <1>4, <1>5, <1>6, <1>7

(* WgDone *)
LEMMA WgDonePreserves ==
    ASSUME IInv, NEW e \in Dirs, WgDone(e)
    PROVE  IInv'
<1> USE TreeAssumption
<1>1. /\ pc[e] = "sent" /\ e \in Below /\ Parent[e] \in Dirs
      /\ wg' = [wg EXCEPT ![Parent[e]] = wg[Parent[e]] \ {e}]
      /\ pc' = [pc EXCEPT ![e] = "done"]
      /\ UNCHANGED <<op, threads, exists, born, how, todo, err, errCh, slots, cancelled,
                     inodeMap, summary, failed, cmd>>
      /\ pc \in [Dirs -> Pcs] /\ wg \in [Dirs -> SUBSET Dirs]
  BY DEF WgDone, WgAfter, IInv, FrameInv, FreshInv, TypeOK, Pcs, Below, Nodes
<1> USE <1>1 DEF IInv, FrameInv, TreeInv
<1>2. TypeOK'
  BY DEF TypeOK, Pcs
<1>3. TodoInv' /\ FreshInv'
  BY DEF TodoInv, FreshInv, Below, Children, Nodes
<1>4. WgInv'
  BY DEF WgInv, Below, Nodes
<1>5. InlineInv' /\ ErrInv' /\ OpenInv'
  BY DEF InlineInv, Inline, Walking, ErrInv, OpenInv, Open, Live, Below, Nodes
<1>6. SlotInv' /\ FailInv'
  BY DEF SlotInv, Walking, FailInv
<1>7. ExistsInv' /\ GoneInv' /\ LeftInv' /\ EmptyBeforeRmdir' /\ CountInv'
  BY DEF ExistsInv, GoneInv, LeftInv, EmptyBeforeRmdir, CountInv, Children, Initial
<1>8. QED
  BY <1>2, <1>3, <1>4, <1>5, <1>6, <1>7

-----------------------------------------------------------------------------
(* The command and the other clients. *)

(* EndCommand *)
LEMMA EndCommandPreserves ==
    ASSUME IInv, EndCommand
    PROVE  IInv'
<1> USE TreeAssumption
<1>1. /\ pc[Root] = "end" /\ cmd' = Outcome /\ cancelled' = TRUE
      /\ summary' = IF op = "delete" \/ err[Root] THEN summary ELSE AddInodes(1)
      /\ UNCHANGED <<op, threads, exists, born, pc, how, todo, err, errCh, wg, slots, inodeMap, failed>>
  BY DEF EndCommand, frames
<1>2. summary' \in [Inodes : Nat, Length : Nat]
  BY <1>1 DEF IInv, TypeOK, AddInodes
<1>3. TypeOK'
  BY <1>1, <1>2 DEF IInv, TypeOK, Outcome
<1>4. FrameInv'
  BY <1>1 DEF IInv, FrameInv, TodoInv, FreshInv, WgInv, InlineInv, Inline, Walking, ErrInv,
     OpenInv, Open, Live
<1>5. SlotInv'
  BY <1>1 DEF IInv, SlotInv, Walking
<1>6. FailInv'
  BY <1>1 DEF IInv, FailInv, Outcome
<1>7. TreeInv'
  BY <1>1 DEF IInv, TreeInv, ExistsInv, GoneInv, LeftInv, EmptyBeforeRmdir, CountInv, Children, Initial
<1>8. QED
  BY <1>3, <1>4, <1>5, <1>6, <1>7 DEF IInv

(* Create *)
LEMMA CreatePreserves ==
    ASSUME IInv, NEW f \in Late, Create(f)
    PROVE  IInv'
<1> USE TreeAssumption
<1>1. /\ f \notin born /\ Parent[f] \in exists /\ f \in Files /\ f \notin Dirs
      /\ born' = born \cup {f} /\ exists' = exists \cup {f}
      /\ UNCHANGED <<op, threads, pc, how, todo, err, errCh, wg, slots, cancelled, inodeMap,
                     summary, failed, cmd>>
  BY DEF Create, frames
<1>2. TypeOK'
  BY <1>1 DEF IInv, TypeOK, Nodes
<1>3. FrameInv'
  BY <1>1 DEF IInv, FrameInv, TodoInv, FreshInv, WgInv, InlineInv, Inline, Walking, ErrInv,
     OpenInv, Open, Live
<1>4. SlotInv' /\ FailInv'
  BY <1>1 DEF IInv, SlotInv, Walking, FailInv
<1>5. ExistsInv' /\ GoneInv' /\ LeftInv' /\ EmptyBeforeRmdir'
  BY <1>1 DEF IInv, TreeInv, ExistsInv, GoneInv, LeftInv, EmptyBeforeRmdir, Children, Initial
<1>6. CountInv'
  <2>1. ((Initial \cup born) \ exists)' = (Initial \cup born) \ exists
    BY <1>1 DEF Initial, IInv, TreeInv, ExistsInv
  <2>2. QED
    BY <1>1, <2>1 DEF IInv, TreeInv, CountInv
<1>7. QED
  BY <1>2, <1>3, <1>4, <1>5, <1>6 DEF IInv, TreeInv

(* Every step preserves the invariant. *)
LEMMA StepPreservesIInv == IInv /\ [Next]_vars => IInv'
<1> SUFFICES ASSUME IInv, [Next]_vars PROVE IInv'
  OBVIOUS
<1>1. ASSUME NEW d \in Dirs, Walk(d) PROVE IInv'
  BY <1>1, ListPreserves, DeleteFilePreserves, CountFilePreserves, SelectErrorPreserves,
     SelectSlotPreserves, SelectDefaultPreserves, ReturnInlinePreserves, WaitPreserves,
     DeleteSelfPreserves DEF Walk
<1>2. ASSUME NEW e \in Dirs, Goroutine(e) PROVE IInv'
  BY <1>2, ReleasePreserves, SendPreserves, WgDonePreserves DEF Goroutine
<1>3. CASE EndCommand
  BY <1>3, EndCommandPreserves
<1>4. ASSUME NEW f \in Late, Create(f) PROVE IInv'
  BY <1>4, CreatePreserves
<1>5. CASE UNCHANGED vars
  <2> USE <1>5 DEF vars, frames, IInv
  <2>1. TypeOK' /\ FrameInv'
    BY DEF TypeOK, FrameInv, TodoInv, FreshInv, WgInv, InlineInv, Inline, Walking, ErrInv,
       OpenInv, Open, Live
  <2>2. SlotInv' /\ FailInv' /\ TreeInv'
    BY DEF SlotInv, Walking, FailInv, TreeInv, ExistsInv, GoneInv, LeftInv, EmptyBeforeRmdir,
       CountInv, Children, Initial
  <2>3. QED
    BY <2>1, <2>2
<1>6. QED
  BY <1>1, <1>2, <1>3, <1>4, <1>5 DEF Next, Ended

(* The invariant holds in every behaviour. *)
LEMMA Invariance == Spec => []IInv
<1>1. QED
  BY InitIInv, StepPreservesIInv, PTL DEF Spec

-----------------------------------------------------------------------------

(* The types of the variables, for every tree. *)
THEOREM TypeCorrect == Spec => []TypeOK
<1>1. IInv => TypeOK
  BY DEF IInv
<1>2. QED
  BY <1>1, Invariance, PTL

(* The channel `concurrent` keeps the number of goroutines within          *)
(* --threads.                                                              *)
THEOREM ThreadsAreRespected == Spec => []ThreadsRespected
<1>1. IInv => ThreadsRespected
  BY DEF IInv, SlotInv, ThreadsRespected
<1>2. QED
  BY <1>1, Invariance, PTL

(* deleteDirectoryAndData asks for the removal of a directory only when    *)
(* nothing it saw in there is left.                                        *)
THEOREM DirectoryIsEmptied == Spec => []EmptyBeforeRmdir
<1>1. IInv => EmptyBeforeRmdir
  BY DEF IInv, TreeInv
<1>2. QED
  BY <1>1, Invariance, PTL

(* The command fails exactly if a call failed in some walk, and it does    *)
(* not succeed before every walk has ended.                                *)
THEOREM NoErrorIsLost == Spec => []ErrorNotLost
<1>1. IInv => ErrorNotLost
  <2> SUFFICES ASSUME IInv, cmd # "run"
               PROVE  /\ cmd = "ok" <=> ~failed
                      /\ cmd = "ok" => \A d \in Dirs \ {Root} : ~Walking(d)
    BY DEF ErrorNotLost
  <2>1. CASE cmd = "ok"
    <3>1. pc[Root] = "end" /\ ~err[Root]
      BY <2>1 DEF IInv, FailInv
    <3>2. \A e \in Below : ~Live(e)
      BY <3>1, AllQuiet DEF IInv, FrameInv
    <3>3. ~failed
      BY <3>1, <3>2 DEF IInv, FailInv, Below, Live
    <3>4. QED
      BY <2>1, <3>2, <3>3 DEF Below, Live, Walking
  <2>2. CASE cmd # "ok"
    <3>1. cmd \in {"error", "panic"}
      BY <2>2 DEF IInv, TypeOK
    <3>2. failed
      BY <3>1, TreeAssumption DEF IInv, FailInv
    <3>3. QED
      BY <2>2, <3>2
  <2>3. QED
    BY <2>1, <2>2
<1>2. QED
  BY <1>1, Invariance, PTL

(* A deletion that succeeds leaves nothing of the tree, and the number it  *)
(* prints is that of all the entries there were.                           *)
THEOREM DeletionIsComplete == Spec => []DeleteTruthful
<1>1. IInv => DeleteTruthful
  <2> SUFFICES ASSUME IInv, cmd = "ok", op = "delete"
               PROVE  exists = {} /\ summary.Inodes = Cardinality(Initial \cup born)
    BY DEF DeleteTruthful
  <2>1. pc[Root] = "end" /\ ~err[Root]
    BY DEF IInv, FailInv
  <2>2. Root \notin exists
    BY <2>1, TreeAssumption DEF IInv, TreeInv, GoneInv
  <2>3. \A e \in exists \ {Root} : e \in Nodes /\ Parent[e] \in exists /\ Parent[e] \in Dirs
    BY TreeAssumption DEF IInv, TreeInv, ExistsInv, TypeOK
  <2>4. exists \cap Below = {}
    <3> DEFINE S == exists \cap Below
    <3>1. S \in SUBSET (Dirs \ {Root}) /\ \A e \in S : Parent[e] \in S
      BY <2>2, <2>3 DEF Below
    <3>2. QED
      BY <3>1, BelowRootAssumption
  <2>5. exists = {}
    BY <2>2, <2>3, <2>4 DEF Below
  <2>6. \A e \in Below : ~Live(e)
    BY <2>1, AllQuiet DEF IInv, FrameInv
  <2>7. ~failed
    BY <2>1, <2>6 DEF IInv, FailInv, Below, Live
  <2>8. (Initial \cup born) \ exists = Initial \cup born
    BY <2>5
  <2>9. QED
    BY <2>5, <2>7, <2>8 DEF IInv, TreeInv, CountInv
<1>2. QED
  BY <1>1, Invariance, PTL

-----------------------------------------------------------------------------
(* Sums over finite sets.  MapThenSumSet takes the elements of a set one   *)
(* by one in the order CHOOSE gives; these lemmas show that the order does *)
(* not matter.                                                             *)

(* A set of numbers that is not empty has a least element. *)
LEMMA LeastElement ==
    ASSUME NEW T, T \subseteq Nat, T # {}
    PROVE  \E i \in T : \A j \in T : i <= j
<1>1. \E i \in T : \A j \in T : <<j, i>> \notin OpToRel(<, Nat)
  BY WFMin, NatLessThanWellFounded
<1>2. \A i, j \in Nat : <<j, i>> \notin OpToRel(<, Nat) => i <= j
  BY DEF OpToRel
<1>3. QED
  BY <1>1, <1>2

Pick(s) == CHOOSE x \in s : TRUE

(* f adds up the weights w over the subsets of S that have at most k       *)
(* elements.                                                               *)
Adds(f, w, S, k) ==
    \A s \in SUBSET S : Cardinality(s) <= k =>
        /\ f[s] \in Nat
        /\ s = {} => f[s] = 0
        /\ s # {} => f[s] = w[Pick(s)] + f[s \ {Pick(s)}]

(* What is taken from a subset leaves a smaller one. *)
LEMMA PickLemma ==
    ASSUME NEW S, IsFiniteSet(S), NEW s \in SUBSET S, NEW x \in s
    PROVE  /\ Pick(s) \in s
           /\ s \ {x} \in SUBSET S
           /\ Cardinality(s) \in Nat \ {0} /\ Cardinality(s \ {x}) = Cardinality(s) - 1
<1>1. Pick(s) \in s
  BY DEF Pick
<1>2. IsFiniteSet(s)
  BY FS_Subset
<1>3. Cardinality(s) \in Nat /\ Cardinality(s \ {x}) = Cardinality(s) - 1 /\ IsFiniteSet(s \ {x})
  BY <1>2, FS_CardinalityType, FS_RemoveElement
<1>4. Cardinality(s \ {x}) \in Nat
  BY <1>3, FS_CardinalityType
<1>5. QED
  BY <1>1, <1>3, <1>4

(* The sums over the subsets of a finite set exist. *)
LEMMA SumExists ==
    ASSUME NEW S, IsFiniteSet(S), NEW w \in [S -> Nat]
    PROVE  \E f \in [SUBSET S -> Nat] : Adds(f, w, S, Cardinality(S))
<1> DEFINE Good(k) == \E f \in [SUBSET S -> Nat] : Adds(f, w, S, k)
           Bad == {k \in 0..Cardinality(S) : ~Good(k)}
<1>1. Cardinality(S) \in Nat
  BY FS_CardinalityType
<1>2. Good(0)
  <2> DEFINE f == [s \in SUBSET S |-> 0]
  <2>1. f \in [SUBSET S -> Nat] /\ \A s \in SUBSET S : f[s] = 0
    OBVIOUS
  <2>2. ASSUME NEW s \in SUBSET S, Cardinality(s) <= 0 PROVE s = {}
    <3> SUFFICES ASSUME NEW x \in s PROVE FALSE
      OBVIOUS
    <3>1. Cardinality(s) \in Nat \ {0}
      BY PickLemma
    <3>2. QED
      BY <2>2, <3>1
  <2> HIDE DEF f
  <2>3. Adds(f, w, S, 0)
    BY <2>1, <2>2 DEF Adds
  <2>4. QED
    BY <2>1, <2>3
<1>3. ASSUME NEW k \in 1..Cardinality(S), Good(k - 1) PROVE Good(k)
  <2>1. PICK f \in [SUBSET S -> Nat] : Adds(f, w, S, k - 1)
    BY <1>3
  <2>2. k \in Nat /\ k > 0
    BY <1>1
  <2> DEFINE g == [s \in SUBSET S |-> IF Cardinality(s) = k THEN w[Pick(s)] + f[s \ {Pick(s)}] ELSE f[s]]
  <2>3. ASSUME NEW s \in SUBSET S, Cardinality(s) <= k
        PROVE  /\ Cardinality(s) \in Nat
               /\ s = {} => Cardinality(s) = 0
               /\ s # {} => /\ Pick(s) \in S /\ s \ {Pick(s)} \in SUBSET S
                            /\ Cardinality(s \ {Pick(s)}) \in Nat
                            /\ Cardinality(s \ {Pick(s)}) < k
                            /\ w[Pick(s)] \in Nat
    <3>1. Cardinality(s) \in Nat /\ (s = {} => Cardinality(s) = 0)
      BY FS_Subset, FS_CardinalityType, FS_EmptySet
    <3>2. ASSUME NEW x \in s
          PROVE  /\ Pick(s) \in s
                 /\ Cardinality(s \ {Pick(s)}) = Cardinality(s) - 1 /\ Cardinality(s) > 0
      <4>1. Pick(s) \in s
        BY PickLemma
      <4>2. QED
        BY <4>1, PickLemma, SMTT(30)
    <3>3. ASSUME s # {}
          PROVE  /\ Pick(s) \in S /\ s \ {Pick(s)} \in SUBSET S
                 /\ Cardinality(s \ {Pick(s)}) \in Nat
                 /\ Cardinality(s \ {Pick(s)}) < k
                 /\ w[Pick(s)] \in Nat
      <4>1. /\ Pick(s) \in s
            /\ Cardinality(s \ {Pick(s)}) = Cardinality(s) - 1 /\ Cardinality(s) > 0
        BY <3>2, <3>3
      <4>2. Pick(s) \in S /\ s \ {Pick(s)} \in SUBSET S /\ w[Pick(s)] \in Nat
        BY <4>1
      <4> DEFINE c == Cardinality(s)
                 d == Cardinality(s \ {Pick(s)})
      <4>3. c \in Nat /\ c > 0 /\ d = c - 1 /\ c <= k
        BY <2>3, <3>1, <4>1
      <4> HIDE DEF c, d
      <4>4. d \in Nat /\ d < k
        BY <2>2, <4>3
      <4>5. QED
        BY <4>2, <4>4 DEF d
    <3>4. QED
      BY <3>1, <3>3
  <2>4. g \in [SUBSET S -> Nat]
    <3>1. ASSUME NEW s \in SUBSET S PROVE g[s] \in Nat
      <4>1. CASE Cardinality(s) = k
        <5>1. s # {}
          BY <2>2, <2>3, <4>1
        <5>2. w[Pick(s)] \in Nat /\ f[s \ {Pick(s)}] \in Nat
          BY <2>1, <2>2, <2>3, <4>1, <5>1
        <5>3. QED
          BY <4>1, <5>2
      <4>2. CASE Cardinality(s) # k
        BY <2>1, <4>2
      <4>3. QED
        BY <4>1, <4>2
    <3>2. QED
      BY <3>1
  <2>5. /\ \A s \in SUBSET S : Cardinality(s) # k => g[s] = f[s]
        /\ \A s \in SUBSET S : Cardinality(s) = k => g[s] = w[Pick(s)] + f[s \ {Pick(s)}]
    OBVIOUS
  <2> HIDE DEF g
  <2>6. Adds(g, w, S, k)
    <3> SUFFICES ASSUME NEW s \in SUBSET S, Cardinality(s) <= k
                 PROVE  /\ g[s] \in Nat
                        /\ s = {} => g[s] = 0
                        /\ s # {} => g[s] = w[Pick(s)] + g[s \ {Pick(s)}]
      BY DEF Adds
    <3>1. s # {} => g[s \ {Pick(s)}] = f[s \ {Pick(s)}]
      BY <2>2, <2>3, <2>5
    <3>2. CASE Cardinality(s) = k
      BY <2>2, <2>3, <2>4, <2>5, <3>1, <3>2
    <3>3. CASE Cardinality(s) # k
      <4>0. Cardinality(s) \in Nat
        BY <2>3
      <4>1. Cardinality(s) <= k - 1
        BY <2>2, <3>3, <4>0
      <4>2. g[s] = f[s] /\ (s = {} => f[s] = 0) /\ (s # {} => f[s] = w[Pick(s)] + f[s \ {Pick(s)}])
        BY <2>1, <2>5, <3>3, <4>1 DEF Adds
      <4>3. QED
        BY <2>4, <3>1, <4>2
    <3>4. QED
      BY <3>2, <3>3
  <2>7. QED
    BY <2>4, <2>6
<1> HIDE DEF Good
<1>4. Bad = {}
  <2> SUFFICES ASSUME Bad # {} PROVE FALSE
    OBVIOUS
  <2>1. Bad \subseteq Nat
    BY <1>1
  <2>2. PICK k \in Bad : \A j \in Bad : k <= j
    BY <2>1, LeastElement
  <2>3. k # 0 /\ k \in 0..Cardinality(S) /\ ~Good(k)
    BY <1>2
  <2>4. k - 1 \in 0..Cardinality(S) /\ k \in 1..Cardinality(S) /\ ~(k <= k - 1)
    BY <1>1, <2>3
  <2>5. Good(k - 1)
    BY <2>2, <2>4
  <2>6. QED
    BY <1>3, <2>3, <2>4, <2>5
<1>5. Good(Cardinality(S))
  BY <1>1, <1>4
<1>6. QED
  BY <1>5 DEF Good

(* f adds up the weights w over all subsets of S. *)
Sums(f, w, S) ==
    /\ f[{}] = 0
    /\ \A s \in SUBSET S : f[s] \in Nat
    /\ \A s \in SUBSET S : s # {} => f[s] = w[Pick(s)] + f[s \ {Pick(s)}]

(* Whichever element is taken first, the sum is the same. *)
LEMMA SumLemma ==
    ASSUME NEW S, IsFiniteSet(S), NEW w \in [S -> Nat], NEW f, Sums(f, w, S),
           NEW s \in SUBSET S, NEW x \in s
    PROVE  f[s] = w[x] + f[s \ {x}]
<1> DEFINE Good(t) == \A y \in t : f[t] = w[y] + f[t \ {y}]
           Bad == {Cardinality(t) : t \in {u \in SUBSET S : ~Good(u)}}
<1>1. ASSUME NEW t \in SUBSET S, \A u \in SUBSET S : Cardinality(u) < Cardinality(t) => Good(u)
      PROVE  Good(t)
  <2> SUFFICES ASSUME NEW y \in t PROVE f[t] = w[y] + f[t \ {y}]
    OBVIOUS
  <2> DEFINE p == Pick(t)
  <2>1. p \in t /\ p \in S /\ y \in S
    BY PickLemma
  <2>2. f[t] = w[p] + f[t \ {p}]
    BY <2>1 DEF Sums
  <2> HIDE DEF p
  <2>3. CASE p = y
    BY <2>2, <2>3
  <2>4. CASE p # y
    <3>1. /\ t \ {p} \in SUBSET S /\ Cardinality(t \ {p}) < Cardinality(t) /\ y \in t \ {p}
          /\ t \ {y} \in SUBSET S /\ Cardinality(t \ {y}) < Cardinality(t) /\ p \in t \ {y}
      <4>1. Cardinality(t \ {p}) = Cardinality(t) - 1 /\ Cardinality(t \ {y}) = Cardinality(t) - 1
            /\ Cardinality(t) \in Nat
        BY <2>1, PickLemma
      <4>2. QED
        BY <2>1, <2>4, <4>1
    <3>2. f[t \ {p}] = w[y] + f[(t \ {p}) \ {y}] /\ f[t \ {y}] = w[p] + f[(t \ {y}) \ {p}]
      BY <1>1, <3>1
    <3>3. (t \ {p}) \ {y} = (t \ {y}) \ {p} /\ (t \ {p}) \ {y} \in SUBSET S
      OBVIOUS
    <3>4. w[p] \in Nat /\ w[y] \in Nat /\ f[(t \ {p}) \ {y}] \in Nat
      BY <2>1, <3>3 DEF Sums
    <3> DEFINE a == w[p]
               b == w[y]
               c == f[(t \ {p}) \ {y}]
    <3>5. f[t] = a + (b + c) /\ f[t \ {y}] = a + c /\ a \in Nat /\ b \in Nat /\ c \in Nat
      BY <2>2, <3>2, <3>3, <3>4
    <3> HIDE DEF a, c
    <3>6. QED
      BY <3>5
  <2>5. QED
    BY <2>3, <2>4
<1> HIDE DEF Good
<1>2. Bad = {}
  <2> SUFFICES ASSUME Bad # {} PROVE FALSE
    OBVIOUS
  <2>1. \A u \in SUBSET S : Cardinality(u) \in Nat
    BY FS_Subset, FS_CardinalityType
  <2>2. Bad \subseteq Nat
    BY <2>1
  <2>3. PICK k \in Bad : \A j \in Bad : k <= j
    BY <2>2, LeastElement
  <2>4. PICK t \in SUBSET S : ~Good(t) /\ k = Cardinality(t)
    BY <2>3
  <2>5. ASSUME NEW u \in SUBSET S, Cardinality(u) < Cardinality(t) PROVE Good(u)
    <3> SUFFICES ASSUME ~Good(u) PROVE FALSE
      OBVIOUS
    <3>1. Cardinality(u) \in Bad
      OBVIOUS
    <3>2. Cardinality(t) <= Cardinality(u)
      BY <2>3, <2>4, <3>1
    <3>3. QED
      BY <2>1, <2>5, <3>2
  <2>6. QED
    BY <1>1, <2>4, <2>5
<1>3. Good(s)
  BY <1>2
<1>4. QED
  BY <1>3 DEF Good

(* What the recursion computes is a number. *)
LEMMA SumNat ==
    ASSUME NEW S, IsFiniteSet(S), NEW w \in [S -> Nat], NEW f, f[{}] = 0,
           \A s \in SUBSET S : s # {} => f[s] = w[Pick(s)] + f[s \ {Pick(s)}]
    PROVE  \A s \in SUBSET S : f[s] \in Nat
<1> DEFINE Bad == {Cardinality(t) : t \in {u \in SUBSET S : f[u] \notin Nat}}
<1> SUFFICES ASSUME Bad # {} PROVE FALSE
  OBVIOUS
<1>1. \A u \in SUBSET S : Cardinality(u) \in Nat
  BY FS_Subset, FS_CardinalityType
<1>2. Bad \subseteq Nat
  BY <1>1
<1>3. PICK k \in Bad : \A j \in Bad : k <= j
  BY <1>2, LeastElement
<1>4. PICK t \in SUBSET S : f[t] \notin Nat /\ k = Cardinality(t)
  BY <1>3
<1>5. t # {}
  <2> SUFFICES ASSUME t = {} PROVE FALSE
    OBVIOUS
  <2>1. f[t] = 0
    BY Zenon
  <2> HIDE DEF Bad
  <2>2. QED
    BY <1>4, <2>1
<1>6. Pick(t) \in t /\ w[Pick(t)] \in Nat
  BY <1>5 DEF Pick
<1>7. t \ {Pick(t)} \in SUBSET S /\ Cardinality(t \ {Pick(t)}) < k
  <2>1. /\ t \ {Pick(t)} \in SUBSET S /\ Cardinality(t) \in Nat
        /\ Cardinality(t \ {Pick(t)}) = Cardinality(t) - 1
    BY <1>6, PickLemma
  <2>2. QED
    BY <1>4, <2>1
<1>8. f[t \ {Pick(t)}] \in Nat
  <2> SUFFICES ASSUME f[t \ {Pick(t)}] \notin Nat PROVE FALSE
    OBVIOUS
  <2>1. Cardinality(t \ {Pick(t)}) \in Bad
    BY <1>7
  <2>2. k <= Cardinality(t \ {Pick(t)}) /\ Cardinality(t \ {Pick(t)}) \in Nat /\ k \in Nat
    BY <1>1, <1>2, <1>3, <1>7, <2>1
  <2>3. QED
    BY <1>7, <2>2
<1>9. f[t] \in Nat
  <2> DEFINE a == w[Pick(t)]
             b == f[t \ {Pick(t)}]
  <2>1. f[t] = a + b
    BY <1>5, Zenon
  <2>2. a \in Nat /\ b \in Nat
    BY <1>6, <1>8
  <2> HIDE DEF a, b, Bad
  <2>3. QED
    BY <2>1, <2>2
<1>10. QED
  BY <1>4, <1>9

-----------------------------------------------------------------------------
(* The totals of a walk. *)

(* The sums that SummaryTruthful speaks of, over any part of the files and *)
(* of their inodes.                                                        *)
FileSum[s \in SUBSET (Regular \cap Initial)] ==
    IF s = {} THEN 0
    ELSE LET x == CHOOSE x \in s : TRUE IN Length[Inode[x]] + FileSum[s \ {x}]

InodeSum[s \in SUBSET Inodes(Regular \cap Initial)] ==
    IF s = {} THEN 0
    ELSE LET x == CHOOSE x \in s : TRUE IN Length[x] + InodeSum[s \ {x}]

(* The entries that the loops have come to. *)
Listed(d) == pc[d] \notin {"idle", "list"}
Seen == {x \in Initial \ {Root} : Listed(Parent[x]) /\ x \notin todo[Parent[x]]}
SeenFiles == Seen \cap Regular

(* The totals are those of the given files and number of other entries. *)
Tallied(o, total, files, rest) ==
    IF o = "check"
    THEN /\ total.Inodes = rest + Cardinality(Inodes(files))
         /\ total.Length = InodeSum[Inodes(files)]
    ELSE /\ total.Inodes = rest + Cardinality(files)
         /\ total.Length = FileSum[files]

(* The command and the root directory, which it counts in the end. *)
RootSeen == IF cmd = "ok" THEN 1 ELSE 0

AtRest == op # "delete" /\ born = {} /\ ~failed

(* A walk that deletes nothing changes nothing. *)
ReadOnlyInv ==
    op # "delete" =>
        /\ exists = Initial \cup born
        /\ \A d \in Dirs : pc[d] # "self" /\ todo[d] \subseteq exists

Over == {"end", "send", "sent", "done"}

(* A loop that ended has come to everything, a directory that was come to  *)
(* is walked, and the map holds the inodes that may be met again.          *)
SeenInv ==
    AtRest =>
        /\ \A d \in Dirs : pc[d] \in Over => todo[d] = {}
        /\ \A e \in Below \cap Seen : pc[e] # "idle"
        /\ op = "check" => inodeMap = {i \in Inodes(SeenFiles) : Nlink(i) >= 2}
        /\ Tallied(op, summary, SeenFiles, Cardinality(Seen \ Regular) + RootSeen)

SumInv == ReadOnlyInv /\ SeenInv

IsFileSum(g) ==
    g = [s \in SUBSET (Regular \cap Initial) |->
            IF s = {} THEN 0
            ELSE LET x == CHOOSE x \in s : TRUE IN Length[Inode[x]] + g[s \ {x}]]

IsInodeSum(g) ==
    g = [s \in SUBSET Inodes(Regular \cap Initial) |->
            IF s = {} THEN 0
            ELSE LET x == CHOOSE x \in s : TRUE IN Length[x] + g[s \ {x}]]

FileWeight == [f \in Regular \cap Initial |-> Length[Inode[f]]]
InodeWeight == [i \in Inodes(Regular \cap Initial) |-> Length[i]]

(* The files and the inodes are finite sets, and have lengths. *)
LEMMA Weights ==
    /\ IsFiniteSet(Regular \cap Initial) /\ FileWeight \in [Regular \cap Initial -> Nat]
    /\ IsFiniteSet(Inodes(Regular \cap Initial))
    /\ InodeWeight \in [Inodes(Regular \cap Initial) -> Nat]
<1> DEFINE R == Regular \cap Initial
<1>1. R \in SUBSET Nodes /\ R \subseteq Files
  BY TreeAssumption DEF Initial, Nodes
<1>2. IsFiniteSet(R)
  BY <1>1, NodesFinite
<1>3. FileWeight \in [R -> Nat] /\ InodeWeight \in [Inodes(R) -> Nat]
  BY <1>1, LengthAssumption DEF FileWeight, InodeWeight, Inodes
<1>4. IsFiniteSet(Inodes(R))
  <2> DEFINE g == [f \in R |-> Inode[f]]
  <2>1. g \in Surjection(R, Inodes(R))
    BY DEF Surjection, Inodes
  <2>2. QED
    BY <1>2, <2>1, FS_Surjection
<1>5. QED
  BY <1>2, <1>3, <1>4

(* FileSum adds up the lengths of files. *)
LEMMA FileSums ==
    Sums(FileSum, FileWeight, Regular \cap Initial)
<1> DEFINE R == Regular \cap Initial
           w == FileWeight
<1>1. IsFiniteSet(R) /\ w \in [R -> Nat] /\ \A x \in R : w[x] = Length[Inode[x]]
  BY Weights DEF FileWeight
<1>2. \A s \in SUBSET R : Cardinality(s) <= Cardinality(R)
  BY <1>1, FS_Subset
<1>3. \A s \in SUBSET R : s # {} => Pick(s) \in R /\ w[Pick(s)] = Length[Inode[Pick(s)]]
  BY <1>1 DEF Pick
<1>4. \A g : IsFileSum(g) <=> g = [s \in SUBSET R |->
               IF s = {} THEN 0 ELSE Length[Inode[Pick(s)]] + g[s \ {Pick(s)}]]
  BY DEF IsFileSum, Pick
<1> HIDE DEF R, w
<1>5. \E g : IsFileSum(g)
  <2>1. PICK f \in [SUBSET R -> Nat] : Adds(f, w, R, Cardinality(R))
    BY <1>1, SumExists
  <2>2. \A s \in SUBSET R :
          f[s] = IF s = {} THEN 0 ELSE Length[Inode[Pick(s)]] + f[s \ {Pick(s)}]
    BY <1>2, <1>3, <2>1 DEF Adds
  <2>3. f = [s \in SUBSET R |->
               IF s = {} THEN 0 ELSE Length[Inode[Pick(s)]] + f[s \ {Pick(s)}]]
    BY <2>1, <2>2
  <2>4. QED
    BY <1>4, <2>3
<1>6. FileSum = CHOOSE g : IsFileSum(g)
  BY DEF FileSum, IsFileSum
<1>7. IsFileSum(FileSum)
  BY <1>5, <1>6
<1> DEFINE f == FileSum
<1>8. \A s \in SUBSET R : f[s] = IF s = {} THEN 0 ELSE Length[Inode[Pick(s)]] + f[s \ {Pick(s)}]
  BY <1>4, <1>7
<1> HIDE DEF f
<1>9. \A s \in SUBSET R : s # {} => f[s] = w[Pick(s)] + f[s \ {Pick(s)}]
  BY <1>3, <1>8
<1>10. f[{}] = 0
  BY <1>8
<1>11. \A s \in SUBSET R : f[s] \in Nat
  BY <1>1, <1>9, <1>10, SumNat
<1>12. QED
  BY <1>9, <1>10, <1>11 DEF Sums, f, R, w

(* InodeSum adds up the lengths of inodes. *)
LEMMA InodeSums ==
    Sums(InodeSum, InodeWeight, Inodes(Regular \cap Initial))
<1> DEFINE R == Inodes(Regular \cap Initial)
           w == InodeWeight
<1>1. IsFiniteSet(R) /\ w \in [R -> Nat] /\ \A x \in R : w[x] = Length[x]
  BY Weights DEF InodeWeight
<1>2. \A s \in SUBSET R : Cardinality(s) <= Cardinality(R)
  BY <1>1, FS_Subset
<1>3. \A s \in SUBSET R : s # {} => Pick(s) \in R /\ w[Pick(s)] = Length[Pick(s)]
  BY <1>1 DEF Pick
<1>4. \A g : IsInodeSum(g) <=> g = [s \in SUBSET R |->
               IF s = {} THEN 0 ELSE Length[Pick(s)] + g[s \ {Pick(s)}]]
  BY DEF IsInodeSum, Pick
<1> HIDE DEF R, w
<1>5. \E g : IsInodeSum(g)
  <2>1. PICK f \in [SUBSET R -> Nat] : Adds(f, w, R, Cardinality(R))
    BY <1>1, SumExists
  <2>2. \A s \in SUBSET R :
          f[s] = IF s = {} THEN 0 ELSE Length[Pick(s)] + f[s \ {Pick(s)}]
    BY <1>2, <1>3, <2>1 DEF Adds
  <2>3. f = [s \in SUBSET R |-> IF s = {} THEN 0 ELSE Length[Pick(s)] + f[s \ {Pick(s)}]]
    BY <2>1, <2>2
  <2>4. QED
    BY <1>4, <2>3
<1>6. InodeSum = CHOOSE g : IsInodeSum(g)
  BY DEF InodeSum, IsInodeSum
<1>7. IsInodeSum(InodeSum)
  BY <1>5, <1>6
<1> DEFINE f == InodeSum
<1>8. \A s \in SUBSET R : f[s] = IF s = {} THEN 0 ELSE Length[Pick(s)] + f[s \ {Pick(s)}]
  BY <1>4, <1>7
<1> HIDE DEF f
<1>9. \A s \in SUBSET R : s # {} => f[s] = w[Pick(s)] + f[s \ {Pick(s)}]
  BY <1>3, <1>8
<1>10. f[{}] = 0
  BY <1>8
<1>11. \A s \in SUBSET R : f[s] \in Nat
  BY <1>1, <1>9, <1>10, SumNat
<1>12. QED
  BY <1>9, <1>10, <1>11 DEF Sums, f, R, w

(* They are the sums of SummaryTruthful. *)
LEMMA SumsAreTotals ==
    /\ MapThenSumSet(LAMBDA f : Length[Inode[f]], Regular \cap Initial) = FileSum[Regular \cap Initial]
    /\ MapThenSumSet(LAMBDA i : Length[i], Inodes(Regular \cap Initial))
         = InodeSum[Inodes(Regular \cap Initial)]
<1>1. MapThenSumSet(LAMBDA f : Length[Inode[f]], Regular \cap Initial) = FileSum[Regular \cap Initial]
  BY DEF MapThenSumSet, MapThenFoldSet, FileSum
<1>2. MapThenSumSet(LAMBDA i : Length[i], Inodes(Regular \cap Initial))
         = InodeSum[Inodes(Regular \cap Initial)]
  BY DEF MapThenSumSet, MapThenFoldSet, InodeSum
<1>3. QED
  BY <1>1, <1>2


-----------------------------------------------------------------------------
(* How a step changes what was seen. *)

(* The parent of an entry there was is a directory, and every directory    *)
(* was there from the beginning.                                           *)
LEMMA InitialTree ==
    /\ Initial \subseteq Nodes /\ Dirs \subseteq Initial
    /\ \A x \in Initial \ {Root} : Parent[x] \in Dirs
    /\ Seen \in SUBSET Nodes /\ SeenFiles \in SUBSET (Regular \cap Initial)
<1>1. Initial \subseteq Nodes /\ Dirs \subseteq Initial
  BY TreeAssumption DEF Initial, Nodes
<1>2. \A x \in Initial \ {Root} : Parent[x] \in Dirs
  BY <1>1, TreeAssumption
<1>3. QED
  BY <1>1, <1>2 DEF Seen, SeenFiles

(* A step that moves no loop sees nothing new. *)
LEMMA SeenSame ==
    ASSUME UNCHANGED todo, \A d \in Dirs : Listed(d)' <=> Listed(d)
    PROVE  Seen' = Seen
BY InitialTree DEF Seen

(* A loop that goes on has seen one entry more. *)
LEMMA SeenOneMore ==
    ASSUME IInv, ReadOnlyInv, op # "delete", born = {}, NEW d \in Dirs, NEW x \in todo[d],
           pc[d] = "loop", todo' = [todo EXCEPT ![d] = @ \ {x}],
           \A c \in Dirs : Listed(c)' <=> Listed(c)
    PROVE  Seen' = Seen \cup {x} /\ x \notin Seen /\ x \in Initial \ {Root}
<1>1. x \in Children(d) /\ Parent[x] = d /\ x # Root
  BY DEF IInv, FrameInv, TodoInv, Children
<1>2. x \in Initial
  BY DEF ReadOnlyInv
<1>3. todo \in [Dirs -> SUBSET Nodes]
  BY DEF IInv, TypeOK
<1>4. Listed(d)
  BY DEF Listed
<1>5. x \notin Seen
  BY <1>1 DEF Seen
<1>6. ASSUME NEW y \in Initial \ {Root} PROVE y \in Seen' <=> y \in Seen \cup {x}
  BY <1>1, <1>3, <1>4, <1>6, InitialTree DEF Seen
<1>7. Seen' = Seen \cup {x}
  BY <1>1, <1>2, <1>6 DEF Seen
<1>8. QED
  BY <1>1, <1>2, <1>5, <1>7

(* The conclusion of the steps that see nothing new. *)
LEMMA SumStays ==
    ASSUME SumInv, ReadOnlyInv', UNCHANGED <<op, exists, born, summary, inodeMap, cmd>>,
           Seen' = Seen, failed => failed',
           AtRest' => \A d \in Dirs : pc'[d] \in Over => todo'[d] = {},
           \A e \in Below : pc[e] # "idle" => pc'[e] # "idle"
    PROVE  SumInv'
<1> SUFFICES ASSUME AtRest' PROVE SeenInv'
  BY DEF SumInv, SeenInv
<1>1. AtRest
  BY DEF AtRest
<1>2. SeenFiles' = SeenFiles /\ RootSeen' = RootSeen /\ \A i : Nlink(i)' = Nlink(i)
  BY DEF SeenFiles, RootSeen, Nlink
<1>3. \A e \in Below \cap Seen' : pc'[e] # "idle"
  BY <1>1 DEF SumInv, SeenInv
<1>4. op' = "check" => inodeMap' = {i \in Inodes(SeenFiles') : Nlink(i)' >= 2}
  BY <1>1, <1>2 DEF SumInv, SeenInv
<1>5. Tallied(op', summary', SeenFiles', Cardinality(Seen' \ Regular) + RootSeen')
  BY <1>1, <1>2 DEF SumInv, SeenInv, Tallied
<1>6. QED
  BY <1>3, <1>4, <1>5 DEF SeenInv

(* A deletion, and a walk that failed, are none of SumInv's concern. *)
LEMMA SumVoid ==
    ASSUME op' = "delete" \/ (failed' /\ ReadOnlyInv')
    PROVE  SumInv'
BY DEF SumInv, ReadOnlyInv, SeenInv, AtRest

(* An entry that is no regular file adds one inode to the totals. *)
LEMMA OtherTallied ==
    ASSUME IInv, SumInv, AtRest, NEW x \in Nodes \ Regular, x \notin Seen, Seen' = Seen \cup {x},
           summary' = AddInodes(1), UNCHANGED <<op, cmd>>
    PROVE  /\ SeenFiles' = SeenFiles
           /\ Tallied(op', summary', SeenFiles', Cardinality(Seen' \ Regular) + RootSeen')
<1>1. SeenFiles' = SeenFiles /\ RootSeen' = RootSeen /\ RootSeen \in Nat
  BY DEF SeenFiles, RootSeen
<1> DEFINE S == Seen \ Regular
<1>2. S \in SUBSET Nodes /\ Seen' \ Regular = S \cup {x} /\ x \notin S
  BY InitialTree
<1>3. Cardinality(S \cup {x}) = Cardinality(S) + 1 /\ Cardinality(S) \in Nat
  BY <1>2, NodesFinite, FS_AddElement
<1>4. /\ summary \in [Inodes : Nat, Length : Nat]
      /\ summary'.Inodes = summary.Inodes + 1 /\ summary'.Length = summary.Length
  BY DEF IInv, TypeOK, AddInodes
<1>5. Tallied(op, summary, SeenFiles, Cardinality(S) + RootSeen)
  BY DEF SumInv, SeenInv
<1>6. \A T : IsFiniteSet(T) => Cardinality(T) \in Nat
  BY FS_CardinalityType
<1>7. IsFiniteSet(SeenFiles) /\ IsFiniteSet(Inodes(SeenFiles))
  <2>1. SeenFiles \subseteq Regular \cap Initial
        /\ Inodes(SeenFiles) \subseteq Inodes(Regular \cap Initial)
    BY InitialTree DEF Inodes
  <2>2. QED
    BY <2>1, Weights, FS_Subset
<1> DEFINE n == Cardinality(S)
           a == Cardinality(SeenFiles)
           b == Cardinality(Inodes(SeenFiles))
           r == RootSeen
<1>8. n \in Nat /\ a \in Nat /\ b \in Nat /\ r \in Nat
  BY <1>1, <1>3, <1>6, <1>7
<1>9. Cardinality(Seen' \ Regular) + RootSeen' = (n + 1) + r
  BY <1>1, <1>2, <1>3
<1>10. Tallied(op', summary', SeenFiles, (n + 1) + r)
  <2>1. CASE op = "check"
    <3>1. summary.Inodes = (n + r) + b /\ summary.Length = InodeSum[Inodes(SeenFiles)]
      BY <1>5, <2>1 DEF Tallied
    <3> HIDE DEF n, b, r
    <3>2. summary'.Inodes = ((n + 1) + r) + b
      BY <1>4, <1>8, <3>1
    <3>3. QED
      BY <1>1, <1>4, <2>1, <3>1, <3>2 DEF Tallied, b
  <2>2. CASE op # "check"
    <3>1. summary.Inodes = (n + r) + a /\ summary.Length = FileSum[SeenFiles]
      BY <1>5, <2>2 DEF Tallied
    <3> HIDE DEF n, a, r
    <3>2. summary'.Inodes = ((n + 1) + r) + a
      BY <1>4, <1>8, <3>1
    <3>3. QED
      BY <1>1, <1>4, <2>2, <3>1, <3>2 DEF Tallied, a
  <2>3. QED
    BY <2>1, <2>2
<1>11. QED
  BY <1>1, <1>9, <1>10

(* The sets that the totals count are finite. *)
LEMMA SeenCards ==
    /\ Cardinality(Seen \ Regular) + RootSeen \in Nat
    /\ IsFiniteSet(SeenFiles) /\ Cardinality(SeenFiles) \in Nat
    /\ IsFiniteSet(Inodes(SeenFiles)) /\ Cardinality(Inodes(SeenFiles)) \in Nat
    /\ Inodes(SeenFiles) \in SUBSET Inodes(Regular \cap Initial)
<1>1. SeenFiles \subseteq Regular \cap Initial
      /\ Inodes(SeenFiles) \subseteq Inodes(Regular \cap Initial)
  BY InitialTree DEF Inodes
<1>2. IsFiniteSet(SeenFiles) /\ IsFiniteSet(Inodes(SeenFiles))
  BY <1>1, Weights, FS_Subset
<1>3. Cardinality(SeenFiles) \in Nat /\ Cardinality(Inodes(SeenFiles)) \in Nat
  BY <1>2, FS_CardinalityType
<1>4. Cardinality(Seen \ Regular) \in Nat /\ RootSeen \in Nat
  <2>1. Seen \ Regular \in SUBSET Nodes
    BY InitialTree
  <2>2. QED
    BY <2>1, NodesFinite DEF RootSeen
<1>5. QED
  BY <1>1, <1>2, <1>3, <1>4

(* The sum of one file, or of one inode, more. *)
LEMMA OneMoreSummed ==
    ASSUME NEW S, IsFiniteSet(S), NEW w \in [S -> Nat], NEW f, Sums(f, w, S),
           NEW s \in SUBSET S, NEW x \in S \ s
    PROVE  f[s \cup {x}] = f[s] + w[x] /\ f[s] \in Nat /\ w[x] \in Nat
<1>1. s \cup {x} \in SUBSET S /\ x \in s \cup {x} /\ (s \cup {x}) \ {x} = s
  OBVIOUS
<1>2. f[s \cup {x}] = w[x] + f[(s \cup {x}) \ {x}]
  BY <1>1, SumLemma, SMTT(30)
<1>3. w[x] \in Nat /\ f[s] \in Nat
  BY DEF Sums
<1> DEFINE a == w[x]
           b == f[s]
<1>4. f[s \cup {x}] = a + b
  BY <1>1, <1>2
<1>5. a \in Nat /\ b \in Nat
  BY <1>3
<1> HIDE DEF a, b
<1>6. f[s \cup {x}] = b + a
  BY <1>4, <1>5
<1>7. QED
  BY <1>3, <1>6 DEF a, b

(* What the walk of a regular file adds. *)
Adds1(x) == [Inodes |-> summary.Inodes + 1, Length |-> summary.Length + Length[Inode[x]]]

(* A regular file of a quota adds one inode and its length. *)
LEMMA FileTallied ==
    ASSUME IInv, SumInv, AtRest, op # "check", NEW x \in Regular \cap Initial, x \notin Seen,
           Seen' = Seen \cup {x}, summary' = Adds1(x), UNCHANGED <<op, cmd>>
    PROVE  Tallied(op', summary', SeenFiles', Cardinality(Seen' \ Regular) + RootSeen')
<1> DEFINE F == SeenFiles
           n == Cardinality(Seen \ Regular) + RootSeen
<1>1. /\ SeenFiles' = F \cup {x} /\ x \notin F
      /\ Cardinality(Seen' \ Regular) + RootSeen' = n
  <2>1. Seen' \ Regular = Seen \ Regular /\ RootSeen' = RootSeen
    BY DEF RootSeen
  <2>2. SeenFiles' = F \cup {x} /\ x \notin F
    BY DEF SeenFiles
  <2>3. QED
    BY <2>1, <2>2
<1>2. F \in SUBSET (Regular \cap Initial) /\ x \in (Regular \cap Initial) \ F
  BY <1>1, InitialTree
<1>3. FileSum[F \cup {x}] = FileSum[F] + Length[Inode[x]] /\ FileSum[F] \in Nat
      /\ Length[Inode[x]] \in Nat
  <2>1. /\ FileSum[F \cup {x}] = FileSum[F] + FileWeight[x] /\ FileSum[F] \in Nat
        /\ FileWeight[x] \in Nat
    <3> DEFINE R == Regular \cap Initial
    <3>1. IsFiniteSet(R) /\ FileWeight \in [R -> Nat] /\ Sums(FileSum, FileWeight, R)
          /\ F \in SUBSET R /\ x \in R \ F
      BY <1>2, Weights, FileSums
    <3> HIDE DEF R, F
    <3>2. QED
      BY <3>1, OneMoreSummed
  <2>2. FileWeight[x] = Length[Inode[x]]
    BY DEF FileWeight
  <2>3. QED
    BY <2>1, <2>2
<1>4. Cardinality(F \cup {x}) = Cardinality(F) + 1 /\ Cardinality(F) \in Nat /\ n \in Nat
  BY <1>1, SeenCards, FS_AddElement
<1>5. summary.Inodes = n + Cardinality(F) /\ summary.Length = FileSum[F]
  BY DEF SumInv, SeenInv, Tallied
<1>6. summary'.Inodes = summary.Inodes + 1 /\ summary'.Length = summary.Length + Length[Inode[x]]
  BY DEF Adds1
<1> HIDE DEF n, F
<1>7. summary'.Inodes = n + Cardinality(F \cup {x}) /\ summary'.Length = FileSum[F \cup {x}]
  BY <1>3, <1>4, <1>5, <1>6
<1>8. QED
  BY <1>1, <1>7 DEF Tallied

(* A file that was not seen and shares its inode with one that was has two *)
(* links or more.                                                          *)
LEMMA TwoLinks ==
    ASSUME NEW x \in Regular \cap exists, NEW y \in Regular \cap exists, x # y, Inode[x] = Inode[y],
           exists \subseteq Nodes
    PROVE  Nlink(Inode[x]) >= 2
<1> DEFINE L == {f \in Regular \cap exists : Inode[f] = Inode[x]}
<1>1. {x, y} \subseteq L /\ L \in SUBSET Nodes
  OBVIOUS
<1>2. IsFiniteSet(L) /\ Cardinality(L) \in Nat
  BY <1>1, NodesFinite
<1>3. Cardinality({x, y}) = 2
  <2>1. {x, y} = {x} \cup {y} /\ y \notin {x}
    OBVIOUS
  <2>2. Cardinality({x}) = 1 /\ IsFiniteSet({x})
    BY FS_Singleton
  <2>3. QED
    BY <2>1, <2>2, FS_AddElement
<1>4. Cardinality({x, y}) <= Cardinality(L)
  BY <1>1, <1>2, FS_Subset
<1>5. QED
  BY <1>2, <1>3, <1>4 DEF Nlink

(* A regular file of a check adds its inode, unless that was counted. *)
LEMMA InodeTallied ==
    ASSUME IInv, SumInv, AtRest, op = "check", NEW x \in Regular \cap Initial, x \notin Seen,
           Seen' = Seen \cup {x}, inodeMap' = Store(x),
           summary' = IF Counted(x) THEN summary ELSE Adds1(x), UNCHANGED <<op, cmd, exists>>
    PROVE  /\ inodeMap' = {i \in Inodes(SeenFiles') : Nlink(i)' >= 2}
           /\ Tallied(op', summary', SeenFiles', Cardinality(Seen' \ Regular) + RootSeen')
<1> DEFINE F == SeenFiles
           I == Inodes(SeenFiles)
           n == Cardinality(Seen \ Regular) + RootSeen
           j == Inode[x]
<1>1. SeenFiles' = F \cup {x} /\ Cardinality(Seen' \ Regular) + RootSeen' = n
  <2>1. Seen' \ Regular = Seen \ Regular /\ RootSeen' = RootSeen
    BY DEF RootSeen
  <2>2. SeenFiles' = F \cup {x}
    BY DEF SeenFiles
  <2>3. QED
    BY <2>1, <2>2
<1>2. Inodes(SeenFiles') = I \cup {j} /\ j \in Inodes(Regular \cap Initial)
  BY <1>1 DEF Inodes
<1>3. exists = Initial /\ exists \subseteq Nodes
  BY DEF SumInv, ReadOnlyInv, AtRest, IInv, TypeOK
<1>4. j \in I => Nlink(j) >= 2
  <2> SUFFICES ASSUME j \in I PROVE Nlink(j) >= 2
    OBVIOUS
  <2>1. PICK y \in SeenFiles : Inode[y] = j
    BY DEF Inodes
  <2>2. y \in Regular \cap exists /\ x \in Regular \cap exists /\ x # y
    BY <1>3, <2>1, InitialTree DEF SeenFiles
  <2>3. QED
    BY <1>3, <2>1, <2>2, TwoLinks
<1>5. inodeMap = {i \in I : Nlink(i) >= 2}
  BY DEF SumInv, SeenInv
<1>6. Counted(x) <=> j \in I
  BY <1>4, <1>5 DEF Counted
<1>7. inodeMap' = {i \in Inodes(SeenFiles') : Nlink(i)' >= 2}
  <2>1. \A i : Nlink(i)' = Nlink(i)
    BY DEF Nlink
  <2>2. inodeMap' = {i \in I \cup {j} : Nlink(i) >= 2}
    BY <1>5 DEF Store
  <2>3. QED
    BY <1>2, <2>1, <2>2
<1>8. summary.Inodes = n + Cardinality(I) /\ summary.Length = InodeSum[I]
  BY DEF SumInv, SeenInv, Tallied
<1>9. IsFiniteSet(I) /\ Cardinality(I) \in Nat /\ n \in Nat
      /\ I \in SUBSET Inodes(Regular \cap Initial)
  BY SeenCards
<1>10. summary'.Inodes = n + Cardinality(I \cup {j}) /\ summary'.Length = InodeSum[I \cup {j}]
  <2>1. CASE j \in I
    <3>1. I \cup {j} = I /\ summary' = summary
      BY <1>6, <2>1
    <3>2. QED
      BY <1>8, <3>1
  <2>2. CASE j \notin I
    <3>1. /\ summary'.Inodes = summary.Inodes + 1
          /\ summary'.Length = summary.Length + Length[j]
      BY <1>6, <2>2 DEF Adds1
    <3>2. Cardinality(I \cup {j}) = Cardinality(I) + 1
      BY <1>9, <2>2, FS_AddElement
    <3>3. /\ InodeSum[I \cup {j}] = InodeSum[I] + Length[j] /\ InodeSum[I] \in Nat
          /\ Length[j] \in Nat
      <4>1. /\ InodeSum[I \cup {j}] = InodeSum[I] + InodeWeight[j] /\ InodeSum[I] \in Nat
            /\ InodeWeight[j] \in Nat
        <5> DEFINE R == Inodes(Regular \cap Initial)
        <5>1. IsFiniteSet(R) /\ InodeWeight \in [R -> Nat] /\ Sums(InodeSum, InodeWeight, R)
              /\ I \in SUBSET R /\ j \in R \ I
          BY <1>2, <1>9, <2>2, Weights, InodeSums
        <5> HIDE DEF R, I, j
        <5>2. QED
          BY <5>1, OneMoreSummed
      <4>2. InodeWeight[j] = Length[j]
        BY <1>2 DEF InodeWeight
      <4>3. QED
        BY <4>1, <4>2
    <3> HIDE DEF n, I, j
    <3>4. QED
      BY <1>8, <1>9, <3>1, <3>2, <3>3
  <2>3. QED
    BY <2>1, <2>2
<1>11. Tallied(op', summary', SeenFiles', n)
  <2> HIDE DEF n
  <2>1. QED
    BY <1>2, <1>10 DEF Tallied
<1>12. QED
  BY <1>1, <1>7, <1>11

-----------------------------------------------------------------------------
(* The steps, for the commands that count. *)

(* SumInv holds initially. *)
LEMMA InitSumInv == Init => SumInv
<1> SUFFICES ASSUME Init PROVE SumInv
  OBVIOUS
<1> USE TreeAssumption DEF Init
<1>1. ReadOnlyInv
  BY DEF ReadOnlyInv
<1>2. Seen = {}
  BY InitialTree DEF Seen, Listed
<1>3. SeenFiles = {} /\ Inodes(SeenFiles) = {} /\ Seen \ Regular = {}
  BY <1>2 DEF SeenFiles, Inodes
<1>4. FileSum[{}] = 0 /\ InodeSum[{}] = 0 /\ Cardinality({}) = 0 /\ RootSeen = 0
  BY FileSums, InodeSums, FS_EmptySet DEF Sums, RootSeen
<1>5. Tallied(op, summary, SeenFiles, Cardinality(Seen \ Regular) + RootSeen)
  <2>1. summary.Inodes = 0 /\ summary.Length = 0
    OBVIOUS
  <2>2. Cardinality(Seen \ Regular) = 0 /\ RootSeen = 0
    BY <1>3, <1>4, Zenon
  <2>3. Cardinality(Seen \ Regular) + RootSeen = 0
    BY <2>2
  <2>4. /\ Cardinality(SeenFiles) = 0 /\ FileSum[SeenFiles] = 0
        /\ Cardinality(Inodes(SeenFiles)) = 0 /\ InodeSum[Inodes(SeenFiles)] = 0
    BY <1>3, <1>4, Zenon
  <2>5. QED
    BY <2>1, <2>3, <2>4 DEF Tallied
<1>6. \A d \in Dirs : pc[d] \notin Over
  BY DEF Over
<1>7. SeenInv
  BY <1>2, <1>3, <1>5, <1>6 DEF SeenInv
<1>8. QED
  BY <1>1, <1>7 DEF SumInv

(* List *)
LEMMA ListSums ==
    ASSUME IInv, SumInv, op # "delete", NEW d \in Dirs, List(d)
    PROVE  SumInv'
<1>1. /\ pc[d] = "list" /\ exists' = exists
      /\ UNCHANGED <<op, born, summary, inodeMap, cmd>>
      /\ pc \in [Dirs -> Pcs] /\ todo \in [Dirs -> SUBSET Nodes]
  BY DEF List, Ok, Refused, IInv, TypeOK, Pcs
<1>2. CASE failed' = TRUE /\ Return(d, TRUE) /\ UNCHANGED todo
  <2>1. ReadOnlyInv'
    BY <1>1, <1>2 DEF Return, SumInv, ReadOnlyInv
  <2>2. QED
    BY <1>2, <2>1, SumVoid
<1>3. CASE /\ UNCHANGED failed
           /\ todo' = [todo EXCEPT ![d] = Children(d) \cap exists]
           /\ pc' = [pc EXCEPT ![d] = "loop"]
  <2>1. ReadOnlyInv'
    BY <1>1, <1>3 DEF SumInv, ReadOnlyInv
  <2>2. ASSUME AtRest PROVE Seen' = Seen
    <3>1. exists = Initial
      BY <2>2 DEF AtRest, SumInv, ReadOnlyInv
    <3>2. ASSUME NEW y \in Initial \ {Root} PROVE y \in Seen' <=> y \in Seen
      <4>1. CASE Parent[y] = d
        <5>1. y \notin Seen
          BY <1>1, <4>1 DEF Seen, Listed
        <5>2. y \in todo'[d]
          BY <1>1, <1>3, <3>1, <3>2, <4>1, InitialTree DEF Children
        <5>3. QED
          BY <4>1, <5>1, <5>2 DEF Seen
      <4>2. CASE Parent[y] # d
        BY <1>1, <1>3, <3>2, <4>2, InitialTree DEF Seen, Listed
      <4>3. QED
        BY <4>1, <4>2
    <3>3. QED
      BY <3>2 DEF Seen
  <2>3. CASE AtRest
    <3>1. \A c \in Dirs : pc'[c] \in Over => todo'[c] = {}
      BY <1>1, <1>3, <2>3 DEF SumInv, SeenInv, Over
    <3>2. \A e \in Below : pc[e] # "idle" => pc'[e] # "idle"
      BY <1>1, <1>3 DEF Below
    <3>3. QED
      BY <1>1, <1>3, <2>1, <2>2, <2>3, <3>1, <3>2, SumStays
  <2>4. CASE ~AtRest
    BY <1>1, <1>3, <2>1, <2>4 DEF SumInv, SeenInv, AtRest
  <2>5. QED
    BY <2>3, <2>4
<1>4. QED
  BY <1>2, <1>3 DEF List, Ok, Refused

(* The steps that see one entry more, without its count. *)
LEMMA OneMoreSums ==
    ASSUME IInv, SumInv, op # "delete", NEW d \in Dirs, NEW x \in todo[d], pc[d] = "loop",
           todo' = [todo EXCEPT ![d] = @ \ {x}], UNCHANGED <<op, exists, born, failed, cmd>>,
           \A c \in Dirs : pc'[c] = pc[c] \/ (c = x /\ pc'[c] = "list") \/ (c = d /\ pc'[c] = "call"),
           x \in Dirs => pc'[x] = "list",
           AtRest /\ x \in Initial \ {Root} /\ x \notin Seen /\ Seen' = Seen \cup {x} =>
               /\ op = "check" => inodeMap' = {i \in Inodes(SeenFiles') : Nlink(i)' >= 2}
               /\ Tallied(op', summary', SeenFiles', Cardinality(Seen' \ Regular) + RootSeen')
    PROVE  SumInv'
<1>1. todo \in [Dirs -> SUBSET Nodes] /\ (x \in Dirs => pc[x] = "idle")
  BY DEF IInv, TypeOK, FrameInv, TodoInv
<1>2. ReadOnlyInv'
  BY <1>1 DEF SumInv, ReadOnlyInv
<1>3. CASE AtRest
  <2>1. \A c \in Dirs : Listed(c)' <=> Listed(c)
    BY <1>1 DEF Listed
  <2>2. Seen' = Seen \cup {x} /\ x \notin Seen /\ x \in Initial \ {Root}
    BY <1>3, <2>1, SeenOneMore DEF AtRest, SumInv
  <2>3. \A c \in Dirs : pc'[c] \in Over => todo'[c] = {}
    <3> SUFFICES ASSUME NEW c \in Dirs, pc'[c] \in Over PROVE todo'[c] = {}
      OBVIOUS
    <3>1. pc'[c] = pc[c]
      BY DEF Over
    <3>2. todo[c] = {}
      BY <1>3, <3>1 DEF SumInv, SeenInv
    <3>3. QED
      BY <1>1, <3>2
  <2>4. \A e \in Below \cap Seen' : pc'[e] # "idle"
    <3> SUFFICES ASSUME NEW e \in Below \cap Seen' PROVE pc'[e] # "idle"
      OBVIOUS
    <3>1. CASE e = x
      BY <3>1 DEF Below
    <3>2. CASE e # x
      <4>1. e \in Below \cap Seen
        BY <2>2, <3>2
      <4>2. pc[e] # "idle"
        BY <1>3, <4>1 DEF SumInv, SeenInv
      <4>3. QED
        BY <4>2 DEF Below
    <3>3. QED
      BY <3>1, <3>2
  <2>5. SeenInv'
    BY <1>3, <2>2, <2>3, <2>4 DEF SeenInv
  <2>6. QED
    BY <1>2, <2>5 DEF SumInv
<1>4. CASE ~AtRest
  BY <1>2, <1>4 DEF SumInv, SeenInv, AtRest
<1>5. QED
  BY <1>3, <1>4

(* CountFile *)
LEMMA CountFileSums ==
    ASSUME IInv, SumInv, NEW d \in Dirs, NEW f \in Files, CountFile(d, f)
    PROVE  SumInv'
<1>1. /\ op # "delete" /\ pc[d] = "loop" /\ f \in todo[d] /\ f \notin Dirs
      /\ todo' = [todo EXCEPT ![d] = @ \ {f}]
      /\ UNCHANGED <<op, exists, born, cmd>>
      /\ pc \in [Dirs -> Pcs] /\ todo \in [Dirs -> SUBSET Nodes]
  BY TreeAssumption DEF CountFile, IInv, TypeOK, Pcs
<1>2. CASE failed' = TRUE /\ Return(d, TRUE)
  <2>1. ReadOnlyInv'
    BY <1>1, <1>2 DEF Return, SumInv, ReadOnlyInv
  <2>2. QED
    BY <1>2, <2>1, SumVoid
<1>3. CASE f \notin Regular /\ summary' = AddInodes(1) /\ UNCHANGED <<pc, failed, inodeMap>>
  <2>1. ASSUME AtRest, f \in Initial \ {Root}, f \notin Seen, Seen' = Seen \cup {f}
        PROVE  /\ op = "check" => inodeMap' = {i \in Inodes(SeenFiles') : Nlink(i)' >= 2}
               /\ Tallied(op', summary', SeenFiles', Cardinality(Seen' \ Regular) + RootSeen')
    <3>1. f \in Nodes \ Regular
      BY <1>3 DEF Nodes
    <3>2. /\ SeenFiles' = SeenFiles
          /\ Tallied(op', summary', SeenFiles', Cardinality(Seen' \ Regular) + RootSeen')
      BY <1>1, <1>3, <2>1, <3>1, OtherTallied
    <3>3. \A i : Nlink(i)' = Nlink(i)
      BY <1>1 DEF Nlink
    <3>4. op = "check" => inodeMap' = {i \in Inodes(SeenFiles') : Nlink(i)' >= 2}
      BY <1>3, <2>1, <3>2, <3>3 DEF SumInv, SeenInv
    <3>5. QED
      BY <3>2, <3>4
  <2>2. QED
    BY <1>1, <1>3, <2>1, OneMoreSums
<1>4. CASE /\ f \in Regular /\ inodeMap' = Store(f) /\ UNCHANGED <<pc, failed>>
           /\ summary' = IF Counted(f) THEN summary ELSE Adds1(f)
  <2>1. ASSUME AtRest, f \in Initial \ {Root}, f \notin Seen, Seen' = Seen \cup {f}
        PROVE  /\ op = "check" => inodeMap' = {i \in Inodes(SeenFiles') : Nlink(i)' >= 2}
               /\ Tallied(op', summary', SeenFiles', Cardinality(Seen' \ Regular) + RootSeen')
    <3>1. CASE op = "check"
      BY <1>1, <1>4, <2>1, <3>1, InodeTallied
    <3>2. CASE op # "check"
      <4>1. summary' = Adds1(f)
        BY <1>4, <3>2 DEF Counted
      <4>2. QED
        BY <1>1, <1>4, <2>1, <3>2, <4>1, FileTallied
    <3>3. QED
      BY <3>1, <3>2
  <2>2. QED
    BY <1>1, <1>4, <2>1, OneMoreSums
<1>5. QED
  BY <1>2, <1>3, <1>4 DEF CountFile, Adds1

(* The select statement on a subdirectory. *)
LEMMA SelectSums ==
    ASSUME IInv, SumInv, op # "delete", NEW d \in Dirs, NEW e \in Dirs, AtDir(d, e),
           \/ SelectError(d, e) \/ SelectCancelled(d, e)
           \/ SelectSlot(d, e) \/ SelectDefault(d, e)
    PROVE  SumInv'
<1>1. /\ pc[d] = "loop" /\ e \in todo[d] /\ pc[e] = "idle" /\ e # d
      /\ todo' = [todo EXCEPT ![d] = @ \ {e}] /\ summary' = AddInodes(1)
      /\ UNCHANGED <<op, exists, born, inodeMap, failed, cmd>>
      /\ pc \in [Dirs -> Pcs] /\ todo \in [Dirs -> SUBSET Nodes]
  BY DEF AtDir, IInv, TypeOK, Pcs, FrameInv, TodoInv
<1>2. CASE SelectError(d, e) \/ SelectCancelled(d, e)
  <2>1. cmd # "ok"
    BY <1>1, NotOk
  <2>2. failed'
    BY <1>1, <1>2, <2>1 DEF SelectError, SelectCancelled, IInv, FailInv
  <2>3. ReadOnlyInv'
    BY <1>1, <1>2 DEF SelectError, SelectCancelled, Return, SumInv, ReadOnlyInv
  <2>4. QED
    BY <2>2, <2>3, SumVoid
<1>3. CASE SelectSlot(d, e) \/ SelectDefault(d, e)
  <2>1. \A c \in Dirs : pc'[c] = pc[c] \/ (c = e /\ pc'[c] = "list") \/ (c = d /\ pc'[c] = "call")
    BY <1>1, <1>3 DEF SelectSlot, SelectDefault
  <2>2. pc'[e] = "list"
    BY <1>1, <1>3 DEF SelectSlot, SelectDefault
  <2>3. ASSUME AtRest, e \in Initial \ {Root}, e \notin Seen, Seen' = Seen \cup {e}
        PROVE  /\ op = "check" => inodeMap' = {i \in Inodes(SeenFiles') : Nlink(i)' >= 2}
               /\ Tallied(op', summary', SeenFiles', Cardinality(Seen' \ Regular) + RootSeen')
    <3>1. e \in Nodes \ Regular
      BY TreeAssumption DEF Nodes
    <3>2. /\ SeenFiles' = SeenFiles
          /\ Tallied(op', summary', SeenFiles', Cardinality(Seen' \ Regular) + RootSeen')
      BY <1>1, <2>3, <3>1, OtherTallied
    <3>3. \A i : Nlink(i)' = Nlink(i)
      BY <1>1 DEF Nlink
    <3>4. op = "check" => inodeMap' = {i \in Inodes(SeenFiles') : Nlink(i)' >= 2}
      BY <1>1, <2>3, <3>2, <3>3 DEF SumInv, SeenInv
    <3>5. QED
      BY <3>2, <3>4
  <2>4. QED
    BY <1>1, <2>1, <2>2, <2>3, OneMoreSums
<1>4. QED
  BY <1>2, <1>3

(* The steps of walks and goroutines that come to no entry. *)
LEMMA OtherWalkSums ==
    ASSUME IInv, SumInv, op # "delete", NEW d \in Dirs,
           \/ \E e \in Dirs : ReturnInline(d, e)
           \/ Wait(d)
           \/ Goroutine(d)
    PROVE  SumInv'
<1>1. /\ UNCHANGED <<op, exists, born, todo, summary, inodeMap, failed, cmd>>
      /\ pc \in [Dirs -> Pcs]
  BY DEF ReturnInline, Wait, Goroutine, Release, Send, WgDone, IInv, TypeOK, Pcs
<1>2. \A c \in Dirs : pc[c] # "self"
  BY DEF SumInv, ReadOnlyInv
<1>3. ASSUME \A c \in Dirs : Listed(c)' <=> Listed(c),
             \A c \in Dirs : pc'[c] # "self" /\ (pc[c] # "idle" => pc'[c] # "idle"),
             \A c \in Dirs : AtRest /\ pc'[c] \in Over => pc[c] \in Over \/ todo[c] = {}
      PROVE  SumInv'
  <2>1. Seen' = Seen
    BY <1>1, <1>3, SeenSame
  <2>2. ReadOnlyInv'
    BY <1>1, <1>3 DEF SumInv, ReadOnlyInv
  <2>3. AtRest' => \A c \in Dirs : pc'[c] \in Over => todo'[c] = {}
    BY <1>1, <1>3 DEF AtRest, SumInv, SeenInv
  <2>4. QED
    BY <1>1, <1>3, <2>1, <2>2, <2>3, SumStays DEF Below
<1>4. CASE Wait(d)
  <2>1. pc[d] = "loop" /\ todo[d] = {} /\ pc' = [pc EXCEPT ![d] = "end"]
    BY <1>4 DEF Wait, Return
  <2>2. QED
    BY <1>1, <1>2, <1>3, <2>1 DEF Listed, Over
<1>5. ASSUME NEW e \in Dirs, ReturnInline(d, e) PROVE SumInv'
  <2>1. /\ pc[e] = "end" /\ e \in Below /\ Inline(e) /\ d = Parent[e]
        /\ pc' = [pc EXCEPT ![e] = "done", ![d] = IF err[e] THEN "end" ELSE "loop"]
    BY <1>5 DEF ReturnInline, Below, Inline, Walking
  <2>2. pc[d] = "call" /\ d # e
    BY <2>1 DEF IInv, FrameInv, InlineInv
  <2>3. AtRest => ~err[e]
    BY <2>1 DEF AtRest, IInv, FailInv
  <2>4. QED
    BY <1>1, <1>2, <1>3, <2>1, <2>2, <2>3 DEF Listed, Over
<1>6. CASE Goroutine(d)
  <2>1. PICK p \in {"send", "sent", "done"} : pc' = [pc EXCEPT ![d] = p]
    BY <1>6 DEF Goroutine, Release, Send, WgDone
  <2>2. pc[d] \in {"end", "send", "sent"}
    BY <1>6 DEF Goroutine, Release, Send, WgDone
  <2>3. QED
    BY <1>1, <1>2, <1>3, <2>1, <2>2 DEF Listed, Over
<1>7. QED
  BY <1>4, <1>5, <1>6

(* EndCommand: the root directory is counted. *)
LEMMA EndCommandSums ==
    ASSUME IInv, SumInv, op # "delete", EndCommand
    PROVE  SumInv'
<1>1. /\ cmd = "run" /\ cmd' = Outcome
      /\ summary' = IF err[Root] THEN summary ELSE AddInodes(1)
      /\ UNCHANGED <<op, exists, born, pc, todo, inodeMap, failed>>
  BY DEF EndCommand, frames
<1>2. ReadOnlyInv' /\ Seen' = Seen /\ SeenFiles' = SeenFiles /\ \A i : Nlink(i)' = Nlink(i)
  BY <1>1 DEF SumInv, ReadOnlyInv, Seen, SeenFiles, Listed, Nlink
<1>3. CASE AtRest
  <2>1. ~err[Root]
    BY <1>3, TreeAssumption DEF AtRest, IInv, FailInv
  <2>2. cmd' = "ok" /\ summary' = AddInodes(1)
    BY <1>1, <2>1 DEF Outcome
  <2>3. RootSeen = 0 /\ RootSeen' = 1
    BY <1>1, <2>2 DEF RootSeen
  <2>4. /\ summary \in [Inodes : Nat, Length : Nat]
        /\ summary'.Inodes = summary.Inodes + 1 /\ summary'.Length = summary.Length
    BY <2>2 DEF IInv, TypeOK, AddInodes
  <2> DEFINE n == Cardinality(Seen \ Regular)
             a == Cardinality(SeenFiles)
             b == Cardinality(Inodes(SeenFiles))
  <2>5. n \in Nat /\ a \in Nat /\ b \in Nat
    <3>1. Seen \ Regular \in SUBSET Nodes
      BY InitialTree
    <3>2. QED
      BY <3>1, NodesFinite, SeenCards
  <2>6. Tallied(op, summary, SeenFiles, n + 0)
    BY <1>3, <2>3 DEF SumInv, SeenInv
  <2>7. Tallied(op, summary', SeenFiles, n + 1)
    <3>1. CASE op = "check"
      <4>1. summary.Inodes = (n + 0) + b /\ summary.Length = InodeSum[Inodes(SeenFiles)]
        BY <2>6, <3>1 DEF Tallied
      <4> HIDE DEF n, b
      <4>2. summary'.Inodes = (n + 1) + b
        BY <2>4, <2>5, <4>1
      <4>3. QED
        BY <2>4, <3>1, <4>1, <4>2 DEF Tallied, b
    <3>2. CASE op # "check"
      <4>1. summary.Inodes = (n + 0) + a /\ summary.Length = FileSum[SeenFiles]
        BY <2>6, <3>2 DEF Tallied
      <4> HIDE DEF n, a
      <4>2. summary'.Inodes = (n + 1) + a
        BY <2>4, <2>5, <4>1
      <4>3. QED
        BY <2>4, <3>2, <4>1, <4>2 DEF Tallied, a
    <3>3. QED
      BY <3>1, <3>2
  <2>8. Tallied(op', summary', SeenFiles', Cardinality(Seen' \ Regular) + RootSeen')
    BY <1>1, <1>2, <2>3, <2>7
  <2>9. op' = "check" => inodeMap' = {i \in Inodes(SeenFiles') : Nlink(i)' >= 2}
    BY <1>1, <1>2, <1>3 DEF SumInv, SeenInv
  <2>10. /\ \A c \in Dirs : pc'[c] \in Over => todo'[c] = {}
         /\ \A e \in Below \cap Seen' : pc'[e] # "idle"
    BY <1>1, <1>2, <1>3 DEF SumInv, SeenInv
  <2>11. QED
    BY <1>2, <2>8, <2>9, <2>10 DEF SumInv, SeenInv
<1>4. CASE ~AtRest
  BY <1>1, <1>2, <1>4 DEF SumInv, SeenInv, AtRest
<1>5. QED
  BY <1>3, <1>4

(* Create: the tree is not at rest any more. *)
LEMMA CreateSums ==
    ASSUME IInv, SumInv, NEW f \in Late, Create(f)
    PROVE  SumInv'
<1>1. /\ born' = born \cup {f} /\ exists' = exists \cup {f}
      /\ UNCHANGED <<op, pc, todo>>
  BY DEF Create, frames
<1>2. ReadOnlyInv' /\ ~AtRest'
  BY <1>1 DEF SumInv, ReadOnlyInv, AtRest
<1>3. QED
  BY <1>2 DEF SumInv, SeenInv

(* Every step preserves SumInv. *)
LEMMA StepPreservesSumInv == IInv /\ SumInv /\ [Next]_vars => SumInv'
<1> SUFFICES ASSUME IInv, SumInv, [Next]_vars PROVE SumInv'
  OBVIOUS
<1>1. CASE UNCHANGED vars
  <2>1. UNCHANGED <<op, exists, born, pc, todo, inodeMap, summary, failed, cmd>>
    BY <1>1 DEF vars, frames
  <2>2. ReadOnlyInv' /\ Seen' = Seen /\ (AtRest' <=> AtRest)
    BY <2>1 DEF SumInv, ReadOnlyInv, Seen, Listed, AtRest
  <2>3. QED
    BY <2>1, <2>2, SumStays DEF SumInv, SeenInv
<1>2. ASSUME NEW f \in Late, Create(f) PROVE SumInv'
  BY <1>2, CreateSums
<1>3. CASE op = "delete" /\ ~UNCHANGED vars
  <2>1. ASSUME NEW d \in Dirs, Walk(d) PROVE op' = op
    BY <2>1, Zenon DEF Walk, List, DeleteFile, CountFile, SelectError, SelectCancelled, SelectSlot,
       SelectDefault, AtDir, ReturnInline, Wait, DeleteSelf
  <2>2. ASSUME NEW d \in Dirs, Goroutine(d) PROVE op' = op
    BY <2>2 DEF Goroutine, Release, Send, WgDone
  <2>3. EndCommand \/ (\E f \in Late : Create(f)) => op' = op
    BY DEF EndCommand, Create
  <2>4. op' = op
    BY <1>3, <2>1, <2>2, <2>3 DEF Next, Ended
  <2>5. QED
    BY <1>3, <2>4, SumVoid
<1>4. CASE op # "delete"
  <2>1. ASSUME NEW d \in Dirs, Walk(d) PROVE SumInv'
    <3>1. ~DeleteSelf(d) /\ \A f \in Files : ~DeleteFile(d, f)
      BY <1>4 DEF DeleteSelf, DeleteFile, SumInv, ReadOnlyInv
    <3>2. ASSUME NEW e \in Dirs, \/ SelectError(d, e) \/ SelectCancelled(d, e)
                                 \/ SelectSlot(d, e) \/ SelectDefault(d, e)
          PROVE  SumInv'
      <4>1. AtDir(d, e)
        BY <3>2 DEF SelectError, SelectCancelled, SelectSlot, SelectDefault
      <4>2. QED
        BY <1>4, <3>2, <4>1, SelectSums
    <3>3. QED
      BY <1>4, <2>1, <3>1, <3>2, ListSums, CountFileSums, OtherWalkSums DEF Walk
  <2>2. ASSUME NEW d \in Dirs, Goroutine(d) PROVE SumInv'
    BY <1>4, <2>2, OtherWalkSums
  <2>3. CASE EndCommand
    BY <1>4, <2>3, EndCommandSums
  <2>4. QED
    BY <1>1, <1>2, <2>1, <2>2, <2>3 DEF Next, Ended
<1>5. QED
  BY <1>1, <1>3, <1>4

(* When the command has succeeded, the walks have seen the whole tree: a   *)
(* directory that was seen was walked, and every directory is below Root.  *)
LEMMA AllSeen ==
    ASSUME IInv, SumInv, op # "delete", born = {}, cmd = "ok"
    PROVE  AtRest /\ Seen = Initial \ {Root}
<1>1. pc[Root] = "end" /\ ~err[Root]
  BY DEF IInv, FailInv
<1>2. \A e \in Below : ~Live(e)
  BY <1>1, AllQuiet DEF IInv, FrameInv
<1>3. AtRest
  BY <1>1, <1>2 DEF IInv, FailInv, Below, Live, AtRest
<1>4. \A d \in Dirs : pc[d] # "idle" => Listed(d) /\ todo[d] = {}
  <2> SUFFICES ASSUME NEW d \in Dirs, pc[d] # "idle" PROVE Listed(d) /\ todo[d] = {}
    OBVIOUS
  <2>1. pc[d] \in {"end", "done"}
    BY <1>1, <1>2 DEF Below, Live
  <2>2. QED
    BY <1>3, <2>1 DEF Listed, Over, SumInv, SeenInv
<1> DEFINE S == {e \in Below : pc[e] = "idle"}
<1>5. ASSUME NEW e \in S PROVE Parent[e] \in S
  <2>1. e \in Initial \ {Root} /\ Parent[e] \in Dirs
    BY InitialTree DEF Below
  <2>2. e \notin Seen
    BY <1>3 DEF SumInv, SeenInv
  <2>3. pc[Parent[e]] = "idle"
    BY <1>4, <2>1, <2>2 DEF Seen
  <2>4. QED
    BY <1>1, <2>1, <2>3 DEF Below
<1>6. S = {}
  <2>1. S \in SUBSET (Dirs \ {Root})
    BY DEF Below
  <2>2. QED
    BY <1>5, <2>1, BelowRootAssumption
<1>7. \A d \in Dirs : Listed(d) /\ todo[d] = {}
  BY <1>1, <1>4, <1>6 DEF Below
<1>8. Seen = Initial \ {Root}
  BY <1>7, InitialTree DEF Seen
<1>9. QED
  BY <1>3, <1>8

(* A quota, usage or check command that succeeds over a tree at rest       *)
(* reports every entry and the length of every file once, and a check      *)
(* every inode once, whichever goroutine comes to which entry first.       *)
THEOREM SummaryIsTruthful == Spec => []SummaryTruthful
<1>1. IInv /\ SumInv => SummaryTruthful
  <2> SUFFICES ASSUME IInv, SumInv, cmd = "ok", op # "delete", born = {}
               PROVE  SummaryTruthful
    BY DEF SummaryTruthful
  <2> DEFINE R == Regular \cap Initial
             rest == Cardinality(Initial \ Regular)
  <2>1. AtRest /\ Seen = Initial \ {Root}
    BY AllSeen
  <2>2. SeenFiles = R
    BY <2>1, TreeAssumption DEF SeenFiles
  <2>3. Cardinality(Seen \ Regular) + RootSeen = rest
    <3>1. /\ Initial \ Regular \in SUBSET Nodes /\ Root \in Initial \ Regular
          /\ Seen \ Regular = (Initial \ Regular) \ {Root}
      BY <2>1, InitialTree, TreeAssumption
    <3>2. IsFiniteSet(Initial \ Regular) /\ rest \in Nat
      BY <3>1, NodesFinite
    <3>3. Cardinality(Seen \ Regular) = rest - 1
      <4> DEFINE T == Initial \ Regular
      <4>1. IsFiniteSet(T) /\ Root \in T /\ Seen \ Regular = T \ {Root}
        BY <3>1, <3>2
      <4> HIDE DEF T
      <4>2. Cardinality(Seen \ Regular) = Cardinality(T) - 1
        BY <4>1, FS_RemoveElement
      <4>3. QED
        BY <4>2 DEF T
    <3>4. RootSeen = 1
      BY DEF RootSeen
    <3> HIDE DEF rest
    <3>5. QED
      BY <3>2, <3>3, <3>4
  <2>4. Tallied(op, summary, R, rest)
    BY <2>1, <2>2, <2>3 DEF SumInv, SeenInv
  <2>5. summary \in [Inodes : Nat, Length : Nat]
    BY DEF IInv, TypeOK
  <2>6. CASE op = "check"
    <3>1. summary.Inodes = rest + Cardinality(Inodes(R)) /\ summary.Length = InodeSum[Inodes(R)]
      BY <2>4, <2>6 DEF Tallied
    <3>2. InodeSum[Inodes(R)] = MapThenSumSet(LAMBDA i : Length[i], Inodes(R))
      BY SumsAreTotals
    <3>3. summary = [Inodes |-> rest + Cardinality(Inodes(R)), Length |-> InodeSum[Inodes(R)]]
      BY <2>5, <3>1
    <3>4. QED
      BY <2>6, <3>2, <3>3 DEF SummaryTruthful
  <2>7. CASE op # "check"
    <3>1. summary.Inodes = rest + Cardinality(R) /\ summary.Length = FileSum[R]
      BY <2>4, <2>7 DEF Tallied
    <3>2. FileSum[R] = MapThenSumSet(LAMBDA f : Length[Inode[f]], R)
      BY SumsAreTotals
    <3>3. summary = [Inodes |-> rest + Cardinality(R), Length |-> FileSum[R]]
      BY <2>5, <3>1
    <3>4. QED
      BY <2>7, <3>2, <3>3 DEF SummaryTruthful
  <2>8. QED
    BY <2>6, <2>7
<1>2. Init => IInv /\ SumInv
  BY InitIInv, InitSumInv
<1>3. IInv /\ SumInv /\ [Next]_vars => (IInv /\ SumInv)'
  BY StepPreservesIInv, StepPreservesSumInv
<1>4. QED
  BY <1>1, <1>2, <1>3, PTL DEF Spec
=============================================================================
