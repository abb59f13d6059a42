--------------------------- MODULE ComponentProofs ---------------------------
(***************************************************************************)
(* Proofs about Component, for any products, processes, requests, builds   *)
(* and kills.                                                              *)
(*                                                                         *)
(* A list that is consistent stays so in every copy, whoever saves it.     *)
(* The other results are about commands that do not overlap: the copy of   *)
(* the one running command is then the file with its changes so far, and   *)
(* the invariant follows the command through its arguments.                *)
(***************************************************************************)
EXTENDS Component, SequenceTheorems, WellFoundedInduction, TLAPS

(***************************************************************************)
(* The inductive invariant                                                 *)
(***************************************************************************)

Entries ==
    {e \in [name : STRING, version : STRING, release : Nat, active : BOOLEAN] : Of(e) \in Products}
Lists == Seq(Entries)
Arg == STRING \X STRING

Loaded == {"next", "save", "write", "use", "uninstall", "uninstallall", "exec"}

TypeOK ==
    /\ repo \in [Products -> Nat]
    /\ disk \in Lists
    /\ overlap \in BOOLEAN
    /\ bin \in [Products -> Nat]
    /\ pc \in [Proc -> Loaded \cup {"idle", "load"}]
    /\ req \in [Proc -> Requests \cup {Idle}]
    /\ queue \in [Proc -> Seq(Arg)]
    /\ mem \in [Proc -> Lists]
    /\ snap \in [Proc -> [Products -> Nat]]
    /\ cut \subseteq Products

(* One entry for a product, and one default version of a name. *)
Consistent(list) ==
    \A i, j \in DOMAIN list :
        /\ Of(list[i]) = Of(list[j]) => i = j
        /\ list[i].active /\ list[j].active /\ list[i].name = list[j].name => i = j

Lined == Consistent(disk) /\ \A p \in Proc : Consistent(mem[p])

(* The steps of a command are those of its operation. *)
Installs == {"install", "update", "updateall", "start"}
StepOf(p) ==
    /\ pc[p] # "idle" => req[p] \in Requests
    /\ pc[p] = "next" => req[p].op \in Installs
    /\ pc[p] = "exec" => req[p].op = "start"
    /\ pc[p] \in {"use", "uninstall", "uninstallall"} => req[p].op = pc[p] /\ queue[p] = req[p].args

(* Without overlap one process runs, and nothing has returned since it started. *)
Alone ==
    ~overlap => \A p \in Proc : pc[p] # "idle" =>
                   last = NoReturn /\ \A q \in Proc : pc[q] # "idle" => q = p

(* A process that runs alone and is about to take a decision has read what is in   *)
(* the file.                                                                       *)
Current(p) == pc[p] \in Loaded \ {"save", "write"} => mem[p] = disk

(* What it is going to save has its binaries, *)
Complete(p) ==
    pc[p] \in Loaded => \A i \in DOMAIN mem[p] : bin[Of(mem[p][i])] = NoFile => Of(mem[p][i]) \in cut

(* and a default version wherever the file has one, unless it is asked to remove it. *)
Asked(p, n) ==
    /\ req[p].op = "uninstallall" \/ (req[p].op = "uninstall" /\ req[p].force)
    /\ req[p].args[1][1] = n
Defaults(p) ==
    pc[p] \in Loaded =>
        \A n \in Names : Actives(disk, n) # {} => Actives(mem[p], n) # {} \/ Asked(p, n)

(* The k-th of the first d arguments is recorded in list. *)
Recorded(list, args, k, d, builds) ==
    \E i \in DOMAIN list :
        /\ Of(list[i]) \in FindVersion(args[k], builds)
        /\ list[i].release = builds[Of(list[i])]
        /\ bin[Of(list[i])] \in {list[i].release, Page}
        /\ (\A m \in (k + 1)..d : args[m][1] # args[k][1]) => list[i].active

(* An install has recorded the arguments it has done. *)
Done(p) == Len(req[p].args) - Len(queue[p])
Progress(p) ==
    (pc[p] \in {"next", "save", "write"} /\ req[p].op \in {"install", "update"}) =>
        /\ Len(queue[p]) <= Len(req[p].args)
        /\ \A j \in 1..Len(queue[p]) : queue[p][j] = req[p].args[Done(p) + j]
        /\ \A k \in 1..Done(p) : Recorded(mem[p], req[p].args, k, Done(p), snap[p])

Returned ==
    (last.out = "ok" /\ last.req.op \in {"install", "update"}) => last.req \in Requests

OwnInv(p) == ~overlap => Current(p) /\ Complete(p) /\ Defaults(p) /\ Progress(p)

IInv ==
    /\ TypeOK /\ Lined /\ Alone /\ Returned
    /\ \A p \in Proc : StepOf(p) /\ OwnInv(p)
    /\ RecordedBinary /\ InstallTruthful

(***************************************************************************)
(* Lists of entries                                                        *)
(***************************************************************************)

(* A set of numbers that is not empty has a least element.                 *)
LEMMA LeastNumber ==
  ASSUME NEW T, T \subseteq Nat, T # {}
  PROVE  \E n \in T : \A m \in T : n <= m
<1>1. PICK n \in T : \A m \in T : <<m, n>> \notin OpToRel(<, Nat)
  BY WFMin, NatLessThanWellFounded
<1>2. \A i, j \in Nat : <<j, i>> \notin OpToRel(<, Nat) => i <= j
  BY DEF OpToRel
<1>3. QED
  BY <1>1, <1>2

(* The results of the loop of Kept after each of the entries. *)
IsLoop(g, list, gone) ==
    g = [i \in 0..Len(list) |->
            IF i = 0 THEN <<>>
            ELSE IF list[i] \in gone THEN g[i - 1] ELSE Append(g[i - 1], list[i])]

(* The loop that collects the entries that stay exists for every list.     *)
LEMMA LoopExists ==
  ASSUME NEW S, NEW list \in Seq(S), NEW gone
  PROVE  \E g : IsLoop(g, list, gone)
<1> DEFINE Grow(s, i) == IF list[i] \in gone THEN s ELSE Append(s, list[i])
           Good(n) == \E g \in [0..n -> Seq(S)] :
                         g[0] = <<>> /\ \A i \in 1..n : g[i] = Grow(g[i - 1], i)
           Bad == {n \in 0..Len(list) : ~Good(n)}
<1>1. Len(list) \in Nat
  BY LenProperties
<1>2. \A i \in 1..Len(list), s \in Seq(S) : Grow(s, i) \in Seq(S)
  BY ElementOfSeq, AppendProperties
<1> HIDE DEF Grow
<1>3. Good(0)
  <2> DEFINE g == [i \in 0..0 |-> <<>>]
  <2>1. g \in [0..0 -> Seq(S)] /\ g[0] = <<>>
    BY EmptySeq
  <2>2. \A i \in 1..0 : FALSE
    OBVIOUS
  <2> HIDE DEF g
  <2>3. QED
    BY <2>1, <2>2
<1>4. ASSUME NEW n \in 1..Len(list), Good(n - 1) PROVE Good(n)
  <2>1. PICK g \in [0..(n - 1) -> Seq(S)] :
                g[0] = <<>> /\ \A i \in 1..(n - 1) : g[i] = Grow(g[i - 1], i)
    BY <1>4
  <2> DEFINE h == [i \in 0..n |-> IF i = n THEN Grow(g[n - 1], n) ELSE g[i]]
  <2>2. n \in Nat /\ n > 0 /\ n - 1 \in 0..(n - 1)
    BY <1>1
  <2>3. Grow(g[n - 1], n) \in Seq(S)
    BY <1>2, <2>2
  <2>4. h \in [0..n -> Seq(S)]
    BY <2>2, <2>3
  <2>5. h[0] = <<>> /\ h[n] = Grow(g[n - 1], n) /\ \A i \in 0..(n - 1) : h[i] = g[i]
    BY <2>1, <2>2
  <2> HIDE DEF h
  <2>6. \A i \in 1..n : h[i] = Grow(h[i - 1], i)
    <3> SUFFICES ASSUME NEW i \in 1..n PROVE h[i] = Grow(h[i - 1], i)
      OBVIOUS
    <3>1. h[i - 1] = g[i - 1]
      BY <2>2, <2>5
    <3>2. i # n => i \in 1..(n - 1) /\ h[i] = g[i]
      BY <2>2, <2>5
    <3>3. QED
      BY <2>1, <2>5, <3>1, <3>2
  <2>7. QED
    BY <2>4, <2>5, <2>6
<1> HIDE DEF Good
<1>5. Good(Len(list))
  <2> SUFFICES ASSUME ~Good(Len(list)) PROVE FALSE
    OBVIOUS
  <2>1. Bad \subseteq Nat /\ Bad # {}
    BY <1>1
  <2>2. PICK n \in Bad : \A m \in Bad : n <= m
    <3> HIDE DEF Bad
    <3>1. QED
      BY <2>1, LeastNumber
  <2>3. n \in Nat /\ n <= Len(list) /\ ~Good(n) /\ n # 0
    BY <1>1, <1>3, <2>2
  <2>4. n \in 1..Len(list) /\ n - 1 \in 0..Len(list) /\ ~(n <= n - 1)
    BY <1>1, <2>3
  <2>5. Good(n - 1)
    BY <2>2, <2>4
  <2>6. QED
    BY <1>4, <2>3, <2>4, <2>5
<1>6. PICK g \in [0..Len(list) -> Seq(S)] :
                g[0] = <<>> /\ \A i \in 1..Len(list) : g[i] = Grow(g[i - 1], i)
  BY <1>5 DEF Good
<1>7. g = [i \in 0..Len(list) |-> IF i = 0 THEN <<>> ELSE Grow(g[i - 1], i)]
  <2>1. \A i \in 0..Len(list) : i = 0 \/ i \in 1..Len(list)
    BY <1>1
  <2>2. \A i \in 0..Len(list) : g[i] = IF i = 0 THEN <<>> ELSE Grow(g[i - 1], i)
    BY <1>6, <2>1
  <2>3. QED
    BY <2>2
<1>8. QED
  BY <1>7 DEF Grow, IsLoop

(* What stays of a list: the entries that are not removed, each at a place *)
(* of its own and in their order.                                          *)
LEMMA KeptLemma ==
  ASSUME NEW S, NEW list \in Seq(S), NEW gone
  PROVE  LET kept == Kept(list, gone)
         IN  /\ kept \in Seq(S)
             /\ \A j \in DOMAIN kept : \E a \in DOMAIN list : kept[j] = list[a] /\ list[a] \notin gone
             /\ \A a \in DOMAIN list : list[a] \notin gone => \E j \in DOMAIN kept : kept[j] = list[a]
             /\ \A j, k \in DOMAIN kept :
                  j < k => \E a, b \in DOMAIN list : a < b /\ kept[j] = list[a] /\ kept[k] = list[b]
<1> DEFINE f == CHOOSE f : IsLoop(f, list, gone)
<1>1. Kept(list, gone) = f[Len(list)]
  BY DEF Kept, IsLoop
<1>2. IsLoop(f, list, gone)
  BY LoopExists
<1> HIDE DEF f
<1>3. Len(list) \in Nat /\ DOMAIN list = 1..Len(list) /\ \A i \in 1..Len(list) : list[i] \in S
  BY LenProperties, ElementOfSeq
<1>4. /\ f[0] = <<>>
      /\ \A i \in 1..Len(list) : f[i] = IF list[i] \in gone THEN f[i - 1] ELSE Append(f[i - 1], list[i])
  <2>1. 0 \in 0..Len(list) /\ \A i \in 1..Len(list) : i \in 0..Len(list) /\ i # 0
    BY <1>3
  <2>2. \A i \in 0..Len(list) : f[i] = IF i = 0 THEN <<>>
             ELSE IF list[i] \in gone THEN f[i - 1] ELSE Append(f[i - 1], list[i])
    BY <1>2, Zenon DEF IsLoop
  <2>3. QED
    BY <2>1, <2>2, Zenon
<1> DEFINE Good(n) ==
             /\ f[n] \in Seq(S)
             /\ \A j \in 1..Len(f[n]) : \E a \in 1..n : f[n][j] = list[a] /\ list[a] \notin gone
             /\ \A a \in 1..n : list[a] \notin gone => \E j \in 1..Len(f[n]) : f[n][j] = list[a]
             /\ \A j, k \in 1..Len(f[n]) :
                  j < k => \E a, b \in 1..n : a < b /\ f[n][j] = list[a] /\ f[n][k] = list[b]
           Bad == {n \in 0..Len(list) : ~Good(n)}
<1>5. Good(0)
  <2>1. f[0] \in Seq(S) /\ Len(f[0]) = 0
    BY <1>4, EmptySeq
  <2>2. QED
    BY <2>1
<1>6. ASSUME NEW n \in 1..Len(list), Good(n - 1) PROVE Good(n)
  <2>1. n \in Nat /\ n > 0 /\ n - 1 \in Nat
    BY <1>3
  <2>2. CASE list[n] \in gone
    <3> DEFINE old == f[n - 1]
    <3>1. f[n] = old /\ old \in Seq(S)
      BY <1>4, <1>6, <2>2
    <3>2. 1..(n - 1) \subseteq 1..n /\ \A a \in 1..n : list[a] \notin gone => a \in 1..(n - 1)
      BY <2>1, <2>2
    <3>3. /\ \A j \in 1..Len(old) : \E a \in 1..(n - 1) : old[j] = list[a] /\ list[a] \notin gone
          /\ \A a \in 1..(n - 1) : list[a] \notin gone => \E j \in 1..Len(old) : old[j] = list[a]
          /\ \A j, k \in 1..Len(old) :
                j < k => \E a, b \in 1..(n - 1) : a < b /\ old[j] = list[a] /\ old[k] = list[b]
      BY <1>6
    <3> HIDE DEF old
    <3>4. \A j \in 1..Len(old) : \E a \in 1..n : old[j] = list[a] /\ list[a] \notin gone
      BY <3>2, <3>3, Zenon
    <3>5. \A a \in 1..n : list[a] \notin gone => \E j \in 1..Len(old) : old[j] = list[a]
      BY <3>2, <3>3, Zenon
    <3>6. ASSUME NEW j \in 1..Len(old), NEW k \in 1..Len(old), j < k
          PROVE  \E a, b \in 1..n : a < b /\ old[j] = list[a] /\ old[k] = list[b]
      <4>1. PICK a, b \in 1..(n - 1) : a < b /\ old[j] = list[a] /\ old[k] = list[b]
        BY <3>3, <3>6
      <4>2. a \in 1..n /\ b \in 1..n
        BY <3>2
      <4>3. QED
        BY <4>1, <4>2
    <3>7. QED
      BY <3>1, <3>4, <3>5, <3>6
  <2>3. CASE list[n] \notin gone
    <3> DEFINE old == f[n - 1]
    <3>1. f[n] = Append(old, list[n]) /\ old \in Seq(S) /\ list[n] \in S
      BY <1>3, <1>4, <1>6, <2>3
    <3>2. Len(old) \in Nat
      BY <3>1, LenProperties
    <3>3. /\ f[n] \in Seq(S) /\ Len(f[n]) = Len(old) + 1
          /\ \A i \in 1..Len(old) : f[n][i] = old[i]
          /\ f[n][Len(old) + 1] = list[n]
      BY <3>1, AppendProperties
    <3>4. /\ \A j \in 1..Len(old) : \E a \in 1..(n - 1) : old[j] = list[a] /\ list[a] \notin gone
          /\ \A a \in 1..(n - 1) : list[a] \notin gone => \E j \in 1..Len(old) : old[j] = list[a]
          /\ \A j, k \in 1..Len(old) :
                j < k => \E a, b \in 1..(n - 1) : a < b /\ old[j] = list[a] /\ old[k] = list[b]
      BY <1>6
    <3> HIDE DEF old
    <3>5. \A j \in 1..Len(f[n]) : \E a \in 1..n : f[n][j] = list[a] /\ list[a] \notin gone
      <4> SUFFICES ASSUME NEW j \in 1..Len(f[n])
                   PROVE  \E a \in 1..n : f[n][j] = list[a] /\ list[a] \notin gone
        OBVIOUS
      <4>1. CASE j \in 1..Len(old)
        <5>1. PICK a \in 1..(n - 1) : old[j] = list[a] /\ list[a] \notin gone
          BY <3>4, <4>1
        <5>2. QED
          BY <2>1, <3>3, <4>1, <5>1
      <4>2. CASE j = Len(old) + 1
        BY <2>1, <2>3, <3>3, <4>2
      <4>3. QED
        BY <3>2, <3>3, <4>1, <4>2
    <3>6. \A a \in 1..n : list[a] \notin gone => \E j \in 1..Len(f[n]) : f[n][j] = list[a]
      <4> SUFFICES ASSUME NEW a \in 1..n, list[a] \notin gone
                   PROVE  \E j \in 1..Len(f[n]) : f[n][j] = list[a]
        OBVIOUS
      <4>1. CASE a = n
        <5>1. Len(old) + 1 \in 1..Len(f[n])
          BY <3>2, <3>3
        <5>2. QED
          BY <3>3, <4>1, <5>1, Zenon
      <4>2. CASE a # n
        <5>1. a \in 1..(n - 1)
          BY <2>1, <4>2
        <5>2. PICK j \in 1..Len(old) : old[j] = list[a]
          BY <3>4, <5>1
        <5>3. j \in 1..Len(f[n])
          BY <3>2, <3>3
        <5>4. QED
          BY <3>3, <5>2, <5>3, Zenon
      <4>3. QED
        BY <4>1, <4>2
    <3>7. ASSUME NEW j \in 1..Len(f[n]), NEW k \in 1..Len(f[n]), j < k
          PROVE  \E a, b \in 1..n : a < b /\ f[n][j] = list[a] /\ f[n][k] = list[b]
      <4>1. j \in 1..Len(old)
        BY <3>2, <3>3, <3>7
      <4>2. CASE k = Len(old) + 1
        <5>1. PICK a \in 1..(n - 1) : old[j] = list[a]
          BY <3>4, <4>1
        <5>2. a \in 1..n /\ n \in 1..n /\ a < n
          BY <2>1
        <5>3. QED
          BY <3>3, <4>1, <4>2, <5>1, <5>2
      <4>3. CASE k # Len(old) + 1
        <5>1. k \in 1..Len(old)
          BY <3>2, <3>3, <4>3
        <5>2. PICK a, b \in 1..(n - 1) : a < b /\ old[j] = list[a] /\ old[k] = list[b]
          BY <3>4, <3>7, <4>1, <5>1
        <5>3. a \in 1..n /\ b \in 1..n
          BY <2>1
        <5>4. QED
          BY <3>3, <4>1, <5>1, <5>2, <5>3
      <4>4. QED
        BY <4>2, <4>3
    <3>8. QED
      BY <3>3, <3>5, <3>6, <3>7
  <2>4. QED
    BY <2>2, <2>3
<1>7. Good(Len(list))
  <2> HIDE DEF Good
  <2> SUFFICES ASSUME ~Good(Len(list)) PROVE FALSE
    OBVIOUS
  <2>1. Bad \subseteq Nat /\ Bad # {}
    BY <1>3
  <2>2. PICK n \in Bad : \A m \in Bad : n <= m
    <3> HIDE DEF Bad
    <3>1. QED
      BY <2>1, LeastNumber
  <2>3. n \in Nat /\ n <= Len(list) /\ ~Good(n) /\ n # 0
    BY <1>3, <1>5, <2>2
  <2>4. n \in 1..Len(list) /\ n - 1 \in 0..Len(list) /\ ~(n <= n - 1)
    BY <1>3, <2>3
  <2>5. Good(n - 1)
    BY <2>2, <2>4
  <2>6. QED
    BY <1>6, <2>3, <2>4, <2>5
<1>8. DOMAIN f[Len(list)] = 1..Len(f[Len(list)])
  BY <1>7, LenProperties
<1>9. PICK n : n = Len(list)
  OBVIOUS
<1>10. Good(n) /\ Kept(list, gone) = f[n] /\ DOMAIN list = 1..n /\ DOMAIN f[n] = 1..Len(f[n])
  BY <1>1, <1>3, <1>7, <1>8, <1>9
<1> HIDE DEF Bad
<1>11. f[n] \in Seq(S) /\ \A j \in DOMAIN f[n] : \E a \in DOMAIN list : f[n][j] = list[a] /\ list[a] \notin gone
  <2>1. \A j \in 1..Len(f[n]) : \E a \in 1..n : f[n][j] = list[a] /\ list[a] \notin gone
    BY <1>10
  <2>2. f[n] \in Seq(S)
    BY <1>10
  <2> HIDE DEF Good
  <2>3. ASSUME NEW j \in DOMAIN f[n]
        PROVE  \E a \in DOMAIN list : f[n][j] = list[a] /\ list[a] \notin gone
    <3>1. PICK a \in 1..n : f[n][j] = list[a] /\ list[a] \notin gone
      BY <1>10, <2>1
    <3>2. QED
      BY <1>10, <3>1
  <2>4. QED
    BY <2>2, <2>3
<1>12. \A a \in DOMAIN list : list[a] \notin gone => \E j \in DOMAIN f[n] : f[n][j] = list[a]
  BY <1>10, Zenon
<1>13. \A j, k \in DOMAIN f[n] :
           j < k => \E a, b \in DOMAIN list : a < b /\ f[n][j] = list[a] /\ f[n][k] = list[b]
  <2>1. \A j, k \in 1..Len(f[n]) :
           j < k => \E a, b \in 1..n : a < b /\ f[n][j] = list[a] /\ f[n][k] = list[b]
    BY <1>10
  <2> HIDE DEF Good
  <2>2. ASSUME NEW j \in DOMAIN f[n], NEW k \in DOMAIN f[n], j < k
        PROVE  \E a, b \in DOMAIN list : a < b /\ f[n][j] = list[a] /\ f[n][k] = list[b]
    <3>1. j \in 1..Len(f[n]) /\ k \in 1..Len(f[n])
      BY <1>10
    <3>2. PICK a, b \in 1..n : a < b /\ f[n][j] = list[a] /\ f[n][k] = list[b]
      BY <2>1, <2>2, <3>1
    <3>3. QED
      BY <1>10, <3>2
  <2>3. QED
    BY <2>2
<1> HIDE DEF Good
<1>14. QED
  BY <1>10, <1>11, <1>12, <1>13

(* What SetDefaultVersion does to a list: nothing but to the default       *)
(* version of the name.                                                    *)
DefaultIs(list, x, new) ==
    /\ new \in Lists /\ Consistent(new) /\ DOMAIN new = DOMAIN list
    /\ \A i \in DOMAIN list :
         /\ new[i].name = list[i].name /\ new[i].release = list[i].release
         /\ Of(new[i]) = Of(list[i])
         /\ list[i].name # x[1] => new[i] = list[i]
         /\ list[i].name = x[1] => (new[i].active <=> Of(list[i]) = x)

(* SetDefaultVersion leaves a consistent list with x as the default.       *)
LEMMA SetDefaultLemma ==
  ASSUME NEW list \in Lists, Consistent(list), NEW x, NEW new, new = SetDefault(list, x)
  PROVE  DefaultIs(list, x, new)
<1>1. Len(list) \in Nat /\ DOMAIN list = 1..Len(list) /\ \A i \in DOMAIN list : list[i] \in Entries
  BY LenProperties, ElementOfSeq DEF Lists
<1>2. DOMAIN new = 1..Len(list)
  BY <1>1 DEF SetDefault
<1>3. ASSUME NEW i \in DOMAIN list
      PROVE  /\ new[i] \in Entries
             /\ new[i].name = list[i].name /\ new[i].release = list[i].release
             /\ Of(new[i]) = Of(list[i])
             /\ list[i].name # x[1] => new[i] = list[i]
             /\ list[i].name = x[1] => (new[i].active <=> Of(list[i]) = x)
  <2>1. new[i] = IF list[i].name = x[1] THEN [list[i] EXCEPT !.active = Of(list[i]) = x] ELSE list[i]
    BY DEF SetDefault
  <2>2. CASE list[i].name = x[1]
    <3>1. PICK b \in BOOLEAN : b = (Of(list[i]) = x)
      OBVIOUS
    <3>2. new[i] = [list[i] EXCEPT !.active = b]
      BY <2>1, <2>2, <3>1
    <3>3. list[i] \in [name : STRING, version : STRING, release : Nat, active : BOOLEAN] /\ Of(list[i]) \in Products
      BY <1>1 DEF Entries
    <3>4. /\ new[i] \in [name : STRING, version : STRING, release : Nat, active : BOOLEAN]
          /\ new[i].name = list[i].name /\ new[i].version = list[i].version
          /\ new[i].release = list[i].release /\ new[i].active = b
      BY <3>2, <3>3
    <3>5. Of(new[i]) = Of(list[i])
      BY <3>4 DEF Of
    <3>6. QED
      BY <2>2, <3>1, <3>3, <3>4, <3>5 DEF Entries
  <2>3. CASE list[i].name # x[1]
    BY <1>1, <2>1, <2>3
  <2>4. QED
    BY <2>2, <2>3
<1>4. new \in Lists
  <2>1. new \in [1..Len(list) -> Entries]
    BY <1>1, <1>3 DEF SetDefault
  <2>2. QED
    BY <1>1, <2>1, SeqDef DEF Lists
<1>5. Consistent(new)
  <2> SUFFICES ASSUME NEW i \in DOMAIN list, NEW j \in DOMAIN list
               PROVE  /\ Of(new[i]) = Of(new[j]) => i = j
                      /\ new[i].active /\ new[j].active /\ new[i].name = new[j].name => i = j
    BY <1>1, <1>2 DEF Consistent
  <2>1. Of(list[i]) = Of(list[j]) => i = j
    BY DEF Consistent
  <2>2. list[i].active /\ list[j].active /\ list[i].name = list[j].name => i = j
    BY DEF Consistent
  <2>3. CASE new[i].active /\ new[j].active /\ list[i].name = x[1] /\ list[j].name = x[1]
    BY <1>3, <2>1, <2>3
  <2>4. QED
    BY <1>3, <2>1, <2>2, <2>3
<1>6. QED
  BY <1>1, <1>2, <1>3, <1>4, <1>5 DEF DefaultIs

(* What the record of a download does to a list: it is there, and the      *)
(* other products' entries are where they were.                            *)
LEMMA PutLemma ==
  ASSUME NEW list \in Lists, Consistent(list), NEW e \in Entries, ~e.active, NEW new, new = Put(list, e)
  PROVE  /\ new \in Lists /\ Consistent(new)
         /\ \E i \in DOMAIN new : new[i] = e
         /\ \A i \in DOMAIN list : Of(list[i]) # Of(e) => i \in DOMAIN new /\ new[i] = list[i]
         /\ \A j \in DOMAIN new : new[j] = e \/ (j \in DOMAIN list /\ new[j] = list[j] /\ Of(list[j]) # Of(e))
<1>1. Len(list) \in Nat /\ DOMAIN list = 1..Len(list) /\ \A i \in DOMAIN list : list[i] \in Entries
  BY LenProperties, ElementOfSeq DEF Lists
<1>2. CASE Installed(list, Of(e)) = {}
  <2>1. new = Append(list, e)
    BY <1>2 DEF Put
  <2>2. /\ new \in Lists /\ Len(new) = Len(list) + 1 /\ new[Len(list) + 1] = e
        /\ \A i \in 1..Len(list) : new[i] = list[i]
    BY <2>1, AppendProperties DEF Lists
  <2>3. DOMAIN new = 1..(Len(list) + 1)
    BY <2>2, LenProperties DEF Lists
  <2>4. \A i \in DOMAIN list : Of(list[i]) # Of(e)
    BY <1>2 DEF Installed
  <2>5. \A j \in DOMAIN new : j = Len(list) + 1 \/ j \in DOMAIN list
    BY <1>1, <2>3
  <2>6. Consistent(new)
    BY <1>1, <2>2, <2>4, <2>5 DEF Consistent
  <2>7. QED
    BY <1>1, <2>2, <2>3, <2>4, <2>5, <2>6
<1>3. CASE Installed(list, Of(e)) # {}
  <2>1. new = [i \in DOMAIN list |-> IF Of(list[i]) = Of(e) THEN e ELSE list[i]]
    BY <1>3 DEF Put
  <2>2. new \in [1..Len(list) -> Entries]
    BY <1>1, <2>1
  <2>3. new \in Lists
    BY <1>1, <2>2, SeqDef DEF Lists
  <2>4. PICK i \in DOMAIN list : Of(list[i]) = Of(e)
    BY <1>3 DEF Installed
  <2>5. Consistent(new)
    BY <1>1, <2>1 DEF Consistent
  <2>6. QED
    BY <2>1, <2>3, <2>4, <2>5
<1>4. QED
  BY <1>2, <1>3

(* What a download does to a list: SetDefault after Put.                   *)
RecordIs(list, x, build, new) ==
    /\ new \in Lists /\ Consistent(new)
    /\ \E i \in DOMAIN new : Of(new[i]) = x /\ new[i].name = x[1] /\ new[i].release = build /\ new[i].active
    /\ \A i \in DOMAIN list : Of(list[i]) # x =>
          /\ i \in DOMAIN new /\ Of(new[i]) = Of(list[i]) /\ new[i].release = list[i].release
          /\ list[i].name # x[1] => new[i] = list[i]
    /\ \A j \in DOMAIN new : Of(new[j]) = x \/ (j \in DOMAIN list /\ Of(new[j]) = Of(list[j]))

(* A download leaves a consistent list with its product as the default,    *)
(* and the entries of other names as they were.                            *)
LEMMA DownloadLemma ==
  ASSUME NEW list \in Lists, Consistent(list), NEW x \in Products, NEW build \in Nat,
         NEW new, new = SetDefault(Put(list, Entry(x, build, FALSE)), x)
  PROVE  RecordIs(list, x, build, new)
<1> DEFINE e == Entry(x, build, FALSE)
<1>1. x[1] \in STRING /\ x[2] \in STRING /\ x = <<x[1], x[2]>>
  BY ComponentAssumption
<1>2. /\ e = [name |-> x[1], version |-> x[2], release |-> build, active |-> FALSE]
      /\ e.name = x[1] /\ e.version = x[2] /\ e.release = build /\ ~e.active
  BY DEF Entry
<1> HIDE DEF e
<1>3. Of(e) = x
  BY <1>1, <1>2 DEF Of
<1>4. e \in Entries
  <2>1. e \in [name : STRING, version : STRING, release : Nat, active : BOOLEAN]
    BY <1>1, <1>2
  <2>2. QED
    BY <1>3, <2>1 DEF Entries
<1>5. PICK put : put = Put(list, e)
  OBVIOUS
<1>6. /\ put \in Lists /\ Consistent(put)
      /\ \E i \in DOMAIN put : put[i] = e
      /\ \A i \in DOMAIN list : Of(list[i]) # Of(e) => i \in DOMAIN put /\ put[i] = list[i]
      /\ \A j \in DOMAIN put : put[j] = e \/ (j \in DOMAIN list /\ put[j] = list[j] /\ Of(list[j]) # Of(e))
  <2>1. ~e.active
    BY <1>2
  <2>2. QED
    BY <1>4, <1>5, <2>1, PutLemma
<1>7. DefaultIs(put, x, new)
  <2>1. new = SetDefault(put, x)
    BY <1>5 DEF e
  <2>2. QED
    BY <1>6, <2>1, SetDefaultLemma
<1>8. /\ new \in Lists /\ Consistent(new) /\ DOMAIN new = DOMAIN put
      /\ \A i \in DOMAIN put : /\ new[i].name = put[i].name /\ new[i].release = put[i].release
                               /\ Of(new[i]) = Of(put[i])
                               /\ put[i].name # x[1] => new[i] = put[i]
  BY <1>7 DEF DefaultIs
<1>9. \E i \in DOMAIN new : Of(new[i]) = x /\ new[i].name = x[1] /\ new[i].release = build /\ new[i].active
  <2>1. PICK i \in DOMAIN put : put[i] = e
    BY <1>6
  <2>2. new[i].active
    BY <1>2, <1>3, <1>7, <2>1 DEF DefaultIs
  <2>3. i \in DOMAIN new /\ Of(new[i]) = x /\ new[i].name = x[1] /\ new[i].release = build
    BY <1>2, <1>3, <1>8, <2>1
  <2>4. QED
    BY <2>2, <2>3, Zenon
<1>10. ASSUME NEW i \in DOMAIN list, Of(list[i]) # x
       PROVE  /\ i \in DOMAIN new /\ Of(new[i]) = Of(list[i]) /\ new[i].release = list[i].release
              /\ list[i].name # x[1] => new[i] = list[i]
  BY <1>3, <1>6, <1>8, <1>10
<1>11. ASSUME NEW j \in DOMAIN new PROVE Of(new[j]) = x \/ (j \in DOMAIN list /\ Of(new[j]) = Of(list[j]))
  BY <1>3, <1>6, <1>8
<1>12. QED
  BY <1>8, <1>9, <1>10, <1>11 DEF RecordIs

(* What an uninstall does to a list. *)
LEMMA KeptConsistent ==
  ASSUME NEW list \in Lists, Consistent(list), NEW gone, NEW new, new = Kept(list, gone)
  PROVE  /\ new \in Lists /\ Consistent(new)
         /\ \A j \in DOMAIN new : \E i \in DOMAIN list : new[j] = list[i] /\ list[i] \notin gone
         /\ \A i \in DOMAIN list : list[i] \notin gone => \E j \in DOMAIN new : new[j] = list[i]
<1>1. /\ new \in Lists
      /\ \A j \in DOMAIN new : \E i \in DOMAIN list : new[j] = list[i] /\ list[i] \notin gone
      /\ \A i \in DOMAIN list : list[i] \notin gone => \E j \in DOMAIN new : new[j] = list[i]
      /\ \A j, k \in DOMAIN new :
            j < k => \E a, b \in DOMAIN list : a < b /\ new[j] = list[a] /\ new[k] = list[b]
  BY KeptLemma DEF Lists
<1>2. DOMAIN new \subseteq Nat /\ DOMAIN list \subseteq Nat
  BY <1>1, LenProperties DEF Lists
<1>3. ASSUME NEW j \in DOMAIN new, NEW k \in DOMAIN new, j < k
      PROVE  /\ Of(new[j]) # Of(new[k])
             /\ ~(new[j].active /\ new[k].active /\ new[j].name = new[k].name)
  <2>1. PICK a, b \in DOMAIN list : a < b /\ new[j] = list[a] /\ new[k] = list[b]
    BY <1>1, <1>3
  <2>2. a # b
    BY <1>2, <2>1
  <2>3. QED
    BY <2>1, <2>2 DEF Consistent
<1>4. Consistent(new)
  <2> SUFFICES ASSUME NEW i \in DOMAIN new, NEW j \in DOMAIN new, i # j
               PROVE  /\ Of(new[i]) # Of(new[j])
                      /\ ~(new[i].active /\ new[j].active /\ new[i].name = new[j].name)
    BY DEF Consistent
  <2>1. i < j \/ j < i
    BY <1>2
  <2>2. QED
    BY <1>3, <2>1
<1>5. QED
  BY <1>1, <1>4

(***************************************************************************)
(* The steps                                                               *)
(***************************************************************************)

(* Nothing of process q changes. *)
Frame(q) ==
    /\ pc'[q] = pc[q] /\ req'[q] = req[q] /\ queue'[q] = queue[q]
    /\ mem'[q] = mem[q] /\ snap'[q] = snap[q]

(* What is checked of a command that runs alone. *)
AloneInv(p) == Current(p) /\ Complete(p) /\ Defaults(p) /\ Progress(p)

(* Without overlap the others are idle while p runs. *)
LEMMA OthersIdle ==
  ASSUME IInv, NEW p \in Proc, pc[p] # "idle", ~overlap, NEW q \in Proc, q # p
  PROVE  pc[q] = "idle" /\ ~Unsaved(q) /\ last = NoReturn
BY DEF IInv, Alone, Unsaved

(* A command goes on: it is enough to look at its own state. *)
LEMMA GoStep ==
  ASSUME IInv, NEW p \in Proc, pc[p] # "idle",
         UNCHANGED <<overlap, last>>, \A q \in Proc \ {p} : Frame(q),
         TypeOK', Consistent(disk'), Consistent(mem'[p]), StepOf(p)',
         ~overlap => AloneInv(p)' /\ RecordedBinary'
  PROVE  IInv'
<1>1. Lined'
  BY DEF IInv, Lined, Frame
<1>2. Alone'
  BY DEF IInv, Alone, Frame
<1>3. Returned'
  BY DEF IInv, Returned
<1>4. ASSUME NEW q \in Proc PROVE (StepOf(q) /\ OwnInv(q))'
  <2>1. CASE q = p
    BY <2>1 DEF OwnInv, AloneInv
  <2>2. CASE q # p
    <3>1. StepOf(q)'
      BY <2>2 DEF IInv, StepOf, Frame
    <3>2. ~overlap => pc'[q] = "idle"
      BY <2>2, OthersIdle DEF Frame
    <3>3. ~overlap => (Current(q) /\ Complete(q) /\ Defaults(q) /\ Progress(q))'
      BY <3>2 DEF Current, Complete, Defaults, Progress, Loaded
    <3>4. QED
      BY <3>1, <3>3 DEF OwnInv
  <2>3. QED
    BY <2>1, <2>2
<1>5. RecordedBinary'
  BY DEF RecordedBinary
<1>6. InstallTruthful'
  <2>1. ~overlap => last.out = "none"
    BY DEF IInv, Alone, NoReturn
  <2>2. QED
    BY <2>1 DEF InstallTruthful
<1>7. QED
  BY <1>1, <1>2, <1>3, <1>4, <1>5, <1>6 DEF IInv

(* A command ends or is killed: it is enough to look at what it leaves. *)
LEMMA ResetStep ==
  ASSUME IInv, NEW p \in Proc, pc[p] # "idle", Reset(p),
         UNCHANGED <<repo, bin, overlap>>, disk' \in Lists, Consistent(disk'), cut' \subseteq Products,
         RecordedBinary', Returned', InstallTruthful'
  PROVE  IInv'
<1>1. TypeOK
  BY DEF IInv
<1>2. /\ pc'[p] = "idle" /\ mem'[p] = <<>>
      /\ \A q \in Proc \ {p} : Frame(q)
  BY <1>1 DEF Reset, TypeOK, Frame
<1>3. TypeOK'
  <2>1. <<>> \in Lists /\ <<>> \in Seq(Arg) /\ 0 \in Nat
    BY EmptySeq DEF Lists
  <2>2. [x \in Products |-> 0] \in [Products -> Nat]
    OBVIOUS
  <2>3. /\ queue' \in [Proc -> Seq(Arg)] /\ mem' \in [Proc -> Lists]
        /\ snap' \in [Proc -> [Products -> Nat]]
    BY <1>1, <2>1, <2>2 DEF Reset, TypeOK
  <2>4. pc' \in [Proc -> Loaded \cup {"idle", "load"}] /\ req' \in [Proc -> Requests \cup {Idle}]
    BY <1>1 DEF Reset, TypeOK
  <2>5. QED
    BY <1>1, <2>3, <2>4 DEF TypeOK
<1>4. Lined'
  <2>1. Consistent(<<>>)
    BY DEF Consistent
  <2>2. QED
    BY <1>2, <2>1 DEF IInv, Lined, Frame
<1>5. Alone'
  BY <1>2, OthersIdle DEF Alone, Frame
<1>6. ASSUME NEW q \in Proc PROVE (StepOf(q) /\ OwnInv(q))'
  <2>1. StepOf(q)'
    BY <1>2 DEF IInv, StepOf, Frame
  <2>2. ~overlap => pc'[q] = "idle"
    BY <1>2, OthersIdle DEF Frame
  <2>3. ~overlap => (Current(q) /\ Complete(q) /\ Defaults(q) /\ Progress(q))'
    BY <2>2 DEF Current, Complete, Defaults, Progress, Loaded
  <2>4. QED
    BY <2>1, <2>3 DEF OwnInv
<1>7. QED
  BY <1>3, <1>4, <1>5, <1>6 DEF IInv

(* A command that fails or is killed: what it had unsaved is in cut. *)
LEMMA FailStep ==
  ASSUME IInv, NEW p \in Proc, pc[p] # "idle", Reset(p),
         UNCHANGED <<repo, disk, bin, overlap>>, cut \subseteq cut', cut' \subseteq Products,
         Unsaved(p) => {x \in Products : bin[x] = NoFile} \subseteq cut',
         Returned', InstallTruthful'
  PROVE  IInv'
<1>1. disk' \in Lists /\ Consistent(disk')
  BY DEF IInv, TypeOK, Lined
<1>2. RecordedBinary'
  <2> SUFFICES ASSUME ~overlap, NEW i \in DOMAIN disk, bin[Of(disk[i])] = NoFile
               PROVE  Of(disk[i]) \in cut'
    BY DEF RecordedBinary
  <2>1. Of(disk[i]) \in Products
    BY LenProperties, ElementOfSeq DEF IInv, TypeOK, Lists, Entries
  <2>2. Of(disk[i]) \in cut \/ \E q \in Proc : Unsaved(q)
    BY DEF IInv, RecordedBinary
  <2>3. QED
    BY <2>1, <2>2, OthersIdle
<1>3. QED
  BY <1>1, <1>2, ResetStep

(* A command returns with nothing unsaved, and not from an install that succeeded. *)
LEMMA ReturnStep ==
  ASSUME IInv, NEW p \in Proc, pc[p] \notin {"idle", "save", "write"}, NEW out, Return(p, out),
         UNCHANGED <<repo, disk, bin, overlap, cut>>,
         out # "ok" \/ req[p].op \notin {"install", "update"}
  PROVE  IInv'
<1>1. Reset(p) /\ last'.out = out /\ last'.req = req[p]
  BY DEF Return
<1>2. Returned' /\ InstallTruthful'
  BY <1>1 DEF Returned, InstallTruthful
<1>3. ~Unsaved(p) /\ cut' \subseteq Products
  BY DEF Unsaved, IInv, TypeOK
<1>4. QED
  BY <1>1, <1>2, <1>3, FailStep

(* All arguments of an install or update are done. *)
LEMMA InstallReturns ==
  ASSUME IInv, NEW p \in Proc, pc[p] = "next", queue[p] = <<>>, req[p].op \in {"install", "update"},
         Return(p, "ok"), UNCHANGED <<repo, disk, bin, overlap, cut>>
  PROVE  IInv'
<1>1. Reset(p) /\ last'.out = "ok" /\ last'.req = req[p] /\ last'.snap = snap[p] /\ req[p] \in Requests
  BY DEF Return, IInv, StepOf
<1>2. Returned'
  BY <1>1 DEF Returned
<1>3. InstallTruthful'
  <2> DEFINE args == req[p].args
  <2>1. args \in Seq(STRING \X STRING)
    BY <1>1, ComponentAssumption
  <2>2. Len(args) \in Nat /\ DOMAIN args = 1..Len(args) /\ Len(queue[p]) = 0 /\ Done(p) = Len(args)
    BY <2>1, LenProperties, EmptySeq DEF Done
  <2>3. ~overlap => /\ mem[p] = disk
                    /\ \A k \in 1..Len(args) : Recorded(mem[p], args, k, Len(args), snap[p])
    BY <2>2 DEF IInv, OwnInv, Current, Progress, Loaded
  <2>4. SUFFICES ASSUME ~overlap, NEW k \in DOMAIN args
                 PROVE  \E i \in {i \in DOMAIN disk : Of(disk[i]) \in FindVersion(args[k], snap[p])} :
                          /\ disk[i].release = snap[p][Of(disk[i])]
                          /\ bin[Of(disk[i])] \in {disk[i].release, Page}
                          /\ (\A m \in DOMAIN args : m > k => args[m][1] # args[k][1]) => disk[i].active
    BY <1>1 DEF InstallTruthful
  <2>5. PICK i \in DOMAIN disk :
            /\ Of(disk[i]) \in FindVersion(args[k], snap[p])
            /\ disk[i].release = snap[p][Of(disk[i])]
            /\ bin[Of(disk[i])] \in {disk[i].release, Page}
            /\ (\A m \in (k + 1)..Len(args) : args[m][1] # args[k][1]) => disk[i].active
    BY <2>2, <2>3, <2>4 DEF Recorded
  <2>6. \A m \in (k + 1)..Len(args) : m \in DOMAIN args /\ m > k
    BY <2>2
  <2> HIDE DEF args
  <2>7. QED
    BY <2>5, <2>6
<1>4. ~Unsaved(p) /\ cut' \subseteq Products
  BY DEF Unsaved, IInv, TypeOK
<1>5. QED
  BY <1>1, <1>2, <1>3, <1>4, FailStep


(* The file is read. *)
LEMMA LoadStep ==
  ASSUME IInv, NEW p \in Proc, Load(p)
  PROVE  IInv'
<1>1. TypeOK /\ req[p] \in Requests /\ pc[p] = "load"
  BY DEF IInv, StepOf, Load
<1>2. /\ mem' = [mem EXCEPT ![p] = disk] /\ snap' = [snap EXCEPT ![p] = repo]
      /\ queue' = [queue EXCEPT ![p] = Arguments(req[p], disk)]
      /\ pc' = [pc EXCEPT ![p] = LoadPc(req[p], disk)]
      /\ UNCHANGED <<repo, disk, bin, req, overlap, cut, last>>
  BY DEF Load, Go
<1>3. req[p].op \in Operations /\ req[p].args \in Seq(Arg)
  BY <1>1, ComponentAssumption DEF Arg
<1>4. LoadPc(req[p], disk) \in Loaded
  BY <1>3 DEF LoadPc, Operations, Loaded
<1>5. Arguments(req[p], disk) \in Seq(Arg)
  <2>1. Len(disk) \in Nat /\ DOMAIN disk = 1..Len(disk) /\ \A i \in DOMAIN disk : Of(disk[i]) \in Products
    BY <1>1, LenProperties, ElementOfSeq DEF TypeOK, Lists, Entries
  <2>2. [i \in DOMAIN disk |-> Of(disk[i])] \in [1..Len(disk) -> Arg]
    BY <2>1, ComponentAssumption DEF Arg
  <2>3. [i \in DOMAIN disk |-> Of(disk[i])] \in Seq(Arg)
    BY <2>1, <2>2, SeqDef
  <2>4. QED
    BY <1>3, <2>3 DEF Arguments
<1>6. TypeOK'
  <2>1. queue' \in [Proc -> Seq(Arg)] /\ mem' \in [Proc -> Lists]
    BY <1>1, <1>2, <1>5 DEF TypeOK
  <2>2. pc' \in [Proc -> Loaded \cup {"idle", "load"}] /\ snap' \in [Proc -> [Products -> Nat]]
    BY <1>1, <1>2, <1>4 DEF TypeOK
  <2>3. QED
    BY <1>1, <1>2, <2>1, <2>2 DEF TypeOK
<1>7. /\ mem'[p] = disk /\ queue'[p] = Arguments(req[p], disk) /\ pc'[p] = LoadPc(req[p], disk)
      /\ \A q \in Proc \ {p} : Frame(q)
  BY <1>1, <1>2 DEF TypeOK, Frame
<1>8. Consistent(disk') /\ Consistent(mem'[p])
  BY <1>2, <1>7 DEF IInv, Lined
<1>9. StepOf(p)'
  BY <1>1, <1>2, <1>3, <1>7 DEF StepOf, LoadPc, Operations, Installs, Arguments
<1>10. ASSUME ~overlap PROVE AloneInv(p)' /\ RecordedBinary'
  <2>1. \A q \in Proc : ~Unsaved(q)
    BY <1>1, <1>10, OthersIdle DEF Unsaved
  <2>2. \A i \in DOMAIN disk : bin[Of(disk[i])] = NoFile => Of(disk[i]) \in cut
    BY <1>10, <2>1 DEF IInv, RecordedBinary
  <2>3. Complete(p)' /\ Current(p)' /\ Defaults(p)'
    BY <1>2, <1>7, <2>2 DEF Complete, Current, Defaults
  <2>4. Progress(p)'
    <3> SUFFICES ASSUME req[p].op \in {"install", "update"}
                 PROVE  /\ Len(queue'[p]) <= Len(req[p].args)
                        /\ \A j \in 1..Len(queue'[p]) : queue'[p][j] = req[p].args[Done(p)' + j]
                        /\ \A k \in 1..Done(p)' : FALSE
      BY <1>2 DEF Progress
    <3>1. queue'[p] = req[p].args /\ Len(req[p].args) \in Nat
      BY <1>3, <1>7, LenProperties DEF Arguments
    <3>2. Done(p)' = 0
      BY <1>2, <3>1 DEF Done
    <3>3. QED
      BY <3>1, <3>2
  <2>5. RecordedBinary'
    BY <1>2, <2>2 DEF RecordedBinary
  <2>6. QED
    BY <2>3, <2>4, <2>5 DEF AloneInv
<1>11. QED
  BY <1>1, <1>2, <1>6, <1>7, <1>8, <1>9, <1>10, GoStep

(* Saving does not change what is recorded. *)
LEMMA SameProgress ==
  ASSUME NEW p \in Proc, Progress(p), pc[p] \in {"next", "save", "write"},
         UNCHANGED <<bin, req, queue, mem, snap>>
  PROVE  Progress(p)'
<1>1. Done(p)' = Done(p)
  BY DEF Done
<1>2. ASSUME NEW k, Recorded(mem[p], req[p].args, k, Done(p), snap[p])
      PROVE  Recorded(mem[p], req[p].args, k, Done(p), snap[p])'
  <2>1. PICK i \in DOMAIN mem[p] :
            /\ Of(mem[p][i]) \in FindVersion(req[p].args[k], snap[p])
            /\ mem[p][i].release = snap[p][Of(mem[p][i])]
            /\ bin[Of(mem[p][i])] \in {mem[p][i].release, Page}
            /\ (\A m \in (k + 1)..Done(p) : req[p].args[m][1] # req[p].args[k][1]) => mem[p][i].active
    BY <1>2 DEF Recorded
  <2>2. QED
    BY <1>1, <2>1 DEF Recorded
<1>3. QED
  BY <1>1, <1>2 DEF Progress

(* The file is truncated. *)
LEMMA TruncateStep ==
  ASSUME IInv, NEW p \in Proc, Truncate(p)
  PROVE  IInv'
<1>1. TypeOK /\ pc[p] = "save" /\ StepOf(p) /\ OwnInv(p)
  BY DEF IInv, Truncate
<1>2. /\ pc' = [pc EXCEPT ![p] = "write"]
      /\ UNCHANGED <<repo, disk, bin, req, queue, mem, snap, overlap, cut, last>>
  BY DEF Truncate, Go
<1>3. TypeOK' /\ pc'[p] = "write" /\ \A q \in Proc \ {p} : Frame(q)
  BY <1>1, <1>2 DEF TypeOK, Frame, Loaded
<1>4. Consistent(disk') /\ Consistent(mem'[p])
  BY <1>2 DEF IInv, Lined
<1>5. StepOf(p)'
  BY <1>1, <1>2, <1>3 DEF StepOf
<1>6. ASSUME ~overlap PROVE AloneInv(p)' /\ RecordedBinary'
  <2>1. Complete(p)' /\ Current(p)' /\ Defaults(p)'
    BY <1>1, <1>2, <1>3, <1>6 DEF OwnInv, Complete, Current, Defaults, Loaded, Asked
  <2>2. Progress(p)'
    BY <1>1, <1>2, <1>6, SameProgress DEF OwnInv
  <2>3. RecordedBinary'
    <3>1. \A q \in Proc : Unsaved(q) => Unsaved(q)'
      BY <1>1, <1>2, <1>3 DEF Unsaved, Frame
    <3>2. QED
      BY <1>2, <1>6, <3>1 DEF IInv, RecordedBinary
  <2>4. QED
    BY <2>1, <2>2, <2>3 DEF AloneInv
<1>7. QED
  BY <1>1, <1>2, <1>3, <1>4, <1>5, <1>6, GoStep

(* The file is written. *)
LEMMA WriteStep ==
  ASSUME IInv, NEW p \in Proc, Write(p)
  PROVE  IInv'
<1>1. TypeOK /\ pc[p] = "write" /\ StepOf(p) /\ OwnInv(p) /\ Consistent(mem[p])
  BY DEF IInv, Write, Lined
<1>2. disk' = mem[p] /\ UNCHANGED <<repo, bin, overlap, cut>>
  BY DEF Write
<1>3. disk' \in Lists /\ Consistent(disk')
  BY <1>1, <1>2 DEF TypeOK
<1>4. RecordedBinary'
  BY <1>1, <1>2 DEF RecordedBinary, OwnInv, Complete, Loaded
<1>5. CASE req[p].op \in Installs
  <2>1. pc' = [pc EXCEPT ![p] = "next"] /\ UNCHANGED <<req, queue, mem, snap, last>>
    BY <1>5 DEF Write, Go, Installs
  <2>2. pc'[p] = "next" /\ pc' \in [Proc -> Loaded \cup {"idle", "load"}] /\ \A q \in Proc \ {p} : Frame(q)
    BY <1>1, <2>1 DEF TypeOK, Frame, Loaded
  <2>3. TypeOK'
    BY <1>1, <1>2, <1>3, <2>1, <2>2 DEF TypeOK
  <2>4. StepOf(p)'
    BY <1>1, <1>5, <2>1, <2>2 DEF StepOf
  <2>5. ASSUME ~overlap PROVE AloneInv(p)'
    <3>1. Complete(p)' /\ Current(p)' /\ Defaults(p)'
      BY <1>1, <1>2, <2>1, <2>2, <2>5 DEF OwnInv, Complete, Current, Defaults, Loaded
    <3>2. Progress(p)'
      BY <1>1, <1>2, <2>1, <2>5, SameProgress DEF OwnInv
    <3>3. QED
      BY <3>1, <3>2 DEF AloneInv
  <2>6. Consistent(mem'[p])
    BY <1>1, <2>1
  <2>7. QED
    BY <1>1, <1>2, <1>3, <1>4, <2>1, <2>2, <2>3, <2>4, <2>5, <2>6, GoStep
<1>6. CASE req[p].op \notin Installs
  <2>1. Reset(p) /\ last'.req = req[p]
    BY <1>6 DEF Write, Return, Installs
  <2>2. Returned' /\ InstallTruthful'
    BY <1>6, <2>1 DEF Returned, InstallTruthful, Installs
  <2>3. cut' \subseteq Products
    BY <1>1, <1>2 DEF TypeOK
  <2>4. QED
    BY <1>1, <1>2, <1>3, <1>4, <2>1, <2>2, <2>3, ResetStep
<1>7. QED
  BY <1>5, <1>6

(* The write fails, or the process is killed. *)
LEMMA CutShortStep ==
  ASSUME IInv, NEW p \in Proc, WriteFails(p) \/ Kill(p)
  PROVE  IInv'
<1>1. pc[p] # "idle" /\ Reset(p) /\ UNCHANGED <<repo, disk, bin, overlap>> /\ CutShort(p)
  BY DEF WriteFails, Kill, Return
<1>2. cut \subseteq cut' /\ cut' \subseteq Products /\ (Unsaved(p) => {x \in Products : bin[x] = NoFile} \subseteq cut')
  BY <1>1 DEF CutShort, IInv, TypeOK
<1>3. last' = last \/ last'.out = "failed"
  BY DEF WriteFails, Kill, Return
<1>4. Returned'
  BY <1>3 DEF IInv, Returned
<1>5. InstallTruthful'
  BY <1>1, <1>3 DEF IInv, InstallTruthful
<1>6. QED
  BY <1>1, <1>2, <1>4, <1>5, FailStep

(* `component use` makes another version the default. *)
LEMMA UseStep ==
  ASSUME IInv, NEW p \in Proc, Use(p)
  PROVE  IInv'
<1>1. /\ TypeOK /\ pc[p] = "use" /\ StepOf(p) /\ OwnInv(p) /\ Consistent(mem[p]) /\ mem[p] \in Lists
      /\ req[p].op = "use"
  BY DEF IInv, Use, Lined, TypeOK, StepOf
<1>2. UNCHANGED <<repo, disk, bin, overlap, cut>>
  BY DEF Use
<1>3. CASE ~UseAllowed(p)
  BY <1>1, <1>2, <1>3, ReturnStep DEF Use
<1>4. CASE UseAllowed(p)
  <2> DEFINE x == Head(queue[p])
             new == SetDefault(mem[p], x)
  <2>1. /\ mem' = [mem EXCEPT ![p] = new] /\ pc' = [pc EXCEPT ![p] = "save"]
        /\ UNCHANGED <<req, queue, snap, last>>
    BY <1>4 DEF Use, Go
  <2>2. PICK i \in DOMAIN mem[p] : Of(mem[p][i]) = x
    BY <1>4 DEF UseAllowed, Installed
  <2>3. DefaultIs(mem[p], x, new)
    BY <1>1, SetDefaultLemma
  <2> HIDE DEF new, x
  <2>4. /\ new \in Lists /\ Consistent(new) /\ DOMAIN new = DOMAIN mem[p]
        /\ \A j \in DOMAIN mem[p] : /\ new[j].name = mem[p][j].name /\ Of(new[j]) = Of(mem[p][j])
                                    /\ mem[p][j].name # x[1] => new[j] = mem[p][j]
    BY <2>3 DEF DefaultIs
  <2>5. mem[p][i].name = x[1] /\ new[i].active
    <3>1. mem[p][i].name = x[1]
      BY <2>2 DEF Of
    <3>2. QED
      BY <2>2, <2>3, <3>1 DEF DefaultIs
  <2>6. mem'[p] = new /\ pc'[p] = "save" /\ \A q \in Proc \ {p} : Frame(q)
    BY <1>1, <2>1 DEF TypeOK, Frame
  <2>7. TypeOK'
    <3>1. mem' \in [Proc -> Lists] /\ pc' \in [Proc -> Loaded \cup {"idle", "load"}]
      BY <1>1, <2>1, <2>4 DEF TypeOK, Loaded
    <3>2. QED
      BY <1>1, <1>2, <2>1, <3>1 DEF TypeOK
  <2>8. Consistent(disk') /\ Consistent(mem'[p])
    BY <1>2, <2>4, <2>6 DEF IInv, Lined
  <2>9. StepOf(p)'
    BY <1>1, <2>1, <2>6 DEF StepOf
  <2>10. ASSUME ~overlap PROVE AloneInv(p)' /\ RecordedBinary'
    <3>1. mem[p] = disk /\ \A j \in DOMAIN disk : bin[Of(disk[j])] = NoFile => Of(disk[j]) \in cut
      BY <1>1, <2>10 DEF OwnInv, Current, Complete, Loaded
    <3>2. RecordedBinary'
      BY <1>2, <3>1 DEF RecordedBinary
    <3>3. Complete(p)'
      BY <1>2, <2>4, <2>6, <3>1 DEF Complete
    <3>4. Current(p)' /\ Progress(p)'
      BY <1>1, <2>1, <2>6 DEF Current, Progress
    <3>5. Defaults(p)'
      <4> SUFFICES ASSUME NEW n \in Names, Actives(disk, n) # {}
                   PROVE  Actives(new, n) # {}
        BY <1>2, <2>6 DEF Defaults
      <4>1. PICK j \in DOMAIN disk : disk[j].name = n /\ disk[j].active
        BY DEF Actives
      <4>2. CASE n = x[1]
        <5>1. new[i].name = n /\ i \in DOMAIN new
          BY <2>4, <2>5, <4>2
        <5>2. i \in Actives(new, n)
          BY <2>5, <5>1 DEF Actives
        <5>3. QED
          BY <5>2
      <4>3. CASE n # x[1]
        <5>1. new[j] = disk[j] /\ j \in DOMAIN new
          BY <2>4, <3>1, <4>1, <4>3
        <5>2. QED
          BY <4>1, <5>1 DEF Actives
      <4>4. QED
        BY <4>2, <4>3
    <3>6. QED
      BY <3>2, <3>3, <3>4, <3>5 DEF AloneInv
  <2>11. QED
    BY <1>1, <1>2, <2>1, <2>6, <2>7, <2>8, <2>9, <2>10, GoStep
<1>5. QED
  BY <1>3, <1>4

(* `component uninstall` removes binaries and what the list says of them. *)
LEMMA UninstallStep ==
  ASSUME IInv, NEW p \in Proc, Uninstall(p)
  PROVE  IInv'
<1>1. /\ TypeOK /\ pc[p] \in {"uninstall", "uninstallall"} /\ StepOf(p) /\ OwnInv(p)
      /\ Consistent(mem[p]) /\ mem[p] \in Lists
      /\ req[p].op = pc[p] /\ queue[p] = req[p].args /\ req[p] \in Requests
  BY DEF IInv, Uninstall, Lined, TypeOK, StepOf
<1>2. UNCHANGED <<repo, disk, overlap, cut>>
  BY DEF Uninstall
<1>3. CASE UninstallRefused(p)
  <2>1. Return(p, "refused") /\ UNCHANGED bin
    BY <1>3 DEF Uninstall
  <2>2. QED
    BY <1>1, <1>2, <2>1, ReturnStep
<1>4. CASE ~UninstallRefused(p)
  <2> DEFINE new == Kept(mem[p], Removed(p))
  <2>1. /\ mem' = [mem EXCEPT ![p] = new] /\ pc' = [pc EXCEPT ![p] = "save"]
        /\ bin' = [x \in Products |-> IF x \in Unlinked(p) THEN NoFile ELSE bin[x]]
        /\ UNCHANGED <<req, queue, snap, last>>
    BY <1>4 DEF Uninstall, Go
  <2>2. /\ new \in Lists /\ Consistent(new)
        /\ \A j \in DOMAIN new : \E i \in DOMAIN mem[p] : new[j] = mem[p][i] /\ mem[p][i] \notin Removed(p)
        /\ \A i \in DOMAIN mem[p] : mem[p][i] \notin Removed(p) => \E j \in DOMAIN new : new[j] = mem[p][i]
    BY <1>1, KeptConsistent
  <2> HIDE DEF new
  <2>3. mem'[p] = new /\ pc'[p] = "save" /\ \A q \in Proc \ {p} : Frame(q)
    BY <1>1, <2>1 DEF TypeOK, Frame
  <2>4. TypeOK'
    <3>1. mem' \in [Proc -> Lists] /\ pc' \in [Proc -> Loaded \cup {"idle", "load"}]
      BY <1>1, <2>1, <2>2 DEF TypeOK, Loaded
    <3>2. bin' \in [Products -> Nat]
      BY <1>1, <2>1 DEF TypeOK, NoFile
    <3>3. QED
      BY <1>1, <1>2, <2>1, <3>1, <3>2 DEF TypeOK
  <2>5. Consistent(disk') /\ Consistent(mem'[p])
    BY <1>2, <2>2, <2>3 DEF IInv, Lined
  <2>6. StepOf(p)'
    BY <1>1, <2>1, <2>3 DEF StepOf
  <2>7. ASSUME ~overlap PROVE AloneInv(p)' /\ RecordedBinary'
    <3>1. mem[p] = disk /\ \A i \in DOMAIN mem[p] : bin[Of(mem[p][i])] = NoFile => Of(mem[p][i]) \in cut
      BY <1>1, <2>7 DEF OwnInv, Current, Complete, Loaded
    <3>2. RecordedBinary'
      <4>1. Unsaved(p)'
        BY <1>1, <2>1, <2>3 DEF Unsaved
      <4>2. QED
        BY <4>1 DEF RecordedBinary
    <3>3. Complete(p)'
      <4> SUFFICES ASSUME NEW j \in DOMAIN new, bin'[Of(new[j])] = NoFile
                   PROVE  Of(new[j]) \in cut
        BY <1>2, <2>3 DEF Complete
      <4>1. PICK i \in DOMAIN mem[p] : new[j] = mem[p][i] /\ mem[p][i] \notin Removed(p)
        BY <2>2
      <4>2. Of(mem[p][i]) \notin Unlinked(p)
        <5>1. SUFFICES ASSUME NEW e \in Removed(p), Of(e) = Of(mem[p][i]) PROVE FALSE
          BY DEF Unlinked
        <5>2. PICK k \in DOMAIN mem[p] : e = mem[p][k]
          BY DEF Removed, Range
        <5>3. QED
          BY <1>1, <4>1, <5>1, <5>2 DEF Consistent
      <4>3. Of(mem[p][i]) \in Products
        BY <1>1, LenProperties, ElementOfSeq DEF Lists, Entries
      <4>4. bin[Of(mem[p][i])] = NoFile
        BY <2>1, <4>1, <4>2, <4>3
      <4>5. QED
        BY <3>1, <4>1, <4>4
    <3>4. Current(p)' /\ Progress(p)'
      BY <1>1, <2>1, <2>3 DEF Current, Progress
    <3>5. Defaults(p)'
      <4> SUFFICES ASSUME NEW n \in Names, Actives(disk, n) # {}
                   PROVE  Actives(new, n) # {} \/ Asked(p, n)
        BY <1>2, <2>1, <2>3 DEF Defaults, Asked
      <4>1. PICK i \in DOMAIN mem[p] : mem[p][i].name = n /\ mem[p][i].active
        BY <3>1 DEF Actives
      <4>2. CASE mem[p][i] \notin Removed(p)
        <5>1. PICK j \in DOMAIN new : new[j] = mem[p][i]
          BY <2>2, <4>2
        <5>2. QED
          BY <4>1, <5>1 DEF Actives
      <4>3. CASE mem[p][i] \in Removed(p)
        <5>1. n = Head(req[p].args)[1]
          BY <1>1, <4>1, <4>3 DEF Removed
        <5>2. Head(req[p].args) = req[p].args[1]
          BY <1>1, ComponentAssumption
        <5>3. req[p].op = "uninstall" => req[p].force
          BY <1>4, <4>1, <4>3 DEF UninstallRefused
        <5>4. QED
          BY <1>1, <5>1, <5>2, <5>3 DEF Asked
      <4>4. QED
        BY <4>2, <4>3
    <3>6. QED
      BY <3>2, <3>3, <3>4, <3>5 DEF AloneInv
  <2>8. QED
    BY <1>1, <1>2, <2>1, <2>3, <2>4, <2>5, <2>6, <2>7, GoStep
<1>5. QED
  BY <1>3, <1>4

(* What FindVersion finds has the name that was asked for and a build. *)
LEMMA FoundLemma ==
  ASSUME NEW y \in Arg, NEW builds \in [Products -> Nat], NEW x \in FindVersion(y, builds)
  PROVE  x \in Products /\ x[1] = y[1] /\ builds[x] \in Nat \ {0}
<1>1. x \in Products /\ x[1] = y[1] /\ builds[x] > 0
  BY DEF FindVersion, GetLatest
<1>2. QED
  BY <1>1

(* A product is downloaded and recorded in the list. *)
LEMMA DownloadStep ==
  ASSUME IInv, NEW p \in Proc, Download(p)
  PROVE  IInv'
<1>1. /\ TypeOK /\ pc[p] = "next" /\ StepOf(p) /\ OwnInv(p) /\ Consistent(mem[p]) /\ mem[p] \in Lists
      /\ req[p] \in Requests
  BY DEF IInv, Download, Lined, TypeOK, StepOf
<1>2a. PICK x \in FindVersion(Head(queue[p]), snap[p]) :
           /\ \E content \in {snap[p][x], Page} : bin' = [bin EXCEPT ![x] = content]
           /\ mem' = [mem EXCEPT ![p] = SetDefault(Put(mem[p], Entry(x, snap[p][x], FALSE)), x)]
  BY DEF Download
<1>2. PICK content \in {snap[p][x], Page} : bin' = [bin EXCEPT ![x] = content]
  BY <1>2a
<1>3. /\ queue[p] # <<>> /\ queue' = [queue EXCEPT ![p] = Tail(queue[p])]
      /\ pc' = [pc EXCEPT ![p] = "save"] /\ UNCHANGED <<repo, disk, req, snap, overlap, cut, last>>
  BY DEF Download, Go
<1>4. queue[p] \in Seq(Arg) /\ snap[p] \in [Products -> Nat]
  BY <1>1 DEF TypeOK
<1>5. /\ Head(queue[p]) \in Arg /\ Tail(queue[p]) \in Seq(Arg) /\ Len(Tail(queue[p])) = Len(queue[p]) - 1
      /\ \A i \in 1..Len(Tail(queue[p])) : Tail(queue[p])[i] = queue[p][i + 1]
      /\ Len(queue[p]) \in Nat \ {0} /\ Head(queue[p]) = queue[p][1]
  BY <1>3, <1>4, HeadTailProperties, EmptySeq
<1>6. x \in Products /\ x[1] = Head(queue[p])[1] /\ snap[p][x] \in Nat \ {0}
  BY <1>2a, <1>4, <1>5, FoundLemma
<1>7. content \in Nat \ {0}
  BY <1>2, <1>6, ComponentAssumption DEF Page
<1>8. PICK new : new = SetDefault(Put(mem[p], Entry(x, snap[p][x], FALSE)), x)
  OBVIOUS
<1>9. RecordIs(mem[p], x, snap[p][x], new)
  BY <1>1, <1>6, <1>8, DownloadLemma
<1>10. PICK i0 \in DOMAIN new : Of(new[i0]) = x /\ new[i0].name = x[1] /\ new[i0].release = snap[p][x] /\ new[i0].active
  BY <1>9 DEF RecordIs
<1>11. /\ mem'[p] = new /\ pc'[p] = "save" /\ queue'[p] = Tail(queue[p])
       /\ \A q \in Proc \ {p} : Frame(q)
  BY <1>1, <1>2a, <1>3, <1>8 DEF TypeOK, Frame
<1>12. TypeOK'
  <2>1. mem' \in [Proc -> Lists] /\ pc' \in [Proc -> Loaded \cup {"idle", "load"}]
    BY <1>1, <1>2a, <1>3, <1>8, <1>9 DEF TypeOK, Loaded, RecordIs
  <2>2. bin' \in [Products -> Nat] /\ queue' \in [Proc -> Seq(Arg)]
    BY <1>1, <1>2, <1>3, <1>5, <1>7 DEF TypeOK
  <2>3. QED
    BY <1>1, <1>3, <2>1, <2>2 DEF TypeOK
<1>13. Consistent(disk') /\ Consistent(mem'[p])
  BY <1>3, <1>9, <1>11 DEF IInv, Lined, RecordIs
<1>14. StepOf(p)'
  BY <1>1, <1>3, <1>11 DEF StepOf
<1>15. bin'[x] = content /\ \A y \in Products \ {x} : bin'[y] = bin[y]
  BY <1>1, <1>2, <1>6 DEF TypeOK
<1>16. \A i \in DOMAIN mem[p] : Of(mem[p][i]) \in Products
  BY <1>1, LenProperties, ElementOfSeq DEF Lists, Entries
<1>17. ASSUME ~overlap PROVE AloneInv(p)' /\ RecordedBinary'
  <2>1. mem[p] = disk /\ \A i \in DOMAIN mem[p] : bin[Of(mem[p][i])] = NoFile => Of(mem[p][i]) \in cut
    BY <1>1, <1>17 DEF OwnInv, Current, Complete, Loaded
  <2>2. RecordedBinary'
    BY <1>3, <1>7, <1>15, <1>16, <2>1 DEF RecordedBinary, NoFile
  <2>3. Complete(p)'
    <3> SUFFICES ASSUME NEW j \in DOMAIN new, bin'[Of(new[j])] = NoFile
                 PROVE  Of(new[j]) \in cut
      BY <1>3, <1>11 DEF Complete
    <3>1. Of(new[j]) # x
      BY <1>7, <1>15 DEF NoFile
    <3>2. QED
      BY <1>9, <1>15, <1>16, <2>1, <3>1 DEF RecordIs
  <2>4. Current(p)'
    BY <1>11 DEF Current
  <2>5. Defaults(p)'
    <3> SUFFICES ASSUME NEW n \in Names, Actives(disk, n) # {}
                 PROVE  Actives(new, n) # {}
      BY <1>3, <1>11 DEF Defaults
    <3>1. PICK j \in DOMAIN mem[p] : mem[p][j].name = n /\ mem[p][j].active
      BY <2>1 DEF Actives
    <3>2. CASE n = x[1]
      <4>1. i0 \in Actives(new, n)
        BY <1>10, <3>2 DEF Actives
      <4>2. QED
        BY <4>1
    <3>3. CASE n # x[1]
      <4>1. Of(mem[p][j]) # x
        BY <3>1, <3>3 DEF Of
      <4>2. new[j] = mem[p][j] /\ j \in DOMAIN new
        BY <1>9, <3>1, <3>3, <4>1 DEF RecordIs
      <4>3. QED
        BY <3>1, <4>2 DEF Actives
    <3>4. QED
      BY <3>2, <3>3
  <2>6. Progress(p)'
    <3> DEFINE args == req[p].args
               d == Done(p)
    <3> SUFFICES ASSUME req[p].op \in {"install", "update"}
                 PROVE  /\ Len(queue'[p]) <= Len(args)
                        /\ \A j \in 1..Len(queue'[p]) : queue'[p][j] = args[Done(p)' + j]
                        /\ \A k \in 1..Done(p)' : Recorded(mem[p], req[p].args, k, Done(p), snap[p])'
      BY <1>3, <1>11 DEF Progress
    <3>1. args \in Seq(Arg) /\ Len(args) \in Nat
      BY <1>1, ComponentAssumption, LenProperties DEF Arg
    <3>2. /\ Len(queue[p]) <= Len(args)
          /\ \A j \in 1..Len(queue[p]) : queue[p][j] = args[d + j]
          /\ \A k \in 1..d : Recorded(mem[p], args, k, d, snap[p])
      BY <1>1, <1>17 DEF OwnInv, Progress
    <3>3. d \in Nat /\ Done(p)' = d + 1 /\ d + 1 \in 1..Len(args) /\ args[d + 1] = Head(queue[p])
      <4>1. d = Len(args) - Len(queue[p]) /\ Done(p)' = Len(args) - Len(queue'[p])
        BY <1>3 DEF Done
      <4>2. /\ 1 \in 1..Len(queue[p]) /\ Len(queue[p]) \in Nat \ {0} /\ Len(args) \in Nat
            /\ Len(queue'[p]) = Len(queue[p]) - 1 /\ Len(queue[p]) <= Len(args)
        BY <1>5, <1>11, <3>1, <3>2
      <4> HIDE DEF d, args
      <4>3. d \in Nat /\ Done(p)' = d + 1 /\ d + 1 \in 1..Len(args)
        BY <4>1, <4>2
      <4>4. QED
        BY <1>5, <3>2, <4>2, <4>3
    <3>4. \A k \in 1..Len(args) : args[k] \in Arg
      BY <3>1, ElementOfSeq
    <3> HIDE DEF args, d
    <3>5. Len(queue'[p]) <= Len(args)
      BY <1>5, <1>11, <3>1, <3>2
    <3>6. \A j \in 1..Len(queue'[p]) : queue'[p][j] = args[Done(p)' + j]
      <4> SUFFICES ASSUME NEW j \in 1..Len(queue'[p]) PROVE queue'[p][j] = args[d + 1 + j]
        BY <3>3
      <4>1. queue'[p][j] = queue[p][j + 1] /\ j + 1 \in 1..Len(queue[p])
        BY <1>5, <1>11
      <4>2. queue[p][j + 1] = args[d + (j + 1)] /\ d + (j + 1) = d + 1 + j
        <5>1. d \in Nat /\ j \in Nat
          BY <3>3
        <5>2. d + (j + 1) = d + 1 + j
          BY <5>1
        <5>3. queue[p][j + 1] = args[d + (j + 1)]
          BY <3>2, <4>1
        <5>4. QED
          BY <5>2, <5>3
      <4>3. QED
        BY <4>1, <4>2
    <3>7. ASSUME NEW k \in 1..(d + 1)
          PROVE  \E i \in DOMAIN new :
                   /\ Of(new[i]) \in FindVersion(args[k], snap[p])
                   /\ new[i].release = snap[p][Of(new[i])]
                   /\ bin'[Of(new[i])] \in {new[i].release, Page}
                   /\ (\A m \in (k + 1)..(d + 1) : args[m][1] # args[k][1]) => new[i].active
      <4>1. CASE x \in FindVersion(args[k], snap[p])
        <5>1. /\ Of(new[i0]) \in FindVersion(args[k], snap[p])
              /\ new[i0].release = snap[p][Of(new[i0])]
              /\ bin'[Of(new[i0])] \in {new[i0].release, Page}
          BY <1>2, <1>10, <1>15, <4>1
        <5>2. new[i0].active
          BY <1>10
        <5>3. QED
          BY <5>1, <5>2, Zenon
      <4>2. CASE x \notin FindVersion(args[k], snap[p])
        <5>1. k \in 1..d
          BY <1>2a, <3>3, <4>2
        <5>2. PICK i \in DOMAIN mem[p] :
                 /\ Of(mem[p][i]) \in FindVersion(args[k], snap[p])
                 /\ mem[p][i].release = snap[p][Of(mem[p][i])]
                 /\ bin[Of(mem[p][i])] \in {mem[p][i].release, Page}
                 /\ (\A m \in (k + 1)..d : args[m][1] # args[k][1]) => mem[p][i].active
          BY <3>2, <5>1 DEF Recorded
        <5>3. /\ Of(mem[p][i]) # x /\ i \in DOMAIN new /\ Of(new[i]) = Of(mem[p][i])
              /\ new[i].release = mem[p][i].release
              /\ mem[p][i].name # x[1] => new[i] = mem[p][i]
          BY <1>9, <4>2, <5>2 DEF RecordIs
        <5>4. /\ Of(new[i]) \in FindVersion(args[k], snap[p])
              /\ new[i].release = snap[p][Of(new[i])]
              /\ bin'[Of(new[i])] \in {new[i].release, Page}
          BY <1>15, <1>16, <5>2, <5>3
        <5>5. (\A m \in (k + 1)..(d + 1) : args[m][1] # args[k][1]) => new[i].active
          <6> SUFFICES ASSUME \A m \in (k + 1)..(d + 1) : args[m][1] # args[k][1] PROVE new[i].active
            OBVIOUS
          <6>1. d + 1 \in (k + 1)..(d + 1) /\ \A m \in (k + 1)..d : m \in (k + 1)..(d + 1)
            BY <3>3, <5>1
          <6>2. args[k][1] # x[1]
            BY <1>6, <3>3, <6>1
          <6>3. Of(mem[p][i])[1] = args[k][1]
            <7>1. args[k] \in Arg
              BY <3>3, <3>4, <5>1
            <7>2. QED
              BY <1>4, <5>2, <7>1, FoundLemma
          <6>4. mem[p][i].name = args[k][1]
            BY <6>3 DEF Of
          <6>5. new[i] = mem[p][i] /\ mem[p][i].active
            BY <5>2, <5>3, <6>1, <6>2, <6>4
          <6>6. QED
            BY <6>5
        <5>6. QED
          BY <5>3, <5>4, <5>5, Zenon
      <4>3. QED
        BY <4>1, <4>2
    <3>8. \A k \in 1..Done(p)' : Recorded(mem[p], req[p].args, k, Done(p), snap[p])'
      BY <1>3, <1>11, <3>3, <3>7 DEF Recorded, args
    <3>9. QED
      BY <3>5, <3>6, <3>8
  <2>7. QED
    BY <2>2, <2>3, <2>4, <2>5, <2>6 DEF AloneInv
<1>18. QED
  BY <1>1, <1>3, <1>11, <1>12, <1>13, <1>14, <1>17, GoStep

(* The newest build of the mirror is a number. *)
LEMMA MaxOfLemma ==
  ASSUME NEW builds \in [Products -> Nat], NEW x \in Products, \A y \in Products : builds[y] <= MaxBuild
  PROVE  MaxOf(builds) \in Nat
<1> DEFINE Above == {n \in Nat : \A y \in Products : builds[y] <= n}
<1>1. Above \subseteq Nat /\ Above # {}
  BY ComponentAssumption
<1>2. PICK n \in Above : \A m \in Above : n <= m
  <2> HIDE DEF Above
  <2>1. QED
    BY <1>1, LeastNumber
<1>3. \E y \in Products : builds[y] = n
  <2> SUFFICES ASSUME \A y \in Products : builds[y] # n PROVE FALSE
    OBVIOUS
  <2>1. n \in Nat /\ \A y \in Products : builds[y] \in Nat /\ builds[y] < n
    BY <1>2
  <2>2. n - 1 \in Nat /\ \A y \in Products : builds[y] <= n - 1
    BY <2>1
  <2>3. n - 1 \in Above /\ ~(n <= n - 1)
    BY <2>1, <2>2
  <2>4. QED
    BY <1>2, <2>3
<1>4. n \in Range(builds) /\ \A c \in Range(builds) : c <= n
  BY <1>2, <1>3 DEF Range
<1>5. MaxOf(builds) \in Range(builds)
  BY <1>4 DEF MaxOf
<1>6. QED
  BY <1>5 DEF Range

(* Nothing is installed at first. *)
LEMMA InitIInv == Init => IInv
<1> SUFFICES ASSUME Init PROVE IInv
  OBVIOUS
<1>1. TypeOK
  <2>1. <<>> \in Lists /\ <<>> \in Seq(Arg) /\ [x \in Products |-> 0] \in [Products -> Nat]
    BY EmptySeq DEF Lists
  <2>2. /\ disk \in Lists /\ queue \in [Proc -> Seq(Arg)] /\ mem \in [Proc -> Lists]
        /\ snap \in [Proc -> [Products -> Nat]]
    BY <2>1 DEF Init
  <2>3. repo \in [Products -> Nat]
    BY ComponentAssumption DEF Init
  <2>4. /\ bin \in [Products -> Nat] /\ pc \in [Proc -> Loaded \cup {"idle", "load"}]
        /\ req \in [Proc -> Requests \cup {Idle}] /\ cut \subseteq Products /\ overlap \in BOOLEAN
    BY DEF Init, NoFile
  <2>5. QED
    BY <2>2, <2>3, <2>4 DEF TypeOK
<1>2. Lined /\ Alone /\ Returned
  BY DEF Init, Lined, Consistent, Alone, Returned, NoReturn
<1>3. \A p \in Proc : StepOf(p) /\ OwnInv(p)
  BY DEF Init, StepOf, OwnInv, Current, Complete, Defaults, Progress, Loaded
<1>4. RecordedBinary /\ InstallTruthful
  BY DEF Init, RecordedBinary, InstallTruthful, NoReturn
<1>5. QED
  BY <1>1, <1>2, <1>3, <1>4 DEF IInv

(* A command is given: if another one runs, they overlap from now on. *)
LEMMA StartStep ==
  ASSUME IInv, NEW p \in Proc, NEW r \in Requests, Start(p, r)
  PROVE  IInv'
<1>1. /\ TypeOK /\ pc[p] = "idle" /\ pc' = [pc EXCEPT ![p] = "load"] /\ req' = [req EXCEPT ![p] = r]
      /\ overlap' = (overlap \/ \E q \in Proc \ {p} : pc[q] # "idle")
      /\ last' = NoReturn /\ UNCHANGED <<repo, disk, bin, queue, mem, snap, cut>>
  BY DEF IInv, Start
<1>2. TypeOK'
  <2>1. overlap' \in BOOLEAN
    BY <1>1, Zenon
  <2>2. QED
    BY <1>1, <2>1 DEF TypeOK
<1>3. /\ pc'[p] = "load" /\ req'[p] = r
      /\ \A q \in Proc \ {p} : pc'[q] = pc[q] /\ req'[q] = req[q]
  BY <1>1 DEF TypeOK
<1>4. ~overlap' => ~overlap /\ \A q \in Proc \ {p} : pc[q] = "idle" /\ pc'[q] = "idle"
  BY <1>1, <1>3
<1>5. Lined' /\ Returned'
  BY <1>1 DEF IInv, Lined, Returned, NoReturn
<1>6. Alone'
  BY <1>1, <1>3, <1>4 DEF Alone
<1>7. ASSUME NEW q \in Proc PROVE (StepOf(q) /\ OwnInv(q))'
  <2>1. StepOf(q)'
    BY <1>1, <1>3 DEF IInv, StepOf
  <2>2. ~overlap' => pc'[q] \in {"idle", "load"}
    BY <1>3, <1>4
  <2>3. ~overlap' => (Current(q) /\ Complete(q) /\ Defaults(q) /\ Progress(q))'
    BY <2>2 DEF Current, Complete, Defaults, Progress, Loaded
  <2>4. QED
    BY <2>1, <2>3 DEF OwnInv
<1>8. RecordedBinary'
  <2>1. \A q \in Proc : ~overlap' => ~Unsaved(q)
    BY <1>1, <1>4 DEF Unsaved
  <2>2. QED
    BY <1>1, <1>4, <2>1 DEF IInv, RecordedBinary
<1>9. InstallTruthful'
  BY <1>1 DEF InstallTruthful, NoReturn
<1>10. QED
  BY <1>2, <1>5, <1>6, <1>7, <1>8, <1>9 DEF IInv

(* The mirror publishes a build, or nothing happens. *)
LEMMA OutsideStep ==
  ASSUME IInv, repo' \in [Products -> Nat],
         UNCHANGED <<disk, bin, pc, req, queue, mem, snap, overlap, cut, last>>
  PROVE  IInv'
<1>1. TypeOK'
  BY DEF IInv, TypeOK
<1>2. Lined' /\ Alone' /\ Returned'
  BY DEF IInv, Lined, Alone, Returned
<1>3. RecordedBinary'
  BY DEF IInv, RecordedBinary, Unsaved
<1>4. InstallTruthful'
  BY DEF IInv, InstallTruthful
<1>5. ASSUME NEW p \in Proc PROVE (StepOf(p) /\ OwnInv(p))'
  <2>1. StepOf(p)'
    BY DEF IInv, StepOf
  <2>2. ASSUME ~overlap PROVE (Current(p) /\ Complete(p) /\ Defaults(p))'
    BY <2>2 DEF IInv, OwnInv, Current, Complete, Defaults, Asked
  <2>3. ASSUME ~overlap PROVE Progress(p)'
    <3>1. CASE pc[p] \in {"next", "save", "write"}
      BY <2>3, <3>1, SameProgress DEF IInv, OwnInv
    <3>2. CASE pc[p] \notin {"next", "save", "write"}
      BY <3>2 DEF Progress
    <3>3. QED
      BY <3>1, <3>2
  <2>4. QED
    BY <2>1, <2>2, <2>3 DEF OwnInv
<1>6. QED
  BY <1>1, <1>2, <1>3, <1>4, <1>5 DEF IInv

(* Every step keeps the invariant. *)
LEMMA NextIInv == IInv /\ [Next]_vars => IInv'
<1> SUFFICES ASSUME IInv, [Next]_vars PROVE IInv'
  OBVIOUS
<1>1. CASE \E x \in Products : Publish(x)
  <2>1. PICK x \in Products : Publish(x)
    BY <1>1
  <2>2. repo \in [Products -> Nat]
    BY DEF IInv, TypeOK
  <2>3. MaxOf(repo) \in Nat
    BY <2>1, <2>2, MaxOfLemma DEF Publish
  <2>4. repo' \in [Products -> Nat]
    BY <2>1, <2>2, <2>3 DEF Publish
  <2>5. QED
    BY <2>1, <2>4, OutsideStep DEF Publish, local
<1>2. CASE UNCHANGED vars
  <2>1. repo' \in [Products -> Nat]
    BY <1>2 DEF IInv, TypeOK, vars
  <2>2. QED
    BY <1>2, <2>1, OutsideStep DEF vars, local
<1>3. ASSUME NEW p \in Proc, NEW r \in Requests, Start(p, r) PROVE IInv'
  BY <1>3, StartStep
<1>4. ASSUME NEW p \in Proc, LoadFails(p) \/ ArgumentFails(p) \/ DownloadFails(p) PROVE IInv'
  <2>1. /\ pc[p] \notin {"idle", "save", "write"} /\ UNCHANGED <<repo, disk, bin, overlap, cut>>
        /\ \E out \in {"failed", "refused"} : Return(p, out)
    BY <1>4 DEF LoadFails, ArgumentFails, DownloadFails
  <2>2. QED
    BY <2>1, ReturnStep
<1>5. ASSUME NEW p \in Proc, LastArgument(p) PROVE IInv'
  <2>1. /\ pc[p] = "next" /\ queue[p] = <<>> /\ UNCHANGED <<repo, disk, bin, overlap, cut>>
    BY <1>5 DEF LastArgument
  <2>2. CASE req[p].op = "start"
    <3>1. pc' = [pc EXCEPT ![p] = "exec"] /\ UNCHANGED <<req, queue, mem, snap, last>>
      BY <1>5, <2>2 DEF LastArgument, Go
    <3>2. TypeOK /\ StepOf(p) /\ OwnInv(p)
      BY DEF IInv
    <3>3. TypeOK' /\ pc'[p] = "exec" /\ \A q \in Proc \ {p} : Frame(q)
      BY <2>1, <3>1, <3>2 DEF TypeOK, Frame, Loaded
    <3>4. Consistent(disk') /\ Consistent(mem'[p])
      BY <2>1, <3>1 DEF IInv, Lined
    <3>5. StepOf(p)'
      BY <2>1, <2>2, <3>1, <3>2, <3>3 DEF StepOf
    <3>6. ASSUME ~overlap PROVE AloneInv(p)' /\ RecordedBinary'
      <4>1. (Current(p) /\ Complete(p) /\ Defaults(p))'
        BY <2>1, <3>1, <3>2, <3>3, <3>6 DEF OwnInv, Current, Complete, Defaults, Loaded, Asked
      <4>2. Progress(p)'
        BY <3>3 DEF Progress
      <4>3. RecordedBinary'
        BY <2>1, <3>1, <3>2, <3>6 DEF RecordedBinary, OwnInv, Current, Complete, Loaded
      <4>4. QED
        BY <4>1, <4>2, <4>3 DEF AloneInv
    <3>7. QED
      BY <2>1, <3>1, <3>3, <3>4, <3>5, <3>6, GoStep
  <2>3. CASE req[p].op # "start"
    <3>1. Return(p, "ok")
      BY <1>5, <2>3 DEF LastArgument
    <3>2. CASE req[p].op \in {"install", "update"}
      BY <2>1, <3>1, <3>2, InstallReturns
    <3>3. CASE req[p].op \notin {"install", "update"}
      BY <2>1, <3>1, <3>3, ReturnStep
    <3>4. QED
      BY <3>2, <3>3
  <2>4. QED
    BY <2>2, <2>3
<1>6. ASSUME NEW p \in Proc, Exec(p) PROVE IInv'
  <2>1. /\ pc[p] = "exec" /\ UNCHANGED <<repo, disk, bin, overlap, cut>> /\ req[p].op = "start"
        /\ \E out \in {"ok", "refused"} : Return(p, out)
    BY <1>6 DEF Exec, IInv, StepOf
  <2>2. QED
    BY <2>1, ReturnStep
<1>7. QED
  BY <1>1, <1>2, <1>3, <1>4, <1>5, <1>6, LoadStep, DownloadStep, TruncateStep, WriteStep, CutShortStep,
     UseStep, UninstallStep DEF Next, Quiet

(* IInv always holds. *)
LEMMA Invariance == Spec => []IInv
BY InitIInv, NextIInv, PTL DEF Spec

(* Whatever processes run at the same time on old copies of installed.json *)
(* and wherever they are killed, the file that SaveInstalledComponents     *)
(* leaves has one entry for a product and at most one default of a name.   *)
THEOREM ListIsConsistent == Spec => []ListConsistent
<1>1. IInv => ListConsistent
  BY DEF IInv, Lined, Consistent, ListConsistent
<1>2. QED
  BY <1>1, Invariance, PTL

(* Without overlap an entry is without its binary only after an uninstall  *)
(* that was killed or could not write between the removal and the save.    *)
THEOREM EntriesHaveBinaries == Spec => []RecordedBinary
<1>1. IInv => RecordedBinary
  BY DEF IInv
<1>2. QED
  BY <1>1, Invariance, PTL

(* Without overlap an install or update that reports success has recorded  *)
(* every component it was asked for, at the build the mirror listed.       *)
THEOREM InstallIsTruthful == Spec => []InstallTruthful
<1>1. IInv => InstallTruthful
  BY DEF IInv
<1>2. QED
  BY <1>1, Invariance, PTL

(* Without overlap a name loses its default version only by an uninstall   *)
(* with --force or --all of that name.                                     *)
THEOREM DefaultsSurvive == Spec => DefaultSurvives
<1> DEFINE Survives ==
      \A n \in Names :
        (~overlap' /\ Actives(disk, n) # {} /\ Actives(disk', n) = {}) =>
            \E p \in Proc : /\ req[p].op = "uninstallall" \/ (req[p].op = "uninstall" /\ req[p].force)
                            /\ req[p].args[1][1] = n
<1>1. IInv /\ [Next]_vars => Survives
  <2> SUFFICES ASSUME IInv, [Next]_vars, NEW n \in Names, ~overlap', Actives(disk, n) # {}, Actives(disk', n) = {}
               PROVE  \E p \in Proc : Asked(p, n)
    BY DEF Asked
  <2>1. PICK p \in Proc : Write(p)
    BY DEF Next, Quiet, vars, Publish, Start, LoadFails, Load, ArgumentFails, LastArgument, DownloadFails,
           Download, Truncate, WriteFails, Use, Uninstall, Exec, Kill
  <2>2. disk' = mem[p] /\ ~overlap /\ pc[p] = "write"
    BY <2>1 DEF Write
  <2>3. QED
    BY <2>2 DEF IInv, OwnInv, Defaults, Loaded
<1>2. QED
  BY <1>1, Invariance, PTL DEF Spec, DefaultSurvives

=============================================================================
