----------------------------- MODULE RpcProofs -----------------------------
(***************************************************************************)
(* Proofs about Rpc, for any number of goroutines, addresses and retries:  *)
(* connections are exclusive, and a call does no more than RpcCall allows. *)
(*                                                                         *)
(* ConnExclusive is inductive with the types and with the places where a   *)
(* goroutine holds a connection (HoldInv).  The refinement rests on        *)
(* BudgetInv: what was executed and what may still be executed late never  *)
(* exceeds the attempts made so far, and no attempt is made before a       *)
(* connection is held, so that the retries of one connection are the       *)
(* budget of the call.                                                     *)
(***************************************************************************)
EXTENDS Rpc, SequenceTheorems, TLAPS

Results == {"nil", "ok", "status", "failed"}
Locations == {"get", "dial", "call", "put", "return", "done", "panic"}

TypeOK ==
  /\ pc \in [Goroutine -> Locations]
  /\ at \in [Goroutine -> Nat \ {0}]
  /\ dialLeft \in [Goroutine -> Nat]
  /\ left \in [Goroutine -> 0..Retries]
  /\ conn \in [Goroutine -> Nat]
  /\ pool \in [Address -> Seq(Nat \ {0})]
  /\ dialed \in Nat
  /\ result \in [Goroutine -> Results]
  /\ late \in [Goroutine -> Nat]
  /\ executions \in [Goroutine -> Nat]

\* A goroutine holds a connection while it calls and until it gives it back, and
\* it does so for an address it was given.
HoldInv ==
  \A g \in Goroutine :
    /\ pc[g] \in {"call", "put"} <=> conn[g] # 0
    /\ pc[g] \in {"dial", "call", "put"} => at[g] \in 1..Len(Addrs[g])

\* The attempts made so far bound what the mds has executed and may still execute.
Budget(g) ==
  /\ pc[g] \in {"get", "dial"} => executions[g] + late[g] = 0
  /\ pc[g] = "call" => executions[g] + late[g] <= Retries - left[g]
  /\ executions[g] + late[g] <= Retries + 1

BudgetInv == \A g \in Goroutine : Budget(g)

\* What a call reports is known when it gives its connection back, and a success
\* is the answer to a request that was executed.
ResultInv ==
  \A g \in Goroutine :
    /\ pc[g] \in {"get", "dial"} => result[g] \in {"nil", "failed"}
    /\ pc[g] \in {"put", "return", "done"} => result[g] # "nil"
    /\ pc[g] = "panic" => result[g] = "nil"
    /\ (pc[g] \in {"put", "return", "done"} /\ result[g] = "ok") => executions[g] > 0

IInv == TypeOK /\ HoldInv /\ ConnExclusive /\ BudgetInv /\ ResultInv

-----------------------------------------------------------------------------

\* Giving a connection back to a pool that does not have it.
LEMMA AppendLemma ==
  ASSUME NEW S, NEW q \in Seq(S), NEW c \in S, IsInjective(q), c \notin Range(q)
  PROVE  /\ Append(q, c) \in Seq(S)
         /\ IsInjective(Append(q, c))
         /\ Range(Append(q, c)) = Range(q) \cup {c}
<1> DEFINE r == Append(q, c)
<1>1. /\ r \in Seq(S) /\ Len(r) = Len(q) + 1 /\ r[Len(q) + 1] = c
      /\ \A i \in 1..Len(q) : r[i] = q[i]
  BY AppendProperties
<1>2. Len(q) \in Nat /\ DOMAIN q = 1..Len(q) /\ DOMAIN r = 1..(Len(q) + 1)
  BY <1>1, LenProperties
<1> HIDE DEF r
<1>3. IsInjective(r)
  <2> SUFFICES ASSUME NEW i \in 1..(Len(q) + 1), NEW j \in 1..(Len(q) + 1), r[i] = r[j]
               PROVE  i = j
    BY <1>2 DEF IsInjective
  <2>1. CASE i \in 1..Len(q) /\ j \in 1..Len(q)
    BY <1>1, <1>2, <2>1 DEF IsInjective
  <2>2. CASE i = Len(q) + 1 /\ j \in 1..Len(q)
    BY <1>1, <1>2, <2>2 DEF Range
  <2>3. CASE i \in 1..Len(q) /\ j = Len(q) + 1
    BY <1>1, <1>2, <2>3 DEF Range
  <2>4. QED
    BY <1>2, <2>1, <2>2, <2>3
<1>4. Range(r) = Range(q) \cup {c}
  <2>1. Range(r) = {r[i] : i \in 1..(Len(q) + 1)} /\ Range(q) = {q[i] : i \in 1..Len(q)}
    BY <1>2 DEF Range
  <2>2. 1..(Len(q) + 1) = 1..Len(q) \cup {Len(q) + 1}
    BY <1>2
  <2>3. QED
    BY <1>1, <2>1, <2>2
<1>5. QED
  BY <1>1, <1>3, <1>4 DEF r

\* Taking the first connection of a pool that has one.
LEMMA TailLemma ==
  ASSUME NEW S, NEW q \in Seq(S), q # <<>>, IsInjective(q)
  PROVE  /\ Tail(q) \in Seq(S) /\ Head(q) \in S
         /\ IsInjective(Tail(q))
         /\ Head(q) \in Range(q) /\ Head(q) \notin Range(Tail(q))
         /\ Range(q) = Range(Tail(q)) \cup {Head(q)}
<1> DEFINE r == Tail(q)
<1>1. /\ r \in Seq(S) /\ Len(r) = Len(q) - 1 /\ Head(q) \in S
      /\ \A i \in 1..Len(r) : r[i] = q[i + 1]
  BY HeadTailProperties
<1>2. Head(q) = q[1]
  OBVIOUS
<1>3. Len(q) \in Nat \ {0} /\ DOMAIN q = 1..Len(q) /\ DOMAIN r = 1..(Len(q) - 1)
  BY <1>1, LenProperties, EmptySeq
<1> HIDE DEF r
<1>4. IsInjective(r)
  <2> SUFFICES ASSUME NEW i \in 1..(Len(q) - 1), NEW j \in 1..(Len(q) - 1), r[i] = r[j]
               PROVE  i = j
    BY <1>3 DEF IsInjective
  <2>1. i + 1 \in 1..Len(q) /\ j + 1 \in 1..Len(q) /\ q[i + 1] = q[j + 1]
    BY <1>1, <1>3
  <2>2. i + 1 = j + 1
    BY <2>1, <1>3 DEF IsInjective
  <2>3. QED
    BY <2>2
<1>5. Range(r) = {q[i] : i \in 2..Len(q)}
  <2>1. ASSUME NEW i \in 1..(Len(q) - 1) PROVE r[i] \in {q[k] : k \in 2..Len(q)}
    <3>1. i + 1 \in 2..Len(q) /\ r[i] = q[i + 1]
      BY <1>1, <1>3
    <3>2. QED
      BY <3>1
  <2>2. ASSUME NEW k \in 2..Len(q) PROVE q[k] \in {r[i] : i \in 1..(Len(q) - 1)}
    <3>1. k - 1 \in 1..(Len(q) - 1) /\ r[k - 1] = q[(k - 1) + 1] /\ (k - 1) + 1 = k
      BY <1>1, <1>3
    <3>2. QED
      BY <3>1
  <2>3. Range(r) = {r[i] : i \in 1..(Len(q) - 1)}
    BY <1>3 DEF Range
  <2>4. QED
    BY <2>1, <2>2, <2>3
<1>6. Range(q) = {q[i] : i \in 1..Len(q)} /\ 1..Len(q) = 2..Len(q) \cup {1} /\ 1 \notin 2..Len(q)
  BY <1>3 DEF Range
<1>7. Head(q) \notin Range(r)
  BY <1>2, <1>3, <1>5, <1>6 DEF IsInjective
<1>8. Range(q) = Range(r) \cup {Head(q)}
  BY <1>2, <1>5, <1>6
<1>9. QED
  BY <1>1, <1>4, <1>7, <1>8 DEF r

-----------------------------------------------------------------------------

\* A new process has no connections and has sent nothing.
LEMMA InitIInv == Init => IInv
<1> SUFFICES ASSUME Init PROVE IInv
  OBVIOUS
<1> USE RpcAssumption DEF Init
<1>1. TypeOK
  BY DEF TypeOK, Locations, Results
<1>2. HoldInv /\ BudgetInv /\ ResultInv
  BY DEF HoldInv, Budget, BudgetInv, ResultInv
<1>3. ConnExclusive
  <2>1. Held = {} /\ \A a \in Address : DOMAIN pool[a] = {} /\ Range(pool[a]) = {}
    BY DEF Held, Range
  <2>2. Pooled = {} /\ {conn[g] : g \in Held} = {} /\ 1..dialed = {}
    BY <2>1 DEF Pooled
  <2>3. QED
    BY <2>1, <2>2 DEF ConnExclusive, IsInjective
<1>4. QED
  BY <1>1, <1>2, <1>3 DEF IInv

\* The parts of the invariant that are about one goroutine at a time.
LocalInv == HoldInv /\ BudgetInv /\ ResultInv

\* A retry takes one from the retries that are left.
LEMMA OneRetryLess ==
  ASSUME NEW f \in [Goroutine -> 0..Retries], NEW g \in Goroutine, f[g] > 0
  PROVE  [f EXCEPT ![g] = @ - 1] \in [Goroutine -> 0..Retries]
BY RpcAssumption

\* Steps that leave the connections alone.
LEMMA CallSteps ==
  ASSUME IInv, NEW g \in Goroutine,
         \/ DialAgain(g) \/ DialFails(g) \/ StubOk(g)
         \/ (\E n \in 0..1 : StubRetryStatus(g, n) \/ StubStatus(g, n) \/ StubError(g, n))
         \/ Return(g) \/ LateExecution(g)
  PROVE  TypeOK' /\ LocalInv' /\ UNCHANGED <<conn, pool, dialed>>
<1> USE RpcAssumption DEF IInv, LocalInv, TypeOK, Goto, SetClue, Locations, Results
<1> DEFINE Goal == TypeOK' /\ LocalInv' /\ UNCHANGED <<conn, pool, dialed>>
<1>1. CASE DialAgain(g)
  <2>1. TypeOK' /\ UNCHANGED <<conn, pool, dialed>>
    BY <1>1 DEF DialAgain
  <2>2. HoldInv'
    BY <1>1 DEF DialAgain, HoldInv
  <2>3. BudgetInv'
    BY <1>1 DEF DialAgain, Budget, BudgetInv
  <2>4. ResultInv'
    BY <1>1 DEF DialAgain, ResultInv
  <2>5. QED
    BY <2>1, <2>2, <2>3, <2>4
<1>2. CASE DialFails(g)
  <2>1. TypeOK' /\ UNCHANGED <<conn, pool, dialed>>
    BY <1>2 DEF DialFails
  <2>2. HoldInv'
    BY <1>2 DEF DialFails, HoldInv
  <2>3. BudgetInv'
    BY <1>2 DEF DialFails, Budget, BudgetInv
  <2>4. ResultInv'
    BY <1>2 DEF DialFails, ResultInv
  <2>5. QED
    BY <2>1, <2>2, <2>3, <2>4
<1>3. CASE StubOk(g)
  <2>1. TypeOK' /\ UNCHANGED <<conn, pool, dialed>>
    BY <1>3 DEF StubOk
  <2>2. HoldInv'
    BY <1>3 DEF StubOk, HoldInv
  <2>3. BudgetInv'
    <3>1. ASSUME NEW h \in Goroutine, h # g PROVE Budget(h)'
      BY <1>3, <3>1 DEF StubOk, BudgetInv, Budget
    <3>2. /\ executions[g] \in Nat /\ late[g] \in Nat /\ Retries \in Nat /\ left[g] \in 0..Retries
          /\ Budget(g)
      BY DEF BudgetInv
    <3>3. Budget(g)'
      <4>1. /\ executions'[g] = executions[g] + 1 /\ late'[g] = late[g]
            /\ pc[g] = "call" /\ pc'[g] = "put"
        BY <1>3 DEF StubOk
      <4>2. QED
        BY <3>2, <4>1 DEF Budget
    <3>4. QED
      BY <3>1, <3>3 DEF BudgetInv
  <2>4. ResultInv'
    BY <1>3 DEF StubOk, ResultInv
  <2>5. QED
    BY <2>1, <2>2, <2>3, <2>4
<1>4. ASSUME NEW n \in 0..1, StubRetryStatus(g, n) PROVE Goal
  <2>1. TypeOK' /\ UNCHANGED <<conn, pool, dialed>>
    BY <1>4, SMTT(30) DEF StubRetryStatus, MayRetry
  <2>2. HoldInv'
    BY <1>4 DEF StubRetryStatus, MayRetry, HoldInv
  <2>3. BudgetInv'
    <3>1. ASSUME NEW h \in Goroutine, h # g PROVE Budget(h)'
      BY <1>4, <3>1 DEF StubRetryStatus, BudgetInv, Budget
    <3>2. /\ executions[g] \in Nat /\ late[g] \in Nat /\ Retries \in Nat /\ left[g] \in 0..Retries
          /\ Budget(g)
      BY DEF BudgetInv
    <3>3. Budget(g)'
      <4>1. /\ executions'[g] = executions[g] + n /\ late'[g] = late[g] /\ left'[g] = left[g] - 1
            /\ pc[g] = "call" /\ pc'[g] = "call" /\ left[g] > 0
        BY <1>4 DEF StubRetryStatus, MayRetry
      <4>2. QED
        BY <3>2, <4>1 DEF Budget
    <3>4. QED
      BY <3>1, <3>3 DEF BudgetInv
  <2>4. ResultInv'
    BY <1>4 DEF StubRetryStatus, MayRetry, ResultInv
  <2>5. QED
    BY <2>1, <2>2, <2>3, <2>4
<1>5. ASSUME NEW n \in 0..1, StubStatus(g, n) PROVE Goal
  <2>1. TypeOK' /\ UNCHANGED <<conn, pool, dialed>>
    BY <1>5 DEF StubStatus, StatusError, MayRetry
  <2>2. HoldInv'
    BY <1>5 DEF StubStatus, StatusError, MayRetry, HoldInv
  <2>3. BudgetInv'
    <3>1. ASSUME NEW h \in Goroutine, h # g PROVE Budget(h)'
      BY <1>5, <3>1 DEF StubStatus, BudgetInv, Budget
    <3>2. /\ executions[g] \in Nat /\ late[g] \in Nat /\ Retries \in Nat /\ left[g] \in 0..Retries
          /\ Budget(g)
      BY DEF BudgetInv
    <3>3. Budget(g)'
      <4>1. /\ executions'[g] = executions[g] + n /\ late'[g] = late[g]
            /\ pc[g] = "call" /\ pc'[g] = "put"
        BY <1>5 DEF StubStatus
      <4>2. QED
        BY <3>2, <4>1 DEF Budget
    <3>4. QED
      BY <3>1, <3>3 DEF BudgetInv
  <2>4. ResultInv'
    BY <1>5 DEF StubStatus, StatusError, MayRetry, ResultInv
  <2>5. QED
    BY <2>1, <2>2, <2>3, <2>4
<1>6. ASSUME NEW n \in 0..1, StubError(g, n) PROVE Goal
  <2>1. TypeOK' /\ UNCHANGED <<conn, pool, dialed>>
    <3>1. late' \in [Goroutine -> Nat]
      <4>1. late \in [Goroutine -> Nat] /\ late' = [late EXCEPT ![g] = @ + n] /\ n \in Nat
        BY <1>6 DEF StubError
      <4>2. late[g] + n \in Nat
        BY <4>1
      <4>3. QED
        BY <4>1, <4>2, Zenon
    <3>2. left' \in [Goroutine -> 0..Retries]
      <4>1. \/ left' = left
            \/ left[g] > 0 /\ left' = [left EXCEPT ![g] = @ - 1]
        BY <1>6 DEF StubError, MayRetry
      <4>2. left \in [Goroutine -> 0..Retries]
        OBVIOUS
      <4>3. left[g] > 0 => [left EXCEPT ![g] = @ - 1] \in [Goroutine -> 0..Retries]
        <5> HIDE DEF IInv, TypeOK
        <5>1. QED
          BY <4>2, OneRetryLess
      <4>4. QED
        BY <4>1, <4>2, <4>3, Zenon
    <3>3. pc' \in [Goroutine -> Locations] /\ result' \in [Goroutine -> Results]
      BY <1>6 DEF StubError
    <3>4. UNCHANGED <<at, dialLeft, conn, pool, dialed, executions>>
      BY <1>6 DEF StubError
    <3>5. QED
      BY <3>1, <3>2, <3>3, <3>4
  <2>2. HoldInv'
    BY <1>6 DEF StubError, MayRetry, HoldInv
  <2>3. BudgetInv'
    <3>1. ASSUME NEW h \in Goroutine, h # g PROVE Budget(h)'
      BY <1>6, <3>1 DEF StubError, BudgetInv, Budget
    <3>2. /\ executions[g] \in Nat /\ late[g] \in Nat /\ Retries \in Nat /\ left[g] \in 0..Retries
          /\ Budget(g)
      BY DEF BudgetInv
    <3>3. Budget(g)'
      <4>1. /\ executions'[g] = executions[g] /\ late'[g] = late[g] + n /\ pc[g] = "call"
            /\ \/ pc'[g] = "call" /\ left'[g] = left[g] - 1 /\ left[g] > 0
               \/ pc'[g] = "put"
        BY <1>6 DEF StubError, MayRetry
      <4>2. QED
        BY <3>2, <4>1, SMTT(30) DEF Budget
    <3>4. QED
      BY <3>1, <3>3 DEF BudgetInv
  <2>4. ResultInv'
    BY <1>6 DEF StubError, MayRetry, ResultInv
  <2>5. QED
    BY <2>1, <2>2, <2>3, <2>4
<1>7. CASE Return(g)
  <2>1. TypeOK' /\ UNCHANGED <<conn, pool, dialed>>
    BY <1>7 DEF Return
  <2>2. HoldInv'
    BY <1>7 DEF Return, HoldInv
  <2>3. BudgetInv'
    BY <1>7 DEF Return, Budget, BudgetInv
  <2>4. ResultInv'
    BY <1>7 DEF Return, ResultInv
  <2>5. QED
    BY <2>1, <2>2, <2>3, <2>4
<1>8. CASE LateExecution(g)
  <2>1. TypeOK' /\ UNCHANGED <<conn, pool, dialed>>
    BY <1>8, SMTT(30) DEF LateExecution
  <2>2. HoldInv'
    BY <1>8 DEF LateExecution, HoldInv
  <2>3. BudgetInv'
    <3>1. ASSUME NEW h \in Goroutine, h # g PROVE Budget(h)'
      BY <1>8, <3>1 DEF LateExecution, BudgetInv, Budget
    <3>2. /\ executions[g] \in Nat /\ late[g] \in Nat /\ Retries \in Nat /\ left[g] \in 0..Retries
          /\ Budget(g)
      BY DEF BudgetInv
    <3>3. Budget(g)'
      <4>1. /\ executions'[g] = executions[g] + 1 /\ late'[g] = late[g] - 1 /\ late[g] > 0
            /\ UNCHANGED <<pc, left>>
        BY <1>8 DEF LateExecution
      <4>2. QED
        BY <3>2, <4>1 DEF Budget
    <3>4. QED
      BY <3>1, <3>3 DEF BudgetInv
  <2>4. ResultInv'
    BY <1>8 DEF LateExecution, ResultInv
  <2>5. QED
    BY <2>1, <2>2, <2>3, <2>4
<1>9. QED
  BY <1>1, <1>2, <1>3, <1>4, <1>5, <1>6, <1>7, <1>8

LEMMA UnchangedExclusive == ConnExclusive /\ UNCHANGED <<conn, pool, dialed>> => ConnExclusive'
  BY DEF ConnExclusive, Held, Pooled

\* An idle connection is handed out under the lock, or none is.
LEMMA GetConnectionStep ==
  ASSUME IInv, NEW g \in Goroutine, GetConnection(g)
  PROVE  IInv'
<1> USE RpcAssumption DEF IInv, TypeOK, Goto, Locations, Results
<1> DEFINE a == Addr(g)
           q == pool[a]
<1>0. a \in Address /\ q \in Seq(Nat \ {0}) /\ at[g] \in 1..Len(Addrs[g])
  <2>1. Addrs[g] \in Seq(Address) /\ at[g] \in 1..Len(Addrs[g])
    <3>1. Addrs[g] \in Seq(Address) /\ at[g] \in Nat \ {0} /\ at[g] <= Len(Addrs[g])
      BY DEF GetConnection
    <3>2. Len(Addrs[g]) \in Nat
      BY <3>1, LenProperties
    <3>3. QED
      BY <3>1, <3>2
  <2>2. QED
    BY <2>1, ElementOfSeq DEF Addr
<1>1. pc[g] = "get" /\ conn[g] = 0 /\ IsInjective(q)
  BY <1>0 DEF GetConnection, HoldInv, ConnExclusive
<1> HIDE DEF a
<1>2. CASE q = <<>>
  <2>1. UNCHANGED <<conn, pool, dialed, at, result, late, executions>> /\ pc' = [pc EXCEPT ![g] = "dial"]
    BY <1>0, <1>1, <1>2 DEF GetConnection, Idle, Remaining, a
  <2>2. /\ left' = [left EXCEPT ![g] = Retries] /\ dialLeft' = [dialLeft EXCEPT ![g] = Retries]
    BY DEF GetConnection
  <2>3. TypeOK' /\ HoldInv'
    BY <1>0, <1>1, <2>1, <2>2 DEF HoldInv
  <2>4. BudgetInv' /\ ResultInv'
    BY <1>1, <2>1, <2>2 DEF Budget, BudgetInv, ResultInv
  <2>5. QED
    BY <2>1, <2>3, <2>4, UnchangedExclusive
<1>3. CASE q # <<>>
  <2> DEFINE c == Head(q)
  <2>1. /\ conn' = [conn EXCEPT ![g] = c] /\ pool' = [pool EXCEPT ![a] = Tail(q)]
        /\ pc' = [pc EXCEPT ![g] = "call"]
        /\ left' = [left EXCEPT ![g] = Retries] /\ dialLeft' = [dialLeft EXCEPT ![g] = Retries]
        /\ UNCHANGED <<dialed, at, result, late, executions>>
    <3>1. c # 0 /\ Idle(a) = c /\ Remaining(a) = Tail(q)
      BY <1>0, <1>1, <1>3, TailLemma DEF Idle, Remaining
    <3>2. QED
      BY <3>1 DEF GetConnection, a
  <2>2. /\ c \in Nat \ {0} /\ Tail(q) \in Seq(Nat \ {0}) /\ IsInjective(Tail(q))
        /\ c \in Range(q) /\ c \notin Range(Tail(q)) /\ Range(q) = Range(Tail(q)) \cup {c}
    BY <1>0, <1>1, <1>3, TailLemma
  <2> HIDE DEF c
  <2>3. TypeOK'
    <3>1. pool' \in [Address -> Seq(Nat \ {0})]
      BY <1>0, <2>1, <2>2
    <3>2. conn' \in [Goroutine -> Nat] /\ pc' \in [Goroutine -> Locations]
      BY <2>1, <2>2
    <3>3. left' \in [Goroutine -> 0..Retries] /\ dialLeft' \in [Goroutine -> Nat]
      BY <2>1
    <3>4. QED
      BY <2>1, <3>1, <3>2, <3>3
  <2>4. HoldInv'
    BY <1>0, <1>1, <2>1, <2>2 DEF HoldInv
  <2>5. ResultInv'
    BY <1>1, <2>1 DEF ResultInv
  <2>6. BudgetInv'
    <3>1. ASSUME NEW h \in Goroutine, h # g PROVE Budget(h)'
      BY <2>1, <3>1 DEF BudgetInv, Budget
    <3>2. Budget(g)'
      BY <1>1, <2>1 DEF BudgetInv, Budget
    <3>3. QED
      BY <3>1, <3>2 DEF BudgetInv
  <2>7. ConnExclusive'
    <3>1. /\ \A h \in Held : conn[h] \notin Pooled
          /\ \A b \in Address : IsInjective(pool[b])
          /\ \A b, d \in Address : b # d => Range(pool[b]) \cap Range(pool[d]) = {}
          /\ \A h, k \in Held : conn[h] = conn[k] => h = k
          /\ {conn[h] : h \in Held} \cup Pooled = 1..dialed
      BY DEF ConnExclusive
    <3>2. Held' = Held \cup {g} /\ g \notin Held
      BY <1>1, <2>1, <2>2 DEF Held
    <3>3. \A b \in Address : Range(pool'[b]) = IF b = a THEN Range(q) \ {c} ELSE Range(pool[b])
      BY <1>0, <2>1, <2>2
    <3>4. c \in Pooled /\ Pooled' = Pooled \ {c}
      <4>1. \A b \in Address : b # a => c \notin Range(pool[b])
        BY <1>0, <2>2, <3>1
      <4>2. Pooled' = UNION {Range(pool'[b]) : b \in Address}
        BY DEF Pooled
      <4>3. c \in Pooled
        BY <1>0, <2>2 DEF Pooled
      <4>4. ASSUME NEW x \in Pooled' PROVE x \in Pooled \ {c}
        <5>1. PICK b \in Address : x \in Range(pool'[b])
          BY <4>2, <4>4
        <5>2. x \in Range(pool[b]) /\ x # c
          BY <1>0, <3>3, <4>1, <5>1
        <5>3. QED
          BY <5>2 DEF Pooled
      <4>5. ASSUME NEW x \in Pooled \ {c} PROVE x \in Pooled'
        <5>1. PICK b \in Address : x \in Range(pool[b])
          BY <4>5 DEF Pooled
        <5>2. x \in Range(pool'[b])
          BY <1>0, <3>3, <4>5, <5>1
        <5>3. QED
          BY <4>2, <5>2
      <4>6. QED
        BY <4>3, <4>4, <4>5
    <3>5. \A h \in Held : conn'[h] = conn[h] /\ conn[h] # c
      BY <3>1, <3>2, <3>4, <2>1, SMTT(30) DEF Held
    <3>6. conn'[g] = c
      BY <2>1
    <3>7. \A b \in Address : IsInjective(pool'[b])
      BY <1>0, <2>1, <2>2, <3>1
    <3>8. {conn'[h] : h \in Held'} = {conn[h] : h \in Held} \cup {c}
      <4> HIDE DEF IInv, TypeOK
      <4>1. ASSUME NEW x \in {conn'[h] : h \in Held'} PROVE x \in {conn[h] : h \in Held} \cup {c}
        BY <3>2, <3>5, <3>6
      <4>2. ASSUME NEW x \in {conn[h] : h \in Held} \cup {c} PROVE x \in {conn'[h] : h \in Held'}
        BY <3>2, <3>5, <3>6
      <4>3. QED
        BY <4>1, <4>2
    <3>9. \A b, d \in Address : b # d => Range(pool'[b]) \cap Range(pool'[d]) = {}
      BY <1>0, <3>1, <3>3
    <3>10. \A h, k \in Held' : conn'[h] = conn'[k] => h = k
      BY <3>1, <3>2, <3>5, <3>6, ZenonT(30)
    <3>11. \A h \in Held' : conn'[h] \notin Pooled'
      BY <3>1, <3>2, <3>4, <3>5, <3>6
    <3>12. {conn'[h] : h \in Held'} \cup Pooled' = 1..dialed'
      BY <3>1, <3>4, <3>8, <2>1, ZenonT(30)
    <3>13. QED
      BY <3>7, <3>9, <3>10, <3>11, <3>12 DEF ConnExclusive
  <2>8. QED
    BY <2>3, <2>4, <2>5, <2>6, <2>7
<1>4. QED
  BY <1>2, <1>3

\* A new connection has a number of its own.
LEMMA DialOkStep ==
  ASSUME IInv, NEW g \in Goroutine, DialOk(g)
  PROVE  IInv'
<1> USE RpcAssumption DEF IInv, TypeOK, Goto, Locations, Results
<1>1. /\ conn' = [conn EXCEPT ![g] = dialed + 1] /\ dialed' = dialed + 1
      /\ pc[g] = "dial" /\ pc' = [pc EXCEPT ![g] = "call"]
      /\ UNCHANGED <<at, dialLeft, left, pool, result, late, executions>>
  BY DEF DialOk
<1>2. conn[g] = 0
  BY <1>1 DEF HoldInv
<1>3. TypeOK' /\ HoldInv'
  BY <1>1, SMTT(30) DEF HoldInv
<1>4. ResultInv'
  BY <1>1 DEF ResultInv
<1>5. BudgetInv'
  <2>1. ASSUME NEW h \in Goroutine, h # g PROVE Budget(h)'
    BY <1>1, <2>1 DEF BudgetInv, Budget
  <2>2. Budget(g)'
    BY <1>1 DEF BudgetInv, Budget
  <2>3. QED
    BY <2>1, <2>2 DEF BudgetInv
<1>6. ConnExclusive'
  <2>1. /\ \A h \in Held : conn[h] \notin Pooled
        /\ \A b \in Address : IsInjective(pool[b])
        /\ \A b, d \in Address : b # d => Range(pool[b]) \cap Range(pool[d]) = {}
        /\ \A h, k \in Held : conn[h] = conn[k] => h = k
        /\ {conn[h] : h \in Held} \cup Pooled = 1..dialed
    BY DEF ConnExclusive
  <2>2. Held' = Held \cup {g} /\ g \notin Held /\ Pooled' = Pooled /\ dialed \in Nat
    BY <1>1, <1>2 DEF Held, Pooled
  <2>3. (\A h \in Held : conn'[h] = conn[h]) /\ conn'[g] = dialed + 1
    BY <1>1, <2>2 DEF Held
  <2>4. dialed + 1 \notin 1..dialed /\ 1..(dialed + 1) = 1..dialed \cup {dialed + 1}
    BY <2>2
  <2>5. dialed + 1 \notin Pooled /\ \A h \in Held : conn[h] # dialed + 1
    BY <2>1, <2>4
  <2>6. {conn'[h] : h \in Held'} = {conn[h] : h \in Held} \cup {dialed + 1}
    BY <2>2, <2>3
  <2>7. {conn'[h] : h \in Held'} \cup Pooled' = 1..dialed'
    BY <1>1, <2>1, <2>2, <2>4, <2>6
  <2>8. \A h, k \in Held' : conn'[h] = conn'[k] => h = k
    BY <2>1, <2>2, <2>3, <2>5
  <2>9. \A h \in Held' : conn'[h] \notin Pooled'
    BY <2>1, <2>2, <2>3, <2>5
  <2>10. QED
    BY <1>1, <2>1, <2>7, <2>8, <2>9 DEF ConnExclusive
<1>7. QED
  BY <1>3, <1>4, <1>5, <1>6

\* The connection goes back to the pool of its address, whatever came of the call.
LEMMA PutConnectionStep ==
  ASSUME IInv, NEW g \in Goroutine, PutConnection(g)
  PROVE  IInv'
<1> USE RpcAssumption DEF IInv, TypeOK, Goto, Locations, Results
<1> DEFINE a == Addr(g)
           q == pool[a]
           c == conn[g]
<1>0. a \in Address /\ q \in Seq(Nat \ {0})
  <2>1. Addrs[g] \in Seq(Address) /\ at[g] \in 1..Len(Addrs[g])
    BY DEF PutConnection, HoldInv
  <2>2. QED
    BY <2>1, ElementOfSeq DEF Addr
<1>1. /\ pc[g] = "put" /\ pc' = [pc EXCEPT ![g] = "return"]
      /\ pool' = [pool EXCEPT ![a] = Append(q, c)]
      /\ conn' = [conn EXCEPT ![g] = 0]
      /\ UNCHANGED <<at, dialLeft, left, dialed, result, late, executions>>
  BY <1>0 DEF PutConnection
<1>2. c \in Nat \ {0} /\ g \in Held
  BY <1>1 DEF HoldInv, Held
<1>3. /\ \A h \in Held : conn[h] \notin Pooled
      /\ \A b \in Address : IsInjective(pool[b])
      /\ \A b, d \in Address : b # d => Range(pool[b]) \cap Range(pool[d]) = {}
      /\ \A h, k \in Held : conn[h] = conn[k] => h = k
      /\ {conn[h] : h \in Held} \cup Pooled = 1..dialed
  BY DEF ConnExclusive
<1>4. c \notin Pooled /\ \A b \in Address : c \notin Range(pool[b])
  BY <1>2, <1>3 DEF Pooled
<1> HIDE DEF a, c
<1>5. /\ Append(q, c) \in Seq(Nat \ {0}) /\ IsInjective(Append(q, c))
      /\ Range(Append(q, c)) = Range(q) \cup {c}
  <2>1. IsInjective(q) /\ c \notin Range(q)
    BY <1>0, <1>3, <1>4
  <2> HIDE DEF q
  <2>2. QED
    <3> DEFINE S == Nat \ {0}
    <3>1. q \in Seq(S) /\ c \in S
      BY <1>0, <1>2
    <3> HIDE DEF S
    <3>2. /\ Append(q, c) \in Seq(S) /\ IsInjective(Append(q, c))
          /\ Range(Append(q, c)) = Range(q) \cup {c}
      BY ONLY <2>1, <3>1, AppendLemma
    <3>3. QED
      BY <3>2 DEF S
<1>6. TypeOK'
  <2>1. pool' \in [Address -> Seq(Nat \ {0})]
    BY <1>0, <1>1, <1>5
  <2>2. conn' \in [Goroutine -> Nat] /\ pc' \in [Goroutine -> Locations]
    BY <1>1
  <2>3. QED
    BY <1>1, <2>1, <2>2
<1>7. HoldInv' /\ ResultInv'
  BY <1>1 DEF HoldInv, ResultInv
<1>8. BudgetInv'
  BY <1>1 DEF BudgetInv, Budget
<1>9. ConnExclusive'
  <2>1. Held' = Held \ {g} /\ \A h \in Held' : conn'[h] = conn[h] /\ conn[h] # c
    BY <1>1, <1>2, <1>3 DEF Held, c
  <2>2. \A b \in Address : Range(pool'[b]) = IF b = a THEN Range(q) \cup {c} ELSE Range(pool[b])
    BY <1>0, <1>1, <1>5
  <2>3. Pooled' = Pooled \cup {c}
    <3>1. Pooled' = UNION {Range(pool'[b]) : b \in Address}
      BY DEF Pooled
    <3>2. ASSUME NEW x \in Pooled' PROVE x \in Pooled \cup {c}
      <4>1. PICK b \in Address : x \in Range(pool'[b])
        BY <3>1, <3>2
      <4>2. x \in Range(pool[b]) \/ x = c
        BY <1>0, <2>2, <4>1
      <4>3. QED
        BY <4>2 DEF Pooled
    <3>3. ASSUME NEW x \in Pooled PROVE x \in Pooled'
      <4>1. PICK b \in Address : x \in Range(pool[b])
        BY <3>3 DEF Pooled
      <4>2. x \in Range(pool'[b])
        BY <1>0, <2>2, <4>1
      <4>3. QED
        BY <3>1, <4>2
    <3>4. c \in Pooled'
      BY <1>0, <2>2, <3>1
    <3>5. QED
      BY <3>2, <3>3, <3>4
  <2>4. {conn[h] : h \in Held} = {conn'[h] : h \in Held'} \cup {c}
    BY <1>2, <2>1 DEF c
  <2>5. {conn'[h] : h \in Held'} \cup Pooled' = 1..dialed'
    BY <1>1, <1>3, <2>3, <2>4
  <2>6. \A b \in Address : IsInjective(pool'[b])
    BY <1>0, <1>1, <1>3, <1>5
  <2>7. \A b, d \in Address : b # d => Range(pool'[b]) \cap Range(pool'[d]) = {}
    <3> SUFFICES ASSUME NEW b \in Address, NEW d \in Address, b # d,
                        NEW x \in Range(pool'[b]), x \in Range(pool'[d])
                 PROVE  FALSE
      OBVIOUS
    <3>1. (x \in Range(pool[b]) \/ (b = a /\ x = c)) /\ (x \in Range(pool[d]) \/ (d = a /\ x = c))
      BY <1>0, <2>2
    <3>2. QED
      BY <1>3, <1>4, <3>1
  <2>8. \A h, k \in Held' : conn'[h] = conn'[k] => h = k
    BY <1>3, <2>1
  <2>9. \A h \in Held' : conn'[h] \notin Pooled'
    BY <1>3, <2>1, <2>3
  <2>10. QED
    BY <2>5, <2>6, <2>7, <2>8, <2>9 DEF ConnExclusive
<1>10. QED
  BY <1>6, <1>7, <1>8, <1>9

-----------------------------------------------------------------------------

\* Every step keeps the invariant.
LEMMA NextIInv == IInv /\ [Next]_vars => IInv'
<1> SUFFICES ASSUME IInv, [Next]_vars PROVE IInv'
  OBVIOUS
<1>1. ASSUME NEW g \in Goroutine,
             \/ DialAgain(g) \/ DialFails(g) \/ StubOk(g)
             \/ (\E n \in 0..1 : StubRetryStatus(g, n) \/ StubStatus(g, n) \/ StubError(g, n))
             \/ Return(g) \/ LateExecution(g)
      PROVE  IInv'
  BY <1>1, CallSteps, UnchangedExclusive DEF IInv, LocalInv
<1>2. ASSUME NEW g \in Goroutine, GetConnection(g) \/ DialOk(g) \/ PutConnection(g)
      PROVE  IInv'
  BY <1>2, GetConnectionStep, DialOkStep, PutConnectionStep
<1>3. CASE UNCHANGED vars
  <2>1. UNCHANGED <<conn, pool, dialed>> /\ UNCHANGED <<pc, at, dialLeft, left, result, late, executions>>
    BY <1>3 DEF vars
  <2>2. TypeOK'
    BY <2>1 DEF IInv, TypeOK
  <2>3. HoldInv' /\ ResultInv'
    BY <2>1 DEF IInv, HoldInv, ResultInv
  <2>4. BudgetInv'
    BY <2>1 DEF IInv, BudgetInv, Budget
  <2>5. QED
    BY <2>1, <2>2, <2>3, <2>4, UnchangedExclusive DEF IInv
<1>4. QED
  BY <1>1, <1>2, <1>3 DEF Next, Step, Quiet

LEMMA Invariance == Spec => []IInv
<1>1. QED
  BY InitIInv, NextIInv, PTL DEF Spec

\* The connection pool of pool.go and its use in GetRpcResponse: at any time a
\* connection is held by one goroutine or idle in one place, and none is lost.
THEOREM ConnectionsAreExclusive == Spec => []ConnExclusive
<1>1. IInv => ConnExclusive
  BY DEF IInv
<1>2. QED
  BY <1>1, Invariance, PTL

-----------------------------------------------------------------------------
(* Rpc does no more than RpcCall allows.                                   *)

LEMMA InitRefines == Init => Abstract!Init
  BY DEF Init, Abstract!Init, stateBar

\* Every step of a call is a step of the abstract call, or is not seen there.
LEMMA StepRefines == IInv /\ [Next]_vars => [Abstract!Next]_Abstract!vars
<1> SUFFICES ASSUME IInv, [Next]_vars PROVE [Abstract!Next]_Abstract!vars
  OBVIOUS
<1> DEFINE Hidden == UNCHANGED <<stateBar, executions>>
<1> USE RpcAssumption DEF Goto, SetClue
<1>0. TypeOK /\ HoldInv /\ BudgetInv /\ ResultInv
  BY DEF IInv
\* A step that changes neither what a call has come to nor what was executed.
<1>1. ASSUME Hidden PROVE [Abstract!Next]_Abstract!vars
  BY <1>1 DEF Abstract!vars
<1>2. ASSUME NEW g \in Goroutine, Step(g) \/ LateExecution(g) PROVE [Abstract!Next]_Abstract!vars
  <2>0. pc[g] \in Locations /\ result[g] \in Results /\ executions[g] \in Nat /\ late[g] \in Nat
        /\ left[g] \in 0..Retries /\ Budget(g)
    BY <1>0 DEF TypeOK, BudgetInv
  \* A step of g from pc[g] to other, when the other goroutines stay where they are.
  <2>1. ASSUME NEW p \in Locations, NEW r \in Results,
               pc' = [pc EXCEPT ![g] = p], result' = [result EXCEPT ![g] = r]
        PROVE  stateBar' = [stateBar EXCEPT ![g] =
                  IF p \in {"put", "return", "done"} THEN r
                  ELSE IF p = "panic" THEN "failed" ELSE "open"]
    BY <1>0, <2>1 DEF TypeOK, stateBar
  <2>2. stateBar[g] = IF pc[g] \in {"put", "return", "done"} THEN result[g]
                      ELSE IF pc[g] = "panic" THEN "failed" ELSE "open"
    BY DEF stateBar
  <2>3. CASE GetConnection(g) \/ DialOk(g) \/ DialAgain(g) \/ DialFails(g) \/ PutConnection(g)
    <3>1. Hidden
      BY <1>0, <2>3 DEF GetConnection, DialOk, DialAgain, DialFails, PutConnection, stateBar, TypeOK
    <3>2. QED
      BY <1>1, <3>1
  <2>4. CASE StubOk(g)
    <3>1. /\ stateBar' = [stateBar EXCEPT ![g] = "ok"] /\ stateBar[g] = "open"
          /\ executions' = [executions EXCEPT ![g] = @ + 1] /\ pc[g] = "call"
      BY <2>1, <2>2, <2>4 DEF StubOk, Locations, Results
    <3>2. executions[g] < Retries + 1
      BY <2>0, <3>1 DEF Budget
    <3>3. QED
      BY <3>1, <3>2 DEF Abstract!Next, Abstract!ExecuteAndReturn
  <2>5. ASSUME NEW n \in 0..1, StubRetryStatus(g, n) PROVE [Abstract!Next]_Abstract!vars
    <3>1. stateBar' = stateBar /\ executions' = [executions EXCEPT ![g] = @ + n] /\ pc[g] = "call"
      BY <2>5 DEF StubRetryStatus, stateBar
    <3>2. CASE n = 0
      <4>1. executions' = executions
        BY <1>0, <3>1, <3>2 DEF TypeOK
      <4>2. QED
        BY <1>1, <3>1, <4>1
    <3>3. CASE n = 1
      <4>1. executions[g] < Retries + 1
        BY <2>0, <3>1 DEF Budget
      <4>2. QED
        BY <3>1, <3>3, <4>1 DEF Abstract!Next, Abstract!Execute
    <3>4. QED
      BY <3>2, <3>3
  <2>6. ASSUME NEW n \in 0..1, StubStatus(g, n) PROVE [Abstract!Next]_Abstract!vars
    <3>1. /\ stateBar' = [stateBar EXCEPT ![g] = "status"] /\ stateBar[g] = "open"
          /\ executions' = [executions EXCEPT ![g] = @ + n] /\ pc[g] = "call"
      BY <2>1, <2>2, <2>6 DEF StubStatus, StatusError, Locations, Results
    <3>2. CASE n = 0
      <4>1. executions' = executions
        BY <1>0, <3>1, <3>2 DEF TypeOK
      <4>2. QED
        BY <3>1, <4>1 DEF Abstract!Next, Abstract!Answered, Abstract!Return
    <3>3. CASE n = 1
      <4>1. executions[g] < Retries + 1
        BY <2>0, <3>1 DEF Budget
      <4>2. QED
        BY <3>1, <3>3, <4>1 DEF Abstract!Next, Abstract!ExecuteAndReturn
    <3>4. QED
      BY <3>2, <3>3
  <2>7. ASSUME NEW n \in 0..1, StubError(g, n) PROVE [Abstract!Next]_Abstract!vars
    <3>1. CASE MayRetry(g)
      <4>1. Hidden
        BY <2>7, <3>1 DEF StubError, stateBar
      <4>2. QED
        BY <1>1, <4>1
    <3>2. CASE ~MayRetry(g)
      <4>1. /\ stateBar' = [stateBar EXCEPT ![g] = "failed"] /\ stateBar[g] = "open"
            /\ UNCHANGED executions
        BY <2>1, <2>2, <2>7, <3>2 DEF StubError, Locations, Results
      <4>2. QED
        BY <4>1 DEF Abstract!Next, Abstract!Answered, Abstract!Return
    <3>3. QED
      BY <3>1, <3>2
  <2>8. CASE Return(g)
    <3>1. CASE pc[g] = "return"
      <4>1. result[g] # "nil"
        BY <1>0, <3>1 DEF ResultInv
      <4>2. pc' = [pc EXCEPT ![g] = "done"] /\ UNCHANGED <<result, executions>>
        BY <2>8, <4>1 DEF Return
      <4>3. Hidden
        BY <1>0, <3>1, <4>2 DEF stateBar, TypeOK
      <4>4. QED
        BY <1>1, <4>3
    <3>2. CASE pc[g] = "get"
      <4>1. result[g] \in {"nil", "failed"} /\ UNCHANGED <<result, executions>> /\ result' = [result EXCEPT ![g] = result[g]]
        BY <1>0, <2>8, <3>2 DEF ResultInv, Return, TypeOK
      <4>2. stateBar' = [stateBar EXCEPT ![g] = "failed"] /\ stateBar[g] = "open"
        <5>1. CASE result[g] = "nil"
          BY <2>0, <2>1, <2>2, <2>8, <3>2, <4>1, <5>1 DEF Return, Locations
        <5>2. CASE result[g] = "failed"
          BY <2>0, <2>1, <2>2, <2>8, <3>2, <4>1, <5>2 DEF Return, Locations
        <5>3. QED
          BY <4>1, <5>1, <5>2
      <4>3. QED
        BY <4>1, <4>2 DEF Abstract!Next, Abstract!Answered, Abstract!Return
    <3>3. QED
      BY <2>8, <3>1, <3>2 DEF Return
  <2>9. CASE LateExecution(g)
    <3>1. /\ stateBar' = stateBar /\ executions' = [executions EXCEPT ![g] = @ + 1]
          /\ late[g] > 0
      BY <2>9 DEF LateExecution, stateBar
    <3>2. executions[g] < Retries + 1
      BY <2>0, <3>1 DEF Budget
    <3>3. QED
      BY <3>1, <3>2 DEF Abstract!Next, Abstract!Execute
  <2>10. QED
    BY <1>2, <2>3, <2>4, <2>5, <2>6, <2>7, <2>8, <2>9 DEF Step
<1>3. CASE UNCHANGED vars
  BY <1>1, <1>3 DEF vars, stateBar
<1>4. QED
  BY <1>2, <1>3, <1>1 DEF Next, Quiet, vars, stateBar

\* GetRpcResponse keeps its promise, whatever is lost, late or asked to be repeated:
\* the mds executes a request Retries + 1 times at most, and a success is reported
\* only for a request it executed.  (That a call returns is left to model checking.)
THEOREM CallIsSafe == Spec => Abstract!Safety
<1>1. QED
  BY InitRefines, StepRefines, Invariance, PTL DEF Spec, Abstract!Safety
=============================================================================
