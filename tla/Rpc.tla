-------------------------------- MODULE Rpc --------------------------------
(***************************************************************************)
(* rpc.GetRpcResponse and its connection pool, called by the goroutines of *)
(* one process (the walks of `quota set`, `subpath delete`, ...). A call   *)
(* takes an idle connection to the first address or dials, tries the next  *)
(* address when it cannot dial, repeats a request that has no answer or    *)
(* whose status asks for a retry, and gives the connection back. The mds   *)
(* may execute a request and lose the answer, or execute it after the      *)
(* client stopped waiting.                                                 *)
(***************************************************************************)
EXTENDS Naturals, Sequences, Functions

CONSTANTS Goroutine,  \* concurrent callers, one call each
          Addrs,      \* Addrs[g]: the addresses the call of g is given
          Retries,    \* --rpcretrytimes
          Address     \* every address

ASSUME RpcAssumption == Retries \in Nat /\ Addrs \in [Goroutine -> Seq(Address)]

VARIABLES pc,         \* where GetRpcResponse of g is
          at,         \* index in Addrs[g]
          dialLeft,   \* retrytimes of GetConnection
          left,       \* retryTimes of the calls on one connection
          conn,       \* connection that g holds, 0 for none
          pool,       \* ConnectionPool.connections
          dialed,     \* number of connections ever dialed
          result,     \* Result.err of g: "nil", "ok", "status", "failed"
          clue,       \* Clue of the one errno.ERR_RPC_FAILED, the last goroutine that set it
          late,       \* requests of g that timed out and may still be executed
          executions  \* how often the mds executed the request of g

vars == <<pc, at, dialLeft, left, conn, pool, dialed, result, clue, late, executions>>

Init == /\ pc = [g \in Goroutine |-> "get"]
        /\ at = [g \in Goroutine |-> 1]
        /\ dialLeft = [g \in Goroutine |-> 0]
        /\ left = [g \in Goroutine |-> 0]
        /\ conn = [g \in Goroutine |-> 0]
        /\ pool = [a \in Address |-> <<>>]
        /\ dialed = 0
        /\ result = [g \in Goroutine |-> "nil"]
        /\ clue = {}
        /\ late = [g \in Goroutine |-> 0]
        /\ executions = [g \in Goroutine |-> 0]

Addr(g) == Addrs[g][at[g]]

Goto(g, to) == pc' = [pc EXCEPT ![g] = to]

\* E and S write the clue into the one error value and return it.
SetClue(g) == clue' = {g}

-----------------------------------------------------------------------------

\* The first idle connection leaves the pool under the lock.
Idle(a) == IF pool[a] = <<>> THEN 0 ELSE Head(pool[a])
RemainingAll(a) == pool[a]
Remaining(a) == IF pool[a] = <<>> THEN <<>> ELSE Tail(pool[a])

GetConnection(g) ==
    /\ pc[g] = "get" /\ at[g] <= Len(Addrs[g])
    /\ conn' = [conn EXCEPT ![g] = Idle(Addr(g))]
    /\ pool' = [pool EXCEPT ![Addr(g)] = Remaining(Addr(g))]
    /\ dialLeft' = [dialLeft EXCEPT ![g] = Retries]
    /\ left' = [left EXCEPT ![g] = Retries]
    /\ Goto(g, IF Idle(Addr(g)) = 0 THEN "dial" ELSE "call")
    /\ UNCHANGED <<at, dialed, result, clue, late, executions>>

DialOk(g) ==
    /\ pc[g] = "dial"
    /\ dialed' = dialed + 1
    /\ conn' = [conn EXCEPT ![g] = dialed + 1]
    /\ Goto(g, "call")
    /\ UNCHANGED <<at, dialLeft, left, pool, result, clue, late, executions>>

DialAgain(g) ==
    /\ pc[g] = "dial" /\ dialLeft[g] > 0
    /\ dialLeft' = [dialLeft EXCEPT ![g] = @ - 1]
    /\ UNCHANGED <<pc, at, left, conn, pool, dialed, result, clue, late, executions>>

\* No connection: remember the error and try the next address.
DialFails(g) ==
    /\ pc[g] = "dial" /\ dialLeft[g] = 0
    /\ result' = [result EXCEPT ![g] = "failed"] /\ SetClue(g)
    /\ at' = [at EXCEPT ![g] = @ + 1]
    /\ Goto(g, "get")
    /\ UNCHANGED <<dialLeft, left, conn, pool, dialed, late, executions>>

-----------------------------------------------------------------------------

\* The call has an answer without error.
StubOk(g) ==
    /\ pc[g] = "call"
    /\ executions' = [executions EXCEPT ![g] = @ + 1]
    /\ result' = [result EXCEPT ![g] = "ok"]
    /\ Goto(g, "put")
    /\ UNCHANGED <<at, dialLeft, left, conn, pool, dialed, clue, late>>

\* CheckRpcNeedRetry: EREQUEST_FULL, EREDIRECT, ENOT_SERVE, EPARTIAL_SUCCESS and
\* ESTORE_MAYBE_RETRY ask for a retry; the last two after the mds did something.
MayRetry(g) == left[g] > 0

StubRetryStatus(g, executed) ==
    /\ pc[g] = "call" /\ MayRetry(g)
    /\ executions' = [executions EXCEPT ![g] = @ + executed]
    /\ left' = [left EXCEPT ![g] = @ - 1]
    /\ UNCHANGED <<pc, at, dialLeft, conn, pool, dialed, result, clue, late>>

\* Any other status, or one that asks for a retry when none is left, is a result
\* for the caller, which finds the error in it.
StatusErrorAsOk(g) == "ok"
StatusError(g) == "status"
StubStatus(g, executed) ==
    /\ pc[g] = "call"
    /\ executed = 1 => ~MayRetry(g)
    /\ executions' = [executions EXCEPT ![g] = @ + executed]
    /\ result' = [result EXCEPT ![g] = StatusError(g)]
    /\ Goto(g, "put")
    /\ UNCHANGED <<at, dialLeft, left, conn, pool, dialed, clue, late>>

\* Timeout or broken connection; the request may still be on its way.
StubError(g, sent) ==
    /\ pc[g] = "call"
    /\ late' = [late EXCEPT ![g] = @ + sent]
    /\ IF MayRetry(g)
       THEN /\ left' = [left EXCEPT ![g] = @ - 1]
            /\ UNCHANGED <<pc, result, clue>>
       ELSE /\ result' = [result EXCEPT ![g] = "failed"] /\ SetClue(g)
            /\ Goto(g, "put")
            /\ UNCHANGED left
    /\ UNCHANGED <<at, dialLeft, conn, pool, dialed, executions>>

LateExecution(g) ==
    /\ late[g] > 0
    /\ late' = [late EXCEPT ![g] = @ - 1]
    /\ executions' = [executions EXCEPT ![g] = @ + 1]
    /\ UNCHANGED <<pc, at, dialLeft, left, conn, pool, dialed, result, clue>>

\* The connection goes back whether the call succeeded or not, and the loop over
\* the addresses ends either way.
PutConnection(g) ==
    /\ pc[g] = "put"
    /\ pool' = [pool EXCEPT ![Addr(g)] = Append(@, conn[g])]
    /\ conn' = [conn EXCEPT ![g] = 0]
    /\ Goto(g, "return")
    /\ UNCHANGED <<at, dialLeft, left, dialed, result, clue, late, executions>>

\* result.err is nil when there was no address at all: the method call panics.
Return(g) ==
    /\ \/ pc[g] = "return"
       \/ pc[g] = "get" /\ at[g] > Len(Addrs[g])
    /\ Goto(g, IF result[g] = "nil" THEN "panic" ELSE "done")
    /\ IF result[g] = "status" THEN SetClue(g) ELSE UNCHANGED clue
    /\ UNCHANGED <<at, dialLeft, left, conn, pool, dialed, result, late, executions>>

Finished(g) == pc[g] \in {"done", "panic"}

Step(g) == \/ GetConnection(g) \/ DialOk(g) \/ DialAgain(g) \/ DialFails(g)
           \/ StubOk(g) \/ (\E n \in 0..1: StubRetryStatus(g, n) \/ StubStatus(g, n) \/ StubError(g, n))
           \/ PutConnection(g) \/ Return(g)

Quiet == (\A g \in Goroutine: Finished(g) /\ late[g] = 0) /\ UNCHANGED vars

Next == (\E g \in Goroutine: Step(g) \/ LateExecution(g)) \/ Quiet

Spec == Init /\ [][Next]_vars /\ \A g \in Goroutine: WF_vars(Step(g))

-----------------------------------------------------------------------------

Held == {g \in Goroutine: conn[g] # 0}
Pooled == UNION {Range(pool[a]): a \in Address}

\* A connection is held by at most one goroutine, or idle once in the pool of one
\* address, and never both: pool.go hands one out under the lock and client.go
\* gives it back exactly once, after failures too; none that was dialed is lost.
ConnExclusive ==
    /\ \A g, h \in Held: conn[g] = conn[h] => g = h
    /\ \A a \in Address: IsInjective(pool[a])
    /\ \A a, b \in Address: a # b => Range(pool[a]) \cap Range(pool[b]) = {}
    /\ \A g \in Held: conn[g] \notin Pooled
    /\ {conn[g]: g \in Held} \cup Pooled = 1..dialed

\* What a call has come to, for its caller.
stateBar == [g \in Goroutine |->
    IF pc[g] \in {"put", "return", "done"} THEN result[g]
    ELSE IF pc[g] = "panic" THEN "failed" ELSE "open"]

\* A call implements its contract: a success is reported only for a request the
\* mds executed, a request is executed Retries + 1 times at most, whatever is
\* lost, late or asked to be repeated, and every call returns. A panic (no
\* address) is a failure without an answer.
Abstract == INSTANCE RpcCall WITH MaxExecutions <- Retries + 1, state <- stateBar
ImplementsCall == Abstract!Spec
=============================================================================
